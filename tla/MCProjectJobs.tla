----------------------------- MODULE MCProjectJobs -----------------------------
(***************************************************************************)
(* ProjectJobs in three scenarios, one behaviour in one of them:           *)
(*   "pair"    two renders, one reassigned, indexed frames;                *)
(*   "queue"   one render, frames without an index, two explanations;      *)
(*   "loss"    the same with one explanation and one lost connection, and  *)
(*             workers that load the model first.                          *)
(* The caller may cancel in the second.  A scenario only leaves out steps  *)
(* of ProjectJobs: its behaviours are behaviours of ProjectJobs.           *)
(***************************************************************************)
EXTENDS ProjectJobs, TLC

ASSUME ConstantsAreSound

VARIABLE scenario

Symmetry == Permutations(Renders)

(* What a worker's frame, or a render of a snapshot, says of its index *)
FrameKinds == {"started", "progress", "eta", "retry", "result", "error"}
Frames == {e \in {inbox[i] : i \in DOMAIN inbox} : e.kind \in FrameKinds}
Told == {e.index : e \in Frames}
        \cup (IF recovery.pc = "update" THEN {recovery.job.index} ELSE {})
LoadsFirst == \E e \in Frames : e.phase = "Initiating"

Scenario ==
  CASE scenario = "pair" ->
         /\ Requested = Renders /\ Nothing \notin Told /\ ~LoadsFirst
         /\ service.stamp = 0 /\ losses = 0 /\ service.verdict # "canceled"
    [] scenario = "queue" ->
         /\ Expected = 1 /\ Told \subseteq {Nothing} /\ ~LoadsFirst
         /\ service.stamp > 0 /\ losses = 0
    [] scenario = "loss" ->
         /\ Expected = 1 /\ Told \subseteq {Nothing}
         /\ service.stamp = 1 /\ service.verdict # "canceled"

MCInit == Init /\ scenario \in {"pair", "queue", "loss"} /\ Scenario
MCNext == Next /\ UNCHANGED scenario /\ Scenario'
MCSpec == MCInit /\ [][MCNext]_<<vars, scenario>>
================================================================================
