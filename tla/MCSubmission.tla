----------------------------- MODULE MCSubmission -----------------------------
(***************************************************************************)
(* Submission of an id by up to two creators, with up to two recovery      *)
(* passes, in three scenarios, one behaviour in one of them:               *)
(*   "passes"    one creation, two recovery passes at once, three          *)
(*               connections of one account;                               *)
(*   "accounts"  the same id created under two accounts, one pass, two     *)
(*               connections, so that the first account may leave a resend;*)
(*   "resends"   the same without a recovery pass and with a third         *)
(*               connection, so that both accounts may resend.             *)
(* A scenario only leaves out steps of Submission: its behaviours are      *)
(* behaviours of Submission.  Recovery requests may fail in all of them.   *)
(***************************************************************************)
EXTENDS Submission, FiniteSets, TLC

ASSUME ConstantsAreSound

VARIABLE scenario

Symmetry == Permutations(Creators) \cup Permutations(Passes)

Begun == {k \in Creators : handle[k].pc # "idle"}
Running == {p \in Passes : pass[p].pc # "idle"}

Scenario ==
  CASE scenario = "passes" -> session = 0 /\ Cardinality(Begun) <= 1
    [] scenario = "accounts" -> Cardinality(Running) <= 1
    [] scenario = "resends" -> Running = {}

(* A connection is lost while its account stays *)
IsLost == connected /\ ~connected' /\ session' = session

MCInit == Init /\ scenario \in {"passes", "accounts", "resends"}
MCNext ==
  /\ Next /\ UNCHANGED scenario /\ Scenario'
  /\ scenario = "accounts" /\ IsLost => generation = 1
MCSpec == MCInit /\ [][MCNext]_<<vars, scenario>>
================================================================================
