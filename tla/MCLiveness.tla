------------------------------ MODULE MCLiveness ------------------------------
(***************************************************************************)
(* The liveness properties of SocketTransport and Submission, one of the   *)
(* two running.  The socket does nothing before its manager is started;    *)
(* without a project, recovery only notes the session and lets time pass,  *)
(* which it has done before the socket runs: nothing that is fair is left. *)
(***************************************************************************)
EXTENDS SocketTransport

CONSTANTS Creator, Recovered, None, Pass

VARIABLES
  running,   \* the component that runs
  owner, connection, connected, frames, service, admitted, resent, inbox, tracked, handle,
  submission, age, recheck, task, pass

projectVars == <<owner, connection, connected, frames, service, admitted, resent, inbox,
                 tracked, handle, submission, age, recheck, task, pass>>

Projects == INSTANCE Submission WITH
  Creators <- {Creator}, Passes <- {Pass}, MaxSession <- 0, MaxGeneration <- 2,
  HttpFails <- FALSE, Late <- FALSE, session <- owner, generation <- connection

LiveInit == running \in {"socket", "projects"} /\ Init /\ Projects!Init

Settled == age = "old" /\ submission.handledSession = owner

LiveNext ==
  \/ /\ running = "socket" /\ UNCHANGED running
     /\ \/ Settled /\ Next /\ UNCHANGED projectVars
        \/ (Projects!Age \/ Projects!HearSwitch) /\ UNCHANGED <<resent, vars>>
  \/ running = "projects" /\ Projects!Next /\ UNCHANGED <<running, vars>>

LiveSpec ==
  LiveInit /\ [][LiveNext]_<<running, vars, projectVars>> /\ Fairness /\ Projects!Fairness

(* A created project the service knows nothing of is settled (Submission) *)
UndeliveredIsSettled == Projects!UndeliveredIsSettled
================================================================================
