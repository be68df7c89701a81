-------------------------------- MODULE ToolWait --------------------------------
(***************************************************************************)
(* The wait of a chat tool call for the project it created                 *)
(* (src/src/chat/tools.rs, chat/tools/wait.rs): two deadlines, the queue   *)
(* window and the fixed budget of a worker attempt, against the listener   *)
(* that changes the project and its jobs on another thread.                *)
(*                                                                         *)
(* Time passes in ticks, and a deadline is the number of ticks left, 0 when *)
(* it is over.  What wakes wait_for_completion is in ProjectJobs; here it  *)
(* is done when there is something to return.                              *)
(* A definition marked "Fault" is not part of the specification: put in    *)
(* the place of the definition after it, it must break a property.         *)
(***************************************************************************)
EXTENDS Integers, FiniteSets

CONSTANTS
  Jobs,      \* the results requested
  Timeout,   \* queue time the call allows
  Budgets    \* processing time an attempt may be given (its network and first ETA)

(* What the parameters may be; a module that chooses them assumes it *)
ConstantsAreSound ==
  /\ IsFiniteSet(Jobs) /\ Timeout \in Nat \ {0} /\ Budgets \subseteq Nat \ {0}

VARIABLES
  parent,    \* Project::status
  jobs,      \* the jobs of the project, and the deadline their attempt was given
  hearing,   \* the event the listener is applying
  streams,   \* subscriptions of the call that hold an event: "project", or a job
  wait,      \* wait_for_tool_project and its QueueWindow
  idle       \* history: ticks since an attempt was processed, and since one was for a tick

vars == <<parent, jobs, hearing, streams, wait, idle>>

Never == -1
Ended == {"completed", "failed"}
Known == {j \in Jobs : jobs[j].status # "unknown"}

Init ==
  /\ parent = "pending" /\ hearing = {} /\ streams = {}
  /\ idle = [any |-> 0, tick |-> 0]
  /\ jobs = [j \in Jobs |-> [status |-> "unknown", armed |-> Never]]
  /\ wait = [pc |-> "creating", watched |-> {}, deadline |-> Never, processing |-> FALSE,
             runtime |-> Never, timed |-> FALSE]

Deadlines == {jobs[j].armed : j \in {j \in Jobs : jobs[j].status = "processing"}} \ {Never}
Soonest == CHOOSE d \in Deadlines : \A e \in Deadlines : d <= e

ProcessingDeadline ==
  IF parent \in Ended \cup {"pending"} \/ Deadlines = {} THEN Never ELSE Soonest

--------------------------------------------------------------------------------
(***************************************************************************)
(* The listener.  The lock of a job is released before its project is      *)
(* updated, and each update is followed by its event.                      *)
(***************************************************************************)
EventOf(stream) == streams' = streams \cup ({stream} \cap (wait.watched \cup {"project"}))
Listening ==
  /\ wait.pc # "ended" /\ UNCHANGED wait
  /\ idle' = IF ProcessingDeadline = Never THEN idle ELSE [idle EXCEPT !.any = 0]

(* ensure_job: the handle first, with an event of the project *)
Announce(j) ==
  /\ Listening /\ hearing = {} /\ jobs[j].status = "unknown" /\ parent \notin Ended
  /\ jobs' = [jobs EXCEPT ![j].status = "pending"]
  /\ hearing' = {j} /\ EventOf("project") /\ UNCHANGED parent

(* A worker reports: the model is loading, or the attempt is processed, which gives the *)
(* attempt its deadline if it has none (ProcessingRuntime::observe)                     *)
UpdateJob(j) ==
  /\ Listening /\ hearing \subseteq {j} /\ jobs[j].status \in {"pending", "processing"}
  /\ \E phase \in {"pending", "processing"}, budget \in Budgets :
       jobs' = [jobs EXCEPT ![j] = [status |-> phase,
                  armed |-> IF phase = "processing" /\ @.armed = Never THEN budget
                            ELSE @.armed]]
  /\ hearing' = {"project"} /\ EventOf(j) /\ UNCHANGED parent

UpdateProject ==
  /\ Listening /\ hearing = {"project"}
  /\ parent' = IF parent \in Ended THEN parent ELSE "processing"
  /\ hearing' = {} /\ EventOf("project") /\ UNCHANGED jobs

(* An attempt is given up (retry_job) *)
Retry(j) ==
  /\ Listening /\ hearing = {} /\ jobs[j].status \in {"pending", "processing"}
  /\ parent \notin Ended
  /\ jobs' = [jobs EXCEPT ![j] = [status |-> "pending", armed |-> Never]]
  /\ EventOf("project") /\ UNCHANGED <<parent, hearing>>

(* The whole project is queued again: the attempts lose their deadlines, not their status *)
Requeue ==
  /\ Listening /\ hearing = {}
  /\ jobs' = [j \in Jobs |-> [jobs[j] EXCEPT !.armed = Never]]
  /\ parent' = IF parent \in Ended THEN parent ELSE "queued"
  /\ EventOf("project") /\ UNCHANGED hearing

FinishJob(j) ==
  /\ Listening /\ hearing = {} /\ jobs[j].status \in {"pending", "processing"}
  /\ jobs' = [jobs EXCEPT ![j] = [status |-> "finished", armed |-> Never]]
  /\ EventOf("project") /\ UNCHANGED <<parent, hearing>>

(* The verdict, which may precede the last results; a refusal leaves the jobs as they are *)
Conclude ==
  /\ Listening /\ hearing = {} /\ parent \notin Ended
  /\ parent' \in Ended
  /\ EventOf("project") /\ UNCHANGED <<jobs, hearing>>

--------------------------------------------------------------------------------
(***************************************************************************)
(* The wait.                                                               *)
(***************************************************************************)
Rest == UNCHANGED <<parent, jobs, hearing>>

Start ==
  /\ wait.pc = "creating"
  /\ wait' = [wait EXCEPT !.pc = "watch", !.deadline = Timeout]
  /\ idle' = [any |-> 0, tick |-> 0] /\ streams' = {} /\ Rest

Watch ==
  /\ wait.pc = "watch"
  /\ wait' = [wait EXCEPT !.pc = "look", !.watched = Known]
  /\ Rest /\ UNCHANGED <<streams, idle>>

(* QueueWindow::observe *)
Observed(processing) ==
  [wait EXCEPT !.processing = processing,
               !.deadline = IF ~processing /\ wait.processing THEN Timeout ELSE @]

Look ==
  /\ wait.pc = "look"
  /\ wait' = [Observed(ProcessingDeadline # Never) EXCEPT !.pc = "select",
                !.runtime = ProcessingDeadline, !.timed = parent \notin Ended]
  /\ Rest /\ UNCHANGED <<streams, idle>>

(* wait_for_completion has an answer *)
Finished == \/ parent = "failed"
            \/ parent = "completed" /\ \A j \in Jobs : jobs[j].status = "finished"
Due == wait.timed /\ (IF wait.runtime # Never THEN wait.runtime ELSE wait.deadline) = 0
Ending(how) == wait' = [wait EXCEPT !.pc = how] /\ Rest /\ UNCHANGED <<streams, idle>>

Return == wait.pc = "select" /\ Finished /\ Ending("ended")

(* The timer fires; what it was set for may be over *)
Overrun == ProcessingDeadline = 0
Unserved == parent \notin Ended /\ ProcessingDeadline = Never

(* Fault: the timer is believed, without another look *)
TimerBelieved ==
  /\ wait.pc = "select" /\ ~Finished /\ Due
  /\ Ending(IF wait.processing THEN "overran" ELSE "starved")
Timer ==
  /\ wait.pc = "select" /\ ~Finished /\ Due
  /\ Ending(IF wait.processing THEN IF Overrun THEN "overran" ELSE "watch"
            ELSE IF Unserved THEN "starved" ELSE "watch")

Event ==
  /\ wait.pc = "select" /\ ~Finished /\ ~Due
  /\ \E stream \in streams : streams' = streams \ {stream}
  /\ wait' = [wait EXCEPT !.pc = "watch"]
  /\ Rest /\ UNCHANGED idle

(* execute_tool_call gives up a project it no longer waits for *)
Cancel ==
  /\ wait.pc \in {"overran", "starved"} /\ hearing = {}
  /\ wait' = [wait EXCEPT !.pc = "ended"] /\ UNCHANGED <<hearing, streams, idle>>
  /\ \/ UNCHANGED <<parent, jobs>>   \* the cancellation may fail
     \/ parent \notin Ended /\ parent' = "failed"
        /\ jobs' = [j \in Jobs |-> IF j \in Known
                      THEN [status |-> "finished", armed |-> Never] ELSE jobs[j]]

--------------------------------------------------------------------------------
(* A call that can run runs, and an event is applied, before the next tick *)
Prompt == hearing = {} /\ wait.pc = "select" /\ ~Finished /\ ~Due /\ streams = {}

Left(ticks) == IF ticks \in {Never, 0} THEN ticks ELSE ticks - 1
(* The history counts up to the queue time *)
Longer(ticks) == IF ProcessingDeadline # Never THEN 0 ELSE IF ticks = Timeout THEN ticks ELSE ticks + 1

Tick ==
  /\ Prompt
  /\ jobs' = [j \in Jobs |-> [jobs[j] EXCEPT !.armed = Left(@)]]
  /\ wait' = [wait EXCEPT !.deadline = Left(@), !.runtime = Left(@)]
  /\ idle' = [any |-> Longer(idle.any), tick |-> Longer(idle.tick)]
  /\ UNCHANGED <<parent, hearing, streams>>

Listen == \/ UpdateProject \/ Requeue \/ Conclude
          \/ \E j \in Jobs : Announce(j) \/ UpdateJob(j) \/ Retry(j) \/ FinishJob(j)

Next == Listen \/ Start \/ Watch \/ Look \/ Return \/ Timer \/ Event \/ Cancel \/ Tick

Spec == Init /\ [][Next]_vars

--------------------------------------------------------------------------------
(* Properties *)

(* wait_for_tool_project: "Tool timeout bounds queue time. Active jobs have a separate fixed
   per-attempt runtime budget; status/progress noise extends neither deadline" (wait.rs:54).
   No time passes without the wait once a deadline is over, and it gives up no earlier,
   whatever was reassigned, requeued or finished on the timer's turn. *)
WaitsAsAllowed ==
  [][/\ wait' # wait /\ wait'.pc = wait.pc /\ parent \notin Ended =>
          IF ProcessingDeadline = Never THEN idle.any < Timeout ELSE ProcessingDeadline # 0
     /\ wait'.pc # wait.pc =>
          /\ wait'.pc = "starved" => idle.tick = Timeout /\ Unserved
          /\ wait'.pc = "overran" => Overrun]_vars
================================================================================
