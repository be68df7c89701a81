------------------------------ MODULE ProjectJobs ------------------------------
(***************************************************************************)
(* The jobs of one tracked project: the listener that applies socket       *)
(* events (src/src/projects/events/), the recovery that replays REST       *)
(* snapshots (src/src/projects/recovery.rs), worker attempts               *)
(* (project/attempts.rs), the queue explanation and its revision           *)
(* (project/queue.rs), processing deadlines (job/runtime.rs) and a caller  *)
(* of wait_for_completion (project.rs).                                    *)
(*                                                                         *)
(* The listener and the recovery are two threads.  A step is what one of   *)
(* them does under one lock, or between two looks at the revision.  The    *)
(* account does not change here (see Submission), result URLs are left     *)
(* out, and a queue explanation is a stamp that grows with its age.        *)
(*                                                                         *)
(* A definition marked "Fault" is not part of the specification: put in    *)
(* the place of the definition after it, it must break a property.         *)
(***************************************************************************)
EXTENDS Naturals, Sequences, FiniteSets

CONSTANTS
  Renders,        \* the media a project may request, each with its index
  Nothing,        \* an absent id or index
  IndexedFrames,  \* whether frames of a worker carry the index: TRUE, FALSE or either
  FirstPhases,    \* what a worker reports first: "Initiating", "Processing" or either
  MaxAttempts,    \* bound: worker attempts of a render
  MaxAssigned,    \* bound: worker attempts of all renders
  MaxStamp,       \* bound: queue explanations
  MaxInbox,       \* bound: events on their way
  MaxLosses,      \* bound: lost connections
  MayCancel       \* bound: whether the caller may cancel the project

(* What the parameters may be; a module that chooses them assumes it *)
ConstantsAreSound ==
  /\ Nothing \notin Renders /\ IsFiniteSet(Renders) /\ Renders # {}
  /\ IndexedFrames \in SUBSET BOOLEAN /\ FirstPhases \subseteq {"Initiating", "Processing"}
  /\ MaxAttempts \in Nat /\ MaxAssigned \in Nat /\ MaxStamp \in Nat
  /\ MaxInbox \in Nat /\ MaxLosses \in Nat
  /\ MayCancel \in BOOLEAN

VARIABLES
  service,     \* the truth: the verdict, each render's attempt, the queue stamp
  inbox,       \* socket events not yet heard
  losses,      \* connections lost so far
  project,     \* ProjectState: status, and the queue explanation it shows
  jobs,        \* ProjectInner.jobs
  retired,     \* ProjectInner.retired_attempts
  awaiting,    \* ProjectInner.awaiting_reassignment
  fresh,       \* queue_revision is still the one the recovery has read
  listener,    \* the event being applied
  recovery,    \* the replay under way
  signing,     \* results whose URL is being signed, their "jobCompleted" still to come
  waiter,      \* a caller of wait_for_completion
  heard        \* history: the newest live explanation of this connection

serviceVars == <<service, inbox, losses>>
projectVars == <<project, jobs, retired, awaiting>>
vars == <<serviceVars, projectVars, fresh, listener, recovery, signing, waiter, heard>>

Ids == [render : Renders, number : 1 .. MaxAttempts]
Terminal == {"Completed", "Failed", "Canceled"}
Phases == {"Pending", "Initiating", "Processing"}
Verdicts == {"active", "completed", "failed", "canceled"}
Works == [number : 0 .. MaxAttempts, state : {"none", "waiting", "running", "done", "failed"}]
(* deadline: 0 for none, and arming again an armed one changes it *)
JobRecords == [id : Ids, index : Renders \cup {Nothing}, status : Phases \cup Terminal,
               armed : Ids \cup {Nothing}, suspended : BOOLEAN, deadline : 0 .. 2]

Finished(status) == status \in Terminal
AllFinished == \A n \in DOMAIN jobs : Finished(jobs[n].status)
Requested == {r \in Renders : service.work[r].state # "none"}
Expected == Cardinality(Requested)
Waiting == {r \in Renders : service.work[r].state = "waiting"}
Idle == [pc |-> "idle"]

(* 0 for no explanation at all *)
FirstStamp == IF MaxStamp = 0 THEN 0 ELSE 1

Init ==
  /\ \E requested \in SUBSET Renders, stamp \in {0, FirstStamp} :
       /\ requested # {}
       /\ service = [verdict |-> "active", stamp |-> stamp,
                     work |-> [r \in Renders |-> [number |-> 0, state |->
                                 IF r \in requested THEN "waiting" ELSE "none"]]]
  /\ inbox = <<>> /\ losses = 0
  /\ project = [status |-> "Pending", stamp |-> 0, rows |-> {}]
  /\ jobs = <<>> /\ retired = {} /\ awaiting = {}
  /\ fresh = FALSE
  /\ listener = Idle /\ recovery = Idle
  /\ signing = 0 /\ waiter = "woken" /\ heard = 0

--------------------------------------------------------------------------------
(***************************************************************************)
(* The service and the network.                                            *)
(***************************************************************************)
ClientSide == UNCHANGED <<projectVars, fresh, listener, recovery, signing, waiter, heard>>

Emit(event) == Len(inbox) < MaxInbox /\ inbox' = Append(inbox, event)
Attempt(r) == [render |-> r, number |-> service.work[r].number]
Frame(kind, id, index, phase) == [kind |-> kind, id |-> id, index |-> index, phase |-> phase]
Indexes(r) == {IF indexed THEN r ELSE Nothing : indexed \in IndexedFrames}
EmitFrame(kind, r, id, phases) ==
  \E index \in Indexes(r), phase \in phases : Emit(Frame(kind, id, index, phase))
Running(r) == service.verdict = "active" /\ service.work[r].state = "running"
Assigned == {id \in Ids : id.number <= service.work[id.render].number}
Retriable(r) == service.work[r].number < MaxAttempts /\ Cardinality(Assigned) < MaxAssigned

Assign(r) ==
  /\ service.verdict = "active" /\ service.work[r].state = "waiting" /\ Retriable(r)
  /\ service' = [service EXCEPT !.work[r] = [number |-> @.number + 1, state |-> "running"]]
  /\ EmitFrame("started", r, [render |-> r, number |-> service.work[r].number + 1],
               FirstPhases)
  /\ UNCHANGED losses

Progress(r) ==
  /\ Running(r)
  /\ \E kind \in {"progress", "eta"} : EmitFrame(kind, r, Attempt(r), {"Processing"})
  /\ UNCHANGED <<service, losses>>

(* A late frame of an attempt that was given up, and of which something was heard *)
Zombie(r) ==
  LET late == [Attempt(r) EXCEPT !.number = @ - 1] IN
  /\ late \in retired \cup {jobs[n].id : n \in DOMAIN jobs}
  /\ EmitFrame("started", r, late, {"Processing"})
  /\ UNCHANGED <<service, losses>>

(* The attempt is given up, announced or not *)
Retry(r) ==
  /\ Running(r) /\ Retriable(r)
  /\ service' = [service EXCEPT !.work[r].state = "waiting"]
  /\ EmitFrame("retry", r, Attempt(r), {"Pending"}) \/ UNCHANGED inbox
  /\ UNCHANGED losses

Produce(r) ==
  /\ Running(r)
  /\ \/ /\ service' = [service EXCEPT !.work[r].state = "done"]
        /\ EmitFrame("result", r, Attempt(r), {"Completed"})
     \/ /\ service' = [service EXCEPT !.work[r].state = "failed"]
        /\ EmitFrame("error", r, Attempt(r), {"Failed"})
  /\ UNCHANGED losses

Conclude ==
  /\ service.verdict = "active"
  /\ \A r \in Requested : service.work[r].state \in {"done", "failed"}
  /\ LET verdict == IF \E r \in Renders : service.work[r].state = "done"
                      THEN "completed" ELSE "failed"
     IN service' = [service EXCEPT !.verdict = verdict] /\ Emit([kind |-> verdict])
  /\ UNCHANGED losses

(* All running attempts are given up and the project goes back to the queue *)
Requeue ==
  /\ \E r \in Renders : Running(r)
  /\ \A r \in Renders : Running(r) => Retriable(r)
  /\ service' = [service EXCEPT !.work = [r \in Renders |->
       IF Running(r) THEN [service.work[r] EXCEPT !.state = "waiting"] ELSE service.work[r]]]
  /\ Emit([kind |-> "queued"])
  /\ UNCHANGED losses

Explain ==
  /\ service.verdict = "active" /\ service.stamp < MaxStamp /\ Waiting # {}
  /\ service' = [service EXCEPT !.stamp = @ + 1]
  /\ Emit([kind |-> "queue", stamp |-> service.stamp + 1, rows |-> Waiting])
  /\ UNCHANGED losses

Cancel ==
  /\ MayCancel /\ service.verdict = "active"
  /\ service' = [service EXCEPT !.verdict = "canceled"]
  /\ UNCHANGED <<inbox, losses>>

(* The last events of a connection are lost *)
Disconnect ==
  /\ losses < MaxLosses
  /\ losses' = losses + 1
  /\ \E kept \in 0 .. Len(inbox) :
       inbox' = Append(SubSeq(inbox, 1, kept), [kind |-> "disconnected"])
  /\ UNCHANGED service

(* Bound: nothing arrives while an event or a snapshot is being applied *)
Quiet == listener.pc = "idle" /\ recovery.pc \in {"idle", "asked", "answered"}

Service ==
  /\ Quiet
  /\ \/ \E r \in Renders : Assign(r) \/ Progress(r) \/ Zombie(r) \/ Retry(r) \/ Produce(r)
     \/ Conclude \/ Requeue \/ Explain \/ Cancel \/ Disconnect
  /\ ClientSide

--------------------------------------------------------------------------------
(***************************************************************************)
(* Project and Job, as both threads change them.                           *)
(***************************************************************************)
(* ProjectInner.changed: a waiter registers before it looks *)
Notify(changed) == waiter' = IF changed /\ waiter = "asleep" THEN "woken" ELSE waiter

(* Fault: every processing update arms a new deadline *)
ObserveAgain(job, statusUpdate) ==
  IF Finished(job.status) THEN [job EXCEPT !.armed = Nothing, !.suspended = FALSE, !.deadline = 0]
  ELSE IF job.status # "Processing" \/ (job.suspended /\ ~statusUpdate) THEN job
  ELSE [job EXCEPT !.armed = job.id, !.suspended = FALSE, !.deadline = IF @ = 1 THEN 2 ELSE 1]

(* ProcessingRuntime.observe: an attempt is given its deadline once *)
Observe(job, statusUpdate) ==
  IF Finished(job.status) THEN [job EXCEPT !.armed = Nothing, !.suspended = FALSE, !.deadline = 0]
  ELSE IF job.status # "Processing" \/ job.armed = job.id
            \/ (job.suspended /\ ~statusUpdate) THEN job
  ELSE [job EXCEPT !.armed = job.id, !.suspended = FALSE, !.deadline = IF @ = 1 THEN 2 ELSE 1]

Suspend(job) == [job EXCEPT !.armed = Nothing, !.suspended = TRUE, !.deadline = 0]
Suspended == [n \in DOMAIN jobs |-> IF Finished(jobs[n].status) THEN jobs[n] ELSE Suspend(jobs[n])]

Reset(job, id, index) ==
  [Suspend(job) EXCEPT !.id = id, !.status = "Pending",
                       !.index = IF index # Nothing THEN index ELSE @]

NewJob(id) == [id |-> id, index |-> Nothing, status |-> "Pending", armed |-> Nothing,
               suspended |-> FALSE, deadline |-> 0]

Slots(id) == {n \in DOMAIN jobs : jobs[n].id = id}
Unfinished == {n \in DOMAIN jobs : ~Finished(jobs[n].status)}

(* The job a new attempt continues: of its index, else the only one announced *)
Heirs(index) ==
  LET placed == {n \in Unfinished : index # Nothing /\ jobs[n].index = index}
      announced == {n \in Unfinished : jobs[n].index = Nothing /\ jobs[n].id \in awaiting}
  IN IF placed # {} THEN {CHOOSE n \in placed : \A m \in placed : n <= m}
     ELSE IF Cardinality(announced) = 1 THEN announced ELSE {}

(* Fault: attempts that were replaced are not remembered *)
IgnoredWhileAwaited(id) == Slots(id) # {} /\ id \in awaiting

(* job_for_attempt: nothing is heard of attempts given up *)
Ignored(id) == id \in retired \/ (Slots(id) # {} /\ id \in awaiting)

Claim(id, index, slot) ==
  /\ ~Ignored(id)
  /\ \/ /\ slot \in Slots(id)
        /\ UNCHANGED <<jobs, retired, awaiting>>
     \/ /\ Slots(id) = {} /\ slot \in Heirs(index)
        /\ jobs' = [jobs EXCEPT ![slot] = Reset(@, id, index)]
        /\ retired' = retired \cup {jobs[slot].id}
        /\ awaiting' = awaiting \ {jobs[slot].id}
     \/ /\ Slots(id) = {} /\ Heirs(index) = {} /\ slot = Len(jobs) + 1
        /\ jobs' = Append(jobs, NewJob(id))
        /\ UNCHANGED <<retired, awaiting>>

(* set_queue_state: rows of jobs that are no longer pending are left out *)
Shown(status, list, stamp, rows) ==
  LET kept == IF Finished(status) THEN {} ELSE
        {r \in rows : \A n \in DOMAIN list : list[n].index = r => list[n].status = "Pending"}
  IN [status |-> status, stamp |-> IF kept = {} THEN 0 ELSE stamp, rows |-> kept]

(* clear_job_queue: the job is no longer waiting, and the revision advances *)
Cleared(list, id, index) ==
  LET known == {list[n].index : n \in {m \in DOMAIN list : list[m].id = id}}
      places == IF index # Nothing THEN {index} ELSE known
  IN IF places \cap project.rows = {} THEN project
     ELSE Shown(project.status, list, project.stamp, project.rows \ places)

(* Project::update: whoever waits looks again; a finished project has no queue *)
WithStatus(status) == IF Finished(status) THEN [status |-> status, stamp |-> 0, rows |-> {}]
                                          ELSE [project EXCEPT !.status = status]
UpdateProject(status) ==
  /\ project' = WithStatus(status)
  /\ Notify(TRUE)

--------------------------------------------------------------------------------
(***************************************************************************)
(* The listener.                                                           *)
(***************************************************************************)
Heard == Head(inbox)
Hears(kinds) == listener.pc = "idle" /\ inbox # <<>> /\ Heard.kind \in kinds /\ inbox' = Tail(inbox)
ListenerSide == UNCHANGED <<service, losses, recovery>>

(* A frame of a worker finds its job *)
HearAttempt ==
  /\ Hears({"started", "progress", "eta", "result", "error"})
  /\ ~Ignored(Heard.id)
  /\ \E slot \in 1 .. Len(jobs) + 1 :
       /\ Claim(Heard.id, Heard.index, slot)
       /\ project' = Cleared(jobs', Heard.id, Heard.index)
       /\ listener' = [pc |-> "job", event |-> Heard, slot |-> slot]
  /\ fresh' = FALSE
  /\ Notify(jobs' # jobs \/ project' # project)
  /\ UNCHANGED <<signing, heard>>
  /\ ListenerSide

HearIgnored ==
  /\ Hears({"started", "progress", "eta", "result", "error"})
  /\ Ignored(Heard.id)
  /\ IF Heard.kind = "error"
       THEN project' = Cleared(jobs, Heard.id, Heard.index) /\ fresh' = FALSE
       ELSE UNCHANGED <<project, fresh>>
  /\ Notify(project' # project)
  /\ UNCHANGED <<jobs, retired, awaiting, listener, signing, heard>>
  /\ ListenerSide

(* What each kind of frame says of its job; a finished one only ends otherwise *)
JobStarted(job, event) ==
  IF Finished(job.status) THEN job
  ELSE [job EXCEPT !.status = event.phase,
                   !.index = IF event.index # Nothing THEN event.index ELSE @]
JobProgressed(job) == IF Finished(job.status) THEN job ELSE [job EXCEPT !.status = "Processing"]
JobEta(job) == job
JobEnded(job, event) == [job EXCEPT !.status = event.phase]

(* The update of the job; the URL of a result is signed at once or later *)
UpdateJob ==
  /\ listener.pc = "job"
  /\ LET event == listener.event
         job == jobs[listener.slot]
     IN /\ jobs' = [jobs EXCEPT ![listener.slot] =
             CASE event.kind = "started" -> Observe(JobStarted(job, event), TRUE)
               [] event.kind = "progress" -> Observe(JobProgressed(job), TRUE)
               [] event.kind = "eta" -> Observe(JobEta(job), FALSE)
               [] OTHER -> Observe(JobEnded(job, event), TRUE)]
        /\ IF event.kind = "result"
             THEN /\ listener' = Idle
                  /\ \/ Notify(TRUE) /\ UNCHANGED signing
                     \/ signing' = signing + 1 /\ UNCHANGED waiter
             ELSE listener' = [listener EXCEPT !.pc = "project"] /\ UNCHANGED <<signing, waiter>>
  /\ UNCHANGED <<inbox, project, retired, awaiting, fresh, heard>>
  /\ ListenerSide

(* Fault: jobs that were not announced yet do not count *)
LostSoFar == \A n \in DOMAIN jobs : jobs[n].status = "Failed"

(* ... and that of the project: it has failed when every job has *)
Lost == Expected = 1 \/ (Len(jobs) >= Expected /\ \A n \in DOMAIN jobs : jobs[n].status = "Failed")

UpdateParent ==
  /\ listener.pc = "project"
  /\ LET kind == listener.event.kind
         status == IF kind = "error" THEN "Failed"
                   ELSE IF kind # "eta" /\ ~Finished(project.status) THEN "Processing"
                   ELSE project.status
     IN IF kind = "error" /\ ~Lost
          THEN UNCHANGED <<project, fresh>> /\ Notify(TRUE)
          ELSE UpdateProject(status) /\ fresh' = (fresh /\ ~Finished(status))
  /\ listener' = Idle
  /\ UNCHANGED <<inbox, jobs, retired, awaiting, signing, heard>>
  /\ ListenerSide

Signed ==
  /\ signing > 0
  /\ signing' = signing - 1
  /\ Notify(TRUE)
  /\ UNCHANGED <<serviceVars, projectVars, fresh, listener, recovery, heard>>

(* retry_job: the attempt is given up before its successor is known *)
HearRetry ==
  /\ Hears({"retry"})
  /\ project' = Cleared(jobs, Heard.id, Heard.index)
  /\ fresh' = FALSE
  /\ LET placed == {n \in DOMAIN jobs : Heard.index # Nothing /\ jobs[n].index = Heard.index}
         found == IF Slots(Heard.id) # {} THEN Slots(Heard.id)
                  ELSE {n \in placed : \A m \in placed : n <= m}
         slots == IF Finished(project.status) THEN {} ELSE found \cap Unfinished
     IN /\ jobs' = [n \in DOMAIN jobs |->
             IF n \in slots THEN Reset(jobs[n], jobs[n].id, Heard.index) ELSE jobs[n]]
        /\ awaiting' = awaiting \cup {jobs[n].id : n \in slots}
        /\ Notify(slots # {} \/ project' # project)
  /\ UNCHANGED <<retired, listener, signing, heard>>
  /\ ListenerSide

(* The whole project is queued again: every running deadline is suspended *)
HearQueued ==
  /\ Hears({"queued"})
  /\ jobs' = Suspended
  /\ UpdateProject(IF Finished(project.status) THEN project.status ELSE "Queued")
  /\ fresh' = FALSE
  /\ UNCHANGED <<retired, awaiting, listener, signing, heard>>
  /\ ListenerSide

HearVerdict ==
  /\ Hears({"completed", "failed"})
  /\ LET status == IF Heard.kind = "failed" THEN "Failed"
                   ELSE IF Finished(project.status) THEN project.status ELSE "Completed"
     IN UpdateProject(status)
  /\ fresh' = FALSE
  /\ UNCHANGED <<jobs, retired, awaiting, listener, signing, heard>>
  /\ ListenerSide

(* receive_queue, and invalidate_queue when the connection is lost *)
HearQueue ==
  /\ Hears({"queue", "disconnected"})
  /\ project' = IF Heard.kind = "queue"
                  THEN Shown(project.status, jobs, Heard.stamp, Heard.rows)
                  ELSE Shown(project.status, jobs, 0, {})
  /\ heard' = IF Heard.kind = "queue" THEN Heard.stamp ELSE heard
  /\ fresh' = (fresh /\ Heard.kind = "queue" /\ Finished(project.status))
  /\ Notify(project' # project)
  /\ UNCHANGED <<jobs, retired, awaiting, listener, signing>>
  /\ ListenerSide

Listener == HearAttempt \/ HearIgnored \/ UpdateJob \/ UpdateParent \/ Signed \/ HearRetry
            \/ HearQueued \/ HearVerdict \/ HearQueue

--------------------------------------------------------------------------------
(***************************************************************************)
(* The recovery: sync, recover_project and the end of cancel_project.      *)
(***************************************************************************)
RecoverySide == UNCHANGED <<serviceVars, listener, signing, heard>>
Unmoved == UNCHANGED <<projectVars, waiter>>

(* The revision is read before the request; a cancellation is confirmed before it *)
Ask ==
  /\ recovery.pc = "idle"
  /\ \E cancel \in BOOLEAN :
       /\ cancel => service.verdict = "canceled"
       /\ recovery' = [pc |-> "asked", cancel |-> cancel]
  /\ fresh' = TRUE
  /\ Unmoved /\ RecoverySide

(* What a snapshot lists: the renders of a worker, or only what was produced *)
Found(states) == {[id |-> Attempt(r), state |-> service.work[r].state] :
                    r \in {q \in Renders : service.work[q].state \in states}}
Lists == {Found({"running", "done", "failed"})}
         \cup (IF service.verdict # "active" THEN {Found({"done"})} ELSE {})

(* ... and its status: an active project runs, or is "queued" again *)
ReportedStatus == CASE service.verdict = "completed" -> {"Completed"}
                    [] service.verdict = "failed" -> {"Failed"}
                    [] service.verdict = "canceled" -> {"Canceled"}
                    [] \E r \in Renders : Running(r) -> {"Queued", "Processing"}
                    [] OTHER -> {"Queued", "Pending", "Requeued"}

(* The service answers *)
Look ==
  /\ recovery.pc = "asked"
  /\ \E status \in ReportedStatus, list \in Lists :
       recovery' = [pc |-> "answered", cancel |-> recovery.cancel, status |-> status,
                    list |-> list, stamp |-> service.stamp,
                    rows |-> IF service.stamp = 0 THEN {} ELSE Waiting]
  /\ UNCHANGED fresh
  /\ Unmoved /\ RecoverySide

(* incomplete_results *)
Incomplete == project.status = "Completed" /\ (Len(jobs) < Expected \/ ~AllFinished)
Skipped ==
  ~recovery.cancel /\ Finished(project.status) /\ (~Finished(recovery.status) \/ ~Incomplete)

Replaying(pc, todo, inFlight, job) ==
  [pc |-> pc, cancel |-> recovery.cancel, status |-> recovery.status,
   todo |-> todo, inFlight |-> inFlight, job |-> job]
Ended == recovery' = Idle /\ fresh' = FALSE

(* Fault: the explanation of the snapshot is shown whatever was heard since *)
ShownAtOnce(current) == Shown(project.status, jobs, recovery.stamp, recovery.rows)

(* apply_queue_snapshot: ... unless a live event was heard since *)
ShownOf(current) ==
  IF current THEN Shown(project.status, jobs, recovery.stamp, recovery.rows) ELSE project

BeginReplay ==
  /\ recovery.pc = "answered" /\ ~Skipped
  /\ LET current == fresh \/ recovery.cancel
     IN /\ project' = ShownOf(current)
        /\ recovery' = Replaying("jobs", recovery.list, current, Nothing)
  /\ fresh' = TRUE
  /\ Notify(project' # project)
  /\ UNCHANGED <<jobs, retired, awaiting>>
  /\ RecoverySide

(* The request fails, or the project needs no replay *)
Leave ==
  /\ recovery.pc = "asked" \/ (recovery.pc = "answered" /\ Skipped)
  /\ Ended
  /\ Unmoved /\ RecoverySide

Recovered(state) == CASE state = "done" -> {"Completed"}
                      [] state = "failed" -> {"Failed"}
                      [] OTHER -> {"Initiating", "Processing"}
Current == recovery.inFlight /\ fresh

(* Unfinished work of the snapshot counts only while no live event was heard *)
SkipJob(found) ==
  /\ recovery.pc = "jobs" /\ found \in recovery.todo
  /\ Ignored(found.id) \/ (~Current /\ found.state = "running")
  /\ recovery' = Replaying("jobs", recovery.todo \ {found}, Current, Nothing)
  /\ UNCHANGED fresh
  /\ Unmoved /\ RecoverySide

ReplayClaim(found) ==
  /\ recovery.pc = "jobs" /\ found \in recovery.todo
  /\ Current \/ found.state # "running"
  /\ \E slot \in 1 .. Len(jobs) + 1, index \in Indexes(found.id.render) :
       /\ Claim(found.id, index, slot)
       /\ project' = Cleared(jobs', found.id, index)
       /\ \E status \in Recovered(found.state) :
            recovery' = Replaying("update", recovery.todo \ {found}, Current,
                                  [id |-> found.id, slot |-> slot, status |-> status,
                                   index |-> index])
  /\ fresh' = FALSE
  /\ Notify(jobs' # jobs \/ project' # project)
  /\ RecoverySide

(* The revision is read again: what was heard meanwhile no longer counts as newer *)
ReplayUpdate ==
  /\ recovery.pc = "update"
  /\ LET found == recovery.job
         job == jobs[found.slot]
         status == IF Finished(job.status) THEN job.status ELSE found.status
         placed == [job EXCEPT !.status = status,
                               !.index = IF found.index # Nothing THEN found.index ELSE @]
     IN jobs' = [jobs EXCEPT ![found.slot] =
          Observe(IF Finished(job.status) /\ ~Finished(found.status) THEN job ELSE placed, TRUE)]
  /\ recovery' = Replaying("jobs", recovery.todo, recovery.inFlight, Nothing)
  /\ fresh' = TRUE
  /\ UNCHANGED <<project, retired, awaiting, waiter>>
  /\ RecoverySide

EndOfJobs == recovery.pc = "jobs" /\ recovery.todo = {}

(* An older active snapshot ends here, and nobody is told *)
StopReplay ==
  /\ EndOfJobs /\ ~Finished(recovery.status) /\ ~Current
  /\ Ended
  /\ Unmoved /\ RecoverySide

SettledAs(status) ==
  [n \in DOMAIN jobs |-> IF Finished(jobs[n].status) THEN jobs[n]
                         ELSE Observe([jobs[n] EXCEPT !.status = status], TRUE)]

(* A project queued again suspends its deadlines; a failed or canceled one has *)
(* no unfinished job.                                                          *)
Settle ==
  /\ EndOfJobs /\ (Finished(recovery.status) \/ Current)
  /\ jobs' = CASE recovery.status = "Requeued" -> Suspended
               [] recovery.status \in {"Failed", "Canceled"}
                    /\ (~Finished(project.status) \/ project.status = recovery.status) ->
                    SettledAs(recovery.status)
               [] OTHER -> jobs
  /\ recovery' = Replaying("status", {}, recovery.inFlight, Nothing)
  /\ UNCHANGED <<project, retired, awaiting, waiter, fresh>>
  /\ RecoverySide

(* Fault: the status of the snapshot is always taken *)
TakenAlways == IF recovery.status = "Requeued" THEN "Queued" ELSE recovery.status

(* The status of the snapshot is taken, unless the project has finished *)
Taken == IF Finished(project.status) THEN project.status
         ELSE IF recovery.status = "Requeued" THEN "Queued" ELSE recovery.status

ReplayStatus ==
  /\ recovery.pc = "status"
  /\ UpdateProject(Taken)
  /\ IF recovery.cancel
       THEN recovery' = Replaying("canceled", {}, FALSE, Nothing) /\ fresh' = FALSE
       ELSE Ended
  /\ UNCHANGED <<jobs, retired, awaiting>>
  /\ RecoverySide

(* cancel_project: jobs that appeared meanwhile end like the project *)
CancelJobs ==
  /\ recovery.pc = "canceled"
  /\ jobs' = IF project.status \in {"Failed", "Canceled"} THEN SettledAs(project.status) ELSE jobs
  /\ Ended
  /\ UNCHANGED <<project, retired, awaiting, waiter>>
  /\ RecoverySide

Recovery ==
  \/ Ask \/ Look \/ BeginReplay \/ Leave \/ ReplayUpdate \/ StopReplay \/ Settle
  \/ ReplayStatus \/ CancelJobs
  \/ \E found \in [id : Ids, state : {"running", "done", "failed"}] :
       SkipJob(found) \/ ReplayClaim(found)

--------------------------------------------------------------------------------
(***************************************************************************)
(* A caller of wait_for_completion looks, and sleeps until it is notified. *)
(***************************************************************************)
(* Fault: results that are announced and unfinished are not waited for *)
AllAnnounced == project.status = "Completed" /\ Len(jobs) >= Expected

AllReady == project.status = "Completed" /\ Len(jobs) >= Expected /\ AllFinished

WaitLook ==
  /\ waiter = "woken"
  /\ waiter' = IF AllReady THEN "ok"
               ELSE IF project.status \in {"Failed", "Canceled"} THEN "failed" ELSE "asleep"
  /\ UNCHANGED <<serviceVars, projectVars, fresh, listener, recovery, signing, heard>>

Next == Service \/ Listener \/ Recovery \/ WaitLook

Spec == Init /\ [][Next]_vars

--------------------------------------------------------------------------------
(***************************************************************************)
(* Properties.                                                             *)
(***************************************************************************)
(* The types; an explanation is shown exactly while some result waits, and a *)
(* finished project has none (set_queue_state, Project::update).             *)
TypeOK ==
  /\ service \in [verdict : Verdicts, stamp : 0 .. MaxStamp, work : [Renders -> Works]]
  /\ Len(inbox) <= MaxInbox + losses /\ losses \in 0 .. MaxLosses
  /\ project \in [status : {"Pending", "Queued", "Processing"} \cup Terminal,
                  stamp : 0 .. MaxStamp, rows : SUBSET Renders]
  /\ project.stamp = 0 <=> project.rows = {}
  /\ Finished(project.status) => project.rows = {}
  /\ jobs \in Seq(JobRecords) /\ retired \subseteq Ids /\ awaiting \subseteq Ids
  /\ fresh \in BOOLEAN
  /\ waiter \in {"woken", "asleep", "ok", "failed"}
  /\ signing \in Nat /\ heard \in 0 .. MaxStamp

(* Whatever two threads hear of an attempt, it has one handle, and an attempt *)
(* that was replaced has none (job_for_attempt, ensure_job).                  *)
OneHandle ==
  /\ \A m, n \in DOMAIN jobs : jobs[m].id = jobs[n].id => m = n
  /\ \A n \in DOMAIN jobs : jobs[n].id \notin retired
  /\ awaiting \cap retired = {}

(* The deadline of an attempt never moves while it is armed, whatever frame   *)
(* or snapshot is applied (ProcessingRuntime::observe).                       *)
DeadlineFixed ==
  [][\A n \in DOMAIN jobs :
       jobs[n].armed # Nothing /\ jobs'[n].armed = jobs[n].armed
         => jobs'[n].deadline = jobs[n].deadline]_vars

(* A finished project is never taken back, by no event and no snapshot that   *)
(* was answered before it finished (replay_recovered_at_revision).            *)
StaysFinished == [][Finished(project.status) => Finished(project'.status)]_vars

(* A project is finished only as the service finished it; every result may    *)
(* have failed before the service says so.                                    *)
TerminalIsTrue ==
  /\ project.status = "Completed" => service.verdict = "completed"
  /\ project.status = "Canceled" => service.verdict = "canceled"
  /\ project.status = "Failed" =>
       \/ service.verdict = "failed"
       \/ \A r \in Requested : service.work[r].state = "failed"

(* A caller is answered with as many results as were produced, however many   *)
(* announcements were lost (wait_for_completion); the attempt a result stands *)
(* under may be an earlier one (NothingInherited).                            *)
ResultsAreCounted ==
  waiter = "ok" =>
    Cardinality({n \in DOMAIN jobs : jobs[n].status = "Completed"})
      = Cardinality({r \in Renders : service.work[r].state = "done"})

(* No explanation older than the newest live one is shown, however late the   *)
(* snapshot of a recovery arrives (apply_queue_snapshot).                     *)
QueueNeverOlder == project.stamp # 0 => project.stamp >= heard

(* What a frame or a snapshot says of an attempt is applied only to that       *)
(* attempt (attempts.rs: "No media or timings from an abandoned attempt belong *)
(* to its successor").                                                         *)
NothingInherited ==
  [][/\ listener.pc = "job" /\ listener'.pc # "job"
          /\ jobs'[listener.slot] # jobs[listener.slot]
        => jobs[listener.slot].id = listener.event.id
     /\ recovery.pc = "update" /\ recovery'.pc # "update"
          /\ jobs'[recovery.job.slot] # jobs[recovery.job.slot]
        => jobs[recovery.job.slot].id = recovery.job.id]_vars

================================================================================
