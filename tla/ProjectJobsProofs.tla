--------------------------- MODULE ProjectJobsProofs ---------------------------
(***************************************************************************)
(* What the jobs of a project promise, for any number of media, attempts,  *)
(* explanations, losses and events on their way.                           *)
(***************************************************************************)
EXTENDS ProjectJobs, FiniteSetTheorems, SequenceTheorems, WellFoundedInduction, TLAPS

--------------------------------------------------------------------------------
(***************************************************************************)
(* Types.  TypeOK says nothing of the events and of the two threads.       *)
(***************************************************************************)
FrameKinds == {"started", "progress", "eta", "result", "error", "retry"}
FrameEvents == [kind : FrameKinds, id : Ids, index : Renders \cup {Nothing},
                phase : Phases \cup Terminal]
PlainEvents == [kind : {"completed", "failed", "queued", "disconnected"}]
QueueEvents == [kind : {"queue"}, stamp : 1 .. MaxStamp, rows : SUBSET Renders]
Events == FrameEvents \cup PlainEvents \cup QueueEvents

Projects == [status : {"Pending", "Queued", "Processing"} \cup Terminal,
             stamp : 0 .. MaxStamp, rows : SUBSET Renders]
Services == [verdict : Verdicts, stamp : 0 .. MaxStamp, work : [Renders -> Works]]

Statuses == {"Queued", "Processing", "Pending", "Requeued"} \cup Terminal
FoundJobs == [id : Ids, state : {"running", "done", "failed"}]
Placements == [id : Ids, slot : Nat, status : Phases \cup Terminal,
               index : Renders \cup {Nothing}]
Listening == [pc : {"job", "project"}, event : FrameEvents, slot : Nat]
Asked == [pc : {"asked"}, cancel : BOOLEAN]
Answered == [pc : {"answered"}, cancel : BOOLEAN, status : Statuses,
             list : SUBSET FoundJobs, stamp : 0 .. MaxStamp, rows : SUBSET Renders]
Replays == [pc : {"jobs", "status", "canceled"}, cancel : BOOLEAN, status : Statuses,
            todo : SUBSET FoundJobs, inFlight : BOOLEAN, job : {Nothing}]
Updates == [pc : {"update"}, cancel : BOOLEAN, status : Statuses,
            todo : SUBSET FoundJobs, inFlight : BOOLEAN, job : Placements]

(* An explanation is shown exactly while some result waits *)
Explains(shown) ==
  /\ shown.stamp = 0 <=> shown.rows = {}
  /\ Finished(shown.status) => shown.rows = {}

WorldTypes ==
  /\ service \in Services
  /\ \A r \in Renders : service.work[r].state \in {"running", "done", "failed"} =>
       service.work[r].number # 0
  /\ inbox \in Seq(Events) /\ Len(inbox) <= MaxInbox + losses /\ losses \in 0 .. MaxLosses

ProjectTypes ==
  /\ project \in Projects /\ Explains(project)
  /\ jobs \in Seq(JobRecords) /\ retired \in SUBSET Ids /\ awaiting \in SUBSET Ids

ThreadTypes ==
  /\ listener \in {Idle} \cup Listening
  /\ listener.pc # "idle" => listener.slot \in DOMAIN jobs
  /\ recovery \in {Idle} \cup Asked \cup Answered \cup Replays \cup Updates
  /\ recovery.pc = "update" => recovery.job.slot \in DOMAIN jobs
  /\ recovery.pc = "answered" => (recovery.stamp = 0 => recovery.rows = {})

CallerTypes ==
  /\ fresh \in BOOLEAN /\ waiter \in {"woken", "asleep", "ok", "failed"}
  /\ signing \in Nat /\ heard \in 0 .. MaxStamp

Types == ConstantsAreSound /\ WorldTypes /\ ProjectTypes /\ ThreadTypes /\ CallerTypes

--------------------------------------------------------------------------------
(***************************************************************************)
(* Operators.                                                              *)
(***************************************************************************)
(* What may become of a job that stays the job of its attempt *)
Renewed(new, old) ==
  /\ new \in JobRecords /\ new.id = old.id
  /\ old.armed # Nothing /\ new.armed = old.armed => new.deadline = old.deadline

LEMMA JobFields ==
  ASSUME NEW job \in JobRecords
  PROVE  /\ job.id \in Ids /\ job.index \in Renders \cup {Nothing}
         /\ job.status \in Phases \cup Terminal /\ job.armed \in Ids \cup {Nothing}
         /\ job.suspended \in BOOLEAN /\ job.deadline \in 0 .. 2
BY DEF JobRecords

(* ProcessingRuntime.observe changes the deadline only *)
LEMMA DeadlineFacts ==
  /\ 0 \in 0 .. 2 /\ 1 \in 0 .. 2 /\ 2 \in 0 .. 2
  /\ TRUE \in BOOLEAN /\ FALSE \in BOOLEAN /\ Nothing \in Ids \cup {Nothing}
OBVIOUS

LEMMA SuspendFacts ==
  ASSUME NEW job \in JobRecords
  PROVE  /\ Renewed(Suspend(job), job)
         /\ Suspend(job).status = job.status /\ Suspend(job).index = job.index
         /\ Suspend(job).armed = Nothing
<1>1. Suspend(job) \in JobRecords
  BY DeadlineFacts DEF Suspend, JobRecords
<1>2. /\ Suspend(job).id = job.id /\ Suspend(job).armed = Nothing
      /\ Suspend(job).status = job.status /\ Suspend(job).index = job.index
  BY DEF Suspend, JobRecords
<1>3. QED BY <1>1, <1>2 DEF Renewed

(* ProcessingRuntime.observe changes the deadline only *)
Arming(job, armed, deadline) ==
  [job EXCEPT !.armed = armed, !.suspended = FALSE, !.deadline = deadline]

LEMMA ArmFacts ==
  ASSUME NEW job \in JobRecords, NEW armed \in Ids \cup {Nothing}, NEW deadline \in 0 .. 2
  PROVE  /\ Arming(job, armed, deadline) \in JobRecords
         /\ Arming(job, armed, deadline).id = job.id
         /\ Arming(job, armed, deadline).armed = armed
         /\ Arming(job, armed, deadline).deadline = deadline
         /\ Arming(job, armed, deadline).status = job.status
         /\ Arming(job, armed, deadline).index = job.index
<1>1. Arming(job, armed, deadline) \in JobRecords
  BY DeadlineFacts DEF JobRecords, Arming
<1>2. /\ Arming(job, armed, deadline).id = job.id
      /\ Arming(job, armed, deadline).armed = armed
      /\ Arming(job, armed, deadline).deadline = deadline
      /\ Arming(job, armed, deadline).status = job.status
      /\ Arming(job, armed, deadline).index = job.index
  BY DEF JobRecords, Arming
<1>3. QED BY <1>1, <1>2

LEMMA ObserveFacts ==
  ASSUME NEW job \in JobRecords, NEW statusUpdate \in BOOLEAN
  PROVE  /\ Renewed(Observe(job, statusUpdate), job)
         /\ Observe(job, statusUpdate).status = job.status
         /\ Observe(job, statusUpdate).index = job.index
<1>1. job.id \in Ids /\ job.armed \in Ids \cup {Nothing} /\ job.deadline \in 0 .. 2
  BY JobFields
<1> DEFINE next == IF job.deadline = 1 THEN 2 ELSE 1
<1>2. next \in 0 .. 2
  OBVIOUS
<1> HIDE DEF next
<1>3. CASE Observe(job, statusUpdate) = Arming(job, Nothing, 0)
  BY <1>3, ArmFacts, DeadlineFacts DEF Renewed
<1>4. CASE Observe(job, statusUpdate) = job
  BY <1>4 DEF Renewed
<1>5. CASE job.armed # job.id /\ Observe(job, statusUpdate) = Arming(job, job.id, next)
  <2>1. /\ Arming(job, job.id, next) \in JobRecords
        /\ Arming(job, job.id, next).id = job.id
        /\ Arming(job, job.id, next).armed = job.id
        /\ Arming(job, job.id, next).status = job.status
        /\ Arming(job, job.id, next).index = job.index
    <3>1. PICK armed \in Ids \cup {Nothing}, deadline \in 0 .. 2 :
            armed = job.id /\ deadline = next
      BY <1>1, <1>2
    <3>2. /\ Arming(job, armed, deadline) \in JobRecords
          /\ Arming(job, armed, deadline).id = job.id
          /\ Arming(job, armed, deadline).armed = armed
          /\ Arming(job, armed, deadline).status = job.status
          /\ Arming(job, armed, deadline).index = job.index
      BY ArmFacts
    <3>3. QED BY <3>1, <3>2
  <2>2. Renewed(Arming(job, job.id, next), job)
    BY <1>5, <2>1, Zenon DEF Renewed
  <2>3. QED BY <1>5, <2>1, <2>2
<1>6. \/ Observe(job, statusUpdate) = Arming(job, Nothing, 0)
      \/ Observe(job, statusUpdate) = job
      \/ job.armed # job.id /\ Observe(job, statusUpdate) = Arming(job, job.id, next)
  BY Zenon DEF Observe, Arming, next
<1>7. QED BY <1>3, <1>4, <1>5, <1>6

LEMMA ResetFacts ==
  ASSUME NEW job \in JobRecords, NEW id \in Ids, NEW index \in Renders \cup {Nothing}
  PROVE  /\ Reset(job, id, index) \in JobRecords
         /\ Reset(job, id, index).id = id
         /\ Reset(job, id, index).status = "Pending"
         /\ Reset(job, id, index).armed = Nothing
<1> DEFINE old == Suspend(job)
           place == IF index # Nothing THEN index ELSE old.index
<1>1. old \in JobRecords /\ old.armed = Nothing
  BY SuspendFacts DEF Renewed
<1>2. place \in Renders \cup {Nothing} /\ "Pending" \in Phases \cup Terminal
  BY <1>1, JobFields DEF Phases
<1>3. Reset(job, id, index) = [old EXCEPT !.id = id, !.status = "Pending", !.index = place]
  BY Zenon DEF Reset
<1> HIDE DEF old, place
<1>4. [old EXCEPT !.id = id, !.status = "Pending", !.index = place] \in JobRecords
  BY <1>1, <1>2 DEF JobRecords
<1>5. LET new == [old EXCEPT !.id = id, !.status = "Pending", !.index = place]
      IN new.id = id /\ new.status = "Pending" /\ new.armed = Nothing
  BY <1>1 DEF JobRecords
<1>6. QED BY <1>3, <1>4, <1>5

LEMMA NewJobFacts ==
  ASSUME NEW id \in Ids
  PROVE  NewJob(id) \in JobRecords /\ NewJob(id).id = id /\ NewJob(id).status = "Pending"
BY DEF NewJob, JobRecords, Phases

LEMMA ShownFacts ==
  ASSUME NEW status \in {"Pending", "Queued", "Processing"} \cup Terminal, NEW list,
         NEW stamp \in 0 .. MaxStamp, NEW rows \in SUBSET Renders, stamp = 0 => rows = {},
         MaxStamp \in Nat
  PROVE  /\ Shown(status, list, stamp, rows) \in Projects
         /\ Explains(Shown(status, list, stamp, rows))
         /\ Shown(status, list, stamp, rows).status = status
         /\ Shown(status, list, stamp, rows).stamp \in {0, stamp}
         /\ Finished(status) => Shown(status, list, stamp, rows).stamp = 0
BY DEF Shown, Projects, Explains

LEMMA ClearedFacts ==
  ASSUME Types, NEW list, NEW id, NEW index
  PROVE  /\ Cleared(list, id, index) \in Projects
         /\ Explains(Cleared(list, id, index))
         /\ Cleared(list, id, index).status = project.status
         /\ Cleared(list, id, index).stamp \in {0, project.stamp}
<1>1. project.status \in {"Pending", "Queued", "Processing"} \cup Terminal
      /\ project.stamp \in 0 .. MaxStamp /\ project.rows \in SUBSET Renders
      /\ MaxStamp \in Nat /\ (project.stamp = 0 => project.rows = {})
      /\ project \in Projects /\ Explains(project)
  BY DEF Types, WorldTypes, ProjectTypes, Projects, Explains, ConstantsAreSound
<1>2. \A places : Shown(project.status, list, project.stamp, project.rows \ places) \in Projects
        /\ Explains(Shown(project.status, list, project.stamp, project.rows \ places))
        /\ Shown(project.status, list, project.stamp, project.rows \ places).status = project.status
        /\ Shown(project.status, list, project.stamp, project.rows \ places).stamp \in {0, project.stamp}
  <2> TAKE places
  <2>1. project.rows \ places \in SUBSET Renders
    BY <1>1
  <2>2. project.stamp = 0 => project.rows \ places = {}
    BY <1>1
  <2> DEFINE status == project.status
             stamp == project.stamp
             rows == project.rows \ places
  <2>3. /\ status \in {"Pending", "Queued", "Processing"} \cup Terminal
        /\ stamp \in 0 .. MaxStamp /\ rows \in SUBSET Renders /\ (stamp = 0 => rows = {})
    BY <1>1, <2>1, <2>2
  <2>4. status = project.status /\ stamp = project.stamp /\ rows = project.rows \ places
    OBVIOUS
  <2> HIDE DEF status, stamp, rows
  <2>5. /\ Shown(status, list, stamp, rows) \in Projects
        /\ Explains(Shown(status, list, stamp, rows))
        /\ Shown(status, list, stamp, rows).status = status
        /\ Shown(status, list, stamp, rows).stamp \in {0, stamp}
    BY <1>1, <2>3, ShownFacts
  <2>6. QED BY <2>4, <2>5
<1>3. QED BY <1>1, <1>2 DEF Cleared

LEMMA WithStatusFacts ==
  ASSUME Types, NEW status \in {"Pending", "Queued", "Processing"} \cup Terminal,
         Finished(project.status) => Finished(status)
  PROVE  /\ WithStatus(status) \in Projects /\ Explains(WithStatus(status))
         /\ WithStatus(status).status = status
         /\ WithStatus(status).stamp \in {0, project.stamp}
<1>1. project \in Projects /\ Explains(project) /\ MaxStamp \in Nat
  BY DEF Types, WorldTypes, ProjectTypes, ConstantsAreSound
<1>2. CASE Finished(status)
  BY <1>1, <1>2 DEF WithStatus, Projects, Explains
<1>3. CASE ~Finished(status)
  <2>1. WithStatus(status) = [project EXCEPT !.status = status]
    BY <1>3 DEF WithStatus
  <2>2. [project EXCEPT !.status = status] \in Projects
    BY <1>1 DEF Projects
  <2>3. LET new == [project EXCEPT !.status = status]
        IN new.status = status /\ new.stamp = project.stamp /\ new.rows = project.rows
    BY <1>1 DEF Projects
  <2>4. QED BY <1>1, <1>3, <2>1, <2>2, <2>3 DEF Explains
<1>4. QED BY <1>2, <1>3

--------------------------------------------------------------------------------
(***************************************************************************)
(* The service and its events.                                             *)
(***************************************************************************)
(* How a render ended, and the attempt that made it end so *)
Says(state) == IF state = "done" THEN "Completed" ELSE IF state = "failed" THEN "Failed" ELSE "none"
Outcome(r) == Says(service.work[r].state)
Ending == {"Completed", "Failed"}
Gave(id, status) == id = Attempt(id.render) /\ status = Outcome(id.render)

Truthful(e) ==
  /\ e.kind \in FrameKinds => /\ e.phase = "Failed" <=> e.kind = "error"
                              /\ e.phase = "Completed" <=> e.kind = "result"
                              /\ ~(e.phase = "Canceled")
  /\ e.kind \in {"error", "result"} => Gave(e.id, e.phase)
  /\ e.kind \in {"completed", "failed"} => service.verdict = e.kind
  /\ e.kind = "queue" => e.stamp <= service.stamp

(* What ended stays, and nobody else asks for more *)
Onwards ==
  /\ service' \in Services
  /\ \A r \in Renders : service'.work[r].state \in {"running", "done", "failed"} =>
       service'.work[r].number # 0
  /\ \A r \in Renders : service.work[r].state \in {"done", "failed"} =>
       service'.work[r] = service.work[r]
  /\ \A r \in Renders : service'.work[r].state = "none" <=> service.work[r].state = "none"
  /\ service.stamp <= service'.stamp
  /\ service.verdict # "active" =>
       service'.verdict = service.verdict /\ service'.stamp = service.stamp

LEMMA ServiceFields ==
  ASSUME Types
  PROVE  /\ service.verdict \in Verdicts /\ service.stamp \in 0 .. MaxStamp
         /\ service.work \in [Renders -> Works]
         /\ service = [verdict |-> service.verdict, stamp |-> service.stamp,
                       work |-> service.work]
BY DEF Types, WorldTypes, ProjectTypes, Services

LEMMA WorkFields ==
  ASSUME Types, NEW r \in Renders
  PROVE  /\ service.work[r] \in Works
         /\ service.work[r].number \in 0 .. MaxAttempts
         /\ service.work[r].state \in {"none", "waiting", "running", "done", "failed"}
<1>1. service.work[r] \in Works
  BY ServiceFields
<1>2. QED BY <1>1 DEF Works

(* A render goes on *)
Works1(r, x) ==
  service' = [verdict |-> service.verdict, stamp |-> service.stamp,
              work |-> [service.work EXCEPT ![r] = x]]

LEMMA WorkGoesOn ==
  ASSUME Types, NEW r \in Renders, NEW x \in Works, Works1(r, x), x.state # "none",
         x.state # "waiting" => x.number # 0,
         service.work[r].state \in {"waiting", "running"}
  PROVE  Onwards
<1> DEFINE work == [service.work EXCEPT ![r] = x]
<1>1. work \in [Renders -> Works] /\ work[r] = x /\ \A q \in Renders \ {r} : work[q] = service.work[q]
  BY ServiceFields
<1>2. service'.verdict = service.verdict /\ service'.stamp = service.stamp /\ service'.work = work
  BY DEF Works1
<1>3. service' \in Services
  BY <1>1, ServiceFields DEF Services, Works1
<1>4. service.stamp <= service'.stamp
  BY <1>2, ServiceFields DEF Types, WorldTypes, ProjectTypes, ConstantsAreSound
<1> HIDE DEF work
<1>5. \A q \in Renders : service.work[q].state \in {"running", "done", "failed"} =>
        service.work[q].number # 0
  BY DEF Types, WorldTypes, ProjectTypes
<1>6. ASSUME NEW q \in Renders
      PROVE  /\ service'.work[q].state \in {"running", "done", "failed"} =>
                  service'.work[q].number # 0
             /\ service.work[q].state \in {"done", "failed"} =>
                  service'.work[q] = service.work[q]
             /\ service'.work[q].state = "none" <=> service.work[q].state = "none"
  <2>1. CASE q = r
    BY <1>1, <1>2, <2>1
  <2>2. CASE q # r
    BY <1>1, <1>2, <1>5, <2>2
  <2>3. QED BY <2>1, <2>2
<1>7. QED BY <1>2, <1>3, <1>4, <1>6 DEF Onwards

LEMMA NothingMoves ==
  ASSUME Types, UNCHANGED service
  PROVE  Onwards
BY ServiceFields DEF Onwards, Types, WorldTypes, ProjectTypes, ConstantsAreSound

(* One event arrives, or none *)
Arrives(e) == Len(inbox) < MaxInbox /\ inbox' = Append(inbox, e)

Incoming ==
  /\ inbox' \in Seq(Events) /\ Len(inbox') <= MaxInbox + losses' /\ losses' \in 0 .. MaxLosses
  /\ \A i \in DOMAIN inbox' :
       Truthful(inbox[i])' \/ \E j \in DOMAIN inbox : inbox'[i] = inbox[j]

LEMMA ArrivalFacts ==
  ASSUME Types, NEW e \in Events, Arrives(e), Truthful(e)', UNCHANGED losses
  PROVE  Incoming
<1>1. inbox \in Seq(Events) /\ losses \in 0 .. MaxLosses /\ MaxInbox \in Nat /\ MaxLosses \in Nat
  BY DEF Types, WorldTypes, ProjectTypes, ConstantsAreSound
<1>2. /\ inbox' \in Seq(Events) /\ Len(inbox') = Len(inbox) + 1
      /\ \A i \in DOMAIN inbox : inbox'[i] = inbox[i]
      /\ inbox'[Len(inbox) + 1] = e /\ DOMAIN inbox' = 1 .. Len(inbox) + 1
      /\ DOMAIN inbox = 1 .. Len(inbox) /\ Len(inbox) \in Nat
  BY <1>1 DEF Arrives
<1>3. Len(inbox') <= MaxInbox + losses'
  BY <1>1, <1>2 DEF Arrives
<1>4. ASSUME NEW i \in DOMAIN inbox'
      PROVE  Truthful(inbox[i])' \/ \E j \in DOMAIN inbox : inbox'[i] = inbox[j]
  <2>1. CASE i \in DOMAIN inbox
    BY <1>2, <2>1
  <2>2. CASE i = Len(inbox) + 1
    BY <1>2, <2>2
  <2>3. QED BY <1>2, <2>1, <2>2
<1>5. QED BY <1>1, <1>2, <1>3, <1>4 DEF Incoming

LEMMA QuietInbox ==
  ASSUME Types, UNCHANGED <<inbox, losses>>
  PROVE  Incoming
BY DEF Types, WorldTypes, ProjectTypes, Incoming

LEMMA FrameFacts ==
  ASSUME Types, NEW r \in Renders, NEW id \in Ids, NEW index \in Indexes(r),
         NEW kind \in FrameKinds, NEW phase \in Phases \cup Terminal
  PROVE  /\ Frame(kind, id, index, phase) \in Events
         /\ Frame(kind, id, index, phase).kind = kind
         /\ Frame(kind, id, index, phase).id = id
         /\ Frame(kind, id, index, phase).phase = phase
         /\ Frame(kind, id, index, phase).index = index
         /\ index \in Renders \cup {Nothing}
<1>1. index \in Renders \cup {Nothing}
  BY DEF Indexes
<1>2. QED BY <1>1 DEF Frame, Events, FrameEvents

(* A frame that says nothing of the end of a render *)
LEMMA PlainFrame ==
  ASSUME Types, NEW r \in Renders, NEW id \in Ids, NEW kind \in FrameKinds \ {"error", "result"},
         NEW phases, phases \subseteq Phases,
         EmitFrame(kind, r, id, phases), UNCHANGED losses
  PROVE  Incoming
<1>1. PICK index \in Indexes(r), phase \in phases : Emit(Frame(kind, id, index, phase))
  BY DEF EmitFrame
<1>2. phase \in Phases \cup Terminal /\ ~(phase \in Terminal)
  BY DEF Phases, Terminal
<1> DEFINE e == Frame(kind, id, index, phase)
<1>3. e \in Events /\ e.kind = kind /\ e.phase = phase
  BY <1>2, FrameFacts
<1>4. Arrives(e)
  BY <1>1 DEF Emit, Arrives
<1> HIDE DEF e
<1>5. kind \notin {"completed", "failed", "queue", "error", "result"}
  BY DEF FrameKinds
<1>6. Truthful(e)'
  BY <1>2, <1>3, <1>5 DEF Truthful, Terminal
<1>7. QED BY <1>3, <1>4, <1>6, ArrivalFacts

(* The steps of the service *)
LEMMA AttemptFacts ==
  ASSUME Types, NEW r \in Renders, service.work[r].state \in {"running", "done", "failed"}
  PROVE  Attempt(r) \in Ids /\ Attempt(r).render = r
         /\ Attempt(r).number = service.work[r].number
<1>1. service.work[r].number \in 1 .. MaxAttempts
  BY WorkFields DEF Types, WorldTypes, ProjectTypes, ConstantsAreSound
<1>2. QED BY <1>1 DEF Attempt, Ids

LEMMA AssignFacts ==
  ASSUME Types, NEW r \in Renders, Assign(r)
  PROVE  Onwards /\ Incoming
<1> DEFINE x == [number |-> service.work[r].number + 1, state |-> "running"]
           id == [render |-> r, number |-> service.work[r].number + 1]
<1>1. service.work[r].number \in 0 .. MaxAttempts /\ service.work[r].number < MaxAttempts
      /\ MaxAttempts \in Nat
  BY WorkFields DEF Types, WorldTypes, ProjectTypes, ConstantsAreSound, Assign, Retriable
<1>2. x \in Works /\ x.state = "running" /\ x.number # 0 /\ id \in Ids
  BY <1>1 DEF Works, Ids
<1>3. Works1(r, x)
  <2>1. service' = [service EXCEPT !.work[r] = x]
    BY DEF Assign
  <2>2. QED BY <2>1, ServiceFields DEF Works1
<1>4. EmitFrame("started", r, id, FirstPhases)
  BY DEF Assign
<1>5. FirstPhases \subseteq Phases
  BY DEF Types, WorldTypes, ProjectTypes, ConstantsAreSound, Phases
<1>6. service.work[r].state = "waiting" /\ UNCHANGED losses
  BY DEF Assign
<1> HIDE DEF x, id
<1>7. Onwards
  BY <1>2, <1>3, <1>6, WorkGoesOn
<1>8. Incoming
  BY <1>2, <1>4, <1>5, <1>6, PlainFrame DEF FrameKinds
<1>9. QED BY <1>7, <1>8

LEMMA ProgressFacts ==
  ASSUME Types, NEW r \in Renders, Progress(r)
  PROVE  Onwards /\ Incoming
<1>1. PICK kind \in {"progress", "eta"} : EmitFrame(kind, r, Attempt(r), {"Processing"})
  BY DEF Progress
<1>2. Attempt(r) \in Ids
  BY AttemptFacts DEF Progress, Running
<1>3. {"Processing"} \subseteq Phases /\ kind \in FrameKinds \ {"error", "result"}
  BY DEF Phases, Terminal, FrameKinds
<1>4. UNCHANGED service /\ UNCHANGED losses
  BY DEF Progress
<1>5. Incoming
  BY <1>1, <1>2, <1>3, <1>4, PlainFrame
<1>6. QED BY <1>4, <1>5, NothingMoves

LEMMA ZombieFacts ==
  ASSUME Types, NEW r \in Renders, Zombie(r)
  PROVE  Onwards /\ Incoming
<1> DEFINE late == [Attempt(r) EXCEPT !.number = @ - 1]
<1>1. late \in retired \cup {jobs[n].id : n \in DOMAIN jobs}
      /\ EmitFrame("started", r, late, {"Processing"})
      /\ UNCHANGED service /\ UNCHANGED losses
  BY DEF Zombie
<1>2. \A n \in DOMAIN jobs : jobs[n].id \in Ids
  <2> TAKE n \in DOMAIN jobs
  <2>1. jobs[n] \in JobRecords
    BY DEF Types, WorldTypes, ProjectTypes
  <2>2. QED BY <2>1, JobFields
<1>3. {"Processing"} \subseteq Phases /\ "started" \in FrameKinds \ {"error", "result"}
  BY DEF Phases, Terminal, FrameKinds
<1> HIDE DEF late
<1>4. late \in Ids
  BY <1>1, <1>2 DEF Types, WorldTypes, ProjectTypes
<1>5. Incoming
  BY <1>1, <1>3, <1>4, PlainFrame
<1>6. QED BY <1>1, <1>5, NothingMoves

(* Only the state of a render changes *)
LEMMA StateFacts ==
  ASSUME Types, NEW r \in Renders, NEW state \in {"waiting", "running", "done", "failed"},
         Running(r), service' = [service EXCEPT !.work[r].state = state]
  PROVE  /\ Onwards
         /\ service'.work[r].state = state /\ service'.work[r].number = service.work[r].number
         /\ service'.verdict = service.verdict /\ service'.stamp = service.stamp
<1> DEFINE x == [service.work[r] EXCEPT !.state = state]
<1>1. service.work[r] \in Works /\ service.work[r].number # 0
      /\ service.work[r].state = "running"
  BY WorkFields DEF Running, Types, WorldTypes, ProjectTypes
<1>2. x \in Works /\ x.state = state /\ x.number = service.work[r].number
  BY <1>1 DEF Works
<1>3. Works1(r, x)
  BY ServiceFields DEF Works1
<1>4. /\ service'.work[r] = x /\ service'.verdict = service.verdict
      /\ service'.stamp = service.stamp
  <2> HIDE DEF x
  <2> QED BY <1>3, ServiceFields DEF Works1
<1> HIDE DEF x
<1>5. Onwards
  BY <1>1, <1>2, <1>3, WorkGoesOn
<1>6. QED BY <1>2, <1>4, <1>5

LEMMA RetryFacts ==
  ASSUME Types, NEW r \in Renders, Retry(r)
  PROVE  Onwards /\ Incoming
<1>1. Running(r) /\ service' = [service EXCEPT !.work[r].state = "waiting"] /\ UNCHANGED losses
      /\ (EmitFrame("retry", r, Attempt(r), {"Pending"}) \/ UNCHANGED inbox)
  BY DEF Retry
<1>2. Onwards
  BY <1>1, StateFacts
<1>3. Attempt(r) \in Ids
  BY <1>1, AttemptFacts DEF Running
<1>4. {"Pending"} \subseteq Phases /\ "retry" \in FrameKinds \ {"error", "result"}
  BY DEF Phases, Terminal, FrameKinds
<1>5. Incoming
  BY <1>1, <1>3, <1>4, PlainFrame, QuietInbox
<1>6. QED BY <1>2, <1>5

LEMMA ProduceFacts ==
  ASSUME Types, NEW r \in Renders, Produce(r)
  PROVE  Onwards /\ Incoming
<1>1. Running(r) /\ UNCHANGED losses
  BY DEF Produce
<1>2. Attempt(r) \in Ids /\ Attempt(r).render = r
  BY <1>1, AttemptFacts DEF Running
<1>3. PICK state \in {"done", "failed"}, kind \in {"result", "error"}, phase \in Ending :
        /\ service' = [service EXCEPT !.work[r].state = state]
        /\ EmitFrame(kind, r, Attempt(r), {phase})
        /\ phase = Says(state) /\ (kind = "error" <=> phase = "Failed")
  BY DEF Produce, Says, Ending
<1>4. Onwards /\ service'.work[r].state = state
      /\ service'.work[r].number = service.work[r].number
  BY <1>1, <1>3, StateFacts
<1>5. PICK index \in Indexes(r) : Emit(Frame(kind, Attempt(r), index, phase))
  BY <1>3 DEF EmitFrame
<1>6. kind \in FrameKinds /\ phase \in Phases \cup Terminal
  BY DEF FrameKinds, Terminal, Ending
<1>7. PICK e \in Events : /\ e.kind = kind /\ e.phase = phase /\ e.id = Attempt(r)
                          /\ Arrives(e)
  BY <1>2, <1>5, <1>6, FrameFacts DEF Emit, Arrives
<1>8. e.id = Attempt(r)' /\ e.id.render = r
  BY <1>2, <1>4, <1>7 DEF Attempt
<1>9. Gave(e.id, e.phase)'
  BY <1>3, <1>4, <1>7, <1>8 DEF Gave, Outcome
<1>10. Truthful(e)'
  BY <1>3, <1>7, <1>9 DEF Truthful, Ending
<1>11. QED BY <1>1, <1>4, <1>7, <1>10, ArrivalFacts

(* An event that is no frame *)
LEMMA PlainArrival ==
  ASSUME Types, NEW kind \in {"completed", "failed", "queued"}, Emit([kind |-> kind]),
         kind # "queued" => service'.verdict = kind, UNCHANGED losses
  PROVE  Incoming
<1> DEFINE e == [kind |-> kind]
<1>1. e \in Events /\ e.kind = kind
  BY DEF Events, PlainEvents
<1>2. Arrives(e)
  BY DEF Emit, Arrives
<1> HIDE DEF e
<1>3. Truthful(e)'
  BY <1>1 DEF Truthful, FrameKinds
<1>4. QED BY <1>1, <1>2, <1>3, ArrivalFacts

LEMMA ConcludeFacts ==
  ASSUME Types, Conclude
  PROVE  Onwards /\ Incoming
<1>1. PICK verdict \in {"completed", "failed"} :
        service' = [service EXCEPT !.verdict = verdict] /\ Emit([kind |-> verdict])
  BY DEF Conclude
<1>2. service.verdict = "active" /\ UNCHANGED losses
  BY DEF Conclude
<1>3. service'.verdict = verdict /\ service'.stamp = service.stamp /\ service'.work = service.work
      /\ service' \in Services
  BY <1>1, ServiceFields DEF Services, Verdicts
<1>4. Onwards
  BY <1>2, <1>3, ServiceFields DEF Onwards, Types, WorldTypes, ProjectTypes, ConstantsAreSound
<1>5. QED BY <1>1, <1>2, <1>3, <1>4, PlainArrival

LEMMA RequeueFacts ==
  ASSUME Types, Requeue
  PROVE  Onwards /\ Incoming
<1> DEFINE work == [r \in Renders |-> IF Running(r) THEN [service.work[r] EXCEPT !.state = "waiting"]
                                                    ELSE service.work[r]]
<1>1. service' = [service EXCEPT !.work = work] /\ Emit([kind |-> "queued"]) /\ UNCHANGED losses
  BY DEF Requeue
<1>2. ASSUME NEW r \in Renders
      PROVE  /\ work[r] \in Works
             /\ \/ work[r] = service.work[r]
                \/ work[r].state = "waiting" /\ service.work[r].state = "running"
  <2>1. service.work[r] \in Works
    BY WorkFields
  <2>2. CASE Running(r)
    BY <2>1, <2>2 DEF Works, Running
  <2>3. CASE ~Running(r)
    <3>1. work[r] = service.work[r]
      BY <2>3, Zenon
    <3> HIDE DEF work
    <3>2. QED BY <2>1, <3>1
  <2>4. QED BY <2>2, <2>3
<1>3. work \in [Renders -> Works]
  BY <1>2
<1> HIDE DEF work
<1>4. service'.verdict = service.verdict /\ service'.stamp = service.stamp /\ service'.work = work
      /\ service' \in Services
  BY <1>1, <1>3, ServiceFields DEF Services
<1>5. \A r \in Renders : service.work[r].state \in {"running", "done", "failed"} =>
        service.work[r].number # 0
  BY DEF Types, WorldTypes, ProjectTypes
<1>6. service.stamp <= service'.stamp
  BY <1>4, ServiceFields DEF Types, WorldTypes, ProjectTypes, ConstantsAreSound
<1>7. ASSUME NEW r \in Renders
      PROVE  /\ service'.work[r].state \in {"running", "done", "failed"} =>
                  service'.work[r].number # 0
             /\ service.work[r].state \in {"done", "failed"} =>
                  service'.work[r] = service.work[r]
             /\ service'.work[r].state = "none" <=> service.work[r].state = "none"
  BY <1>2, <1>4, <1>5
<1>8. Onwards
  BY <1>4, <1>6, <1>7 DEF Onwards
<1>9. QED BY <1>1, <1>8, PlainArrival

LEMMA ExplainFacts ==
  ASSUME Types, Explain
  PROVE  Onwards /\ Incoming
<1>1. service.verdict = "active" /\ service.stamp < MaxStamp /\ UNCHANGED losses
      /\ service' = [service EXCEPT !.stamp = @ + 1]
      /\ Emit([kind |-> "queue", stamp |-> service.stamp + 1, rows |-> Waiting])
  BY DEF Explain
<1>2. PICK stamp \in Nat : stamp = service.stamp + 1
  BY ServiceFields DEF Types, WorldTypes, ProjectTypes, ConstantsAreSound
<1>3. stamp \in 1 .. MaxStamp /\ stamp \in 0 .. MaxStamp /\ service.stamp <= stamp
  BY <1>1, <1>2, ServiceFields DEF Types, WorldTypes, ProjectTypes, ConstantsAreSound
<1>4. service'.verdict = service.verdict /\ service'.stamp = stamp
      /\ service'.work = service.work /\ service' \in Services
  <2>1. service' = [service EXCEPT !.stamp = stamp]
    BY <1>1, <1>2
  <2> QED BY <1>3, <2>1, ServiceFields DEF Services
<1>5. Waiting \in SUBSET Renders
  BY DEF Waiting
<1>6. PICK e : e = [kind |-> "queue", stamp |-> stamp, rows |-> Waiting]
  OBVIOUS
<1>7. e \in Events /\ e.kind = "queue" /\ e.stamp = stamp
  BY <1>3, <1>5, <1>6 DEF Events, QueueEvents
<1>8. Arrives(e)
  BY <1>1, <1>2, <1>6 DEF Emit, Arrives
<1>9. stamp <= service'.stamp
  BY <1>2, <1>4
<1>10. Truthful(e)'
  BY <1>7, <1>9 DEF Truthful, FrameKinds
<1>11. Onwards
  BY <1>1, <1>3, <1>4 DEF Onwards, Types, WorldTypes, ProjectTypes
<1>12. QED BY <1>1, <1>7, <1>8, <1>10, <1>11, ArrivalFacts

LEMMA CancelFacts ==
  ASSUME Types, Cancel
  PROVE  Onwards /\ Incoming
<1>1. service'.verdict = "canceled" /\ service'.stamp = service.stamp
      /\ service'.work = service.work /\ service' \in Services /\ service.verdict = "active"
  BY ServiceFields DEF Services, Verdicts, Cancel
<1>2. Onwards
  BY <1>1, ServiceFields DEF Onwards, Types, WorldTypes, ProjectTypes, ConstantsAreSound
<1>3. QED BY <1>2, QuietInbox DEF Cancel

LEMMA DisconnectFacts ==
  ASSUME Types, Disconnect
  PROVE  Onwards /\ Incoming
<1>1. PICK kept \in 0 .. Len(inbox) :
        inbox' = Append(SubSeq(inbox, 1, kept), [kind |-> "disconnected"])
  BY DEF Disconnect
<1>2. losses < MaxLosses /\ losses' = losses + 1 /\ UNCHANGED service
  BY DEF Disconnect
<1>3. inbox \in Seq(Events) /\ Len(inbox) <= MaxInbox + losses /\ losses \in 0 .. MaxLosses
      /\ MaxInbox \in Nat /\ MaxLosses \in Nat
  BY DEF Types, WorldTypes, ProjectTypes, ConstantsAreSound
<1> DEFINE e == [kind |-> "disconnected"]
           rest == SubSeq(inbox, 1, kept)
<1>4. e \in Events /\ e.kind = "disconnected"
  BY DEF Events, PlainEvents
<1>5. Truthful(e)'
  BY <1>4 DEF Truthful, FrameKinds
<1>6. kept \in Nat /\ kept <= Len(inbox) /\ \A i \in 1 .. kept : inbox[i] \in Events
  BY <1>3
<1>7. /\ rest \in Seq(Events) /\ Len(rest) = kept
      /\ \A i \in 1 .. kept : rest[i] = inbox[i]
  <2>1. /\ SubSeq(inbox, 1, kept) \in Seq(Events)
        /\ Len(SubSeq(inbox, 1, kept)) = IF 1 <= kept THEN kept - 1 + 1 ELSE 0
        /\ \A i \in 1 .. kept - 1 + 1 : SubSeq(inbox, 1, kept)[i] = inbox[1 + i - 1]
    BY <1>6, SubSeqProperties
  <2>2. \A i \in 1 .. kept : i \in 1 .. kept - 1 + 1 /\ 1 + i - 1 = i
    BY <1>6
  <2>3. QED BY <1>6, <2>1, <2>2
<1> HIDE DEF e, rest
<1>8. inbox' = Append(rest, e)
  BY <1>1 DEF e, rest
<1>9. /\ inbox' \in Seq(Events) /\ Len(inbox') = kept + 1 /\ DOMAIN inbox' = 1 .. kept + 1
      /\ \A i \in 1 .. kept : inbox'[i] = inbox[i]
      /\ inbox'[kept + 1] = e /\ DOMAIN inbox = 1 .. Len(inbox)
  BY <1>3, <1>4, <1>6, <1>7, <1>8
<1>10. Len(inbox') <= MaxInbox + losses' /\ losses' \in 0 .. MaxLosses
  BY <1>2, <1>3, <1>6, <1>9
<1>11. ASSUME NEW i \in DOMAIN inbox'
       PROVE  Truthful(inbox[i])' \/ \E j \in DOMAIN inbox : inbox'[i] = inbox[j]
  <2>1. CASE i \in 1 .. kept
    BY <1>3, <1>6, <1>9, <2>1
  <2>2. CASE i = kept + 1
    BY <1>5, <1>9, <2>2
  <2>3. QED BY <1>6, <1>9, <2>1, <2>2
<1>12. QED BY <1>2, <1>9, <1>10, <1>11, NothingMoves DEF Incoming

LEMMA ServiceFacts ==
  ASSUME Types, Service
  PROVE  Onwards /\ Incoming
BY AssignFacts, ProgressFacts, ZombieFacts, RetryFacts, ProduceFacts, ConcludeFacts, RequeueFacts,
   ExplainFacts, CancelFacts, DisconnectFacts DEF Service

--------------------------------------------------------------------------------
(***************************************************************************)
(* What a step of the client does to the jobs.                             *)
(***************************************************************************)
JobIds == {jobs[n].id : n \in DOMAIN jobs}

(* The jobs stay those of their attempts *)
Renewal ==
  /\ jobs' \in Seq(JobRecords) /\ DOMAIN jobs' = DOMAIN jobs
  /\ \A n \in DOMAIN jobs : Renewed(jobs'[n], jobs[n])
  /\ retired' = retired
  /\ awaiting \subseteq awaiting' /\ awaiting' \subseteq awaiting \cup JobIds

(* A job that ends in this step, or ends otherwise than before *)
Ends(n) == /\ jobs'[n].status # jobs[n].status
           /\ Finished(jobs[n].status) \/ Finished(jobs'[n].status)

(* Another attempt takes a job, or a job is added for it *)
TakesOver(id, slot) ==
  /\ id \notin retired /\ id \notin JobIds
  /\ slot \in DOMAIN jobs /\ ~Finished(jobs[slot].status)
  /\ jobs' \in Seq(JobRecords) /\ DOMAIN jobs' = DOMAIN jobs
  /\ \A n \in DOMAIN jobs : n # slot => jobs'[n] = jobs[n]
  /\ jobs'[slot].id = id /\ jobs'[slot].status = "Pending" /\ jobs'[slot].armed = Nothing
  /\ retired' = retired \cup {jobs[slot].id} /\ awaiting' = awaiting \ {jobs[slot].id}

IsAdded(id, slot) ==
  /\ id \notin retired /\ id \notin JobIds
  /\ slot = Len(jobs) + 1
  /\ jobs' \in Seq(JobRecords) /\ DOMAIN jobs' = DOMAIN jobs \cup {slot}
  /\ slot \notin DOMAIN jobs
  /\ \A n \in DOMAIN jobs : jobs'[n] = jobs[n]
  /\ jobs'[slot].id = id /\ jobs'[slot].status = "Pending"
  /\ UNCHANGED <<retired, awaiting>>

IsHeld(id, slot) ==
  /\ id \notin retired /\ slot \in DOMAIN jobs /\ jobs[slot].id = id
  /\ UNCHANGED <<jobs, retired, awaiting>>

LEMMA JobsTyped ==
  ASSUME Types
  PROVE  /\ jobs \in Seq(JobRecords) /\ DOMAIN jobs = 1 .. Len(jobs) /\ Len(jobs) \in Nat
         /\ \A n \in DOMAIN jobs : jobs[n] \in JobRecords /\ jobs[n].id \in Ids
         /\ JobIds \in SUBSET Ids /\ retired \in SUBSET Ids /\ awaiting \in SUBSET Ids
<1>1. jobs \in Seq(JobRecords) /\ retired \in SUBSET Ids /\ awaiting \in SUBSET Ids
  BY DEF Types, ProjectTypes
<1>2. \A n \in DOMAIN jobs : jobs[n] \in JobRecords
  BY <1>1
<1>3. \A n \in DOMAIN jobs : jobs[n].id \in Ids
  BY <1>2, JobFields
<1>4. QED BY <1>1, <1>2, <1>3 DEF JobIds

(* The least element of a set of natural numbers *)
LEMMA LeastNatural ==
  ASSUME NEW T, T \subseteq Nat, T # {}
  PROVE  \E n \in T : \A m \in T : n <= m
<1>1. \E x \in T : \A y \in T : ~ (<<y, x>> \in OpToRel(<, Nat))
  BY NatLessThanWellFounded, WFMin
<1>2. PICK n \in T : \A m \in T : ~ (m < n)
  BY <1>1 DEF OpToRel
<1>3. \A m \in T : n <= m
  BY <1>2
<1>4. QED BY <1>3

LEMMA HeirFacts ==
  ASSUME Types, NEW index, NEW slot \in Heirs(index)
  PROVE  slot \in DOMAIN jobs /\ ~Finished(jobs[slot].status)
<1> DEFINE placed == {n \in Unfinished : index # Nothing /\ jobs[n].index = index}
           announced == {n \in Unfinished : jobs[n].index = Nothing /\ jobs[n].id \in awaiting}
<1>1. placed \subseteq Unfinished /\ announced \subseteq Unfinished
  OBVIOUS
<1>2. slot \in Unfinished
  <2>1. CASE slot \in announced
    BY <1>1, <2>1
  <2>2. CASE slot \notin announced
    <3>1. placed # {} /\ slot \in {CHOOSE n \in placed : \A m \in placed : n <= m}
      BY <2>2, Zenon DEF Heirs
    <3>2. slot = CHOOSE n \in placed : \A m \in placed : n <= m
      BY <3>1
    <3>3. placed \subseteq Nat
      BY <1>1, JobsTyped DEF Unfinished
    <3>4. \E n \in placed : \A m \in placed : n <= m
      BY <3>1, <3>3, LeastNatural
    <3>5. slot \in placed
      <4> HIDE DEF placed
      <4> QED BY <3>2, <3>4
    <3>6. QED BY <1>1, <3>5
  <2>3. QED BY <2>1, <2>2
<1>3. QED BY <1>2 DEF Unfinished

LEMMA SlotFacts ==
  ASSUME NEW id
  PROVE  /\ Slots(id) = {} <=> id \notin JobIds
         /\ \A slot \in Slots(id) : slot \in DOMAIN jobs /\ jobs[slot].id = id
BY DEF Slots, JobIds

LEMMA ClaimFacts ==
  ASSUME Types, NEW id \in Ids, NEW index \in Renders \cup {Nothing}, NEW slot,
         Claim(id, index, slot)
  PROVE  \/ IsHeld(id, slot) \/ TakesOver(id, slot) \/ IsAdded(id, slot)
<1>1. id \notin retired
  BY DEF Claim, Ignored
<1>2. CASE slot \in Slots(id) /\ UNCHANGED <<jobs, retired, awaiting>>
  BY <1>1, <1>2, SlotFacts DEF IsHeld
<1>3. CASE /\ Slots(id) = {} /\ slot \in Heirs(index)
           /\ jobs' = [jobs EXCEPT ![slot] = Reset(@, id, index)]
           /\ retired' = retired \cup {jobs[slot].id}
           /\ awaiting' = awaiting \ {jobs[slot].id}
  <2>1. slot \in DOMAIN jobs /\ ~Finished(jobs[slot].status) /\ id \notin JobIds
    BY <1>3, HeirFacts, SlotFacts
  <2>2. jobs[slot] \in JobRecords /\ jobs \in Seq(JobRecords)
    BY <2>1, JobsTyped
  <2> DEFINE new == Reset(jobs[slot], id, index)
  <2>3. new \in JobRecords /\ new.id = id /\ new.status = "Pending" /\ new.armed = Nothing
    BY <2>2, ResetFacts
  <2>4. jobs' = [jobs EXCEPT ![slot] = new]
    BY <1>3
  <2> HIDE DEF new
  <2>5. jobs' \in Seq(JobRecords) /\ DOMAIN jobs' = DOMAIN jobs /\ jobs'[slot] = new
        /\ \A n \in DOMAIN jobs : n # slot => jobs'[n] = jobs[n]
    BY <2>1, <2>2, <2>3, <2>4
  <2>6. QED BY <1>1, <1>3, <2>1, <2>3, <2>5 DEF TakesOver
<1>4. CASE /\ Slots(id) = {} /\ slot = Len(jobs) + 1
           /\ jobs' = Append(jobs, NewJob(id))
           /\ UNCHANGED <<retired, awaiting>>
  <2>1. jobs \in Seq(JobRecords) /\ DOMAIN jobs = 1 .. Len(jobs) /\ Len(jobs) \in Nat
    BY JobsTyped
  <2> DEFINE new == NewJob(id)
  <2>2. new \in JobRecords /\ new.id = id /\ new.status = "Pending"
    BY NewJobFacts
  <2>3. jobs' = Append(jobs, new)
    BY <1>4
  <2> HIDE DEF new
  <2>4. /\ jobs' \in Seq(JobRecords) /\ DOMAIN jobs' = 1 .. Len(jobs) + 1
        /\ jobs'[Len(jobs) + 1] = new /\ \A n \in DOMAIN jobs : jobs'[n] = jobs[n]
    BY <2>1, <2>2, <2>3
  <2>5. DOMAIN jobs' = DOMAIN jobs \cup {slot} /\ slot \notin DOMAIN jobs
    BY <1>4, <2>1, <2>4
  <2>6. QED BY <1>1, <1>4, <2>2, <2>4, <2>5, SlotFacts DEF IsAdded
<1>5. QED BY <1>2, <1>3, <1>4, Zenon DEF Claim

(* One job is changed, and stays the job of its attempt *)
LEMMA OneRenewed ==
  ASSUME Types, NEW slot \in DOMAIN jobs, NEW new, Renewed(new, jobs[slot]),
         jobs' = [jobs EXCEPT ![slot] = new], UNCHANGED <<retired, awaiting>>
  PROVE  Renewal /\ jobs'[slot] = new /\ \A n \in DOMAIN jobs : n # slot => jobs'[n] = jobs[n]
<1>1. jobs \in Seq(JobRecords) /\ \A n \in DOMAIN jobs : jobs[n] \in JobRecords
  BY JobsTyped
<1>2. new \in JobRecords
  BY DEF Renewed
<1>3. jobs' \in Seq(JobRecords) /\ DOMAIN jobs' = DOMAIN jobs /\ jobs'[slot] = new
      /\ \A n \in DOMAIN jobs : n # slot => jobs'[n] = jobs[n]
  BY <1>1, <1>2
<1>4. \A n \in DOMAIN jobs : Renewed(jobs'[n], jobs[n])
  BY <1>1, <1>3 DEF Renewed
<1>5. QED BY <1>3, <1>4 DEF Renewal

(* Each job is changed, and stays the job of its attempt *)
LEMMA AllRenewed ==
  ASSUME Types, UNCHANGED <<retired, awaiting>>, DOMAIN jobs' = DOMAIN jobs,
         NEW f, jobs' = [n \in DOMAIN jobs |-> f[n]],
         \A n \in DOMAIN jobs : Renewed(f[n], jobs[n])
  PROVE  Renewal
<1>1. jobs \in Seq(JobRecords) /\ DOMAIN jobs = 1 .. Len(jobs) /\ Len(jobs) \in Nat
  BY JobsTyped
<1>2. \A n \in DOMAIN jobs : jobs'[n] \in JobRecords /\ Renewed(jobs'[n], jobs[n])
  BY DEF Renewed
<1>3. jobs' \in Seq(JobRecords)
  BY <1>1, <1>2
<1>4. QED BY <1>2, <1>3 DEF Renewal

LEMMA NoneRenewed ==
  ASSUME Types, UNCHANGED <<jobs, retired, awaiting>>
  PROVE  Renewal /\ \A n \in DOMAIN jobs : ~Ends(n)
BY JobsTyped DEF Renewal, Renewed, Ends

(* A project shows less than before, and stays what it was *)
Fades ==
  /\ project' \in Projects /\ Explains(project')
  /\ project'.status = project.status /\ project'.stamp \in {0, project.stamp}

LEMMA FadesWhenCleared ==
  ASSUME Types, NEW id, NEW index, project' = Cleared(jobs', id, index)
  PROVE  Fades
<1>1. PICK list : list = jobs'
  OBVIOUS
<1>2. project' = Cleared(list, id, index)
  BY <1>1
<1>3. QED BY <1>2, ClearedFacts DEF Fades

LEMMA FadesUnchanged ==
  ASSUME Types, UNCHANGED project
  PROVE  Fades
BY DEF Types, ProjectTypes, Fades

LEMMA NotifyFacts ==
  ASSUME Types, NEW changed, Notify(changed)
  PROVE  waiter' \in {"woken", "asleep", "ok", "failed"}
BY DEF Types, CallerTypes, Notify

LEMMA WorldStays ==
  ASSUME Types, Onwards, Incoming
  PROVE  WorldTypes'
BY DEF Onwards, Incoming, WorldTypes

LEMMA HearsFacts ==
  ASSUME Types, NEW kinds, Hears(kinds), UNCHANGED losses
  PROVE  /\ Incoming /\ Heard \in Events /\ Heard.kind \in kinds
         /\ 1 \in DOMAIN inbox /\ Heard = inbox[1] /\ listener.pc = "idle"
         /\ \A i \in DOMAIN inbox' : i + 1 \in DOMAIN inbox /\ inbox'[i] = inbox[i + 1]
<1>1. inbox \in Seq(Events) /\ inbox # <<>> /\ inbox' = Tail(inbox) /\ losses \in 0 .. MaxLosses
      /\ Len(inbox) <= MaxInbox + losses /\ MaxInbox \in Nat /\ MaxLosses \in Nat
  BY DEF Hears, Types, WorldTypes, ConstantsAreSound
<1>2. /\ Head(inbox) \in Events /\ inbox' \in Seq(Events) /\ Len(inbox') = Len(inbox) - 1
      /\ \A i \in 1 .. Len(inbox') : inbox'[i] = inbox[i + 1]
  BY <1>1, HeadTailProperties
<1>3. Head(inbox) = inbox[1] /\ 1 \in DOMAIN inbox /\ DOMAIN inbox' = 1 .. Len(inbox')
      /\ DOMAIN inbox = 1 .. Len(inbox) /\ Len(inbox) \in Nat
  BY <1>1, <1>2
<1>4. \A i \in DOMAIN inbox' : i + 1 \in DOMAIN inbox /\ inbox'[i] = inbox[i + 1]
  BY <1>2, <1>3
<1>5. Len(inbox') <= MaxInbox + losses'
  BY <1>1, <1>2, <1>3
<1>6. \A i \in DOMAIN inbox' : \E j \in DOMAIN inbox : inbox'[i] = inbox[j]
  BY <1>4
<1>7. QED BY <1>1, <1>2, <1>3, <1>4, <1>5, <1>6 DEF Hears, Heard, Incoming

LEMMA FrameEventFacts ==
  ASSUME NEW e \in Events
  PROVE  /\ e.kind \in FrameKinds => e \in FrameEvents
         /\ e \in FrameEvents => e.id \in Ids /\ e.index \in Renders \cup {Nothing}
                                 /\ e.phase \in Phases \cup Terminal /\ e.kind \in FrameKinds
         /\ e.kind = "queue" => e.stamp \in 1 .. MaxStamp /\ e.rows \in SUBSET Renders
BY DEF Events, FrameEvents, PlainEvents, QueueEvents, FrameKinds

(* The two threads, when one of them stays where it is *)
LEMMA ThreadsFacts ==
  ASSUME Types
  PROVE  /\ listener.pc # "idle" => /\ listener \in Listening /\ listener.slot \in DOMAIN jobs
                                    /\ listener.event \in FrameEvents
         /\ recovery.pc = "asked" => recovery \in Asked /\ recovery.cancel \in BOOLEAN
         /\ recovery.pc = "answered" =>
              /\ recovery.cancel \in BOOLEAN /\ recovery.status \in Statuses
              /\ recovery.list \in SUBSET FoundJobs /\ recovery.stamp \in 0 .. MaxStamp
              /\ recovery.rows \in SUBSET Renders /\ (recovery.stamp = 0 => recovery.rows = {})
         /\ recovery.pc \in {"jobs", "update", "status", "canceled"} =>
              /\ recovery.cancel \in BOOLEAN /\ recovery.status \in Statuses
              /\ recovery.todo \in SUBSET FoundJobs /\ recovery.inFlight \in BOOLEAN
         /\ recovery.pc = "update" =>
              recovery.job \in Placements /\ recovery.job.slot \in DOMAIN jobs
<1>1. listener.pc # "idle" => /\ listener \in Listening /\ listener.slot \in DOMAIN jobs
                              /\ listener.event \in FrameEvents
  BY DEF Types, ThreadTypes, Idle, Listening
<1>2. recovery.pc = "asked" => recovery \in Asked /\ recovery.cancel \in BOOLEAN
  BY DEF Types, ThreadTypes, Idle, Asked, Answered, Replays, Updates
<1>3. recovery.pc = "answered" =>
              /\ recovery.cancel \in BOOLEAN /\ recovery.status \in Statuses
              /\ recovery.list \in SUBSET FoundJobs /\ recovery.stamp \in 0 .. MaxStamp
              /\ recovery.rows \in SUBSET Renders /\ (recovery.stamp = 0 => recovery.rows = {})
  BY DEF Types, ThreadTypes, Idle, Asked, Answered, Replays, Updates
<1>4. recovery.pc \in {"jobs", "update", "status", "canceled"} =>
              /\ recovery.cancel \in BOOLEAN /\ recovery.status \in Statuses
              /\ recovery.todo \in SUBSET FoundJobs /\ recovery.inFlight \in BOOLEAN
  BY DEF Types, ThreadTypes, Idle, Asked, Answered, Replays, Updates
<1>5. recovery.pc = "update" =>
              recovery.job \in Placements /\ recovery.job.slot \in DOMAIN jobs
  BY DEF Types, ThreadTypes, Idle, Asked, Answered, Replays, Updates
<1>6. QED BY <1>1, <1>2, <1>3, <1>4, <1>5

LEMMA ThreadsStay ==
  ASSUME Types, UNCHANGED <<listener, recovery>>, DOMAIN jobs \subseteq DOMAIN jobs'
  PROVE  ThreadTypes'
BY DEF Types, ThreadTypes

(* A job is found for an attempt *)
Claimed(id, slot) == IsHeld(id, slot) \/ TakesOver(id, slot) \/ IsAdded(id, slot)

LEMMA ClaimedFacts ==
  ASSUME Types, NEW id \in Ids, NEW slot, Claimed(id, slot)
  PROVE  /\ slot \in DOMAIN jobs' /\ slot \in Nat /\ DOMAIN jobs \subseteq DOMAIN jobs'
         /\ jobs' \in Seq(JobRecords) /\ retired' \in SUBSET Ids /\ awaiting' \in SUBSET Ids
         /\ jobs'[slot].id = id /\ id \notin retired /\ id \notin retired'
         /\ retired \subseteq retired'
<1>1. /\ jobs \in Seq(JobRecords) /\ DOMAIN jobs = 1 .. Len(jobs) /\ Len(jobs) \in Nat
      /\ \A n \in DOMAIN jobs : jobs[n] \in JobRecords /\ jobs[n].id \in Ids
      /\ retired \in SUBSET Ids /\ awaiting \in SUBSET Ids
  BY JobsTyped
<1>2. CASE IsHeld(id, slot)
  BY <1>1, <1>2 DEF IsHeld
<1>3. CASE TakesOver(id, slot)
  <2>1. jobs[slot].id \in JobIds /\ jobs[slot].id \in Ids
    BY <1>1, <1>3 DEF TakesOver, JobIds
  <2>2. QED BY <1>1, <1>3, <2>1 DEF TakesOver
<1>4. CASE IsAdded(id, slot)
  BY <1>1, <1>4 DEF IsAdded
<1>5. QED BY <1>2, <1>3, <1>4 DEF Claimed

--------------------------------------------------------------------------------
(***************************************************************************)
(* The steps of the listener.                                              *)
(***************************************************************************)
ListenedTypes == Types' /\ Onwards /\ Incoming

LEMMA ListenerTypes ==
  ASSUME Types, UNCHANGED <<service, recovery>>, Incoming,
         project' \in Projects, Explains(project)',
         jobs' \in Seq(JobRecords), retired' \in SUBSET Ids, awaiting' \in SUBSET Ids,
         DOMAIN jobs \subseteq DOMAIN jobs',
         listener' \in {Idle} \cup Listening,
         listener'.pc # "idle" => listener'.slot \in DOMAIN jobs',
         CallerTypes'
  PROVE  ListenedTypes
<1>1. Onwards
  BY NothingMoves
<1>2. WorldTypes'
  BY <1>1, WorldStays
<1>3. ProjectTypes'
  BY DEF ProjectTypes
<1>4. ThreadTypes'
  BY DEF ThreadTypes, Types
<1>5. QED BY <1>1, <1>2, <1>3, <1>4 DEF Types, ListenedTypes

LEMMA RenewalTypes ==
  ASSUME Types, Renewal
  PROVE  /\ jobs' \in Seq(JobRecords) /\ retired' \in SUBSET Ids /\ awaiting' \in SUBSET Ids
         /\ DOMAIN jobs \subseteq DOMAIN jobs'
BY JobsTyped DEF Renewal

LEMMA IdleTypes ==
  ASSUME listener' = Idle
  PROVE  listener' \in {Idle} \cup Listening /\ listener'.pc = "idle"
BY DEF Idle

LEMMA ListenerStays ==
  ASSUME Types, UNCHANGED listener, DOMAIN jobs \subseteq DOMAIN jobs'
  PROVE  /\ listener' \in {Idle} \cup Listening
         /\ listener'.pc # "idle" => listener'.slot \in DOMAIN jobs'
BY DEF Types, ThreadTypes

LEMMA HearAttemptFacts ==
  ASSUME Types, HearAttempt
  PROVE  /\ ListenedTypes /\ Fades /\ fresh' = FALSE
         /\ Heard \in FrameEvents /\ 1 \in DOMAIN inbox /\ Heard = inbox[1]
         /\ \E slot : Claimed(Heard.id, slot)
                      /\ listener' = [pc |-> "job", event |-> Heard, slot |-> slot]
<1>1. /\ Hears({"started", "progress", "eta", "result", "error"})
      /\ fresh' = FALSE /\ UNCHANGED <<signing, heard>> /\ UNCHANGED <<service, losses, recovery>>
      /\ Notify(jobs' # jobs \/ project' # project)
  BY DEF HearAttempt, ListenerSide
<1>2. PICK slot \in 1 .. Len(jobs) + 1 :
       /\ Claim(Heard.id, Heard.index, slot)
       /\ project' = Cleared(jobs', Heard.id, Heard.index)
       /\ listener' = [pc |-> "job", event |-> Heard, slot |-> slot]
  BY DEF HearAttempt
<1>3. /\ Incoming /\ Heard \in Events
      /\ Heard.kind \in {"started", "progress", "eta", "result", "error"}
      /\ 1 \in DOMAIN inbox /\ Heard = inbox[1]
  BY <1>1, HearsFacts
<1>4. Heard \in FrameEvents /\ Heard.id \in Ids /\ Heard.index \in Renders \cup {Nothing}
  BY <1>3, FrameEventFacts DEF FrameKinds
<1>5. Claimed(Heard.id, slot)
  BY <1>2, <1>4, ClaimFacts DEF Claimed
<1>6. Fades
  BY <1>2, FadesWhenCleared
<1>7. /\ slot \in DOMAIN jobs' /\ slot \in Nat /\ DOMAIN jobs \subseteq DOMAIN jobs'
      /\ jobs' \in Seq(JobRecords) /\ retired' \in SUBSET Ids /\ awaiting' \in SUBSET Ids
  BY <1>4, <1>5, ClaimedFacts
<1>8. PICK e : e = Heard
  OBVIOUS
<1>9. listener' \in Listening /\ listener'.slot = slot
  BY <1>2, <1>4, <1>7, <1>8 DEF Listening
<1>10. CallerTypes'
  <2>1. waiter' \in {"woken", "asleep", "ok", "failed"}
    BY <1>1, NotifyFacts
  <2>2. QED BY <1>1, <2>1 DEF Types, CallerTypes
<1>11. ListenedTypes
  BY <1>1, <1>3, <1>6, <1>7, <1>9, <1>10, ListenerTypes DEF Fades, Explains
<1>12. QED BY <1>1, <1>2, <1>3, <1>4, <1>5, <1>6, <1>11

LEMMA HearIgnoredFacts ==
  ASSUME Types, HearIgnored
  PROVE  /\ ListenedTypes /\ Fades /\ UNCHANGED <<jobs, retired, awaiting, listener, heard>>
         /\ fresh' => fresh
<1>1. /\ Hears({"started", "progress", "eta", "result", "error"})
      /\ UNCHANGED <<jobs, retired, awaiting, listener, signing, heard>>
      /\ UNCHANGED <<service, losses, recovery>>
      /\ Notify(project' # project)
      /\ \/ project' = Cleared(jobs, Heard.id, Heard.index) /\ fresh' = FALSE
         \/ UNCHANGED <<project, fresh>>
  BY DEF HearIgnored, ListenerSide
<1>2. Incoming
  BY <1>1, HearsFacts
<1>3. Fades /\ (fresh' => fresh)
  BY <1>1, FadesWhenCleared, FadesUnchanged
<1>4. CallerTypes'
  <2>1. waiter' \in {"woken", "asleep", "ok", "failed"}
    BY <1>1, NotifyFacts
  <2>2. QED BY <1>1, <2>1 DEF Types, CallerTypes
<1>5. ListenedTypes
  BY <1>1, <1>2, <1>3, <1>4, NoneRenewed, RenewalTypes, ListenerStays, ListenerTypes
     DEF Fades, Explains
<1>6. QED BY <1>1, <1>3, <1>5

(* What a frame says of its job; a finished one is only ended otherwise *)
LEMMA FrameOfJob ==
  ASSUME NEW job \in JobRecords, NEW event \in FrameEvents
  PROVE  /\ JobStarted(job, event) \in JobRecords /\ JobProgressed(job) \in JobRecords
         /\ JobEnded(job, event) \in JobRecords
         /\ JobStarted(job, event).status \in {job.status, event.phase}
         /\ JobProgressed(job).status \in {job.status, "Processing"}
         /\ JobEnded(job, event).status = event.phase
         /\ Finished(job.status) => JobStarted(job, event) = job /\ JobProgressed(job) = job
         /\ \A new \in {JobStarted(job, event), JobProgressed(job), JobEnded(job, event)} :
              new.id = job.id /\ new.armed = job.armed /\ new.deadline = job.deadline
<1>1. event.phase \in Phases \cup Terminal /\ event.index \in Renders \cup {Nothing}
  BY DEF FrameEvents
<1>2. /\ job.id \in Ids /\ job.index \in Renders \cup {Nothing}
      /\ job.status \in Phases \cup Terminal /\ "Processing" \in Phases \cup Terminal
  BY JobFields DEF Phases
<1> DEFINE phase == event.phase
           index == IF event.index # Nothing THEN event.index ELSE job.index
<1>3. phase \in Phases \cup Terminal /\ index \in Renders \cup {Nothing}
  BY <1>1, <1>2
<1>4. JobStarted(job, event) = job \/ JobStarted(job, event) = [job EXCEPT !.status = phase, !.index = index]
  BY Zenon DEF JobStarted
<1>5. JobProgressed(job) = job \/ JobProgressed(job) = [job EXCEPT !.status = "Processing"]
  BY Zenon DEF JobProgressed
<1>6. JobEnded(job, event) = [job EXCEPT !.status = phase]
  BY Zenon DEF JobEnded
<1> HIDE DEF phase, index
<1>7. LET new == [job EXCEPT !.status = phase, !.index = index]
      IN /\ new \in JobRecords /\ new.status = phase /\ new.id = job.id /\ new.armed = job.armed
         /\ new.deadline = job.deadline
  BY <1>3 DEF JobRecords
<1>8. LET new == [job EXCEPT !.status = "Processing"]
      IN /\ new \in JobRecords /\ new.status = "Processing" /\ new.id = job.id
         /\ new.armed = job.armed /\ new.deadline = job.deadline
  BY <1>2 DEF JobRecords
<1>9. LET new == [job EXCEPT !.status = phase]
      IN /\ new \in JobRecords /\ new.status = phase /\ new.id = job.id
         /\ new.armed = job.armed /\ new.deadline = job.deadline
  BY <1>3 DEF JobRecords
<1>10. phase = event.phase
  BY DEF phase
<1>11. /\ JobStarted(job, event) \in JobRecords
       /\ JobStarted(job, event).status \in {job.status, event.phase}
       /\ JobStarted(job, event).id = job.id /\ JobStarted(job, event).armed = job.armed
       /\ JobStarted(job, event).deadline = job.deadline
  BY <1>4, <1>7, <1>10
<1>12. /\ JobProgressed(job) \in JobRecords
       /\ JobProgressed(job).status \in {job.status, "Processing"}
       /\ JobProgressed(job).id = job.id /\ JobProgressed(job).armed = job.armed
       /\ JobProgressed(job).deadline = job.deadline
  BY <1>5, <1>8
<1>13. /\ JobEnded(job, event) \in JobRecords
       /\ JobEnded(job, event).status = event.phase
       /\ JobEnded(job, event).id = job.id /\ JobEnded(job, event).armed = job.armed
       /\ JobEnded(job, event).deadline = job.deadline
  BY <1>6, <1>9, <1>10
<1>14. Finished(job.status) => JobStarted(job, event) = job /\ JobProgressed(job) = job
  BY Zenon DEF JobStarted, JobProgressed
<1>15. QED BY <1>11, <1>12, <1>13, <1>14

LEMMA ObservedFacts ==
  ASSUME NEW job \in JobRecords, NEW new \in JobRecords, new.id = job.id,
         new.armed = job.armed, new.deadline = job.deadline, NEW statusUpdate \in BOOLEAN
  PROVE  /\ Renewed(Observe(new, statusUpdate), job)
         /\ Observe(new, statusUpdate).status = new.status
BY ObserveFacts DEF Renewed

LEMMA UpdateJobFacts ==
  ASSUME Types, UpdateJob
  PROVE  /\ ListenedTypes /\ Renewal /\ UNCHANGED <<project, fresh, heard>>
         /\ listener.pc = "job" /\ listener'.pc \in {"project", "idle"}
         /\ listener'.pc # "idle" => listener'.event = listener.event
         /\ \A n \in DOMAIN jobs : Ends(n) =>
              /\ n = listener.slot /\ jobs'[n].status = listener.event.phase
              /\ Finished(listener.event.phase) \/ listener.event.kind \in {"result", "error", "retry"}
<1> DEFINE event == listener.event
           job == jobs[listener.slot]
<1>1. /\ listener.pc = "job"
      /\ UNCHANGED <<inbox, project, retired, awaiting, fresh, heard>>
      /\ UNCHANGED <<service, losses, recovery>>
  BY DEF UpdateJob, ListenerSide
<1>2. event \in FrameEvents /\ listener.slot \in DOMAIN jobs /\ job \in JobRecords
      /\ listener \in Listening
  BY <1>1, ThreadsFacts, JobsTyped
<1>3. PICK new : /\ jobs' = [jobs EXCEPT ![listener.slot] = new]
                 /\ \/ new = Observe(JobStarted(job, event), TRUE)
                    \/ new = Observe(JobProgressed(job), TRUE)
                    \/ new = Observe(job, FALSE)
                    \/ /\ new = Observe(JobEnded(job, event), TRUE)
                       /\ event.kind \notin {"started", "progress", "eta"}
  <2>1. PICK new : /\ jobs' = [jobs EXCEPT ![listener.slot] = new]
                   /\ new = CASE event.kind = "started" -> Observe(JobStarted(job, event), TRUE)
                              [] event.kind = "progress" -> Observe(JobProgressed(job), TRUE)
                              [] event.kind = "eta" -> Observe(JobEta(job), FALSE)
                              [] OTHER -> Observe(JobEnded(job, event), TRUE)
    BY DEF UpdateJob
  <2> HIDE DEF event, job
  <2>2. \/ new = Observe(JobStarted(job, event), TRUE)
        \/ new = Observe(JobProgressed(job), TRUE)
        \/ new = Observe(job, FALSE)
        \/ /\ new = Observe(JobEnded(job, event), TRUE)
           /\ event.kind \notin {"started", "progress", "eta"}
    BY <2>1 DEF JobEta
  <2>3. QED BY <2>1, <2>2
<1>4. /\ Renewed(new, job)
      /\ \/ new.status = job.status
         \/ ~Finished(job.status) /\ new.status \in {event.phase, "Processing"}
         \/ /\ new.status = event.phase
            /\ event.kind \notin {"started", "progress", "eta"}
  <2> HIDE DEF event, job
  <2>1. CASE new = Observe(JobStarted(job, event), TRUE)
    <3>1. PICK old : old = JobStarted(job, event)
      OBVIOUS
    <3>2. /\ old \in JobRecords /\ old.id = job.id /\ old.armed = job.armed
          /\ old.deadline = job.deadline /\ old.status \in {job.status, event.phase}
          /\ Finished(job.status) => old.status = job.status
      BY <1>2, <3>1, FrameOfJob
    <3>3. Renewed(Observe(old, TRUE), job) /\ Observe(old, TRUE).status = old.status
      BY <1>2, <3>2, ObservedFacts
    <3>4. Renewed(new, job) /\ new.status = old.status
      BY <2>1, <3>1, <3>3
    <3>5. QED BY <3>2, <3>4
  <2>2. CASE new = Observe(JobProgressed(job), TRUE)
    BY <1>2, <2>2, FrameOfJob, ObservedFacts
  <2>3. CASE new = Observe(job, FALSE)
    BY <1>2, <2>3, ObserveFacts
  <2>4. CASE /\ new = Observe(JobEnded(job, event), TRUE)
             /\ event.kind \notin {"started", "progress", "eta"}
    <3>1. PICK old : old = JobEnded(job, event)
      OBVIOUS
    <3>2. /\ old \in JobRecords /\ old.id = job.id /\ old.armed = job.armed
          /\ old.deadline = job.deadline /\ old.status \in {event.phase}
      BY <1>2, <3>1, FrameOfJob
    <3>3. Renewed(Observe(old, TRUE), job) /\ Observe(old, TRUE).status = old.status
      BY <1>2, <3>2, ObservedFacts
    <3>4. QED BY <2>4, <3>1, <3>2, <3>3
  <2>5. QED BY <1>3, <2>1, <2>2, <2>3, <2>4
<1>5. Renewal /\ jobs'[listener.slot] = new
      /\ \A n \in DOMAIN jobs : n # listener.slot => jobs'[n] = jobs[n]
  BY <1>1, <1>2, <1>3, <1>4, OneRenewed
<1>6. ASSUME NEW n \in DOMAIN jobs, Ends(n)
      PROVE  /\ n = listener.slot /\ jobs'[n].status = event.phase
             /\ Finished(event.phase) \/ event.kind \in {"result", "error", "retry"}
  <2>1. n = listener.slot /\ jobs'[n] = new /\ jobs[n] = job
    BY <1>5, <1>6 DEF Ends
  <2>2. event.kind \in FrameKinds
    BY <1>2 DEF FrameEvents
  <2> HIDE DEF event, job
  <2>3. QED BY <1>4, <1>6, <2>1, <2>2 DEF Ends, Finished, Terminal, FrameKinds
<1>7. /\ listener' = Idle \/ listener' = [listener EXCEPT !.pc = "project"]
      /\ signing' \in {signing, signing + 1}
      /\ Notify(TRUE) \/ UNCHANGED waiter
  BY DEF UpdateJob
<1>8. /\ listener' \in {Idle} \cup Listening
      /\ listener'.pc \in {"project", "idle"}
      /\ listener'.pc # "idle" => listener'.slot = listener.slot /\ listener'.event = listener.event
  BY <1>2, <1>7 DEF Idle, Listening
<1>9. CallerTypes'
  <2>1. waiter' \in {"woken", "asleep", "ok", "failed"}
    BY <1>7, NotifyFacts DEF Types, CallerTypes
  <2>2. QED BY <1>1, <1>7, <2>1 DEF Types, CallerTypes
<1>10. DOMAIN jobs' = DOMAIN jobs
  BY <1>5 DEF Renewal
<1>11. project' \in Projects /\ Explains(project)'
  BY <1>1 DEF Types, ProjectTypes, Explains
<1>12. ListenedTypes
  BY <1>1, <1>2, <1>5, <1>8, <1>9, <1>10, <1>11, RenewalTypes, QuietInbox, ListenerTypes
<1>13. QED BY <1>1, <1>5, <1>6, <1>8, <1>12

(* A project keeps its explanation or shows none, and stays finished *)
Continues ==
  /\ project' \in Projects /\ Explains(project)'
  /\ project'.stamp \in {0, project.stamp}
  /\ Finished(project.status) => Finished(project'.status)

LEMMA ProjectFields ==
  ASSUME Types
  PROVE  /\ project.status \in {"Pending", "Queued", "Processing"} \cup Terminal
         /\ project.stamp \in 0 .. MaxStamp /\ project.rows \in SUBSET Renders
         /\ project \in Projects /\ Explains(project) /\ MaxStamp \in Nat
BY DEF Types, ProjectTypes, Projects, ConstantsAreSound

LEMMA FadesContinues ==
  ASSUME Types, Fades
  PROVE  Continues /\ project'.status = project.status
BY DEF Fades, Continues, Explains

LEMMA UpdateProjectFacts ==
  ASSUME Types, NEW status \in {"Pending", "Queued", "Processing"} \cup Terminal,
         Finished(project.status) => Finished(status), UpdateProject(status)
  PROVE  /\ Continues /\ project'.status = status
         /\ waiter' \in {"woken", "asleep", "ok", "failed"}
<1>1. project' = WithStatus(status) /\ Notify(TRUE)
  BY DEF UpdateProject
<1>2. /\ WithStatus(status) \in Projects /\ Explains(WithStatus(status))
      /\ WithStatus(status).status = status
      /\ WithStatus(status).stamp \in {0, project.stamp}
  BY WithStatusFacts
<1>3. project' \in Projects /\ Explains(project)' /\ project'.status = status
      /\ project'.stamp \in {0, project.stamp}
  BY <1>1, <1>2 DEF Explains
<1>4. QED BY <1>1, <1>3, NotifyFacts DEF Continues

LEMMA UpdateParentFacts ==
  ASSUME Types, UpdateParent
  PROVE  /\ ListenedTypes /\ Continues
         /\ UNCHANGED <<jobs, retired, awaiting, heard>>
         /\ fresh' => fresh
         /\ listener.pc = "project" /\ listener'.pc = "idle"
         /\ project'.status \notin {project.status, "Processing"} =>
              project'.status = "Failed" /\ listener.event.kind = "error" /\ Lost
<1> DEFINE kind == listener.event.kind
           status == IF kind = "error" THEN "Failed"
                     ELSE IF kind # "eta" /\ ~Finished(project.status) THEN "Processing"
                     ELSE project.status
<1>1. /\ listener.pc = "project" /\ listener' = Idle
      /\ UNCHANGED <<inbox, jobs, retired, awaiting, signing, heard>>
      /\ UNCHANGED <<service, losses, recovery>>
      /\ \/ kind = "error" /\ ~Lost /\ UNCHANGED <<project, fresh>> /\ Notify(TRUE)
         \/ /\ ~ (kind = "error" /\ ~Lost)
            /\ UpdateProject(status) /\ fresh' = (fresh /\ ~Finished(status))
  BY DEF UpdateParent, ListenerSide
<1>2. /\ status \in {"Pending", "Queued", "Processing"} \cup Terminal
      /\ Finished(project.status) => Finished(status)
      /\ status \notin {project.status, "Processing"} => status = "Failed" /\ kind = "error"
  BY ProjectFields DEF Finished, Terminal
<1>3. fresh \in BOOLEAN
  BY DEF Types, CallerTypes
<1> HIDE DEF status
<1>4. CASE kind = "error" /\ ~Lost /\ UNCHANGED <<project, fresh>> /\ Notify(TRUE)
  <2>1. Continues /\ project'.status = project.status
    BY <1>4, FadesUnchanged, FadesContinues
  <2>2. waiter' \in {"woken", "asleep", "ok", "failed"} /\ fresh' \in BOOLEAN /\ (fresh' => fresh)
    BY <1>3, <1>4, NotifyFacts
  <2>3. CallerTypes'
    BY <1>1, <2>2 DEF Types, CallerTypes
  <2>4. ListenedTypes
    BY <1>1, <2>1, <2>3, QuietInbox, NoneRenewed, RenewalTypes, IdleTypes, ListenerTypes
       DEF Continues
  <2>5. QED BY <1>1, <2>1, <2>2, <2>4, IdleTypes
<1>5. CASE /\ ~ (kind = "error" /\ ~Lost)
           /\ UpdateProject(status) /\ fresh' = (fresh /\ ~Finished(status))
  <2>1. Continues /\ project'.status = status /\ waiter' \in {"woken", "asleep", "ok", "failed"}
    BY <1>2, <1>5, UpdateProjectFacts
  <2>2. fresh' \in BOOLEAN /\ (fresh' => fresh)
    BY <1>3, <1>5
  <2>3. CallerTypes'
    BY <1>1, <2>1, <2>2 DEF Types, CallerTypes
  <2>4. ListenedTypes
    BY <1>1, <2>1, <2>3, QuietInbox, NoneRenewed, RenewalTypes, IdleTypes, ListenerTypes
       DEF Continues
  <2>5. QED BY <1>1, <1>2, <1>5, <2>1, <2>2, <2>4, IdleTypes
<1>6. QED BY <1>1, <1>4, <1>5

LEMMA SignedFacts ==
  ASSUME Types, Signed
  PROVE  /\ ListenedTypes
         /\ UNCHANGED <<project, jobs, retired, awaiting, heard, fresh, listener>>
<1>1. /\ UNCHANGED <<service, inbox, losses, project, jobs, retired, awaiting, fresh, listener,
                     recovery, heard>>
      /\ signing > 0 /\ signing' = signing - 1 /\ Notify(TRUE)
  BY DEF Signed, serviceVars, projectVars
<1>2. CallerTypes'
  <2>1. waiter' \in {"woken", "asleep", "ok", "failed"}
    BY <1>1, NotifyFacts
  <2>2. QED BY <1>1, <2>1 DEF Types, CallerTypes
<1>3. ListenedTypes
  BY <1>1, <1>2, FadesUnchanged, FadesContinues, QuietInbox, NoneRenewed, RenewalTypes,
     ListenerStays, ListenerTypes DEF Continues
<1>4. QED BY <1>1, <1>3

LEMMA HearRetryFacts ==
  ASSUME Types, HearRetry
  PROVE  /\ ListenedTypes /\ Fades /\ Renewal /\ \A n \in DOMAIN jobs : ~Ends(n)
         /\ UNCHANGED <<listener, heard>> /\ fresh' = FALSE
<1>1. /\ Hears({"retry"}) /\ project' = Cleared(jobs, Heard.id, Heard.index) /\ fresh' = FALSE
      /\ UNCHANGED <<retired, listener, signing, heard>>
      /\ UNCHANGED <<service, losses, recovery>>
  BY DEF HearRetry, ListenerSide
<1>2. Heard \in FrameEvents /\ Heard.index \in Renders \cup {Nothing} /\ Incoming
  BY <1>1, HearsFacts, FrameEventFacts DEF FrameKinds
<1>3. PICK index \in Renders \cup {Nothing} : index = Heard.index
  BY <1>2
<1>4. PICK slots \in SUBSET Unfinished, changed \in BOOLEAN :
        /\ jobs' = [n \in DOMAIN jobs |->
             IF n \in slots THEN Reset(jobs[n], jobs[n].id, Heard.index) ELSE jobs[n]]
        /\ awaiting' = awaiting \cup {jobs[n].id : n \in slots}
        /\ Notify(changed)
  <2> DEFINE placed == {n \in DOMAIN jobs : Heard.index # Nothing /\ jobs[n].index = Heard.index}
             found == IF Slots(Heard.id) # {} THEN Slots(Heard.id)
                      ELSE {n \in placed : \A m \in placed : n <= m}
             slots == IF Finished(project.status) THEN {} ELSE found \cap Unfinished
             changed == slots # {} \/ project' # project
  <2>1. slots \in SUBSET Unfinished /\ changed \in BOOLEAN
    OBVIOUS
  <2>2. /\ jobs' = [n \in DOMAIN jobs |->
             IF n \in slots THEN Reset(jobs[n], jobs[n].id, Heard.index) ELSE jobs[n]]
        /\ awaiting' = awaiting \cup {jobs[n].id : n \in slots}
        /\ Notify(changed)
    BY DEF HearRetry
  <2> HIDE DEF slots, changed
  <2>3. QED BY <2>1, <2>2
<1>5. \A n \in slots : n \in DOMAIN jobs
  BY DEF Unfinished
<1>6. ASSUME NEW n \in DOMAIN jobs
      PROVE  Renewed(jobs'[n], jobs[n]) /\ ~Ends(n)
  <2>1. jobs[n] \in JobRecords /\ jobs[n].id \in Ids
    BY JobsTyped
  <2>2. CASE n \in slots
    <3>1. jobs'[n] = Reset(jobs[n], jobs[n].id, index)
      BY <1>3, <1>4, <2>2, Zenon
    <3>2. /\ jobs'[n] \in JobRecords /\ jobs'[n].id = jobs[n].id /\ jobs'[n].status = "Pending"
          /\ jobs'[n].armed = Nothing
      BY <2>1, <3>1, ResetFacts
    <3>3. ~Finished(jobs[n].status)
      BY <2>2 DEF Unfinished
    <3>4. QED BY <3>2, <3>3 DEF Renewed, Ends, Finished, Terminal
  <2>3. CASE n \notin slots
    <3>1. jobs'[n] = jobs[n]
      BY <1>4, <2>3, Zenon
    <3>2. QED BY <2>1, <3>1 DEF Renewed, Ends
  <2>4. QED BY <2>2, <2>3
<1>7. Renewal
  <2>1. DOMAIN jobs' = DOMAIN jobs /\ DOMAIN jobs = 1 .. Len(jobs) /\ Len(jobs) \in Nat
    BY <1>4, JobsTyped
  <2>2. \A n \in DOMAIN jobs : jobs'[n] \in JobRecords
    BY <1>6 DEF Renewed
  <2>3. jobs' = [n \in 1 .. Len(jobs) |-> jobs'[n]]
    BY <1>4, <2>1, Zenon
  <2>4. jobs' \in Seq(JobRecords)
    BY <2>1, <2>2, <2>3
  <2>5. awaiting' \subseteq awaiting \cup JobIds /\ awaiting \subseteq awaiting'
    BY <1>4, <1>5 DEF JobIds
  <2>6. QED BY <1>1, <1>6, <2>1, <2>4, <2>5 DEF Renewal
<1>8. Fades
  <2>1. PICK list : list = jobs
    OBVIOUS
  <2>2. project' = Cleared(list, Heard.id, Heard.index)
    BY <1>1, <2>1
  <2>3. QED BY <2>2, ClearedFacts DEF Fades
<1>9. CallerTypes'
  <2>1. waiter' \in {"woken", "asleep", "ok", "failed"}
    BY <1>4, NotifyFacts
  <2>2. QED BY <1>1, <2>1 DEF Types, CallerTypes
<1>10. ListenedTypes
  BY <1>1, <1>2, <1>7, <1>8, <1>9, FadesContinues, RenewalTypes, ListenerStays, ListenerTypes
     DEF Continues
<1>11. QED BY <1>1, <1>6, <1>7, <1>8, <1>10

(* ProcessingRuntime.suspend of every job *)
LEMMA SuspendedFacts ==
  ASSUME Types, jobs' = Suspended, UNCHANGED <<retired, awaiting>>
  PROVE  Renewal /\ \A n \in DOMAIN jobs : ~Ends(n)
<1>1. ASSUME NEW n \in DOMAIN jobs
      PROVE  Renewed(jobs'[n], jobs[n]) /\ jobs'[n].status = jobs[n].status
  <2>1. jobs[n] \in JobRecords
    BY JobsTyped
  <2>2. jobs'[n] = jobs[n] \/ jobs'[n] = Suspend(jobs[n])
    BY Zenon DEF Suspended
  <2>3. QED BY <2>1, <2>2, SuspendFacts DEF Renewed
<1>2. jobs' = [n \in DOMAIN jobs |-> jobs'[n]] /\ DOMAIN jobs' = DOMAIN jobs
  BY Zenon DEF Suspended
<1>3. PICK f : f = jobs'
  OBVIOUS
<1>4. jobs' = [n \in DOMAIN jobs |-> f[n]] /\ \A n \in DOMAIN jobs : Renewed(f[n], jobs[n])
  BY <1>1, <1>2, <1>3
<1>5. Renewal
  BY <1>2, <1>4, AllRenewed
<1>6. QED BY <1>1, <1>5 DEF Ends

LEMMA HearQueuedFacts ==
  ASSUME Types, HearQueued
  PROVE  /\ ListenedTypes /\ Continues /\ Renewal /\ \A n \in DOMAIN jobs : ~Ends(n)
         /\ project'.status \in {project.status, "Queued"}
         /\ UNCHANGED <<listener, heard>> /\ fresh' = FALSE
<1> DEFINE status == IF Finished(project.status) THEN project.status ELSE "Queued"
<1>1. /\ Hears({"queued"}) /\ jobs' = Suspended /\ UpdateProject(status) /\ fresh' = FALSE
      /\ UNCHANGED <<retired, awaiting, listener, signing, heard>>
      /\ UNCHANGED <<service, losses, recovery>>
  BY DEF HearQueued, ListenerSide
<1>2. /\ status \in {"Pending", "Queued", "Processing"} \cup Terminal
      /\ Finished(project.status) => Finished(status)
      /\ status \in {project.status, "Queued"}
  BY ProjectFields
<1> HIDE DEF status
<1>3. Continues /\ project'.status = status /\ waiter' \in {"woken", "asleep", "ok", "failed"}
  BY <1>1, <1>2, UpdateProjectFacts
<1>4. Renewal /\ \A n \in DOMAIN jobs : ~Ends(n)
  BY <1>1, SuspendedFacts
<1>5. CallerTypes' /\ Incoming
  BY <1>1, <1>3, HearsFacts DEF Types, CallerTypes
<1>6. ListenedTypes
  BY <1>1, <1>3, <1>4, <1>5, RenewalTypes, ListenerStays, ListenerTypes DEF Continues
<1>7. QED BY <1>1, <1>2, <1>3, <1>4, <1>6

LEMMA HearVerdictFacts ==
  ASSUME Types, HearVerdict
  PROVE  /\ ListenedTypes /\ Continues
         /\ UNCHANGED <<jobs, retired, awaiting, listener, heard>> /\ fresh' = FALSE
         /\ 1 \in DOMAIN inbox
         /\ \/ inbox[1].kind = "failed" /\ project'.status = "Failed"
            \/ inbox[1].kind = "completed" /\ project'.status \in {project.status, "Completed"}
<1> DEFINE status == IF Heard.kind = "failed" THEN "Failed"
                     ELSE IF Finished(project.status) THEN project.status ELSE "Completed"
<1>1. /\ Hears({"completed", "failed"}) /\ UpdateProject(status) /\ fresh' = FALSE
      /\ UNCHANGED <<jobs, retired, awaiting, listener, signing, heard>>
      /\ UNCHANGED <<service, losses, recovery>>
  BY DEF HearVerdict, ListenerSide
<1>2. /\ Incoming /\ Heard = inbox[1] /\ 1 \in DOMAIN inbox
      /\ Heard.kind \in {"completed", "failed"}
  BY <1>1, HearsFacts
<1>3. /\ status \in {"Pending", "Queued", "Processing"} \cup Terminal
      /\ Finished(project.status) => Finished(status)
      /\ \/ Heard.kind = "failed" /\ status = "Failed"
         \/ Heard.kind = "completed" /\ status \in {project.status, "Completed"}
  BY <1>2, ProjectFields DEF Finished, Terminal
<1> HIDE DEF status
<1>4. Continues /\ project'.status = status /\ waiter' \in {"woken", "asleep", "ok", "failed"}
  BY <1>1, <1>3, UpdateProjectFacts
<1>5. CallerTypes'
  BY <1>1, <1>4 DEF Types, CallerTypes
<1>6. ListenedTypes
  BY <1>1, <1>2, <1>4, <1>5, NoneRenewed, RenewalTypes, ListenerStays, ListenerTypes DEF Continues
<1>7. QED BY <1>1, <1>2, <1>3, <1>4, <1>6

LEMMA HearQueueFacts ==
  ASSUME Types, HearQueue
  PROVE  /\ ListenedTypes /\ project'.status = project.status
         /\ UNCHANGED <<jobs, retired, awaiting, listener>>
         /\ 1 \in DOMAIN inbox
         /\ \/ /\ inbox[1].kind = "queue" /\ heard' = inbox[1].stamp
               /\ project'.stamp \in {0, inbox[1].stamp}
               /\ fresh' => fresh /\ Finished(project.status)
            \/ heard' = heard /\ project'.stamp = 0 /\ fresh' = FALSE
<1>1. /\ Hears({"queue", "disconnected"})
      /\ project' = IF Heard.kind = "queue"
                      THEN Shown(project.status, jobs, Heard.stamp, Heard.rows)
                      ELSE Shown(project.status, jobs, 0, {})
      /\ heard' = IF Heard.kind = "queue" THEN Heard.stamp ELSE heard
      /\ fresh' = (fresh /\ Heard.kind = "queue" /\ Finished(project.status))
      /\ Notify(project' # project)
      /\ UNCHANGED <<jobs, retired, awaiting, listener, signing>>
      /\ UNCHANGED <<service, losses, recovery>>
  BY DEF HearQueue, ListenerSide
<1>2. /\ Incoming /\ Heard = inbox[1] /\ 1 \in DOMAIN inbox /\ Heard \in Events
      /\ Heard.kind \in {"queue", "disconnected"}
  BY <1>1, HearsFacts
<1>3. PICK list : list = jobs
  OBVIOUS
<1>4. PICK status : status = project.status
  OBVIOUS
<1>5. status \in {"Pending", "Queued", "Processing"} \cup Terminal /\ MaxStamp \in Nat
  BY <1>4, ProjectFields
<1>6. PICK e \in Events : e = Heard
  BY <1>2
<1>7. PICK stamp \in 0 .. MaxStamp, rows \in SUBSET Renders :
        /\ stamp = 0 => rows = {}
        /\ project' = Shown(status, list, stamp, rows)
        /\ \/ e.kind = "queue" /\ stamp = e.stamp /\ heard' = stamp
           \/ e.kind # "queue" /\ stamp = 0 /\ heard' = heard
  <2>1. CASE e.kind = "queue"
    <3>1. e.stamp \in 1 .. MaxStamp /\ e.rows \in SUBSET Renders
      BY <2>1, FrameEventFacts
    <3>2. /\ e.stamp \in 0 .. MaxStamp /\ ~ (e.stamp = 0)
          /\ project' = Shown(status, list, e.stamp, e.rows) /\ heard' = e.stamp
      BY <1>1, <1>3, <1>4, <1>5, <1>6, <2>1, <3>1
    <3>3. QED BY <2>1, <3>1, <3>2
  <2>2. CASE e.kind # "queue"
    <3>1. project' = Shown(status, list, 0, {}) /\ heard' = heard
      BY <1>1, <1>3, <1>4, <1>6, <2>2
    <3>2. 0 \in 0 .. MaxStamp
      BY <1>5
    <3>3. QED BY <2>2, <3>1, <3>2
  <2>3. QED BY <2>1, <2>2
<1>8. /\ project' \in Projects /\ Explains(project)' /\ project'.status = status
      /\ project'.stamp \in {0, stamp}
  <2>1. /\ Shown(status, list, stamp, rows) \in Projects
        /\ Explains(Shown(status, list, stamp, rows))
        /\ Shown(status, list, stamp, rows).status = status
        /\ Shown(status, list, stamp, rows).stamp \in {0, stamp}
    BY <1>5, <1>7, ShownFacts
  <2>2. QED BY <1>7, <2>1 DEF Explains
<1>9. fresh \in BOOLEAN
  BY DEF Types, CallerTypes
<1>10. CallerTypes'
  <2>1. waiter' \in {"woken", "asleep", "ok", "failed"}
    BY <1>1, NotifyFacts
  <2>2. heard' \in 0 .. MaxStamp
    BY <1>7 DEF Types, CallerTypes
  <2>3. fresh' \in BOOLEAN
    BY <1>1, <1>9
  <2>4. QED BY <1>1, <2>1, <2>2, <2>3 DEF Types, CallerTypes
<1>11. ListenedTypes
  BY <1>1, <1>2, <1>8, <1>10, NoneRenewed, RenewalTypes, ListenerStays, ListenerTypes
<1>12. \/ /\ inbox[1].kind = "queue" /\ heard' = inbox[1].stamp
          /\ project'.stamp \in {0, inbox[1].stamp}
          /\ fresh' => fresh /\ Finished(project.status)
       \/ heard' = heard /\ project'.stamp = 0 /\ fresh' = FALSE
  <2>1. CASE e.kind = "queue" /\ stamp = e.stamp /\ heard' = stamp
    BY <1>1, <1>2, <1>6, <1>8, <2>1
  <2>2. CASE e.kind # "queue" /\ stamp = 0 /\ heard' = heard
    BY <1>1, <1>6, <1>8, <2>2
  <2>3. QED BY <1>7, <2>1, <2>2
<1>13. QED BY <1>1, <1>2, <1>4, <1>8, <1>11, <1>12

--------------------------------------------------------------------------------
(***************************************************************************)
(* The steps of the recovery.                                              *)
(***************************************************************************)
RecoveredTypes == Types' /\ UNCHANGED <<service, inbox, listener, heard>>

LEMMA RecoveryTypes ==
  ASSUME Types, RecoverySide,
         project' \in Projects, Explains(project)',
         jobs' \in Seq(JobRecords), retired' \in SUBSET Ids, awaiting' \in SUBSET Ids,
         DOMAIN jobs \subseteq DOMAIN jobs',
         recovery' \in {Idle} \cup Asked \cup Answered \cup Replays \cup Updates,
         recovery'.pc = "update" => recovery'.job.slot \in DOMAIN jobs',
         recovery'.pc = "answered" => (recovery'.stamp = 0 => recovery'.rows = {}),
         fresh' \in BOOLEAN, waiter' \in {"woken", "asleep", "ok", "failed"}
  PROVE  RecoveredTypes
<1>1. UNCHANGED <<service, inbox, losses, listener, signing, heard>>
  BY DEF RecoverySide, serviceVars
<1>2. WorldTypes'
  BY <1>1, NothingMoves, QuietInbox, WorldStays
<1>3. ProjectTypes'
  BY DEF ProjectTypes
<1>4. ThreadTypes'
  BY <1>1 DEF ThreadTypes, Types
<1>5. CallerTypes'
  BY <1>1 DEF Types, CallerTypes
<1>6. QED BY <1>1, <1>2, <1>3, <1>4, <1>5 DEF Types, RecoveredTypes

(* A step that leaves the project and its jobs alone *)
LEMMA UnmovedTypes ==
  ASSUME Types, RecoverySide, Unmoved, fresh' \in BOOLEAN,
         recovery' \in {Idle} \cup Asked \cup Answered \cup Replays,
         recovery'.pc = "answered" => (recovery'.stamp = 0 => recovery'.rows = {}),
         recovery'.pc # "update"
  PROVE  /\ RecoveredTypes /\ UNCHANGED <<project, jobs, retired, awaiting>>
<1>1. UNCHANGED <<project, jobs, retired, awaiting, waiter>>
  BY DEF Unmoved, projectVars
<1>2. project' \in Projects /\ Explains(project)'
  BY <1>1, ProjectFields DEF Explains
<1>3. /\ jobs' \in Seq(JobRecords) /\ retired' \in SUBSET Ids /\ awaiting' \in SUBSET Ids
      /\ DOMAIN jobs \subseteq DOMAIN jobs'
  BY <1>1, JobsTyped
<1>4. waiter' \in {"woken", "asleep", "ok", "failed"}
  BY <1>1 DEF Types, CallerTypes
<1>5. RecoveredTypes
  BY <1>2, <1>3, <1>4, RecoveryTypes
<1>6. QED BY <1>1, <1>5

LEMMA IdleRecovery ==
  ASSUME recovery' = Idle
  PROVE  /\ recovery' \in {Idle} \cup Asked \cup Answered \cup Replays \cup Updates
         /\ recovery' \in {Idle} \cup Asked \cup Answered \cup Replays
         /\ recovery'.pc = "idle"
BY DEF Idle

(* What the rest of a replay is about *)
Rest == IF recovery.pc = "answered" THEN recovery.list ELSE recovery.todo
Applying == {"answered", "jobs", "update", "status", "canceled"}

(* A replay carries its answer on, or ends *)
Carries ==
  \/ recovery'.pc = "idle"
  \/ /\ recovery.pc \in Applying /\ recovery'.pc \in Applying \ {"answered"}
     /\ recovery'.cancel = recovery.cancel /\ recovery'.status = recovery.status
     /\ recovery'.todo \subseteq Rest

LEMMA ReplayingFacts ==
  ASSUME Types, recovery.pc \in Applying, NEW pc \in {"jobs", "status", "canceled"},
         NEW todo \in SUBSET Rest, NEW inFlight \in BOOLEAN,
         recovery' = Replaying(pc, todo, inFlight, Nothing)
  PROVE  /\ recovery' \in Replays /\ Carries /\ recovery'.pc = pc
<1>1. /\ recovery.cancel \in BOOLEAN /\ recovery.status \in Statuses
      /\ Rest \in SUBSET FoundJobs
  BY ThreadsFacts DEF Applying, Rest
<1>2. /\ recovery'.pc = pc /\ recovery'.cancel = recovery.cancel
      /\ recovery'.status = recovery.status /\ recovery'.todo = todo
      /\ recovery' \in Replays
  BY <1>1 DEF Replaying, Replays
<1>3. QED BY <1>2 DEF Carries, Applying

LEMMA AskFacts ==
  ASSUME Types, Ask
  PROVE  /\ RecoveredTypes /\ UNCHANGED <<project, jobs, retired, awaiting>>
         /\ recovery'.pc = "asked"
         /\ recovery'.cancel => service.verdict = "canceled"
<1>1. PICK cancel \in BOOLEAN :
        /\ cancel => service.verdict = "canceled"
        /\ recovery' = [pc |-> "asked", cancel |-> cancel]
  BY DEF Ask
<1>2. recovery' \in Asked /\ recovery'.pc = "asked" /\ recovery'.cancel = cancel
  BY <1>1 DEF Asked
<1>3. RecoverySide /\ Unmoved /\ fresh' \in BOOLEAN
  BY DEF Ask
<1>4. QED BY <1>1, <1>2, <1>3, UnmovedTypes

(* What a snapshot says is true when it is taken *)
LEMMA SnapshotFacts ==
  ASSUME Types, NEW list \in Lists, NEW status \in ReportedStatus
  PROVE  /\ list \in SUBSET FoundJobs /\ status \in Statuses
         /\ \A found \in list : found.state # "running" => Gave(found.id, Says(found.state))
         /\ status = "Completed" => service.verdict = "completed"
         /\ status = "Failed" => service.verdict = "failed"
         /\ status = "Canceled" => service.verdict = "canceled"
<1>1. PICK states : states \subseteq {"running", "done", "failed"} /\ list = Found(states)
  BY DEF Lists
<1>2. ASSUME NEW found \in list
      PROVE  found \in FoundJobs /\ Gave(found.id, Says(found.state))
  <2>1. PICK r \in Renders : /\ service.work[r].state \in states
                             /\ found = [id |-> Attempt(r), state |-> service.work[r].state]
    BY <1>1 DEF Found
  <2>2. Attempt(r) \in Ids /\ Attempt(r).render = r
    BY <1>1, <2>1, AttemptFacts
  <2>3. PICK id, state : id = Attempt(r) /\ state = service.work[r].state
    OBVIOUS
  <2>4. found = [id |-> id, state |-> state] /\ state \in {"running", "done", "failed"}
    BY <1>1, <2>1, <2>3
  <2>5. found \in FoundJobs /\ found.id = id /\ found.state = state
    BY <2>2, <2>3, <2>4 DEF FoundJobs
  <2>6. QED BY <2>2, <2>3, <2>5 DEF Gave, Outcome
<1>3. service.verdict \in {"active", "completed", "failed", "canceled"}
  BY ServiceFields DEF Verdicts
<1>4. PICK running \in BOOLEAN : running = \E r \in Renders : Running(r)
  OBVIOUS
<1>5. \/ service.verdict = "completed" /\ status = "Completed"
      \/ service.verdict = "failed" /\ status = "Failed"
      \/ service.verdict = "canceled" /\ status = "Canceled"
      \/ status \in {"Queued", "Processing", "Pending", "Requeued"}
  <2>1. CASE service.verdict = "active"
    <3>1. (\E r \in Renders : Running(r)) => status \in {"Queued", "Processing"}
                                             \/ status \in {"Queued", "Pending", "Requeued"}
      BY <2>1 DEF ReportedStatus
    <3>2. ~(\E r \in Renders : Running(r)) => status \in {"Queued", "Pending", "Requeued"}
      BY <2>1 DEF ReportedStatus
    <3>3. QED BY <3>1, <3>2
  <2>2. CASE service.verdict \in {"completed", "failed", "canceled"}
    <3>1. ~ \E r \in Renders : Running(r)
      BY <2>2 DEF Running
    <3>2. QED BY <2>2, <3>1 DEF ReportedStatus
  <2>3. QED BY <1>3, <2>1, <2>2
<1>6. status \in Statuses
  BY <1>5 DEF Statuses, Terminal
<1>7. QED BY <1>2, <1>5, <1>6

LEMMA LookFacts ==
  ASSUME Types, Look
  PROVE  /\ RecoveredTypes /\ UNCHANGED <<project, jobs, retired, awaiting, fresh>>
         /\ recovery.pc = "asked" /\ recovery'.pc = "answered"
         /\ recovery'.cancel = recovery.cancel /\ recovery'.stamp = service.stamp
         /\ recovery'.list \in Lists /\ recovery'.status \in ReportedStatus
<1>1. /\ recovery.pc = "asked" /\ UNCHANGED fresh /\ Unmoved /\ RecoverySide
  BY DEF Look
<1>2. PICK status \in ReportedStatus, list \in Lists :
        recovery' = [pc |-> "answered", cancel |-> recovery.cancel, status |-> status,
                     list |-> list, stamp |-> service.stamp,
                     rows |-> IF service.stamp = 0 THEN {} ELSE Waiting]
  BY DEF Look
<1>3. /\ status \in Statuses /\ list \in SUBSET FoundJobs /\ recovery.cancel \in BOOLEAN
      /\ service.stamp \in 0 .. MaxStamp
  BY <1>1, SnapshotFacts, ThreadsFacts, ServiceFields
<1>4. PICK rows \in SUBSET Renders : /\ rows = IF service.stamp = 0 THEN {} ELSE Waiting
                                     /\ service.stamp = 0 => rows = {}
  BY DEF Waiting
<1>5. PICK cancel \in BOOLEAN, stamp \in 0 .. MaxStamp :
        cancel = recovery.cancel /\ stamp = service.stamp
  BY <1>3
<1>6. recovery' = [pc |-> "answered", cancel |-> cancel, status |-> status,
                   list |-> list, stamp |-> stamp, rows |-> rows]
  BY <1>2, <1>4, <1>5
<1>7. /\ recovery' \in Answered /\ recovery'.pc = "answered" /\ recovery'.cancel = cancel
      /\ recovery'.status = status /\ recovery'.list = list /\ recovery'.stamp = stamp
      /\ recovery'.rows = rows
  BY <1>3, <1>6 DEF Answered
<1>8. fresh' \in BOOLEAN
  BY <1>1 DEF Types, CallerTypes
<1>9. RecoveredTypes /\ UNCHANGED <<project, jobs, retired, awaiting>>
  BY <1>1, <1>4, <1>5, <1>7, <1>8, UnmovedTypes
<1>10. QED BY <1>1, <1>2, <1>5, <1>7, <1>9

LEMMA BeginReplayFacts ==
  ASSUME Types, BeginReplay
  PROVE  /\ RecoveredTypes /\ UNCHANGED <<jobs, retired, awaiting>> /\ Carries
         /\ recovery.pc = "answered" /\ recovery'.pc = "jobs" /\ project'.status = project.status
         /\ \/ project' = project
            \/ /\ fresh \/ recovery.cancel
               /\ project'.stamp \in {0, recovery.stamp}
               /\ Finished(project.status) => project'.stamp = 0
<1> DEFINE current == fresh \/ recovery.cancel
<1>1. /\ recovery.pc = "answered" /\ fresh' = TRUE
      /\ project' = ShownOf(current)
      /\ recovery' = Replaying("jobs", recovery.list, current, Nothing)
      /\ Notify(project' # project)
      /\ UNCHANGED <<jobs, retired, awaiting>> /\ RecoverySide
  BY DEF BeginReplay
<1>2. /\ recovery.cancel \in BOOLEAN /\ recovery.stamp \in 0 .. MaxStamp
      /\ recovery.rows \in SUBSET Renders /\ (recovery.stamp = 0 => recovery.rows = {})
      /\ fresh \in BOOLEAN
  BY <1>1, ThreadsFacts DEF Types, CallerTypes
<1>3. current \in BOOLEAN
  BY <1>2
<1> HIDE DEF current
<1>4. recovery.list \in SUBSET Rest /\ recovery.pc \in Applying
  BY <1>1 DEF Rest, Applying
<1>5. recovery' \in Replays /\ Carries /\ recovery'.pc = "jobs"
  BY <1>1, <1>3, <1>4, ReplayingFacts
<1>6. PICK list, status, stamp, rows :
        list = jobs /\ status = project.status /\ stamp = recovery.stamp /\ rows = recovery.rows
  OBVIOUS
<1>7. /\ Shown(status, list, stamp, rows) \in Projects
      /\ Explains(Shown(status, list, stamp, rows))
      /\ Shown(status, list, stamp, rows).status = status
      /\ Shown(status, list, stamp, rows).stamp \in {0, stamp}
      /\ Finished(status) => Shown(status, list, stamp, rows).stamp = 0
  <2>1. /\ status \in {"Pending", "Queued", "Processing"} \cup Terminal
        /\ stamp \in 0 .. MaxStamp /\ rows \in SUBSET Renders /\ (stamp = 0 => rows = {})
        /\ MaxStamp \in Nat
    BY <1>2, <1>6, ProjectFields
  <2>2. QED BY <2>1, ShownFacts
<1>8. \/ ~current /\ project' = project
      \/ current /\ project' = Shown(status, list, stamp, rows)
  BY <1>1, <1>6 DEF ShownOf
<1>9. /\ project' \in Projects /\ Explains(project)' /\ project'.status = project.status
      /\ \/ project' = project
         \/ /\ current /\ project'.stamp \in {0, recovery.stamp}
            /\ Finished(project.status) => project'.stamp = 0
  <2>1. CASE project' = project
    BY <2>1, ProjectFields DEF Explains
  <2>2. CASE current /\ project' = Shown(status, list, stamp, rows)
    BY <1>6, <1>7, <2>2 DEF Explains
  <2>3. QED BY <1>8, <2>1, <2>2
<1>10. /\ jobs' \in Seq(JobRecords) /\ retired' \in SUBSET Ids /\ awaiting' \in SUBSET Ids
       /\ DOMAIN jobs \subseteq DOMAIN jobs'
  BY <1>1, JobsTyped
<1>11. waiter' \in {"woken", "asleep", "ok", "failed"} /\ fresh' \in BOOLEAN
  BY <1>1, NotifyFacts
<1>12. RecoveredTypes
  BY <1>1, <1>5, <1>9, <1>10, <1>11, RecoveryTypes
<1>13. QED BY <1>1, <1>5, <1>9, <1>12 DEF current

LEMMA EndedFacts ==
  ASSUME Types, Ended, Unmoved, RecoverySide
  PROVE  /\ RecoveredTypes /\ UNCHANGED <<project, jobs, retired, awaiting>>
         /\ Carries /\ recovery'.pc = "idle" /\ fresh' = FALSE
<1>1. recovery' = Idle /\ fresh' = FALSE
  BY DEF Ended
<1>2. QED BY <1>1, IdleRecovery, UnmovedTypes DEF Carries

LEMMA SkipJobFacts ==
  ASSUME Types, NEW found, SkipJob(found)
  PROVE  /\ RecoveredTypes /\ UNCHANGED <<project, jobs, retired, awaiting>>
         /\ Carries /\ recovery'.pc = "jobs"
<1>1. /\ recovery.pc = "jobs" /\ UNCHANGED fresh /\ Unmoved /\ RecoverySide
      /\ recovery' = Replaying("jobs", recovery.todo \ {found}, Current, Nothing)
  BY DEF SkipJob
<1>2. fresh' \in BOOLEAN /\ Current \in BOOLEAN
  BY <1>1, ThreadsFacts DEF Types, CallerTypes, Current
<1>3. recovery.todo \ {found} \in SUBSET Rest /\ recovery.pc \in Applying
  BY <1>1 DEF Rest, Applying
<1>4. recovery' \in Replays /\ Carries /\ recovery'.pc = "jobs"
  BY <1>1, <1>2, <1>3, ReplayingFacts
<1>5. QED BY <1>1, <1>2, <1>4, UnmovedTypes

LEMMA ReplayClaimFacts ==
  ASSUME Types, NEW found \in FoundJobs, ReplayClaim(found)
  PROVE  /\ RecoveredTypes /\ Fades /\ Carries /\ fresh' = FALSE
         /\ recovery.pc = "jobs" /\ recovery'.pc = "update" /\ found \in recovery.todo
         /\ recovery'.job.id = found.id /\ Claimed(found.id, recovery'.job.slot)
         /\ Finished(recovery'.job.status) =>
              found.state # "running" /\ recovery'.job.status = Says(found.state)
<1>1. /\ recovery.pc = "jobs" /\ found \in recovery.todo /\ fresh' = FALSE /\ RecoverySide
      /\ Notify(jobs' # jobs \/ project' # project)
  BY DEF ReplayClaim
<1>2. PICK slot \in 1 .. Len(jobs) + 1, index \in Indexes(found.id.render) :
       /\ Claim(found.id, index, slot)
       /\ project' = Cleared(jobs', found.id, index)
       /\ \E status \in Recovered(found.state) :
            recovery' = Replaying("update", recovery.todo \ {found}, Current,
                                  [id |-> found.id, slot |-> slot, status |-> status,
                                   index |-> index])
  BY DEF ReplayClaim
<1>3. PICK status \in Recovered(found.state) :
            recovery' = Replaying("update", recovery.todo \ {found}, Current,
                                  [id |-> found.id, slot |-> slot, status |-> status,
                                   index |-> index])
  BY <1>2
<1>4. /\ found.id \in Ids /\ found.id.render \in Renders
      /\ found.state \in {"running", "done", "failed"}
  BY DEF FoundJobs, Ids
<1>5. index \in Renders \cup {Nothing}
  BY <1>4 DEF Indexes
<1>6. status \in Phases \cup Terminal 
      /\ (Finished(status) => found.state # "running" /\ status = Says(found.state))
  BY <1>4 DEF Recovered, Phases, Terminal, Finished, Says
<1>7. PICK id \in Ids : id = found.id
  BY <1>4
<1>8. Claimed(id, slot)
  BY <1>2, <1>5, <1>7, ClaimFacts DEF Claimed
<1>9. Fades
  BY <1>2, FadesWhenCleared
<1>10. /\ slot \in DOMAIN jobs' /\ slot \in Nat /\ DOMAIN jobs \subseteq DOMAIN jobs'
       /\ jobs' \in Seq(JobRecords) /\ retired' \in SUBSET Ids /\ awaiting' \in SUBSET Ids
  BY <1>8, ClaimedFacts
<1>11. /\ recovery.cancel \in BOOLEAN /\ recovery.status \in Statuses
       /\ recovery.todo \in SUBSET FoundJobs /\ Current \in BOOLEAN
  BY <1>1, ThreadsFacts DEF Types, CallerTypes, Current
<1>12. PICK job : job = [id |-> id, slot |-> slot, status |-> status, index |-> index]
  OBVIOUS
<1>13. job \in Placements /\ job.id = id /\ job.slot = slot /\ job.status = status
  BY <1>5, <1>6, <1>10, <1>12 DEF Placements
<1>14. PICK todo \in SUBSET FoundJobs, inFlight \in BOOLEAN :
         todo = recovery.todo \ {found} /\ inFlight = Current
  BY <1>11
<1>15. recovery' = [pc |-> "update", cancel |-> recovery.cancel, status |-> recovery.status,
                    todo |-> todo, inFlight |-> inFlight, job |-> job]
  BY <1>3, <1>7, <1>12, <1>14 DEF Replaying
<1>16. /\ recovery' \in Updates /\ recovery'.pc = "update" /\ recovery'.job = job
       /\ recovery'.cancel = recovery.cancel /\ recovery'.status = recovery.status
       /\ recovery'.todo = todo
  BY <1>11, <1>13, <1>15 DEF Updates
<1>17. Carries
  BY <1>1, <1>14, <1>16 DEF Carries, Applying, Rest
<1>18. waiter' \in {"woken", "asleep", "ok", "failed"} /\ fresh' \in BOOLEAN
  BY <1>1, NotifyFacts
<1>19. project' \in Projects /\ Explains(project)'
  BY <1>9 DEF Fades, Explains
<1>20. RecoveredTypes
  BY <1>1, <1>10, <1>13, <1>16, <1>18, <1>19, RecoveryTypes
<1>21. QED BY <1>1, <1>6, <1>7, <1>8, <1>9, <1>13, <1>16, <1>17, <1>20

(* A job that a snapshot changes *)
Placed(job, status, index) == [job EXCEPT !.status = status, !.index = index]

LEMMA PlacedFacts ==
  ASSUME NEW job \in JobRecords, NEW status \in Phases \cup Terminal,
         NEW index \in Renders \cup {Nothing}
  PROVE  /\ Placed(job, status, index) \in JobRecords
         /\ Placed(job, status, index).id = job.id
         /\ Placed(job, status, index).status = status
         /\ Placed(job, status, index).armed = job.armed
         /\ Placed(job, status, index).deadline = job.deadline
<1>1. Placed(job, status, index) \in JobRecords
  BY DEF JobRecords, Placed
<1>2. QED BY <1>1 DEF JobRecords, Placed

LEMMA ReplayUpdateFacts ==
  ASSUME Types, ReplayUpdate
  PROVE  /\ RecoveredTypes /\ UNCHANGED project /\ Renewal /\ Carries
         /\ recovery.pc = "update" /\ recovery'.pc = "jobs"
         /\ \A n \in DOMAIN jobs : Ends(n) =>
              /\ n = recovery.job.slot /\ ~Finished(jobs[n].status)
              /\ Finished(recovery.job.status) /\ jobs'[n].status = recovery.job.status
<1> DEFINE found == recovery.job
           job == jobs[found.slot]
           status == IF Finished(job.status) THEN job.status ELSE found.status
           index == IF found.index # Nothing THEN found.index ELSE job.index
           placed == Placed(job, status, index)
           old == IF Finished(job.status) /\ ~Finished(found.status) THEN job ELSE placed
<1>1. /\ recovery.pc = "update" /\ fresh' = TRUE
      /\ UNCHANGED <<project, retired, awaiting, waiter>> /\ RecoverySide
      /\ recovery' = Replaying("jobs", recovery.todo, recovery.inFlight, Nothing)
      /\ jobs' = [jobs EXCEPT ![found.slot] = Observe(old, TRUE)]
  BY DEF ReplayUpdate, Placed
<1>2. /\ found \in Placements /\ found.slot \in DOMAIN jobs
      /\ recovery.todo \in SUBSET FoundJobs /\ recovery.inFlight \in BOOLEAN
  BY <1>1, ThreadsFacts
<1>3. /\ found.status \in Phases \cup Terminal /\ found.index \in Renders \cup {Nothing}
      /\ job \in JobRecords /\ job.status \in Phases \cup Terminal
      /\ job.index \in Renders \cup {Nothing}
  <2>1. job \in JobRecords
    BY <1>2, JobsTyped
  <2> HIDE DEF job
  <2>2. QED BY <1>2, <2>1, JobFields DEF Placements
<1>4. /\ status \in Phases \cup Terminal /\ index \in Renders \cup {Nothing}
      /\ status = IF Finished(job.status) THEN job.status ELSE found.status
  BY <1>3
<1> HIDE DEF found, job, status, index
<1>5. /\ old \in JobRecords /\ old.id = job.id /\ old.armed = job.armed
      /\ old.deadline = job.deadline
      /\ old.status = IF Finished(job.status) THEN job.status ELSE found.status
  <2>1. /\ placed \in JobRecords /\ placed.id = job.id /\ placed.status = status
        /\ placed.armed = job.armed /\ placed.deadline = job.deadline
    <3>1. /\ job \in JobRecords /\ status \in Phases \cup Terminal
          /\ index \in Renders \cup {Nothing}
      BY <1>3, <1>4
    <3>2. QED BY <3>1, PlacedFacts, Zenon
  <2> HIDE DEF placed
  <2>2. QED BY <1>3, <1>4, <2>1
<1> HIDE DEF old
<1>6. PICK new : /\ new = Observe(old, TRUE) /\ Renewed(new, job)
                 /\ new.status = IF Finished(job.status) THEN job.status ELSE found.status
  BY <1>3, <1>5, ObservedFacts
<1>7. jobs' = [jobs EXCEPT ![found.slot] = new] /\ Renewed(new, jobs[found.slot])
  BY <1>1, <1>6 DEF job
<1>8. Renewal /\ jobs'[found.slot] = new
      /\ \A n \in DOMAIN jobs : n # found.slot => jobs'[n] = jobs[n]
  BY <1>1, <1>2, <1>7, OneRenewed
<1>9. ASSUME NEW n \in DOMAIN jobs, Ends(n)
      PROVE  /\ n = found.slot /\ ~Finished(jobs[n].status)
             /\ Finished(found.status) /\ jobs'[n].status = found.status
  <2>1. n = found.slot /\ jobs'[n] = new /\ jobs[n] = job
    BY <1>8, <1>9 DEF Ends, job
  <2>2. QED BY <1>6, <1>9, <2>1 DEF Ends
<1>10. recovery' \in Replays /\ Carries /\ recovery'.pc = "jobs"
  <2>1. recovery.pc \in Applying /\ recovery.todo \in SUBSET Rest
    BY <1>1 DEF Applying, Rest
  <2>2. QED BY <1>1, <1>2, <2>1, ReplayingFacts
<1>11. project' \in Projects /\ Explains(project)' /\ fresh' \in BOOLEAN
       /\ waiter' \in {"woken", "asleep", "ok", "failed"}
  BY <1>1, ProjectFields DEF Explains, Types, CallerTypes
<1>12. RecoveredTypes
  BY <1>1, <1>8, <1>10, <1>11, RenewalTypes, RecoveryTypes
<1>13. QED BY <1>1, <1>8, <1>9, <1>10, <1>12 DEF found

(* The unfinished jobs end like the project *)
LEMMA SettledAsFacts ==
  ASSUME Types, NEW status \in {"Failed", "Canceled"}, jobs' = SettledAs(status),
         UNCHANGED <<retired, awaiting>>
  PROVE  /\ Renewal
         /\ \A n \in DOMAIN jobs : Ends(n) =>
              ~Finished(jobs[n].status) /\ jobs'[n].status = status
<1>1. ASSUME NEW n \in DOMAIN jobs
      PROVE  /\ Renewed(jobs'[n], jobs[n])
             /\ \/ jobs'[n].status = jobs[n].status
                \/ ~Finished(jobs[n].status) /\ jobs'[n].status = status
  <2>1. PICK job \in JobRecords : job = jobs[n]
    BY JobsTyped
  <2>2. \/ jobs'[n] = job
        \/ ~Finished(job.status) /\ jobs'[n] = Observe([job EXCEPT !.status = status], TRUE)
    BY <2>1, Zenon DEF SettledAs
  <2>3. status \in Phases \cup Terminal
    BY DEF Terminal
  <2>4. LET new == [job EXCEPT !.status = status]
        IN /\ new \in JobRecords /\ new.id = job.id /\ new.status = status
           /\ new.armed = job.armed /\ new.deadline = job.deadline
    <3>1. [job EXCEPT !.status = status] \in JobRecords
      BY <2>3 DEF JobRecords
    <3>2. QED BY <3>1 DEF JobRecords
  <2>5. PICK new : new = [job EXCEPT !.status = status]
    OBVIOUS
  <2>6. jobs'[n] = job \/ (~Finished(job.status) /\ jobs'[n] = Observe(new, TRUE))
    BY <2>2, <2>5
  <2>7. /\ Renewed(Observe(new, TRUE), job) /\ Observe(new, TRUE).status = status
    BY <2>4, <2>5, ObservedFacts
  <2>8. Renewed(job, job)
    BY DEF Renewed
  <2>9. QED BY <2>1, <2>6, <2>7, <2>8
<1>2. jobs' = [n \in DOMAIN jobs |-> jobs'[n]] /\ DOMAIN jobs' = DOMAIN jobs
  BY Zenon DEF SettledAs
<1>3. PICK f : f = jobs'
  OBVIOUS
<1>4. jobs' = [n \in DOMAIN jobs |-> f[n]] /\ \A n \in DOMAIN jobs : Renewed(f[n], jobs[n])
  BY <1>1, <1>2, <1>3
<1>5. Renewal
  BY <1>2, <1>4, AllRenewed
<1>6. QED BY <1>1, <1>5 DEF Ends

LEMMA SettleFacts ==
  ASSUME Types, Settle
  PROVE  /\ RecoveredTypes /\ UNCHANGED project /\ Renewal /\ Carries
         /\ recovery.pc = "jobs" /\ recovery'.pc = "status"
         /\ \A n \in DOMAIN jobs : Ends(n) =>
              /\ ~Finished(jobs[n].status) /\ jobs'[n].status = recovery.status
              /\ recovery.status \in {"Failed", "Canceled"}
<1>1. /\ recovery.pc = "jobs" /\ UNCHANGED <<project, retired, awaiting, waiter, fresh>>
      /\ RecoverySide
      /\ recovery' = Replaying("status", {}, recovery.inFlight, Nothing)
  BY DEF Settle, EndOfJobs
<1>2. recovery.inFlight \in BOOLEAN /\ fresh' \in BOOLEAN
  BY <1>1, ThreadsFacts DEF Types, CallerTypes
<1>3. \/ jobs' = Suspended
      \/ recovery.status \in {"Failed", "Canceled"} /\ jobs' = SettledAs(recovery.status)
      \/ jobs' = jobs
  BY DEF Settle
<1>4. /\ Renewal
      /\ \A n \in DOMAIN jobs : Ends(n) =>
           /\ ~Finished(jobs[n].status) /\ jobs'[n].status = recovery.status
           /\ recovery.status \in {"Failed", "Canceled"}
  <2>1. CASE jobs' = Suspended
    BY <1>1, <2>1, SuspendedFacts
  <2>2. CASE recovery.status \in {"Failed", "Canceled"} /\ jobs' = SettledAs(recovery.status)
    <3>1. PICK status \in {"Failed", "Canceled"} : status = recovery.status
      BY <2>2
    <3>2. jobs' = SettledAs(status)
      BY <2>2, <3>1
    <3>3. QED BY <1>1, <3>1, <3>2, SettledAsFacts
  <2>3. CASE jobs' = jobs
    BY <1>1, <2>3, NoneRenewed
  <2>4. QED BY <1>3, <2>1, <2>2, <2>3
<1>5. recovery' \in Replays /\ Carries /\ recovery'.pc = "status"
  <2>1. recovery.pc \in Applying /\ {} \in SUBSET Rest
    BY <1>1 DEF Applying
  <2>2. QED BY <1>1, <1>2, <2>1, ReplayingFacts
<1>6. project' \in Projects /\ Explains(project)' /\ waiter' \in {"woken", "asleep", "ok", "failed"}
  BY <1>1, ProjectFields DEF Explains, Types, CallerTypes
<1>7. RecoveredTypes
  BY <1>1, <1>2, <1>4, <1>5, <1>6, RenewalTypes, RecoveryTypes
<1>8. QED BY <1>1, <1>4, <1>5, <1>7

LEMMA ReplayStatusFacts ==
  ASSUME Types, ReplayStatus
  PROVE  /\ RecoveredTypes /\ Continues /\ UNCHANGED <<jobs, retired, awaiting>> /\ Carries
         /\ recovery.pc = "status" /\ recovery'.pc \in {"canceled", "idle"}
         /\ project'.status \in {project.status, recovery.status, "Queued"}
         /\ fresh' = FALSE
<1>1. /\ recovery.pc = "status" /\ UpdateProject(Taken)
      /\ UNCHANGED <<jobs, retired, awaiting>> /\ RecoverySide
      /\ fresh' = FALSE
      /\ recovery' = Replaying("canceled", {}, FALSE, Nothing) \/ recovery' = Idle
  BY DEF ReplayStatus, Ended
<1>2. recovery.status \in Statuses
  BY <1>1, ThreadsFacts
<1>3. /\ Taken \in {"Pending", "Queued", "Processing"} \cup Terminal
      /\ Finished(project.status) => Finished(Taken)
      /\ Taken \in {project.status, recovery.status, "Queued"}
  BY <1>2, ProjectFields DEF Taken, Statuses
<1>4. Continues /\ project'.status = Taken /\ waiter' \in {"woken", "asleep", "ok", "failed"}
  BY <1>1, <1>3, UpdateProjectFacts
<1>5. /\ recovery' \in {Idle} \cup Replays /\ Carries /\ recovery'.pc \in {"canceled", "idle"}
  <2>1. CASE recovery' = Idle
    BY <2>1, IdleRecovery DEF Carries
  <2>2. CASE recovery' = Replaying("canceled", {}, FALSE, Nothing)
    <3>1. recovery.pc \in Applying /\ {} \in SUBSET Rest /\ FALSE \in BOOLEAN
      BY <1>1 DEF Applying
    <3>2. QED BY <2>2, <3>1, ReplayingFacts
  <2>3. QED BY <1>1, <2>1, <2>2
<1>6. RecoveredTypes
  BY <1>1, <1>4, <1>5, NoneRenewed, RenewalTypes, RecoveryTypes DEF Continues
<1>7. QED BY <1>1, <1>3, <1>4, <1>5, <1>6

LEMMA CancelJobsFacts ==
  ASSUME Types, CancelJobs
  PROVE  /\ RecoveredTypes /\ UNCHANGED project /\ Renewal /\ Carries /\ recovery'.pc = "idle"
         /\ \A n \in DOMAIN jobs : Ends(n) =>
              /\ ~Finished(jobs[n].status) /\ jobs'[n].status = project.status
              /\ project.status \in {"Failed", "Canceled"}
         /\ fresh' = FALSE
<1>1. /\ UNCHANGED <<project, retired, awaiting, waiter>> /\ RecoverySide
      /\ recovery' = Idle /\ fresh' = FALSE
      /\ jobs' = IF project.status \in {"Failed", "Canceled"} THEN SettledAs(project.status)
                 ELSE jobs
  BY DEF CancelJobs, Ended
<1>2. /\ Renewal
      /\ \A n \in DOMAIN jobs : Ends(n) =>
           /\ ~Finished(jobs[n].status) /\ jobs'[n].status = project.status
           /\ project.status \in {"Failed", "Canceled"}
  <2>1. CASE project.status \in {"Failed", "Canceled"}
    <3>1. PICK status \in {"Failed", "Canceled"} : status = project.status
      BY <2>1
    <3>2. jobs' = SettledAs(status)
      BY <1>1, <3>1
    <3>3. QED BY <1>1, <3>1, <3>2, SettledAsFacts
  <2>2. CASE project.status \notin {"Failed", "Canceled"}
    BY <1>1, <2>2, NoneRenewed
  <2>3. QED BY <2>1, <2>2
<1>3. project' \in Projects /\ Explains(project)' /\ fresh' \in BOOLEAN
      /\ waiter' \in {"woken", "asleep", "ok", "failed"}
  BY <1>1, ProjectFields DEF Explains, Types, CallerTypes
<1>4. RecoveredTypes
  BY <1>1, <1>2, <1>3, IdleRecovery, RenewalTypes, RecoveryTypes
<1>5. QED BY <1>1, <1>2, <1>4, IdleRecovery DEF Carries

--------------------------------------------------------------------------------
(***************************************************************************)
(* The types are kept.                                                     *)
(***************************************************************************)
LEMMA InitTypes ==
  ASSUME ConstantsAreSound, Init
  PROVE  Types
<1>1. PICK requested \in SUBSET Renders, stamp \in {0, FirstStamp} :
        service = [verdict |-> "active", stamp |-> stamp,
                   work |-> [r \in Renders |-> [number |-> 0, state |->
                               IF r \in requested THEN "waiting" ELSE "none"]]]
  BY DEF Init
<1>2. MaxStamp \in Nat /\ MaxAttempts \in Nat /\ MaxInbox \in Nat /\ MaxLosses \in Nat
  BY DEF ConstantsAreSound
<1>3. stamp \in 0 .. MaxStamp /\ 0 \in 0 .. MaxStamp /\ 0 \in 0 .. MaxAttempts
  BY <1>2 DEF FirstStamp
<1> DEFINE work == [r \in Renders |-> [number |-> 0, state |->
                               IF r \in requested THEN "waiting" ELSE "none"]]
<1>4. \A r \in Renders : work[r] \in Works /\ work[r].state \in {"waiting", "none"}
  BY <1>3 DEF Works
<1>5. work \in [Renders -> Works] /\ service.work = work /\ service \in Services
  <2>1. work \in [Renders -> Works]
    BY <1>4
  <2> HIDE DEF work
  <2>2. service = [verdict |-> "active", stamp |-> stamp, work |-> work]
    BY <1>1 DEF work
  <2>3. QED BY <1>3, <2>1, <2>2 DEF Services, Verdicts
<1> HIDE DEF work
<1>6. inbox = <<>> /\ losses = 0
  BY DEF Init
<1>7. WorldTypes
  <2>1. inbox \in Seq(Events) /\ Len(inbox) <= MaxInbox + losses /\ losses \in 0 .. MaxLosses
    BY <1>2, <1>6
  <2>2. QED BY <1>4, <1>5, <2>1 DEF WorldTypes
<1>8. ProjectTypes
  <2>1. project \in Projects /\ Explains(project)
    BY <1>3 DEF Init, Projects, Explains, Finished, Terminal
  <2>2. QED BY <2>1 DEF Init, ProjectTypes
<1>9. ThreadTypes
  BY DEF Init, ThreadTypes, Idle
<1>10. CallerTypes
  BY <1>3 DEF Init, CallerTypes
<1>11. QED BY <1>7, <1>8, <1>9, <1>10 DEF Types

LEMMA ListenerStep ==
  ASSUME Types, Listener
  PROVE  ListenedTypes
BY HearAttemptFacts, HearIgnoredFacts, UpdateJobFacts, UpdateParentFacts, SignedFacts,
   HearRetryFacts, HearQueuedFacts, HearVerdictFacts, HearQueueFacts DEF Listener

LEMMA LeaveFacts ==
  ASSUME Types, Leave \/ StopReplay
  PROVE  /\ RecoveredTypes /\ UNCHANGED <<project, jobs, retired, awaiting>>
         /\ Carries /\ recovery'.pc = "idle" /\ fresh' = FALSE
BY EndedFacts DEF Leave, StopReplay

LEMMA RecoveryStep ==
  ASSUME Types, Recovery
  PROVE  RecoveredTypes
BY AskFacts, LookFacts, BeginReplayFacts, LeaveFacts, SkipJobFacts, ReplayClaimFacts,
   ReplayUpdateFacts, SettleFacts, ReplayStatusFacts, CancelJobsFacts DEF Recovery, FoundJobs

LEMMA ServiceStep ==
  ASSUME Types, Service
  PROVE  /\ Types' /\ Onwards /\ Incoming /\ Quiet
         /\ UNCHANGED <<project, jobs, retired, awaiting, fresh, listener, recovery, heard>>
<1>1. Onwards /\ Incoming
  BY ServiceFacts
<1>2. UNCHANGED <<project, jobs, retired, awaiting, fresh, listener, recovery, signing, waiter,
                  heard>> /\ Quiet
  BY DEF Service, ClientSide, projectVars
<1>3. WorldTypes'
  BY <1>1, WorldStays
<1>4. ProjectTypes' /\ CallerTypes'
  BY <1>2 DEF Types, ProjectTypes, CallerTypes, Explains
<1>5. ThreadTypes'
  BY <1>2, ThreadsStay
<1>6. QED BY <1>1, <1>2, <1>3, <1>4, <1>5 DEF Types

LEMMA WaitLookFacts ==
  ASSUME Types, WaitLook
  PROVE  /\ Types'
         /\ UNCHANGED <<service, inbox, project, jobs, retired, awaiting, fresh, listener,
                        recovery, heard>>
<1>1. UNCHANGED <<service, inbox, losses, project, jobs, retired, awaiting, fresh, listener,
                  recovery, signing, heard>>
  BY DEF WaitLook, serviceVars, projectVars
<1>2. waiter' \in {"woken", "asleep", "ok", "failed"}
  BY DEF WaitLook
<1>3. WorldTypes' /\ ProjectTypes' /\ CallerTypes' /\ ThreadTypes'
  BY <1>1, <1>2, ThreadsStay DEF Types, WorldTypes, ProjectTypes, CallerTypes, Explains
<1>4. QED BY <1>1, <1>3 DEF Types

LEMMA Stutters ==
  ASSUME Types, UNCHANGED vars
  PROVE  /\ Types'
         /\ UNCHANGED <<service, inbox, project, jobs, retired, awaiting, fresh, listener,
                        recovery, heard>>
<1>1. UNCHANGED <<service, inbox, losses, project, jobs, retired, awaiting, fresh, listener,
                  recovery, signing, waiter, heard>>
  BY DEF vars, serviceVars, projectVars
<1>2. WorldTypes' /\ ProjectTypes' /\ CallerTypes' /\ ThreadTypes'
  BY <1>1, ThreadsStay DEF Types, WorldTypes, ProjectTypes, CallerTypes, Explains
<1>3. QED BY <1>1, <1>2 DEF Types

LEMMA StepTypes ==
  ASSUME Types, [Next]_vars
  PROVE  Types'
BY ListenerStep, RecoveryStep, ServiceStep, WaitLookFacts, Stutters
   DEF Next, ListenedTypes, RecoveredTypes

LEMMA TypesAreOK ==
  ASSUME Types
  PROVE  TypeOK
BY DEF Types, WorldTypes, ProjectTypes, CallerTypes, TypeOK, Projects, Services, Explains

LEMMA AlwaysTypes ==
  ASSUME ConstantsAreSound
  PROVE  Spec => []Types
<1>1. Init => Types
  BY InitTypes
<1>2. Types /\ [Next]_vars => Types'
  BY StepTypes
<1>3. QED BY <1>1, <1>2, PTL DEF Spec

(* The types of the shared state: an explanation is shown exactly while some   *)
(* result waits, and a finished project has none (set_queue_state,             *)
(* Project::update), whatever events and snapshots are applied.                *)
THEOREM TypesHold ==
  ASSUME ConstantsAreSound
  PROVE  Spec => []TypeOK
<1>1. Spec => []Types
  BY AlwaysTypes
<1>2. Types => TypeOK
  BY TypesAreOK
<1>3. QED BY <1>1, <1>2, PTL

--------------------------------------------------------------------------------
(***************************************************************************)
(* The handles of a project, its deadlines and its end.                    *)
(***************************************************************************)
(* What a step does to the jobs *)
JobsMove == Renewal \/ \E id, slot : TakesOver(id, slot) \/ IsAdded(id, slot)

LEMMA ClaimedMoves ==
  ASSUME Types, NEW id, NEW slot, Claimed(id, slot)
  PROVE  JobsMove
BY NoneRenewed DEF Claimed, IsHeld, JobsMove

LEMMA JobsStay ==
  ASSUME Types, UNCHANGED <<jobs, retired, awaiting>>
  PROVE  JobsMove
BY NoneRenewed DEF JobsMove

LEMMA StepJobs ==
  ASSUME Types, [Next]_vars
  PROVE  JobsMove
<1>1. CASE Service \/ WaitLook \/ UNCHANGED vars
  BY <1>1, ServiceStep, WaitLookFacts, Stutters, JobsStay
<1>2. CASE HearAttempt \/ HearIgnored \/ UpdateJob
  BY <1>2, HearAttemptFacts, HearIgnoredFacts, UpdateJobFacts, JobsStay, ClaimedMoves
     DEF JobsMove
<1>3. CASE UpdateParent \/ Signed \/ HearRetry \/ HearQueued \/ HearVerdict \/ HearQueue
  BY <1>3, UpdateParentFacts, SignedFacts, HearRetryFacts, HearQueuedFacts, HearVerdictFacts,
     HearQueueFacts, JobsStay DEF JobsMove
<1>4. CASE Ask \/ Look \/ BeginReplay \/ Leave \/ StopReplay \/ \E found \in FoundJobs : SkipJob(found)
  BY <1>4, AskFacts, LookFacts, BeginReplayFacts, LeaveFacts, SkipJobFacts, JobsStay
<1>5. CASE \/ \E found \in FoundJobs : ReplayClaim(found)
           \/ ReplayUpdate \/ Settle \/ ReplayStatus \/ CancelJobs
  BY <1>5, ReplayClaimFacts, ReplayUpdateFacts, SettleFacts, ReplayStatusFacts, CancelJobsFacts,
     JobsStay, ClaimedMoves DEF JobsMove
<1>6. QED BY <1>1, <1>2, <1>3, <1>4, <1>5 DEF Next, Listener, Recovery, FoundJobs

LEMMA InitHandles ==
  ASSUME Init
  PROVE  OneHandle
BY DEF Init, OneHandle

LEMMA HandlesKept ==
  ASSUME Types, OneHandle, JobsMove
  PROVE  OneHandle'
<1>1. \A n \in DOMAIN jobs : jobs[n].id \in JobIds
  BY DEF JobIds
<1>2. CASE Renewal
  <2>1. \A n \in DOMAIN jobs : jobs'[n].id = jobs[n].id
    BY <1>2 DEF Renewal, Renewed
  <2>2. \A id \in JobIds : id \notin retired
    BY DEF JobIds, OneHandle
  <2>3. QED BY <1>2, <2>1, <2>2 DEF Renewal, OneHandle
<1>3. ASSUME NEW id, NEW slot, TakesOver(id, slot)
      PROVE  OneHandle'
  <2>1. /\ id \notin retired /\ id \notin JobIds /\ slot \in DOMAIN jobs
        /\ DOMAIN jobs' = DOMAIN jobs /\ jobs'[slot].id = id
        /\ \A n \in DOMAIN jobs : n # slot => jobs'[n] = jobs[n]
        /\ retired' = retired \cup {jobs[slot].id} /\ awaiting' = awaiting \ {jobs[slot].id}
    BY <1>3 DEF TakesOver
  <2>2. \A m, n \in DOMAIN jobs' : jobs'[m].id = jobs'[n].id => m = n
    BY <1>1, <2>1 DEF OneHandle
  <2>3. \A n \in DOMAIN jobs' : jobs'[n].id \notin retired'
    BY <1>1, <2>1 DEF OneHandle
  <2>4. awaiting' \cap retired' = {}
    BY <2>1 DEF OneHandle
  <2>5. QED BY <2>2, <2>3, <2>4 DEF OneHandle
<1>4. ASSUME NEW id, NEW slot, IsAdded(id, slot)
      PROVE  OneHandle'
  <2>1. /\ id \notin retired /\ id \notin JobIds
        /\ DOMAIN jobs' = DOMAIN jobs \cup {slot} /\ slot \notin DOMAIN jobs
        /\ jobs'[slot].id = id /\ \A n \in DOMAIN jobs : jobs'[n] = jobs[n]
        /\ UNCHANGED <<retired, awaiting>>
    BY <1>4 DEF IsAdded
  <2>2. \A m, n \in DOMAIN jobs' : jobs'[m].id = jobs'[n].id => m = n
    BY <1>1, <2>1 DEF OneHandle
  <2>3. QED BY <2>1, <2>2 DEF OneHandle
<1>5. QED BY <1>2, <1>3, <1>4 DEF JobsMove

(* Whatever the listener and the recovery hear of an attempt, in any order and *)
(* any number of times, it has one handle; an attempt that was replaced has    *)
(* none and is not awaited (job_for_attempt, ensure_job).                      *)
THEOREM OneHandleHolds ==
  ASSUME ConstantsAreSound
  PROVE  Spec => []OneHandle
<1>1. Spec => []Types
  BY AlwaysTypes
<1>2. Init => OneHandle
  BY InitHandles
<1>3. Types /\ OneHandle /\ [Next]_vars => OneHandle'
  BY StepJobs, HandlesKept
<1>4. QED BY <1>1, <1>2, <1>3, PTL DEF Spec

LEMMA DeadlinesKept ==
  ASSUME Types, JobsMove
  PROVE  \A n \in DOMAIN jobs :
           jobs[n].armed # Nothing /\ jobs'[n].armed = jobs[n].armed
             => jobs'[n].deadline = jobs[n].deadline
<1>1. CASE Renewal
  BY <1>1 DEF Renewal, Renewed
<1>2. ASSUME NEW id, NEW slot, TakesOver(id, slot), NEW n \in DOMAIN jobs,
             jobs[n].armed # Nothing, jobs'[n].armed = jobs[n].armed
      PROVE  jobs'[n].deadline = jobs[n].deadline
  BY <1>2 DEF TakesOver
<1>3. ASSUME NEW id, NEW slot, IsAdded(id, slot), NEW n \in DOMAIN jobs
      PROVE  jobs'[n].deadline = jobs[n].deadline
  BY <1>3 DEF IsAdded
<1>4. QED BY <1>1, <1>2, <1>3 DEF JobsMove

(* The deadline of an attempt never moves while it is armed, whatever frame or *)
(* snapshot is applied (ProcessingRuntime::observe).                           *)
THEOREM DeadlinesHold ==
  ASSUME ConstantsAreSound
  PROVE  Spec => DeadlineFixed
<1> DEFINE Keeps == \A n \in DOMAIN jobs :
                      jobs[n].armed # Nothing /\ jobs'[n].armed = jobs[n].armed
                        => jobs'[n].deadline = jobs[n].deadline
<1>1. Spec => []Types
  BY AlwaysTypes
<1>2. Types /\ [Next]_vars => [Keeps]_vars
  BY StepJobs, DeadlinesKept
<1>3. QED BY <1>1, <1>2, PTL DEF Spec, DeadlineFixed

LEMMA StepFinished ==
  ASSUME Types, [Next]_vars, Finished(project.status)
  PROVE  Finished(project'.status)
<1>1. CASE Service \/ WaitLook \/ UNCHANGED vars
  BY <1>1, ServiceStep, WaitLookFacts, Stutters
<1>2. CASE HearAttempt \/ HearIgnored \/ UpdateJob
  BY <1>2, HearAttemptFacts, HearIgnoredFacts, UpdateJobFacts DEF Fades
<1>3. CASE UpdateParent \/ Signed \/ HearRetry \/ HearQueued \/ HearVerdict \/ HearQueue
  BY <1>3, UpdateParentFacts, SignedFacts, HearRetryFacts, HearQueuedFacts, HearVerdictFacts,
     HearQueueFacts DEF Fades, Continues
<1>4. CASE Ask \/ Look \/ BeginReplay \/ Leave \/ StopReplay \/ \E found \in FoundJobs : SkipJob(found)
  BY <1>4, AskFacts, LookFacts, BeginReplayFacts, LeaveFacts, SkipJobFacts
<1>5. CASE \/ \E found \in FoundJobs : ReplayClaim(found)
           \/ ReplayUpdate \/ Settle \/ ReplayStatus \/ CancelJobs
  BY <1>5, ReplayClaimFacts, ReplayUpdateFacts, SettleFacts, ReplayStatusFacts, CancelJobsFacts
     DEF Fades, Continues
<1>6. QED BY <1>1, <1>2, <1>3, <1>4, <1>5 DEF Next, Listener, Recovery, FoundJobs

(* A finished project is never taken back, by no event and no snapshot that    *)
(* was answered before it finished (replay_recovered_at_revision).             *)
THEOREM FinishHolds ==
  ASSUME ConstantsAreSound
  PROVE  Spec => StaysFinished
<1> DEFINE Stays == Finished(project.status) => Finished(project'.status)
<1>1. Spec => []Types
  BY AlwaysTypes
<1>2. Types /\ [Next]_vars => [Stays]_vars
  BY StepFinished
<1>3. QED BY <1>1, <1>2, PTL DEF Spec, StaysFinished

--------------------------------------------------------------------------------
(***************************************************************************)
(* What is on its way, being applied or replayed is true.                  *)
(***************************************************************************)
InboxHonest == \A i \in DOMAIN inbox : Truthful(inbox[i])

ListenerHonest ==
  listener.pc # "idle" => Truthful(listener.event) /\ ~(listener.event.kind = "retry")

AnswerHonest ==
  /\ recovery.status = "Completed" => service.verdict = "completed"
  /\ recovery.status = "Failed" => service.verdict = "failed"
  /\ recovery.status = "Canceled" => service.verdict = "canceled"
  /\ \A found \in Rest : found.state # "running" => Gave(found.id, Says(found.state))

RecoveryHonest ==
  /\ recovery.pc # "idle" => (recovery.cancel => service.verdict = "canceled")
  /\ recovery.pc \in Applying => AnswerHonest
  /\ recovery.pc = "update" =>
       (Finished(recovery.job.status) => Gave(recovery.job.id, recovery.job.status))

Honest == InboxHonest /\ ListenerHonest /\ RecoveryHonest

LEMMA OutcomeStays ==
  ASSUME Types, Onwards, NEW r \in Renders, Outcome(r) \in Ending
  PROVE  Outcome(r)' = Outcome(r) /\ Attempt(r)' = Attempt(r)
<1>1. service'.work[r] = service.work[r]
  BY DEF Outcome, Says, Ending, Onwards
<1>2. QED BY <1>1 DEF Outcome, Attempt

LEMMA GaveStays ==
  ASSUME Types, Onwards, NEW id \in Ids, NEW status \in Phases \cup Terminal, Gave(id, status)
  PROVE  Gave(id, status)'
<1>1. id.render \in Renders
  BY DEF Ids
<1>2. Outcome(id.render) \in Ending
  BY DEF Gave, Outcome, Says, Ending, Phases, Terminal
<1>3. QED BY <1>1, <1>2, OutcomeStays DEF Gave

(* Who gave what depends on the service only *)
LEMMA GaveUnchanged ==
  ASSUME UNCHANGED service
  PROVE  \A id, status : Gave(id, status)' <=> Gave(id, status)
BY DEF Gave, Outcome, Attempt

LEMMA TruthfulStays ==
  ASSUME Types, Onwards, NEW e \in Events, Truthful(e)
  PROVE  Truthful(e)'
<1>1. e.kind \in {"error", "result"} => Gave(e.id, e.phase)'
  <2>1. e.kind \in {"error", "result"} => e.id \in Ids /\ e.phase \in Phases \cup Terminal
    BY FrameEventFacts DEF FrameKinds
  <2>2. QED BY <2>1, GaveStays DEF Truthful
<1>2. e.kind \in {"completed", "failed"} => service'.verdict = e.kind
  BY DEF Truthful, Onwards
<1>3. e.kind = "queue" => e.stamp <= service'.stamp
  <2>1. CASE e.kind = "queue"
    <3>1. e.stamp \in Nat /\ service.stamp \in Nat /\ service'.stamp \in Nat
      BY <2>1, FrameEventFacts, ServiceFields DEF Onwards, Services, Types, ConstantsAreSound
    <3>2. e.stamp <= service.stamp /\ service.stamp <= service'.stamp
      BY <2>1 DEF Truthful, Onwards
    <3>3. QED BY <3>1, <3>2
  <2>2. QED BY <2>1
<1>4. e.kind \in FrameKinds => /\ e.phase = "Failed" <=> e.kind = "error"
                               /\ e.phase = "Completed" <=> e.kind = "result"
                               /\ ~(e.phase = "Canceled")
  BY DEF Truthful
<1>5. QED BY <1>1, <1>2, <1>3, <1>4 DEF Truthful

(* What the world does in a step *)
Arriving == \A i \in DOMAIN inbox' :
              Truthful(inbox[i])' \/ \E j \in DOMAIN inbox : inbox'[i] = inbox[j]

LEMMA StillWorld ==
  ASSUME Types, UNCHANGED <<service, inbox>>
  PROVE  Onwards /\ Arriving
BY NothingMoves DEF Arriving

LEMMA StepWorld ==
  ASSUME Types, [Next]_vars
  PROVE  Onwards /\ Arriving
<1>1. CASE Service
  BY <1>1, ServiceStep DEF Incoming, Arriving
<1>2. CASE Listener
  BY <1>2, ListenerStep DEF ListenedTypes, Incoming, Arriving
<1>3. CASE Recovery
  BY <1>3, RecoveryStep, StillWorld DEF RecoveredTypes
<1>4. CASE WaitLook \/ UNCHANGED vars
  BY <1>4, WaitLookFacts, Stutters, StillWorld
<1>5. QED BY <1>1, <1>2, <1>3, <1>4 DEF Next

LEMMA InboxTyped ==
  ASSUME Types
  PROVE  \A i \in DOMAIN inbox : inbox[i] \in Events
BY DEF Types, WorldTypes

LEMMA InboxStaysHonest ==
  ASSUME Types, InboxHonest, Onwards, Arriving
  PROVE  InboxHonest'
<1> SUFFICES ASSUME NEW i \in DOMAIN inbox'
             PROVE  Truthful(inbox[i])'
  BY DEF InboxHonest
<1>1. CASE \E j \in DOMAIN inbox : inbox'[i] = inbox[j]
  <2>1. PICK j \in DOMAIN inbox : inbox'[i] = inbox[j]
    BY <1>1
  <2>2. PICK e \in Events : e = inbox[j]
    BY <2>1, InboxTyped
  <2>3. Truthful(e)
    BY <2>1, <2>2 DEF InboxHonest
  <2>4. Truthful(e)'
    BY <2>3, TruthfulStays
  <2>5. inbox'[i] = e
    BY <2>1, <2>2
  <2>6. QED BY <2>4, <2>5 DEF Truthful, Gave, Outcome, Attempt
<1>2. QED BY <1>1 DEF Arriving

(* The event being applied stays, or is one that arrived *)
LEMMA ListenerStaysHonest ==
  ASSUME Types, InboxHonest, ListenerHonest, Onwards,
         listener'.pc # "idle" =>
           \/ listener.pc # "idle" /\ listener'.event = listener.event
           \/ \E j \in DOMAIN inbox : listener'.event = inbox[j] /\ ~(inbox[j].kind = "retry")
  PROVE  ListenerHonest'
<1> SUFFICES ASSUME listener'.pc # "idle"
             PROVE  Truthful(listener.event)' /\ ~(listener'.event.kind = "retry")
  BY DEF ListenerHonest
<1>1. PICK e \in Events : listener'.event = e /\ Truthful(e) /\ ~(e.kind = "retry")
  <2>1. CASE listener.pc # "idle" /\ listener'.event = listener.event
    BY <2>1, ThreadsFacts DEF ListenerHonest, Events
  <2>2. CASE \E j \in DOMAIN inbox : listener'.event = inbox[j] /\ ~(inbox[j].kind = "retry")
    BY <2>2, InboxTyped DEF InboxHonest
  <2>3. QED BY <2>1, <2>2
<1>2. Truthful(e)'
  BY <1>1, TruthfulStays
<1>3. QED BY <1>1, <1>2 DEF Truthful, Gave, Outcome, Attempt

LEMMA RestFacts ==
  ASSUME Types, recovery.pc \in Applying
  PROVE  Rest \in SUBSET FoundJobs
BY ThreadsFacts DEF Applying, Rest

LEMMA RecoveryStaysHonest ==
  ASSUME Types, RecoveryHonest, Onwards, UNCHANGED recovery
  PROVE  RecoveryHonest'
<1>1. \A verdict \in {"completed", "failed", "canceled"} :
        service.verdict = verdict => service'.verdict = verdict
  BY DEF Onwards
<1>2. ASSUME recovery.pc \in Applying
      PROVE  AnswerHonest'
  <2>1. AnswerHonest
    BY <1>2 DEF RecoveryHonest
  <2>2. ASSUME NEW found \in Rest, found.state # "running"
        PROVE  Gave(found.id, Says(found.state))'
    <3>1. PICK id \in Ids, status \in Phases \cup Terminal :
            id = found.id /\ status = Says(found.state)
      BY <1>2, <2>2, RestFacts DEF FoundJobs, Says, Terminal
    <3>2. Gave(id, status)
      BY <2>1, <2>2, <3>1 DEF AnswerHonest
    <3>3. Gave(id, status)'
      BY <3>2, GaveStays
    <3>4. QED BY <3>1, <3>3 DEF Gave, Outcome, Attempt
  <2>3. Rest' = Rest
    BY DEF Rest
  <2>4. QED BY <1>1, <2>1, <2>2, <2>3 DEF AnswerHonest
<1>3. ASSUME recovery.pc = "update", Finished(recovery.job.status)
      PROVE  Gave(recovery.job.id, recovery.job.status)'
  <2>1. PICK id \in Ids, status \in Phases \cup Terminal :
          id = recovery.job.id /\ status = recovery.job.status
    BY <1>3, ThreadsFacts DEF Placements
  <2>2. Gave(id, status)
    BY <1>3, <2>1 DEF RecoveryHonest
  <2>3. Gave(id, status)'
    BY <2>2, GaveStays
  <2>4. recovery'.job.id = id /\ recovery'.job.status = status
    BY <2>1
  <2>5. QED BY <2>3, <2>4 DEF Gave, Outcome, Attempt
<1>4. recovery'.pc # "idle" => (recovery'.cancel => service'.verdict = "canceled")
  BY <1>1 DEF RecoveryHonest
<1>5. QED BY <1>2, <1>3, <1>4 DEF RecoveryHonest

LEMMA CarriesHonest ==
  ASSUME Types, RecoveryHonest, Carries, UNCHANGED service,
         recovery'.pc = "update" =>
           (Finished(recovery'.job.status) => Gave(recovery.job.id, recovery.job.status)')
  PROVE  RecoveryHonest'
<1>1. CASE recovery'.pc = "idle"
  BY <1>1 DEF RecoveryHonest, Applying
<1>2. CASE /\ recovery.pc \in Applying /\ recovery'.pc \in Applying \ {"answered"}
           /\ recovery'.cancel = recovery.cancel /\ recovery'.status = recovery.status
           /\ recovery'.todo \subseteq Rest
  <2>1. AnswerHonest /\ (recovery.cancel => service.verdict = "canceled")
    BY <1>2 DEF RecoveryHonest, Applying
  <2>2. Rest' = recovery'.todo
    BY <1>2 DEF Rest, Applying
  <2>3. \A id, status : Gave(id, status)' <=> Gave(id, status)
    BY GaveUnchanged
  <2>4. AnswerHonest'
    BY <1>2, <2>1, <2>2, <2>3 DEF AnswerHonest
  <2>5. QED BY <1>2, <2>1, <2>4 DEF RecoveryHonest
<1>3. QED BY <1>1, <1>2 DEF Carries

LEMMA ListenerOnly ==
  ASSUME Listener
  PROVE  UNCHANGED <<service, recovery>>
BY DEF Listener, HearAttempt, HearIgnored, UpdateJob, UpdateParent, Signed, HearRetry, HearQueued,
       HearVerdict, HearQueue, ListenerSide, serviceVars

LEMMA StepListener ==
  ASSUME Types, Honest, [Next]_vars
  PROVE  ListenerHonest'
<1> DEFINE Goes == listener'.pc # "idle" =>
              \/ listener.pc # "idle" /\ listener'.event = listener.event
              \/ \E j \in DOMAIN inbox : listener'.event = inbox[j] /\ ~(inbox[j].kind = "retry")
<1>1. ASSUME Service \/ WaitLook \/ UNCHANGED vars \/ Recovery
      PROVE  Goes
  BY <1>1, ServiceStep, WaitLookFacts, Stutters, RecoveryStep DEF RecoveredTypes
<1>2. ASSUME HearAttempt
      PROVE  Goes
  <2>1. PICK slot : listener' = [pc |-> "job", event |-> Heard, slot |-> slot]
    BY <1>2, HearAttemptFacts
  <2>2. Heard = inbox[1] /\ 1 \in DOMAIN inbox
    BY <1>2, HearAttemptFacts
  <2>3. ~(Heard.kind = "retry")
    BY <1>2 DEF HearAttempt, Hears
  <2>4. QED BY <2>1, <2>2, <2>3
<1>3. ASSUME HearIgnored \/ UpdateJob
      PROVE  Goes
  BY <1>3, HearIgnoredFacts, UpdateJobFacts
<1>4. ASSUME UpdateParent \/ Signed \/ HearRetry \/ HearQueued \/ HearVerdict \/ HearQueue
      PROVE  Goes
  BY <1>4, UpdateParentFacts, SignedFacts, HearRetryFacts, HearQueuedFacts, HearVerdictFacts,
     HearQueueFacts
<1>5. Goes
  BY <1>1, <1>2, <1>3, <1>4 DEF Next, Listener
<1>6. QED BY <1>5, StepWorld, ListenerStaysHonest DEF Honest

LEMMA StepRecovery ==
  ASSUME Types, Honest, [Next]_vars
  PROVE  RecoveryHonest'
<1>1. CASE Service \/ WaitLook \/ UNCHANGED vars \/ Listener
  <2>1. UNCHANGED recovery
    BY <1>1, ServiceStep, WaitLookFacts, Stutters, ListenerOnly
  <2>2. QED BY <2>1, StepWorld, RecoveryStaysHonest DEF Honest
<1>2. CASE Ask
  BY <1>2, AskFacts DEF RecoveryHonest, Applying, RecoveredTypes
<1>3. CASE Look
  <2>1. /\ recovery.pc = "asked" /\ recovery'.pc = "answered" /\ UNCHANGED service
        /\ recovery'.cancel = recovery.cancel
        /\ recovery'.list \in Lists /\ recovery'.status \in ReportedStatus
    BY <1>3, LookFacts DEF RecoveredTypes
  <2>2. PICK list \in Lists, told \in ReportedStatus :
          list = recovery'.list /\ told = recovery'.status
    BY <2>1
  <2>3. /\ \A found \in list : found.state # "running" => Gave(found.id, Says(found.state))
        /\ told = "Completed" => service.verdict = "completed"
        /\ told = "Failed" => service.verdict = "failed"
        /\ told = "Canceled" => service.verdict = "canceled"
    BY SnapshotFacts
  <2>4. \A id, status : Gave(id, status)' <=> Gave(id, status)
    BY <2>1, GaveUnchanged
  <2>5. Rest' = list
    BY <2>1, <2>2 DEF Rest
  <2>6. AnswerHonest'
    BY <2>1, <2>2, <2>3, <2>4, <2>5 DEF AnswerHonest
  <2>7. QED BY <2>1, <2>6 DEF Honest, RecoveryHonest
<1>4. CASE BeginReplay \/ Leave \/ StopReplay \/ \E found \in FoundJobs : SkipJob(found)
  BY <1>4, BeginReplayFacts, LeaveFacts, SkipJobFacts, CarriesHonest DEF Honest, RecoveredTypes
<1>5. CASE ReplayUpdate \/ Settle \/ ReplayStatus \/ CancelJobs
  BY <1>5, ReplayUpdateFacts, SettleFacts, ReplayStatusFacts, CancelJobsFacts, CarriesHonest
     DEF Honest, RecoveredTypes
<1>6. ASSUME NEW found \in FoundJobs, ReplayClaim(found)
      PROVE  RecoveryHonest'
  <2>1. /\ UNCHANGED service /\ Carries /\ recovery.pc = "jobs" /\ found \in recovery.todo
        /\ recovery'.job.id = found.id
        /\ Finished(recovery'.job.status) =>
             found.state # "running" /\ recovery'.job.status = Says(found.state)
    BY <1>6, ReplayClaimFacts DEF RecoveredTypes
  <2>2. found.state # "running" => Gave(found.id, Says(found.state))
    BY <2>1 DEF Honest, RecoveryHonest, AnswerHonest, Applying, Rest
  <2>3. Finished(recovery'.job.status) => Gave(recovery.job.id, recovery.job.status)'
    BY <2>1, <2>2 DEF Gave, Outcome, Attempt
  <2>4. QED BY <2>1, <2>3, CarriesHonest DEF Honest
<1>7. QED BY <1>1, <1>2, <1>3, <1>4, <1>5, <1>6 DEF Next, Recovery, FoundJobs

LEMMA AlwaysHonest ==
  ASSUME ConstantsAreSound
  PROVE  Spec => []Honest
<1>1. Spec => []Types
  BY AlwaysTypes
<1>2. Init => Honest
  BY DEF Init, Honest, InboxHonest, ListenerHonest, RecoveryHonest, Idle, Applying
<1>3. Types /\ Honest /\ [Next]_vars => Honest'
  BY StepWorld, InboxStaysHonest, StepListener, StepRecovery DEF Honest
<1>4. QED BY <1>1, <1>2, <1>3, PTL DEF Spec

--------------------------------------------------------------------------------
(***************************************************************************)
(* The explanation of the queue.                                           *)
(***************************************************************************)
(* An answer that may still be shown is no older than what was heard: a later *)
(* explanation would have made it stale, and after a confirmed cancellation   *)
(* there is no later one.                                                     *)
AnswerIsNew ==
  recovery.pc = "answered" =>
    /\ recovery.stamp <= service.stamp
    /\ recovery.cancel => recovery.stamp = service.stamp
    /\ fresh /\ ~Finished(project.status) => recovery.stamp >= heard

QueueKept == heard <= service.stamp /\ AnswerIsNew /\ QueueNeverOlder

LEMMA Stamps ==
  ASSUME Types
  PROVE  /\ service.stamp \in Nat /\ heard \in Nat /\ project.stamp \in Nat
         /\ recovery.pc = "answered" => recovery.stamp \in Nat
BY ServiceFields, ProjectFields, ThreadsFacts DEF Types, CallerTypes, ConstantsAreSound

LEMMA NextStamps ==
  ASSUME Types'
  PROVE  service'.stamp \in Nat /\ heard' \in Nat /\ project'.stamp \in Nat
BY DEF Types, WorldTypes, ProjectTypes, CallerTypes, Services, Projects, ConstantsAreSound

(* A step that hears no explanation and shows none but the one that is shown *)
LEMMA QuietQueue ==
  ASSUME Types, Types', Honest, QueueKept, Onwards, UNCHANGED heard,
         project'.stamp \in {0, project.stamp},
         recovery'.pc = "answered" =>
           /\ UNCHANGED recovery /\ (fresh' => fresh)
           /\ Finished(project.status) => Finished(project'.status)
  PROVE  QueueKept'
<1>1. /\ service.stamp \in Nat /\ heard \in Nat /\ project.stamp \in Nat
      /\ service'.stamp \in Nat /\ project'.stamp \in Nat
      /\ recovery.pc = "answered" => recovery.stamp \in Nat
  BY Stamps, NextStamps
<1>2. heard' <= service'.stamp
  BY <1>1 DEF QueueKept, Onwards
<1>3. QueueNeverOlder'
  BY <1>1 DEF QueueKept, QueueNeverOlder
<1>4. AnswerIsNew'
  <2> SUFFICES ASSUME recovery'.pc = "answered"
               PROVE  /\ recovery'.stamp <= service'.stamp
                      /\ recovery'.cancel => recovery'.stamp = service'.stamp
                      /\ fresh' /\ ~Finished(project'.status) => recovery'.stamp >= heard'
    BY DEF AnswerIsNew
  <2>1. UNCHANGED recovery /\ recovery.pc = "answered"
    OBVIOUS
  <2>2. service.stamp <= service'.stamp
    BY DEF Onwards
  <2>3. recovery.stamp <= service.stamp
    BY <2>1 DEF QueueKept, AnswerIsNew
  <2>4. recovery.cancel => service'.stamp = service.stamp /\ recovery.stamp = service.stamp
    BY <2>1 DEF QueueKept, AnswerIsNew, Honest, RecoveryHonest, Onwards
  <2>5. fresh' /\ ~Finished(project'.status) => recovery.stamp >= heard
    BY <2>1 DEF QueueKept, AnswerIsNew
  <2>6. recovery.stamp <= service'.stamp
    BY <1>1, <2>1, <2>2, <2>3
  <2>7. QED BY <2>1, <2>4, <2>5, <2>6
<1>5. QED BY <1>2, <1>3, <1>4 DEF QueueKept

LEMMA QueueStep ==
  ASSUME Types, Types', Honest, QueueKept, [Next]_vars
  PROVE  QueueKept'
<1> USE DEF QueueKept
<1>1. Onwards
  BY StepWorld
<1>2. CASE Service \/ WaitLook \/ UNCHANGED vars
  BY <1>1, <1>2, ServiceStep, WaitLookFacts, Stutters, QuietQueue
<1>3. CASE HearAttempt \/ HearIgnored \/ UpdateJob
  <2>1. UNCHANGED recovery
    BY <1>3, ListenerOnly DEF Listener
  <2>2. UNCHANGED heard
    BY <1>3, HearIgnoredFacts, UpdateJobFacts DEF HearAttempt
  <2>3. fresh' => fresh
    BY <1>3, HearAttemptFacts, HearIgnoredFacts, UpdateJobFacts
  <2>4. project'.stamp \in {0, project.stamp} /\ project'.status = project.status
    BY <1>3, HearAttemptFacts, HearIgnoredFacts, UpdateJobFacts DEF Fades
  <2>5. QED BY <1>1, <2>1, <2>2, <2>3, <2>4, QuietQueue
<1>4. CASE UpdateParent \/ Signed \/ HearRetry \/ HearQueued \/ HearVerdict
  <2>1. UNCHANGED recovery
    BY <1>4, ListenerOnly DEF Listener
  <2>2. UNCHANGED heard /\ (fresh' => fresh)
    <3>1. CASE UpdateParent
      BY <3>1, UpdateParentFacts
    <3>2. CASE Signed
      BY <3>2, SignedFacts
    <3>3. CASE HearRetry \/ HearQueued \/ HearVerdict
      BY <3>3, HearRetryFacts, HearQueuedFacts, HearVerdictFacts
    <3>4. QED BY <1>4, <3>1, <3>2, <3>3
  <2>3. /\ project'.stamp \in {0, project.stamp}
        /\ Finished(project.status) => Finished(project'.status)
    BY <1>4, UpdateParentFacts, SignedFacts, HearRetryFacts, HearQueuedFacts, HearVerdictFacts
       DEF Fades, Continues
  <2>4. QED BY <1>1, <2>1, <2>2, <2>3, QuietQueue
<1>5. CASE HearQueue
  <2>1. /\ UNCHANGED <<service, recovery>> /\ project'.status = project.status
        /\ 1 \in DOMAIN inbox
        /\ \/ /\ inbox[1].kind = "queue" /\ heard' = inbox[1].stamp
              /\ project'.stamp \in {0, inbox[1].stamp}
              /\ fresh' => fresh /\ Finished(project.status)
           \/ heard' = heard /\ project'.stamp = 0 /\ fresh' = FALSE
    BY <1>5, ListenerOnly, HearQueueFacts DEF Listener
  <2>2. CASE heard' = heard /\ project'.stamp = 0 /\ fresh' = FALSE
    BY <1>1, <2>1, <2>2, QuietQueue
  <2>3. CASE /\ inbox[1].kind = "queue" /\ heard' = inbox[1].stamp
             /\ project'.stamp \in {0, inbox[1].stamp}
             /\ fresh' => fresh /\ Finished(project.status)
    <3>1. Truthful(inbox[1])
      BY <2>1 DEF Honest, InboxHonest
    <3>2. inbox[1].stamp <= service.stamp
      BY <2>3, <3>1 DEF Truthful
    <3>3. /\ heard' \in Nat /\ service.stamp \in Nat /\ project'.stamp \in Nat
          /\ recovery.pc = "answered" => recovery.stamp \in Nat
      BY Stamps, NextStamps
    <3>4. heard' <= service'.stamp /\ QueueNeverOlder'
      BY <2>1, <2>3, <3>2, <3>3 DEF QueueNeverOlder
    <3>5. AnswerIsNew'
      BY <2>1, <2>3, <3>3 DEF AnswerIsNew
    <3>6. QED BY <3>4, <3>5
  <2>4. QED BY <2>1, <2>2, <2>3
<1>6. CASE Look
  <2>1. /\ UNCHANGED <<service, heard>> /\ UNCHANGED project /\ recovery'.pc = "answered"
        /\ recovery'.stamp = service.stamp
    BY <1>6, LookFacts DEF RecoveredTypes
  <2>2. /\ heard \in Nat /\ service.stamp \in Nat
    BY Stamps
  <2>3. QED BY <2>1, <2>2 DEF AnswerIsNew, QueueNeverOlder
<1>7. CASE BeginReplay
  <2>1. /\ UNCHANGED <<service, heard>> /\ recovery.pc = "answered" /\ recovery'.pc = "jobs"
        /\ project'.status = project.status
        /\ \/ project' = project
           \/ /\ fresh \/ recovery.cancel
              /\ project'.stamp \in {0, recovery.stamp}
              /\ Finished(project.status) => project'.stamp = 0
    BY <1>7, BeginReplayFacts DEF RecoveredTypes
  <2>2. /\ heard \in Nat /\ service.stamp \in Nat /\ recovery.stamp \in Nat
    BY <2>1, Stamps
  <2>3. project'.stamp # 0 => project'.stamp >= heard
    <3>1. CASE project' = project
      BY <3>1 DEF QueueNeverOlder
    <3>2. CASE /\ fresh \/ recovery.cancel
               /\ project'.stamp \in {0, recovery.stamp} /\ ~Finished(project.status)
      <4>1. recovery.stamp >= heard
        BY <2>1, <2>2, <3>2 DEF AnswerIsNew
      <4>2. QED BY <2>1, <2>2, <3>2, <4>1
    <3>3. QED BY <2>1, <3>1, <3>2
  <2>4. QED BY <2>1, <2>3 DEF AnswerIsNew, QueueNeverOlder
<1>8. CASE Ask \/ Leave \/ StopReplay \/ \E found \in FoundJobs : SkipJob(found)
  <2>1. UNCHANGED heard /\ recovery'.pc # "answered" /\ UNCHANGED project
    BY <1>8, AskFacts, LeaveFacts, SkipJobFacts DEF RecoveredTypes
  <2>2. QED BY <1>1, <2>1, QuietQueue
<1>9. CASE \/ \E found \in FoundJobs : ReplayClaim(found)
           \/ ReplayUpdate \/ Settle \/ ReplayStatus \/ CancelJobs
  <2>1. UNCHANGED heard /\ recovery'.pc # "answered" /\ project'.stamp \in {0, project.stamp}
    BY <1>9, ReplayClaimFacts, ReplayUpdateFacts, SettleFacts, ReplayStatusFacts, CancelJobsFacts
       DEF RecoveredTypes, Fades, Continues
  <2>2. QED BY <1>1, <2>1, QuietQueue
<1>10. QED BY <1>2, <1>3, <1>4, <1>5, <1>6, <1>7, <1>8, <1>9
           DEF Next, Listener, Recovery, FoundJobs

(* No explanation older than the newest live one is shown, however late the    *)
(* snapshot of a recovery arrives (apply_queue_snapshot).                      *)
THEOREM QueueHolds ==
  ASSUME ConstantsAreSound
  PROVE  Spec => []QueueNeverOlder
<1>1. Spec => []Types
  BY AlwaysTypes
<1>2. Spec => []Honest
  BY AlwaysHonest
<1>3. Init => QueueKept
  <2>1. ASSUME Init, ConstantsAreSound
        PROVE  QueueKept
    <3>1. Types
      BY <2>1, InitTypes
    <3>2. service.stamp \in Nat
      BY <3>1, Stamps
    <3>3. QED BY <2>1, <3>2 DEF Init, QueueKept, AnswerIsNew, QueueNeverOlder, Idle
  <2>2. QED BY <2>1
<1>4. Types /\ Types' /\ Honest /\ QueueKept /\ [Next]_vars => QueueKept'
  BY QueueStep
<1>5. QueueKept => QueueNeverOlder
  BY DEF QueueKept
<1>6. QED BY <1>1, <1>2, <1>3, <1>4, <1>5, PTL DEF Spec

--------------------------------------------------------------------------------
(***************************************************************************)
(* The end of a project.                                                   *)
(***************************************************************************)
(* What makes a failed project true *)
Excused ==
  \/ service.verdict = "failed"
  \/ \A r \in Requested : service.work[r].state = "failed"

(* Each job that completed or failed is charged to a render that did, and no   *)
(* render to two jobs: its last attempt has the job, or has lost it to another *)
(* attempt.                                                                    *)
JobsCharged(c) ==
  /\ \A r \in Renders : c[r] # 0 =>
       /\ c[r] \in DOMAIN jobs /\ Outcome(r) \in Ending
       /\ Attempt(r) = jobs[c[r]].id \/ Attempt(r) \in retired
  /\ \A n \in DOMAIN jobs : jobs[n].status \in Ending =>
       \E r \in Renders : c[r] = n /\ Outcome(r) = jobs[n].status

ListenerCharged(c) ==
  listener.pc = "job" =>
    (listener.event.kind \in {"error", "result"} => c[listener.event.id.render] = listener.slot)

RecoveryCharged(c) ==
  recovery.pc = "update" =>
    (Finished(recovery.job.status) => c[recovery.job.id.render] = recovery.job.slot)

(* Each render of the project has a job of its own, which ended as it did *)
Whole(c) ==
  \A r \in Requested : /\ c[r] # 0 /\ jobs[c[r]].status = Outcome(r)
                       /\ \A q \in Requested : c[q] = c[r] => q = r

Charges == [Renders -> Nat]
Charged(c) == JobsCharged(c) /\ ListenerCharged(c) /\ RecoveryCharged(c)
Blamed == Excused \/ \E c \in Charges : Charged(c) /\ (waiter = "ok" => Whole(c))

LEMMA RequestedStays ==
  ASSUME Types, Onwards
  PROVE  Requested' = Requested
BY DEF Onwards, Requested

LEMMA ExcusedStays ==
  ASSUME Types, Onwards, Excused
  PROVE  Excused'
<1>1. CASE service.verdict = "failed"
  BY <1>1 DEF Onwards, Excused
<1>2. CASE \A r \in Requested : service.work[r].state = "failed"
  <2>1. \A r \in Requested : service'.work[r].state = "failed"
    BY <1>2 DEF Requested, Onwards
  <2>2. QED BY <2>1, RequestedStays DEF Excused
<1>3. QED BY <1>1, <1>2 DEF Excused

LEMMA NoZero ==
  ASSUME Types
  PROVE  0 \notin DOMAIN jobs /\ DOMAIN jobs \subseteq Nat
BY JobsTyped

LEMMA EndingIsFinished ==
  /\ \A status \in Ending : Finished(status)
  /\ \A status : Finished(status) => status \in Ending \/ status = "Canceled"
BY DEF Ending, Finished, Terminal

(* The charges hold as long as only charged jobs end *)
LEMMA JobsStayCharged ==
  ASSUME Types, Onwards, JobsMove, NEW c \in Charges, JobsCharged(c),
         \A n \in DOMAIN jobs : Ends(n) /\ jobs'[n].status \in Ending =>
           \E r \in Renders : c[r] = n /\ Outcome(r) = jobs'[n].status
  PROVE  JobsCharged(c)'
<1>1. ASSUME NEW r \in Renders, c[r] # 0
      PROVE  /\ c[r] \in DOMAIN jobs /\ Outcome(r)' \in Ending
             /\ Attempt(r) = jobs[c[r]].id \/ Attempt(r) \in retired
             /\ Attempt(r)' = Attempt(r)
  BY <1>1, OutcomeStays DEF JobsCharged
<1>2. ASSUME NEW n \in DOMAIN jobs, jobs'[n].status \in Ending
      PROVE  \E r \in Renders : c[r] = n /\ Outcome(r)' = jobs'[n].status
  <2>1. PICK r \in Renders : c[r] = n /\ Outcome(r) = jobs'[n].status
    <3>1. CASE Ends(n)
      BY <1>2, <3>1
    <3>2. CASE ~Ends(n)
      BY <1>2, <3>2, EndingIsFinished DEF Ends, JobsCharged
    <3>3. QED BY <3>1, <3>2
  <2>2. Outcome(r)' = Outcome(r)
    BY <1>2, <2>1, OutcomeStays
  <2>3. QED BY <2>1, <2>2
<1>3. CASE Renewal
  <2>1. /\ DOMAIN jobs' = DOMAIN jobs /\ retired' = retired
        /\ \A n \in DOMAIN jobs : jobs'[n].id = jobs[n].id
    BY <1>3 DEF Renewal, Renewed
  <2>2. ASSUME NEW r \in Renders, c[r] # 0
        PROVE  /\ c[r] \in DOMAIN jobs' /\ Outcome(r)' \in Ending
               /\ Attempt(r)' = jobs'[c[r]].id \/ Attempt(r)' \in retired'
    BY <1>1, <2>1, <2>2
  <2>3. QED BY <1>2, <2>1, <2>2 DEF JobsCharged
<1>4. ASSUME NEW id, NEW slot, TakesOver(id, slot)
      PROVE  JobsCharged(c)'
  <2>1. /\ DOMAIN jobs' = DOMAIN jobs /\ slot \in DOMAIN jobs
        /\ \A n \in DOMAIN jobs : n # slot => jobs'[n] = jobs[n]
        /\ retired' = retired \cup {jobs[slot].id}
    BY <1>4 DEF TakesOver
  <2>2. ASSUME NEW r \in Renders, c[r] # 0
        PROVE  /\ c[r] \in DOMAIN jobs' /\ Outcome(r)' \in Ending
               /\ Attempt(r)' = jobs'[c[r]].id \/ Attempt(r)' \in retired'
    <3>1. CASE c[r] = slot
      BY <1>1, <2>1, <2>2, <3>1
    <3>2. CASE c[r] # slot
      BY <1>1, <2>1, <2>2, <3>2
    <3>3. QED BY <3>1, <3>2
  <2>3. QED BY <1>2, <2>1, <2>2 DEF JobsCharged
<1>5. ASSUME NEW id, NEW slot, IsAdded(id, slot)
      PROVE  JobsCharged(c)'
  <2>1. /\ DOMAIN jobs' = DOMAIN jobs \cup {slot}
        /\ \A n \in DOMAIN jobs : jobs'[n] = jobs[n]
        /\ jobs'[slot].status = "Pending" /\ retired' = retired
    BY <1>5 DEF IsAdded
  <2>2. ASSUME NEW r \in Renders, c[r] # 0
        PROVE  /\ c[r] \in DOMAIN jobs' /\ Outcome(r)' \in Ending
               /\ Attempt(r)' = jobs'[c[r]].id \/ Attempt(r)' \in retired'
    BY <1>1, <2>1, <2>2
  <2>3. ASSUME NEW n \in DOMAIN jobs', jobs'[n].status \in Ending
        PROVE  \E r \in Renders : c[r] = n /\ Outcome(r)' = jobs'[n].status
    <3>1. n \in DOMAIN jobs
      BY <2>1, <2>3 DEF Ending
    <3>2. QED BY <1>2, <2>3, <3>1
  <2>4. QED BY <2>2, <2>3 DEF JobsCharged
<1>6. QED BY <1>3, <1>4, <1>5 DEF JobsMove

(* Jobs that are whole stay so as long as no finished one ends otherwise *)
LEMMA WholeStays ==
  ASSUME Types, Onwards, JobsMove, NEW c \in Charges, JobsCharged(c), Whole(c),
         \A n \in DOMAIN jobs : Ends(n) => ~Finished(jobs[n].status)
  PROVE  Whole(c)'
<1>1. Requested' = Requested /\ Requested \subseteq Renders
  BY RequestedStays DEF Requested
<1>2. \A n \in DOMAIN jobs : Finished(jobs[n].status) => jobs'[n].status = jobs[n].status
  <2>1. CASE Renewal
    BY <2>1 DEF Ends
  <2>2. ASSUME NEW id, NEW slot, TakesOver(id, slot) \/ IsAdded(id, slot)
        PROVE  \A n \in DOMAIN jobs : Finished(jobs[n].status) => jobs'[n].status = jobs[n].status
    BY <2>2 DEF TakesOver, IsAdded
  <2>3. QED BY <2>1, <2>2 DEF JobsMove
<1>3. ASSUME NEW r \in Requested
      PROVE  /\ c[r] # 0 /\ jobs'[c[r]].status = Outcome(r)'
             /\ \A q \in Requested : c[q] = c[r] => q = r
  <2>1. /\ c[r] # 0 /\ jobs[c[r]].status = Outcome(r)
        /\ \A q \in Requested : c[q] = c[r] => q = r
    BY <1>3 DEF Whole
  <2>2. c[r] \in DOMAIN jobs /\ Outcome(r) \in Ending
    BY <1>1, <2>1 DEF JobsCharged
  <2>3. jobs'[c[r]].status = Outcome(r)
    BY <1>2, <2>1, <2>2, EndingIsFinished
  <2>4. Outcome(r)' = Outcome(r)
    BY <1>1, <2>2, OutcomeStays
  <2>5. QED BY <2>1, <2>3, <2>4
<1>4. QED BY <1>1, <1>3 DEF Whole

LEMMA ClaimedEndsNone ==
  ASSUME Types, NEW id, NEW slot, Claimed(id, slot)
  PROVE  \A n \in DOMAIN jobs : ~Ends(n)
<1>1. ~Finished("Pending")
  BY DEF Finished, Terminal
<1>2. CASE IsHeld(id, slot)
  BY <1>2 DEF IsHeld, Ends
<1>3. CASE TakesOver(id, slot)
  BY <1>1, <1>3 DEF TakesOver, Ends
<1>4. CASE IsAdded(id, slot)
  BY <1>4 DEF IsAdded, Ends
<1>5. QED BY <1>2, <1>3, <1>4 DEF Claimed

(* The job found for the attempt that ended a render is charged to it *)
LEMMA JobIsCharged ==
  ASSUME Types, OneHandle, UNCHANGED service, NEW c \in Charges, JobsCharged(c),
         NEW id \in Ids, NEW status \in Ending, NEW slot, Gave(id, status), Claimed(id, slot)
  PROVE  \E d \in Charges :
           /\ JobsCharged(d)' /\ d[id.render] = slot
           /\ \A q \in Renders : c[q] # 0 => d[q] = c[q]
           /\ Whole(c) => Whole(d)'
<1> DEFINE r == id.render
           d == [c EXCEPT ![r] = slot]
<1>1. r \in Renders /\ Outcome(r) \in Ending /\ Attempt(r) = id
  BY DEF Ids, Gave
<1>2. slot \in DOMAIN jobs' /\ slot \in Nat /\ jobs'[slot].id = id /\ id \notin retired
  BY ClaimedFacts
<1>3. c[r] \in {0, slot}
  <2> SUFFICES ASSUME c[r] # 0
               PROVE  c[r] = slot
    OBVIOUS
  <2>1. c[r] \in DOMAIN jobs /\ jobs[c[r]].id = id
    BY <1>1, <1>2 DEF JobsCharged
  <2>2. id \in JobIds
    BY <2>1 DEF JobIds
  <2>3. IsHeld(id, slot)
    BY <2>2 DEF Claimed, TakesOver, IsAdded
  <2>4. slot \in DOMAIN jobs /\ jobs[slot].id = id
    BY <2>3 DEF IsHeld
  <2>5. QED BY <2>1, <2>4 DEF OneHandle
<1>4. Onwards /\ JobsMove /\ \A n \in DOMAIN jobs : ~Ends(n)
  BY NothingMoves, ClaimedMoves, ClaimedEndsNone
<1>5. JobsCharged(c)'
  BY <1>4, JobsStayCharged
<1>6. d \in Charges /\ d[r] = slot /\ \A q \in Renders : q # r => d[q] = c[q]
  BY <1>1, <1>2 DEF Charges
<1> HIDE DEF d
<1>7. \A q \in Renders : c[q] # 0 => d[q] = c[q]
  BY <1>3, <1>6
<1>8. Attempt(r)' = id /\ Outcome(r)' \in Ending
  BY <1>1 DEF Attempt, Outcome
<1>9. ASSUME NEW q \in Renders, d[q] # 0
      PROVE  /\ d[q] \in DOMAIN jobs' /\ Outcome(q)' \in Ending
             /\ Attempt(q)' = jobs'[d[q]].id \/ Attempt(q)' \in retired'
  <2>1. CASE q = r
    BY <1>2, <1>6, <1>8, <2>1
  <2>2. CASE q # r
    BY <1>5, <1>6, <1>9, <2>2 DEF JobsCharged
  <2>3. QED BY <2>1, <2>2
<1>10. ASSUME NEW n \in DOMAIN jobs', jobs'[n].status \in Ending
       PROVE  \E q \in Renders : d[q] = n /\ Outcome(q)' = jobs'[n].status
  <2>1. PICK q \in Renders : c[q] = n /\ Outcome(q)' = jobs'[n].status
    BY <1>5, <1>10 DEF JobsCharged
  <2>2. CASE n # 0
    BY <1>7, <2>1, <2>2
  <2>3. CASE n = 0
    <3>1. 0 \notin DOMAIN jobs'
      BY ClaimedFacts
    <3>2. QED BY <1>10, <2>3, <3>1
  <2>4. QED BY <2>2, <2>3
<1>11. JobsCharged(d)'
  BY <1>9, <1>10 DEF JobsCharged
<1>12. ASSUME Whole(c)
       PROVE  Whole(d)'
  <2>1. Whole(c)'
    BY <1>4, <1>12, WholeStays
  <2>2. Requested' = Requested /\ Requested \subseteq Renders
    BY <1>4, RequestedStays DEF Requested
  <2>3. \A q \in Requested : d[q] = c[q]
    BY <1>7, <1>12, <2>2 DEF Whole
  <2>4. QED BY <2>1, <2>2, <2>3 DEF Whole
<1>13. QED BY <1>6, <1>7, <1>11, <1>12

LEMMA SlotsNotZero ==
  ASSUME Types
  PROVE  /\ listener.pc = "job" => listener.slot # 0
         /\ recovery.pc = "update" => recovery.job.slot # 0
BY ThreadsFacts, NoZero

(* What makes a project failed, or each failed job, is known to the service *)
ProjectIsTrue == project.status = "Failed" => Excused

LEMMA BlameOfListener ==
  ASSUME Types, Honest, OneHandle, NEW c \in Charges, Charged(c), Listener
  PROVE  \E d \in Charges : Charged(d)' /\ (Whole(c) => Whole(d)')
<1>1. UNCHANGED <<service, recovery>>
  BY ListenerOnly
<1>2. Onwards
  BY <1>1, NothingMoves
<1>3. CASE HearAttempt
  <2>1. PICK slot : /\ Claimed(Heard.id, slot)
                    /\ listener' = [pc |-> "job", event |-> Heard, slot |-> slot]
    BY <1>3, HearAttemptFacts
  <2>2. PICK e \in FrameEvents : e = Heard
    BY <1>3, HearAttemptFacts
  <2>3. e.id \in Ids /\ e.kind \in FrameKinds /\ Claimed(e.id, slot) /\ Truthful(e)
        /\ listener'.event = e /\ listener'.slot = slot
    <3>1. Truthful(inbox[1]) /\ Heard = inbox[1]
      BY <1>3, HearAttemptFacts DEF Honest, InboxHonest
    <3>2. e.id \in Ids /\ e.kind \in FrameKinds
      BY DEF FrameEvents
    <3>3. QED BY <2>1, <2>2, <3>1, <3>2
  <2>4. CASE e.kind \in {"error", "result"}
    <3>1. Gave(e.id, e.phase) /\ e.phase \in Ending
      BY <2>3, <2>4 DEF Truthful, Ending
    <3>2. PICK id \in Ids, status \in Ending : id = e.id /\ status = e.phase
      BY <2>3, <3>1
    <3>3. PICK d \in Charges : /\ JobsCharged(d)' /\ d[id.render] = slot
                               /\ \A q \in Renders : c[q] # 0 => d[q] = c[q]
                               /\ Whole(c) => Whole(d)'
      BY <1>1, <2>3, <3>1, <3>2, JobIsCharged DEF Charged
    <3>4. ListenerCharged(d)'
      BY <2>3, <3>2, <3>3 DEF ListenerCharged
    <3>5. RecoveryCharged(d)'
      <4> SUFFICES ASSUME recovery.pc = "update", Finished(recovery.job.status)
                   PROVE  d[recovery.job.id.render] = recovery.job.slot
        BY <1>1 DEF RecoveryCharged
      <4>1. c[recovery.job.id.render] = recovery.job.slot /\ recovery.job.slot # 0
        BY SlotsNotZero DEF Charged, RecoveryCharged
      <4>2. recovery.job.id.render \in Renders
        BY ThreadsFacts DEF Placements, Ids
      <4>3. QED BY <3>3, <4>1, <4>2
    <3>6. QED BY <3>3, <3>4, <3>5 DEF Charged
  <2>5. CASE e.kind \notin {"error", "result"}
    <3>1. JobsMove /\ \A n \in DOMAIN jobs : ~Ends(n)
      BY <2>3, ClaimedMoves, ClaimedEndsNone
    <3>2. JobsCharged(c)' /\ (Whole(c) => Whole(c)')
      BY <1>2, <3>1, JobsStayCharged, WholeStays DEF Charged
    <3>3. ListenerCharged(c)'
      BY <2>3, <2>5 DEF ListenerCharged
    <3>4. RecoveryCharged(c)'
      BY <1>1 DEF Charged, RecoveryCharged
    <3>5. QED BY <3>2, <3>3, <3>4 DEF Charged
  <2>6. QED BY <2>4, <2>5
<1>4. CASE UpdateJob
  <2>1. /\ Renewal /\ listener.pc = "job" /\ listener'.pc \in {"project", "idle"}
        /\ \A n \in DOMAIN jobs : Ends(n) =>
             /\ n = listener.slot /\ jobs'[n].status = listener.event.phase
             /\ \/ Finished(listener.event.phase)
                \/ listener.event.kind \in {"result", "error", "retry"}
    BY <1>4, UpdateJobFacts
  <2>2. PICK e \in FrameEvents : e = listener.event
    BY <2>1, ThreadsFacts
  <2>3. Truthful(e) /\ e.kind # "retry" /\ e.id \in Ids /\ e.kind \in FrameKinds
    BY <2>1, <2>2 DEF Honest, ListenerHonest, FrameEvents
  <2>4. Finished(e.phase) \/ e.kind \in {"result", "error", "retry"} =>
          e.kind \in {"error", "result"}
    BY <2>3, EndingIsFinished DEF Truthful, Ending
  <2>5. ASSUME e.kind \in {"error", "result"}
        PROVE  /\ e.id.render \in Renders /\ c[e.id.render] = listener.slot
               /\ Outcome(e.id.render) = e.phase /\ e.phase \in Ending
    BY <2>1, <2>2, <2>3, <2>5 DEF Charged, ListenerCharged, Ids, Truthful, Gave, Ending
  <2>6. ASSUME NEW n \in DOMAIN jobs, Ends(n)
        PROVE  /\ n = listener.slot /\ jobs'[n].status = e.phase
               /\ e.kind \in {"error", "result"}
    BY <2>1, <2>2, <2>4, <2>6
  <2>7. JobsCharged(c)'
    BY <1>2, <2>1, <2>5, <2>6, JobsStayCharged DEF Charged, JobsMove
  <2>8. ASSUME Whole(c)
        PROVE  Whole(c)'
    <3>1. ASSUME NEW n \in DOMAIN jobs
          PROVE  ~Ends(n)
      <4> SUFFICES ASSUME Ends(n)
                   PROVE  FALSE
        OBVIOUS
      <4>1. e.id.render \in Requested
        BY <2>5, <2>6 DEF Requested, Outcome, Says, Ending
      <4>2. jobs[n].status = jobs'[n].status
        BY <2>5, <2>6, <2>8, <4>1 DEF Whole
      <4>3. QED BY <4>2 DEF Ends
    <3>2. QED BY <1>2, <2>1, <2>8, <3>1, WholeStays DEF Charged, JobsMove
  <2>9. ListenerCharged(c)' /\ RecoveryCharged(c)'
    BY <1>1, <2>1 DEF Charged, ListenerCharged, RecoveryCharged
  <2>10. QED BY <2>7, <2>8, <2>9 DEF Charged
<1>5. CASE HearIgnored \/ UpdateParent \/ Signed \/ HearRetry \/ HearQueued \/ HearVerdict
           \/ HearQueue
  <2>1. JobsMove
    BY <1>5, HearIgnoredFacts, UpdateParentFacts, SignedFacts, HearRetryFacts, HearQueuedFacts,
       HearVerdictFacts, HearQueueFacts, JobsStay DEF JobsMove
  <2>2. \A n \in DOMAIN jobs : ~Ends(n)
    <3>1. CASE HearRetry \/ HearQueued
      BY <3>1, HearRetryFacts, HearQueuedFacts
    <3>2. CASE HearIgnored \/ UpdateParent \/ Signed \/ HearVerdict \/ HearQueue
      <4>1. UNCHANGED jobs
        BY <3>2, HearIgnoredFacts, UpdateParentFacts, SignedFacts, HearVerdictFacts, HearQueueFacts
      <4>2. QED BY <4>1 DEF Ends
    <3>3. QED BY <1>5, <3>1, <3>2
  <2>3. JobsCharged(c)' /\ (Whole(c) => Whole(c)')
    BY <1>2, <2>1, <2>2, JobsStayCharged, WholeStays DEF Charged
  <2>4. UNCHANGED listener \/ listener'.pc = "idle"
    BY <1>5, HearIgnoredFacts, UpdateParentFacts, SignedFacts, HearRetryFacts, HearQueuedFacts,
       HearVerdictFacts, HearQueueFacts
  <2>5. ListenerCharged(c)' /\ RecoveryCharged(c)'
    BY <1>1, <2>4 DEF Charged, ListenerCharged, RecoveryCharged
  <2>6. QED BY <2>3, <2>5 DEF Charged
<1>6. QED BY <1>3, <1>4, <1>5 DEF Listener

LEMMA BlameOfRecovery ==
  ASSUME Types, Honest, OneHandle, ProjectIsTrue, NEW c \in Charges, Charged(c), Recovery
  PROVE  Excused' \/ \E d \in Charges : Charged(d)' /\ (Whole(c) => Whole(d)')
<1>1. UNCHANGED <<service, listener>>
  BY RecoveryStep DEF RecoveredTypes
<1>2. Onwards /\ ListenerCharged(c)'
  BY <1>1, NothingMoves DEF Charged, ListenerCharged
<1>3. CASE Ask \/ Look \/ BeginReplay \/ Leave \/ StopReplay \/ ReplayStatus
           \/ \E found \in FoundJobs : SkipJob(found)
  <2>1. UNCHANGED <<jobs, retired, awaiting>> /\ recovery'.pc # "update"
    BY <1>3, AskFacts, LookFacts, BeginReplayFacts, LeaveFacts, ReplayStatusFacts, SkipJobFacts
  <2>2. JobsMove /\ \A n \in DOMAIN jobs : ~Ends(n)
    BY <2>1, JobsStay DEF Ends
  <2>3. JobsCharged(c)' /\ (Whole(c) => Whole(c)')
    BY <1>2, <2>2, JobsStayCharged, WholeStays DEF Charged
  <2>4. RecoveryCharged(c)'
    BY <2>1 DEF RecoveryCharged
  <2>5. QED BY <1>2, <2>3, <2>4 DEF Charged
<1>4. ASSUME NEW found \in FoundJobs, ReplayClaim(found)
      PROVE  \E d \in Charges : Charged(d)' /\ (Whole(c) => Whole(d)')
  <2>1. /\ recovery.pc = "jobs" /\ recovery'.pc = "update" /\ found \in recovery.todo
        /\ recovery'.job.id = found.id /\ Claimed(found.id, recovery'.job.slot)
        /\ Finished(recovery'.job.status) =>
             found.state # "running" /\ recovery'.job.status = Says(found.state)
    BY <1>4, ReplayClaimFacts
  <2>2. PICK job : job = recovery'.job
    OBVIOUS
  <2>3. PICK id \in Ids : id = found.id
    BY DEF FoundJobs
  <2> DEFINE slot == job.slot
  <2>4. id = found.id /\ slot = recovery'.job.slot /\ Claimed(id, slot)
    BY <2>1, <2>2, <2>3
  <2> HIDE DEF slot
  <2>5. CASE Finished(recovery'.job.status)
    <3>1. Gave(id, Says(found.state))
      BY <2>1, <2>5, <2>4 DEF Honest, RecoveryHonest, AnswerHonest, Applying, Rest
    <3>2. Says(found.state) \in Ending
      BY <2>1, <2>5 DEF FoundJobs, Says, Ending
    <3>3. PICK d \in Charges : /\ JobsCharged(d)' /\ d[id.render] = slot
                               /\ \A q \in Renders : c[q] # 0 => d[q] = c[q]
                               /\ Whole(c) => Whole(d)'
      BY <1>1, <2>4, <3>1, <3>2, JobIsCharged DEF Charged
    <3>4. RecoveryCharged(d)'
      BY <2>1, <2>4, <3>3 DEF RecoveryCharged
    <3>5. ListenerCharged(d)'
      <4> SUFFICES ASSUME listener.pc = "job", listener.event.kind \in {"error", "result"}
                   PROVE  d[listener.event.id.render] = listener.slot
        BY <1>1 DEF ListenerCharged
      <4>1. c[listener.event.id.render] = listener.slot /\ listener.slot # 0
        BY SlotsNotZero DEF Charged, ListenerCharged
      <4>2. listener.event.id.render \in Renders
        BY ThreadsFacts DEF FrameEvents, Ids
      <4>3. QED BY <3>3, <4>1, <4>2
    <3>6. QED BY <3>3, <3>4, <3>5 DEF Charged
  <2>6. CASE ~Finished(recovery'.job.status)
    <3>1. JobsMove /\ \A n \in DOMAIN jobs : ~Ends(n)
      BY <2>4, ClaimedMoves, ClaimedEndsNone
    <3>2. JobsCharged(c)' /\ (Whole(c) => Whole(c)')
      BY <1>2, <3>1, JobsStayCharged, WholeStays DEF Charged
    <3>3. RecoveryCharged(c)'
      BY <2>6 DEF RecoveryCharged, Finished
    <3>4. QED BY <1>2, <3>2, <3>3 DEF Charged
  <2>7. QED BY <2>5, <2>6
<1>5. CASE ReplayUpdate
  <2>1. /\ Renewal /\ recovery.pc = "update" /\ recovery'.pc = "jobs"
        /\ \A n \in DOMAIN jobs : Ends(n) =>
             /\ n = recovery.job.slot /\ ~Finished(jobs[n].status)
             /\ Finished(recovery.job.status) /\ jobs'[n].status = recovery.job.status
    BY <1>5, ReplayUpdateFacts
  <2>2. recovery.job.id.render \in Renders
    BY <2>1, ThreadsFacts DEF Placements, Ids
  <2>3. Finished(recovery.job.status) =>
          /\ c[recovery.job.id.render] = recovery.job.slot
          /\ Outcome(recovery.job.id.render) = recovery.job.status
    BY <2>1 DEF Charged, RecoveryCharged, Honest, RecoveryHonest, Gave
  <2>4. ASSUME NEW n \in DOMAIN jobs, Ends(n)
        PROVE  \E r \in Renders : c[r] = n /\ Outcome(r) = jobs'[n].status
    <3>1. /\ n = recovery.job.slot /\ Finished(recovery.job.status)
          /\ jobs'[n].status = recovery.job.status
      BY <2>1, <2>4
    <3>2. QED BY <2>2, <2>3, <3>1
  <2>5. JobsCharged(c)'
    BY <1>2, <2>1, <2>4, JobsStayCharged DEF Charged, JobsMove
  <2>6. Whole(c) => Whole(c)'
    BY <1>2, <2>1, WholeStays DEF Charged, JobsMove
  <2>7. RecoveryCharged(c)'
    BY <2>1 DEF RecoveryCharged
  <2>8. QED BY <1>2, <2>5, <2>6, <2>7 DEF Charged
<1>6. CASE Settle \/ CancelJobs
  <2>1. Renewal /\ recovery'.pc # "update"
    BY <1>6, SettleFacts, CancelJobsFacts
  <2>2. \A n \in DOMAIN jobs : Ends(n) =>
          ~Finished(jobs[n].status) /\ (jobs'[n].status \in Ending => Excused)
    <3>1. CASE Settle
      <4>1. /\ recovery.pc = "jobs"
            /\ \A n \in DOMAIN jobs : Ends(n) =>
                 /\ ~Finished(jobs[n].status) /\ jobs'[n].status = recovery.status
                 /\ recovery.status \in {"Failed", "Canceled"}
        BY <3>1, SettleFacts
      <4>2. recovery.status = "Failed" => Excused
        BY <4>1 DEF Honest, RecoveryHonest, AnswerHonest, Applying, Excused
      <4>3. QED BY <4>1, <4>2 DEF Ending
    <3>2. CASE CancelJobs
      <4>1. \A n \in DOMAIN jobs : Ends(n) =>
              /\ ~Finished(jobs[n].status) /\ jobs'[n].status = project.status
              /\ project.status \in {"Failed", "Canceled"}
        BY <3>2, CancelJobsFacts
      <4>2. QED BY <4>1 DEF ProjectIsTrue, Ending
    <3>3. QED BY <1>6, <3>1, <3>2
  <2>3. CASE Excused
    BY <1>2, <2>3, ExcusedStays
  <2>4. CASE ~Excused
    <3>1. JobsCharged(c)' /\ (Whole(c) => Whole(c)')
      BY <1>2, <2>1, <2>2, <2>4, JobsStayCharged, WholeStays DEF Charged, JobsMove
    <3>2. RecoveryCharged(c)'
      BY <2>1 DEF RecoveryCharged
    <3>3. QED BY <1>2, <3>1, <3>2 DEF Charged
  <2>5. QED BY <2>3, <2>4
<1>7. QED BY <1>3, <1>4, <1>5, <1>6 DEF Recovery, FoundJobs

(* When there are as many jobs as renders of the project, and each has ended as *)
(* the render it is charged to did, each render has one: the charge is one to   *)
(* one, as a map of a finite set onto as large a set is.                        *)
LEMMA EachHasOne ==
  ASSUME Types, NEW c \in Charges, JobsCharged(c), Len(jobs) >= Expected,
         \A n \in DOMAIN jobs : jobs[n].status \in Ending
  PROVE  Whole(c)
<1> DEFINE Charging == {r \in Requested : c[r] # 0}
           slot == [r \in Charging |-> c[r]]
<1>1. DOMAIN jobs = 1 .. Len(jobs) /\ Len(jobs) \in Nat
  BY JobsTyped
<1>2. IsFiniteSet(Requested) /\ Requested \subseteq Renders
  <2>1. IsFiniteSet(Renders) /\ Requested \in SUBSET Renders
    BY DEF Types, ConstantsAreSound, Requested
  <2>2. QED BY <2>1, FS_Subset
<1>3. /\ Charging \in SUBSET Requested
      /\ \A r \in Charging : c[r] \in DOMAIN jobs
  BY <1>2 DEF JobsCharged
<1>4. \A r \in Renders : c[r] # 0 => r \in Charging
  BY DEF JobsCharged, Requested, Outcome, Says, Ending
<1>5. slot \in Surjection(Charging, 1 .. Len(jobs))
  <2>1. slot \in [Charging -> 1 .. Len(jobs)]
    BY <1>1, <1>3
  <2>2. ASSUME NEW n \in 1 .. Len(jobs)
        PROVE  \E r \in Charging : slot[r] = n
    <3>1. PICK r \in Renders : c[r] = n
      BY <1>1 DEF JobsCharged
    <3>2. n # 0
      BY <1>1
    <3>3. QED BY <1>4, <3>1, <3>2
  <2>3. QED BY <2>1, <2>2 DEF Surjection
<1>6. IsFiniteSet(Charging) /\ Cardinality(Charging) <= Cardinality(Requested)
      /\ (Cardinality(Requested) = Cardinality(Charging) => Requested = Charging)
  BY <1>2, <1>3, FS_Subset
<1>7. /\ Cardinality(1 .. Len(jobs)) <= Cardinality(Charging)
      /\ Cardinality(1 .. Len(jobs)) = Cardinality(Charging)
           => slot \in Injection(Charging, 1 .. Len(jobs))
  BY <1>5, <1>6, FS_Surjection
<1>8. Cardinality(1 .. Len(jobs)) = Len(jobs)
  <2>1. 1 \in Int /\ Len(jobs) \in Int
    BY <1>1
  <2>2. Cardinality(1 .. Len(jobs)) = IF 1 > Len(jobs) THEN 0 ELSE Len(jobs) - 1 + 1
    BY <2>1, FS_Interval
  <2>3. QED BY <1>1, <2>2
<1>9. Cardinality(Charging) \in Nat /\ Cardinality(Requested) \in Nat
  BY <1>2, <1>6, FS_CardinalityType
<1>10. /\ Cardinality(Requested) = Cardinality(Charging)
       /\ Cardinality(1 .. Len(jobs)) = Cardinality(Charging)
  BY <1>1, <1>6, <1>7, <1>8, <1>9 DEF Expected
<1>11. Requested = Charging /\ slot \in Injection(Charging, 1 .. Len(jobs))
  BY <1>6, <1>7, <1>10
<1>12. \A r, q \in Charging : slot[r] = slot[q] => r = q
  BY <1>11 DEF Injection, IsInjective
<1>13. ASSUME NEW r \in Requested
       PROVE  /\ c[r] # 0 /\ jobs[c[r]].status = Outcome(r)
              /\ \A q \in Requested : c[q] = c[r] => q = r
  <2>1. r \in Charging /\ c[r] # 0 /\ c[r] \in DOMAIN jobs
    BY <1>3, <1>11, <1>13
  <2>2. \A q \in Requested : c[q] = c[r] => q = r
    BY <1>11, <1>12, <2>1
  <2>3. PICK q \in Renders : c[q] = c[r] /\ Outcome(q) = jobs[c[r]].status
    BY <2>1 DEF JobsCharged
  <2>4. q \in Requested
    BY <1>4, <1>11, <2>1, <2>3
  <2>5. QED BY <2>1, <2>2, <2>3, <2>4
<1>14. QED BY <1>13 DEF Whole

(* When the client finds every job failed, every render of the project failed *)
LEMMA AllFailed ==
  ASSUME Types, NEW c \in Charges, JobsCharged(c), Len(jobs) >= Expected,
         \A n \in DOMAIN jobs : jobs[n].status = "Failed"
  PROVE  Excused
<1>1. Whole(c)
  BY EachHasOne DEF Ending
<1>2. ASSUME NEW r \in Requested
      PROVE  service.work[r].state = "failed"
  <2>1. r \in Renders /\ c[r] # 0 /\ jobs[c[r]].status = Outcome(r)
    BY <1>1, <1>2 DEF Whole, Requested
  <2>2. Outcome(r) = "Failed"
    BY <2>1 DEF JobsCharged
  <2>3. QED BY <2>2 DEF Outcome, Says
<1>3. QED BY <1>2 DEF Excused

(* A step of the service ends the project, or keeps its verdict *)
LEMMA VerdictStep ==
  ASSUME Types, Service
  PROVE  \/ service'.verdict = service.verdict \/ service'.verdict \in {"failed", "canceled"}
         \/ \E r \in Renders : service.work[r].state = "done"
<1>1. \A x : service' = [service EXCEPT !.work = x] => service'.verdict = service.verdict
  BY ServiceFields
<1>2. ASSUME NEW r \in Renders, Assign(r) \/ Retry(r) \/ Produce(r)
      PROVE  service'.verdict = service.verdict
  <2>1. \E x : service' = [service EXCEPT !.work = x]
    <3>1. CASE Assign(r)
      BY <3>1, Zenon DEF Assign
    <3>2. CASE Retry(r)
      BY <3>2, Zenon DEF Retry
    <3>3. CASE Produce(r)
      BY <3>3, Zenon DEF Produce
    <3>4. QED BY <1>2, <3>1, <3>2, <3>3
  <2>2. QED BY <1>1, <2>1
<1>3. CASE Requeue
  <2>1. \E x : service' = [service EXCEPT !.work = x]
    BY <1>3, Zenon DEF Requeue
  <2>2. QED BY <1>1, <2>1
<1>4. ASSUME NEW r \in Renders, Progress(r) \/ Zombie(r)
      PROVE  service' = service
  BY <1>4 DEF Progress, Zombie
<1>5. CASE Disconnect
  BY <1>5 DEF Disconnect
<1>6. CASE Explain
  BY <1>6, ServiceFields DEF Explain
<1>7. CASE Cancel
  BY <1>7, ServiceFields DEF Cancel
<1>8. CASE Conclude
  <2>1. PICK verdict \in {"completed", "failed"} :
          /\ service' = [service EXCEPT !.verdict = verdict]
          /\ verdict = IF \E r \in Renders : service.work[r].state = "done"
                         THEN "completed" ELSE "failed"
    BY <1>8 DEF Conclude
  <2>2. service'.verdict = verdict
    BY <2>1, ServiceFields
  <2>3. QED BY <2>1, <2>2
<1>9. QED BY <1>2, <1>3, <1>4, <1>5, <1>6, <1>7, <1>8 DEF Service

(* Only its own look answers the waiter *)
LEMMA WaiterStays ==
  ASSUME Service \/ Listener \/ Recovery \/ UNCHANGED vars, waiter' = "ok"
  PROVE  waiter = "ok"
<1>1. \A changed : Notify(changed) => waiter = "ok"
  BY DEF Notify
<1>2. CASE Service
  BY <1>2 DEF Service, ClientSide
<1>3. CASE Listener
  BY <1>1, <1>3 DEF Listener, HearAttempt, HearIgnored, UpdateJob, UpdateParent, Signed, HearRetry,
     HearQueued, HearVerdict, HearQueue, UpdateProject
<1>4. CASE Recovery
  BY <1>1, <1>4 DEF Recovery, Ask, Look, BeginReplay, Leave, ReplayUpdate, StopReplay, Settle,
     ReplayStatus, CancelJobs, SkipJob, ReplayClaim, UpdateProject, Unmoved
<1>5. CASE UNCHANGED vars
  BY <1>5 DEF vars
<1>6. QED BY <1>2, <1>3, <1>4, <1>5

(* A completed project has produced something, a caller is only answered of a *)
(* completed one, and only a canceled one has canceled jobs                   *)
Produced ==
  /\ service.verdict = "completed" => \E r \in Renders : service.work[r].state = "done"
  /\ waiter = "ok" => service.verdict = "completed"
  /\ \A n \in DOMAIN jobs : jobs[n].status = "Canceled" => service.verdict = "canceled"

LEMMA CompletedIsNotExcused ==
  ASSUME Types, Produced, service.verdict = "completed"
  PROVE  ~Excused
<1>1. PICK r \in Renders : service.work[r].state = "done"
  BY DEF Produced
<1>2. QED BY <1>1 DEF Excused, Requested

(* No job is canceled before the service cancels the project *)
LEMMA CanceledStep ==
  ASSUME Types, Honest, TerminalIsTrue, [Next]_vars, NEW n \in DOMAIN jobs,
         jobs[n].status # "Canceled", jobs'[n].status = "Canceled"
  PROVE  service.verdict = "canceled"
<1>1. Ends(n)
  BY DEF Ends, Finished, Terminal
<1>2. CASE Service \/ WaitLook \/ UNCHANGED vars
  BY <1>2, ServiceStep, WaitLookFacts, Stutters
<1>3. CASE HearAttempt
  BY <1>1, <1>3, HearAttemptFacts, ClaimedEndsNone
<1>4. CASE UpdateJob
  <2>1. listener.pc = "job" /\ listener.event.phase = "Canceled"
    BY <1>1, <1>4, UpdateJobFacts
  <2>2. listener.event.kind \in FrameKinds
    BY <2>1, ThreadsFacts DEF FrameEvents
  <2>3. QED BY <2>1, <2>2 DEF Honest, ListenerHonest, Truthful
<1>5. CASE HearIgnored \/ UpdateParent \/ Signed \/ HearVerdict \/ HearQueue
  BY <1>5, HearIgnoredFacts, UpdateParentFacts, SignedFacts, HearVerdictFacts, HearQueueFacts
<1>6. CASE HearRetry \/ HearQueued
  BY <1>1, <1>6, HearRetryFacts, HearQueuedFacts
<1>7. CASE Ask \/ Look \/ BeginReplay \/ Leave \/ StopReplay \/ ReplayStatus
           \/ \E found \in FoundJobs : SkipJob(found)
  BY <1>7, AskFacts, LookFacts, BeginReplayFacts, LeaveFacts, ReplayStatusFacts, SkipJobFacts
<1>8. ASSUME NEW found \in FoundJobs, ReplayClaim(found)
      PROVE  FALSE
  BY <1>1, <1>8, ReplayClaimFacts, ClaimedEndsNone
<1>9. CASE ReplayUpdate
  <2>1. recovery.pc = "update" /\ Finished(recovery.job.status) /\ recovery.job.status = "Canceled"
    BY <1>1, <1>9, ReplayUpdateFacts
  <2>2. QED BY <2>1 DEF Honest, RecoveryHonest, Gave, Outcome, Says
<1>10. CASE Settle
  <2>1. recovery.pc = "jobs" /\ recovery.status = "Canceled"
    BY <1>1, <1>10, SettleFacts
  <2>2. QED BY <2>1 DEF Honest, RecoveryHonest, AnswerHonest, Applying
<1>11. CASE CancelJobs
  BY <1>1, <1>11, CancelJobsFacts DEF TerminalIsTrue
<1>12. QED BY <1>2, <1>3, <1>4, <1>5, <1>6, <1>7, <1>8, <1>9, <1>10, <1>11
           DEF Next, Listener, Recovery, FoundJobs

LEMMA AddedIsPending ==
  ASSUME Types, [Next]_vars, NEW n \in DOMAIN jobs', n \notin DOMAIN jobs
  PROVE  jobs'[n].status = "Pending"
<1>1. JobsMove
  BY StepJobs
<1>2. QED BY <1>1 DEF JobsMove, Renewal, TakesOver, IsAdded

LEMMA ProducedStep ==
  ASSUME Types, Honest, TerminalIsTrue, Produced, [Next]_vars
  PROVE  Produced'
<1>1. Onwards
  BY StepWorld
<1>2. ASSUME service'.verdict = "completed"
      PROVE  \E r \in Renders : service'.work[r].state = "done"
  <2>1. \E r \in Renders : service.work[r].state = "done"
    <3>1. CASE Service
      BY <1>2, <3>1, VerdictStep DEF Produced
    <3>2. CASE Listener \/ Recovery \/ WaitLook \/ UNCHANGED vars
      <4>1. UNCHANGED service
        BY <3>2, ListenerOnly, RecoveryStep, WaitLookFacts, Stutters DEF RecoveredTypes
      <4>2. QED BY <1>2, <4>1 DEF Produced
    <3>3. QED BY <3>1, <3>2 DEF Next
  <2>2. QED BY <1>1, <2>1 DEF Onwards
<1>3. ASSUME waiter' = "ok"
      PROVE  service'.verdict = "completed"
  <2>1. service.verdict = "completed"
    <3>1. CASE WaitLook
      <4>1. waiter = "ok" \/ AllReady
        BY <1>3, <3>1 DEF WaitLook
      <4>2. QED BY <4>1 DEF AllReady, TerminalIsTrue, Produced
    <3>2. CASE Service \/ Listener \/ Recovery \/ UNCHANGED vars
      BY <1>3, <3>2, WaiterStays DEF Produced
    <3>3. QED BY <3>1, <3>2 DEF Next
  <2>2. QED BY <1>1, <2>1 DEF Onwards
<1>4. ASSUME NEW n \in DOMAIN jobs', jobs'[n].status = "Canceled"
      PROVE  service'.verdict = "canceled"
  <2>1. n \in DOMAIN jobs
    BY <1>4, AddedIsPending
  <2>2. service.verdict = "canceled"
    BY <1>4, <2>1, CanceledStep DEF Produced
  <2>3. QED BY <1>1, <2>2 DEF Onwards
<1>5. QED BY <1>2, <1>3, <1>4 DEF Produced

(* When a caller is answered, each render has a job that ended as it did *)
LEMMA AnswerIsWhole ==
  ASSUME Types, TerminalIsTrue, Produced, AllReady, NEW c \in Charges, JobsCharged(c)
  PROVE  Whole(c)
<1>1. service.verdict = "completed" /\ Len(jobs) >= Expected
  BY DEF AllReady, TerminalIsTrue
<1>2. \A n \in DOMAIN jobs : jobs[n].status \in Ending
  BY <1>1, EndingIsFinished DEF AllReady, AllFinished, Produced
<1>3. QED BY <1>1, <1>2, EachHasOne

LEMMA BlameStep ==
  ASSUME Types, Honest, OneHandle, TerminalIsTrue, Produced, Blamed, [Next]_vars
  PROVE  Blamed'
<1>1. Onwards
  BY StepWorld
<1>2. CASE Excused
  BY <1>1, <1>2, ExcusedStays DEF Blamed
<1>3. CASE ~Excused
  <2>1. PICK c \in Charges : Charged(c) /\ (waiter = "ok" => Whole(c))
    BY <1>3 DEF Blamed
  <2>2. CASE Listener
    <3>1. PICK d \in Charges : Charged(d)' /\ (Whole(c) => Whole(d)')
      BY <2>1, <2>2, BlameOfListener
    <3>2. waiter' = "ok" => Whole(d)'
      BY <2>1, <2>2, <3>1, WaiterStays
    <3>3. QED BY <3>1, <3>2 DEF Blamed
  <2>3. CASE Recovery
    <3>1. CASE Excused'
      BY <3>1 DEF Blamed
    <3>2. CASE \E d \in Charges : Charged(d)' /\ (Whole(c) => Whole(d)')
      <4>1. PICK d \in Charges : Charged(d)' /\ (Whole(c) => Whole(d)')
        BY <3>2
      <4>2. waiter' = "ok" => Whole(d)'
        BY <2>1, <2>3, <4>1, WaiterStays
      <4>3. QED BY <4>1, <4>2 DEF Blamed
    <3>3. ProjectIsTrue
      BY DEF ProjectIsTrue, TerminalIsTrue, Excused
    <3>4. QED BY <2>1, <2>3, <3>1, <3>2, <3>3, BlameOfRecovery
  <2>4. CASE Service \/ WaitLook \/ UNCHANGED vars
    <3>1. UNCHANGED <<jobs, retired, awaiting, listener, recovery>>
      BY <2>4, ServiceStep, WaitLookFacts, Stutters
    <3>2. JobsMove /\ \A n \in DOMAIN jobs : ~Ends(n)
      BY <3>1, JobsStay DEF Ends
    <3>3. JobsCharged(c)' /\ (Whole(c) => Whole(c)')
      BY <1>1, <2>1, <3>2, JobsStayCharged, WholeStays DEF Charged
    <3>4. ListenerCharged(c)' /\ RecoveryCharged(c)'
      BY <2>1, <3>1 DEF Charged, ListenerCharged, RecoveryCharged
    <3>5. waiter' = "ok" => Whole(c)
      <4>1. CASE WaitLook
        <5>1. waiter' = "ok" => waiter = "ok" \/ AllReady
          BY <4>1 DEF WaitLook
        <5>2. QED BY <2>1, <5>1, AnswerIsWhole DEF Charged
      <4>2. CASE Service \/ UNCHANGED vars
        BY <2>1, <4>2, WaiterStays
      <4>3. QED BY <2>4, <4>1, <4>2
    <3>6. QED BY <3>3, <3>4, <3>5 DEF Charged, Blamed
  <2>5. QED BY <2>2, <2>3, <2>4 DEF Next
<1>4. QED BY <1>2, <1>3

LEMMA LostFacts ==
  ASSUME Types, Honest, Blamed, listener.pc = "project", listener.event.kind = "error", Lost
  PROVE  Excused
<1>1. PICK id \in Ids : id = listener.event.id
  BY ThreadsFacts DEF FrameEvents
<1>2. Gave(id, listener.event.phase) /\ listener.event.phase = "Failed"
  BY <1>1 DEF Honest, ListenerHonest, Truthful, FrameKinds
<1>3. id.render \in Requested /\ service.work[id.render].state = "failed"
  BY <1>2 DEF Gave, Outcome, Says, Requested, Ids
<1>4. CASE Expected = 1
  <2>1. IsFiniteSet(Requested)
    <3>1. IsFiniteSet(Renders) /\ Requested \in SUBSET Renders
      BY DEF Types, ConstantsAreSound, Requested
    <3>2. QED BY <3>1, FS_Subset
  <2>2. PICK r : Requested = {r}
    BY <1>4, <2>1, FS_Singleton DEF Expected
  <2>3. QED BY <1>3, <2>2 DEF Excused
<1>5. CASE Len(jobs) >= Expected /\ \A n \in DOMAIN jobs : jobs[n].status = "Failed"
  <2>1. CASE Excused
    BY <2>1
  <2>2. CASE \E c \in Charges : Charged(c)
    BY <1>5, <2>2, AllFailed DEF Charged
  <2>3. QED BY <2>1, <2>2 DEF Blamed
<1>6. QED BY <1>4, <1>5 DEF Lost

(* A step that leaves the project as the service knows it *)
LEMMA TruthStays ==
  ASSUME Types, Onwards, TerminalIsTrue,
         \/ ~Finished(project'.status)
         \/ project'.status = project.status
         \/ project'.status = "Completed" /\ service.verdict = "completed"
         \/ project'.status = "Canceled" /\ service.verdict = "canceled"
         \/ project'.status = "Failed" /\ Excused
  PROVE  TerminalIsTrue'
<1>1. \A verdict \in {"completed", "failed", "canceled"} :
        service.verdict = verdict => service'.verdict = verdict
  BY DEF Onwards
<1>2. Excused => Excused'
  BY ExcusedStays
<1>3. TerminalIsTrue <=>
        /\ project.status = "Completed" => service.verdict = "completed"
        /\ project.status = "Canceled" => service.verdict = "canceled"
        /\ project.status = "Failed" => Excused
  BY DEF TerminalIsTrue, Excused
<1>4. TerminalIsTrue' <=>
        /\ project'.status = "Completed" => service'.verdict = "completed"
        /\ project'.status = "Canceled" => service'.verdict = "canceled"
        /\ project'.status = "Failed" => Excused'
  BY DEF TerminalIsTrue, Excused
<1>5. QED BY <1>1, <1>2, <1>3, <1>4 DEF Finished, Terminal

LEMMA TruthStep ==
  ASSUME Types, Honest, Blamed, TerminalIsTrue, [Next]_vars
  PROVE  TerminalIsTrue'
<1> DEFINE Told == \/ ~Finished(project'.status)
                   \/ project'.status = project.status
                   \/ project'.status = "Completed" /\ service.verdict = "completed"
                   \/ project'.status = "Canceled" /\ service.verdict = "canceled"
                   \/ project'.status = "Failed" /\ Excused
<1>1. ASSUME Service \/ WaitLook \/ UNCHANGED vars
      PROVE  Told
  BY <1>1, ServiceStep, WaitLookFacts, Stutters
<1>2. ASSUME HearAttempt \/ HearIgnored \/ UpdateJob \/ Signed \/ HearRetry \/ HearQueue
      PROVE  Told
  BY <1>2, HearAttemptFacts, HearIgnoredFacts, UpdateJobFacts, SignedFacts, HearRetryFacts,
     HearQueueFacts DEF Fades
<1>3. ASSUME UpdateParent
      PROVE  Told
  <2>1. /\ listener.pc = "project"
        /\ project'.status \notin {project.status, "Processing"} =>
             project'.status = "Failed" /\ listener.event.kind = "error" /\ Lost
    BY <1>3, UpdateParentFacts
  <2>2. project'.status \notin {project.status, "Processing"} =>
          project'.status = "Failed" /\ Excused
    BY <2>1, LostFacts
  <2>3. QED BY <2>2 DEF Finished, Terminal
<1>4. ASSUME HearQueued
      PROVE  Told
  BY <1>4, HearQueuedFacts DEF Finished, Terminal
<1>5. ASSUME HearVerdict
      PROVE  Told
  <2>1. /\ 1 \in DOMAIN inbox
        /\ \/ inbox[1].kind = "failed" /\ project'.status = "Failed"
           \/ inbox[1].kind = "completed" /\ project'.status \in {project.status, "Completed"}
    BY <1>5, HearVerdictFacts
  <2>2. inbox[1].kind \in {"completed", "failed"} => service.verdict = inbox[1].kind
    BY <2>1 DEF Honest, InboxHonest, Truthful
  <2>3. QED BY <2>1, <2>2 DEF Excused
<1>6. ASSUME \/ Ask \/ Look \/ BeginReplay \/ Leave \/ StopReplay \/ ReplayUpdate \/ Settle
             \/ CancelJobs
             \/ \E found \in FoundJobs : SkipJob(found) \/ ReplayClaim(found)
      PROVE  Told
  BY <1>6, AskFacts, LookFacts, BeginReplayFacts, LeaveFacts, ReplayUpdateFacts, SettleFacts,
     CancelJobsFacts, SkipJobFacts, ReplayClaimFacts DEF Fades
<1>7. ASSUME ReplayStatus
      PROVE  Told
  <2>1. /\ recovery.pc = "status"
        /\ project'.status \in {project.status, recovery.status, "Queued"}
    BY <1>7, ReplayStatusFacts
  <2>2. AnswerHonest
    BY <2>1 DEF Honest, RecoveryHonest, Applying
  <2>3. QED BY <2>1, <2>2 DEF AnswerHonest, Excused, Finished, Terminal
<1>8. Told
  BY <1>1, <1>2, <1>3, <1>4, <1>5, <1>6, <1>7 DEF Next, Listener, Recovery, FoundJobs
<1>9. QED BY <1>8, StepWorld, TruthStays

LEMMA InitAccounted ==
  ASSUME ConstantsAreSound, Init
  PROVE  TerminalIsTrue /\ Produced /\ Blamed
<1>1. /\ project.status = "Pending" /\ jobs = <<>> /\ listener.pc = "idle"
      /\ recovery.pc = "idle" /\ service.verdict = "active" /\ waiter = "woken"
  BY DEF Init, Idle
<1>2. TerminalIsTrue /\ Produced
  BY <1>1 DEF TerminalIsTrue, Produced
<1> DEFINE c == [r \in Renders |-> 0]
<1>3. c \in Charges /\ \A r \in Renders : c[r] = 0
  BY DEF Charges
<1> HIDE DEF c
<1>4. Charged(c)
  BY <1>1, <1>3 DEF Charged, JobsCharged, ListenerCharged, RecoveryCharged
<1>5. QED BY <1>1, <1>2, <1>3, <1>4 DEF Blamed

Accounted == TerminalIsTrue /\ Produced /\ Blamed

LEMMA AlwaysAccounted ==
  ASSUME ConstantsAreSound
  PROVE  Spec => []Accounted
<1>1. Spec => []Types
  BY AlwaysTypes
<1>2. Spec => []Honest
  BY AlwaysHonest
<1>3. Spec => []OneHandle
  BY OneHandleHolds
<1>4. Init => Accounted
  BY InitAccounted DEF Accounted
<1>5. Types /\ Honest /\ OneHandle /\ Accounted /\ [Next]_vars => Accounted'
  BY TruthStep, ProducedStep, BlameStep DEF Accounted
<1>6. QED BY <1>1, <1>2, <1>3, <1>4, <1>5, PTL DEF Spec

(* A project is finished only as the service finished it, or when every render *)
(* of it has failed: an error makes the project fail when each of its jobs has *)
(* failed, although jobs may change hands between the error and this look at   *)
(* them (Project::update after a job's error).                                 *)
THEOREM EndIsTrue ==
  ASSUME ConstantsAreSound
  PROVE  Spec => []TerminalIsTrue
<1>1. Spec => []Accounted
  BY AlwaysAccounted
<1>2. Accounted => TerminalIsTrue
  BY DEF Accounted
<1>3. QED BY <1>1, <1>2, PTL

(* The charge maps the renders that were produced one to one onto the jobs that *)
(* completed                                                                    *)
LEMMA AsManyResults ==
  ASSUME Types, Accounted
  PROVE  ResultsAreCounted
<1> DEFINE Results == {n \in DOMAIN jobs : jobs[n].status = "Completed"}
           Done == {r \in Renders : service.work[r].state = "done"}
<1> SUFFICES ASSUME waiter = "ok"
             PROVE  Cardinality(Results) = Cardinality(Done)
  BY DEF ResultsAreCounted
<1>1. ~Excused
  BY CompletedIsNotExcused DEF Accounted, Produced
<1>2. PICK c \in Charges : JobsCharged(c) /\ Whole(c)
  BY <1>1 DEF Accounted, Blamed, Charged
<1>3. \A r \in Renders : r \in Done <=> Outcome(r) = "Completed"
  BY DEF Outcome, Says
<1>4. ASSUME NEW r \in Done
      PROVE  c[r] \in Results /\ \A q \in Done : c[q] = c[r] => q = r
  <2>1. r \in Renders /\ r \in Requested /\ Done \subseteq Requested
    BY DEF Requested
  <2>2. c[r] # 0 /\ jobs[c[r]].status = "Completed"
        /\ \A q \in Requested : c[q] = c[r] => q = r
    BY <1>2, <1>3, <2>1 DEF Whole
  <2>3. c[r] \in DOMAIN jobs
    BY <1>2, <2>1, <2>2 DEF JobsCharged
  <2>4. QED BY <2>1, <2>2, <2>3
<1>5. ASSUME NEW n \in Results
      PROVE  \E r \in Done : c[r] = n
  <2>1. PICK r \in Renders : c[r] = n /\ Outcome(r) = "Completed"
    BY <1>2 DEF JobsCharged, Ending
  <2>2. QED BY <1>3, <2>1
<1>6. Done \in SUBSET Renders
  OBVIOUS
<1> HIDE DEF Results, Done
<1> DEFINE f == [r \in Done |-> c[r]]
<1>7. f \in Surjection(Done, Results)
  BY <1>4, <1>5 DEF Surjection
<1>8. f \in Injection(Done, Results)
  BY <1>4 DEF Injection, IsInjective
<1>9. IsFiniteSet(Done)
  <2>1. IsFiniteSet(Renders)
    BY DEF Types, ConstantsAreSound
  <2>2. QED BY <1>6, <2>1, FS_Subset
<1>10. Cardinality(Results) = Cardinality(Done)
  BY <1>7, <1>8, <1>9, FS_Surjection
<1>11. QED BY <1>10 DEF Results, Done

(* A caller is answered with as many results as were produced: although frames *)
(* and whole connections are lost, and jobs change hands between attempts, the *)
(* jobs it is given are charged one to one to the renders that ended.          *)
THEOREM ResultsHold ==
  ASSUME ConstantsAreSound
  PROVE  Spec => []ResultsAreCounted
<1>1. Spec => []Types
  BY AlwaysTypes
<1>2. Spec => []Accounted
  BY AlwaysAccounted
<1>3. Types /\ Accounted => ResultsAreCounted
  BY AsManyResults
<1>4. QED BY <1>1, <1>2, <1>3, PTL

================================================================================
