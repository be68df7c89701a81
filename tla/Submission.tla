------------------------------ MODULE Submission ------------------------------
(***************************************************************************)
(* The life of one project id from create_with_id until its request is     *)
(* admitted, refused or declared lost: the creation, the two automatic     *)
(* resends (after an explicit restart refusal, and after a confirmed       *)
(* absence), the recovery passes that look for the project, and the        *)
(* retirement of an ended session (src/src/projects/api/create.rs,         *)
(* submission_recovery.rs, recovery.rs, session.rs, and the listener of    *)
(* src/src/projects/events/mod.rs).                                        *)
(*                                                                         *)
(* The socket is what module Delivery promises; the generation service is  *)
(* modelled from what the client reads and hears.  Steps stand between the *)
(* awaits of each task: what a task does without waiting is one step, also *)
(* when it takes several locks one after the other.                        *)
(*                                                                         *)
(* A definition marked "Fault" is not part of the specification: put in    *)
(* the place of the definition after it, it must break a property.         *)
(***************************************************************************)
EXTENDS Naturals, Sequences

CONSTANTS
  Creators,       \* the calls of create_with_id_detailed that use this id
  None,           \* the absent creator
  Recovered,      \* the handle that a recovery pass builds for an untracked project
  Passes,         \* the recovery passes that run at once
  MaxSession,     \* bound: the account changes while session is below it
  MaxGeneration,  \* bound: connections are lost while generation is below it
  HttpFails,      \* whether a recovery request may fail
  Late            \* whether an answer or an event may outlast a reconnection or the grace

(* What the parameters may be; a module that chooses them assumes it *)
ConstantsAreSound ==
  /\ None \notin Creators /\ Recovered \notin Creators /\ None # Recovered
  /\ MaxSession \in Nat /\ MaxGeneration \in Nat \ {0}
  /\ HttpFails \in BOOLEAN /\ Late \in BOOLEAN

VARIABLES
  session,      \* the current account session
  generation,   \* SocketInner.generation
  connected,    \* the socket is authenticated on that connection
  frames,       \* jobRequest frames that left and are not yet settled by the service
  service,      \* what the service knows of the id, for each account session
  admitted,     \* history: how often the request of each creator was admitted
  resent,       \* history: how often it was resent after a confirmed absence
  inbox,        \* socket events of the project not yet seen by the listener
  tracked,      \* ProjectsInner.projects: the creator whose handle is tracked
  handle,       \* the Project of each creator and the position of its call
  submission,   \* SubmissionRecovery, for this id
  age,          \* whether submitted_at (else started_at) is within the 5 s grace
  recheck,      \* a scheduled recheck, or the sync of an "authenticated" event, is due
  task,         \* the restart task spawned for each handle
  pass          \* the recovery passes

socketVars == <<generation, connected, frames>>
serviceVars == <<service, admitted>>
clientVars == <<tracked, handle, submission, age, recheck, task, pass>>
vars == <<session, socketVars, serviceVars, inbox, clientVars, resent>>

Sessions == 0 .. MaxSession
NoSession == MaxSession + 1
Projects == Creators \cup {Recovered}
Receipts == [generation : Nat, session : Sessions]
NoReceipt == [generation |-> 0, session |-> 0]
Frames == [request : Creators, session : Sessions, generation : Nat]
Handles == [pc : {"idle", "prepared", "sending", "wrote", "created", "failed"},
            session : Sessions, status : {"none", "open", "failed", "done"},
            cause : {"none", "lost", "unsent", "restart", "refused", "session"},
            generation : Nat]
Tasks == [pc : {"none", "waiting", "writing", "wrote"}, session : Sessions,
          request : Creators \cup {None}, since : Nat]
RecoveryPasses ==
  [pc : {"idle", "asked", "reconcile", "status", "registry", "judge", "resending", "resent"},
   kind : {"sync", "resolve"}, session : Sessions, due : BOOLEAN, returned : BOOLEAN,
   project : Projects \cup {None}, seen : {"absent", "live", "gone"},
   request : Creators \cup {None}, generation : Nat]

NoPass == [pc |-> "idle", kind |-> "sync", session |-> 0, due |-> FALSE,
           returned |-> FALSE, project |-> None,
           seen |-> "absent", request |-> None, generation |-> 0]
NoTask == [pc |-> "none", session |-> 0, request |-> None, since |-> 0]

Init ==
  /\ session = 0 /\ generation = 1 /\ connected = TRUE /\ frames = {}
  /\ service = [s \in Sessions |-> [registry |-> "absent", record |-> FALSE]]
  /\ admitted = [k \in Creators |-> 0] /\ resent = [k \in Creators |-> 0]
  /\ inbox = <<>> /\ tracked = None
  /\ handle = [k \in Projects |-> [pc |-> "idle", session |-> 0, status |-> "none",
                                   cause |-> "none", generation |-> 0]]
  /\ submission = [unadmitted |-> None, awaiting |-> FALSE, submitted |-> FALSE,
                   sentOn |-> NoReceipt, handledSession |-> NoSession]
  /\ age = "recent" /\ recheck = FALSE
  /\ task = [k \in Projects |-> NoTask]
  /\ pass = [p \in Passes |-> NoPass]

--------------------------------------------------------------------------------
(***************************************************************************)
(* The environment: the account, the network and the generation service.   *)
(* A connection's frames are admitted, refused or lost before the next     *)
(* connection authenticates; a frame is settled within the grace period;   *)
(* the durable record exists before a project leaves the live registry,    *)
(* and a project does not come and go between the status lookup and the    *)
(* registry lookup of one pass.                                            *)
(***************************************************************************)
SwitchAccount ==
  /\ session < MaxSession
  /\ session' = session + 1
  /\ connected' = FALSE
  /\ UNCHANGED <<generation, frames, serviceVars, inbox, clientVars>>

(* The last events before the loss may never arrive *)
Disconnect ==
  /\ connected /\ generation < MaxGeneration
  /\ connected' = FALSE
  /\ \E kept \in 0 .. Len(inbox) : inbox' = SubSeq(inbox, 1, kept)
  /\ UNCHANGED <<session, generation, frames, serviceVars, clientVars>>

(* Nothing that the service said is still on its way to the client's decision *)
Prompt == inbox = <<>> /\ \A p \in Passes : pass[p].pc # "judge"

(* The "authenticated" event starts a sync *)
Reconnect ==
  /\ ~connected /\ frames = {}
  /\ Late \/ Prompt
  /\ connected' = TRUE
  /\ generation' = generation + 1
  /\ recheck' = TRUE
  /\ UNCHANGED <<session, frames, serviceVars, inbox, tracked, handle, submission, age,
                 task, pass>>

Tell(s, kind) == inbox' = IF connected /\ s = session
                            THEN Append(inbox, [kind |-> kind, session |-> s])
                            ELSE inbox

Admit(frame) ==
  /\ frames' = frames \ {frame}
  /\ admitted' = [admitted EXCEPT ![frame.request] = @ + 1]
  /\ service' = [service EXCEPT ![frame.session].registry = "live"]
  /\ Tell(frame.session, "seen")
  /\ UNCHANGED <<session, generation, connected, clientVars>>

(* Error 1001: the server restarts and did not admit the request *)
Refuse(frame) ==
  /\ connected /\ frame.generation = generation
  /\ frames' = frames \ {frame}
  /\ Tell(frame.session, "refused")
  /\ UNCHANGED <<session, generation, connected, serviceVars, clientVars>>

Lose(frame) ==
  /\ ~connected
  /\ frames' = frames \ {frame}
  /\ UNCHANGED <<session, generation, connected, serviceVars, inbox, clientVars>>

WriteRecord(s) ==
  /\ service[s].registry = "live" /\ ~service[s].record
  /\ service' = [service EXCEPT ![s].record = TRUE]
  /\ UNCHANGED <<session, socketVars, admitted, inbox, clientVars>>

Complete(s) ==
  /\ service[s].registry = "live" /\ service[s].record
  /\ \A p \in Passes : pass[p].pc # "registry" \/ pass[p].session # s
  /\ service' = [service EXCEPT ![s].registry = "gone"]
  /\ Tell(s, "done")
  /\ UNCHANGED <<session, socketVars, admitted, clientVars>>

(* The clock: the grace period of the last submission passes *)
Age ==
  /\ age = "recent" /\ frames = {}
  /\ Late \/ Prompt
  /\ age' = "old"
  /\ UNCHANGED <<session, socketVars, serviceVars, inbox, tracked, handle, submission,
                 recheck, task, pass>>

Service ==
  \/ \E frame \in frames : Admit(frame) \/ Refuse(frame) \/ Lose(frame)
  \/ \E s \in Sessions : WriteRecord(s) \/ Complete(s)

--------------------------------------------------------------------------------
(***************************************************************************)
(* State shared by the client's tasks.                                     *)
(***************************************************************************)
Open(k) == k # None /\ handle[k].status = "open"

(* Project::update and end_session never touch a finished project *)
Failed(k, cause) == IF handle[k].status = "open"
                      THEN [handle EXCEPT ![k].status = "failed", ![k].cause = cause]
                      ELSE handle

(* observed(): evidence that the service has the request *)
Observed(sub) == [sub EXCEPT !.unadmitted = None, !.sentOn = NoReceipt]

(* clear_previous_sessions *)
Retires == tracked # None /\ handle[tracked].session # session
Retained == tracked # None /\ handle[tracked].session = session
Pruned ==
  IF submission.handledSession = session
    THEN submission
    ELSE [submission EXCEPT
           !.handledSession = session,
           !.unadmitted = IF Retained THEN @ ELSE None,
           !.sentOn = IF @.session = session THEN @ ELSE NoReceipt,
           !.awaiting = @ /\ Retained,
           !.submitted = @ /\ Retained]
Kept == IF Retires THEN None ELSE tracked
Ended == IF Retires THEN Failed(tracked, "session") ELSE handle

Clear ==
  /\ tracked' = Kept
  /\ submission' = Pruned
  /\ handle' = Ended
  /\ recheck' = (recheck /\ submission.handledSession = session)

(* Fault: the socket does not compare the session of the command *)
WriteAnySession(request, s) ==
  /\ connected
  /\ frames' = frames \cup {[request |-> request, session |-> session,
                             generation |-> generation]}
  /\ UNCHANGED <<generation, connected>>

(* A frame leaves; its writer learns the generation in a later step *)
Write(request, s) ==
  /\ connected /\ s = session
  /\ frames' = frames \cup {[request |-> request, session |-> s, generation |-> generation]}
  /\ UNCHANGED <<generation, connected>>

(* submitted_at is refreshed: passes that began before no longer see it as due *)
NotDue == [p \in Passes |-> [pass[p] EXCEPT !.due = FALSE]]

NoEnvironment == UNCHANGED <<session, serviceVars, inbox>>

--------------------------------------------------------------------------------
(***************************************************************************)
(* create_with_id_detailed.                                                *)
(***************************************************************************)
CreateSide == NoEnvironment /\ UNCHANGED task

(* The application does not submit an id again in the same account while a    *)
(* creation of it is running, or after one whose send failed (README.md:246). *)
Reusable ==
  \A j \in Creators : handle[j].session = session =>
    \/ handle[j].pc \in {"idle", "created"}
    \/ handle[j].pc = "failed" /\ handle[j].status = "none"

Begin(k) ==
  /\ handle[k].pc = "idle" /\ Reusable
  /\ tracked' = Kept
  /\ submission' = Pruned
  /\ handle' = [Ended EXCEPT ![k].pc = "prepared", ![k].session = session]
  /\ recheck' = (recheck /\ submission.handledSession = session)
  /\ UNCHANGED <<socketVars, age, pass>>
  /\ CreateSide

(* Validation and uploads are over: the id is reserved, the request recorded *)
Track(k) ==
  /\ handle[k].pc = "prepared"
  /\ handle[k].session = session /\ tracked = None
  /\ tracked' = k
  /\ handle' = [handle EXCEPT ![k].pc = "sending",
                              ![k].status = "open"]
  /\ submission' = [submission EXCEPT !.unadmitted = k]
  /\ age' = IF submission.submitted THEN age ELSE "recent"
  /\ pass' = IF submission.submitted THEN pass ELSE NotDue
  /\ UNCHANGED <<socketVars, recheck>>
  /\ CreateSide

(* The session changed while preparing, or the id is already tracked *)
NotTracked(k) ==
  /\ handle[k].pc = "prepared"
  /\ handle[k].session # session \/ tracked # None
  /\ handle' = [handle EXCEPT ![k].pc = "failed"]
  /\ UNCHANGED <<socketVars, tracked, submission, age, recheck, pass>>
  /\ CreateSide

WriteRequest(k) ==
  /\ handle[k].pc = "sending"
  /\ Write(k, handle[k].session)
  /\ handle' = [handle EXCEPT ![k].pc = "wrote", ![k].generation = generation]
  /\ UNCHANGED <<tracked, submission, age, recheck, pass>>
  /\ CreateSide

(* The receipt arrives: kept only while nothing was heard of the request *)
Confirm(k) ==
  /\ handle[k].pc = "wrote" /\ handle[k].session = session
  /\ submission' = IF submission.unadmitted = None
       THEN submission
       ELSE [submission EXCEPT !.sentOn = [generation |-> handle[k].generation,
                                           session |-> handle[k].session]]
  /\ handle' = [handle EXCEPT ![k].pc = "created"]
  /\ UNCHANGED <<socketVars, tracked, age, recheck, pass>>
  /\ CreateSide

(* A failed or uncertain send, or the end of the session while it waits: the  *)
(* project is forgotten, unless its id has been taken by another handle.      *)
SendFails(k) ==
  /\ handle[k].pc \in {"sending", "wrote"}
  /\ handle' = [(IF handle[k].session # session THEN Failed(k, "session") ELSE handle)
                  EXCEPT ![k].pc = "failed"]
  /\ tracked' = IF tracked = k THEN None ELSE tracked
  /\ submission' = IF tracked = k THEN [submission EXCEPT !.unadmitted = None] ELSE submission
  /\ UNCHANGED <<socketVars, age, recheck, pass>>
  /\ CreateSide

Create(k) == \/ Begin(k) \/ Track(k) \/ NotTracked(k) \/ WriteRequest(k)
             \/ Confirm(k) \/ SendFails(k)

--------------------------------------------------------------------------------
(***************************************************************************)
(* The listener, and the task it spawns for a restart refusal.             *)
(***************************************************************************)
Heard == Head(inbox)
Tracked == IF Kept # None /\ handle[Kept].session = session
             THEN Kept ELSE None

(* clear_previous_sessions first; then events of other sessions are dropped *)
HearEvidence ==
  /\ Heard.kind \in {"seen", "done"} \/ Heard.session # session
  /\ tracked' = Kept
  /\ IF Heard.session # session
       THEN submission' = Pruned /\ handle' = Ended
       ELSE /\ submission' = Observed(Pruned)
            /\ handle' = IF Heard.kind = "done" /\ Tracked # None
                           THEN [Ended EXCEPT ![Tracked].status = "done"]
                           ELSE Ended
  /\ UNCHANGED task

(* The request is taken, and a task waits for the next connection to resend it *)
AwaitRestart(sub) ==
  /\ submission' = [sub EXCEPT !.awaiting = TRUE, !.unadmitted = None]
  /\ task' = [task EXCEPT ![Tracked] = [pc |-> "waiting", session |-> session,
                 request |-> sub.unadmitted, since |-> generation]]

HearRefusal ==
  /\ Heard.kind = "refused" /\ Heard.session = session
  /\ tracked' = Kept
  /\ LET sub == Pruned
     IN \/ /\ ~Open(Tracked)
           /\ submission' = sub /\ handle' = Ended
           /\ UNCHANGED task
        \/ /\ Open(Tracked) /\ sub.awaiting
           /\ submission' = sub /\ UNCHANGED <<handle, task>>
        \/ /\ Open(Tracked) /\ ~sub.awaiting /\ sub.unadmitted = None
           /\ submission' = sub
           /\ handle' = Failed(Tracked, "refused")
           /\ UNCHANGED task
        \/ /\ Open(Tracked) /\ ~sub.awaiting /\ sub.unadmitted # None
           /\ AwaitRestart(sub)
           /\ UNCHANGED handle

Hear ==
  /\ inbox # <<>>
  /\ inbox' = Tail(inbox)
  /\ recheck' = (recheck /\ submission.handledSession = session)
  /\ HearEvidence \/ HearRefusal
  /\ UNCHANGED <<session, socketVars, serviceVars, age, pass>>

(* The listener's session watch *)
HearSwitch ==
  /\ submission.handledSession # session \/ Retires
  /\ Clear
  /\ UNCHANGED <<session, socketVars, serviceVars, inbox, age, task, pass>>

TaskSide == NoEnvironment /\ UNCHANGED tracked

(* A "connected" event after the refusal: resend, or stop for a finished project *)
ResumeTask(k) ==
  /\ task[k].pc = "waiting" /\ task[k].session = session
  /\ connected /\ generation > task[k].since
  /\ IF Open(k)
       THEN /\ submission' = [submission EXCEPT !.unadmitted = task[k].request]
            /\ task' = [task EXCEPT ![k].pc = "writing"]
            /\ UNCHANGED recheck
       ELSE /\ submission' = [submission EXCEPT !.awaiting = FALSE]
            /\ task' = [task EXCEPT ![k] = NoTask]
            /\ recheck' = TRUE
  /\ UNCHANGED <<socketVars, handle, age, pass>>
  /\ TaskSide

WriteAgain(k) ==
  /\ task[k].pc = "writing"
  /\ Write(task[k].request, task[k].session)
  /\ task' = [task EXCEPT ![k].pc = "wrote"]
  /\ UNCHANGED <<submission, handle, age, recheck, pass>>
  /\ TaskSide

FinishTask(k) ==
  /\ task[k].pc = "wrote" /\ task[k].session = session
  /\ submission' = [submission EXCEPT !.submitted = TRUE, !.awaiting = FALSE]
  /\ age' = "recent"
  /\ pass' = NotDue
  /\ recheck' = TRUE
  /\ task' = [task EXCEPT ![k] = NoTask]
  /\ UNCHANGED <<socketVars, handle>>
  /\ TaskSide

(* Fault: the session is not compared before the verdict *)
FailTaskAnySession(k) ==
  /\ task[k].pc # "none"
  /\ submission' = [submission EXCEPT !.awaiting = FALSE, !.unadmitted = None]
  /\ task' = [task EXCEPT ![k] = NoTask]
  /\ handle' = Failed(k, "restart")
  /\ UNCHANGED <<socketVars, age, recheck, pass>>
  /\ TaskSide

(* 60 s, a lost event, a failed or uncertain write: the refusal stands *)
FailTask(k) ==
  /\ task[k].pc # "none" /\ task[k].session = session
  /\ submission' = [submission EXCEPT !.awaiting = FALSE, !.unadmitted = None]
  /\ handle' = Failed(k, "restart")
  /\ task' = [task EXCEPT ![k] = NoTask]
  /\ UNCHANGED <<socketVars, age, recheck, pass>>
  /\ TaskSide

(* The session has ended: the id may already belong to another account *)
EndTask(k) ==
  /\ task[k].pc # "none" /\ task[k].session # session
  /\ tracked' = Kept
  /\ submission' = Pruned
  /\ handle' = [Ended EXCEPT ![k] = Failed(k, "session")[k]]
  /\ recheck' = (recheck /\ submission.handledSession = session)
  /\ task' = [task EXCEPT ![k] = NoTask]
  /\ UNCHANGED <<socketVars, age, pass>>
  /\ NoEnvironment

Restart(k) == ResumeTask(k) \/ WriteAgain(k) \/ FinishTask(k) \/ FailTask(k) \/ EndTask(k)

--------------------------------------------------------------------------------
(***************************************************************************)
(* The recovery passes: sync, and resolve_missing, which sync also calls.  *)
(***************************************************************************)
PassSide == NoEnvironment /\ UNCHANGED task
Current(p) == pass[p].session = session
At(p, pc) == pass[p].pc = pc /\ Current(p)
Goto(p, pc) == pass' = [pass EXCEPT ![p].pc = pc]
EndPass(p) == pass' = [pass EXCEPT ![p] = NoPass]
InReconcile == {"status", "registry", "judge", "resending", "resent"}
Registry(p) == service[pass[p].session].registry

(* One sync runs at a time from its reconciliation to its end: sync_lock *)
SyncLockFree == \A p \in Passes : pass[p].kind = "resolve" \/ pass[p].pc \notin InReconcile

SyncStart(p) ==
  /\ pass[p].pc = "idle"
  /\ tracked' = Kept
  /\ submission' = Pruned
  /\ handle' = Ended
  /\ recheck' = FALSE
  /\ pass' = [pass EXCEPT ![p] = [NoPass EXCEPT !.pc = "asked", !.session = session,
                                               !.due = (age = "old")]]
  /\ UNCHANGED <<socketVars, age>>
  /\ PassSide

SyncSnapshot(p) ==
  /\ At(p, "asked")
  /\ pass' = [pass EXCEPT ![p].pc = "reconcile", ![p].seen = Registry(p)]
  /\ UNCHANGED <<socketVars, tracked, handle, submission, age, recheck>>
  /\ PassSide

(* The snapshot holds the project: evidence, and a handle if none is tracked *)
ReconcileSeen(p) ==
  LET status == IF pass[p].seen = "gone" THEN "done" ELSE "open"
  IN /\ pass[p].seen # "absent"
     /\ submission' = Observed(submission)
     /\ tracked' = IF tracked = None THEN Recovered ELSE tracked
     /\ handle' = IF tracked = None
          THEN [handle EXCEPT ![Recovered] = [pc |-> "created", session |-> session,
                    status |-> status, cause |-> "none", generation |-> 0]]
          ELSE IF Open(tracked) THEN [handle EXCEPT ![tracked].status = status] ELSE handle
     /\ EndPass(p)
     /\ UNCHANGED recheck

(* Fault: a project within the grace is left alone without a recheck *)
ReconcileAbsentForgets(p) ==
  /\ pass[p].seen = "absent"
  /\ IF Open(tracked) /\ ~submission.awaiting /\ pass[p].due
       THEN pass' = [pass EXCEPT ![p].pc = "status", ![p].project = tracked,
                                 ![p].returned = (handle[tracked].pc = "created")]
       ELSE EndPass(p)
  /\ UNCHANGED <<tracked, handle, submission, recheck>>

(* Absent: looked up once the grace is over, left to a recheck before that, and *)
(* left to the restart task while it waits.                                     *)
ReconcileAbsent(p) ==
  /\ pass[p].seen = "absent"
  /\ LET missing == Open(tracked) /\ ~submission.awaiting
     IN /\ recheck' = (recheck \/ (missing /\ ~pass[p].due))
        /\ IF missing /\ pass[p].due
             THEN pass' = [pass EXCEPT ![p].pc = "status", ![p].project = tracked,
                                    ![p].returned = (handle[tracked].pc = "created")]
             ELSE EndPass(p)
  /\ UNCHANGED <<tracked, handle, submission>>

SyncReconcile(p) ==
  /\ At(p, "reconcile") /\ SyncLockFree
  /\ ReconcileSeen(p) \/ ReconcileAbsent(p)
  /\ UNCHANGED <<socketVars, age>>
  /\ PassSide

(* resolve_missing called by the application *)
ResolveStart(p) ==
  /\ pass[p].pc = "idle"
  /\ pass' = [pass EXCEPT ![p] = [NoPass EXCEPT !.pc = "status", !.kind = "resolve",
                                               !.session = session]]
  /\ UNCHANGED <<socketVars, tracked, handle, submission, age, recheck>>
  /\ PassSide

(* The owner status: a finished record settles the project of a sync.  The four *)
(* lookups take 7.5 s by default, longer than a frame needs to be settled.      *)
Status(p) ==
  /\ At(p, "status")
  /\ IF service[session].record
       THEN /\ submission' = Observed(submission)
            /\ handle' = IF Open(pass[p].project) /\ Registry(p) = "gone"
                           THEN [handle EXCEPT ![pass[p].project].status = "done"]
                           ELSE handle
            /\ EndPass(p)
       ELSE /\ frames = {}
            /\ Goto(p, "registry")
            /\ UNCHANGED <<submission, handle>>
  /\ UNCHANGED <<socketVars, tracked, age, recheck>>
  /\ PassSide

(* Fault: an answer that cannot be read counts as an empty registry *)
ActiveRegistryFailOpen(p) ==
  /\ At(p, "registry")
  /\ Goto(p, "judge")
  /\ UNCHANGED <<socketVars, tracked, handle, submission, age, recheck>>
  /\ PassSide

(* The live registry, read by the service *)
ActiveRegistry(p) ==
  /\ At(p, "registry")
  /\ IF Registry(p) = "live"
       THEN submission' = Observed(submission) /\ EndPass(p)
       ELSE Goto(p, "judge") /\ UNCHANGED submission
  /\ UNCHANGED <<socketVars, tracked, handle, age, recheck>>
  /\ PassSide

(* What resend_undelivered requires before it claims the resend *)
Undelivered ==
  /\ connected
  /\ Open(tracked) /\ handle[tracked].session = session
  /\ submission.sentOn.generation \in 1 .. generation - 1
  /\ submission.sentOn.session = session
  /\ ~submission.submitted /\ ~submission.awaiting
  /\ submission.unadmitted # None

(* Fault: the claim is made after the write, when it returns *)
ClaimLater(p) ==
  /\ Undelivered
  /\ pass' = [NotDue EXCEPT ![p].pc = "resending", ![p].request = submission.unadmitted]
  /\ UNCHANGED <<submission, age>>

(* The claim of the resend stands before its write *)
Claim(p) ==
  /\ Undelivered
  /\ submission' = [submission EXCEPT !.submitted = TRUE, !.sentOn = NoReceipt]
  /\ age' = "recent"
  /\ pass' = [NotDue EXCEPT ![p].pc = "resending", ![p].request = submission.unadmitted]

(* Not to be resent: active while recently resubmitted, lost otherwise *)
Verdict(p) ==
  /\ ~Undelivered
  /\ EndPass(p)
  /\ UNCHANGED <<submission, age>>

(* History: whether a write of the request had not returned *)
Blame(p) ==
  IF /\ pass[p].returned
     /\ ~submission.awaiting
     /\ \A q \in Passes : pass[q].pc \notin {"resending", "resent"}
    THEN "lost" ELSE "unsent"

Judge(p) ==
  /\ At(p, "judge")
  /\ \/ Claim(p) /\ UNCHANGED handle
     \/ /\ Verdict(p)
        /\ handle' = IF pass[p].project = None \/ (submission.submitted /\ age = "recent")
                       THEN handle
                       ELSE Failed(pass[p].project, Blame(p))
  /\ UNCHANGED <<socketVars, tracked, recheck>>
  /\ PassSide

Resend(p) ==
  /\ At(p, "resending")
  /\ Write(pass[p].request, pass[p].session)
  /\ pass' = [pass EXCEPT ![p].pc = "resent", ![p].generation = generation]
  /\ resent' = [resent EXCEPT ![pass[p].request] = @ + 1]
  /\ UNCHANGED <<tracked, handle, submission, age, recheck>>
  /\ PassSide

(* The write returns, or fails without telling whether it arrived *)
ResendReturns(p) ==
  /\ At(p, "resent") \/ At(p, "resending")
  /\ \E ok \in BOOLEAN :
       /\ ok => pass[p].pc = "resent"
       /\ submission' = [submission EXCEPT !.submitted = TRUE,
            !.sentOn = IF ok /\ submission.unadmitted # None
                         THEN [generation |-> pass[p].generation, session |-> session]
                         ELSE @]
  /\ age' = "recent"
  /\ recheck' = TRUE
  /\ pass' = [NotDue EXCEPT ![p] = NoPass]
  /\ UNCHANGED <<socketVars, tracked, handle>>
  /\ PassSide

(* The session has changed, or a request failed: the pass says nothing *)
Abandon(p) ==
  /\ pass[p].pc # "idle"
  /\ ~Current(p) \/ (HttpFails /\ pass[p].pc \in {"asked", "status", "registry"})
  /\ EndPass(p)
  /\ UNCHANGED <<socketVars, tracked, handle, submission, age, recheck>>
  /\ PassSide

Advance(p) == \/ SyncSnapshot(p) \/ SyncReconcile(p) \/ Status(p) \/ ActiveRegistry(p)
              \/ Judge(p) \/ ResendReturns(p) \/ Abandon(p)

--------------------------------------------------------------------------------
Quiet ==
  \/ SwitchAccount \/ Disconnect \/ Reconnect \/ Age \/ Service
  \/ Hear \/ HearSwitch
  \/ \E k \in Creators : Create(k)
  \/ \E k \in Projects : Restart(k)
  \/ \E p \in Passes : SyncStart(p) \/ ResolveStart(p) \/ Advance(p)

Next == \/ Quiet /\ UNCHANGED resent
        \/ \E p \in Passes : Resend(p)

Spec == Init /\ [][Next]_vars

(* The service answers, the client's tasks run, requests return within their    *)
(* timeouts, the connection is restored and time passes.  Each of these goes on *)
(* by itself, so each is fair by itself.  A recheck that is due starts a sync.  *)
(* Strongly fair: that sync, because a free pass is a bound of the model and    *)
(* not of the code; Age and Reconnect, which Prompt delays and does not prevent.*)
(* No fairness for the application, the account or the failures.                *)
RecheckSync == recheck /\ \E p \in Passes : SyncStart(p)
Fairness ==
  /\ WF_vars(Service /\ UNCHANGED resent)
  /\ SF_vars(Age /\ UNCHANGED resent)
  /\ SF_vars(Reconnect /\ UNCHANGED resent)
  /\ WF_vars(Hear /\ UNCHANGED resent)
  /\ WF_vars(HearSwitch /\ UNCHANGED resent)
  /\ \A k \in Projects : WF_vars(Restart(k) /\ UNCHANGED resent)
  /\ \A p \in Passes : WF_vars(Advance(p) /\ UNCHANGED resent)
  /\ SF_vars(RecheckSync /\ UNCHANGED resent)
FairSpec == Spec /\ Fairness

--------------------------------------------------------------------------------
(* Types and the bounds of every variable, for recovery.rs and create.rs. *)
TypeOK ==
  /\ session \in Sessions
  /\ generation \in 1 .. MaxGeneration + MaxSession + 1 /\ connected \in BOOLEAN
  /\ frames \in SUBSET Frames
  /\ service \in [Sessions -> [registry : {"absent", "live", "gone"}, record : BOOLEAN]]
  /\ admitted \in [Creators -> Nat] /\ resent \in [Creators -> Nat]
  /\ inbox \in Seq([kind : {"seen", "done", "refused"}, session : Sessions])
  /\ tracked \in Projects \cup {None}
  /\ handle \in [Projects -> Handles]
  /\ submission \in [unadmitted : Creators \cup {None}, awaiting : BOOLEAN,
                     submitted : BOOLEAN, sentOn : Receipts,
                     handledSession : 0 .. NoSession]
  /\ age \in {"recent", "old"} /\ recheck \in BOOLEAN
  /\ task \in [Projects -> Tasks]
  /\ pass \in [Passes -> RecoveryPasses]

(* However its request is resent (after a restart refusal, after a confirmed  *)
(* absence, by two passes at once), the service admits a creation only once;  *)
(* and an absence has it resent only once (resend_undelivered).               *)
AdmittedOnce == \A k \in Creators : admitted[k] <= 1 /\ resent[k] <= 1

(* A project that a sync declares lost was never admitted, and never is, when *)
(* every write of its request had returned: creation, restart, absence.       *)
LostIsTrue ==
  \A k \in Projects : handle[k].cause = "lost" =>
    k # Recovered /\ admitted[k] = 0 /\ \A f \in frames : f.request # k

(* An account's socket only carries requests of that account's projects. *)
OwnAccountWire == \A f \in frames : handle[f.request].session = f.session

(* A project of an ended account is only ended by that: nothing that the next *)
(* account hears, looks up or resends completes it or gives it another error. *)
SettledBySession(k) ==
  handle[k].session < session /\ handle[k].status = "open" /\ handle[k]' # handle[k]
    => \/ handle'[k].status = "open"
       \/ handle'[k].status = "failed" /\ handle'[k].cause = "session"
EndedAccountIsSilent == [][\A k \in Creators : SettledBySession(k)]_vars

(* A project that failed because the server restarted was not admitted: "the   *)
(* server restarted before accepting this project".                            *)
RestartIsTrue ==
  \A k \in Creators : handle[k].cause = "restart" => admitted[k] = 0

(* A project whose creation succeeded does not stay open when the service has  *)
(* no trace of it: it is admitted, refused or declared lost, unless the        *)
(* account changes.                                                            *)
UndeliveredIsSettled ==
  \A k \in Creators :
    (handle[k].pc = "created" /\ tracked = k) ~>
      (handle[k].status # "open" \/ service[handle[k].session].registry # "absent"
        \/ handle[k].session # session)
================================================================================
