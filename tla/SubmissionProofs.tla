---------------------------- MODULE SubmissionProofs ----------------------------
(***************************************************************************)
(* Proofs about Submission, for any number of creators of an id, recovery  *)
(* passes, accounts and connections.                                       *)
(***************************************************************************)
EXTENDS Submission, TLAPS

--------------------------------------------------------------------------------
(***************************************************************************)
(* Types.  The bound that TypeOK gives the connections needs Bounds, too.  *)
(***************************************************************************)
Causes == {"none", "lost", "unsent", "restart", "refused", "session"}
Services == [registry : {"absent", "live", "gone"}, record : BOOLEAN]
Messages == [kind : {"seen", "done", "refused"}, session : Sessions]
Submissions ==
  [unadmitted : Creators \cup {None}, awaiting : BOOLEAN, submitted : BOOLEAN,
   sentOn : Receipts, handledSession : Sessions \cup {NoSession}]

Types ==
  /\ ConstantsAreSound
  /\ session \in Sessions /\ generation \in Nat \ {0} /\ connected \in BOOLEAN
  /\ frames \in SUBSET Frames
  /\ service \in [Sessions -> Services]
  /\ admitted \in [Creators -> Nat] /\ resent \in [Creators -> Nat]
  /\ inbox \in Seq(Messages)
  /\ tracked \in Projects \cup {None}
  /\ handle \in [Projects -> Handles]
  /\ submission \in Submissions
  /\ age \in {"recent", "old"} /\ recheck \in BOOLEAN
  /\ task \in [Projects -> Tasks]
  /\ pass \in [Passes -> RecoveryPasses]

Handled == submission.handledSession
Began(k) == handle[k].pc # "idle"
(* Begun by the account whose state the client keeps *)
Kin(k) == Began(k) /\ handle[k].session = Handled /\ Handled # NoSession

(* The client keeps the state of one account, never of one to come, and not of any before *)
(* the first operation: handledSession starts at a number that is no session.             *)
Bounds ==
  /\ Handled # NoSession => Handled <= session
  /\ connected => generation <= MaxGeneration + session
  /\ ~connected => generation < MaxGeneration + session

Beginnings ==
  \A k \in Creators :
    /\ ~Began(k) => handle[k].status = "none"
    /\ Began(k) => Handled # NoSession /\ handle[k].session <= Handled

OwnState ==
  /\ tracked # None => Kin(tracked)
  /\ submission.unadmitted # None => Kin(submission.unadmitted)

OwnFrames == \A f \in frames : Began(f.request) /\ handle[f.request].session = f.session

(* A request of a project that was begun in an account *)
Belongs(k, s) == k \in Creators /\ Began(k) /\ handle[k].session = s

OwnTask(k) ==
  task[k].pc # "none" =>
    /\ Belongs(task[k].request, task[k].session)
    /\ k \in Creators => Belongs(k, task[k].session)
OwnTasks == \A k \in Projects : OwnTask(k)

OwnPass(p) ==
  pass[p].pc # "idle" =>
    /\ pass[p].session <= session
    /\ pass[p].pc \in {"asked", "reconcile"} => pass[p].kind = "sync"
    /\ pass[p].kind = "sync" => Handled # NoSession /\ pass[p].session <= Handled
    /\ pass[p].project \in Creators => Belongs(pass[p].project, pass[p].session)
    /\ pass[p].pc \in {"resending", "resent"} => Belongs(pass[p].request, pass[p].session)
OwnPasses == \A p \in Passes : OwnPass(p)

Accounts == Bounds /\ Beginnings /\ OwnState /\ OwnFrames /\ OwnTasks /\ OwnPasses

--------------------------------------------------------------------------------
(***************************************************************************)
(* Operators.                                                              *)
(***************************************************************************)
LEMMA SessionFacts ==
  ConstantsAreSound =>
    /\ Sessions \subseteq Nat /\ NoSession \in Nat /\ NoSession \notin Sessions
    /\ 0 \in Sessions
    /\ \A s \in Sessions : s # MaxSession => s + 1 \in Sessions
BY DEF ConstantsAreSound, Sessions, NoSession

LEMMA ProjectFacts ==
  ConstantsAreSound =>
    /\ Creators \subseteq Projects /\ Recovered \in Projects /\ None \notin Projects
    /\ None \notin Creators /\ Recovered \notin Creators /\ None # Recovered
BY DEF ConstantsAreSound, Projects

LEMMA IdleFacts ==
  ConstantsAreSound => NoPass \in RecoveryPasses /\ NoTask \in Tasks /\ NoReceipt \in Receipts
BY SessionFacts DEF NoPass, NoTask, NoReceipt, RecoveryPasses, Tasks, Receipts

(* What a call did is kept, and what became of the project, too, or it failed *)
SameCall(new, old) ==
  new.pc = old.pc /\ new.session = old.session /\ new.generation = old.generation
SameFate(new, old) == new.status = old.status /\ new.cause = old.cause
Fails(new, old, cause) == old.status = "open" /\ new.status = "failed" /\ new.cause = cause

LEMMA FailedFacts ==
  ASSUME Types, NEW k \in Projects, NEW cause \in Causes
  PROVE  /\ Failed(k, cause) \in [Projects -> Handles]
         /\ \A j \in Projects : j # k => Failed(k, cause)[j] = handle[j]
         /\ SameCall(Failed(k, cause)[k], handle[k])
         /\ Open(k) => Fails(Failed(k, cause)[k], handle[k], cause)
         /\ ~Open(k) => Failed(k, cause) = handle
<1>1. handle \in [Projects -> Handles] /\ handle[k] \in Handles /\ k # None
  BY ProjectFacts DEF Types
<1>2. CASE Open(k)
  <2>1. Failed(k, cause) = [handle EXCEPT ![k] =
                              [handle[k] EXCEPT !.status = "failed", !.cause = cause]]
    BY <1>1, <1>2 DEF Failed, Open
  <2>2. [handle[k] EXCEPT !.status = "failed", !.cause = cause] \in Handles
    BY <1>1 DEF Handles, Causes
  <2>3. /\ Failed(k, cause) \in [Projects -> Handles]
        /\ \A j \in Projects : j # k => Failed(k, cause)[j] = handle[j]
        /\ Failed(k, cause)[k] = [handle[k] EXCEPT !.status = "failed", !.cause = cause]
    BY <1>1, <2>1, <2>2
  <2>4. SameCall(Failed(k, cause)[k], handle[k]) /\ Fails(Failed(k, cause)[k], handle[k], cause)
    BY <1>1, <1>2, <2>3 DEF Handles, SameCall, Fails, Open
  <2>5. QED BY <1>2, <2>3, <2>4
<1>3. CASE ~Open(k)
  <2>1. Failed(k, cause) = handle
    BY <1>1, <1>3 DEF Failed, Open
  <2>2. QED BY <1>1, <1>3, <2>1 DEF SameCall
<1>4. QED BY <1>2, <1>3

(* What ends with the account, of a project *)
EndedWith(j, hs) ==
  SameCall(hs[j], handle[j]) /\ (SameFate(hs[j], handle[j]) \/ Fails(hs[j], handle[j], "session"))

(* clear_previous_sessions does nothing, or retires all that is kept *)
LEMMA Pruning ==
  ASSUME Types, Bounds, OwnState
  PROVE  /\ Kept \in Projects \cup {None} /\ Ended \in [Projects -> Handles]
         /\ Pruned \in Submissions /\ Pruned.handledSession = session
         /\ Handled = session => Kept = tracked /\ Ended = handle /\ Pruned = submission
         /\ Handled # session =>
              /\ Kept = None /\ Pruned.unadmitted = None
              /\ ~Pruned.awaiting /\ ~Pruned.submitted
              /\ Pruned.sentOn = NoReceipt \/ Pruned.sentOn = submission.sentOn
              /\ Pruned.sentOn.session = session \/ Pruned.sentOn = NoReceipt
         /\ \A j \in Projects : EndedWith(j, Ended)
<1>1. /\ tracked \in Projects \cup {None} /\ submission \in Submissions /\ session \in Sessions
      /\ handle \in [Projects -> Handles] /\ ConstantsAreSound /\ NoReceipt \in Receipts
      /\ session # NoSession
  BY SessionFacts, IdleFacts DEF Types
<1>2. tracked # None => handle[tracked].session = Handled
  BY DEF OwnState, Kin
<1>3. \A j \in Projects : EndedWith(j, handle)
  BY DEF EndedWith, SameCall, SameFate
<1>4. Ended \in [Projects -> Handles] /\ \A j \in Projects : EndedWith(j, Ended)
  <2>1. CASE Retires
    <3>1. tracked \in Projects
      BY <1>1, <2>1 DEF Retires
    <3>2. Ended = Failed(tracked, "session")
      BY <2>1 DEF Ended
    <3>3. Ended \in [Projects -> Handles]
      BY <3>1, <3>2, FailedFacts DEF Causes
    <3>4. ASSUME NEW j \in Projects PROVE EndedWith(j, Ended)
      <4>1. j # tracked => Ended[j] = handle[j]
        BY <3>1, <3>2, FailedFacts DEF Causes
      <4>2. SameCall(Ended[tracked], handle[tracked])
        BY <3>1, <3>2, FailedFacts DEF Causes
      <4>3. Ended = handle \/ Fails(Ended[tracked], handle[tracked], "session")
        BY <3>1, <3>2, FailedFacts DEF Causes
      <4>4. QED BY <1>3, <4>1, <4>2, <4>3 DEF EndedWith, SameCall, SameFate
    <3>5. QED BY <3>3, <3>4
  <2>2. CASE ~Retires
    BY <1>1, <1>3, <2>2 DEF Ended
  <2>3. QED BY <2>1, <2>2
<1>5. CASE Handled = session
  <2>1. Kept = tracked /\ Ended = handle /\ Pruned = submission
    BY <1>2, <1>5 DEF Kept, Ended, Pruned, Retires, Handled
  <2>2. QED BY <1>1, <1>4, <1>5, <2>1 DEF Handled
<1>6. CASE Handled # session
  <2>1. ~Retained /\ Kept = None
    BY <1>2, <1>6 DEF Retained, Kept, Retires
  <2>2. PICK receipt \in Receipts :
          /\ receipt = IF submission.sentOn.session = session THEN submission.sentOn ELSE NoReceipt
          /\ Pruned = [submission EXCEPT !.handledSession = session, !.unadmitted = None,
                         !.sentOn = receipt, !.awaiting = FALSE, !.submitted = FALSE]
    <3>1. submission.sentOn \in Receipts
      BY <1>1 DEF Submissions
    <3>2. Pruned = [submission EXCEPT !.handledSession = session, !.unadmitted = None,
                      !.sentOn = IF submission.sentOn.session = session
                                   THEN submission.sentOn ELSE NoReceipt,
                      !.awaiting = FALSE, !.submitted = FALSE]
      BY <1>1, <1>6, <2>1 DEF Pruned, Handled, Submissions
    <3>3. QED BY <1>1, <3>1, <3>2
  <2>3. Pruned \in Submissions /\ Pruned.handledSession = session /\ Pruned.unadmitted = None
        /\ ~Pruned.awaiting /\ ~Pruned.submitted /\ Pruned.sentOn = receipt
    BY <1>1, <2>2 DEF Submissions
  <2>4. QED BY <1>1, <1>4, <1>6, <2>1, <2>2, <2>3
<1>7. QED BY <1>5, <1>6

--------------------------------------------------------------------------------
(***************************************************************************)
(* What the steps do: the environment.                                     *)
(***************************************************************************)
Others(k) == \A j \in Projects : j # k => handle'[j] = handle[j]
ClientKept == UNCHANGED <<tracked, handle, submission, task, pass>>

LEMMA MessageFacts ==
  ASSUME Types, NEW s \in Sessions, NEW kind \in {"seen", "done", "refused"}, Tell(s, kind)
  PROVE  /\ inbox' \in Seq(Messages)
         /\ inbox' = IF connected /\ s = session
                       THEN Append(inbox, [kind |-> kind, session |-> s]) ELSE inbox
<1>1. [kind |-> kind, session |-> s] \in Messages /\ inbox \in Seq(Messages)
  BY DEF Messages, Types
<1>2. inbox' = IF connected /\ s = session
                 THEN Append(inbox, [kind |-> kind, session |-> s]) ELSE inbox
  BY DEF Tell
<1>3. QED BY <1>1, <1>2

LEMMA SwitchEffects ==
  ASSUME Types, SwitchAccount, resent' = resent
  PROVE  /\ Types' /\ ClientKept /\ session' = session + 1 /\ session' \in Nat /\ ~connected'
         /\ UNCHANGED <<generation, frames, service, admitted, inbox, age>>
<1>1. session \in Sessions /\ session \in Nat /\ session < MaxSession /\ MaxSession \in Nat
  BY SessionFacts DEF Types, SwitchAccount, ConstantsAreSound
<1>2. session # MaxSession /\ session' = session + 1 /\ connected' = FALSE
  BY <1>1 DEF SwitchAccount
<1>3. session' \in Sessions /\ session' \in Nat
  BY <1>1, <1>2, SessionFacts DEF Types
<1>4. UNCHANGED <<generation, frames, service, admitted, inbox, tracked, handle, submission, age,
                  recheck, task, pass>>
  BY DEF SwitchAccount, serviceVars, clientVars
<1>5. QED BY <1>2, <1>3, <1>4 DEF Types, ClientKept

LEMMA DisconnectEffects ==
  ASSUME Types, Disconnect, resent' = resent
  PROVE  /\ Types' /\ ClientKept /\ ~connected' /\ generation < MaxGeneration
         /\ UNCHANGED <<session, generation, frames, service, admitted, age>>
         /\ \E kept \in 0 .. Len(inbox) : inbox' = SubSeq(inbox, 1, kept)
<1>1. PICK kept \in 0 .. Len(inbox) : inbox' = SubSeq(inbox, 1, kept)
  BY DEF Disconnect
<1>2. inbox \in Seq(Messages)
  BY DEF Types
<1>3. inbox' \in Seq(Messages)
  BY <1>1, <1>2
<1>4. connected' = FALSE /\ generation < MaxGeneration
      /\ UNCHANGED <<session, generation, frames, service, admitted, tracked, handle, submission,
                     age, recheck, task, pass>>
  BY DEF Disconnect, serviceVars, clientVars
<1>5. QED BY <1>1, <1>3, <1>4 DEF Types, ClientKept

LEMMA ReconnectEffects ==
  ASSUME Types, Reconnect, resent' = resent
  PROVE  /\ Types' /\ ClientKept /\ ~connected /\ connected' /\ frames = {}
         /\ generation' = generation + 1 /\ (Late \/ Prompt)
         /\ UNCHANGED <<session, frames, service, admitted, inbox, age>>
<1>1. generation' = generation + 1 /\ generation \in Nat \ {0}
  BY DEF Reconnect, Types
<1>2. generation' \in Nat \ {0}
  BY <1>1
<1>3. /\ ~connected /\ frames = {} /\ connected' = TRUE /\ recheck' = TRUE /\ (Late \/ Prompt)
      /\ UNCHANGED <<session, frames, service, admitted, inbox, tracked, handle, submission, age,
                     task, pass>>
  BY DEF Reconnect, serviceVars
<1>4. QED BY <1>1, <1>2, <1>3 DEF Types, ClientKept

LEMMA AdmitEffects ==
  ASSUME Types, NEW f \in frames, Admit(f), resent' = resent
  PROVE  /\ Types' /\ ClientKept /\ frames' = frames \ {f}
         /\ f.request \in Creators /\ f.session \in Sessions
         /\ admitted'[f.request] = admitted[f.request] + 1
         /\ \A k \in Creators : k # f.request => admitted'[k] = admitted[k]
         /\ service'[f.session].registry = "live"
         /\ \A s \in Sessions : s # f.session => service'[s] = service[s]
         /\ service'[f.session].record = service[f.session].record
         /\ inbox' = inbox \/ inbox' = Append(inbox, [kind |-> "seen", session |-> f.session])
         /\ UNCHANGED <<session, generation, connected, age>>
<1>1. f.request \in Creators /\ f.session \in Sessions
  BY DEF Types, Frames
<1>2. /\ inbox' \in Seq(Messages)
      /\ inbox' = inbox \/ inbox' = Append(inbox, [kind |-> "seen", session |-> f.session])
  BY <1>1, MessageFacts DEF Admit
<1>3. /\ frames' = frames \ {f} /\ admitted' = [admitted EXCEPT ![f.request] = @ + 1]
      /\ service' = [service EXCEPT ![f.session].registry = "live"]
      /\ UNCHANGED <<session, generation, connected, tracked, handle, submission, age, recheck,
                     task, pass>>
  BY DEF Admit, clientVars
<1>4. /\ admitted' \in [Creators -> Nat] /\ admitted'[f.request] = admitted[f.request] + 1
      /\ \A k \in Creators : k # f.request => admitted'[k] = admitted[k]
  BY <1>1, <1>3 DEF Types
<1>5. /\ service' \in [Sessions -> Services] /\ service'[f.session].registry = "live"
      /\ \A s \in Sessions : s # f.session => service'[s] = service[s]
      /\ service'[f.session].record = service[f.session].record
  <2> DEFINE s == f.session
  <2>1. s \in Sessions /\ service \in [Sessions -> Services] /\ service[s] \in Services
    BY <1>1 DEF Types
  <2>2. service' = [service EXCEPT ![s] = [service[s] EXCEPT !.registry = "live"]]
    BY <1>3
  <2> HIDE DEF s
  <2>3. [service[s] EXCEPT !.registry = "live"] \in Services
    BY <2>1 DEF Services
  <2>4. /\ service' \in [Sessions -> Services] /\ service'[s].registry = "live"
        /\ \A r \in Sessions : r # s => service'[r] = service[r]
        /\ service'[s].record = service[s].record
    BY <2>1, <2>2, <2>3 DEF Services
  <2>5. QED BY <2>4 DEF s
<1>6. frames' \in SUBSET Frames
  BY <1>3 DEF Types
<1>7. QED BY <1>1, <1>2, <1>3, <1>4, <1>5, <1>6 DEF Types, ClientKept

LEMMA RefuseEffects ==
  ASSUME Types, NEW f \in frames, Refuse(f), resent' = resent
  PROVE  /\ Types' /\ ClientKept /\ frames' = frames \ {f}
         /\ f.request \in Creators /\ f.session \in Sessions /\ f.generation = generation
         /\ connected
         /\ inbox' = IF f.session = session
                       THEN Append(inbox, [kind |-> "refused", session |-> f.session]) ELSE inbox
         /\ UNCHANGED <<session, generation, connected, service, admitted, age>>
<1>1. f.request \in Creators /\ f.session \in Sessions
  BY DEF Types, Frames
<1>2. /\ frames' = frames \ {f} /\ f.generation = generation /\ connected
      /\ UNCHANGED <<session, generation, connected, service, admitted, tracked, handle, submission,
                     age, recheck, task, pass>>
  BY DEF Refuse, clientVars, serviceVars
<1>3. /\ inbox' \in Seq(Messages)
      /\ inbox' = IF f.session = session
                    THEN Append(inbox, [kind |-> "refused", session |-> f.session]) ELSE inbox
  BY <1>1, <1>2, MessageFacts DEF Refuse
<1>4. frames' \in SUBSET Frames
  BY <1>2 DEF Types
<1>5. QED BY <1>1, <1>2, <1>3, <1>4 DEF Types, ClientKept

LEMMA LoseEffects ==
  ASSUME Types, NEW f \in frames, Lose(f), resent' = resent
  PROVE  /\ Types' /\ ClientKept /\ frames' = frames \ {f}
         /\ UNCHANGED <<session, generation, connected, service, admitted, inbox, age>>
<1>1. /\ frames' = frames \ {f}
      /\ UNCHANGED <<session, generation, connected, service, admitted, inbox, tracked, handle,
                     submission, age, recheck, task, pass>>
  BY DEF Lose, clientVars, serviceVars
<1>2. frames' \in SUBSET Frames
  BY <1>1 DEF Types
<1>3. QED BY <1>1, <1>2 DEF Types, ClientKept

LEMMA RecordEffects ==
  ASSUME Types, NEW s \in Sessions, WriteRecord(s), resent' = resent
  PROVE  /\ Types' /\ ClientKept
         /\ \A r \in Sessions : service'[r].registry = service[r].registry
                                /\ (service[r].record => service'[r].record)
         /\ UNCHANGED <<session, generation, connected, frames, admitted, inbox, age>>
<1>1. /\ service' = [service EXCEPT ![s] = [service[s] EXCEPT !.record = TRUE]]
      /\ UNCHANGED <<session, generation, connected, frames, admitted, inbox, tracked, handle,
                     submission, age, recheck, task, pass>>
  BY DEF WriteRecord, socketVars, clientVars
<1>2. service \in [Sessions -> Services] /\ service[s] \in Services
  BY DEF Types
<1>3. [service[s] EXCEPT !.record = TRUE] \in Services
  BY <1>2 DEF Services
<1>4. /\ service' \in [Sessions -> Services]
      /\ \A r \in Sessions : service'[r].registry = service[r].registry
                             /\ (service[r].record => service'[r].record)
  BY <1>1, <1>2, <1>3 DEF Services
<1>5. QED BY <1>1, <1>4 DEF Types, ClientKept

LEMMA CompleteEffects ==
  ASSUME Types, NEW s \in Sessions, Complete(s), resent' = resent
  PROVE  /\ Types' /\ ClientKept /\ service[s].registry = "live" /\ service[s].record
         /\ service'[s].registry = "gone" /\ service'[s].record
         /\ \A r \in Sessions : r # s => service'[r] = service[r]
         /\ \A p \in Passes : pass[p].pc # "registry" \/ pass[p].session # s
         /\ inbox' = inbox \/ inbox' = Append(inbox, [kind |-> "done", session |-> s])
         /\ UNCHANGED <<session, generation, connected, frames, admitted, age>>
<1>1. /\ service' = [service EXCEPT ![s] = [service[s] EXCEPT !.registry = "gone"]]
      /\ service[s].registry = "live" /\ service[s].record
      /\ \A p \in Passes : pass[p].pc # "registry" \/ pass[p].session # s
      /\ UNCHANGED <<session, generation, connected, frames, admitted, tracked, handle,
                     submission, age, recheck, task, pass>>
  BY DEF Complete, socketVars, clientVars
<1>2. service \in [Sessions -> Services] /\ service[s] \in Services
  BY DEF Types
<1>3. [service[s] EXCEPT !.registry = "gone"] \in Services
  BY <1>2 DEF Services
<1>4. /\ service' \in [Sessions -> Services]
      /\ service'[s].registry = "gone" /\ service'[s].record
      /\ \A r \in Sessions : r # s => service'[r] = service[r]
  BY <1>1, <1>2, <1>3 DEF Services
<1>5. /\ inbox' \in Seq(Messages)
      /\ inbox' = inbox \/ inbox' = Append(inbox, [kind |-> "done", session |-> s])
  BY MessageFacts DEF Complete
<1>6. QED BY <1>1, <1>4, <1>5 DEF Types, ClientKept

LEMMA AgeEffects ==
  ASSUME Types, Age, resent' = resent
  PROVE  /\ Types' /\ ClientKept /\ age' = "old" /\ frames = {} /\ (Late \/ Prompt)
         /\ UNCHANGED <<session, generation, connected, frames, service, admitted, inbox>>
<1>1. /\ age' = "old" /\ frames = {} /\ (Late \/ Prompt)
      /\ UNCHANGED <<session, generation, connected, frames, service, admitted, inbox, tracked,
                     handle, submission, recheck, task, pass>>
  BY DEF Age, socketVars, serviceVars
<1>2. QED BY <1>1 DEF Types, ClientKept

--------------------------------------------------------------------------------
(***************************************************************************)
(* What the steps do: the creations.                                       *)
(***************************************************************************)
Frame(k) == [request |-> k, session |-> session, generation |-> generation]
Wider(k) == frames' = frames \cup {Frame(k)}
WorldKept == UNCHANGED <<session, generation, connected, service, admitted, inbox>>

LEMMA WriteEffects ==
  ASSUME Types, NEW k \in Creators, NEW s, Write(k, s)
  PROVE  connected /\ s = session /\ frames' \in SUBSET Frames /\ Wider(k)
         /\ UNCHANGED <<generation, connected>>
<1>1. connected /\ s = session /\ Wider(k) /\ UNCHANGED <<generation, connected>>
  BY DEF Write, Wider, Frame
<1>2. Frame(k) \in Frames
  BY DEF Frame, Frames, Types
<1>3. QED BY <1>1, <1>2 DEF Types, Wider

LEMMA NotDueFacts ==
  ASSUME Types
  PROVE  /\ NotDue \in [Passes -> RecoveryPasses]
         /\ \A p \in Passes : NotDue[p] = [pass[p] EXCEPT !.due = FALSE]
<1>1. ASSUME NEW p \in Passes PROVE [pass[p] EXCEPT !.due = FALSE] \in RecoveryPasses
  <2>1. pass[p] \in RecoveryPasses
    BY DEF Types
  <2>2. QED BY <2>1 DEF RecoveryPasses
<1>2. QED BY <1>1 DEF NotDue

(* A pass goes on at another place, or, but for its view of the age, as it was *)
Moves(p, pc) ==
  /\ pass'[p].pc = pc /\ pass'[p].kind = pass[p].kind
  /\ pass'[p].session = pass[p].session /\ pass'[p].returned = pass[p].returned
  /\ pass'[p].project = pass[p].project /\ pass'[p].seen = pass[p].seen
  /\ pass'[p].request = pass[p].request /\ pass'[p].generation = pass[p].generation
SamePass(p) == Moves(p, pass[p].pc)
OtherPasses(p) == \A q \in Passes : q # p => SamePass(q)
SamePasses == \A p \in Passes : SamePass(p)

LEMMA SamePassFacts ==
  ASSUME Types
  PROVE  /\ pass' = pass => SamePasses
         /\ pass' = NotDue => SamePasses
<1>1. pass' = pass => SamePasses
  BY DEF SamePasses, SamePass, Moves
<1>2. ASSUME pass' = NotDue, NEW p \in Passes PROVE SamePass(p)
  <2>1. pass'[p] = [pass[p] EXCEPT !.due = FALSE] /\ pass[p] \in RecoveryPasses
    BY <1>2, NotDueFacts DEF Types
  <2>2. QED BY <2>1 DEF SamePass, Moves, RecoveryPasses
<1>3. QED BY <1>1, <1>2 DEF SamePasses

LEMMA BeginEffects ==
  ASSUME Types, Bounds, OwnState, NEW k \in Creators, Begin(k), resent' = resent
  PROVE  /\ Types' /\ WorldKept /\ UNCHANGED <<frames, age, task, pass>>
         /\ handle[k].pc = "idle" /\ Reusable
         /\ tracked' = Kept /\ submission' = Pruned
         /\ handle'[k].pc = "prepared" /\ handle'[k].session = session
         /\ SameFate(handle'[k], Ended[k])
         /\ \A j \in Projects : j # k => handle'[j] = Ended[j]
<1>1. /\ handle[k].pc = "idle" /\ Reusable /\ tracked' = Kept /\ submission' = Pruned
      /\ recheck' = (recheck /\ submission.handledSession = session)
      /\ WorldKept /\ UNCHANGED <<frames, age, task, pass>>
  BY DEF Begin, CreateSide, NoEnvironment, WorldKept, socketVars, serviceVars
<1>2. /\ k \in Projects /\ session \in Sessions
      /\ Ended \in [Projects -> Handles] /\ Ended[k] \in Handles
  BY Pruning, ProjectFacts DEF Types
<1>3. handle' = [Ended EXCEPT ![k] = [Ended[k] EXCEPT !.pc = "prepared", !.session = session]]
  BY <1>2 DEF Begin
<1>4. [Ended[k] EXCEPT !.pc = "prepared", !.session = session] \in Handles
  BY <1>2 DEF Handles
<1>5. /\ handle' \in [Projects -> Handles]
      /\ handle'[k].pc = "prepared" /\ handle'[k].session = session
      /\ SameFate(handle'[k], Ended[k])
      /\ \A j \in Projects : j # k => handle'[j] = Ended[j]
  BY <1>2, <1>3, <1>4 DEF Handles, SameFate
<1>6. /\ tracked' \in Projects \cup {None} /\ submission' \in Submissions
      /\ recheck' \in BOOLEAN
  BY <1>1, Pruning DEF Types
<1>7. QED BY <1>1, <1>5, <1>6 DEF Types, WorldKept

LEMMA TrackEffects ==
  ASSUME Types, NEW k \in Creators, Track(k), resent' = resent
  PROVE  /\ Types' /\ WorldKept /\ UNCHANGED <<frames, task>> /\ SamePasses
         /\ handle[k].pc = "prepared" /\ handle[k].session = session
         /\ tracked = None /\ tracked' = k
         /\ handle'[k].pc = "sending" /\ handle'[k].session = session
         /\ handle'[k].status = "open" /\ handle'[k].cause = handle[k].cause
         /\ Others(k)
         /\ submission'.unadmitted = k
         /\ submission'.awaiting = submission.awaiting
         /\ submission'.submitted = submission.submitted
         /\ submission'.sentOn = submission.sentOn
         /\ submission'.handledSession = Handled
         /\ age' = age \/ age' = "recent"
<1>1. /\ handle[k].pc = "prepared" /\ handle[k].session = session
      /\ tracked = None /\ tracked' = k
      /\ submission' = [submission EXCEPT !.unadmitted = k]
      /\ age' = IF submission.submitted THEN age ELSE "recent"
      /\ pass' = IF submission.submitted THEN pass ELSE NotDue
      /\ WorldKept /\ UNCHANGED <<frames, task, recheck>>
  BY DEF Track, CreateSide, NoEnvironment, WorldKept, socketVars, serviceVars
<1>2. /\ k \in Projects /\ handle \in [Projects -> Handles] /\ handle[k] \in Handles
      /\ submission \in Submissions
  BY ProjectFacts DEF Types
<1>3. handle' = [handle EXCEPT ![k] = [handle[k] EXCEPT !.pc = "sending", !.status = "open"]]
  BY <1>2 DEF Track
<1>4. [handle[k] EXCEPT !.pc = "sending", !.status = "open"] \in Handles
  BY <1>2 DEF Handles
<1>5. /\ handle' \in [Projects -> Handles] /\ Others(k)
      /\ handle'[k].pc = "sending" /\ handle'[k].session = session
      /\ handle'[k].status = "open" /\ handle'[k].cause = handle[k].cause
  BY <1>1, <1>2, <1>3, <1>4 DEF Handles, Others
<1>6. /\ submission' \in Submissions /\ submission'.unadmitted = k
      /\ submission'.awaiting = submission.awaiting
      /\ submission'.submitted = submission.submitted
      /\ submission'.sentOn = submission.sentOn
      /\ submission'.handledSession = Handled
  BY <1>1, <1>2 DEF Submissions, Handled
<1>7. SamePasses /\ pass' \in [Passes -> RecoveryPasses]
  BY <1>1, SamePassFacts, NotDueFacts DEF Types
<1>8. age' \in {"recent", "old"} /\ (age' = age \/ age' = "recent")
  BY <1>1 DEF Types
<1>9. tracked' \in Projects \cup {None}
  BY <1>1, <1>2
<1>10. QED BY <1>1, <1>5, <1>6, <1>7, <1>8, <1>9 DEF Types, WorldKept

LEMMA NotTrackedEffects ==
  ASSUME Types, NEW k \in Creators, NotTracked(k), resent' = resent
  PROVE  /\ Types' /\ WorldKept /\ UNCHANGED <<frames, tracked, submission, age, task, pass>>
         /\ handle[k].pc = "prepared" /\ handle'[k].pc = "failed"
         /\ handle'[k].session = handle[k].session /\ SameFate(handle'[k], handle[k])
         /\ Others(k)
<1>1. /\ handle[k].pc = "prepared"
      /\ WorldKept /\ UNCHANGED <<frames, tracked, submission, age, recheck, task, pass>>
  BY DEF NotTracked, CreateSide, NoEnvironment, WorldKept, socketVars, serviceVars
<1>2. k \in Projects /\ handle \in [Projects -> Handles] /\ handle[k] \in Handles
  BY ProjectFacts DEF Types
<1>3. handle' = [handle EXCEPT ![k] = [handle[k] EXCEPT !.pc = "failed"]]
  BY <1>2 DEF NotTracked
<1>4. [handle[k] EXCEPT !.pc = "failed"] \in Handles
  BY <1>2 DEF Handles
<1>5. /\ handle' \in [Projects -> Handles] /\ Others(k)
      /\ handle'[k].pc = "failed"
      /\ handle'[k].session = handle[k].session /\ SameFate(handle'[k], handle[k])
  BY <1>2, <1>3, <1>4 DEF Handles, Others, SameFate
<1>6. QED BY <1>1, <1>5 DEF Types, WorldKept

LEMMA WriteRequestEffects ==
  ASSUME Types, NEW k \in Creators, WriteRequest(k), resent' = resent
  PROVE  /\ Types' /\ WorldKept /\ UNCHANGED <<tracked, submission, age, task, pass>>
         /\ Wider(k) /\ connected
         /\ handle[k].pc = "sending" /\ handle[k].session = session
         /\ handle'[k].pc = "wrote" /\ handle'[k].session = session
         /\ handle'[k].generation = generation /\ SameFate(handle'[k], handle[k])
         /\ Others(k)
<1>1. /\ handle[k].pc = "sending" /\ Write(k, handle[k].session)
      /\ UNCHANGED <<session, service, admitted, inbox, tracked, submission, age, recheck, task, pass>>
  BY DEF WriteRequest, CreateSide, NoEnvironment, serviceVars
<1>2. /\ k \in Projects /\ handle \in [Projects -> Handles] /\ handle[k] \in Handles
      /\ generation \in Nat
  BY ProjectFacts DEF Types
<1>3. /\ connected /\ handle[k].session = session /\ frames' \in SUBSET Frames /\ Wider(k)
      /\ UNCHANGED <<generation, connected>>
  BY <1>1, WriteEffects
<1>4. handle' = [handle EXCEPT ![k] = [handle[k] EXCEPT !.pc = "wrote", !.generation = generation]]
  BY <1>2 DEF WriteRequest
<1>5. [handle[k] EXCEPT !.pc = "wrote", !.generation = generation] \in Handles
  BY <1>2 DEF Handles
<1>6. /\ handle' \in [Projects -> Handles] /\ Others(k)
      /\ handle'[k].pc = "wrote" /\ handle'[k].session = session
      /\ handle'[k].generation = generation /\ SameFate(handle'[k], handle[k])
  BY <1>2, <1>3, <1>4, <1>5 DEF Handles, Others, SameFate
<1>7. QED BY <1>1, <1>3, <1>6 DEF Types, WorldKept

LEMMA ConfirmEffects ==
  ASSUME Types, NEW k \in Creators, Confirm(k), resent' = resent
  PROVE  /\ Types' /\ WorldKept /\ UNCHANGED <<frames, tracked, age, task, pass>>
         /\ handle[k].pc = "wrote" /\ handle[k].session = session
         /\ handle'[k].pc = "created" /\ handle'[k].session = session
         /\ handle'[k].generation = handle[k].generation /\ SameFate(handle'[k], handle[k])
         /\ Others(k)
         /\ submission'.unadmitted = submission.unadmitted
         /\ submission'.awaiting = submission.awaiting
         /\ submission'.submitted = submission.submitted
         /\ submission'.handledSession = Handled
         /\ \/ submission.unadmitted = None /\ submission'.sentOn = submission.sentOn
            \/ /\ submission.unadmitted # None
               /\ submission'.sentOn = [generation |-> handle[k].generation, session |-> session]
<1>1. /\ handle[k].pc = "wrote" /\ handle[k].session = session
      /\ submission' = IF submission.unadmitted = None
           THEN submission
           ELSE [submission EXCEPT !.sentOn = [generation |-> handle[k].generation,
                                               session |-> session]]
      /\ WorldKept /\ UNCHANGED <<frames, tracked, age, recheck, task, pass>>
  BY DEF Confirm, CreateSide, NoEnvironment, WorldKept, socketVars, serviceVars
<1>2. /\ k \in Projects /\ handle \in [Projects -> Handles] /\ handle[k] \in Handles
      /\ submission \in Submissions /\ session \in Sessions
  BY ProjectFacts DEF Types
<1>3. handle' = [handle EXCEPT ![k] = [handle[k] EXCEPT !.pc = "created"]]
  BY <1>2 DEF Confirm
<1>4. [handle[k] EXCEPT !.pc = "created"] \in Handles
  BY <1>2 DEF Handles
<1>5. /\ handle' \in [Projects -> Handles] /\ Others(k)
      /\ handle'[k].pc = "created" /\ handle'[k].session = session
      /\ handle'[k].generation = handle[k].generation /\ SameFate(handle'[k], handle[k])
  BY <1>1, <1>2, <1>3, <1>4 DEF Handles, Others, SameFate
<1>6. [generation |-> handle[k].generation, session |-> session] \in Receipts
  BY <1>2 DEF Handles, Receipts
<1>7. /\ submission' \in Submissions
      /\ submission'.unadmitted = submission.unadmitted
      /\ submission'.awaiting = submission.awaiting
      /\ submission'.submitted = submission.submitted
      /\ submission'.handledSession = Handled
      /\ \/ submission.unadmitted = None /\ submission'.sentOn = submission.sentOn
         \/ /\ submission.unadmitted # None
            /\ submission'.sentOn = [generation |-> handle[k].generation, session |-> session]
  BY <1>1, <1>2, <1>6 DEF Submissions, Handled
<1>8. QED BY <1>1, <1>5, <1>7 DEF Types, WorldKept

LEMMA SendFailsEffects ==
  ASSUME Types, NEW k \in Creators, SendFails(k), resent' = resent
  PROVE  /\ Types' /\ WorldKept /\ UNCHANGED <<frames, age, task, pass>>
         /\ handle[k].pc \in {"sending", "wrote"} /\ handle'[k].pc = "failed"
         /\ handle'[k].session = handle[k].session
         /\ \/ SameFate(handle'[k], handle[k])
            \/ handle[k].session # session /\ Fails(handle'[k], handle[k], "session")
         /\ Others(k)
         /\ \/ tracked = k /\ tracked' = None /\ submission'.unadmitted = None
            \/ tracked # k /\ tracked' = tracked /\ submission' = submission
         /\ submission'.awaiting = submission.awaiting
         /\ submission'.submitted = submission.submitted
         /\ submission'.sentOn = submission.sentOn
         /\ submission'.handledSession = Handled
<1> DEFINE old == IF handle[k].session # session THEN Failed(k, "session") ELSE handle
<1>1. /\ handle[k].pc \in {"sending", "wrote"}
      /\ tracked' = IF tracked = k THEN None ELSE tracked
      /\ submission' = IF tracked = k THEN [submission EXCEPT !.unadmitted = None] ELSE submission
      /\ WorldKept /\ UNCHANGED <<frames, age, recheck, task, pass>>
  BY DEF SendFails, CreateSide, NoEnvironment, WorldKept, socketVars, serviceVars
<1>2. handle' = [old EXCEPT ![k].pc = "failed"]
  BY DEF SendFails
<1>3. /\ k \in Projects /\ handle \in [Projects -> Handles] /\ submission \in Submissions
  BY ProjectFacts DEF Types
<1>4. /\ old \in [Projects -> Handles] /\ SameCall(old[k], handle[k])
      /\ \A j \in Projects : j # k => old[j] = handle[j]
      /\ \/ SameFate(old[k], handle[k])
         \/ handle[k].session # session /\ Fails(old[k], handle[k], "session")
  <2>1. CASE handle[k].session = session
    BY <1>3, <2>1 DEF SameCall, SameFate
  <2>2. CASE handle[k].session # session
    <3>1. old = Failed(k, "session")
      BY <2>2
    <3> HIDE DEF old
    <3>2. /\ old \in [Projects -> Handles] /\ SameCall(old[k], handle[k])
          /\ \A j \in Projects : j # k => old[j] = handle[j]
      BY <1>3, <3>1, FailedFacts DEF Causes
    <3>3. old = handle \/ Fails(old[k], handle[k], "session")
      BY <1>3, <3>1, FailedFacts DEF Causes
    <3>4. QED BY <2>2, <3>2, <3>3 DEF SameFate
  <2>3. QED BY <2>1, <2>2
<1> HIDE DEF old
<1>5. old[k] \in Handles
  BY <1>3, <1>4
<1>6. [old[k] EXCEPT !.pc = "failed"] \in Handles
  BY <1>5 DEF Handles
<1>7. handle' = [old EXCEPT ![k] = [old[k] EXCEPT !.pc = "failed"]]
  BY <1>2, <1>3, <1>4
<1>8. handle' \in [Projects -> Handles] /\ Others(k) /\ handle'[k] = [old[k] EXCEPT !.pc = "failed"]
  BY <1>3, <1>4, <1>6, <1>7 DEF Others
<1>9. /\ handle'[k].pc = "failed" /\ handle'[k].session = handle[k].session
      /\ \/ SameFate(handle'[k], handle[k])
         \/ handle[k].session # session /\ Fails(handle'[k], handle[k], "session")
  BY <1>4, <1>5, <1>8 DEF Handles, SameCall, SameFate, Fails
<1>10. /\ submission' \in Submissions
       /\ \/ tracked = k /\ tracked' = None /\ submission'.unadmitted = None
          \/ tracked # k /\ tracked' = tracked /\ submission' = submission
       /\ submission'.awaiting = submission.awaiting
       /\ submission'.submitted = submission.submitted
       /\ submission'.sentOn = submission.sentOn
       /\ submission'.handledSession = Handled
  BY <1>1, <1>3 DEF Submissions, Handled
<1>11. tracked' \in Projects \cup {None}
  BY <1>1 DEF Types
<1>12. QED BY <1>1, <1>8, <1>9, <1>10, <1>11 DEF Types, WorldKept

--------------------------------------------------------------------------------
(***************************************************************************)
(* What the steps do: the listener and the restart tasks.                  *)
(***************************************************************************)
(* All that was kept of the ended account is retired *)
Retired ==
  /\ Handled # session /\ tracked' = None
  /\ submission'.unadmitted = None /\ ~submission'.awaiting /\ ~submission'.submitted
  /\ submission'.handledSession = session
  /\ submission'.sentOn = NoReceipt \/ submission'.sentOn = submission.sentOn
  /\ submission'.sentOn.session = session \/ submission'.sentOn = NoReceipt
EndedAll == \A j \in Projects : EndedWith(j, handle')

LEMMA PrunedRetires ==
  ASSUME Types, Bounds, OwnState, Handled # session, tracked' = Kept, submission' = Pruned
  PROVE  Retired
BY Pruning DEF Retired

LEMMA SwitchHeardEffects ==
  ASSUME Types, Bounds, OwnState, HearSwitch, resent' = resent
  PROVE  Types' /\ WorldKept /\ UNCHANGED <<frames, age, task, pass>> /\ Retired /\ EndedAll
<1>1. /\ tracked' = Kept /\ submission' = Pruned /\ handle' = Ended
      /\ recheck' = (recheck /\ submission.handledSession = session)
      /\ WorldKept /\ UNCHANGED <<frames, age, task, pass>>
  BY DEF HearSwitch, Clear, WorldKept, socketVars, serviceVars
<1>2. Handled # session
  BY DEF HearSwitch, Retires, OwnState, Kin, Handled
<1>3. Retired
  BY <1>1, <1>2, PrunedRetires
<1>4. EndedAll
  BY <1>1, Pruning DEF EndedAll
<1>5. /\ tracked' \in Projects \cup {None} /\ submission' \in Submissions
      /\ handle' \in [Projects -> Handles] /\ recheck' \in BOOLEAN
  BY <1>1, Pruning DEF Types
<1>6. QED BY <1>1, <1>3, <1>4, <1>5 DEF Types, WorldKept

LEMMA ObservedFacts ==
  ASSUME ConstantsAreSound, NEW sub \in Submissions
  PROVE  /\ Observed(sub) \in Submissions /\ Observed(sub).unadmitted = None
         /\ Observed(sub).awaiting = sub.awaiting /\ Observed(sub).submitted = sub.submitted
         /\ Observed(sub).sentOn = NoReceipt /\ Observed(sub).handledSession = sub.handledSession
<1>1. NoReceipt \in Receipts
  BY IdleFacts
<1>2. QED BY <1>1 DEF Observed, Submissions

(* The request is known to the service *)
IsObserved ==
  /\ submission'.unadmitted = None /\ submission'.sentOn = NoReceipt
  /\ submission'.awaiting = submission.awaiting /\ submission'.submitted = submission.submitted
  /\ submission'.handledSession = Handled
(* The project may be done *)
Done(j) ==
  /\ SameCall(handle'[j], handle[j]) /\ handle'[j].cause = handle[j].cause
  /\ handle'[j].status = handle[j].status \/ handle'[j].status = "done"
DoneIs(k) == Others(k) /\ Done(k)

HearsNothing == UNCHANGED <<handle, submission, task>>
HearsEvidence ==
  /\ Heard.kind \in {"seen", "done"} /\ Heard.session = session
  /\ IsObserved /\ task' = task
  /\ handle' = handle \/ (tracked # None /\ DoneIs(tracked))
HearsRefusal ==
  /\ Heard.kind = "refused" /\ Heard.session = session
  /\ Open(tracked) /\ submission.unadmitted = None
  /\ UNCHANGED <<submission, task>>
  /\ SameCall(handle'[tracked], handle[tracked]) /\ Others(tracked)
  /\ Fails(handle'[tracked], handle[tracked], "refused")
HearsRestart ==
  /\ Heard.kind = "refused" /\ Heard.session = session
  /\ Open(tracked) /\ ~submission.awaiting /\ submission.unadmitted # None
  /\ handle' = handle
  /\ submission'.unadmitted = None /\ submission'.awaiting
  /\ submission'.submitted = submission.submitted
  /\ submission'.sentOn = submission.sentOn
  /\ submission'.handledSession = Handled
  /\ task'[tracked] = [pc |-> "waiting", session |-> session,
                       request |-> submission.unadmitted, since |-> generation]
  /\ \A j \in Projects : j # tracked => task'[j] = task[j]

LEMMA RestartFacts ==
  ASSUME Types, AwaitRestart(submission), Tracked = tracked, tracked \in Projects,
         submission.unadmitted # None
  PROVE  /\ submission' \in Submissions /\ task' \in [Projects -> Tasks]
         /\ submission'.unadmitted = None /\ submission'.awaiting
         /\ submission'.submitted = submission.submitted
         /\ submission'.sentOn = submission.sentOn
         /\ submission'.handledSession = Handled
         /\ task'[tracked] = [pc |-> "waiting", session |-> session,
                              request |-> submission.unadmitted, since |-> generation]
         /\ \A j \in Projects : j # tracked => task'[j] = task[j]
<1> DEFINE new == [pc |-> "waiting", session |-> session,
                   request |-> submission.unadmitted, since |-> generation]
<1>1. submission \in Submissions /\ task \in [Projects -> Tasks] /\ session \in Sessions
      /\ generation \in Nat
  BY DEF Types
<1>2. new \in Tasks
  BY <1>1 DEF Tasks, Submissions
<1>3. submission' = [submission EXCEPT !.awaiting = TRUE, !.unadmitted = None]
  BY DEF AwaitRestart
<1>4. task' = [task EXCEPT ![tracked] = new]
  BY DEF AwaitRestart
<1>5. /\ submission' \in Submissions
      /\ submission'.unadmitted = None /\ submission'.awaiting
      /\ submission'.submitted = submission.submitted
      /\ submission'.sentOn = submission.sentOn
      /\ submission'.handledSession = Handled
  BY <1>1, <1>3 DEF Submissions, Handled
<1> HIDE DEF new
<1>6. /\ task' \in [Projects -> Tasks] /\ task'[tracked] = new
      /\ \A j \in Projects : j # tracked => task'[j] = task[j]
  BY <1>1, <1>2, <1>4
<1>7. QED BY <1>5, <1>6 DEF new

LEMMA HearEffects ==
  ASSUME Types, Bounds, OwnState, Hear, resent' = resent
  PROVE  /\ Types'
         /\ UNCHANGED <<session, generation, connected, frames, service, admitted, age, pass>>
         /\ inbox # <<>> /\ inbox' = Tail(inbox) /\ inbox' \in Seq(Messages)
         /\ \/ Retired /\ EndedAll /\ task' = task
            \/ /\ Handled = session /\ tracked' = tracked
               /\ HearsNothing \/ HearsEvidence \/ HearsRefusal \/ HearsRestart
<1>1. /\ inbox # <<>> /\ inbox' = Tail(inbox) /\ (HearEvidence \/ HearRefusal)
      /\ recheck' = (recheck /\ submission.handledSession = session)
      /\ UNCHANGED <<session, generation, connected, frames, service, admitted, age, pass>>
  BY DEF Hear, socketVars, serviceVars
<1>2. inbox' \in Seq(Messages) /\ recheck' \in BOOLEAN
  BY <1>1 DEF Types
<1>3. /\ tracked' = Kept /\ Kept \in Projects \cup {None}
      /\ None \notin Projects /\ handle \in [Projects -> Handles] /\ submission \in Submissions
      /\ task \in [Projects -> Tasks] /\ ConstantsAreSound
  BY <1>1, Pruning, ProjectFacts DEF HearEvidence, HearRefusal, Types
<1>4. CASE Handled # session
  <2>1. /\ Tracked = None /\ ~Open(Tracked) /\ Ended \in [Projects -> Handles]
        /\ \A j \in Projects : EndedWith(j, Ended)
    BY <1>4, Pruning DEF Tracked, Open
  <2>2. /\ handle' = Ended /\ task' = task
        /\ submission' = Pruned \/ submission' = Observed(Pruned)
    BY <1>1, <2>1 DEF HearEvidence, HearRefusal
  <2>3. submission' \in Submissions /\ Retired
    <3>1. CASE submission' = Pruned
      BY <1>3, <1>4, <3>1, Pruning, PrunedRetires
    <3>2. CASE submission' = Observed(Pruned)
      BY <1>3, <1>4, <3>2, Pruning, ObservedFacts DEF Retired
    <3>3. QED BY <2>2, <3>1, <3>2
  <2>4. EndedAll /\ handle' \in [Projects -> Handles]
    BY <2>1, <2>2 DEF EndedAll
  <2>5. Types'
    BY <1>1, <1>2, <1>3, <2>2, <2>3, <2>4 DEF Types
  <2>6. QED BY <1>1, <1>2, <2>2, <2>3, <2>4, <2>5
<1>5. CASE Handled = session
  <2>1. /\ Kept = tracked /\ Ended = handle /\ Pruned = submission
        /\ tracked # None => Tracked = tracked /\ tracked \in Projects
        /\ tracked = None => Tracked = None
    <3>1. Kept = tracked /\ Ended = handle /\ Pruned = submission
      BY <1>5, Pruning
    <3>2. tracked # None => handle[tracked].session = session
      BY <1>5 DEF OwnState, Kin
    <3>3. QED BY <1>3, <3>1, <3>2 DEF Tracked
  <2>2. CASE HearEvidence
    <3>1. CASE Heard.session # session
      <4>1. HearsNothing
        BY <2>1, <2>2, <3>1 DEF HearEvidence, HearsNothing
      <4>2. Types'
        BY <1>1, <1>2, <1>3, <4>1 DEF Types, HearsNothing
      <4>3. QED BY <1>1, <1>2, <1>3, <1>5, <2>1, <4>1, <4>2
    <3>2. CASE Heard.session = session
      <4>1. /\ submission' = Observed(submission) /\ task' = task
            /\ Heard.kind \in {"seen", "done"}
            /\ handle' = IF Heard.kind = "done" /\ Tracked # None
                           THEN [handle EXCEPT ![Tracked].status = "done"] ELSE handle
        BY <2>1, <2>2, <3>2 DEF HearEvidence
      <4>2. submission' \in Submissions /\ IsObserved
        BY <1>3, <4>1, ObservedFacts DEF IsObserved, Handled
      <4>3. handle' \in [Projects -> Handles]
            /\ (handle' = handle \/ (tracked # None /\ DoneIs(tracked)))
        <5>1. CASE handle' = handle
          BY <1>3, <5>1
        <5>2. CASE handle' # handle
          <6>1. /\ tracked \in Projects /\ tracked # None
                /\ handle' = [handle EXCEPT ![tracked] = [handle[tracked] EXCEPT !.status = "done"]]
            BY <2>1, <4>1, <5>2
          <6>2. handle[tracked] \in Handles
            BY <1>3, <6>1
          <6>3. [handle[tracked] EXCEPT !.status = "done"] \in Handles
            BY <6>2 DEF Handles
          <6>4. QED BY <1>3, <6>1, <6>2, <6>3 DEF DoneIs, Done, Others, SameCall, Handles
        <5>3. QED BY <5>1, <5>2
      <4>4. Types'
        BY <1>1, <1>2, <1>3, <4>1, <4>2, <4>3 DEF Types
      <4>5. QED BY <1>1, <1>2, <1>3, <1>5, <2>1, <3>2, <4>1, <4>2, <4>3, <4>4 DEF HearsEvidence
    <3>3. QED BY <3>1, <3>2
  <2>3. CASE HearRefusal
    <3>1. /\ Heard.kind = "refused" /\ Heard.session = session
          /\ \/ HearsNothing
             \/ /\ Open(Tracked) /\ submission.unadmitted = None
                /\ submission' = submission /\ handle' = Failed(Tracked, "refused") /\ task' = task
             \/ /\ Open(Tracked) /\ ~submission.awaiting /\ submission.unadmitted # None
                /\ AwaitRestart(submission) /\ handle' = handle
      BY <2>1, <2>3 DEF HearRefusal, HearsNothing
    <3>2. CASE HearsNothing
      <4>1. Types'
        BY <1>1, <1>2, <1>3, <3>2 DEF Types, HearsNothing
      <4>2. QED BY <1>1, <1>2, <1>3, <1>5, <2>1, <3>2, <4>1
    <3>3. CASE /\ Open(Tracked) /\ submission.unadmitted = None
               /\ submission' = submission /\ handle' = Failed(Tracked, "refused") /\ task' = task
      <4>1. tracked \in Projects /\ Tracked = tracked /\ Open(tracked)
        BY <2>1, <3>3 DEF Open
      <4>2. /\ handle' \in [Projects -> Handles]
            /\ SameCall(handle'[tracked], handle[tracked]) /\ Others(tracked)
            /\ Fails(handle'[tracked], handle[tracked], "refused")
        BY <3>3, <4>1, FailedFacts DEF Others, Causes
      <4>3. HearsRefusal
        BY <3>1, <3>3, <4>1, <4>2 DEF HearsRefusal
      <4>4. Types'
        BY <1>1, <1>2, <1>3, <3>3, <4>2 DEF Types
      <4>5. QED BY <1>1, <1>2, <1>3, <1>5, <2>1, <4>3, <4>4
    <3>4. CASE /\ Open(Tracked) /\ ~submission.awaiting /\ submission.unadmitted # None
               /\ AwaitRestart(submission) /\ handle' = handle
      <4>1. tracked \in Projects /\ Tracked = tracked /\ Open(tracked)
        BY <2>1, <3>4 DEF Open
      <4>2. HearsRestart /\ submission' \in Submissions /\ task' \in [Projects -> Tasks]
        BY <3>1, <3>4, <4>1, RestartFacts DEF HearsRestart
      <4>3. Types'
        BY <1>1, <1>2, <1>3, <3>4, <4>2 DEF Types
      <4>4. QED BY <1>1, <1>2, <1>3, <1>5, <2>1, <4>2, <4>3
    <3>5. QED BY <3>1, <3>2, <3>3, <3>4
  <2>4. QED BY <1>1, <2>2, <2>3
<1>6. QED BY <1>4, <1>5

OtherTasks(k) == \A j \in Projects : j # k => task'[j] = task[j]
SameTask(k) ==
  /\ task'[k].session = task[k].session /\ task'[k].request = task[k].request
  /\ task'[k].since = task[k].since

LEMMA ResumeEffects ==
  ASSUME Types, NEW k \in Projects, ResumeTask(k), resent' = resent
  PROVE  /\ Types' /\ WorldKept /\ UNCHANGED <<frames, tracked, handle, age, pass>>
         /\ task[k].pc = "waiting" /\ task[k].session = session
         /\ connected /\ generation > task[k].since
         /\ submission'.submitted = submission.submitted
         /\ submission'.sentOn = submission.sentOn
         /\ submission'.handledSession = Handled
         /\ OtherTasks(k)
         /\ \/ /\ Open(k) /\ task'[k].pc = "writing" /\ SameTask(k)
               /\ submission'.unadmitted = task[k].request
               /\ submission'.awaiting = submission.awaiting
            \/ /\ ~Open(k) /\ task'[k] = NoTask
               /\ submission'.unadmitted = submission.unadmitted /\ ~submission'.awaiting
<1>1. /\ task[k].pc = "waiting" /\ task[k].session = session
      /\ connected /\ generation > task[k].since
      /\ UNCHANGED <<session, generation, connected, frames, service, admitted, inbox, tracked,
                     handle, age, pass>>
  BY DEF ResumeTask, TaskSide, NoEnvironment, socketVars, serviceVars
<1>2. /\ task \in [Projects -> Tasks] /\ task[k] \in Tasks /\ NoTask \in Tasks
      /\ submission \in Submissions
  BY IdleFacts DEF Types
<1>3. task[k].request \in Creators \cup {None}
  BY <1>2 DEF Tasks
<1>4. CASE Open(k)
  <2>1. /\ submission' = [submission EXCEPT !.unadmitted = task[k].request]
        /\ task' = [task EXCEPT ![k] = [task[k] EXCEPT !.pc = "writing"]]
        /\ recheck' = recheck
    BY <1>4 DEF ResumeTask
  <2>2. [task[k] EXCEPT !.pc = "writing"] \in Tasks
    BY <1>2 DEF Tasks
  <2>3. task' \in [Projects -> Tasks] /\ task'[k].pc = "writing" /\ SameTask(k) /\ OtherTasks(k)
    BY <1>2, <2>1, <2>2 DEF SameTask, OtherTasks, Tasks
  <2>4. /\ submission' \in Submissions /\ submission'.unadmitted = task[k].request
        /\ submission'.awaiting = submission.awaiting
        /\ submission'.submitted = submission.submitted
        /\ submission'.sentOn = submission.sentOn
        /\ submission'.handledSession = Handled
    BY <1>2, <1>3, <2>1 DEF Submissions, Handled
  <2>5. Types'
    BY <1>1, <2>1, <2>3, <2>4 DEF Types
  <2>6. QED BY <1>1, <1>4, <2>3, <2>4, <2>5 DEF WorldKept
<1>5. CASE ~Open(k)
  <2>1. /\ submission' = [submission EXCEPT !.awaiting = FALSE]
        /\ task' = [task EXCEPT ![k] = NoTask] /\ recheck' = TRUE
    BY <1>5 DEF ResumeTask
  <2>2. task' \in [Projects -> Tasks] /\ task'[k] = NoTask /\ OtherTasks(k)
    BY <1>2, <2>1 DEF OtherTasks
  <2>3. /\ submission' \in Submissions /\ ~submission'.awaiting
        /\ submission'.unadmitted = submission.unadmitted
        /\ submission'.submitted = submission.submitted
        /\ submission'.sentOn = submission.sentOn
        /\ submission'.handledSession = Handled
    BY <1>2, <2>1 DEF Submissions, Handled
  <2>4. Types'
    BY <1>1, <2>1, <2>2, <2>3 DEF Types
  <2>5. QED BY <1>1, <1>5, <2>2, <2>3, <2>4 DEF WorldKept
<1>6. QED BY <1>4, <1>5

LEMMA WriteAgainEffects ==
  ASSUME Types, NEW k \in Projects, task[k].request \in Creators, WriteAgain(k),
         resent' = resent
  PROVE  /\ Types' /\ WorldKept /\ UNCHANGED <<tracked, handle, submission, age, pass>>
         /\ connected /\ task[k].pc = "writing" /\ task[k].session = session
         /\ Wider(task[k].request)
         /\ task'[k].pc = "wrote" /\ SameTask(k) /\ OtherTasks(k)
<1>1. /\ task[k].pc = "writing" /\ Write(task[k].request, task[k].session)
      /\ UNCHANGED <<session, service, admitted, inbox, tracked, handle, submission, age, recheck,
                     pass>>
  BY DEF WriteAgain, TaskSide, NoEnvironment, serviceVars
<1>2. /\ connected /\ task[k].session = session /\ frames' \in SUBSET Frames
      /\ Wider(task[k].request) /\ UNCHANGED <<generation, connected>>
  BY <1>1, WriteEffects
<1>3. task' = [task EXCEPT ![k] = [task[k] EXCEPT !.pc = "wrote"]]
  BY DEF WriteAgain
<1>4. task \in [Projects -> Tasks] /\ task[k] \in Tasks
  BY DEF Types
<1>5. [task[k] EXCEPT !.pc = "wrote"] \in Tasks
  BY <1>4 DEF Tasks
<1>6. task' \in [Projects -> Tasks] /\ task'[k].pc = "wrote" /\ SameTask(k) /\ OtherTasks(k)
  BY <1>3, <1>4, <1>5 DEF SameTask, OtherTasks, Tasks
<1>7. QED BY <1>1, <1>2, <1>6 DEF Types, WorldKept

LEMMA FinishEffects ==
  ASSUME Types, NEW k \in Projects, FinishTask(k), resent' = resent
  PROVE  /\ Types' /\ WorldKept /\ UNCHANGED <<frames, tracked, handle>> /\ SamePasses
         /\ task[k].pc = "wrote" /\ task[k].session = session
         /\ task'[k] = NoTask /\ OtherTasks(k)
         /\ submission'.unadmitted = submission.unadmitted
         /\ ~submission'.awaiting /\ submission'.submitted
         /\ submission'.sentOn = submission.sentOn
         /\ submission'.handledSession = Handled /\ age' = "recent"
<1>1. /\ task[k].pc = "wrote" /\ task[k].session = session
      /\ submission' = [submission EXCEPT !.submitted = TRUE, !.awaiting = FALSE]
      /\ age' = "recent" /\ pass' = NotDue /\ recheck' = TRUE
      /\ task' = [task EXCEPT ![k] = NoTask]
      /\ WorldKept /\ UNCHANGED <<frames, tracked, handle>>
  BY DEF FinishTask, TaskSide, NoEnvironment, socketVars, serviceVars, WorldKept
<1>2. /\ task \in [Projects -> Tasks] /\ NoTask \in Tasks /\ submission \in Submissions
  BY IdleFacts DEF Types
<1>3. task' \in [Projects -> Tasks] /\ task'[k] = NoTask /\ OtherTasks(k)
  BY <1>1, <1>2 DEF OtherTasks
<1>4. /\ submission' \in Submissions
      /\ submission'.unadmitted = submission.unadmitted
      /\ ~submission'.awaiting /\ submission'.submitted
      /\ submission'.sentOn = submission.sentOn
      /\ submission'.handledSession = Handled
  BY <1>1, <1>2 DEF Submissions, Handled
<1>5. SamePasses /\ pass' \in [Passes -> RecoveryPasses]
  BY <1>1, SamePassFacts, NotDueFacts
<1>6. QED BY <1>1, <1>3, <1>4, <1>5 DEF Types, WorldKept

LEMMA FailTaskEffects ==
  ASSUME Types, NEW k \in Projects, FailTask(k), resent' = resent
  PROVE  /\ Types' /\ WorldKept /\ UNCHANGED <<frames, tracked, age, pass>>
         /\ task[k].pc # "none" /\ task[k].session = session
         /\ task'[k] = NoTask /\ OtherTasks(k)
         /\ submission'.unadmitted = None /\ ~submission'.awaiting
         /\ submission'.submitted = submission.submitted
         /\ submission'.sentOn = submission.sentOn
         /\ submission'.handledSession = Handled
         /\ Others(k) /\ SameCall(handle'[k], handle[k])
         /\ handle' = handle \/ Fails(handle'[k], handle[k], "restart")
         /\ handle'[k].status # "open"
<1>1. /\ task[k].pc # "none" /\ task[k].session = session
      /\ submission' = [submission EXCEPT !.awaiting = FALSE, !.unadmitted = None]
      /\ handle' = Failed(k, "restart")
      /\ task' = [task EXCEPT ![k] = NoTask]
      /\ WorldKept /\ UNCHANGED <<frames, tracked, age, recheck, pass>>
  BY DEF FailTask, TaskSide, NoEnvironment, socketVars, serviceVars, WorldKept
<1>2. /\ task \in [Projects -> Tasks] /\ NoTask \in Tasks /\ submission \in Submissions
  BY IdleFacts DEF Types
<1>3. task' \in [Projects -> Tasks] /\ task'[k] = NoTask /\ OtherTasks(k)
  BY <1>1, <1>2 DEF OtherTasks
<1>4. /\ submission' \in Submissions
      /\ submission'.unadmitted = None /\ ~submission'.awaiting
      /\ submission'.submitted = submission.submitted
      /\ submission'.sentOn = submission.sentOn
      /\ submission'.handledSession = Handled
  BY <1>1, <1>2 DEF Submissions, Handled
<1>5. /\ handle' \in [Projects -> Handles] /\ Others(k) /\ SameCall(handle'[k], handle[k])
      /\ handle' = handle \/ Fails(handle'[k], handle[k], "restart")
      /\ handle'[k].status # "open"
  BY <1>1, FailedFacts, ProjectFacts DEF Others, Causes, Fails, Open, Types
<1>6. QED BY <1>1, <1>3, <1>4, <1>5 DEF Types, WorldKept

(* The account's state is retired, or was retired before *)
ClearedFirst ==
  \/ Retired
  \/ Handled = session /\ tracked' = tracked /\ submission' = submission

LEMMA ClearedFacts ==
  ASSUME Types, Bounds, OwnState, tracked' = Kept, submission' = Pruned
  PROVE  /\ ClearedFirst /\ tracked' \in Projects \cup {None} /\ submission' \in Submissions
         /\ submission'.handledSession = session
BY Pruning, PrunedRetires DEF ClearedFirst

LEMMA EndTaskEffects ==
  ASSUME Types, Bounds, OwnState, NEW k \in Projects, EndTask(k), resent' = resent
  PROVE  /\ Types' /\ WorldKept /\ UNCHANGED <<frames, age, pass>>
         /\ task[k].pc # "none" /\ task[k].session # session
         /\ task'[k] = NoTask /\ OtherTasks(k)
         /\ ClearedFirst /\ EndedAll
         /\ Handled = session => Others(k)
<1>1. /\ task[k].pc # "none" /\ task[k].session # session
      /\ tracked' = Kept /\ submission' = Pruned
      /\ handle' = [Ended EXCEPT ![k] = Failed(k, "session")[k]]
      /\ recheck' = (recheck /\ submission.handledSession = session)
      /\ task' = [task EXCEPT ![k] = NoTask]
      /\ WorldKept /\ UNCHANGED <<frames, age, pass>>
  BY DEF EndTask, NoEnvironment, socketVars, serviceVars, WorldKept
<1>2. /\ task \in [Projects -> Tasks] /\ NoTask \in Tasks /\ recheck' \in BOOLEAN
      /\ Ended \in [Projects -> Handles] /\ \A j \in Projects : EndedWith(j, Ended)
  BY <1>1, IdleFacts, Pruning DEF Types
<1>3. task' \in [Projects -> Tasks] /\ task'[k] = NoTask /\ OtherTasks(k)
  BY <1>1, <1>2 DEF OtherTasks
<1>4. /\ ClearedFirst /\ tracked' \in Projects \cup {None} /\ submission' \in Submissions
  BY <1>1, ClearedFacts
<1> DEFINE old == Failed(k, "session")
<1>5. /\ old \in [Projects -> Handles] /\ SameCall(old[k], handle[k])
      /\ old = handle \/ Fails(old[k], handle[k], "session")
  BY FailedFacts DEF Causes
<1>6. handle' = [Ended EXCEPT ![k] = old[k]]
  BY <1>1
<1> HIDE DEF old
<1>7. /\ handle' \in [Projects -> Handles] /\ handle'[k] = old[k]
      /\ \A j \in Projects : j # k => handle'[j] = Ended[j]
  BY <1>2, <1>5, <1>6
<1>8. EndedAll
  <2>1. EndedWith(k, handle')
    BY <1>5, <1>7 DEF EndedWith, SameFate
  <2>2. ASSUME NEW j \in Projects, j # k PROVE EndedWith(j, handle')
    BY <1>2, <1>7, <2>2 DEF EndedWith
  <2>3. QED BY <2>1, <2>2 DEF EndedAll
<1>9. Handled = session => Others(k)
  BY <1>7, Pruning DEF Others
<1>10. QED BY <1>1, <1>2, <1>3, <1>4, <1>7, <1>8, <1>9 DEF Types, WorldKept

--------------------------------------------------------------------------------
(***************************************************************************)
(* What the steps do: the recovery passes.                                 *)
(***************************************************************************)
LEMMA GotoFacts ==
  ASSUME Types, NEW p \in Passes, Goto(p, "registry") \/ Goto(p, "judge")
  PROVE  /\ pass' \in [Passes -> RecoveryPasses] /\ OtherPasses(p)
         /\ Goto(p, "registry") => Moves(p, "registry")
         /\ Goto(p, "judge") => Moves(p, "judge")
<1>1. pass \in [Passes -> RecoveryPasses] /\ pass[p] \in RecoveryPasses
  BY DEF Types
<1>2. CASE Goto(p, "registry")
  <2>1. pass' = [pass EXCEPT ![p] = [pass[p] EXCEPT !.pc = "registry"]]
    BY <1>2 DEF Goto
  <2>2. [pass[p] EXCEPT !.pc = "registry"] \in RecoveryPasses
    BY <1>1 DEF RecoveryPasses
  <2>3. pass' \in [Passes -> RecoveryPasses] /\ OtherPasses(p) /\ Moves(p, "registry")
    BY <1>1, <2>1, <2>2 DEF OtherPasses, SamePass, Moves, RecoveryPasses
  <2>4. ~Goto(p, "judge")
    BY <1>1, <2>1 DEF Goto, RecoveryPasses
  <2>5. QED BY <2>3, <2>4
<1>3. CASE Goto(p, "judge")
  <2>1. pass' = [pass EXCEPT ![p] = [pass[p] EXCEPT !.pc = "judge"]]
    BY <1>3 DEF Goto
  <2>2. [pass[p] EXCEPT !.pc = "judge"] \in RecoveryPasses
    BY <1>1 DEF RecoveryPasses
  <2>3. pass' \in [Passes -> RecoveryPasses] /\ OtherPasses(p) /\ Moves(p, "judge")
    BY <1>1, <2>1, <2>2 DEF OtherPasses, SamePass, Moves, RecoveryPasses
  <2>4. ~Goto(p, "registry")
    BY <1>1, <2>1 DEF Goto, RecoveryPasses
  <2>5. QED BY <2>3, <2>4
<1>4. QED BY <1>2, <1>3

LEMMA EndPassFacts ==
  ASSUME Types, NEW p \in Passes, EndPass(p)
  PROVE  pass' \in [Passes -> RecoveryPasses] /\ OtherPasses(p) /\ pass'[p] = NoPass
<1>1. pass \in [Passes -> RecoveryPasses] /\ NoPass \in RecoveryPasses
  BY IdleFacts DEF Types
<1>2. QED BY <1>1 DEF EndPass, OtherPasses, SamePass, Moves

(* A pass starts *)
Starts(p, pc, kind) ==
  /\ pass'[p].pc = pc /\ pass'[p].kind = kind /\ pass'[p].session = session
  /\ pass'[p].project = None /\ pass'[p].seen = "absent" /\ ~pass'[p].returned

LEMMA SyncStartEffects ==
  ASSUME Types, Bounds, OwnState, NEW p \in Passes, SyncStart(p), resent' = resent
  PROVE  /\ Types' /\ WorldKept /\ UNCHANGED <<frames, age, task>>
         /\ pass[p].pc = "idle" /\ Starts(p, "asked", "sync") /\ OtherPasses(p)
         /\ ClearedFirst /\ submission'.handledSession = session /\ EndedAll
         /\ Handled = session => handle' = handle
<1>1. /\ pass[p].pc = "idle"
      /\ tracked' = Kept /\ submission' = Pruned /\ handle' = Ended /\ recheck' = FALSE
      /\ WorldKept /\ UNCHANGED <<frames, age, task>>
  BY DEF SyncStart, PassSide, NoEnvironment, socketVars, serviceVars, WorldKept
<1> DEFINE new == [NoPass EXCEPT !.pc = "asked", !.session = session, !.due = (age = "old")]
<1>2. pass' = [pass EXCEPT ![p] = new]
  BY DEF SyncStart
<1>3. /\ new \in RecoveryPasses /\ new.pc = "asked" /\ new.kind = "sync" /\ new.session = session
      /\ new.project = None /\ new.seen = "absent" /\ ~new.returned
  BY DEF NoPass, RecoveryPasses, Types
<1> HIDE DEF new
<1>4. /\ pass' \in [Passes -> RecoveryPasses] /\ Starts(p, "asked", "sync") /\ OtherPasses(p)
  BY <1>2, <1>3 DEF Types, Starts, OtherPasses, SamePass, Moves
<1>5. /\ ClearedFirst /\ tracked' \in Projects \cup {None} /\ submission' \in Submissions
      /\ submission'.handledSession = session
  BY <1>1, ClearedFacts
<1>6. /\ EndedAll /\ handle' \in [Projects -> Handles] /\ (Handled = session => handle' = handle)
  BY <1>1, Pruning DEF EndedAll
<1>7. QED BY <1>1, <1>4, <1>5, <1>6 DEF Types, WorldKept

LEMMA SnapshotEffects ==
  ASSUME Types, NEW p \in Passes, SyncSnapshot(p), resent' = resent
  PROVE  /\ Types' /\ WorldKept /\ UNCHANGED <<frames, tracked, handle, submission, age, task>>
         /\ pass[p].pc = "asked" /\ pass[p].session = session
         /\ pass'[p].pc = "reconcile" /\ pass'[p].kind = pass[p].kind
         /\ pass'[p].session = pass[p].session /\ pass'[p].returned = pass[p].returned
         /\ pass'[p].project = pass[p].project /\ pass'[p].seen = service[session].registry
         /\ OtherPasses(p)
<1>1. /\ pass[p].pc = "asked" /\ pass[p].session = session
      /\ WorldKept /\ UNCHANGED <<frames, tracked, handle, submission, age, recheck, task>>
  BY DEF SyncSnapshot, At, Current, PassSide, NoEnvironment, socketVars, serviceVars, WorldKept
<1>2. /\ pass \in [Passes -> RecoveryPasses] /\ pass[p] \in RecoveryPasses
      /\ service[session] \in Services
  BY DEF Types
<1>3. pass' = [pass EXCEPT ![p] = [pass[p] EXCEPT !.pc = "reconcile",
                                                   !.seen = service[session].registry]]
  BY <1>1, <1>2 DEF SyncSnapshot, Registry
<1>4. [pass[p] EXCEPT !.pc = "reconcile", !.seen = service[session].registry] \in RecoveryPasses
  BY <1>2 DEF RecoveryPasses, Services
<1>5. /\ pass' \in [Passes -> RecoveryPasses]
      /\ pass'[p].pc = "reconcile" /\ pass'[p].kind = pass[p].kind
      /\ pass'[p].session = pass[p].session /\ pass'[p].returned = pass[p].returned
      /\ pass'[p].project = pass[p].project /\ pass'[p].seen = service[session].registry
      /\ OtherPasses(p)
  BY <1>2, <1>3, <1>4 DEF OtherPasses, SamePass, Moves, RecoveryPasses
<1>6. QED BY <1>1, <1>5 DEF Types, WorldKept

(* What a pass finds out about its project *)
Learns(k) == handle' = handle \/ DoneIs(k)

LEMMA SettledFacts ==
  ASSUME Types, NEW k \in Projects, NEW status \in {"open", "done"}, Open(k),
         handle' = [handle EXCEPT ![k].status = status]
  PROVE  handle' \in [Projects -> Handles] /\ DoneIs(k)
<1>1. handle \in [Projects -> Handles] /\ handle[k] \in Handles /\ handle[k].status = "open"
  BY DEF Types, Open
<1>2. handle' = [handle EXCEPT ![k] = [handle[k] EXCEPT !.status = status]]
  OBVIOUS
<1>3. [handle[k] EXCEPT !.status = status] \in Handles
  BY <1>1 DEF Handles
<1>4. QED BY <1>1, <1>2, <1>3 DEF DoneIs, Done, Others, SameCall, Handles

(* A handle is built for what only the service knows *)
Adopts ==
  /\ tracked = None /\ tracked' = Recovered /\ Others(Recovered)
  /\ handle'[Recovered].pc = "created" /\ handle'[Recovered].session = session
  /\ handle'[Recovered].cause = "none" /\ handle'[Recovered].status \in {"open", "done"}

(* What a sync does to its project *)
Examines(p) ==
  /\ pass'[p].pc = "status" /\ pass'[p].kind = pass[p].kind
  /\ pass'[p].session = pass[p].session /\ pass'[p].seen = pass[p].seen
  /\ Open(tracked) /\ ~submission.awaiting /\ pass'[p].project = tracked
  /\ pass'[p].returned = (handle[tracked].pc = "created")

LEMMA ReconcileEffects ==
  ASSUME Types, NEW p \in Passes, SyncReconcile(p), resent' = resent
  PROVE  /\ Types' /\ WorldKept /\ UNCHANGED <<frames, age, task>>
         /\ pass[p].pc = "reconcile" /\ pass[p].session = session /\ OtherPasses(p)
         /\ \/ /\ pass[p].seen # "absent" /\ pass'[p] = NoPass /\ IsObserved
               /\ Adopts \/ (tracked # None /\ tracked' = tracked /\ Learns(tracked))
            \/ /\ pass[p].seen = "absent" /\ UNCHANGED <<tracked, handle, submission>>
               /\ pass'[p] = NoPass \/ Examines(p)
<1>1. /\ pass[p].pc = "reconcile" /\ pass[p].session = session
      /\ ReconcileSeen(p) \/ ReconcileAbsent(p)
      /\ WorldKept /\ UNCHANGED <<frames, age, task>>
  BY DEF SyncReconcile, At, Current, PassSide, NoEnvironment, socketVars, serviceVars, WorldKept
<1>2. /\ pass \in [Passes -> RecoveryPasses] /\ pass[p] \in RecoveryPasses
      /\ tracked \in Projects \cup {None} /\ submission \in Submissions
      /\ handle \in [Projects -> Handles] /\ session \in Sessions /\ recheck \in BOOLEAN
      /\ Recovered \in Projects /\ ConstantsAreSound
  BY ProjectFacts DEF Types
<1>3. CASE ReconcileSeen(p)
  <2> DEFINE status == IF pass[p].seen = "gone" THEN "done" ELSE "open"
             new == [pc |-> "created", session |-> session, status |-> status,
                     cause |-> "none", generation |-> 0]
  <2>1. /\ pass[p].seen # "absent" /\ submission' = Observed(submission) /\ EndPass(p)
        /\ recheck' = recheck
        /\ tracked' = IF tracked = None THEN Recovered ELSE tracked
        /\ handle' = IF tracked = None THEN [handle EXCEPT ![Recovered] = new]
                     ELSE IF Open(tracked) THEN [handle EXCEPT ![tracked].status = status]
                     ELSE handle
    BY <1>3 DEF ReconcileSeen
  <2>2. status \in {"open", "done"}
    OBVIOUS
  <2>3. new \in Handles
    BY <1>2, <2>2 DEF Handles
  <2>4. new.pc = "created" /\ new.session = session /\ new.cause = "none"
        /\ new.status \in {"open", "done"}
    BY <2>2
  <2> HIDE DEF status, new
  <2>5. submission' \in Submissions /\ IsObserved
    BY <1>2, <2>1, ObservedFacts DEF IsObserved, Handled
  <2>6. /\ pass' \in [Passes -> RecoveryPasses] /\ OtherPasses(p) /\ pass'[p] = NoPass
    BY <2>1, EndPassFacts
  <2>7. /\ tracked' \in Projects \cup {None} /\ handle' \in [Projects -> Handles]
        /\ Adopts \/ (tracked # None /\ tracked' = tracked /\ Learns(tracked))
    <3>1. CASE tracked = None
      <4>1. tracked' = Recovered /\ handle' = [handle EXCEPT ![Recovered] = new]
        BY <2>1, <3>1
      <4>2. handle' \in [Projects -> Handles] /\ Others(Recovered) /\ handle'[Recovered] = new
        BY <1>2, <2>3, <4>1 DEF Others
      <4>3. QED BY <1>2, <2>4, <3>1, <4>1, <4>2 DEF Adopts
    <3>2. CASE tracked # None
      <4>1. tracked \in Projects /\ tracked' = tracked
        BY <1>2, <2>1, <3>2
      <4>2. CASE Open(tracked)
        <5>1. handle' = [handle EXCEPT ![tracked].status = status]
          BY <2>1, <3>2, <4>2
        <5>2. handle' \in [Projects -> Handles] /\ DoneIs(tracked)
          BY <2>2, <4>1, <4>2, <5>1, SettledFacts
        <5>3. QED BY <1>2, <3>2, <4>1, <5>2 DEF Learns
      <4>3. CASE ~Open(tracked)
        BY <1>2, <2>1, <3>2, <4>1, <4>3 DEF Learns
      <4>4. QED BY <4>2, <4>3
    <3>3. QED BY <3>1, <3>2
  <2>8. Types'
    BY <1>1, <1>2, <2>1, <2>5, <2>6, <2>7 DEF Types, WorldKept
  <2>9. QED BY <1>1, <2>1, <2>5, <2>6, <2>7, <2>8
<1>4. CASE ReconcileAbsent(p)
  <2> DEFINE missing == Open(tracked) /\ ~submission.awaiting
             new == [pass[p] EXCEPT !.pc = "status", !.project = tracked,
                                    !.returned = (handle[tracked].pc = "created")]
  <2>1. /\ pass[p].seen = "absent" /\ UNCHANGED <<tracked, handle, submission>>
        /\ recheck' = (recheck \/ (missing /\ ~pass[p].due))
    BY <1>4 DEF ReconcileAbsent
  <2>2. \/ missing /\ pass' = [pass EXCEPT ![p] = new]
        \/ EndPass(p)
    BY <1>4 DEF ReconcileAbsent
  <2>3. /\ pass' \in [Passes -> RecoveryPasses] /\ OtherPasses(p)
        /\ pass'[p] = NoPass \/ Examines(p)
    <3>1. CASE EndPass(p)
      BY <3>1, EndPassFacts
    <3>2. CASE missing /\ pass' = [pass EXCEPT ![p] = new]
      <4>1. /\ new \in RecoveryPasses
            /\ new.pc = "status" /\ new.kind = pass[p].kind /\ new.session = pass[p].session
            /\ new.seen = pass[p].seen /\ new.project = tracked
            /\ new.returned = (handle[tracked].pc = "created")
        BY <1>2 DEF RecoveryPasses
      <4> HIDE DEF new
      <4>2. /\ pass' \in [Passes -> RecoveryPasses] /\ pass'[p] = new
            /\ \A q \in Passes : q # p => pass'[q] = pass[q]
        BY <1>2, <3>2, <4>1
      <4>3. OtherPasses(p)
        BY <4>2 DEF OtherPasses, SamePass, Moves
      <4>4. QED BY <3>2, <4>1, <4>2, <4>3 DEF Examines
    <3>3. QED BY <2>2, <3>1, <3>2
  <2>4. recheck' \in BOOLEAN
    BY <2>1
  <2>5. Types'
    BY <1>1, <1>2, <2>1, <2>3, <2>4 DEF Types, WorldKept
  <2>6. QED BY <1>1, <2>1, <2>3, <2>5
<1>5. QED BY <1>1, <1>3, <1>4

LEMMA ResolveEffects ==
  ASSUME Types, NEW p \in Passes, ResolveStart(p), resent' = resent
  PROVE  /\ Types' /\ WorldKept /\ UNCHANGED <<frames, tracked, handle, submission, age, task>>
         /\ pass[p].pc = "idle" /\ Starts(p, "status", "resolve") /\ OtherPasses(p)
<1>1. /\ pass[p].pc = "idle"
      /\ WorldKept /\ UNCHANGED <<frames, tracked, handle, submission, age, recheck, task>>
  BY DEF ResolveStart, PassSide, NoEnvironment, socketVars, serviceVars, WorldKept
<1> DEFINE new == [NoPass EXCEPT !.pc = "status", !.kind = "resolve", !.session = session]
<1>2. pass' = [pass EXCEPT ![p] = new]
  BY DEF ResolveStart
<1>3. /\ new \in RecoveryPasses /\ new.pc = "status" /\ new.kind = "resolve"
      /\ new.session = session /\ new.project = None /\ new.seen = "absent" /\ ~new.returned
  BY DEF NoPass, RecoveryPasses, Types
<1> HIDE DEF new
<1>4. /\ pass' \in [Passes -> RecoveryPasses] /\ Starts(p, "status", "resolve") /\ OtherPasses(p)
  BY <1>2, <1>3 DEF Types, Starts, OtherPasses, SamePass, Moves
<1>5. QED BY <1>1, <1>4 DEF Types, WorldKept

LEMMA StatusEffects ==
  ASSUME Types, NEW p \in Passes, Status(p), resent' = resent
  PROVE  /\ Types' /\ WorldKept /\ UNCHANGED <<frames, tracked, age, task>>
         /\ pass[p].pc = "status" /\ pass[p].session = session /\ OtherPasses(p)
         /\ \/ /\ service[session].record /\ pass'[p] = NoPass /\ IsObserved
               /\ handle' = handle \/ (pass[p].project \in Projects /\ DoneIs(pass[p].project))
            \/ /\ ~service[session].record /\ frames = {} /\ Moves(p, "registry")
               /\ UNCHANGED <<handle, submission>>
<1>1. /\ pass[p].pc = "status" /\ pass[p].session = session
      /\ WorldKept /\ UNCHANGED <<frames, tracked, age, recheck, task>>
  BY DEF Status, At, Current, PassSide, NoEnvironment, socketVars, serviceVars, WorldKept
<1>2. /\ pass[p] \in RecoveryPasses /\ pass[p].project \in Projects \cup {None}
      /\ submission \in Submissions /\ handle \in [Projects -> Handles] /\ ConstantsAreSound
      /\ None \notin Projects
  BY ProjectFacts DEF Types, RecoveryPasses
<1>3. CASE service[session].record
  <2>1. /\ submission' = Observed(submission) /\ EndPass(p)
        /\ handle' = IF Open(pass[p].project) /\ Registry(p) = "gone"
                       THEN [handle EXCEPT ![pass[p].project].status = "done"] ELSE handle
    BY <1>3 DEF Status
  <2>2. submission' \in Submissions /\ IsObserved
    BY <1>2, <2>1, ObservedFacts DEF IsObserved, Handled
  <2>3. pass' \in [Passes -> RecoveryPasses] /\ OtherPasses(p) /\ pass'[p] = NoPass
    BY <2>1, EndPassFacts
  <2>4. /\ handle' \in [Projects -> Handles]
        /\ handle' = handle \/ (pass[p].project \in Projects /\ DoneIs(pass[p].project))
    <3> DEFINE j == pass[p].project
    <3>1. CASE Open(j) /\ handle' = [handle EXCEPT ![j].status = "done"]
      <4>1. j \in Projects
        BY <1>2, <3>1 DEF Open
      <4> HIDE DEF j
      <4>2. handle' \in [Projects -> Handles] /\ DoneIs(j)
        BY <3>1, <4>1, SettledFacts
      <4>3. QED BY <4>1, <4>2 DEF j
    <3>2. CASE handle' = handle
      BY <1>2, <3>2
    <3>3. QED BY <2>1, <3>1, <3>2
  <2>5. Types'
    BY <1>1, <2>2, <2>3, <2>4 DEF Types, WorldKept
  <2>6. QED BY <1>1, <1>3, <2>2, <2>3, <2>4, <2>5
<1>4. CASE ~service[session].record
  <2>1. frames = {} /\ Goto(p, "registry") /\ UNCHANGED <<handle, submission>>
    BY <1>4 DEF Status
  <2>2. pass' \in [Passes -> RecoveryPasses] /\ OtherPasses(p) /\ Moves(p, "registry")
    BY <2>1, GotoFacts
  <2>3. Types'
    BY <1>1, <2>1, <2>2 DEF Types, WorldKept
  <2>4. QED BY <1>1, <1>4, <2>1, <2>2, <2>3
<1>5. QED BY <1>3, <1>4

LEMMA RegistryEffects ==
  ASSUME Types, NEW p \in Passes, ActiveRegistry(p), resent' = resent
  PROVE  /\ Types' /\ WorldKept /\ UNCHANGED <<frames, tracked, handle, age, task>>
         /\ pass[p].pc = "registry" /\ pass[p].session = session /\ OtherPasses(p)
         /\ \/ service[session].registry = "live" /\ pass'[p] = NoPass /\ IsObserved
            \/ /\ service[session].registry # "live" /\ Moves(p, "judge")
               /\ submission' = submission
<1>1. /\ pass[p].pc = "registry" /\ pass[p].session = session
      /\ WorldKept /\ UNCHANGED <<frames, tracked, handle, age, recheck, task>>
  BY DEF ActiveRegistry, At, Current, PassSide, NoEnvironment, socketVars, serviceVars, WorldKept
<1>2. submission \in Submissions /\ ConstantsAreSound
  BY DEF Types
<1>3. CASE service[session].registry = "live"
  <2>1. submission' = Observed(submission) /\ EndPass(p)
    BY <1>1, <1>3 DEF ActiveRegistry, Registry
  <2>2. submission' \in Submissions /\ IsObserved
    BY <1>2, <2>1, ObservedFacts DEF IsObserved, Handled
  <2>3. pass' \in [Passes -> RecoveryPasses] /\ OtherPasses(p) /\ pass'[p] = NoPass
    BY <2>1, EndPassFacts
  <2>4. Types'
    BY <1>1, <2>2, <2>3 DEF Types, WorldKept
  <2>5. QED BY <1>1, <1>3, <2>2, <2>3, <2>4
<1>4. CASE service[session].registry # "live"
  <2>1. Goto(p, "judge") /\ submission' = submission
    BY <1>1, <1>4 DEF ActiveRegistry, Registry
  <2>2. pass' \in [Passes -> RecoveryPasses] /\ OtherPasses(p) /\ Moves(p, "judge")
    BY <2>1, GotoFacts
  <2>3. Types'
    BY <1>1, <2>1, <2>2 DEF Types, WorldKept
  <2>4. QED BY <1>1, <1>4, <2>1, <2>2, <2>3
<1>5. QED BY <1>3, <1>4

(* The resend of what the socket lost is claimed *)
Claims(p) ==
  /\ Undelivered /\ handle' = handle /\ age' = "recent"
  /\ submission'.unadmitted = submission.unadmitted /\ submission'.awaiting = submission.awaiting
  /\ submission'.submitted /\ submission'.sentOn = NoReceipt
  /\ submission'.handledSession = Handled
  /\ pass'[p].pc = "resending" /\ pass'[p].kind = pass[p].kind
  /\ pass'[p].session = pass[p].session /\ pass'[p].returned = pass[p].returned
  /\ pass'[p].project = pass[p].project /\ pass'[p].seen = pass[p].seen
  /\ pass'[p].request = submission.unadmitted

(* The pass declares its project lost, or leaves it *)
Judges(p) ==
  /\ ~Undelivered /\ pass'[p] = NoPass /\ submission' = submission /\ age' = age
  /\ \/ handle' = handle
     \/ /\ pass[p].project \in Projects /\ ~(submission.submitted /\ age = "recent")
        /\ Others(pass[p].project) /\ SameCall(handle'[pass[p].project], handle[pass[p].project])
        /\ Fails(handle'[pass[p].project], handle[pass[p].project], Blame(p))

LEMMA ClaimFacts ==
  ASSUME Types, NEW p \in Passes, Claim(p), handle' = handle
  PROVE  /\ Claims(p) /\ pass' \in [Passes -> RecoveryPasses] /\ submission' \in Submissions
         /\ OtherPasses(p)
<1> DEFINE r == submission.unadmitted
           new == [pass[p] EXCEPT !.due = FALSE, !.pc = "resending", !.request = r]
<1>1. /\ Undelivered /\ age' = "recent"
      /\ submission' = [submission EXCEPT !.submitted = TRUE, !.sentOn = NoReceipt]
      /\ pass' = [NotDue EXCEPT ![p].pc = "resending", ![p].request = r]
  BY DEF Claim
<1>2. /\ submission \in Submissions /\ pass[p] \in RecoveryPasses /\ NoReceipt \in Receipts
      /\ r \in Creators \cup {None}
  BY IdleFacts DEF Types, Submissions
<1>3. /\ NotDue \in [Passes -> RecoveryPasses]
      /\ \A q \in Passes : NotDue[q] = [pass[q] EXCEPT !.due = FALSE]
  BY NotDueFacts
<1>4. pass' = [NotDue EXCEPT ![p] = new]
  BY <1>1, <1>3
<1>5. /\ new \in RecoveryPasses /\ new.pc = "resending" /\ new.kind = pass[p].kind
      /\ new.session = pass[p].session /\ new.returned = pass[p].returned
      /\ new.project = pass[p].project /\ new.seen = pass[p].seen /\ new.request = r
  BY <1>2 DEF RecoveryPasses
<1> HIDE DEF new
<1>6. /\ pass' \in [Passes -> RecoveryPasses] /\ pass'[p] = new
      /\ \A q \in Passes : q # p => pass'[q] = [pass[q] EXCEPT !.due = FALSE]
  BY <1>3, <1>4, <1>5
<1>7. OtherPasses(p)
  <2>1. ASSUME NEW q \in Passes, q # p PROVE SamePass(q)
    <3>1. pass'[q] = [pass[q] EXCEPT !.due = FALSE] /\ pass[q] \in RecoveryPasses
      BY <1>6, <2>1 DEF Types
    <3>2. QED BY <3>1 DEF SamePass, Moves, RecoveryPasses
  <2>2. QED BY <2>1 DEF OtherPasses
<1>8. /\ submission' \in Submissions /\ submission'.unadmitted = r
      /\ submission'.awaiting = submission.awaiting
      /\ submission'.submitted /\ submission'.sentOn = NoReceipt
      /\ submission'.handledSession = Handled
  BY <1>1, <1>2 DEF Submissions, Handled
<1>9. QED BY <1>1, <1>5, <1>6, <1>7, <1>8 DEF Claims

LEMMA BlameFacts == \A p \in Passes : Blame(p) \in {"lost", "unsent"}
BY DEF Blame

LEMMA JudgeEffects ==
  ASSUME Types, NEW p \in Passes, Judge(p), resent' = resent
  PROVE  /\ Types' /\ WorldKept /\ UNCHANGED <<frames, tracked, task>>
         /\ pass[p].pc = "judge" /\ pass[p].session = session /\ OtherPasses(p)
         /\ Claims(p) \/ Judges(p)
<1>1. /\ pass[p].pc = "judge" /\ pass[p].session = session
      /\ WorldKept /\ UNCHANGED <<frames, tracked, recheck, task>>
  BY DEF Judge, At, Current, PassSide, NoEnvironment, socketVars, serviceVars, WorldKept
<1>2. CASE Claim(p) /\ handle' = handle
  <2>1. /\ Claims(p) /\ pass' \in [Passes -> RecoveryPasses] /\ submission' \in Submissions
        /\ OtherPasses(p)
    BY <1>2, ClaimFacts
  <2>2. age' \in {"recent", "old"} /\ handle' \in [Projects -> Handles]
    BY <1>2, <2>1 DEF Claims, Types
  <2>3. Types'
    BY <1>1, <2>1, <2>2 DEF Types, WorldKept
  <2>4. QED BY <1>1, <2>1, <2>3
<1>3. CASE /\ Verdict(p)
           /\ handle' = IF pass[p].project = None \/ (submission.submitted /\ age = "recent")
                          THEN handle ELSE Failed(pass[p].project, Blame(p))
  <2>1. ~Undelivered /\ EndPass(p) /\ UNCHANGED <<submission, age>>
    BY <1>3 DEF Verdict
  <2>2. pass' \in [Passes -> RecoveryPasses] /\ OtherPasses(p) /\ pass'[p] = NoPass
    BY <2>1, EndPassFacts
  <2> DEFINE j == pass[p].project
             cause == Blame(p)
  <2>3. /\ handle' \in [Projects -> Handles]
        /\ \/ handle' = handle
           \/ /\ j \in Projects /\ ~(submission.submitted /\ age = "recent")
              /\ Others(j) /\ SameCall(handle'[j], handle[j])
              /\ Fails(handle'[j], handle[j], cause)
    <3>1. CASE handle' = handle
      BY <3>1 DEF Types
    <3>2. CASE handle' # handle
      <4>1. j # None /\ ~(submission.submitted /\ age = "recent") /\ handle' = Failed(j, cause)
        BY <1>3, <3>2
      <4>2. j \in Projects /\ cause \in Causes
        <5>1. pass[p] \in RecoveryPasses
          BY DEF Types
        <5>2. j \in Projects
          BY <4>1, <5>1 DEF RecoveryPasses
        <5>3. QED BY <5>2, BlameFacts DEF Causes
      <4> HIDE DEF j, cause
      <4>3. /\ handle' \in [Projects -> Handles] /\ Others(j)
            /\ SameCall(handle'[j], handle[j]) /\ Fails(handle'[j], handle[j], cause)
        BY <3>2, <4>1, <4>2, FailedFacts DEF Others
      <4>4. QED BY <4>1, <4>2, <4>3
    <3>3. QED BY <3>1, <3>2
  <2>4. Judges(p)
    BY <2>1, <2>2, <2>3 DEF Judges
  <2>5. Types'
    BY <1>1, <2>1, <2>2, <2>3 DEF Types, WorldKept
  <2>6. QED BY <1>1, <2>2, <2>4, <2>5
<1>4. QED BY <1>2, <1>3 DEF Judge

LEMMA ResendEffects ==
  ASSUME Types, NEW p \in Passes, pass[p].request \in Creators, Resend(p)
  PROVE  /\ Types' /\ WorldKept /\ UNCHANGED <<tracked, handle, submission, age, task>>
         /\ pass[p].pc = "resending" /\ pass[p].session = session /\ OtherPasses(p)
         /\ connected /\ Wider(pass[p].request)
         /\ pass'[p].pc = "resent" /\ pass'[p].kind = pass[p].kind
         /\ pass'[p].session = pass[p].session /\ pass'[p].returned = pass[p].returned
         /\ pass'[p].project = pass[p].project /\ pass'[p].seen = pass[p].seen
         /\ pass'[p].request = pass[p].request /\ pass'[p].generation = generation
         /\ resent'[pass[p].request] = resent[pass[p].request] + 1
         /\ \A k \in Creators : k # pass[p].request => resent'[k] = resent[k]
<1> DEFINE r == pass[p].request
           new == [pass[p] EXCEPT !.pc = "resent", !.generation = generation]
<1>1. /\ pass[p].pc = "resending" /\ pass[p].session = session /\ Write(r, pass[p].session)
      /\ resent' = [resent EXCEPT ![r] = @ + 1]
      /\ UNCHANGED <<session, service, admitted, inbox, tracked, handle, submission, age, recheck,
                     task>>
  BY DEF Resend, At, Current, PassSide, NoEnvironment, serviceVars
<1>2. pass' = [pass EXCEPT ![p] = new]
  BY DEF Resend
<1>3. /\ connected /\ frames' \in SUBSET Frames /\ Wider(r) /\ UNCHANGED <<generation, connected>>
  BY <1>1, WriteEffects
<1>4. /\ pass \in [Passes -> RecoveryPasses] /\ pass[p] \in RecoveryPasses /\ generation \in Nat
  BY DEF Types
<1>5. /\ new \in RecoveryPasses /\ new.pc = "resent" /\ new.kind = pass[p].kind
      /\ new.session = pass[p].session /\ new.returned = pass[p].returned
      /\ new.project = pass[p].project /\ new.seen = pass[p].seen
      /\ new.request = r /\ new.generation = generation
  BY <1>4 DEF RecoveryPasses
<1>6. /\ resent' \in [Creators -> Nat] /\ resent'[r] = resent[r] + 1
      /\ \A k \in Creators : k # r => resent'[k] = resent[k]
  BY <1>1 DEF Types
<1> HIDE DEF new
<1>7. /\ pass' \in [Passes -> RecoveryPasses] /\ pass'[p] = new
      /\ \A q \in Passes : q # p => pass'[q] = pass[q]
  BY <1>2, <1>4, <1>5
<1>8. OtherPasses(p)
  BY <1>7 DEF OtherPasses, SamePass, Moves
<1>9. Types'
  BY <1>1, <1>3, <1>6, <1>7 DEF Types
<1>10. QED BY <1>1, <1>3, <1>5, <1>6, <1>7, <1>8, <1>9 DEF WorldKept

LEMMA ReturnsEffects ==
  ASSUME Types, NEW p \in Passes, ResendReturns(p), resent' = resent
  PROVE  /\ Types' /\ WorldKept /\ UNCHANGED <<frames, tracked, handle, task>>
         /\ pass[p].pc \in {"resent", "resending"} /\ pass[p].session = session
         /\ OtherPasses(p) /\ pass'[p] = NoPass /\ age' = "recent"
         /\ submission'.unadmitted = submission.unadmitted
         /\ submission'.awaiting = submission.awaiting
         /\ submission'.submitted /\ submission'.handledSession = Handled
         /\ \/ submission'.sentOn = submission.sentOn
            \/ /\ pass[p].pc = "resent" /\ submission.unadmitted # None
               /\ submission'.sentOn = [generation |-> pass[p].generation, session |-> session]
<1>1. /\ pass[p].pc \in {"resent", "resending"} /\ pass[p].session = session
      /\ age' = "recent" /\ recheck' = TRUE
      /\ pass' = [NotDue EXCEPT ![p] = NoPass]
      /\ WorldKept /\ UNCHANGED <<frames, tracked, handle, task>>
  BY DEF ResendReturns, At, Current, PassSide, NoEnvironment, socketVars, serviceVars, WorldKept
<1> DEFINE receipt == [generation |-> pass[p].generation, session |-> session]
<1>2. PICK ok \in BOOLEAN :
        /\ ok => pass[p].pc = "resent"
        /\ submission' = [submission EXCEPT !.submitted = TRUE,
             !.sentOn = IF ok /\ submission.unadmitted # None THEN receipt ELSE @]
  BY DEF ResendReturns
<1>3. /\ submission \in Submissions /\ pass[p] \in RecoveryPasses /\ NoPass \in RecoveryPasses
      /\ session \in Sessions
  BY IdleFacts DEF Types
<1>4. receipt \in Receipts
  BY <1>3 DEF Receipts, RecoveryPasses
<1> HIDE DEF receipt
<1>5. /\ submission' \in Submissions
      /\ submission'.unadmitted = submission.unadmitted
      /\ submission'.awaiting = submission.awaiting
      /\ submission'.submitted /\ submission'.handledSession = Handled
      /\ \/ submission'.sentOn = submission.sentOn
         \/ pass[p].pc = "resent" /\ submission.unadmitted # None /\ submission'.sentOn = receipt
  BY <1>2, <1>3, <1>4 DEF Submissions, Handled
<1>6. /\ NotDue \in [Passes -> RecoveryPasses]
      /\ \A q \in Passes : NotDue[q] = [pass[q] EXCEPT !.due = FALSE]
  BY NotDueFacts
<1>7. /\ pass' \in [Passes -> RecoveryPasses] /\ pass'[p] = NoPass
      /\ \A q \in Passes : q # p => pass'[q] = [pass[q] EXCEPT !.due = FALSE]
  BY <1>1, <1>3, <1>6
<1>8. OtherPasses(p)
  <2>1. ASSUME NEW q \in Passes, q # p PROVE SamePass(q)
    <3>1. pass'[q] = [pass[q] EXCEPT !.due = FALSE] /\ pass[q] \in RecoveryPasses
      BY <1>7, <2>1 DEF Types
    <3>2. QED BY <3>1 DEF SamePass, Moves, RecoveryPasses
  <2>2. QED BY <2>1 DEF OtherPasses
<1>9. Types'
  BY <1>1, <1>5, <1>7 DEF Types, WorldKept
<1>10. QED BY <1>1, <1>5, <1>7, <1>8, <1>9 DEF receipt

LEMMA AbandonEffects ==
  ASSUME Types, NEW p \in Passes, Abandon(p), resent' = resent
  PROVE  /\ Types' /\ WorldKept /\ UNCHANGED <<frames, tracked, handle, submission, age, task>>
         /\ pass[p].pc # "idle" /\ OtherPasses(p) /\ pass'[p] = NoPass
         /\ pass[p].session # session \/ pass[p].pc \in {"asked", "status", "registry"}
<1>1. /\ pass[p].pc # "idle" /\ EndPass(p)
      /\ pass[p].session # session \/ pass[p].pc \in {"asked", "status", "registry"}
      /\ WorldKept /\ UNCHANGED <<frames, tracked, handle, submission, age, recheck, task>>
  BY DEF Abandon, Current, PassSide, NoEnvironment, socketVars, serviceVars, WorldKept
<1>2. pass' \in [Passes -> RecoveryPasses] /\ OtherPasses(p) /\ pass'[p] = NoPass
  BY <1>1, EndPassFacts
<1>3. QED BY <1>1, <1>2 DEF Types, WorldKept

--------------------------------------------------------------------------------
(***************************************************************************)
(* Accounts: what every step keeps.                                        *)
(***************************************************************************)
(* A creation stays begun, in its account *)
Stays(k) == Began(k) => Began(k)' /\ handle'[k].session = handle[k].session
Grow == \A k \in Creators : Stays(k)
(* A project that was not begun is left alone *)
Calm == \A k \in Creators : ~Began(k) => handle'[k].pc = "idle" /\ handle'[k].status = "none"

AccountGrows ==
  /\ session' = session \/ session' = session + 1
  /\ \/ submission'.handledSession = Handled
     \/ session' = session /\ submission'.handledSession = session

NewTask(k) ==
  /\ Belongs(task'[k].request, task'[k].session)
  /\ k \in Creators => Belongs(k, task'[k].session)
TasksFit ==
  \A k \in Projects :
    task'[k].pc = "none" \/ (task[k].pc # "none" /\ SameTask(k)) \/ NewTask(k)

SamePlan(p) ==
  /\ pass[p].pc # "idle"
  /\ pass'[p].kind = pass[p].kind /\ pass'[p].session = pass[p].session
  /\ pass'[p].pc \in {"asked", "reconcile"} => pass[p].pc \in {"asked", "reconcile"}
  /\ \/ pass'[p].project = pass[p].project
     \/ pass'[p].project \notin Creators
     \/ Belongs(pass'[p].project, pass[p].session)
  /\ pass'[p].pc \in {"resending", "resent"} =>
       \/ pass[p].pc \in {"resending", "resent"} /\ pass'[p].request = pass[p].request
       \/ Belongs(pass'[p].request, pass[p].session)
NewPlan(p) ==
  /\ session' = session
  /\ \/ Starts(p, "asked", "sync") /\ submission'.handledSession = session
     \/ Starts(p, "status", "resolve")
PassFits(p) == pass'[p].pc = "idle" \/ SamePlan(p) \/ NewPlan(p)
PassesFit == \A p \in Passes : PassFits(p)

FramesFit == \A f \in frames' : f \in frames \/ Belongs(f.request, f.session)

WillBelong(k, s) == k \in Creators /\ handle'[k].pc # "idle" /\ handle'[k].session = s

LEMMA BelongsStays ==
  ASSUME Grow
  PROVE  \A k, s : Belongs(k, s) => WillBelong(k, s)
BY DEF Grow, Stays, Belongs, Began, WillBelong

LEMMA FramesKept ==
  ASSUME Types, OwnFrames, Grow, FramesFit
  PROVE  OwnFrames'
<1>1. SUFFICES ASSUME NEW f \in frames' PROVE WillBelong(f.request, f.session)
  BY DEF OwnFrames, WillBelong, Began
<1>2. Belongs(f.request, f.session)
  <2>1. f \in frames => f.request \in Creators
    BY DEF Types, Frames
  <2>2. QED BY <2>1 DEF FramesFit, OwnFrames, Belongs
<1>3. QED BY <1>2, BelongsStays

LEMMA TasksKept ==
  ASSUME OwnTasks, Grow, TasksFit
  PROVE  OwnTasks'
<1>1. SUFFICES ASSUME NEW k \in Projects, task'[k].pc # "none"
               PROVE  /\ WillBelong(task'[k].request, task'[k].session)
                      /\ k \in Creators => WillBelong(k, task'[k].session)
  BY DEF OwnTasks, OwnTask, Belongs, WillBelong, Began
<1>2. NewTask(k)
  BY <1>1 DEF TasksFit, OwnTasks, OwnTask, SameTask, NewTask
<1>3. QED BY <1>2, BelongsStays DEF NewTask

LEMMA PassKept ==
  ASSUME Types, Types', Bounds, Grow, AccountGrows, NEW p \in Passes, OwnPass(p), PassFits(p)
  PROVE  OwnPass(p)'
<1> DEFINE q == pass'[p]
<1>1. /\ session \in Nat /\ session' \in Nat /\ session <= session' /\ session # NoSession
      /\ NoSession \in Nat /\ Handled \in Nat /\ submission'.handledSession \in Nat
  BY SessionFacts DEF Types, Submissions, Handled, AccountGrows
<1>2. CASE q.pc = "idle"
  BY <1>2 DEF OwnPass
<1>3. CASE NewPlan(p)
  <2>1. /\ q.session = session /\ q.project = None /\ None \notin Creators
        /\ q.pc \notin {"resending", "resent"}
        /\ \/ q.pc = "asked" /\ q.kind = "sync" /\ submission'.handledSession = session
           \/ q.pc = "status" /\ q.kind = "resolve"
    BY <1>3, ProjectFacts DEF NewPlan, Starts, Types
  <2> HIDE DEF q
  <2>2. OwnPass(p)'
    BY <1>1, <2>1 DEF OwnPass, Handled, q
  <2>3. QED BY <2>2
<1>4. CASE SamePlan(p)
  <2>1. pass[p].session <= session' /\ pass[p].session \in Nat
    <3>1. pass[p].session <= session /\ pass[p].session \in Nat
      BY <1>4, SessionFacts DEF OwnPass, SamePlan, Types, RecoveryPasses
    <3>2. QED BY <1>1, <3>1
  <2>2. q.pc \in {"asked", "reconcile"} => q.kind = "sync"
    BY <1>4 DEF OwnPass, SamePlan
  <2>3. q.kind = "sync" => submission'.handledSession # NoSession
                           /\ q.session <= submission'.handledSession
    <3>1. q.kind = "sync" => Handled # NoSession /\ pass[p].session <= Handled
      BY <1>4 DEF OwnPass, SamePlan
    <3>2. Handled # NoSession => Handled <= session
      BY DEF Bounds
    <3>3. QED BY <1>1, <1>4, <2>1, <3>1, <3>2 DEF SamePlan, AccountGrows
  <2>4. q.project \in Creators => Belongs(q.project, pass[p].session)
    BY <1>4 DEF OwnPass, SamePlan
  <2>5. q.pc \in {"resending", "resent"} => Belongs(q.request, pass[p].session)
    BY <1>4 DEF OwnPass, SamePlan
  <2>6. /\ q.project \in Creators => WillBelong(q.project, q.session)
        /\ q.pc \in {"resending", "resent"} => WillBelong(q.request, q.session)
    BY <1>4, <2>4, <2>5, BelongsStays DEF SamePlan
  <2>7. q.session <= session'
    BY <1>4, <2>1 DEF SamePlan
  <2>8. QED BY <2>2, <2>3, <2>6, <2>7 DEF OwnPass, Handled, Belongs, WillBelong, Began
<1>5. QED BY <1>2, <1>3, <1>4 DEF PassFits

LEMMA BeginningsKept ==
  ASSUME Types, Types', Bounds, Beginnings, Grow, Calm, AccountGrows
  PROVE  Beginnings'
<1>1. SUFFICES ASSUME NEW k \in Creators
               PROVE  /\ ~Began(k)' => handle'[k].status = "none"
                      /\ Began(k)' => /\ submission'.handledSession # NoSession
                                      /\ handle'[k].session <= submission'.handledSession
  BY DEF Beginnings, Handled
<1>2. /\ session \in Nat /\ session # NoSession /\ NoSession \in Nat /\ Handled \in Nat
      /\ submission'.handledSession \in Nat
      /\ handle[k].session \in Nat
  BY SessionFacts, ProjectFacts DEF Types, Submissions, Handled, Handles
<1>3. CASE ~Began(k)
  BY <1>3 DEF Calm, Began
<1>4. CASE Began(k)
  <2>1. Began(k)' /\ handle'[k].session = handle[k].session
    BY <1>4 DEF Grow, Stays
  <2>2. Handled # NoSession /\ handle[k].session <= Handled /\ Handled <= session
    BY <1>4 DEF Beginnings, Bounds
  <2>3. QED BY <1>2, <2>1, <2>2 DEF AccountGrows
<1>5. QED BY <1>3, <1>4

(* What the account keeps goes on, or less of it *)
LessState ==
  /\ submission'.handledSession = Handled
  /\ tracked' = None \/ (tracked' = tracked /\ (tracked # None => Stays(tracked)))
  /\ submission'.unadmitted = None \/ submission'.unadmitted = submission.unadmitted

LEMMA StateKept ==
  ASSUME Types, OwnState, Grow, LessState
  PROVE  OwnState'
<1>1. submission.unadmitted \in Creators \cup {None}
  BY DEF Types, Submissions
<1>2. ASSUME tracked' # None PROVE Kin(tracked)'
  BY <1>2 DEF LessState, OwnState, Kin, Stays, Handled, Began
<1>3. ASSUME submission'.unadmitted # None PROVE Kin(submission.unadmitted)'
  <2> DEFINE k == submission.unadmitted
  <2>1. submission'.unadmitted = k /\ k \in Creators
    BY <1>1, <1>3 DEF LessState
  <2>2. Kin(k) /\ Stays(k) /\ submission'.handledSession = Handled
    BY <1>3, <2>1 DEF OwnState, Grow, LessState
  <2>3. QED BY <2>1, <2>2 DEF Kin, Stays, Handled, Began
<1>4. QED BY <1>2, <1>3 DEF OwnState

LEMMA RetiredKeepsState ==
  ASSUME Retired
  PROVE  OwnState'
BY DEF Retired, OwnState

LEMMA BoundsKept ==
  ASSUME Types, Types', Bounds, AccountGrows, UNCHANGED <<session, generation, connected>>
  PROVE  Bounds'
<1>1. /\ session \in Nat /\ NoSession \in Nat /\ Handled \in Nat
      /\ submission'.handledSession \in Nat
  BY SessionFacts DEF Types, Submissions, Handled
<1>2. submission'.handledSession # NoSession => submission'.handledSession <= session
  BY <1>1 DEF Bounds, AccountGrows
<1>3. QED BY <1>2 DEF Bounds, Handled

(* Everything together *)
Fit == Grow /\ Calm /\ AccountGrows /\ FramesFit /\ TasksFit /\ PassesFit

LEMMA AccountsKept ==
  ASSUME Types, Types', Accounts, Fit, Bounds', OwnState'
  PROVE  Accounts'
<1>1. Beginnings'
  BY BeginningsKept DEF Accounts, Fit
<1>2. OwnFrames' /\ OwnTasks'
  BY FramesKept, TasksKept DEF Accounts, Fit
<1>3. OwnPasses'
  <2>1. ASSUME NEW p \in Passes PROVE OwnPass(p)'
    BY PassKept DEF Accounts, Fit, PassesFit, OwnPasses
  <2>2. QED BY <2>1 DEF OwnPasses
<1>4. QED BY <1>1, <1>2, <1>3 DEF Accounts

LEMMA HandlesSame ==
  ASSUME Beginnings, handle' = handle
  PROVE  Grow /\ Calm /\ \A k : Stays(k)
BY DEF Beginnings, Grow, Calm, Stays, Began

LEMMA HandlesEnded ==
  ASSUME Beginnings, EndedAll, ConstantsAreSound
  PROVE  Grow /\ Calm /\ \A k \in Projects : Stays(k)
<1>1. \A k \in Projects : Stays(k)
  BY DEF EndedAll, EndedWith, SameCall, Stays, Began
<1>2. Calm
  <2>1. SUFFICES ASSUME NEW k \in Creators, ~Began(k)
                 PROVE  handle'[k].pc = "idle" /\ handle'[k].status = "none"
    BY DEF Calm
  <2>2. EndedWith(k, handle') /\ handle[k].status = "none"
    BY <2>1, ProjectFacts DEF EndedAll, Beginnings
  <2>3. QED BY <2>1, <2>2 DEF EndedWith, SameCall, SameFate, Fails, Began
<1>3. QED BY <1>1, <1>2, ProjectFacts DEF Grow

LEMMA HandleMoves ==
  ASSUME Beginnings, ConstantsAreSound, NEW k \in Projects, Others(k), Began(k),
         handle'[k].pc # "idle", handle'[k].session = handle[k].session
  PROVE  Grow /\ Calm /\ \A j \in Projects : Stays(j)
<1>1. \A j \in Projects : Stays(j)
  BY DEF Others, Stays, Began
<1>2. Calm
  BY ProjectFacts DEF Others, Beginnings, Calm, Began
<1>3. QED BY <1>1, <1>2, ProjectFacts DEF Grow

LEMMA PassesSame ==
  ASSUME SamePasses
  PROVE  PassesFit
BY DEF SamePasses, SamePass, Moves, PassesFit, PassFits, SamePlan

LEMMA PassMoves ==
  ASSUME NEW p \in Passes, OtherPasses(p), PassFits(p)
  PROVE  PassesFit
BY DEF OtherPasses, SamePass, Moves, PassesFit, PassFits, SamePlan

LEMMA PassEnds ==
  ASSUME NEW p \in Passes, OtherPasses(p), pass'[p] = NoPass
  PROVE  PassesFit
BY PassMoves DEF PassFits, NoPass

LEMMA TasksSame ==
  ASSUME task' = task
  PROVE  TasksFit
BY DEF TasksFit, SameTask

LEMMA TaskEnds ==
  ASSUME NEW k \in Projects, task'[k] = NoTask, OtherTasks(k)
  PROVE  TasksFit
BY DEF TasksFit, SameTask, OtherTasks, NoTask

LEMMA TaskMoves ==
  ASSUME NEW k \in Projects, task[k].pc # "none", SameTask(k), OtherTasks(k)
  PROVE  TasksFit
BY DEF TasksFit, SameTask, OtherTasks

LEMMA FramesFewer ==
  ASSUME frames' \subseteq frames
  PROVE  FramesFit
BY DEF FramesFit

LEMMA FramesWider ==
  ASSUME NEW k, Wider(k), Belongs(k, session)
  PROVE  FramesFit
BY DEF FramesFit, Wider, Frame

LEMMA ClientKeptFits ==
  ASSUME Types, Accounts, ClientKept, frames' \subseteq frames,
         session' = session \/ session' = session + 1
  PROVE  Fit /\ OwnState'
<1>1. Grow /\ Calm /\ (\A k : Stays(k)) /\ AccountGrows /\ LessState
  BY HandlesSame DEF Accounts, ClientKept, AccountGrows, LessState, Handled
<1>2. FramesFit /\ TasksFit /\ PassesFit
  <2>1. SamePasses
    BY SamePassFacts DEF ClientKept
  <2>2. QED BY <2>1, FramesFewer, TasksSame, PassesSame DEF ClientKept
<1>3. QED BY <1>1, <1>2, StateKept DEF Fit, Accounts

--------------------------------------------------------------------------------
(***************************************************************************)
(* Accounts: every step.                                                   *)
(***************************************************************************)
LEMMA WorldKeepsAccounts ==
  ASSUME Types, Types', Accounts, ClientKept, frames' \subseteq frames,
         UNCHANGED <<session, generation, connected>>
  PROVE  Accounts'
<1>1. Fit /\ OwnState'
  BY ClientKeptFits
<1>2. Bounds'
  BY <1>1, BoundsKept DEF Fit, Accounts
<1>3. QED BY <1>1, <1>2, AccountsKept

LEMMA EnvironmentKeepsAccounts ==
  ASSUME Types, Accounts, resent' = resent,
         SwitchAccount \/ Disconnect \/ Reconnect \/ Age \/ Service
  PROVE  Types' /\ Accounts'
<1>1. /\ session \in Nat /\ generation \in Nat /\ MaxGeneration \in Nat /\ NoSession \in Nat
      /\ Handled \in Nat
  BY SessionFacts DEF Types, ConstantsAreSound, Submissions, Handled
<1>2. CASE SwitchAccount
  <2>1. /\ Types' /\ ClientKept /\ session' = session + 1 /\ ~connected'
        /\ generation' = generation /\ frames' = frames
    BY <1>2, SwitchEffects
  <2>2. Fit /\ OwnState'
    BY <2>1, ClientKeptFits
  <2>3. submission' = submission
    BY <2>1 DEF ClientKept
  <2>4. Bounds'
    BY <1>1, <2>1, <2>3 DEF Accounts, Bounds, Handled
  <2>5. QED BY <2>1, <2>2, <2>4, AccountsKept
<1>3. CASE Disconnect
  <2>1. /\ Types' /\ ClientKept /\ ~connected' /\ generation < MaxGeneration
        /\ UNCHANGED <<session, generation, frames>>
    BY <1>3, DisconnectEffects
  <2>2. Fit /\ OwnState'
    BY <2>1, ClientKeptFits
  <2>3. submission' = submission
    BY <2>1 DEF ClientKept
  <2>4. Bounds'
    BY <1>1, <2>1, <2>3 DEF Accounts, Bounds, Handled
  <2>5. QED BY <2>1, <2>2, <2>4, AccountsKept
<1>4. CASE Reconnect
  <2>1. /\ Types' /\ ClientKept /\ ~connected /\ connected'
        /\ generation' = generation + 1 /\ UNCHANGED <<session, frames>>
    BY <1>4, ReconnectEffects
  <2>2. Fit /\ OwnState'
    BY <2>1, ClientKeptFits
  <2>3. submission' = submission
    BY <2>1 DEF ClientKept
  <2>4. Bounds'
    BY <1>1, <2>1, <2>3 DEF Accounts, Bounds, Handled
  <2>5. QED BY <2>1, <2>2, <2>4, AccountsKept
<1>5. CASE Age
  <2>1. Types' /\ ClientKept /\ UNCHANGED <<session, generation, connected, frames>>
    BY <1>5, AgeEffects
  <2>2. QED BY <2>1, WorldKeepsAccounts
<1>6. CASE Service
  <2>1. CASE \E f \in frames : Admit(f)
    <3>1. PICK f \in frames : Admit(f)
      BY <2>1
    <3>2. Types' /\ ClientKept /\ frames' = frames \ {f} /\ UNCHANGED <<session, generation, connected>>
      BY <3>1, AdmitEffects
    <3>3. QED BY <3>2, WorldKeepsAccounts
  <2>2. CASE \E f \in frames : Refuse(f)
    <3>1. PICK f \in frames : Refuse(f)
      BY <2>2
    <3>2. Types' /\ ClientKept /\ frames' = frames \ {f} /\ UNCHANGED <<session, generation, connected>>
      BY <3>1, RefuseEffects
    <3>3. QED BY <3>2, WorldKeepsAccounts
  <2>3. CASE \E f \in frames : Lose(f)
    <3>1. PICK f \in frames : Lose(f)
      BY <2>3
    <3>2. Types' /\ ClientKept /\ frames' = frames \ {f} /\ UNCHANGED <<session, generation, connected>>
      BY <3>1, LoseEffects
    <3>3. QED BY <3>2, WorldKeepsAccounts
  <2>4. CASE \E s \in Sessions : WriteRecord(s)
    <3>1. Types' /\ ClientKept /\ UNCHANGED <<session, generation, connected, frames>>
      BY <2>4, RecordEffects
    <3>2. QED BY <3>1, WorldKeepsAccounts
  <2>5. CASE \E s \in Sessions : Complete(s)
    <3>1. Types' /\ ClientKept /\ UNCHANGED <<session, generation, connected, frames>>
      BY <2>5, CompleteEffects
    <3>2. QED BY <3>1, WorldKeepsAccounts
  <2>6. QED BY <1>6, <2>1, <2>2, <2>3, <2>4, <2>5 DEF Service
<1>7. QED BY <1>2, <1>3, <1>4, <1>5, <1>6

(* A step of the client changes neither the account nor the connection *)
LEMMA ClientKeepsAccounts ==
  ASSUME Types, Types', Accounts, UNCHANGED <<session, generation, connected>>,
         Grow, Calm, AccountGrows, FramesFit, TasksFit, PassesFit, OwnState'
  PROVE  Accounts'
<1>1. Bounds'
  BY BoundsKept DEF Accounts
<1>2. QED BY <1>1, AccountsKept DEF Fit

LEMMA RetiredGrows ==
  ASSUME Retired \/ ClearedFirst, session' = session
  PROVE  AccountGrows
BY DEF Retired, ClearedFirst, AccountGrows, Handled

LEMMA ClearedKeepsState ==
  ASSUME Types, OwnState, ClearedFirst, Grow, \A k \in Projects : Stays(k)
  PROVE  OwnState'
<1>1. CASE Retired
  BY <1>1, RetiredKeepsState
<1>2. CASE tracked' = tracked /\ submission' = submission
  <2>1. LessState
    BY <1>2 DEF LessState, Handled, Types
  <2>2. QED BY <2>1, StateKept
<1>3. QED BY <1>1, <1>2 DEF ClearedFirst

LEMMA BeginKeepsAccounts ==
  ASSUME Types, Accounts, NEW k \in Creators, Begin(k), resent' = resent
  PROVE  Types' /\ Accounts'
<1>1. /\ Types' /\ WorldKept /\ UNCHANGED <<frames, age, task, pass>>
      /\ handle[k].pc = "idle"
      /\ tracked' = Kept /\ submission' = Pruned
      /\ handle'[k].pc = "prepared" /\ handle'[k].session = session
      /\ \A j \in Projects : j # k => handle'[j] = Ended[j]
  BY BeginEffects DEF Accounts
<1>2. ClearedFirst /\ submission'.handledSession = session
  BY <1>1, ClearedFacts DEF Accounts
<1>3. UNCHANGED <<session, generation, connected>>
  BY <1>1 DEF WorldKept
<1>4. \A j \in Projects : Stays(j)
  <2>1. Stays(k)
    BY <1>1 DEF Stays, Began
  <2>2. ASSUME NEW j \in Projects, j # k PROVE Stays(j)
    <3>1. handle'[j] = Ended[j] /\ EndedWith(j, Ended)
      BY <1>1, <2>2, Pruning DEF Accounts
    <3>2. QED BY <3>1 DEF EndedWith, SameCall, Stays, Began
  <2>3. QED BY <2>1, <2>2
<1>5. Grow
  BY <1>4, ProjectFacts DEF Grow, Types
<1>6. AccountGrows /\ OwnState'
  BY <1>2, <1>3, <1>4, <1>5, RetiredGrows, ClearedKeepsState DEF Accounts
<1>7. FramesFit /\ TasksFit /\ PassesFit
  BY <1>1, FramesFewer, TasksSame, PassesSame, SamePassFacts
<1>8. Beginnings'
  <2>1. SUFFICES ASSUME NEW j \in Creators
                 PROVE  /\ ~Began(j)' => handle'[j].status = "none"
                        /\ Began(j)' => /\ submission'.handledSession # NoSession
                                        /\ handle'[j].session <= submission'.handledSession
    BY DEF Beginnings, Handled
  <2>2. session \in Nat /\ session # NoSession
    BY SessionFacts DEF Types
  <2>3. CASE j = k
    BY <1>1, <1>2, <2>2, <2>3 DEF Began
  <2>4. CASE j # k
    <3>1. handle'[j] = Ended[j] /\ EndedWith(j, Ended) /\ j \in Projects
      BY <1>1, <2>4, Pruning, ProjectFacts DEF Accounts, Types
    <3>2. SameCall(handle'[j], handle[j])
      BY <3>1 DEF EndedWith
    <3>3. CASE ~Began(j)
      BY <3>1, <3>2, <3>3 DEF Accounts, Beginnings, EndedWith, SameCall, SameFate, Fails, Began
    <3>4. CASE Began(j)
      <4>1. Handled # NoSession /\ handle[j].session <= Handled /\ Handled <= session
        BY <3>4 DEF Accounts, Beginnings, Bounds
      <4>2. handle[j].session \in Nat /\ Handled \in Nat
        BY <3>1, SessionFacts DEF Types, Handles, Submissions, Handled
      <4>3. handle'[j].session <= session
        BY <2>2, <3>2, <4>1, <4>2 DEF SameCall
      <4>4. QED BY <1>2, <2>2, <3>2, <3>4, <4>3 DEF SameCall, Began
    <3>5. QED BY <3>3, <3>4
  <2>5. QED BY <2>3, <2>4
<1>9. Bounds'
  BY <1>1, <1>3, <1>6, BoundsKept DEF Accounts
<1>10. OwnFrames' /\ OwnTasks'
  BY <1>5, <1>7, FramesKept, TasksKept DEF Accounts
<1>11. ASSUME NEW p \in Passes PROVE OwnPass(p)'
  BY <1>1, <1>5, <1>6, <1>7, PassKept DEF Accounts, PassesFit, OwnPasses
<1>12. QED BY <1>1, <1>6, <1>8, <1>9, <1>10, <1>11 DEF Accounts, OwnPasses

LEMMA CreateKeepsAccounts ==
  ASSUME Types, Accounts, NEW k \in Creators, Create(k), resent' = resent
  PROVE  Types' /\ Accounts'
<1>1. k \in Projects /\ k # None /\ ConstantsAreSound
  BY ProjectFacts DEF Types
<1>2. CASE Begin(k)
  BY <1>2, BeginKeepsAccounts
<1>3. CASE Track(k)
  <2>1. /\ Types' /\ WorldKept /\ UNCHANGED <<frames, task>> /\ SamePasses
        /\ handle[k].pc = "prepared" /\ handle[k].session = session
        /\ tracked' = k /\ handle'[k].pc = "sending" /\ handle'[k].session = session
        /\ Others(k) /\ submission'.unadmitted = k /\ submission'.handledSession = Handled
    BY <1>3, TrackEffects
  <2>2. UNCHANGED <<session, generation, connected>>
    BY <2>1 DEF WorldKept
  <2>3. Grow /\ Calm
    <3>1. Began(k) /\ handle'[k].pc # "idle" /\ handle'[k].session = handle[k].session
      BY <2>1 DEF Began
    <3>2. QED BY <1>1, <2>1, <3>1, HandleMoves DEF Accounts
  <2>4. AccountGrows /\ FramesFit /\ TasksFit /\ PassesFit
    BY <2>1, <2>2, FramesFewer, TasksSame, PassesSame DEF AccountGrows
  <2>5. OwnState'
    <3>1. Handled # NoSession /\ session <= Handled /\ Handled <= session
      BY <2>1 DEF Accounts, Beginnings, Bounds, Began
    <3>2. Handled = session
      BY <3>1, SessionFacts DEF Types, Submissions, Handled
    <3>3. QED BY <2>1, <3>1, <3>2 DEF OwnState, Kin, Handled, Began
  <2>6. QED BY <2>1, <2>2, <2>3, <2>4, <2>5, ClientKeepsAccounts
<1>4. CASE NotTracked(k)
  <2>1. /\ Types' /\ WorldKept /\ UNCHANGED <<frames, tracked, submission, age, task, pass>>
        /\ handle[k].pc = "prepared" /\ handle'[k].pc = "failed"
        /\ handle'[k].session = handle[k].session /\ Others(k)
    BY <1>4, NotTrackedEffects
  <2>2. UNCHANGED <<session, generation, connected>>
    BY <2>1 DEF WorldKept
  <2>3. Grow /\ Calm /\ \A j \in Projects : Stays(j)
    BY <1>1, <2>1, HandleMoves DEF Accounts, Began
  <2>4. LessState
    BY <2>1, <2>3 DEF LessState, Handled, Types
  <2>5. AccountGrows /\ FramesFit /\ TasksFit /\ PassesFit
    BY <2>1, <2>2, FramesFewer, TasksSame, PassesSame, SamePassFacts DEF AccountGrows, Handled
  <2>6. OwnState'
    BY <2>3, <2>4, StateKept DEF Accounts
  <2>7. QED BY <2>1, <2>2, <2>3, <2>5, <2>6, ClientKeepsAccounts
<1>5. CASE WriteRequest(k)
  <2>1. /\ Types' /\ WorldKept /\ UNCHANGED <<tracked, submission, age, task, pass>>
        /\ Wider(k) /\ handle[k].pc = "sending" /\ handle[k].session = session
        /\ handle'[k].pc = "wrote" /\ handle'[k].session = session /\ Others(k)
    BY <1>5, WriteRequestEffects
  <2>2. UNCHANGED <<session, generation, connected>>
    BY <2>1 DEF WorldKept
  <2>3. Grow /\ Calm /\ \A j \in Projects : Stays(j)
    BY <1>1, <2>1, HandleMoves DEF Accounts, Began
  <2>4. FramesFit
    BY <2>1, FramesWider DEF Belongs, Began
  <2>5. AccountGrows /\ TasksFit /\ PassesFit
    BY <2>1, <2>2, TasksSame, PassesSame, SamePassFacts DEF AccountGrows, Handled
  <2>6. LessState
    BY <2>1, <2>3 DEF LessState, Handled, Types
  <2>7. QED BY <2>1, <2>2, <2>3, <2>4, <2>5, <2>6, StateKept, ClientKeepsAccounts DEF Accounts
<1>6. CASE Confirm(k)
  <2>1. /\ Types' /\ WorldKept /\ UNCHANGED <<frames, tracked, age, task, pass>>
        /\ handle[k].pc = "wrote" /\ handle[k].session = session
        /\ handle'[k].pc = "created" /\ handle'[k].session = session /\ Others(k)
        /\ submission'.unadmitted = submission.unadmitted
        /\ submission'.handledSession = Handled
    BY <1>6, ConfirmEffects
  <2>2. UNCHANGED <<session, generation, connected>>
    BY <2>1 DEF WorldKept
  <2>3. Grow /\ Calm /\ \A j \in Projects : Stays(j)
    BY <1>1, <2>1, HandleMoves DEF Accounts, Began
  <2>4. AccountGrows /\ FramesFit /\ TasksFit /\ PassesFit
    BY <2>1, <2>2, FramesFewer, TasksSame, PassesSame, SamePassFacts DEF AccountGrows
  <2>5. LessState
    BY <2>1, <2>3 DEF LessState, Types
  <2>6. QED BY <2>1, <2>2, <2>3, <2>4, <2>5, StateKept, ClientKeepsAccounts DEF Accounts
<1>7. CASE SendFails(k)
  <2>1. /\ Types' /\ WorldKept /\ UNCHANGED <<frames, age, task, pass>>
        /\ handle[k].pc \in {"sending", "wrote"} /\ handle'[k].pc = "failed"
        /\ handle'[k].session = handle[k].session /\ Others(k)
        /\ tracked' = None \/ tracked' = tracked
        /\ submission'.unadmitted = None \/ submission'.unadmitted = submission.unadmitted
        /\ submission'.handledSession = Handled
    BY <1>7, SendFailsEffects
  <2>2. UNCHANGED <<session, generation, connected>>
    BY <2>1 DEF WorldKept
  <2>3. Grow /\ Calm /\ \A j \in Projects : Stays(j)
    BY <1>1, <2>1, HandleMoves DEF Accounts, Began
  <2>4. AccountGrows /\ FramesFit /\ TasksFit /\ PassesFit
    BY <2>1, <2>2, FramesFewer, TasksSame, PassesSame, SamePassFacts DEF AccountGrows
  <2>5. LessState
    BY <2>1, <2>3 DEF LessState, Types
  <2>6. QED BY <2>1, <2>2, <2>3, <2>4, <2>5, StateKept, ClientKeepsAccounts DEF Accounts
<1>8. QED BY <1>2, <1>3, <1>4, <1>5, <1>6, <1>7 DEF Create

LEMMA HandleSettles ==
  ASSUME Beginnings, ConstantsAreSound, NEW k \in Projects, Others(k),
         SameCall(handle'[k], handle[k]), k \in Creators => Began(k)
  PROVE  Grow /\ Calm /\ \A j \in Projects : Stays(j)
<1>1. \A j \in Projects : Stays(j)
  BY DEF Others, Stays, Began, SameCall
<1>2. Calm
  BY ProjectFacts DEF Others, Beginnings, Calm, Began
<1>3. QED BY <1>1, <1>2, ProjectFacts DEF Grow

LEMMA SwitchHeardKeepsAccounts ==
  ASSUME Types, Accounts, HearSwitch, resent' = resent
  PROVE  Types' /\ Accounts'
<1>1. Types' /\ WorldKept /\ UNCHANGED <<frames, age, task, pass>> /\ Retired /\ EndedAll
  BY SwitchHeardEffects DEF Accounts
<1>2. UNCHANGED <<session, generation, connected>>
  BY <1>1 DEF WorldKept
<1>3. Grow /\ Calm
  BY <1>1, HandlesEnded DEF Accounts, Types
<1>4. AccountGrows /\ OwnState' /\ FramesFit /\ TasksFit /\ PassesFit
  BY <1>1, <1>2, RetiredGrows, RetiredKeepsState, FramesFewer, TasksSame, PassesSame, SamePassFacts
<1>5. QED BY <1>1, <1>2, <1>3, <1>4, ClientKeepsAccounts

LEMMA HearKeepsAccounts ==
  ASSUME Types, Accounts, Hear, resent' = resent
  PROVE  Types' /\ Accounts'
<1>1. /\ Types' /\ UNCHANGED <<session, generation, connected, frames, pass>>
      /\ \/ Retired /\ EndedAll /\ task' = task
         \/ /\ Handled = session /\ tracked' = tracked
            /\ HearsNothing \/ HearsEvidence \/ HearsRefusal \/ HearsRestart
  BY HearEffects DEF Accounts
<1>2. FramesFit /\ PassesFit
  BY <1>1, FramesFewer, PassesSame, SamePassFacts
<1>3. CASE Retired /\ EndedAll /\ task' = task
  <2>1. Grow /\ Calm
    BY <1>3, HandlesEnded DEF Accounts, Types
  <2>2. AccountGrows /\ OwnState' /\ TasksFit
    BY <1>1, <1>3, RetiredGrows, RetiredKeepsState, TasksSame
  <2>3. QED BY <1>1, <1>2, <2>1, <2>2, ClientKeepsAccounts
<1>4. CASE /\ Handled = session /\ tracked' = tracked
           /\ HearsNothing \/ HearsEvidence \/ HearsRefusal \/ HearsRestart
  <2>1. /\ submission'.handledSession = Handled
        /\ submission'.unadmitted = None \/ submission'.unadmitted = submission.unadmitted
    BY <1>4 DEF HearsNothing, HearsEvidence, IsObserved, HearsRefusal, HearsRestart, Handled
  <2>2. tracked # None => tracked \in Projects /\ Began(tracked)
    BY DEF Types, Accounts, OwnState, Kin
  <2>3. Open(tracked) => tracked # None
    BY DEF Open
  <2>4. Grow /\ Calm /\ \A j \in Projects : Stays(j)
    <3>1. CASE handle' = handle
      BY <3>1, HandlesSame DEF Accounts
    <3>2. CASE tracked # None /\ Others(tracked) /\ SameCall(handle'[tracked], handle[tracked])
      BY <2>2, <3>2, HandleSettles DEF Accounts, Types
    <3>3. QED BY <1>4, <2>3, <3>1, <3>2
              DEF HearsNothing, HearsEvidence, HearsRefusal, HearsRestart, DoneIs, Done
  <2>5. TasksFit
    <3>1. CASE task' = task
      BY <3>1, TasksSame
    <3>2. CASE HearsRestart
      <4> DEFINE r == submission.unadmitted
      <4>1. /\ tracked # None /\ r # None /\ r \in Creators /\ Kin(tracked) /\ Kin(r)
        BY <2>3, <3>2 DEF HearsRestart, Accounts, OwnState, Types, Submissions
      <4>2. /\ task'[tracked].request = r /\ task'[tracked].session = session
            /\ OtherTasks(tracked)
        BY <3>2 DEF HearsRestart, OtherTasks
      <4>3. Belongs(r, session) /\ (tracked \in Creators => Belongs(tracked, session))
        BY <1>4, <4>1 DEF Kin, Belongs
      <4>4. NewTask(tracked)
        BY <4>2, <4>3 DEF NewTask
      <4>5. QED BY <4>2, <4>4 DEF TasksFit, OtherTasks, SameTask
    <3>3. QED BY <1>4, <3>1, <3>2 DEF HearsNothing, HearsEvidence, HearsRefusal
  <2>6. AccountGrows /\ LessState
    BY <1>1, <1>4, <2>1, <2>2, <2>4 DEF AccountGrows, LessState
  <2>7. QED BY <1>1, <1>2, <2>4, <2>5, <2>6, StateKept, ClientKeepsAccounts DEF Accounts
<1>5. QED BY <1>1, <1>3, <1>4

LEMMA RestartKeepsAccounts ==
  ASSUME Types, Accounts, NEW k \in Projects, Restart(k), resent' = resent
  PROVE  Types' /\ Accounts'
<1>1. /\ ConstantsAreSound /\ OwnTask(k) /\ Beginnings /\ OwnState
  BY DEF Types, Accounts, OwnTasks
<1>2. \A s : task[k].pc # "none" /\ task[k].session = s =>
        /\ Belongs(task[k].request, s) /\ (k \in Creators => Began(k))
  BY <1>1 DEF OwnTask, Belongs
<1>3. CASE ResumeTask(k)
  <2>1. /\ Types' /\ WorldKept /\ UNCHANGED <<frames, tracked, handle, age, pass>>
        /\ task[k].pc = "waiting" /\ task[k].session = session
        /\ submission'.handledSession = Handled /\ OtherTasks(k)
        /\ \/ task'[k].pc = "writing" /\ SameTask(k) /\ submission'.unadmitted = task[k].request
           \/ task'[k] = NoTask /\ submission'.unadmitted = submission.unadmitted
    BY <1>3, ResumeEffects
  <2>2. UNCHANGED <<session, generation, connected>>
    BY <2>1 DEF WorldKept
  <2>3. Grow /\ Calm /\ \A j : Stays(j)
    BY <1>1, <2>1, HandlesSame
  <2>4. AccountGrows /\ FramesFit /\ TasksFit /\ PassesFit
    BY <2>1, <2>2, FramesFewer, TaskMoves, TaskEnds, PassesSame, SamePassFacts DEF AccountGrows
  <2>5. OwnState'
    <3>1. CASE submission'.unadmitted = submission.unadmitted
      <4>1. LessState
        BY <2>1, <2>3, <3>1 DEF LessState
      <4>2. QED BY <1>1, <2>3, <4>1, StateKept
    <3>2. CASE submission'.unadmitted = task[k].request
      <4> DEFINE r == task[k].request
      <4>1. Belongs(r, session)
        BY <1>2, <2>1
      <4>2. Handled = session /\ Handled # NoSession
        <5>1. Handled # NoSession /\ session <= Handled /\ Handled <= session
          BY <4>1 DEF Belongs, Accounts, Beginnings, Bounds
        <5>2. QED BY <5>1, SessionFacts DEF Types, Submissions, Handled
      <4>3. tracked' # None => Kin(tracked)'
        BY <1>1, <2>1 DEF OwnState, Kin, Handled, Began
      <4>4. Kin(r)
        BY <4>1, <4>2 DEF Belongs, Kin
      <4> HIDE DEF r
      <4>5. submission'.unadmitted = r
        BY <3>2 DEF r
      <4>6. Kin(submission.unadmitted)'
        BY <2>1, <4>4, <4>5 DEF Kin, Handled, Began
      <4>7. QED BY <4>3, <4>6 DEF OwnState
    <3>3. QED BY <2>1, <3>1, <3>2
  <2>6. QED BY <2>1, <2>2, <2>3, <2>4, <2>5, ClientKeepsAccounts
<1>4. CASE WriteAgain(k)
  <2>1. Belongs(task[k].request, session) /\ task[k].request \in Creators
    <3>1. task[k].pc # "none" /\ task[k].session = session
      BY <1>4 DEF WriteAgain, Write
    <3>2. QED BY <1>2, <3>1 DEF Belongs
  <2>2. /\ Types' /\ WorldKept /\ UNCHANGED <<tracked, handle, submission, age, pass>>
        /\ task[k].pc = "writing" /\ Wider(task[k].request) /\ SameTask(k) /\ OtherTasks(k)
    BY <1>4, <2>1, WriteAgainEffects
  <2>3. UNCHANGED <<session, generation, connected>>
    BY <2>2 DEF WorldKept
  <2>4. Grow /\ Calm /\ \A j : Stays(j)
    BY <1>1, <2>2, HandlesSame
  <2>5. AccountGrows /\ TasksFit /\ PassesFit
    BY <2>2, <2>3, TaskMoves, PassesSame, SamePassFacts DEF AccountGrows, Handled
  <2>6. FramesFit
    BY <2>1, <2>2, FramesWider
  <2>7. LessState
    BY <2>2, <2>4 DEF LessState, Handled
  <2>8. QED BY <1>1, <2>2, <2>3, <2>4, <2>5, <2>6, <2>7, StateKept, ClientKeepsAccounts
<1>5. CASE FinishTask(k)
  <2>1. /\ Types' /\ WorldKept /\ UNCHANGED <<frames, tracked, handle>> /\ SamePasses
        /\ task'[k] = NoTask /\ OtherTasks(k)
        /\ submission'.unadmitted = submission.unadmitted
        /\ submission'.handledSession = Handled
    BY <1>5, FinishEffects
  <2>2. UNCHANGED <<session, generation, connected>>
    BY <2>1 DEF WorldKept
  <2>3. Grow /\ Calm /\ \A j : Stays(j)
    BY <1>1, <2>1, HandlesSame
  <2>4. AccountGrows /\ FramesFit /\ TasksFit /\ PassesFit
    BY <2>1, <2>2, FramesFewer, TaskEnds, PassesSame DEF AccountGrows
  <2>5. LessState
    BY <2>1, <2>3 DEF LessState
  <2>6. QED BY <1>1, <2>1, <2>2, <2>3, <2>4, <2>5, StateKept, ClientKeepsAccounts
<1>6. CASE FailTask(k)
  <2>1. /\ Types' /\ WorldKept /\ UNCHANGED <<frames, tracked, age, pass>>
        /\ task[k].pc # "none" /\ task'[k] = NoTask /\ OtherTasks(k)
        /\ submission'.unadmitted = None /\ submission'.handledSession = Handled
        /\ Others(k) /\ SameCall(handle'[k], handle[k])
    BY <1>6, FailTaskEffects
  <2>2. UNCHANGED <<session, generation, connected>>
    BY <2>1 DEF WorldKept
  <2>3. Grow /\ Calm /\ \A j \in Projects : Stays(j)
    BY <1>1, <1>2, <2>1, HandleSettles
  <2>4. AccountGrows /\ FramesFit /\ TasksFit /\ PassesFit
    BY <2>1, <2>2, FramesFewer, TaskEnds, PassesSame, SamePassFacts DEF AccountGrows
  <2>5. LessState
    BY <2>1, <2>3 DEF LessState, Types
  <2>6. QED BY <1>1, <2>1, <2>2, <2>3, <2>4, <2>5, StateKept, ClientKeepsAccounts
<1>7. CASE EndTask(k)
  <2>1. /\ Types' /\ WorldKept /\ UNCHANGED <<frames, age, pass>>
        /\ task'[k] = NoTask /\ OtherTasks(k) /\ ClearedFirst /\ EndedAll
    BY <1>7, EndTaskEffects DEF Accounts
  <2>2. UNCHANGED <<session, generation, connected>>
    BY <2>1 DEF WorldKept
  <2>3. Grow /\ Calm /\ \A j \in Projects : Stays(j)
    BY <1>1, <2>1, HandlesEnded
  <2>4. AccountGrows /\ FramesFit /\ TasksFit /\ PassesFit
    BY <2>1, <2>2, RetiredGrows, FramesFewer, TaskEnds, PassesSame, SamePassFacts
  <2>5. OwnState'
    BY <1>1, <2>1, <2>3, ClearedKeepsState
  <2>6. QED BY <2>1, <2>2, <2>3, <2>4, <2>5, ClientKeepsAccounts
<1>8. QED BY <1>3, <1>4, <1>5, <1>6, <1>7 DEF Restart

LEMMA SyncStartKeepsAccounts ==
  ASSUME Types, Accounts, NEW p \in Passes, SyncStart(p), resent' = resent
  PROVE  Types' /\ Accounts'
<1>1. /\ Types' /\ WorldKept /\ UNCHANGED <<frames, age, task>>
      /\ Starts(p, "asked", "sync") /\ OtherPasses(p)
      /\ ClearedFirst /\ submission'.handledSession = session /\ EndedAll
  BY SyncStartEffects DEF Accounts
<1>2. UNCHANGED <<session, generation, connected>>
  BY <1>1 DEF WorldKept
<1>3. Grow /\ Calm /\ \A j \in Projects : Stays(j)
  BY <1>1, HandlesEnded DEF Accounts, Types
<1>4. PassesFit
  BY <1>1, <1>2, PassMoves DEF PassFits, NewPlan
<1>5. AccountGrows /\ FramesFit /\ TasksFit
  BY <1>1, <1>2, RetiredGrows, FramesFewer, TasksSame
<1>6. OwnState'
  BY <1>1, <1>3, ClearedKeepsState DEF Accounts
<1>7. QED BY <1>1, <1>2, <1>3, <1>4, <1>5, <1>6, ClientKeepsAccounts

(* A pass that asks, gives up or says nothing of the client's state *)
LEMMA PassOnlyKeepsAccounts ==
  ASSUME Types, Types', Accounts, WorldKept, NEW p \in Passes, OtherPasses(p), PassFits(p),
         UNCHANGED <<handle, task>>, frames' \subseteq frames,
         tracked' = tracked,
         submission'.unadmitted = None \/ submission'.unadmitted = submission.unadmitted,
         submission'.handledSession = Handled
  PROVE  Accounts'
<1>1. UNCHANGED <<session, generation, connected>>
  BY DEF WorldKept
<1>2. Grow /\ Calm /\ \A j : Stays(j)
  BY HandlesSame DEF Accounts
<1>3. AccountGrows /\ FramesFit /\ TasksFit /\ PassesFit
  BY <1>1, FramesFewer, TasksSame, PassMoves DEF AccountGrows
<1>4. LessState
  BY <1>2 DEF LessState
<1>5. QED BY <1>1, <1>2, <1>3, <1>4, StateKept, ClientKeepsAccounts DEF Accounts

(* A pass that ends after it has settled its project *)
LEMMA PassSettlesKeepsAccounts ==
  ASSUME Types, Types', Accounts, WorldKept, NEW p \in Passes, OtherPasses(p), PassFits(p),
         UNCHANGED <<frames, task>>,
         NEW k \in Projects, Others(k), SameCall(handle'[k], handle[k]),
         k \in Creators => Began(k),
         tracked' = tracked,
         submission'.unadmitted = None \/ submission'.unadmitted = submission.unadmitted,
         submission'.handledSession = Handled
  PROVE  Accounts'
<1>1. UNCHANGED <<session, generation, connected>>
  BY DEF WorldKept
<1>2. Grow /\ Calm /\ \A j \in Projects : Stays(j)
  BY HandleSettles DEF Accounts, Types
<1>3. AccountGrows /\ FramesFit /\ TasksFit /\ PassesFit
  BY <1>1, FramesFewer, TasksSame, PassMoves DEF AccountGrows
<1>4. LessState
  BY <1>2 DEF LessState, Types
<1>5. QED BY <1>1, <1>2, <1>3, <1>4, StateKept, ClientKeepsAccounts DEF Accounts

LEMMA ReconcileKeepsAccounts ==
  ASSUME Types, Accounts, NEW p \in Passes, SyncReconcile(p), resent' = resent
  PROVE  Types' /\ Accounts'
<1>1. /\ Types' /\ WorldKept /\ UNCHANGED <<frames, age, task>>
      /\ pass[p].pc = "reconcile" /\ pass[p].session = session /\ OtherPasses(p)
      /\ \/ /\ pass'[p] = NoPass /\ IsObserved
            /\ Adopts \/ (tracked # None /\ tracked' = tracked /\ Learns(tracked))
         \/ /\ UNCHANGED <<tracked, handle, submission>>
            /\ pass'[p] = NoPass \/ Examines(p)
  BY ReconcileEffects
<1>2. Handled = session /\ Handled # NoSession
  <2>1. OwnPass(p) /\ session <= Handled /\ Handled # NoSession
    BY <1>1 DEF Accounts, OwnPasses, OwnPass
  <2>2. QED BY <2>1, SessionFacts DEF Accounts, Bounds, Types, Submissions, Handled
<1>3. CASE pass'[p] = NoPass /\ IsObserved /\ Adopts
  <2>1. UNCHANGED <<session, generation, connected>>
    BY <1>1 DEF WorldKept
  <2>2. Grow /\ Calm
    BY <1>3, ProjectFacts DEF Adopts, Others, Grow, Stays, Calm, Began, Accounts, Beginnings, Types
  <2>3. AccountGrows /\ FramesFit /\ TasksFit /\ PassesFit
    BY <1>1, <1>3, <2>1, FramesFewer, TasksSame, PassEnds DEF AccountGrows, IsObserved
  <2>4. OwnState'
    BY <1>2, <1>3 DEF Adopts, IsObserved, OwnState, Kin, Began, Handled
  <2>5. QED BY <1>1, <2>1, <2>2, <2>3, <2>4, ClientKeepsAccounts
<1>4. CASE /\ pass'[p] = NoPass /\ IsObserved
           /\ tracked # None /\ tracked' = tracked /\ Learns(tracked)
  <2>1. PassFits(p)
    BY <1>4 DEF PassFits, NoPass
  <2>2. /\ tracked' = tracked /\ submission'.unadmitted = None
        /\ submission'.handledSession = Handled
    BY <1>4 DEF IsObserved
  <2>3. CASE handle' = handle
    BY <1>1, <2>1, <2>2, <2>3, PassOnlyKeepsAccounts
  <2>4. CASE DoneIs(tracked)
    <3>1. /\ tracked \in Projects /\ Began(tracked)
          /\ Others(tracked) /\ SameCall(handle'[tracked], handle[tracked])
      BY <1>4, <2>4 DEF Types, Accounts, OwnState, Kin, DoneIs, Done
    <3>2. QED BY <1>1, <2>1, <2>2, <3>1, PassSettlesKeepsAccounts
  <2>5. QED BY <1>4, <2>3, <2>4 DEF Learns
<1>5. CASE /\ UNCHANGED <<tracked, handle, submission>>
           /\ pass'[p] = NoPass \/ Examines(p)
  <2>1. PassFits(p)
    <3>1. CASE pass'[p] = NoPass
      BY <3>1 DEF PassFits, NoPass
    <3>2. CASE Examines(p)
      <4>1. tracked # None /\ Kin(tracked)
        BY <3>2 DEF Examines, Open, Accounts, OwnState
      <4>2. tracked \in Creators => Belongs(tracked, pass[p].session)
        BY <1>1, <1>2, <4>1 DEF Kin, Belongs
      <4>3. SamePlan(p)
        BY <1>1, <3>2, <4>2 DEF Examines, SamePlan
      <4>4. QED BY <4>3 DEF PassFits
    <3>3. QED BY <1>5, <3>1, <3>2
  <2>2. QED BY <1>1, <1>5, <2>1, PassOnlyKeepsAccounts DEF Handled
<1>6. QED BY <1>1, <1>3, <1>4, <1>5

LEMMA AdvanceKeepsAccounts ==
  ASSUME Types, Accounts, NEW p \in Passes, Advance(p), resent' = resent
  PROVE  Types' /\ Accounts'
<1>1. /\ OwnPass(p) /\ Beginnings /\ OwnState /\ Bounds /\ ConstantsAreSound
  BY DEF Types, Accounts, OwnPasses
<1>2. pass[p].pc # "idle" /\ pass[p].project \in Creators => Began(pass[p].project)
  BY <1>1 DEF OwnPass, Belongs
<1>3. pass'[p] = NoPass => PassFits(p)
  BY DEF PassFits, NoPass
<1>4. CASE SyncSnapshot(p)
  <2>1. /\ Types' /\ WorldKept /\ UNCHANGED <<frames, tracked, handle, submission, age, task>>
        /\ pass[p].pc = "asked" /\ pass'[p].pc = "reconcile" /\ pass'[p].kind = pass[p].kind
        /\ pass'[p].session = pass[p].session /\ pass'[p].project = pass[p].project
        /\ OtherPasses(p)
    BY <1>4, SnapshotEffects
  <2>2. PassFits(p)
    BY <2>1 DEF PassFits, SamePlan
  <2>3. QED BY <2>1, <2>2, PassOnlyKeepsAccounts DEF Handled
<1>5. CASE SyncReconcile(p)
  BY <1>5, ReconcileKeepsAccounts
<1>6. CASE Status(p)
  <2>1. /\ Types' /\ WorldKept /\ UNCHANGED <<frames, tracked, age, task>>
        /\ pass[p].pc = "status" /\ OtherPasses(p)
        /\ \/ /\ pass'[p] = NoPass /\ IsObserved
              /\ handle' = handle \/ (pass[p].project \in Projects /\ DoneIs(pass[p].project))
           \/ Moves(p, "registry") /\ UNCHANGED <<handle, submission>>
    BY <1>6, StatusEffects
  <2>2. CASE Moves(p, "registry") /\ UNCHANGED <<handle, submission>>
    <3>1. PassFits(p)
      BY <2>1, <2>2 DEF PassFits, SamePlan, Moves
    <3>2. QED BY <2>1, <2>2, <3>1, PassOnlyKeepsAccounts DEF Handled
  <2>3. CASE pass'[p] = NoPass /\ IsObserved /\ handle' = handle
    BY <1>3, <2>1, <2>3, PassOnlyKeepsAccounts DEF IsObserved
  <2>4. CASE /\ pass'[p] = NoPass /\ IsObserved
             /\ pass[p].project \in Projects /\ DoneIs(pass[p].project)
    <3> DEFINE k == pass[p].project
    <3>1. /\ Others(k) /\ SameCall(handle'[k], handle[k]) /\ k \in Projects
          /\ k \in Creators => Began(k)
      BY <1>2, <2>1, <2>4 DEF DoneIs, Done
    <3> HIDE DEF k
    <3>2. QED BY <1>3, <2>1, <2>4, <3>1, PassSettlesKeepsAccounts DEF IsObserved
  <2>5. QED BY <2>1, <2>2, <2>3, <2>4
<1>7. CASE ActiveRegistry(p)
  <2>1. /\ Types' /\ WorldKept /\ UNCHANGED <<frames, tracked, handle, age, task>>
        /\ pass[p].pc = "registry" /\ OtherPasses(p)
        /\ \/ pass'[p] = NoPass /\ IsObserved
           \/ Moves(p, "judge") /\ submission' = submission
    BY <1>7, RegistryEffects
  <2>2. CASE pass'[p] = NoPass /\ IsObserved
    BY <1>3, <2>1, <2>2, PassOnlyKeepsAccounts DEF IsObserved
  <2>3. CASE Moves(p, "judge") /\ submission' = submission
    <3>1. PassFits(p)
      BY <2>1, <2>3 DEF PassFits, SamePlan, Moves
    <3>2. QED BY <2>1, <2>3, <3>1, PassOnlyKeepsAccounts DEF Handled
  <2>4. QED BY <2>1, <2>2, <2>3
<1>8. CASE Judge(p)
  <2>1. /\ Types' /\ WorldKept /\ UNCHANGED <<frames, tracked, task>>
        /\ pass[p].pc = "judge" /\ pass[p].session = session /\ OtherPasses(p)
        /\ Claims(p) \/ Judges(p)
    BY <1>8, JudgeEffects
  <2>2. CASE Claims(p)
    <3>1. /\ handle' = handle /\ submission'.unadmitted = submission.unadmitted
          /\ submission'.handledSession = Handled
      BY <2>2 DEF Claims
    <3>2. Belongs(submission.unadmitted, session)
      <4> DEFINE r == submission.unadmitted
      <4>1. r # None /\ r \in Creators /\ Kin(r) /\ tracked # None /\ Kin(tracked)
            /\ handle[tracked].session = session
        BY <1>1, <2>2 DEF Claims, Undelivered, Open, OwnState, Types, Submissions
      <4>2. QED BY <4>1 DEF Kin, Belongs
    <3>3. PassFits(p)
      BY <2>1, <2>2, <3>2 DEF Claims, PassFits, SamePlan
    <3>4. QED BY <2>1, <3>1, <3>3, PassOnlyKeepsAccounts
  <2>3. CASE Judges(p)
    <3>1. /\ pass'[p] = NoPass /\ submission' = submission
          /\ \/ handle' = handle
             \/ /\ pass[p].project \in Projects /\ Others(pass[p].project)
                /\ SameCall(handle'[pass[p].project], handle[pass[p].project])
      BY <2>3 DEF Judges
    <3>2. CASE handle' = handle
      BY <1>3, <2>1, <3>1, <3>2, PassOnlyKeepsAccounts DEF Handled
    <3>3. CASE handle' # handle
      BY <1>2, <1>3, <2>1, <3>1, <3>3, PassSettlesKeepsAccounts DEF Handled
    <3>4. QED BY <3>2, <3>3
  <2>4. QED BY <2>1, <2>2, <2>3
<1>9. CASE ResendReturns(p)
  <2>1. /\ Types' /\ WorldKept /\ UNCHANGED <<frames, tracked, handle, task>>
        /\ OtherPasses(p) /\ pass'[p] = NoPass
        /\ submission'.unadmitted = submission.unadmitted
        /\ submission'.handledSession = Handled
    BY <1>9, ReturnsEffects
  <2>2. QED BY <1>3, <2>1, PassOnlyKeepsAccounts
<1>10. CASE Abandon(p)
  <2>1. /\ Types' /\ WorldKept /\ UNCHANGED <<frames, tracked, handle, submission, age, task>>
        /\ OtherPasses(p) /\ pass'[p] = NoPass
    BY <1>10, AbandonEffects
  <2>2. QED BY <1>3, <2>1, PassOnlyKeepsAccounts DEF Handled
<1>11. QED BY <1>4, <1>5, <1>6, <1>7, <1>8, <1>9, <1>10 DEF Advance

LEMMA ResendKeepsAccounts ==
  ASSUME Types, Accounts, NEW p \in Passes, Resend(p)
  PROVE  Types' /\ Accounts'
<1>1. Belongs(pass[p].request, session) /\ pass[p].request \in Creators
  <2>1. pass[p].pc = "resending" /\ pass[p].session = session /\ OwnPass(p)
    BY DEF Resend, At, Current, Accounts, OwnPasses
  <2>2. QED BY <2>1 DEF OwnPass, Belongs
<1>2. /\ Types' /\ WorldKept /\ UNCHANGED <<tracked, handle, submission, age, task>>
      /\ pass[p].pc = "resending" /\ OtherPasses(p) /\ Wider(pass[p].request)
      /\ pass'[p].pc = "resent" /\ pass'[p].kind = pass[p].kind
      /\ pass'[p].session = pass[p].session /\ pass'[p].project = pass[p].project
      /\ pass'[p].request = pass[p].request
  BY <1>1, ResendEffects
<1>3. UNCHANGED <<session, generation, connected>>
  BY <1>2 DEF WorldKept
<1>4. Grow /\ Calm /\ \A j : Stays(j)
  BY <1>2, HandlesSame DEF Accounts
<1>5. PassesFit
  BY <1>2, PassMoves DEF PassFits, SamePlan
<1>6. FramesFit
  BY <1>1, <1>2, FramesWider
<1>7. AccountGrows /\ TasksFit /\ LessState
  BY <1>2, <1>3, <1>4, TasksSame DEF AccountGrows, LessState, Handled
<1>8. QED BY <1>2, <1>3, <1>4, <1>5, <1>6, <1>7, StateKept, ClientKeepsAccounts DEF Accounts

LEMMA ResolveKeepsAccounts ==
  ASSUME Types, Accounts, NEW p \in Passes, ResolveStart(p), resent' = resent
  PROVE  Types' /\ Accounts'
<1>1. /\ Types' /\ WorldKept /\ UNCHANGED <<frames, tracked, handle, submission, age, task>>
      /\ Starts(p, "status", "resolve") /\ OtherPasses(p)
  BY ResolveEffects
<1>2. PassFits(p)
  BY <1>1 DEF PassFits, NewPlan, WorldKept
<1>3. QED BY <1>1, <1>2, PassOnlyKeepsAccounts DEF Handled

--------------------------------------------------------------------------------
(***************************************************************************)
(* Accounts: the theorems.                                                 *)
(***************************************************************************)
LEMMA StartAccounts ==
  ASSUME ConstantsAreSound, Init
  PROVE  Types /\ Accounts
<1>1. /\ session = 0 /\ generation = 1 /\ connected = TRUE /\ frames = {} /\ inbox = <<>>
      /\ tracked = None /\ age = "recent" /\ recheck = FALSE
      /\ submission = [unadmitted |-> None, awaiting |-> FALSE, submitted |-> FALSE,
                       sentOn |-> NoReceipt, handledSession |-> NoSession]
      /\ task = [k \in Projects |-> NoTask] /\ pass = [p \in Passes |-> NoPass]
      /\ service = [s \in Sessions |-> [registry |-> "absent", record |-> FALSE]]
      /\ admitted = [k \in Creators |-> 0] /\ resent = [k \in Creators |-> 0]
  BY DEF Init
<1> DEFINE start == [pc |-> "idle", session |-> 0, status |-> "none", cause |-> "none",
                     generation |-> 0]
<1>2. handle = [k \in Projects |-> start]
  BY DEF Init
<1>3. 0 \in Sessions /\ start \in Handles /\ NoReceipt \in Receipts /\ NoTask \in Tasks
      /\ NoPass \in RecoveryPasses /\ MaxGeneration \in Nat \ {0}
  BY SessionFacts, IdleFacts DEF Handles, ConstantsAreSound
<1>4. [registry |-> "absent", record |-> FALSE] \in Services
  BY DEF Services
<1>5. submission \in Submissions
  BY <1>1, <1>3 DEF Submissions
<1>6. service \in [Sessions -> Services]
  BY <1>1, <1>4
<1>7. task \in [Projects -> Tasks] /\ pass \in [Passes -> RecoveryPasses]
      /\ handle \in [Projects -> Handles] /\ inbox \in Seq(Messages)
  BY <1>1, <1>2, <1>3
<1>8. admitted \in [Creators -> Nat] /\ resent \in [Creators -> Nat]
  BY <1>1
<1>9. Types
  <2>1. session \in Sessions /\ generation \in Nat \ {0} /\ connected \in BOOLEAN
    BY <1>1, <1>3
  <2>2. frames \in SUBSET Frames /\ tracked \in Projects \cup {None}
        /\ age \in {"recent", "old"} /\ recheck \in BOOLEAN
    BY <1>1
  <2>3. QED BY <1>5, <1>6, <1>7, <1>8, <2>1, <2>2 DEF Types
<1>10. Bounds /\ OwnState /\ OwnFrames
  BY <1>1, <1>3 DEF Bounds, OwnState, OwnFrames, Handled
<1>11. Beginnings
  BY <1>2, ProjectFacts DEF Beginnings, Began
<1>12. OwnTasks /\ OwnPasses
  BY <1>1 DEF OwnTasks, OwnTask, OwnPasses, OwnPass, NoTask, NoPass
<1>13. QED BY <1>9, <1>10, <1>11, <1>12 DEF Accounts

(* What a project of an ended account meets: nothing, or the end of its account *)
Silent ==
  \A k \in Creators : handle[k].session < session /\ handle[k].status = "open" =>
    SameFate(handle'[k], handle[k]) \/ Fails(handle'[k], handle[k], "session")

LEMMA SilentFacts ==
  ASSUME Types
  PROVE  /\ handle' = handle => Silent
         /\ EndedAll => Silent
<1>1. handle' = handle => Silent
  BY DEF Silent, SameFate
<1>2. EndedAll => Silent
  BY ProjectFacts DEF EndedAll, EndedWith, Silent, Types
<1>3. QED BY <1>1, <1>2

LEMMA SilentOthers ==
  ASSUME Types, NEW k \in Projects, Others(k),
         \/ k = Recovered
         \/ handle[k].session = session
         \/ SameFate(handle'[k], handle[k])
         \/ Fails(handle'[k], handle[k], "session")
  PROVE  Silent
<1>1. SUFFICES ASSUME NEW j \in Creators, handle[j].session < session
               PROVE  SameFate(handle'[j], handle[j]) \/ Fails(handle'[j], handle[j], "session")
  BY DEF Silent
<1>2. j \in Projects /\ j # Recovered /\ session \in Nat
  BY ProjectFacts, SessionFacts DEF Types
<1>3. j # k => SameFate(handle'[j], handle[j])
  BY <1>2 DEF Others, SameFate
<1>4. QED BY <1>1, <1>2, <1>3

LEMMA CreateIsSilent ==
  ASSUME Types, Accounts, NEW k \in Creators, Create(k), resent' = resent
  PROVE  Silent
<1>1. k \in Projects
  BY ProjectFacts DEF Types
<1>2. CASE Begin(k)
  <2>1. /\ handle[k].pc = "idle" /\ \A j \in Projects : j # k => handle'[j] = Ended[j]
    BY <1>2, BeginEffects DEF Accounts
  <2>2. handle[k].status # "open"
    BY <2>1 DEF Accounts, Beginnings, Began
  <2>3. \A j \in Projects : EndedWith(j, Ended)
    BY Pruning DEF Accounts
  <2>4. QED BY <2>1, <2>2, <2>3, ProjectFacts DEF Silent, EndedWith, Types
<1>3. CASE Track(k)
  <2>1. Others(k) /\ handle[k].session = session
    BY <1>3, TrackEffects
  <2>2. QED BY <1>1, <2>1, SilentOthers
<1>4. CASE NotTracked(k)
  <2>1. Others(k) /\ SameFate(handle'[k], handle[k])
    BY <1>4, NotTrackedEffects
  <2>2. QED BY <1>1, <2>1, SilentOthers
<1>5. CASE WriteRequest(k)
  <2>1. Others(k) /\ SameFate(handle'[k], handle[k])
    BY <1>5, WriteRequestEffects
  <2>2. QED BY <1>1, <2>1, SilentOthers
<1>6. CASE Confirm(k)
  <2>1. Others(k) /\ SameFate(handle'[k], handle[k])
    BY <1>6, ConfirmEffects
  <2>2. QED BY <1>1, <2>1, SilentOthers
<1>7. CASE SendFails(k)
  <2>1. /\ Others(k)
        /\ SameFate(handle'[k], handle[k]) \/ Fails(handle'[k], handle[k], "session")
    BY <1>7, SendFailsEffects
  <2>2. QED BY <1>1, <2>1, SilentOthers
<1>8. QED BY <1>2, <1>3, <1>4, <1>5, <1>6, <1>7 DEF Create

LEMMA TrackedFacts ==
  ASSUME Types, Accounts, tracked # None, Handled = session
  PROVE  tracked \in Projects /\ handle[tracked].session = session
BY DEF Types, Accounts, OwnState, Kin

LEMMA HearIsSilent ==
  ASSUME Types, Accounts, Hear, resent' = resent
  PROVE  Silent
<1>1. \/ Retired /\ EndedAll /\ task' = task
      \/ /\ Handled = session /\ tracked' = tracked
         /\ HearsNothing \/ HearsEvidence \/ HearsRefusal \/ HearsRestart
  BY HearEffects DEF Accounts
<1>2. CASE EndedAll
  BY <1>2, SilentFacts
<1>3. CASE /\ Handled = session
           /\ HearsNothing \/ HearsEvidence \/ HearsRefusal \/ HearsRestart
  <2>1. handle' = handle \/ (tracked # None /\ Others(tracked))
    BY <1>3 DEF HearsNothing, HearsEvidence, HearsRefusal, HearsRestart, DoneIs, Open
  <2>2. QED BY <1>3, <2>1, TrackedFacts, SilentFacts, SilentOthers
<1>4. QED BY <1>1, <1>2, <1>3

LEMMA RestartIsSilent ==
  ASSUME Types, Accounts, NEW k \in Projects, Restart(k), resent' = resent
  PROVE  Silent
<1>1. CASE ResumeTask(k)
  BY <1>1, SilentFacts DEF ResumeTask
<1>2. CASE WriteAgain(k)
  BY <1>2, SilentFacts DEF WriteAgain
<1>3. CASE FinishTask(k)
  BY <1>3, SilentFacts DEF FinishTask
<1>4. CASE FailTask(k)
  <2>1. task[k].pc # "none" /\ task[k].session = session /\ Others(k)
    BY <1>4, FailTaskEffects
  <2>2. k = Recovered \/ handle[k].session = session
    BY <2>1 DEF Accounts, OwnTasks, OwnTask, Belongs, Projects
  <2>3. QED BY <2>1, <2>2, SilentOthers
<1>5. CASE EndTask(k)
  BY <1>5, EndTaskEffects, SilentFacts DEF Accounts
<1>6. QED BY <1>1, <1>2, <1>3, <1>4, <1>5 DEF Restart

LEMMA AdvanceIsSilent ==
  ASSUME Types, Accounts, NEW p \in Passes, Advance(p), resent' = resent
  PROVE  Silent
<1>1. /\ pass[p].project \in Projects /\ pass[p].pc # "idle" /\ pass[p].session = session =>
           pass[p].project = Recovered \/ handle[pass[p].project].session = session
  BY DEF Accounts, OwnPasses, OwnPass, Belongs, Projects
<1>2. CASE SyncSnapshot(p)
  BY <1>2, SilentFacts DEF SyncSnapshot
<1>3. CASE SyncReconcile(p)
  <2>1. /\ pass[p].pc = "reconcile" /\ pass[p].session = session
        /\ handle' = handle \/ Adopts \/ (tracked # None /\ Learns(tracked))
    BY <1>3, ReconcileEffects
  <2>2. Handled = session
    <3>1. OwnPass(p) /\ session <= Handled /\ Handled # NoSession
      BY <2>1 DEF Accounts, OwnPasses, OwnPass
    <3>2. QED BY <3>1, SessionFacts DEF Accounts, Bounds, Types, Submissions, Handled
  <2>3. CASE Adopts
    BY <2>3, SilentOthers, ProjectFacts DEF Adopts, Types
  <2>4. CASE tracked # None /\ Learns(tracked)
    BY <2>2, <2>4, TrackedFacts, SilentFacts, SilentOthers DEF Learns, DoneIs
  <2>5. QED BY <2>1, <2>3, <2>4, SilentFacts
<1>4. CASE Status(p)
  <2>1. /\ pass[p].pc = "status" /\ pass[p].session = session
        /\ handle' = handle \/ (pass[p].project \in Projects /\ DoneIs(pass[p].project))
    BY <1>4, StatusEffects
  <2>2. QED BY <1>1, <2>1, SilentFacts, SilentOthers DEF DoneIs
<1>5. CASE ActiveRegistry(p)
  BY <1>5, SilentFacts DEF ActiveRegistry
<1>6. CASE Judge(p)
  <2>1. /\ pass[p].pc = "judge" /\ pass[p].session = session
        /\ handle' = handle \/ (pass[p].project \in Projects /\ Others(pass[p].project))
    BY <1>6, JudgeEffects DEF Claims, Judges
  <2>2. QED BY <1>1, <2>1, SilentFacts, SilentOthers
<1>7. CASE ResendReturns(p)
  BY <1>7, SilentFacts DEF ResendReturns
<1>8. CASE Abandon(p)
  BY <1>8, SilentFacts DEF Abandon
<1>9. QED BY <1>2, <1>3, <1>4, <1>5, <1>6, <1>7, <1>8 DEF Advance

LEMMA StepKeepsAccounts ==
  ASSUME Types, Accounts, [Next]_vars
  PROVE  Types' /\ Accounts' /\ (Silent \/ UNCHANGED vars)
<1>1. CASE UNCHANGED vars
  <2>1. UNCHANGED <<session, generation, connected, frames, service, admitted, inbox, tracked,
                    handle, submission, age, recheck, task, pass, resent>>
    BY <1>1 DEF vars, socketVars, serviceVars, clientVars
  <2>2. Types' /\ ClientKept
    BY <2>1 DEF Types, ClientKept
  <2>3. QED BY <1>1, <2>1, <2>2, WorldKeepsAccounts
<1>2. CASE SwitchAccount /\ resent' = resent
  BY <1>2, EnvironmentKeepsAccounts, SilentFacts DEF SwitchAccount, clientVars
<1>3. CASE Disconnect /\ resent' = resent
  BY <1>3, EnvironmentKeepsAccounts, SilentFacts DEF Disconnect, clientVars
<1>4. CASE Reconnect /\ resent' = resent
  BY <1>4, EnvironmentKeepsAccounts, SilentFacts DEF Reconnect
<1>5. CASE Age /\ resent' = resent
  BY <1>5, EnvironmentKeepsAccounts, SilentFacts DEF Age
<1>6. CASE Service /\ resent' = resent
  <2>1. handle' = handle
    BY <1>6 DEF Service, Admit, Refuse, Lose, WriteRecord, Complete, clientVars
  <2>2. QED BY <1>6, <2>1, EnvironmentKeepsAccounts, SilentFacts
<1>7. CASE Hear /\ resent' = resent
  BY <1>7, HearKeepsAccounts, HearIsSilent
<1>8. CASE HearSwitch /\ resent' = resent
  BY <1>8, SwitchHeardKeepsAccounts, SwitchHeardEffects, SilentFacts DEF Accounts
<1>9. CASE (\E k \in Creators : Create(k)) /\ resent' = resent
  BY <1>9, CreateKeepsAccounts, CreateIsSilent
<1>10. CASE (\E k \in Projects : Restart(k)) /\ resent' = resent
  BY <1>10, RestartKeepsAccounts, RestartIsSilent
<1>11. CASE (\E p \in Passes : SyncStart(p)) /\ resent' = resent
  BY <1>11, SyncStartKeepsAccounts, SyncStartEffects, SilentFacts DEF Accounts
<1>12. CASE (\E p \in Passes : ResolveStart(p)) /\ resent' = resent
  BY <1>12, ResolveKeepsAccounts, SilentFacts DEF ResolveStart
<1>13. CASE (\E p \in Passes : Advance(p)) /\ resent' = resent
  BY <1>13, AdvanceKeepsAccounts, AdvanceIsSilent
<1>14. CASE \E p \in Passes : Resend(p)
  BY <1>14, ResendKeepsAccounts, SilentFacts DEF Resend
<1>15. QED BY <1>1, <1>2, <1>3, <1>4, <1>5, <1>6, <1>7, <1>8, <1>9, <1>10, <1>11, <1>12,
              <1>13, <1>14 DEF Next, Quiet

(* Every value keeps its type, every project its account, and what the client keeps *)
(* is of one account: creations, tasks and passes only ever carry what belongs to   *)
(* the account they began in (create.rs, recovery.rs, session.rs).                  *)
THEOREM AccountsHold ==
  ASSUME ConstantsAreSound
  PROVE  Spec => [](Types /\ Accounts)
<1>1. Init => Types /\ Accounts
  BY StartAccounts
<1>2. Types /\ Accounts /\ [Next]_vars => (Types /\ Accounts)'
  BY StepKeepsAccounts
<1>3. QED BY <1>1, <1>2, PTL DEF Spec

(* The type invariant of Submission, with the bound of the connection number: one *)
(* connection for every account beyond those that MaxGeneration allows to be lost *)
(* (SocketInner.generation).                                                      *)
THEOREM SubmissionTypes ==
  ASSUME ConstantsAreSound
  PROVE  Spec => []TypeOK
<1>1. Types /\ Accounts => TypeOK
  <2> SUFFICES ASSUME Types, Accounts PROVE TypeOK
    OBVIOUS
  <2>2. generation \in 1 .. MaxGeneration + MaxSession + 1
    <3>1. /\ session \in Nat /\ session <= MaxSession /\ MaxSession \in Nat
          /\ MaxGeneration \in Nat /\ generation \in Nat /\ generation # 0
          /\ connected \in BOOLEAN
      BY DEF Types, ConstantsAreSound, Sessions
    <3>2. generation <= MaxGeneration + session
      BY <3>1 DEF Accounts, Bounds
    <3>3. QED BY <3>1, <3>2
  <2>3. submission \in [unadmitted : Creators \cup {None}, awaiting : BOOLEAN,
                        submitted : BOOLEAN, sentOn : Receipts,
                        handledSession : 0 .. NoSession]
    <3>1. Sessions \cup {NoSession} = 0 .. NoSession
      BY DEF Sessions, NoSession, Types, ConstantsAreSound
    <3>2. submission \in Submissions
      BY DEF Types
    <3>3. QED BY <3>1, <3>2 DEF Submissions
  <2>4. /\ service \in [Sessions -> [registry : {"absent", "live", "gone"}, record : BOOLEAN]]
        /\ inbox \in Seq([kind : {"seen", "done", "refused"}, session : Sessions])
    BY DEF Types, Services, Messages
  <2>5. /\ session \in Sessions /\ connected \in BOOLEAN /\ frames \in SUBSET Frames
        /\ admitted \in [Creators -> Nat] /\ resent \in [Creators -> Nat]
        /\ tracked \in Projects \cup {None} /\ handle \in [Projects -> Handles]
        /\ age \in {"recent", "old"} /\ recheck \in BOOLEAN
        /\ task \in [Projects -> Tasks] /\ pass \in [Passes -> RecoveryPasses]
    BY DEF Types
  <2>6. QED BY <2>2, <2>3, <2>4, <2>5 DEF TypeOK
<1>2. QED BY <1>1, AccountsHold, PTL

(* No frame carries a request of another account's project, however often the      *)
(* account changes while a creation, a restart or a resend waits (the session that *)
(* the socket compares before it writes; create.rs, submission_recovery.rs).       *)
THEOREM RequestsGoToOwnAccount ==
  ASSUME ConstantsAreSound
  PROVE  Spec => []OwnAccountWire
<1>1. Accounts => OwnAccountWire
  BY DEF Accounts, OwnFrames, OwnAccountWire
<1>2. QED BY <1>1, AccountsHold, PTL

(* Nothing that a later account hears, looks up, resends or judges settles a       *)
(* project of an ended one: only the end of the account does (the session          *)
(* comparisons of the listener, of the restart task and of every recovery pass).   *)
THEOREM EndedProjectsAreLeftAlone ==
  ASSUME ConstantsAreSound
  PROVE  Spec => EndedAccountIsSilent
<1> DEFINE A == \A k \in Creators : SettledBySession(k)
<1>1. ASSUME Types, Accounts, [Next]_vars PROVE [A]_vars
  <2>1. Silent \/ UNCHANGED vars
    BY <1>1, StepKeepsAccounts
  <2>2. Silent => A
    BY DEF Silent, SettledBySession, SameFate, Fails
  <2>3. QED BY <2>1, <2>2
<1>2. QED BY <1>1, AccountsHold, PTL DEF Spec, EndedAccountIsSilent

--------------------------------------------------------------------------------
(***************************************************************************)
(* One request for each project: the invariant.  It needs a service that   *)
(* answers within the grace, and events that do not outlast a connection.  *)
(***************************************************************************)
Tried(k) == handle[k].status # "none"
Preparing == {"prepared", "sending", "wrote"}
Sent(k) == handle[k].pc \in {"sending", "wrote", "created"}
Siblings(j, k) ==
  j # k /\ Began(j) /\ Began(k) /\ handle[j].session = handle[k].session

Creation(k) ==
  /\ handle[k].pc \in {"idle", "prepared"} => ~Tried(k)
  /\ Sent(k) => Tried(k)
  /\ Sent(k) /\ handle[k].session = Handled => tracked = k
  /\ tracked = k => Sent(k)
Creations == \A k \in Creators : Creation(k)

(* Of the creations of an id and an account, one is tried at most *)
Apart(j, k) ==
  Siblings(j, k) =>
    /\ ~(handle[j].pc \in Preparing /\ handle[k].pc \in Preparing)
    /\ handle[j].pc = "failed" /\ Tried(j) => handle[k].pc \notin Preparing
    /\ ~(Tried(j) /\ Tried(k))
Single == \A j, k \in Creators : Apart(j, k)

(* What may still make the service admit the request of a project *)
NoFrame(k) == \A f \in frames : f.request # k
OneFrame(k) == \A f, g \in frames : f.request = k /\ g.request = k => f = g
Again(k) == task[k].pc \in {"waiting", "writing"}
Resends(p, k) == pass[p].pc = "resending" /\ pass[p].request = k
Carries(p, k) == pass[p].pc \in {"resending", "resent"} /\ pass[p].request = k
Coming(k) == handle[k].pc = "sending" \/ Again(k) \/ \E p \in Passes : Resends(p, k)
IsRefusal(i) == inbox[i].kind = "refused" /\ inbox[i].session = session
Refused == \E i \in DOMAIN inbox : IsRefusal(i)

Untouched(k) ==
  ~Tried(k) =>
    /\ NoFrame(k) /\ admitted[k] = 0 /\ resent[k] = 0 /\ task[k].pc = "none"
    /\ submission.unadmitted # k
    /\ \A p \in Passes : ~Carries(p, k)

OneRequest(k) ==
  /\ admitted[k] <= 1 /\ OneFrame(k)
  /\ ~NoFrame(k) => admitted[k] = 0
  /\ Coming(k) => admitted[k] = 0 /\ NoFrame(k)
  /\ handle[k].pc = "sending" => task[k].pc = "none" /\ \A p \in Passes : ~Resends(p, k)
  /\ Again(k) => \A p \in Passes : ~Resends(p, k)
  /\ \A p, q \in Passes : Resends(p, k) /\ Resends(q, k) => p = q
  /\ Refused /\ Tried(k) /\ handle[k].session = session =>
       admitted[k] = 0 /\ NoFrame(k) /\ ~Coming(k)

ResentOnce(k) ==
  /\ resent[k] <= 1
  /\ (\E p \in Passes : Resends(p, k)) => resent[k] = 0
  /\ resent[k] > 0 \/ (\E p \in Passes : Carries(p, k)) =>
       submission.submitted \/ handle[k].session # Handled

OwnRequest(k) == task[k].pc # "none" => task[k].request = k
LostForGood(k) ==
  handle[k].cause = "lost" => Tried(k) /\ ~Open(k) /\ admitted[k] = 0 /\ NoFrame(k) /\ ~Coming(k)

Request(k) == Untouched(k) /\ OneRequest(k) /\ ResentOnce(k) /\ OwnRequest(k) /\ LostForGood(k)
Carried(p) == \A k \in Creators : Carries(p, k) => handle[k].pc = "created"
Requests ==
  /\ \A k \in Creators : Request(k)
  /\ \A p \in Passes : Carried(p)
  /\ task[Recovered].pc = "none" /\ handle[Recovered].cause # "lost"

(* What the service says of the current account *)
Told ==
  /\ \A i \in DOMAIN inbox : inbox[i].session <= session
  /\ \A i, j \in DOMAIN inbox : IsRefusal(i) /\ IsRefusal(j) => i = j
  /\ Refused => \E k \in Creators : Tried(k) /\ handle[k].session = session

(* Only the creation has written the request, on the connection that it saw *)
Fresh(k) == submission.unadmitted = k /\ ~submission.submitted /\ ~submission.awaiting
WrittenOn(k, g) == handle[k].pc \in {"wrote", "created"} /\ handle[k].generation = g
FreshReceipt(k) ==
  Fresh(k) =>
    /\ submission.sentOn.generation > 0 /\ submission.sentOn.session = Handled =>
         handle[k].pc = "created" /\ handle[k].generation = submission.sentOn.generation
    /\ \A f \in frames : f.request = k => WrittenOn(k, f.generation)
    /\ Refused /\ handle[k].session = session => WrittenOn(k, generation)
Receipt ==
  /\ \A f \in frames : f.generation = generation
  /\ \A k \in Creators : FreshReceipt(k)
  /\ submission.sentOn.generation > 0 =>
       Handled # NoSession /\ submission.sentOn.session <= Handled
  /\ submission.sentOn.generation > 0 /\ submission.sentOn.session = Handled =>
       \E k \in Creators : Kin(k) /\ handle[k].pc = "created"

Wait(k) ==
  task[k].pc # "none" /\ task[k].session = Handled =>
    submission.awaiting /\ (task[k].pc = "waiting" => submission.unadmitted = None)
Waits == \A k \in Creators : Wait(k)

Known(s) == service[s].registry # "absent"
Registries ==
  /\ \A k \in Creators : admitted[k] > 0 => Known(handle[k].session)
  /\ \A s \in Sessions : Known(s) => \E k \in Creators : admitted[k] > 0 /\ handle[k].session = s
  /\ \A s \in Sessions : service[s].registry = "gone" => service[s].record
RecoveredIsKnown == tracked = Recovered => submission.unadmitted = None /\ Known(Handled)

Looked(p) ==
  /\ pass[p].seen # "absent" => Known(pass[p].session)
  /\ pass[p].project = Recovered => Known(pass[p].session)
  /\ pass[p].pc = "registry" => service[pass[p].session].registry # "gone"
  /\ pass[p].project \in Creators => Tried(pass[p].project)
  /\ pass[p].project \in Creators /\ pass[p].returned => handle[pass[p].project].pc = "created"
  /\ pass[p].pc = "judge" /\ pass[p].session = session =>
       /\ pass[p].project # Recovered
       /\ \A k \in Creators :
            Fresh(k) /\ handle[k].session = session /\ admitted[k] > 0 => WrittenOn(k, generation)

(* What keeps a pass from declaring a project lost, or from blaming it on the service *)
Stirred(k) ==
  \/ submission.awaiting \/ ~Open(k)
  \/ \E q \in Passes : Carries(q, k)
  \/ submission.submitted /\ age = "recent"
Quietness(p) ==
  \A k \in Creators :
    pass[p].session = session /\ pass[p].returned /\ pass[p].project = k =>
      /\ pass[p].pc = "registry" => NoFrame(k) \/ Stirred(k)
      /\ pass[p].pc = "judge" => (NoFrame(k) /\ admitted[k] = 0) \/ Stirred(k)

Answers == \A p \in Passes : Looked(p) /\ Quietness(p)

Once == /\ Creations /\ Single /\ Requests /\ Told /\ Receipt /\ Waits /\ Registries
        /\ RecoveredIsKnown /\ Answers

(* Two creations of an account that are both tried are the same *)
LEMMA OnlyOne ==
  ASSUME Types, Beginnings, Single, NEW j \in Creators, NEW k \in Creators,
         Tried(j), Tried(k), handle[j].session = handle[k].session
  PROVE  j = k
BY DEF Beginnings, Single, Apart, Siblings, Tried, Began

LEMMA TriedFacts ==
  ASSUME Types, Accounts, NEW k \in Creators, Tried(k)
  PROVE  /\ Began(k) /\ k \in Projects /\ handle[k].session \in Sessions
         /\ handle[k].session \in Nat /\ Handled # NoSession
         /\ handle[k].session <= Handled /\ Handled <= session /\ Handled \in Nat
         /\ handle[k].session = session => Handled = session
<1>1. k \in Projects /\ handle[k].session \in Sessions /\ handle[k].session \in Nat
      /\ Handled \in Nat /\ session \in Nat
  BY ProjectFacts, SessionFacts DEF Types, Handles, Submissions, Handled
<1>2. Began(k) /\ Handled # NoSession /\ handle[k].session <= Handled /\ Handled <= session
  BY DEF Accounts, Beginnings, Bounds, Tried
<1>3. QED BY <1>1, <1>2

LEMMA TrackedTried ==
  ASSUME Types, Accounts, Creations, tracked # None
  PROVE  /\ tracked = Recovered \/ (tracked \in Creators /\ Sent(tracked) /\ Tried(tracked))
         /\ Kin(tracked)
BY DEF Types, Projects, Accounts, OwnState, Creations, Creation

(* What the client holds of a request is the request of the project that it tracks *)
LEMMA UnadmittedFacts ==
  ASSUME Types, Accounts, Once, submission.unadmitted # None
  PROVE  /\ submission.unadmitted \in Creators /\ Tried(submission.unadmitted)
         /\ Kin(submission.unadmitted)
         /\ tracked # None => tracked = submission.unadmitted
<1> DEFINE r == submission.unadmitted
<1>1. r \in Creators /\ Kin(r)
  BY DEF Types, Submissions, Accounts, OwnState
<1>2. Tried(r)
  BY <1>1 DEF Once, Requests, Request, Untouched
<1>3. ASSUME tracked # None PROVE tracked = r
  <2>1. tracked # Recovered
    BY DEF Once, RecoveredIsKnown
  <2>2. tracked \in Creators /\ Tried(tracked) /\ Kin(tracked)
    BY <1>3, <2>1, TrackedTried DEF Once
  <2>3. handle[tracked].session = handle[r].session
    BY <1>1, <2>2 DEF Kin
  <2>4. QED BY <1>1, <1>2, <2>2, <2>3, OnlyOne DEF Once, Accounts
<1>4. QED BY <1>1, <1>2, <1>3

(***************************************************************************)
(* What keeps the parts of the invariant.                                  *)
(***************************************************************************)
TriedKept(k) == handle'[k].status = "none" <=> handle[k].status = "none"
CallKept(k) == SameCall(handle'[k], handle[k]) /\ TriedKept(k)
CallsKept == \A k \in Creators : CallKept(k)
TrackedKept ==
  /\ submission'.handledSession = Handled
  /\ \A k \in Creators : tracked' = k <=> tracked = k

LEMMA CreationKept ==
  ASSUME Types, Accounts, Creations, NEW k \in Creators, CallKept(k), TrackedKept \/ Retired
  PROVE  Creation(k)'
<1>1. /\ handle'[k].pc = handle[k].pc /\ handle'[k].session = handle[k].session
      /\ handle'[k].status = "none" <=> handle[k].status = "none"
  BY DEF CallKept, SameCall, TriedKept
<1>2. Creation(k)
  BY DEF Creations
<1>3. CASE TrackedKept
  BY <1>1, <1>2, <1>3 DEF TrackedKept, Creation, Sent, Tried, Handled
<1>4. CASE Retired
  <2>1. Handled # session /\ tracked' = None /\ submission'.handledSession = session
    BY <1>4 DEF Retired
  <2>2. Sent(k) => handle[k].session # session
    BY <1>2, <2>1, TriedFacts DEF Creation
  <2>3. k # None
    BY ProjectFacts DEF Types
  <2>4. QED BY <1>1, <1>2, <2>1, <2>2, <2>3 DEF Creation, Sent, Tried, Handled
<1>5. QED BY <1>3, <1>4

LEMMA CreationsKept ==
  ASSUME Types, Accounts, Creations, Single, CallsKept, TrackedKept \/ Retired
  PROVE  Creations' /\ Single'
<1>1. Single'
  BY DEF Single, Apart, Siblings, Tried, Began, CallsKept, CallKept, SameCall, TriedKept
<1>2. QED BY <1>1, CreationKept DEF Creations, CallsKept

(* Nothing new may make the service admit the request of a project *)
MayBeLost(k) ==
  Tried(k) /\ handle'[k].status # "open" /\ admitted[k] = 0 /\ NoFrame(k) /\ ~Coming(k)
LessRequest(k) ==
  /\ TriedKept(k)
  /\ Tried(k) => handle'[k].session = handle[k].session
  /\ handle'[k].pc = "sending" => handle[k].pc = "sending"
  /\ handle'[k].status = "open" => handle[k].status = "open"
  /\ handle'[k].cause = "lost" => handle[k].cause = "lost" \/ MayBeLost(k)
  /\ task'[k].pc # "none" => task[k].pc # "none" /\ task'[k].request = task[k].request
  /\ task'[k].pc \in {"waiting", "writing"} => Again(k)
  /\ admitted'[k] = admitted[k] /\ resent'[k] = resent[k]
  /\ \A f \in frames' : f.request = k => f \in frames
  /\ submission'.unadmitted = k => submission.unadmitted = k \/ task[k].pc # "none"
LessPass(p, k) ==
  /\ pass'[p].pc = "resending" /\ pass'[p].request = k => Resends(p, k)
  /\ pass'[p].pc \in {"resending", "resent"} /\ pass'[p].request = k => Carries(p, k)
LessPasses(k) == \A p \in Passes : LessPass(p, k)
LessRefused == Refused' => Refused /\ session' = session
StillSubmitted(k) ==
  Tried(k) /\ (submission.submitted \/ handle[k].session # Handled) =>
    submission'.submitted \/ handle'[k].session # submission'.handledSession

LEMMA RequestKept ==
  ASSUME Types, NEW k \in Creators, Request(k), LessRequest(k), LessPasses(k), StillSubmitted(k),
         LessRefused \/ ~(Tried(k) /\ handle[k].session = session')
  PROVE  Request(k)'
<1>1. /\ NoFrame(k) => NoFrame(k)'
      /\ OneFrame(k) => OneFrame(k)'
  BY DEF NoFrame, OneFrame, LessRequest
<1>2. /\ \A p \in Passes : Resends(p, k)' => Resends(p, k)
      /\ \A p \in Passes : Carries(p, k)' => Carries(p, k)
  BY DEF LessPasses, LessPass, Resends, Carries
<1>3. /\ Tried(k)' <=> Tried(k)
      /\ admitted'[k] = admitted[k] /\ resent'[k] = resent[k]
      /\ Again(k)' => Again(k)
      /\ handle'[k].pc = "sending" => handle[k].pc = "sending"
      /\ task'[k].pc # "none" => task[k].pc # "none"
  BY DEF LessRequest, TriedKept, Tried, Again
<1>4. Coming(k)' => Coming(k)
  BY <1>2, <1>3 DEF Coming
<1>5. Untouched(k)'
  BY <1>1, <1>2, <1>3 DEF Request, Untouched, LessRequest
<1>6. OneRequest(k)'
  <2>1. /\ admitted'[k] <= 1 /\ OneFrame(k)'
        /\ ~NoFrame(k)' => admitted'[k] = 0
        /\ Coming(k)' => admitted'[k] = 0 /\ NoFrame(k)'
    BY <1>1, <1>3, <1>4 DEF Request, OneRequest
  <2>2. /\ handle'[k].pc = "sending" => task'[k].pc = "none" /\ \A p \in Passes : ~Resends(p, k)'
        /\ Again(k)' => \A p \in Passes : ~Resends(p, k)'
        /\ \A p, q \in Passes : Resends(p, k)' /\ Resends(q, k)' => p = q
    BY <1>2, <1>3 DEF Request, OneRequest
  <2>3. Refused' /\ Tried(k)' /\ handle'[k].session = session' =>
          admitted'[k] = 0 /\ NoFrame(k)' /\ ~Coming(k)'
    <3>1. Refused' /\ Tried(k)' /\ handle'[k].session = session' =>
            Refused /\ Tried(k) /\ handle[k].session = session
      BY <1>3 DEF LessRefused, LessRequest, TriedKept, Tried
    <3>2. QED BY <1>1, <1>3, <1>4, <3>1 DEF Request, OneRequest
  <2>4. QED BY <2>1, <2>2, <2>3 DEF OneRequest
<1>7. ResentOnce(k)'
  <2>1. resent[k] > 0 \/ (\E p \in Passes : Carries(p, k)) =>
          Tried(k) /\ (submission.submitted \/ handle[k].session # Handled)
    BY DEF Request, ResentOnce, Untouched, Types
  <2>2. resent'[k] > 0 \/ (\E p \in Passes : Carries(p, k)') =>
          submission'.submitted \/ handle'[k].session # submission'.handledSession
    BY <1>2, <1>3, <2>1 DEF StillSubmitted
  <2>3. resent'[k] <= 1 /\ ((\E p \in Passes : Resends(p, k)') => resent'[k] = 0)
    BY <1>2, <1>3 DEF Request, ResentOnce
  <2>4. QED BY <2>2, <2>3 DEF ResentOnce, Handled
<1>8. OwnRequest(k)'
  BY DEF Request, OwnRequest, LessRequest
<1>9. LostForGood(k)'
  BY <1>1, <1>3, <1>4 DEF Request, LostForGood, LessRequest, Open, MayBeLost
<1>10. QED BY <1>5, <1>6, <1>7, <1>8, <1>9 DEF Request

(* What else the requests rest on *)
SafelyCarried ==
  /\ \A p \in Passes : \A k \in Creators :
       pass'[p].pc \in {"resending", "resent"} /\ pass'[p].request = k =>
         Carries(p, k) \/ handle'[k].pc = "created"
  /\ \A k \in Creators : handle[k].pc = "created" => handle'[k].pc = "created"
  /\ task'[Recovered].pc = "none" /\ handle'[Recovered].cause # "lost"

LEMMA CarriedKept ==
  ASSUME Requests, SafelyCarried
  PROVE  /\ \A p \in Passes : Carried(p)'
         /\ task'[Recovered].pc = "none" /\ handle'[Recovered].cause # "lost"
BY DEF Requests, SafelyCarried, Carried, Carries

LEMMA RequestsKept ==
  ASSUME Types, Requests, SafelyCarried, LessRefused,
         \A k \in Creators : LessRequest(k) /\ LessPasses(k) /\ StillSubmitted(k)
  PROVE  Requests'
<1>1. ASSUME NEW k \in Creators PROVE Request(k)'
  BY RequestKept DEF Requests
<1>2. QED BY <1>1, CarriedKept DEF Requests

LEMMA ToldKept ==
  ASSUME Types, Told, inbox' = inbox, session' = session,
         \A k \in Creators : Tried(k) => handle'[k].status # "none" /\ handle'[k].session = handle[k].session
  PROVE  Told' /\ (Refused' <=> Refused)
BY DEF Told, Refused, IsRefusal, Tried

(* A creation whose request the client still holds keeps what it knows of its write *)
FreshKept(k) ==
  submission'.unadmitted = k /\ ~submission'.submitted /\ ~submission'.awaiting =>
    /\ Fresh(k)
    /\ handle'[k].pc = handle[k].pc /\ handle'[k].session = handle[k].session
    /\ handle'[k].generation = handle[k].generation

LEMMA FreshReceiptKept ==
  ASSUME NEW k \in Creators, FreshReceipt(k), FreshKept(k), LessRefused,
         submission'.handledSession = Handled,
         submission'.sentOn = submission.sentOn \/ ~(submission'.sentOn.generation > 0),
         generation' = generation,
         \A f \in frames' : f.request = k => f \in frames
  PROVE  FreshReceipt(k)'
<1>1. SUFFICES ASSUME Fresh(k)' PROVE FreshReceipt(k)'
  BY DEF FreshReceipt
<1>2. /\ Fresh(k) /\ handle'[k].pc = handle[k].pc /\ handle'[k].session = handle[k].session
      /\ handle'[k].generation = handle[k].generation
  BY <1>1 DEF FreshKept, Fresh
<1>3. submission'.sentOn.generation > 0 /\ submission'.sentOn.session = submission'.handledSession =>
        handle'[k].pc = "created" /\ handle'[k].generation = submission'.sentOn.generation
  BY <1>2 DEF FreshReceipt
<1>4. \A f \in frames' : f.request = k => WrittenOn(k, f.generation)'
  BY <1>2 DEF FreshReceipt, WrittenOn
<1>5. Refused' /\ handle'[k].session = session' => WrittenOn(k, generation)'
  BY <1>2 DEF FreshReceipt, WrittenOn, LessRefused
<1>6. QED BY <1>3, <1>4, <1>5 DEF FreshReceipt, Handled

ReceiptGoesOn ==
  /\ submission'.handledSession = Handled
  /\ submission'.sentOn = submission.sentOn \/ ~(submission'.sentOn.generation > 0)
  /\ \A k \in Creators : handle[k].pc = "created" =>
       handle'[k].pc = "created" /\ handle'[k].session = handle[k].session

LEMMA ReceiptStands ==
  ASSUME Receipt, ReceiptGoesOn, ConstantsAreSound
  PROVE  /\ submission'.sentOn.generation > 0 =>
              submission'.handledSession # NoSession
              /\ submission'.sentOn.session <= submission'.handledSession
         /\ submission'.sentOn.generation > 0
            /\ submission'.sentOn.session = submission'.handledSession =>
              \E k \in Creators : Kin(k)' /\ handle'[k].pc = "created"
<1>1. CASE ~(submission'.sentOn.generation > 0)
  BY <1>1
<1>2. CASE submission'.sentOn = submission.sentOn
  <2>1. submission.sentOn.generation > 0 /\ submission.sentOn.session = Handled =>
          \E k \in Creators : Kin(k)' /\ handle'[k].pc = "created"
    BY DEF Receipt, ReceiptGoesOn, Kin, Began, Handled
  <2>2. QED BY <1>2, <2>1 DEF Receipt, ReceiptGoesOn
<1>3. QED BY <1>1, <1>2 DEF ReceiptGoesOn

LEMMA ReceiptKept ==
  ASSUME Receipt, ReceiptGoesOn, ConstantsAreSound, LessRefused, generation' = generation,
         frames' \subseteq frames, \A k \in Creators : FreshKept(k)
  PROVE  Receipt'
<1>1. ASSUME NEW k \in Creators PROVE FreshReceipt(k)'
  BY FreshReceiptKept DEF Receipt, ReceiptGoesOn
<1>2. QED BY <1>1, ReceiptStands DEF Receipt, Handled

LEMMA ReceiptRetired ==
  ASSUME Types, Types', Receipt, Bounds, Retired, generation' = generation,
         frames' \subseteq frames
  PROVE  Receipt' /\ ~(submission'.sentOn.generation > 0)
<1>1. ~(submission'.sentOn.generation > 0)
  <2>1. NoReceipt.generation = 0
    BY DEF NoReceipt
  <2>2. CASE submission'.sentOn = NoReceipt
    BY <2>1, <2>2
  <2>3. CASE submission'.sentOn = submission.sentOn /\ submission'.sentOn.session = session
    <3>1. submission.sentOn.generation > 0 => Handled # NoSession /\ session <= Handled
                                              /\ Handled <= session /\ Handled # session
      BY <2>3 DEF Receipt, Bounds, Retired
    <3>2. session \in Nat /\ (Handled # NoSession => Handled \in Nat)
      BY SessionFacts DEF Types, Submissions, Handled
    <3>3. QED BY <2>3, <3>1, <3>2
  <2>4. QED BY <2>2, <2>3 DEF Retired
<1>2. ASSUME NEW k \in Creators PROVE ~Fresh(k)'
  BY ProjectFacts DEF Retired, Fresh, Types
<1>3. QED BY <1>1, <1>2 DEF Receipt, FreshReceipt, Handled

WaitKept(k) ==
  task'[k].pc # "none" =>
    /\ task[k].pc # "none" /\ task'[k].session = task[k].session
    /\ task'[k].pc = "waiting" => task[k].pc = "waiting"
WaitsGoOn ==
  /\ submission'.handledSession = Handled
  /\ submission'.unadmitted = None \/ submission'.unadmitted = submission.unadmitted
  /\ \/ submission.awaiting => submission'.awaiting
     \/ \A k \in Creators : task'[k].pc # "none" => task'[k].session # Handled

LEMMA WaitsKept ==
  ASSUME Types, Accounts, Waits, WaitsGoOn \/ Retired, \A k \in Creators : WaitKept(k)
  PROVE  Waits'
<1>1. SUFFICES ASSUME NEW k \in Creators, task'[k].pc # "none",
                      task'[k].session = submission'.handledSession
               PROVE  /\ submission'.awaiting
                      /\ task'[k].pc = "waiting" => submission'.unadmitted = None
  BY DEF Waits, Wait, Handled
<1>2. /\ task[k].pc # "none" /\ task'[k].session = task[k].session
      /\ task'[k].pc = "waiting" => task[k].pc = "waiting"
  BY <1>1 DEF WaitKept
<1>3. CASE Retired
  <2>1. task[k].session = session /\ Handled # session
    BY <1>1, <1>2, <1>3 DEF Retired
  <2>2. Began(k) /\ handle[k].session = session
    BY <1>2, <2>1, ProjectFacts DEF Types, Accounts, OwnTasks, OwnTask, Belongs
  <2>3. handle[k].session <= Handled /\ Handled # NoSession /\ Handled <= session
    BY <2>2 DEF Accounts, Beginnings, Bounds
  <2>4. QED BY <2>1, <2>2, <2>3, SessionFacts DEF Types, Submissions, Handled
<1>4. CASE WaitsGoOn
  BY <1>1, <1>2, <1>4 DEF Waits, Wait, WaitsGoOn, Handled
<1>5. QED BY <1>3, <1>4

(* The tried creations stay tried, in their account *)
TriedStay ==
  \A k \in Creators : Tried(k) =>
    handle'[k].status # "none" /\ handle'[k].session = handle[k].session

LEMMA RegistriesKept ==
  ASSUME Types, Requests, Registries, TriedStay, admitted' = admitted,
         \A s \in Sessions : /\ service'[s].registry = service[s].registry
                             /\ service[s].record => service'[s].record
  PROVE  Registries'
<1>1. \A k \in Creators : admitted[k] > 0 => Tried(k)
  BY DEF Requests, Request, Untouched, Types
<1>2. \A k \in Creators : handle[k].session \in Sessions
  BY ProjectFacts DEF Types, Handles
<1>3. QED BY <1>1, <1>2 DEF Registries, TriedStay, Known

LEMMA RecoveredKept ==
  ASSUME RecoveredIsKnown, ConstantsAreSound, Handled \in Sessions \/ tracked = None,
         \/ Retired
         \/ /\ submission'.handledSession = Handled
            /\ submission'.unadmitted = None \/ submission'.unadmitted = submission.unadmitted
            /\ tracked' = Recovered =>
                 tracked = Recovered \/ (submission'.unadmitted = None /\ Known(Handled)),
         \A s : Known(s) => service'[s].registry # "absent"
  PROVE  RecoveredIsKnown'
<1>1. None # Recovered
  BY ProjectFacts
<1>2. QED BY <1>1 DEF RecoveredIsKnown, Known, Retired, Handled

(* A pass that looks on sees what it saw *)
LooksOn(p) ==
  /\ SamePass(p)
  /\ Known(pass[p].session) => service'[pass[p].session].registry # "absent"
  /\ pass[p].pc = "registry" /\ service[pass[p].session].registry # "gone" =>
       service'[pass[p].session].registry # "gone"
  /\ \A k \in Creators : handle[k].pc = "created" => handle'[k].pc = "created"
FreshOnes ==
  \A k \in Creators :
    submission'.unadmitted = k /\ ~submission'.submitted /\ ~submission'.awaiting
    /\ handle'[k].session = session' /\ admitted'[k] > 0 =>
      handle'[k].pc \in {"wrote", "created"} /\ handle'[k].generation = generation'
JudgesOn(p) == pass[p].pc = "judge" /\ pass[p].session = session' => session' = session /\ FreshOnes

LEMMA LookedKept ==
  ASSUME NEW p \in Passes, Looked(p), LooksOn(p), JudgesOn(p), TriedStay
  PROVE  Looked(p)'
<1>1. /\ pass'[p].seen # "absent" => Known(pass[p].session)'
      /\ pass'[p].project = Recovered => Known(pass[p].session)'
      /\ pass'[p].pc = "registry" => service'[pass[p].session].registry # "gone"
  BY DEF Looked, LooksOn, SamePass, Moves, Known
<1>2. /\ pass'[p].project \in Creators => Tried(pass[p].project)'
      /\ pass'[p].project \in Creators /\ pass'[p].returned =>
           handle'[pass[p].project].pc = "created"
  BY DEF Looked, LooksOn, SamePass, Moves, TriedStay, Tried
<1>3. pass'[p].pc = "judge" /\ pass'[p].session = session' =>
       /\ pass'[p].project # Recovered
       /\ \A k \in Creators :
            Fresh(k)' /\ handle'[k].session = session' /\ admitted'[k] > 0 =>
              WrittenOn(k, generation)'
  BY DEF Looked, LooksOn, SamePass, Moves, JudgesOn, FreshOnes, Fresh, WrittenOn
<1>4. /\ pass'[p].session = pass[p].session /\ pass'[p].project = pass[p].project
  BY DEF LooksOn, SamePass, Moves
<1>5. QED BY <1>1, <1>2, <1>3, <1>4 DEF Looked, Known, Tried

LEMMA FreshOnesKept ==
  ASSUME NEW p \in Passes, Looked(p), session' = session, generation' = generation,
         admitted' = admitted, \A k \in Creators : FreshKept(k)
  PROVE  JudgesOn(p)
BY DEF Looked, JudgesOn, FreshOnes, FreshKept, WrittenOn

QuietKept(k) ==
  /\ session' = session
  /\ \/ Stirred(k)'
     \/ /\ Stirred(k) => Stirred(k)'
        /\ \A f \in frames' : f.request = k => f \in frames
        /\ admitted'[k] = admitted[k]

LEMMA QuietnessKept ==
  ASSUME NEW p \in Passes, Quietness(p), SamePass(p),
         \A k \in Creators :
           pass[p].session = session' /\ pass[p].returned /\ pass[p].project = k => QuietKept(k)
  PROVE  Quietness(p)'
<1>1. SUFFICES ASSUME NEW k \in Creators, pass[p].session = session', pass[p].returned,
                      pass[p].project = k
               PROVE  /\ pass'[p].pc = "registry" => NoFrame(k)' \/ Stirred(k)'
                      /\ pass'[p].pc = "judge" =>
                           (NoFrame(k)' /\ admitted'[k] = 0) \/ Stirred(k)'
  BY DEF SamePass, Moves, Quietness
<1>2. QuietKept(k) /\ pass'[p].pc = pass[p].pc
  BY <1>1 DEF SamePass, Moves
<1>3. CASE Stirred(k)'
  BY <1>3
<1>4. CASE /\ Stirred(k) => Stirred(k)'
           /\ \A f \in frames' : f.request = k => f \in frames
           /\ admitted'[k] = admitted[k]
  <2>1. NoFrame(k) => NoFrame(k)'
    BY <1>4 DEF NoFrame
  <2>2. QED BY <1>1, <1>2, <1>4, <2>1 DEF Quietness, QuietKept
<1>5. QED BY <1>2, <1>3, <1>4 DEF QuietKept

LEMMA IdleAnswers ==
  ASSUME ConstantsAreSound, NEW p \in Passes, pass'[p] = NoPass
  PROVE  Looked(p)' /\ Quietness(p)'
BY ProjectFacts DEF Looked, Quietness, NoPass

--------------------------------------------------------------------------------
(***************************************************************************)
(* The steps of the client that make no request and hold on to none.       *)
(***************************************************************************)
FateKept(k) ==
  /\ CallKept(k)
  /\ handle'[k].status = "open" => handle[k].status = "open"
  /\ handle'[k].cause = "lost" => handle[k].cause = "lost" \/ MayBeLost(k)
Fates == (\A k \in Creators : FateKept(k)) /\ handle'[Recovered].cause # "lost"
LessTasks ==
  /\ \A k \in Creators : WaitKept(k)
  /\ \A k \in Creators : task'[k].pc # "none" =>
       task'[k].request = task[k].request /\ (task'[k].pc \in {"waiting", "writing"} => Again(k))
  /\ task'[Recovered].pc = "none"
GoesOn ==
  /\ submission'.handledSession = Handled
  /\ submission'.unadmitted = None \/ submission'.unadmitted = submission.unadmitted
  /\ submission.submitted => submission'.submitted
  /\ submission.awaiting => submission'.awaiting \/ submission'.submitted
                            \/ submission'.unadmitted = None
  /\ submission'.sentOn = submission.sentOn \/ ~(submission'.sentOn.generation > 0)
  /\ \A k \in Creators : tracked' = k <=> tracked = k
  /\ tracked' = Recovered =>
       tracked = Recovered \/ (submission'.unadmitted = None /\ Known(Handled))
  /\ \/ submission.awaiting => submission'.awaiting
     \/ \A k \in Creators : task'[k].pc # "none" => task'[k].session # Handled
WorldStands == UNCHANGED <<session, generation, frames, service, admitted, resent>>
Core == /\ Creations /\ Single /\ Requests /\ Told /\ Receipt /\ Waits /\ Registries
        /\ RecoveredIsKnown

LEMMA CoreKept ==
  ASSUME Types, Types', Accounts, Once, WorldStands, Told', LessRefused, Fates, LessTasks,
         \A k \in Creators : LessPasses(k), GoesOn \/ Retired
  PROVE  Core' /\ TriedStay /\ \A k \in Creators : FreshKept(k)
<1>1. CallsKept /\ TriedStay
  BY DEF Fates, FateKept, CallsKept, CallKept, SameCall, TriedKept, TriedStay, Tried
<1>2. Creations' /\ Single'
  BY <1>1, CreationsKept DEF Once, GoesOn, TrackedKept
<1>3. ASSUME NEW k \in Creators PROVE FreshKept(k)
  BY ProjectFacts DEF Types, Fates, FateKept, CallKept, SameCall, FreshKept, Fresh, GoesOn, Retired
<1>4. ASSUME NEW k \in Creators PROVE LessRequest(k)
  BY <1>1, ProjectFacts DEF LessRequest, Fates, FateKept, CallKept, SameCall, LessTasks, WaitKept,
     WorldStands, GoesOn, Retired, Types, Again
<1>5. ASSUME NEW k \in Creators PROVE StillSubmitted(k)
  <2>1. CASE GoesOn
    BY <2>1 DEF StillSubmitted, GoesOn, Fates, FateKept, CallKept, SameCall
  <2>2. CASE Retired
    <3>1. Tried(k) => handle[k].session # session
      BY <2>2, TriedFacts DEF Retired
    <3>2. QED BY <2>2, <3>1 DEF StillSubmitted, Retired, Fates, FateKept, CallKept, SameCall
  <2>3. QED BY <2>1, <2>2
<1>6. Requests'
  <2>1. SafelyCarried
    BY DEF SafelyCarried, LessPasses, LessPass, LessTasks, Fates, FateKept, CallKept, SameCall
  <2>2. QED BY <1>4, <1>5, <2>1, RequestsKept DEF Once
<1>7. Receipt'
  <2>1. CASE Retired
    BY <2>1, ReceiptRetired DEF Once, Accounts, WorldStands
  <2>2. CASE GoesOn
    <3>1. ReceiptGoesOn
      BY <2>2 DEF GoesOn, ReceiptGoesOn, Fates, FateKept, CallKept, SameCall
    <3>2. QED BY <1>3, <3>1, ReceiptKept DEF Once, WorldStands, Types
  <2>3. QED BY <2>1, <2>2
<1>8. Waits'
  <2>1. WaitsGoOn \/ Retired
    BY DEF GoesOn, WaitsGoOn
  <2>2. QED BY <2>1, WaitsKept DEF Once, LessTasks
<1>9. Registries'
  BY <1>1, RegistriesKept DEF Once, WorldStands
<1>10. RecoveredIsKnown'
  <2>1. Handled \in Sessions \/ tracked = None
    BY DEF Types, Submissions, Handled, Accounts, OwnState, Kin
  <2>2. \A s : Known(s) => service'[s].registry # "absent"
    BY DEF WorldStands, Known
  <2>3. QED BY <2>1, <2>2, RecoveredKept DEF Once, GoesOn, Types
<1>11. QED BY <1>1, <1>2, <1>3, <1>6, <1>7, <1>8, <1>9, <1>10 DEF Core

(* Of a project of the current account, something is still under way *)
StirredOn ==
  \A k \in Creators :
    handle[k].pc = "created" /\ handle[k].session = session /\ Stirred(k) => Stirred(k)'

LEMMA ProjectOfPass ==
  ASSUME Types, Accounts, NEW p \in Passes, Looked(p), NEW k \in Creators,
         pass[p].project = k, pass[p].pc # "idle"
  PROVE  /\ handle[k].session = pass[p].session /\ Tried(k)
         /\ pass[p].returned => handle[k].pc = "created"
BY DEF Looked, Accounts, OwnPasses, OwnPass, Belongs

LEMMA AnswerKept ==
  ASSUME Types, Types', Accounts, Once, WorldStands, Fates, TriedStay, StirredOn,
         \A k \in Creators : FreshKept(k), NEW p \in Passes, SamePass(p) \/ pass'[p] = NoPass
  PROVE  Looked(p)' /\ Quietness(p)'
<1>1. CASE pass'[p] = NoPass
  BY <1>1, IdleAnswers DEF Types
<1>2. CASE SamePass(p) /\ pass[p].pc = "idle"
  <2>1. /\ pass'[p].pc = "idle" /\ Looked(p)
    BY <1>2 DEF SamePass, Moves, Once, Answers
  <2>2. LooksOn(p) /\ JudgesOn(p)
    BY <1>2 DEF LooksOn, Known, WorldStands, JudgesOn, Fates, FateKept, CallKept, SameCall
  <2>3. Looked(p)'
    BY <2>1, <2>2, LookedKept
  <2>4. Quietness(p)'
    BY <2>1 DEF Quietness
  <2>5. QED BY <2>3, <2>4
<1>3. CASE SamePass(p) /\ pass[p].pc # "idle"
  <2>1. Looked(p) /\ Quietness(p)
    BY DEF Once, Answers
  <2>2. LooksOn(p)
    BY <1>3 DEF LooksOn, Known, WorldStands, Fates, FateKept, CallKept, SameCall
  <2>3. JudgesOn(p)
    BY <2>1, FreshOnesKept DEF WorldStands
  <2>4. Looked(p)'
    BY <2>1, <2>2, <2>3, LookedKept
  <2>5. ASSUME NEW k \in Creators, pass[p].session = session', pass[p].returned,
               pass[p].project = k
        PROVE  QuietKept(k)
    <3>1. handle[k].pc = "created" /\ handle[k].session = session
      BY <1>3, <2>1, <2>5, ProjectOfPass DEF WorldStands
    <3>2. QED BY <3>1 DEF StirredOn, QuietKept, WorldStands
  <2>6. Quietness(p)'
    BY <1>3, <2>1, <2>5, QuietnessKept
  <2>7. QED BY <2>4, <2>6
<1>4. QED BY <1>1, <1>2, <1>3

LEMMA PassesLess ==
  ASSUME NEW p \in Passes, OtherPasses(p), pass'[p].pc \notin {"resending", "resent"}
  PROVE  \A k \in Creators : LessPasses(k)
BY DEF OtherPasses, SamePass, Moves, LessPasses, LessPass, Resends, Carries

LEMMA PassesLike ==
  ASSUME SamePasses
  PROVE  \A k \in Creators : LessPasses(k)
BY DEF SamePasses, SamePass, Moves, LessPasses, LessPass, Resends, Carries

LEMMA TasksLike ==
  ASSUME Requests, task' = task
  PROVE  LessTasks
BY DEF Requests, LessTasks, WaitKept, Again

LEMMA TasksLess ==
  ASSUME Requests, ConstantsAreSound, NEW j \in Projects, task'[j] = NoTask, OtherTasks(j)
  PROVE  LessTasks
<1>1. NoTask.pc = "none"
  BY DEF NoTask
<1>2. Creators \subseteq Projects /\ Recovered \in Projects
  BY ProjectFacts
<1>3. QED BY <1>1, <1>2 DEF Requests, LessTasks, WaitKept, OtherTasks, Again

LEMMA FatesSame ==
  ASSUME Requests, handle' = handle
  PROVE  Fates
BY DEF Requests, Fates, FateKept, CallKept, SameCall, TriedKept

LEMMA FatesEnded ==
  ASSUME Requests, ConstantsAreSound, EndedAll
  PROVE  Fates
BY ProjectFacts DEF Requests, Fates, FateKept, CallKept, TriedKept, EndedAll, EndedWith, SameFate, Fails

FailsFor(j, cause) ==
  /\ Fails(handle'[j], handle[j], cause)
  /\ cause = "lost" => j \in Creators /\ MayBeLost(j)

LEMMA FatesSettled ==
  ASSUME Types, Requests, NEW j \in Projects, Others(j), SameCall(handle'[j], handle[j]),
         \/ Done(j) /\ (j \in Creators => Tried(j))
         \/ \E cause \in Causes : FailsFor(j, cause)
  PROVE  Fates
<1>1. ASSUME NEW k \in Creators PROVE FateKept(k)
  <2>1. k \in Projects
    BY ProjectFacts DEF Types
  <2>2. CASE k # j
    BY <2>1, <2>2 DEF Others, FateKept, CallKept, SameCall, TriedKept
  <2>3. CASE k = j
    <3>1. CASE Done(j) /\ (j \in Creators => Tried(j))
      BY <2>3, <3>1 DEF FateKept, CallKept, TriedKept, Done, Tried
    <3>2. CASE \E cause \in Causes : FailsFor(j, cause)
      <4>1. PICK cause \in Causes : FailsFor(j, cause)
        BY <3>2
      <4>2. QED BY <2>3, <4>1 DEF FateKept, CallKept, TriedKept, Fails, FailsFor
    <3>3. QED BY <3>1, <3>2
  <2>4. QED BY <2>2, <2>3
<1>2. handle'[Recovered].cause # "lost"
  <2>1. handle[Recovered].cause # "lost" /\ Recovered \in Projects /\ Recovered \notin Creators
    BY ProjectFacts DEF Requests, Types
  <2>2. CASE Recovered # j
    BY <2>1, <2>2 DEF Others
  <2>3. CASE Recovered = j
    <3>1. CASE Done(j)
      BY <2>1, <2>3, <3>1 DEF Done
    <3>2. CASE \E cause \in Causes : FailsFor(j, cause)
      BY <2>1, <2>3, <3>2 DEF Fails, FailsFor
    <3>3. QED BY <3>1, <3>2
  <2>4. QED BY <2>2, <2>3
<1>3. QED BY <1>1, <1>2 DEF Fates

(* Nothing that is under way for the current account ends *)
StirsOn ==
  /\ submission.awaiting => submission'.awaiting
  /\ submission.submitted => submission'.submitted
  /\ age = "recent" => age' = "recent"
  /\ \A q \in Passes : \A k \in Creators :
       Carries(q, k) /\ handle[k].session = session =>
         pass'[q].pc \in {"resending", "resent"} /\ pass'[q].request = k

LEMMA StirredStays ==
  ASSUME Types, Accounts, Once, StirsOn \/ Retired,
         \A k \in Creators :
           handle[k].pc = "created" /\ handle'[k].status = "open" => handle[k].status = "open"
  PROVE  StirredOn
<1>1. SUFFICES ASSUME NEW k \in Creators, handle[k].pc = "created", handle[k].session = session,
                      Stirred(k)
               PROVE  Stirred(k)'
  BY DEF StirredOn
<1>2. CASE StirsOn
  <2>1. ~Open(k) => ~Open(k)'
    BY <1>1 DEF Open
  <2>2. QED BY <1>1, <1>2, <2>1 DEF Stirred, StirsOn, Carries
<1>3. CASE Retired
  <2>1. Tried(k)
    BY <1>1 DEF Once, Creations, Creation, Sent
  <2>2. QED BY <1>1, <1>3, <2>1, TriedFacts DEF Retired
<1>4. QED BY <1>2, <1>3

LEMMA StirredFacts ==
  ASSUME Types, Accounts, Once, Fates, StirsOn \/ Retired
  PROVE  StirredOn
BY StirredStays DEF Fates, FateKept

LEMMA ClientStepKept ==
  ASSUME Types, Types', Accounts, Once, WorldStands, Told', LessRefused, Fates, LessTasks,
         \A k \in Creators : LessPasses(k), GoesOn \/ Retired, StirredOn,
         \A p \in Passes : SamePass(p) \/ pass'[p] = NoPass \/ (Looked(p)' /\ Quietness(p)')
  PROVE  Once'
<1>1. Core' /\ TriedStay /\ \A k \in Creators : FreshKept(k)
  BY CoreKept
<1>2. ASSUME NEW p \in Passes PROVE Looked(p)' /\ Quietness(p)'
  BY <1>1, AnswerKept
<1>3. QED BY <1>1, <1>2 DEF Once, Core, Answers

(* Nothing happens to the inbox *)
LEMMA NotTold ==
  ASSUME Types, Told, inbox' = inbox, session' = session, Fates
  PROVE  Told' /\ LessRefused
<1>1. \A k \in Creators : Tried(k) => handle'[k].status # "none" /\ handle'[k].session = handle[k].session
  BY DEF Fates, FateKept, CallKept, SameCall, TriedKept, Tried
<1>2. QED BY <1>1, ToldKept DEF LessRefused

LEMMA SwitchHeardKeepsOnce ==
  ASSUME Types, Accounts, Once, HearSwitch, resent' = resent
  PROVE  Once'
<1>1. Types' /\ WorldKept /\ UNCHANGED <<frames, age, task, pass>> /\ Retired /\ EndedAll
  BY SwitchHeardEffects DEF Accounts
<1>2. WorldStands /\ inbox' = inbox /\ session' = session /\ SamePasses
  BY <1>1, SamePassFacts DEF WorldKept, WorldStands
<1>3. Fates /\ LessTasks /\ \A k \in Creators : LessPasses(k)
  BY <1>1, <1>2, FatesEnded, TasksLike, PassesLike DEF Once, Types
<1>4. Told' /\ LessRefused /\ StirredOn
  BY <1>1, <1>2, <1>3, NotTold, StirredFacts DEF Once
<1>5. QED BY <1>1, <1>2, <1>3, <1>4, ClientStepKept DEF SamePasses

LEMMA SyncStartKeepsOnce ==
  ASSUME Types, Accounts, Once, NEW p \in Passes, SyncStart(p), resent' = resent
  PROVE  Once'
<1>1. /\ Types' /\ WorldKept /\ UNCHANGED <<frames, age, task>>
      /\ pass[p].pc = "idle" /\ Starts(p, "asked", "sync") /\ OtherPasses(p)
      /\ ClearedFirst /\ EndedAll
  BY SyncStartEffects DEF Accounts
<1>2. WorldStands /\ inbox' = inbox /\ session' = session
  BY <1>1 DEF WorldKept, WorldStands
<1>3. Fates /\ LessTasks /\ \A k \in Creators : LessPasses(k)
  <2>1. pass'[p].pc \notin {"resending", "resent"}
    BY <1>1 DEF Starts
  <2>2. QED BY <1>1, <2>1, FatesEnded, TasksLike, PassesLess DEF Once, Types
<1>4. GoesOn \/ Retired
  BY <1>1 DEF ClearedFirst, GoesOn, Handled
<1>5. Told' /\ LessRefused
  BY <1>2, <1>3, NotTold DEF Once
<1>6. StirredOn
  <2>1. StirsOn \/ Retired
    BY <1>1 DEF ClearedFirst, StirsOn, OtherPasses, SamePass, Moves, Carries
  <2>2. QED BY <1>3, <2>1, StirredFacts
<1>7. Looked(p)' /\ Quietness(p)'
  BY <1>1, ProjectFacts DEF Starts, Looked, Quietness, Types
<1>8. QED BY <1>1, <1>2, <1>3, <1>4, <1>5, <1>6, <1>7, ClientStepKept DEF OtherPasses

(* Of the tasks of the current account there is one, and its project is the one tried *)
LEMMA TaskFacts ==
  ASSUME Types, Accounts, Once, NEW k \in Projects, task[k].pc # "none", task[k].session = session
  PROVE  /\ k \in Creators /\ Tried(k) /\ handle[k].session = session /\ Handled = session
         /\ task[k].request = k
         /\ submission.awaiting /\ (task[k].pc = "waiting" => submission.unadmitted = None)
         /\ \A j \in Creators : Tried(j) /\ handle[j].session = session => j = k
         /\ \A j \in Projects : task[j].pc # "none" /\ task[j].session = session => j = k
<1>1. ASSUME NEW j \in Projects, task[j].pc # "none", task[j].session = session
      PROVE  j \in Creators /\ Tried(j) /\ handle[j].session = session
  <2>1. j \in Creators
    BY <1>1 DEF Once, Requests, Projects
  <2>2. Tried(j)
    BY <1>1, <2>1 DEF Once, Requests, Request, Untouched
  <2>3. handle[j].session = session
    BY <1>1, <2>1 DEF Accounts, OwnTasks, OwnTask, Belongs
  <2>4. QED BY <2>1, <2>2, <2>3
<1>2. k \in Creators /\ Tried(k) /\ handle[k].session = session
  BY <1>1
<1>3. Handled = session
  BY <1>2, TriedFacts
<1>4. ASSUME NEW j \in Creators, Tried(j), handle[j].session = session PROVE j = k
  BY <1>2, <1>4, OnlyOne DEF Once, Accounts
<1>5. Wait(k) /\ OwnRequest(k)
  BY <1>2 DEF Once, Waits, Requests, Request
<1>6. QED BY <1>1, <1>2, <1>3, <1>4, <1>5 DEF Wait, OwnRequest

LEMMA NoneLeft ==
  ASSUME ConstantsAreSound, NEW k \in Projects, task'[k] = NoTask, OtherTasks(k), Handled = session,
         \A j \in Projects : task[j].pc # "none" /\ task[j].session = session => j = k
  PROVE  \A j \in Creators : task'[j].pc # "none" => task'[j].session # Handled
<1>1. NoTask.pc = "none"
  BY DEF NoTask
<1>2. SUFFICES ASSUME NEW j \in Projects, task'[j].pc # "none" PROVE task'[j].session # session
  BY ProjectFacts
<1>3. j # k
  BY <1>1, <1>2
<1>4. task'[j] = task[j]
  BY <1>3 DEF OtherTasks
<1>5. QED BY <1>2, <1>3, <1>4

LEMMA ResumeStopsKeepsOnce ==
  ASSUME Types, Accounts, Once, NEW k \in Projects, ResumeTask(k), ~Open(k), resent' = resent
  PROVE  Once'
<1>1. /\ Types' /\ WorldKept /\ UNCHANGED <<frames, tracked, handle, age, pass>>
      /\ task[k].pc = "waiting" /\ task[k].session = session
      /\ submission'.submitted = submission.submitted
      /\ submission'.sentOn = submission.sentOn
      /\ submission'.handledSession = Handled
      /\ OtherTasks(k) /\ task'[k] = NoTask
      /\ submission'.unadmitted = submission.unadmitted
  BY ResumeEffects
<1>2. /\ k \in Creators /\ Handled = session /\ submission.unadmitted = None
      /\ \A j \in Creators : Tried(j) /\ handle[j].session = session => j = k
      /\ \A j \in Projects : task[j].pc # "none" /\ task[j].session = session => j = k
  BY <1>1, TaskFacts
<1>3. WorldStands /\ inbox' = inbox /\ session' = session /\ SamePasses
  BY <1>1, SamePassFacts DEF WorldKept, WorldStands
<1>4. Fates /\ LessTasks /\ \A j \in Creators : LessPasses(j)
  BY <1>1, <1>3, FatesSame, TasksLess, PassesLike DEF Once, Types
<1>5. Told' /\ LessRefused
  BY <1>3, <1>4, NotTold DEF Once
<1>6. GoesOn
  <2>1. \A j \in Creators : task'[j].pc # "none" => task'[j].session # Handled
    BY <1>1, <1>2, NoneLeft DEF Types
  <2>2. QED BY <1>1, <1>2, <2>1 DEF GoesOn
<1>7. StirredOn
  <2>1. ASSUME NEW j \in Creators, handle[j].pc = "created", handle[j].session = session
        PROVE  Stirred(j)'
    <3>1. Tried(j)
      BY <2>1 DEF Once, Creations, Creation, Sent
    <3>2. j = k
      BY <1>2, <2>1, <3>1
    <3>3. QED BY <1>1, <3>2 DEF Stirred, Open
  <2>2. QED BY <2>1 DEF StirredOn
<1>8. QED BY <1>1, <1>3, <1>4, <1>5, <1>6, <1>7, ClientStepKept DEF SamePasses

LEMMA FinishKeepsOnce ==
  ASSUME Types, Accounts, Once, NEW k \in Projects, FinishTask(k), resent' = resent
  PROVE  Once'
<1>1. /\ Types' /\ WorldKept /\ UNCHANGED <<frames, tracked, handle>> /\ SamePasses
      /\ task[k].pc = "wrote" /\ task[k].session = session
      /\ task'[k] = NoTask /\ OtherTasks(k)
      /\ submission'.unadmitted = submission.unadmitted
      /\ ~submission'.awaiting /\ submission'.submitted
      /\ submission'.sentOn = submission.sentOn
      /\ submission'.handledSession = Handled /\ age' = "recent"
  BY FinishEffects
<1>2. /\ k \in Creators /\ Handled = session
      /\ \A j \in Projects : task[j].pc # "none" /\ task[j].session = session => j = k
  BY <1>1, TaskFacts
<1>3. WorldStands /\ inbox' = inbox /\ session' = session
  BY <1>1 DEF WorldKept, WorldStands
<1>4. Fates /\ LessTasks /\ \A j \in Creators : LessPasses(j)
  BY <1>1, FatesSame, TasksLess, PassesLike DEF Once, Types
<1>5. Told' /\ LessRefused
  BY <1>3, <1>4, NotTold DEF Once
<1>6. GoesOn
  <2>1. \A j \in Creators : task'[j].pc # "none" => task'[j].session # Handled
    BY <1>1, <1>2, NoneLeft DEF Types
  <2>2. QED BY <1>1, <1>2, <2>1 DEF GoesOn
<1>7. StirredOn
  BY <1>1 DEF StirredOn, Stirred
<1>8. QED BY <1>1, <1>3, <1>4, <1>5, <1>6, <1>7, ClientStepKept DEF SamePasses

LEMMA FailTaskKeepsOnce ==
  ASSUME Types, Accounts, Once, NEW k \in Projects, FailTask(k), resent' = resent
  PROVE  Once'
<1>1. /\ Types' /\ WorldKept /\ UNCHANGED <<frames, tracked, age, pass>>
      /\ task[k].pc # "none" /\ task[k].session = session
      /\ task'[k] = NoTask /\ OtherTasks(k)
      /\ submission'.unadmitted = None /\ ~submission'.awaiting
      /\ submission'.submitted = submission.submitted
      /\ submission'.sentOn = submission.sentOn
      /\ submission'.handledSession = Handled
      /\ Others(k) /\ SameCall(handle'[k], handle[k])
      /\ handle' = handle \/ Fails(handle'[k], handle[k], "restart")
      /\ handle'[k].status # "open"
  BY FailTaskEffects
<1>2. /\ k \in Creators /\ Handled = session
      /\ \A j \in Creators : Tried(j) /\ handle[j].session = session => j = k
      /\ \A j \in Projects : task[j].pc # "none" /\ task[j].session = session => j = k
  BY <1>1, TaskFacts
<1>3. WorldStands /\ inbox' = inbox /\ session' = session /\ SamePasses
  BY <1>1, SamePassFacts DEF WorldKept, WorldStands
<1>4. Fates /\ LessTasks /\ \A j \in Creators : LessPasses(j)
  <2>1. Fates
    <3>1. CASE handle' = handle
      BY <3>1, FatesSame DEF Once
    <3>2. CASE Fails(handle'[k], handle[k], "restart")
      <4>1. "restart" \in Causes /\ "restart" # "lost"
        BY DEF Causes
      <4>2. QED BY <1>1, <3>2, <4>1, FatesSettled DEF Once, FailsFor
    <3>3. QED BY <1>1, <3>1, <3>2
  <2>2. QED BY <1>1, <1>3, <2>1, TasksLess, PassesLike DEF Once, Types
<1>5. Told' /\ LessRefused
  BY <1>3, <1>4, NotTold DEF Once
<1>6. GoesOn
  <2>1. \A j \in Creators : task'[j].pc # "none" => task'[j].session # Handled
    BY <1>1, <1>2, NoneLeft DEF Types
  <2>2. QED BY <1>1, <1>2, <2>1 DEF GoesOn
<1>7. StirredOn
  <2>1. ASSUME NEW j \in Creators, handle[j].pc = "created", handle[j].session = session
        PROVE  Stirred(j) => Stirred(j)'
    <3>1. Tried(j)
      BY <2>1 DEF Once, Creations, Creation, Sent
    <3>2. j = k
      BY <1>2, <2>1, <3>1
    <3>3. ~Open(k)'
      BY <1>1 DEF Open
    <3>4. QED BY <3>2, <3>3 DEF Stirred
  <2>2. QED BY <2>1 DEF StirredOn
<1>8. QED BY <1>1, <1>3, <1>4, <1>5, <1>6, <1>7, ClientStepKept DEF SamePasses

LEMMA EndTaskKeepsOnce ==
  ASSUME Types, Accounts, Once, NEW k \in Projects, EndTask(k), resent' = resent
  PROVE  Once'
<1>1. /\ Types' /\ WorldKept /\ UNCHANGED <<frames, age, pass>>
      /\ task'[k] = NoTask /\ OtherTasks(k) /\ ClearedFirst /\ EndedAll
  BY EndTaskEffects DEF Accounts
<1>2. WorldStands /\ inbox' = inbox /\ session' = session /\ SamePasses
  BY <1>1, SamePassFacts DEF WorldKept, WorldStands
<1>3. Fates /\ LessTasks /\ \A j \in Creators : LessPasses(j)
  BY <1>1, <1>2, FatesEnded, TasksLess, PassesLike DEF Once, Types
<1>4. Told' /\ LessRefused
  BY <1>2, <1>3, NotTold DEF Once
<1>5. GoesOn \/ Retired
  BY <1>1 DEF ClearedFirst, GoesOn, Handled
<1>6. StirredOn
  <2>1. StirsOn \/ Retired
    BY <1>1 DEF ClearedFirst, StirsOn, Carries
  <2>2. QED BY <1>3, <2>1, StirredFacts
<1>7. QED BY <1>1, <1>2, <1>3, <1>4, <1>5, <1>6, ClientStepKept DEF SamePasses

(* An event is taken from the head of the queue *)
LEMMA TailFacts ==
  ASSUME Types, inbox # <<>>, inbox' = Tail(inbox), session' = session
  PROVE  /\ inbox \in Seq(Messages) /\ 1 \in DOMAIN inbox /\ Heard = inbox[1]
         /\ \A i \in DOMAIN inbox' : i + 1 \in DOMAIN inbox /\ inbox'[i] = inbox[i + 1] /\ i # 0
         /\ \A i \in DOMAIN inbox' : i \in Nat
<1>1. inbox \in Seq(Messages)
  BY DEF Types
<1>2. QED BY <1>1 DEF Heard

LEMMA TailTold ==
  ASSUME Types, Told, inbox # <<>>, inbox' = Tail(inbox), session' = session, TriedStay
  PROVE  /\ Told' /\ LessRefused
         /\ Heard.kind = "refused" /\ Heard.session = session => Refused /\ ~Refused'
<1>1. /\ 1 \in DOMAIN inbox /\ Heard = inbox[1]
      /\ \A i \in DOMAIN inbox' : i + 1 \in DOMAIN inbox /\ inbox'[i] = inbox[i + 1] /\ i # 0
      /\ \A i \in DOMAIN inbox' : i \in Nat
  BY TailFacts
<1>2. \A i \in DOMAIN inbox' : IsRefusal(i)' <=> IsRefusal(i + 1)
  BY <1>1 DEF IsRefusal
<1>3. Refused' => Refused
  BY <1>1, <1>2 DEF Refused
<1>4. Told'
  <2>1. \A i \in DOMAIN inbox' : inbox'[i].session <= session'
    BY <1>1 DEF Told
  <2>2. ASSUME NEW i \in DOMAIN inbox', NEW j \in DOMAIN inbox', IsRefusal(i)', IsRefusal(j)'
        PROVE  i = j
    <3>1. IsRefusal(i + 1) /\ IsRefusal(j + 1)
      BY <1>2, <2>2
    <3>2. i + 1 = j + 1
      BY <1>1, <3>1 DEF Told
    <3>3. QED BY <1>1, <3>2
  <2>3. Refused' => \E k \in Creators : Tried(k)' /\ handle'[k].session = session'
    BY <1>3 DEF Told, TriedStay, Tried
  <2>4. QED BY <2>1, <2>2, <2>3 DEF Told
<1>5. ASSUME Heard.kind = "refused", Heard.session = session PROVE Refused /\ ~Refused'
  <2>1. IsRefusal(1)
    BY <1>1, <1>5 DEF IsRefusal
  <2>2. ASSUME NEW i \in DOMAIN inbox', IsRefusal(i)' PROVE FALSE
    <3>1. IsRefusal(i + 1) /\ i + 1 \in DOMAIN inbox
      BY <1>1, <1>2, <2>2
    <3>2. i + 1 = 1
      BY <1>1, <2>1, <3>1 DEF Told
    <3>3. QED BY <1>1, <3>2
  <2>3. QED BY <1>1, <2>1, <2>2 DEF Refused
<1>6. QED BY <1>3, <1>4, <1>5 DEF LessRefused

LEMMA FatesStay ==
  ASSUME Fates
  PROVE  TriedStay
BY DEF Fates, FateKept, CallKept, SameCall, TriedKept, TriedStay, Tried

LEMMA HearKeepsOnce ==
  ASSUME Types, Accounts, Once, Hear, resent' = resent,
         \/ Retired /\ EndedAll /\ task' = task
         \/ /\ Handled = session /\ tracked' = tracked
            /\ HearsNothing \/ HearsEvidence \/ HearsRefusal
  PROVE  Once'
<1>1. /\ Types'
      /\ UNCHANGED <<session, generation, frames, service, admitted, age, pass>>
      /\ inbox # <<>> /\ inbox' = Tail(inbox)
  BY HearEffects DEF Accounts
<1>2. WorldStands /\ SamePasses /\ session' = session
  BY <1>1, SamePassFacts DEF WorldStands
<1>3. task' = task
  BY DEF HearsNothing, HearsEvidence, HearsRefusal
<1>4. Fates
  <2>1. CASE EndedAll
    BY <2>1, FatesEnded DEF Once, Types
  <2>2. CASE handle' = handle
    BY <2>2, FatesSame DEF Once
  <2>3. CASE tracked # None /\ DoneIs(tracked)
    <3>1. tracked \in Projects /\ (tracked \in Creators => Tried(tracked))
      BY <2>3, TrackedTried, ProjectFacts DEF Once, Types
    <3>2. Others(tracked) /\ Done(tracked) /\ SameCall(handle'[tracked], handle[tracked])
      BY <2>3 DEF DoneIs, Done
    <3>3. QED BY <3>1, <3>2, FatesSettled DEF Once
  <2>4. CASE HearsRefusal
    <3>1. tracked \in Projects
      BY <2>4 DEF HearsRefusal, Open, Types
    <3>2. "refused" \in Causes /\ "refused" # "lost"
      BY DEF Causes
    <3>3. Fails(handle'[tracked], handle[tracked], "refused") /\ Others(tracked)
          /\ SameCall(handle'[tracked], handle[tracked])
      BY <2>4 DEF HearsRefusal
    <3>4. QED BY <3>1, <3>2, <3>3, FatesSettled DEF Once, FailsFor
  <2>5. QED BY <2>1, <2>2, <2>3, <2>4 DEF HearsNothing, HearsEvidence
<1>5. LessTasks /\ \A k \in Creators : LessPasses(k)
  BY <1>2, <1>3, TasksLike, PassesLike DEF Once
<1>6. Told' /\ LessRefused
  BY <1>1, <1>4, FatesStay, TailTold DEF Once
<1>7. GoesOn \/ Retired
  <2>1. NoReceipt.generation = 0
    BY DEF NoReceipt
  <2>2. QED BY <1>3, <2>1
           DEF GoesOn, HearsNothing, HearsEvidence, HearsRefusal, IsObserved, Handled
<1>8. StirredOn
  <2>1. StirsOn \/ Retired
    BY <1>1 DEF StirsOn, Carries, HearsNothing, HearsEvidence, HearsRefusal, IsObserved
  <2>2. QED BY <1>4, <2>1, StirredFacts
<1>9. QED BY <1>1, <1>2, <1>4, <1>5, <1>6, <1>7, <1>8, ClientStepKept DEF SamePasses

(***************************************************************************)
(* The recovery passes that request nothing.                               *)
(***************************************************************************)
LEMMA PassStepKeepsOnce ==
  ASSUME Types, Types', Accounts, Once, NEW p \in Passes, WorldKept,
         UNCHANGED <<frames, age, task, resent>>, OtherPasses(p),
         pass'[p].pc \notin {"resending", "resent"}, Fates, GoesOn,
         \A k \in Creators : Carries(p, k) => handle[k].session # session,
         submission.awaiting => submission'.awaiting,
         pass'[p] = NoPass \/ (Looked(p)' /\ Quietness(p)')
  PROVE  Once'
<1>1. WorldStands /\ inbox' = inbox /\ session' = session
  BY DEF WorldKept, WorldStands
<1>2. LessTasks /\ \A k \in Creators : LessPasses(k)
  BY TasksLike, PassesLess DEF Once
<1>3. Told' /\ LessRefused
  BY <1>1, NotTold DEF Once
<1>4. StirredOn
  <2>1. StirsOn
    BY DEF GoesOn, StirsOn, OtherPasses, SamePass, Moves, Carries
  <2>2. QED BY <2>1, StirredFacts
<1>5. QED BY <1>1, <1>2, <1>3, <1>4, ClientStepKept DEF OtherPasses

LEMMA CarriesNothing ==
  ASSUME NEW p \in Passes, pass[p].pc \notin {"resending", "resent"}
  PROVE  \A k \in Creators : Carries(p, k) => handle[k].session # session
BY DEF Carries

LEMMA UnchangedGoesOn ==
  ASSUME UNCHANGED <<tracked, submission>>
  PROVE  GoesOn
BY DEF GoesOn, Handled

LEMMA ObservedGoesOn ==
  ASSUME Types, IsObserved, UNCHANGED <<tracked, task>>
  PROVE  GoesOn /\ (submission.awaiting => submission'.awaiting)
<1>1. NoReceipt.generation = 0
  BY DEF NoReceipt
<1>2. QED BY <1>1 DEF GoesOn, IsObserved

LEMMA SnapshotKeepsOnce ==
  ASSUME Types, Accounts, Once, NEW p \in Passes, SyncSnapshot(p), resent' = resent
  PROVE  Once'
<1>1. /\ Types' /\ WorldKept /\ UNCHANGED <<frames, tracked, handle, submission, age, task>>
      /\ pass[p].pc = "asked" /\ pass[p].session = session
      /\ pass'[p].pc = "reconcile" /\ pass'[p].kind = pass[p].kind
      /\ pass'[p].session = pass[p].session /\ pass'[p].returned = pass[p].returned
      /\ pass'[p].project = pass[p].project /\ pass'[p].seen = service[session].registry
      /\ OtherPasses(p)
  BY SnapshotEffects
<1>2. Looked(p)
  BY DEF Once, Answers
<1>3. Looked(p)' /\ Quietness(p)'
  BY <1>1, <1>2 DEF Looked, Quietness, Known, WorldKept, Tried
<1>4. Fates /\ GoesOn /\ \A k \in Creators : Carries(p, k) => handle[k].session # session
  BY <1>1, FatesSame, UnchangedGoesOn, CarriesNothing DEF Once
<1>5. QED BY <1>1, <1>3, <1>4, PassStepKeepsOnce

LEMMA LearnsFates ==
  ASSUME Types, Accounts, Once, NEW k \in Projects, k \in Creators => Tried(k),
         handle' = handle \/ DoneIs(k)
  PROVE  Fates
<1>1. CASE handle' = handle
  BY <1>1, FatesSame DEF Once
<1>2. CASE DoneIs(k)
  <2>1. Others(k) /\ Done(k) /\ SameCall(handle'[k], handle[k])
    BY <1>2 DEF DoneIs, Done
  <2>2. QED BY <2>1, FatesSettled DEF Once
<1>3. QED BY <1>1, <1>2

LEMMA ReconcileKeepsOnce ==
  ASSUME Types, Accounts, Once, NEW p \in Passes, SyncReconcile(p), resent' = resent
  PROVE  Once'
<1>1. /\ Types' /\ WorldKept /\ UNCHANGED <<frames, age, task>>
      /\ pass[p].pc = "reconcile" /\ pass[p].session = session /\ OtherPasses(p)
      /\ \/ /\ pass[p].seen # "absent" /\ pass'[p] = NoPass /\ IsObserved
            /\ Adopts \/ (tracked # None /\ tracked' = tracked /\ Learns(tracked))
         \/ /\ pass[p].seen = "absent" /\ UNCHANGED <<tracked, handle, submission>>
            /\ pass'[p] = NoPass \/ Examines(p)
  BY ReconcileEffects
<1>2. Looked(p) /\ Handled = session
  <2>1. Handled # NoSession /\ session <= Handled /\ Handled <= session
    BY <1>1 DEF Accounts, OwnPasses, OwnPass, Bounds
  <2>2. QED BY <2>1, SessionFacts DEF Types, Submissions, Handled, Once, Answers
<1>3. NoPass.pc = "idle" /\ NoReceipt.generation = 0
  BY DEF NoPass, NoReceipt
<1>4. \A k \in Creators : Carries(p, k) => handle[k].session # session
  BY <1>1, CarriesNothing
<1>5. CASE /\ pass[p].seen # "absent" /\ pass'[p] = NoPass /\ IsObserved /\ Adopts
  <2>1. Fates
    BY <1>5, ProjectFacts
       DEF Types, Fates, FateKept, CallKept, SameCall, TriedKept, Adopts, Others
  <2>2. Known(Handled)
    BY <1>1, <1>2, <1>5 DEF Looked
  <2>3. GoesOn /\ (submission.awaiting => submission'.awaiting)
    BY <1>1, <1>3, <1>5, <2>2, ProjectFacts DEF GoesOn, IsObserved, Adopts, Types
  <2>4. QED BY <1>1, <1>3, <1>4, <1>5, <2>1, <2>3, PassStepKeepsOnce
<1>6. CASE /\ pass'[p] = NoPass /\ IsObserved
           /\ tracked # None /\ tracked' = tracked /\ Learns(tracked)
  <2>1. tracked \in Projects /\ (tracked \in Creators => Tried(tracked))
    BY <1>6, TrackedTried, ProjectFacts DEF Types, Once
  <2>2. Fates
    BY <1>6, <2>1, LearnsFates DEF Learns
  <2>3. GoesOn /\ (submission.awaiting => submission'.awaiting)
    BY <1>1, <1>6, ObservedGoesOn
  <2>4. QED BY <1>1, <1>3, <1>4, <1>6, <2>2, <2>3, PassStepKeepsOnce
<1>7. CASE UNCHANGED <<tracked, handle, submission>> /\ pass'[p] = NoPass
  <2>1. Fates /\ GoesOn
    BY <1>7, FatesSame, UnchangedGoesOn DEF Once
  <2>2. QED BY <1>1, <1>3, <1>4, <1>7, <2>1, PassStepKeepsOnce
<1>8. CASE pass[p].seen = "absent" /\ UNCHANGED <<tracked, handle, submission>> /\ Examines(p)
  <2>1. Fates /\ GoesOn
    BY <1>8, FatesSame, UnchangedGoesOn DEF Once
  <2>2. /\ tracked \in Projects /\ (tracked \in Creators => Tried(tracked))
        /\ tracked = Recovered => Known(session)
    BY <1>2, <1>8, TrackedTried, ProjectFacts DEF Types, Once, Examines, Open, RecoveredIsKnown
  <2>3. Looked(p)' /\ Quietness(p)'
    BY <1>1, <1>8, <2>2 DEF Examines, Looked, Quietness, Known, WorldKept, Tried
  <2>4. QED BY <1>1, <1>4, <1>8, <2>1, <2>3, PassStepKeepsOnce DEF Examines
<1>9. QED BY <1>1, <1>5, <1>6, <1>7, <1>8

LEMMA ResolveKeepsOnce ==
  ASSUME Types, Accounts, Once, NEW p \in Passes, ResolveStart(p), resent' = resent
  PROVE  Once'
<1>1. /\ Types' /\ WorldKept /\ UNCHANGED <<frames, tracked, handle, submission, age, task>>
      /\ pass[p].pc = "idle" /\ Starts(p, "status", "resolve") /\ OtherPasses(p)
  BY ResolveEffects
<1>2. Looked(p)' /\ Quietness(p)'
  BY <1>1, ProjectFacts DEF Starts, Looked, Quietness, Types
<1>3. Fates /\ GoesOn /\ \A k \in Creators : Carries(p, k) => handle[k].session # session
  BY <1>1, FatesSame, UnchangedGoesOn, CarriesNothing DEF Once
<1>4. QED BY <1>1, <1>2, <1>3, PassStepKeepsOnce DEF Starts

LEMMA StatusKeepsOnce ==
  ASSUME Types, Accounts, Once, NEW p \in Passes, Status(p), resent' = resent
  PROVE  Once'
<1>1. /\ Types' /\ WorldKept /\ UNCHANGED <<frames, tracked, age, task>>
      /\ pass[p].pc = "status" /\ pass[p].session = session /\ OtherPasses(p)
      /\ \/ /\ service[session].record /\ pass'[p] = NoPass /\ IsObserved
            /\ handle' = handle \/ (pass[p].project \in Projects /\ DoneIs(pass[p].project))
         \/ /\ ~service[session].record /\ frames = {} /\ Moves(p, "registry")
            /\ UNCHANGED <<handle, submission>>
  BY StatusEffects
<1>2. Looked(p) /\ NoPass.pc = "idle" /\ session \in Sessions
  BY DEF Once, Answers, NoPass, Types
<1>3. \A k \in Creators : Carries(p, k) => handle[k].session # session
  BY <1>1, CarriesNothing
<1>4. CASE /\ pass'[p] = NoPass /\ IsObserved
           /\ handle' = handle \/ (pass[p].project \in Projects /\ DoneIs(pass[p].project))
  <2>1. Fates
    <3>1. CASE handle' = handle
      BY <3>1, FatesSame DEF Once
    <3>2. CASE pass[p].project \in Projects /\ DoneIs(pass[p].project)
      BY <1>2, <3>2, LearnsFates DEF Looked
    <3>3. QED BY <1>4, <3>1, <3>2
  <2>2. GoesOn /\ (submission.awaiting => submission'.awaiting)
    BY <1>1, <1>4, ObservedGoesOn
  <2>3. QED BY <1>1, <1>2, <1>3, <1>4, <2>1, <2>2, PassStepKeepsOnce
<1>5. CASE /\ ~service[session].record /\ frames = {} /\ Moves(p, "registry")
           /\ UNCHANGED <<handle, submission>>
  <2>1. service[session].registry # "gone"
    BY <1>2, <1>5 DEF Once, Registries
  <2>2. Looked(p)'
    BY <1>1, <1>2, <1>5, <2>1 DEF Moves, Looked, Known, WorldKept, Tried
  <2>3. Quietness(p)'
    BY <1>1, <1>5 DEF Moves, Quietness, NoFrame
  <2>4. Fates /\ GoesOn /\ pass'[p].pc = "registry"
    BY <1>1, <1>5, FatesSame, UnchangedGoesOn DEF Once, Moves
  <2>5. QED BY <1>1, <1>3, <1>5, <2>2, <2>3, <2>4, PassStepKeepsOnce
<1>6. QED BY <1>1, <1>4, <1>5

LEMMA RegistryKeepsOnce ==
  ASSUME Types, Accounts, Once, NEW p \in Passes, ActiveRegistry(p), resent' = resent
  PROVE  Once'
<1>1. /\ Types' /\ WorldKept /\ UNCHANGED <<frames, tracked, handle, age, task>>
      /\ pass[p].pc = "registry" /\ pass[p].session = session /\ OtherPasses(p)
      /\ \/ service[session].registry = "live" /\ pass'[p] = NoPass /\ IsObserved
         \/ /\ service[session].registry # "live" /\ Moves(p, "judge")
            /\ submission' = submission
  BY RegistryEffects
<1>2. Looked(p) /\ Quietness(p) /\ NoPass.pc = "idle" /\ session \in Sessions
  BY DEF Once, Answers, NoPass, Types
<1>3. Fates /\ \A k \in Creators : Carries(p, k) => handle[k].session # session
  BY <1>1, FatesSame, CarriesNothing DEF Once
<1>4. CASE pass'[p] = NoPass /\ IsObserved
  <2>1. GoesOn /\ (submission.awaiting => submission'.awaiting)
    BY <1>1, <1>4, ObservedGoesOn
  <2>2. QED BY <1>1, <1>2, <1>3, <1>4, <2>1, PassStepKeepsOnce
<1>5. CASE service[session].registry # "live" /\ Moves(p, "judge") /\ submission' = submission
  <2>1. ~Known(session)
    <3>1. service[session].registry \in {"absent", "live", "gone"}
      BY <1>2 DEF Types, Services
    <3>2. service[session].registry # "gone"
      BY <1>1, <1>2 DEF Looked
    <3>3. QED BY <1>5, <3>1, <3>2 DEF Known
  <2>2. \A k \in Creators : handle[k].session = session => ~(admitted[k] > 0) /\ admitted[k] = 0
    BY <2>1 DEF Once, Registries, Types
  <2>3. Looked(p)'
    <3>1. /\ pass'[p].seen = pass[p].seen /\ pass'[p].session = session
          /\ pass'[p].project = pass[p].project /\ pass'[p].returned = pass[p].returned
          /\ pass'[p].pc = "judge" /\ session' = session
      BY <1>1, <1>5 DEF Moves, WorldKept
    <3>2. UNCHANGED <<handle, service, admitted>>
      BY <1>1 DEF WorldKept
    <3>3. /\ pass'[p].seen # "absent" => Known(session)'
          /\ pass'[p].project # Recovered
          /\ pass'[p].project \in Creators => Tried(pass'[p].project)
          /\ pass'[p].project \in Creators /\ pass'[p].returned =>
               handle[pass'[p].project].pc = "created"
      BY <1>1, <1>2, <2>1, <3>1, <3>2 DEF Looked, Known
    <3>4. QED BY <2>2, <3>1, <3>2, <3>3 DEF Looked, Known, Tried
  <2>4. Quietness(p)'
    <3>1. SUFFICES ASSUME NEW k \in Creators, pass'[p].session = session', pass'[p].returned,
                          pass'[p].project = k
                   PROVE  (NoFrame(k)' /\ admitted'[k] = 0) \/ Stirred(k)'
      BY <1>5 DEF Quietness, Moves
    <3>2. pass[p].session = session /\ pass[p].returned /\ pass[p].project = k
      BY <1>1, <1>5, <3>1 DEF Moves
    <3>3. NoFrame(k) \/ Stirred(k)
      BY <1>1, <1>2, <3>2 DEF Quietness
    <3>4. admitted[k] = 0
      BY <1>1, <1>2, <2>2, <3>2, ProjectOfPass
    <3>5. Stirred(k) => Stirred(k)'
      BY <1>1, <1>5 DEF Stirred, Carries, Open, OtherPasses, SamePass, Moves
    <3>6. NoFrame(k) => NoFrame(k)'
      BY <1>1 DEF NoFrame
    <3>7. QED BY <1>1, <3>3, <3>4, <3>5, <3>6 DEF WorldKept
  <2>5. GoesOn /\ pass'[p].pc = "judge"
    BY <1>1, <1>5, UnchangedGoesOn DEF Moves
  <2>6. QED BY <1>1, <1>3, <1>5, <2>3, <2>4, <2>5, PassStepKeepsOnce
<1>6. QED BY <1>1, <1>4, <1>5

LEMMA AbandonKeepsOnce ==
  ASSUME Types, Accounts, Once, NEW p \in Passes, Abandon(p), resent' = resent
  PROVE  Once'
<1>1. /\ Types' /\ WorldKept /\ UNCHANGED <<frames, tracked, handle, submission, age, task>>
      /\ pass[p].pc # "idle" /\ OtherPasses(p) /\ pass'[p] = NoPass
      /\ pass[p].session # session \/ pass[p].pc \in {"asked", "status", "registry"}
  BY AbandonEffects
<1>2. Fates /\ GoesOn /\ NoPass.pc = "idle"
  BY <1>1, FatesSame, UnchangedGoesOn DEF Once, NoPass
<1>3. \A k \in Creators : Carries(p, k) => handle[k].session # session
  BY <1>1 DEF Carries, Accounts, OwnPasses, OwnPass, Belongs
<1>4. QED BY <1>1, <1>2, <1>3, PassStepKeepsOnce

(* A verdict of loss is given to a project of which nothing is left *)
LEMMA LostFacts ==
  ASSUME Types, Accounts, Once, NEW p \in Passes, NEW k \in Creators,
         pass[p].pc = "judge", pass[p].session = session, pass[p].project = k,
         ~(submission.submitted /\ age = "recent"), Blame(p) = "lost",
         Fails(handle'[k], handle[k], "lost")
  PROVE  MayBeLost(k)
<1>1. /\ pass[p].returned /\ ~submission.awaiting
      /\ \A q \in Passes : pass[q].pc \notin {"resending", "resent"}
  BY DEF Blame
<1>2. Looked(p) /\ Quietness(p)
  BY DEF Once, Answers
<1>3. handle[k].session = session /\ Tried(k) /\ handle[k].pc = "created"
  BY <1>1, <1>2, ProjectOfPass
<1>4. ~Stirred(k)
  BY <1>1, ProjectFacts DEF Stirred, Carries, Open, Fails, Types
<1>5. NoFrame(k) /\ admitted[k] = 0
  BY <1>1, <1>2, <1>4 DEF Quietness
<1>6. ~Coming(k)
  <2>1. ~Again(k)
    <3>1. SUFFICES ASSUME task[k].pc # "none" PROVE FALSE
      BY DEF Again
    <3>2. k \in Projects /\ task[k].session = session
      BY <1>3, <3>1, ProjectFacts DEF Types, Accounts, OwnTasks, OwnTask, Belongs
    <3>3. QED BY <1>1, <3>1, <3>2, TaskFacts
  <2>2. QED BY <1>1, <1>3, <2>1 DEF Coming, Resends
<1>7. QED BY <1>3, <1>5, <1>6 DEF MayBeLost, Fails

LEMMA JudgesKeepsOnce ==
  ASSUME Types, Accounts, Once, NEW p \in Passes, Judge(p), Judges(p), resent' = resent
  PROVE  Once'
<1>1. /\ Types' /\ WorldKept /\ UNCHANGED <<frames, tracked, task>>
      /\ pass[p].pc = "judge" /\ pass[p].session = session /\ OtherPasses(p)
  BY JudgeEffects
<1>2. Looked(p) /\ NoPass.pc = "idle" /\ pass[p].project # Recovered
  BY <1>1 DEF Once, Answers, Looked, NoPass
<1>3. \A k \in Creators : Carries(p, k) => handle[k].session # session
  BY <1>1, CarriesNothing
<1>4. Fates
  <2>1. CASE handle' = handle
    BY <2>1, FatesSame DEF Once
  <2>2. CASE /\ pass[p].project \in Projects /\ ~(submission.submitted /\ age = "recent")
             /\ Others(pass[p].project)
             /\ SameCall(handle'[pass[p].project], handle[pass[p].project])
             /\ Fails(handle'[pass[p].project], handle[pass[p].project], Blame(p))
    <3> DEFINE k == pass[p].project
    <3>1. k \in Creators /\ k \in Projects
      BY <1>2, <2>2 DEF Projects
    <3>2. Blame(p) \in Causes
      BY BlameFacts DEF Causes
    <3>3. Blame(p) = "lost" => MayBeLost(k)
      BY <1>1, <2>2, <3>1, LostFacts
    <3>4. Fails(handle'[k], handle[k], Blame(p)) /\ Others(k) /\ SameCall(handle'[k], handle[k])
      BY <2>2
    <3> HIDE DEF k
    <3>5. QED BY <3>1, <3>2, <3>3, <3>4, FatesSettled DEF Once, FailsFor
  <2>3. QED BY <2>1, <2>2 DEF Judges
<1>5. GoesOn
  BY <1>1, UnchangedGoesOn DEF Judges
<1>6. QED BY <1>1, <1>2, <1>3, <1>4, <1>5, PassStepKeepsOnce DEF Judges

--------------------------------------------------------------------------------
(***************************************************************************)
(* The steps of the client that make a request, or come to hold one.       *)
(***************************************************************************)
LEMMA AnswerStays ==
  ASSUME Types, Accounts, Once, NEW p \in Passes, LooksOn(p), JudgesOn(p), TriedStay,
         pass[p].pc # "idle" =>
           \A k \in Creators :
             pass[p].session = session' /\ handle[k].session = session'
             /\ handle[k].pc = "created" => QuietKept(k)
  PROVE  Looked(p)' /\ Quietness(p)'
<1>1. Looked(p) /\ Quietness(p)
  BY DEF Once, Answers
<1>2. Looked(p)'
  BY <1>1, LookedKept
<1>3. CASE pass[p].pc = "idle"
  <2>1. pass'[p].pc = "idle"
    BY <1>3 DEF LooksOn, SamePass, Moves
  <2>2. QED BY <1>2, <2>1 DEF Quietness
<1>4. CASE pass[p].pc # "idle"
  <2>1. ASSUME NEW k \in Creators, pass[p].session = session', pass[p].returned,
               pass[p].project = k
        PROVE  QuietKept(k)
    BY <1>1, <1>4, <2>1, ProjectOfPass
  <2>2. QED BY <1>1, <1>2, <2>1, QuietnessKept DEF LooksOn
<1>5. QED BY <1>3, <1>4

(* The other creations, when nothing is kept for them *)
LEMMA OthersKept ==
  ASSUME Types, Once, NEW k \in Creators, Request(k)', LessRefused,
         \A j \in Creators : j # k => LessRequest(j) /\ LessPasses(j) /\ StillSubmitted(j)
  PROVE  \A j \in Creators : Request(j)'
<1>1. ASSUME NEW j \in Creators, j # k PROVE Request(j)'
  BY <1>1, RequestKept DEF Once, Requests
<1>2. QED BY <1>1

LEMMA RestartKeepsOnce ==
  ASSUME Types, Accounts, Once, Hear, resent' = resent,
         Handled = session, tracked' = tracked, HearsRestart
  PROVE  Once'
<1>1. /\ Types'
      /\ UNCHANGED <<session, generation, frames, service, admitted, age, pass>>
      /\ inbox # <<>> /\ inbox' = Tail(inbox)
  BY HearEffects DEF Accounts
<1>2. /\ Heard.kind = "refused" /\ Heard.session = session
      /\ Open(tracked) /\ ~submission.awaiting /\ submission.unadmitted # None
      /\ handle' = handle
      /\ submission'.unadmitted = None /\ submission'.awaiting
      /\ submission'.submitted = submission.submitted
      /\ submission'.sentOn = submission.sentOn
      /\ submission'.handledSession = Handled
  BY DEF HearsRestart
<1>0. PICK u \in Creators : u = submission.unadmitted
  BY <1>2, UnadmittedFacts
<1>3. /\ u \in Creators /\ u \in Projects /\ u # Recovered /\ Tried(u) /\ tracked = u
      /\ handle[u].session = session
  <2>1. Tried(u) /\ Kin(u) /\ tracked = u
    BY <1>0, <1>2, UnadmittedFacts DEF Open
  <2>2. QED BY <2>1, ProjectFacts DEF Types, Kin
<1>4. /\ task'[u].pc = "waiting" /\ task'[u].session = session /\ task'[u].request = u
      /\ \A j \in Projects : j # u => task'[j] = task[j]
  BY <1>0, <1>3 DEF HearsRestart
<1>5. WorldStands /\ SamePasses /\ Fates /\ TriedStay
  BY <1>1, <1>2, SamePassFacts, FatesSame, FatesStay DEF WorldStands, Once
<1>6. Told' /\ LessRefused /\ Refused /\ ~Refused'
  BY <1>1, <1>2, <1>5, TailTold DEF Once
<1>7. admitted[u] = 0 /\ NoFrame(u) /\ ~Coming(u) /\ Request(u)
  BY <1>3, <1>6 DEF Once, Requests, Request, OneRequest
<1>8. \A k \in Creators : LessPasses(k)
  BY <1>5, PassesLike
<1>9. Request(u)'
  <2>1. Tried(u)' /\ Open(u)
    BY <1>2, <1>3 DEF Tried
  <2>2. /\ NoFrame(u)' /\ admitted'[u] = 0 /\ resent' = resent /\ handle'[u].pc # "sending"
        /\ \A p \in Passes : ~Resends(p, u)' /\ (Carries(p, u)' => Carries(p, u))
    BY <1>1, <1>2, <1>7 DEF NoFrame, Coming, Resends, Carries
  <2>3. OneFrame(u)'
    BY <2>2 DEF OneFrame, NoFrame
  <2>4. Untouched(u)' /\ OneRequest(u)'
    BY <1>6, <2>1, <2>2, <2>3 DEF Untouched, OneRequest, Coming
  <2>5. ResentOnce(u)'
    BY <1>2, <1>7, <2>2 DEF Request, ResentOnce, Handled
  <2>6. OwnRequest(u)' /\ LostForGood(u)'
    BY <1>2, <1>4, <1>7, <2>1 DEF Request, OwnRequest, LostForGood, Open
  <2>7. QED BY <2>4, <2>5, <2>6 DEF Request
<1>10. ASSUME NEW j \in Creators, j # u PROVE LessRequest(j) /\ StillSubmitted(j)
  <2>1. task'[j] = task[j] /\ j # None
    BY <1>4, <1>10, ProjectFacts DEF Types
  <2>2. QED BY <1>1, <1>2, <2>1
           DEF LessRequest, TriedKept, StillSubmitted, Handled, Again
<1>11. Requests'
  <2>1. \A j \in Creators : Request(j)'
    BY <1>6, <1>8, <1>9, <1>10, <1>3, OthersKept
  <2>2. task'[Recovered] = task[Recovered]
    BY <1>3, <1>4, ProjectFacts DEF Types
  <2>3. SafelyCarried
    BY <1>1, <1>2, <2>2 DEF SafelyCarried, Carries, Once, Requests
  <2>4. QED BY <2>1, <2>3, CarriedKept DEF Once, Requests
<1>12. Creations' /\ Single'
  <2>1. CallsKept /\ TrackedKept
    BY <1>2 DEF CallsKept, CallKept, SameCall, TriedKept, TrackedKept
  <2>2. QED BY <2>1, CreationsKept DEF Once
<1>13. \A k \in Creators : FreshKept(k)
  BY <1>2, ProjectFacts DEF FreshKept, Types
<1>14. Receipt'
  <2>1. ReceiptGoesOn
    BY <1>2 DEF ReceiptGoesOn
  <2>2. QED BY <1>1, <1>6, <1>13, <2>1, ReceiptKept DEF Once, Types
<1>15. Waits'
  <2>1. SUFFICES ASSUME NEW k \in Creators, task'[k].pc # "none", task'[k].session = Handled, k # u
                 PROVE  FALSE
    BY <1>2 DEF Waits, Wait, Handled
  <2>2. task'[k] = task[k]
    BY <1>4, <2>1, ProjectFacts DEF Types
  <2>3. QED BY <1>2, <2>1, <2>2 DEF Once, Waits, Wait
<1>16. Registries' /\ RecoveredIsKnown'
  <2>1. Registries'
    BY <1>1, <1>5, RegistriesKept DEF Once
  <2>2. QED BY <1>3, <2>1 DEF RecoveredIsKnown
<1>17. Answers'
  <2>1. StirredOn
    <3>1. StirsOn
      BY <1>1, <1>2 DEF StirsOn, Carries
    <3>2. QED BY <1>5, <3>1, StirredFacts
  <2>2. QED BY <1>1, <1>5, <1>13, <2>1, AnswerKept DEF Answers, SamePasses
<1>18. QED BY <1>6, <1>11, <1>12, <1>14, <1>15, <1>16, <1>17 DEF Once

LEMMA ResumeKeepsOnce ==
  ASSUME Types, Accounts, Once, NEW k \in Projects, ResumeTask(k), Open(k), resent' = resent
  PROVE  Once'
<1>1. /\ Types' /\ WorldKept /\ UNCHANGED <<frames, tracked, handle, age, pass>>
      /\ task[k].pc = "waiting" /\ task[k].session = session
      /\ submission'.submitted = submission.submitted
      /\ submission'.sentOn = submission.sentOn
      /\ submission'.handledSession = Handled
      /\ OtherTasks(k)
      /\ task'[k].pc = "writing" /\ SameTask(k)
      /\ submission'.unadmitted = task[k].request
      /\ submission'.awaiting = submission.awaiting
  BY ResumeEffects
<1>2. /\ k \in Creators /\ Tried(k) /\ handle[k].session = session /\ Handled = session
      /\ task[k].request = k
      /\ submission.awaiting /\ submission.unadmitted = None
      /\ \A j \in Creators : Tried(j) /\ handle[j].session = session => j = k
      /\ \A j \in Projects : task[j].pc # "none" /\ task[j].session = session => j = k
  BY <1>1, TaskFacts
<1>3. WorldStands /\ inbox' = inbox /\ session' = session /\ SamePasses /\ Fates /\ TriedStay
  BY <1>1, SamePassFacts, FatesSame, FatesStay DEF WorldKept, WorldStands, Once
<1>4. Told' /\ LessRefused
  BY <1>3, NotTold DEF Once
<1>5. /\ \A j \in Creators : LessRequest(j) /\ StillSubmitted(j)
      /\ \A j \in Creators : WaitKept(j)
  <2>1. ASSUME NEW j \in Creators PROVE LessRequest(j) /\ StillSubmitted(j) /\ WaitKept(j)
    <3>1. CASE j = k
      BY <1>1, <1>2, <1>3, <3>1 DEF LessRequest, TriedKept, StillSubmitted, WaitKept, SameTask,
         Again, WorldKept, Handled
    <3>2. CASE j # k
      <4>1. task'[j] = task[j] /\ submission'.unadmitted # j
        BY <1>1, <1>2, <3>2, ProjectFacts DEF OtherTasks, Types
      <4>2. QED BY <1>1, <1>3, <4>1 DEF LessRequest, TriedKept, StillSubmitted, WaitKept, Again,
                   WorldKept, Handled
    <3>3. QED BY <3>1, <3>2
  <2>2. QED BY <2>1
<1>6. Requests'
  <2>1. task'[Recovered] = task[Recovered]
    BY <1>1, <1>2, ProjectFacts DEF Types, OtherTasks
  <2>2. SafelyCarried
    BY <1>1, <2>1 DEF SafelyCarried, Carries, Once, Requests
  <2>3. QED BY <1>3, <1>4, <1>5, <2>2, PassesLike, RequestsKept DEF Once
<1>7. Creations' /\ Single'
  <2>1. CallsKept /\ TrackedKept
    BY <1>1 DEF CallsKept, CallKept, SameCall, TriedKept, TrackedKept
  <2>2. QED BY <2>1, CreationsKept DEF Once
<1>8. \A j \in Creators : FreshKept(j)
  BY <1>1, <1>2 DEF FreshKept
<1>9. Receipt'
  <2>1. ReceiptGoesOn
    BY <1>1 DEF ReceiptGoesOn
  <2>2. QED BY <1>1, <1>3, <1>4, <1>8, <2>1, ReceiptKept DEF Once, Types, WorldStands
<1>10. Waits'
  <2>1. SUFFICES ASSUME NEW j \in Creators, task'[j].pc # "none", task'[j].session = Handled
                 PROVE  task'[j].pc # "waiting"
    BY <1>1, <1>2 DEF Waits, Wait, Handled
  <2>2. CASE j = k
    BY <1>1, <2>2
  <2>3. CASE j # k
    BY <1>1, <1>2, <2>1, <2>3, ProjectFacts DEF Types, OtherTasks
  <2>4. QED BY <2>2, <2>3
<1>11. Registries' /\ RecoveredIsKnown'
  <2>1. Registries'
    BY <1>3, RegistriesKept DEF Once, WorldStands
  <2>2. tracked # Recovered
    <3>1. SUFFICES ASSUME Known(session) PROVE FALSE
      BY <1>2 DEF Once, RecoveredIsKnown
    <3>2. PICK j \in Creators : admitted[j] > 0 /\ handle[j].session = session
      BY <3>1 DEF Once, Registries, Types
    <3>3. j = k
      BY <1>2, <3>2 DEF Once, Requests, Request, Untouched, Types
    <3>4. admitted[k] = 0
      BY <1>1, <1>2 DEF Once, Requests, Request, OneRequest, Coming, Again
    <3>5. QED BY <3>2, <3>3, <3>4
  <2>3. QED BY <1>1, <2>1, <2>2 DEF RecoveredIsKnown
<1>12. Answers'
  <2>1. StirredOn
    <3>1. StirsOn
      BY <1>1 DEF StirsOn, Carries
    <3>2. QED BY <1>3, <3>1, StirredFacts
  <2>2. QED BY <1>1, <1>3, <1>8, <2>1, AnswerKept DEF Answers, SamePasses
<1>13. QED BY <1>4, <1>6, <1>7, <1>9, <1>10, <1>11, <1>12 DEF Once

(* What a write adds to the frames *)
LEMMA WiderFacts ==
  ASSUME NEW k \in Creators, Wider(k)
  PROVE  /\ \A f \in frames' : f \in frames \/ (f.request = k /\ f.generation = generation)
         /\ \A j \in Creators : j # k => \A f \in frames' : f.request = j => f \in frames
         /\ NoFrame(k) => \A f \in frames' : f.request = k => f = Frame(k)
         /\ NoFrame(k) => OneFrame(k)'
BY DEF Wider, Frame, NoFrame, OneFrame

(* A request that may still come has come to the socket, and does not come again *)
LEMMA WrittenKept ==
  ASSUME Types, NEW k \in Creators, Request(k), Coming(k), Tried(k), ~Coming(k)', Wider(k),
         UNCHANGED <<admitted, inbox, session, submission>>,
         handle'[k].session = handle[k].session, SameFate(handle'[k], handle[k]),
         resent'[k] <= 1,
         resent'[k] > 0 \/ (\E p \in Passes : Carries(p, k)') =>
           resent[k] > 0 \/ \E p \in Passes : Carries(p, k),
         task'[k].pc # "none" => task[k].pc # "none" /\ task'[k].request = task[k].request
  PROVE  Request(k)'
<1>1. admitted[k] = 0 /\ NoFrame(k)
  BY DEF Request, OneRequest
<1>2. OneFrame(k)'
  BY <1>1, WiderFacts
<1>3. Tried(k)'
  BY DEF Tried, SameFate
<1>4. /\ handle'[k].pc # "sending" /\ ~Again(k)' /\ \A p \in Passes : ~Resends(p, k)'
  BY DEF Coming
<1>5. ~(Refused' /\ handle'[k].session = session')
  <2>1. ~(Refused /\ handle[k].session = session)
    BY DEF Request, OneRequest
  <2>2. QED BY <2>1 DEF Refused, IsRefusal
<1>6. Untouched(k)' /\ OneRequest(k)'
  BY <1>1, <1>2, <1>3, <1>4, <1>5 DEF Untouched, OneRequest
<1>7. ResentOnce(k)'
  BY <1>4 DEF Request, ResentOnce, Handled
<1>8. OwnRequest(k)'
  BY DEF Request, OwnRequest
<1>9. LostForGood(k)'
  BY DEF Request, LostForGood, SameFate
<1>10. QED BY <1>6, <1>7, <1>8, <1>9 DEF Request

(* The receipt, when the request was not only written by its creation *)
LEMMA ReceiptWritten ==
  ASSUME Types, Receipt, NEW k \in Creators, ~Fresh(k)', Wider(k), ReceiptGoesOn,
         ConstantsAreSound, LessRefused, generation' = generation,
         \A j \in Creators : FreshKept(j)
  PROVE  Receipt'
<1>1. ASSUME NEW j \in Creators PROVE FreshReceipt(j)'
  <2>1. CASE j = k
    BY <2>1 DEF FreshReceipt
  <2>2. CASE j # k
    <3>1. \A f \in frames' : f.request = j => f \in frames
      BY <2>2, WiderFacts
    <3>2. QED BY <3>1, FreshReceiptKept DEF Receipt, ReceiptGoesOn
  <2>3. QED BY <2>1, <2>2
<1>2. \A f \in frames' : f.generation = generation'
  BY WiderFacts DEF Receipt
<1>3. QED BY <1>1, <1>2, ReceiptStands DEF Receipt, Handled

LEMMA WriteAgainKeepsOnce ==
  ASSUME Types, Accounts, Once, NEW k \in Projects, WriteAgain(k), resent' = resent
  PROVE  Once'
<1>1. k \in Creators /\ task[k].request = k
  BY DEF WriteAgain, Once, Requests, Request, OwnRequest, Projects
<1>2. /\ Types' /\ WorldKept /\ UNCHANGED <<tracked, handle, submission, age, pass>>
      /\ task[k].pc = "writing" /\ task[k].session = session
      /\ Wider(k) /\ task'[k].pc = "wrote" /\ SameTask(k) /\ OtherTasks(k)
  BY <1>1, WriteAgainEffects
<1>3. /\ Tried(k) /\ handle[k].session = session /\ Handled = session /\ submission.awaiting
      /\ Request(k) /\ Coming(k) /\ Again(k)
  BY <1>1, <1>2, TaskFacts DEF Once, Requests, Coming, Again
<1>4. /\ inbox' = inbox /\ session' = session /\ SamePasses /\ Fates /\ TriedStay
      /\ \A j \in Creators : LessPasses(j)
  BY <1>2, SamePassFacts, FatesSame, FatesStay, PassesLike DEF WorldKept, Once
<1>5. Told' /\ LessRefused
  BY <1>4, NotTold DEF Once
<1>6. ~Coming(k)'
  <2>1. handle[k].pc # "sending" /\ \A p \in Passes : ~Resends(p, k)
    BY <1>2, <1>3 DEF Request, OneRequest
  <2>2. QED BY <1>2, <2>1 DEF Coming, Resends, Again
<1>7. Request(k)'
  <2>1. resent'[k] <= 1
    BY <1>3 DEF Request, ResentOnce
  <2>2. UNCHANGED <<admitted, inbox, session, submission>> /\ handle' = handle /\ resent' = resent
    BY <1>2 DEF WorldKept
  <2>3. /\ handle'[k].session = handle[k].session /\ SameFate(handle'[k], handle[k])
        /\ resent'[k] > 0 => resent[k] > 0
    BY <2>2 DEF SameFate
  <2>4. \A p \in Passes : Carries(p, k)' => Carries(p, k)
    BY <1>2 DEF Carries
  <2>5. task[k].pc # "none" /\ task'[k].request = task[k].request
    BY <1>2 DEF SameTask
  <2>6. QED BY <1>1, <1>2, <1>3, <1>6, <2>1, <2>2, <2>3, <2>4, <2>5, WrittenKept
<1>8. ASSUME NEW j \in Creators, j # k PROVE LessRequest(j) /\ StillSubmitted(j)
  <2>1. task'[j] = task[j] /\ \A f \in frames' : f.request = j => f \in frames
    BY <1>1, <1>2, <1>8, WiderFacts, ProjectFacts DEF OtherTasks, Types
  <2>2. QED BY <1>2, <2>1 DEF LessRequest, TriedKept, StillSubmitted, Again, WorldKept, Handled
<1>9. Requests'
  <2>1. \A j \in Creators : Request(j)'
    BY <1>1, <1>4, <1>5, <1>7, <1>8, OthersKept
  <2>2. task'[Recovered] = task[Recovered]
    BY <1>1, <1>2, ProjectFacts DEF Types, OtherTasks
  <2>3. SafelyCarried
    BY <1>2, <2>2 DEF SafelyCarried, Carries, Once, Requests
  <2>4. QED BY <2>1, <2>3, CarriedKept DEF Once, Requests
<1>10. Creations' /\ Single'
  <2>1. CallsKept /\ TrackedKept
    BY <1>2 DEF CallsKept, CallKept, SameCall, TriedKept, TrackedKept, Handled
  <2>2. QED BY <2>1, CreationsKept DEF Once
<1>11. (\A j \in Creators : FreshKept(j)) /\ ~Fresh(k)'
  BY <1>2, <1>3 DEF FreshKept, Fresh
<1>12. Receipt'
  <2>1. ReceiptGoesOn
    BY <1>2 DEF ReceiptGoesOn, Handled
  <2>2. QED BY <1>1, <1>2, <1>5, <1>11, <2>1, ReceiptWritten DEF Once, Types, WorldKept
<1>13. Waits'
  <2>1. WaitsGoOn
    BY <1>2 DEF WaitsGoOn, Handled
  <2>2. ASSUME NEW j \in Creators PROVE WaitKept(j)
    <3>1. CASE j = k
      BY <1>2, <3>1 DEF WaitKept, SameTask
    <3>2. CASE j # k
      BY <1>2, <3>2, ProjectFacts DEF WaitKept, OtherTasks, Types
    <3>3. QED BY <3>1, <3>2
  <2>3. QED BY <2>1, <2>2, WaitsKept DEF Once
<1>14. Registries' /\ RecoveredIsKnown'
  <2>1. Registries'
    BY <1>2, <1>4, RegistriesKept DEF Once, WorldKept
  <2>2. QED BY <1>2 , <2>1 DEF Once, RecoveredIsKnown, Known, WorldKept, Handled
<1>15. Answers'
  <2>1. SUFFICES ASSUME NEW p \in Passes PROVE Looked(p)' /\ Quietness(p)'
    BY DEF Answers
  <2>2. LooksOn(p)
    BY <1>2, <1>4 DEF LooksOn, SamePasses, Known, WorldKept
  <2>3. JudgesOn(p)
    BY <1>2, <1>11, FreshOnesKept DEF Once, Answers, WorldKept
  <2>4. ASSUME NEW j \in Creators PROVE QuietKept(j)
    BY <1>2, <1>3 DEF QuietKept, Stirred, WorldKept
  <2>5. QED BY <1>4, <2>2, <2>3, <2>4, AnswerStays
<1>16. QED BY <1>5, <1>9, <1>10, <1>12, <1>13, <1>14, <1>15 DEF Once

(* A request that is to be resent has not been admitted, and nothing of it is left *)
LEMMA UndeliveredFacts ==
  ASSUME Types, Accounts, Once, NEW p \in Passes, pass[p].pc = "judge", pass[p].session = session,
         Undelivered
  PROVE  /\ submission.unadmitted \in Creators /\ tracked = submission.unadmitted
         /\ Tried(tracked) /\ Open(tracked) /\ handle[tracked].session = session
         /\ Handled = session /\ handle[tracked].pc = "created"
         /\ admitted[tracked] = 0 /\ NoFrame(tracked) /\ task[tracked].pc = "none"
         /\ resent[tracked] = 0 /\ ~Refused /\ \A q \in Passes : ~Carries(q, tracked)
<1>1. /\ Open(tracked) /\ handle[tracked].session = session
      /\ submission.sentOn.generation \in 1 .. generation - 1
      /\ submission.sentOn.session = session
      /\ ~submission.submitted /\ ~submission.awaiting /\ submission.unadmitted # None
  BY DEF Undelivered
<1>2. /\ submission.unadmitted \in Creators /\ tracked = submission.unadmitted
      /\ Tried(tracked) /\ Kin(tracked)
  BY <1>1, UnadmittedFacts DEF Open
<1>3. PICK u \in Creators : u = tracked
  BY <1>2
<1>4. Fresh(u) /\ Handled = session /\ Request(u) /\ u \in Projects /\ Tried(u)
  BY <1>1, <1>2, <1>3, ProjectFacts DEF Fresh, Kin, Once, Requests, Types
<1>5. generation \in Nat /\ submission.sentOn.generation \in Nat
      /\ submission.sentOn.generation > 0 /\ submission.sentOn.generation # generation
  BY <1>1 DEF Types
<1>6. handle[u].pc = "created" /\ handle[u].generation # generation /\ FreshReceipt(u)
  BY <1>1, <1>4, <1>5 DEF Once, Receipt, FreshReceipt
<1>7. ~WrittenOn(u, generation)
  BY <1>6 DEF WrittenOn
<1>8. NoFrame(u)
  BY <1>4, <1>6, <1>7 DEF FreshReceipt, NoFrame, Once, Receipt
<1>9. ~Refused
  BY <1>1, <1>3, <1>4, <1>6, <1>7 DEF FreshReceipt
<1>10. admitted[u] = 0
  <2>1. ~(admitted[u] > 0)
    BY <1>1, <1>3, <1>4, <1>7 DEF Once, Answers, Looked
  <2>2. QED BY <2>1 DEF Types
<1>11. task[u].pc = "none"
  <2>1. SUFFICES ASSUME task[u].pc # "none" PROVE FALSE
    OBVIOUS
  <2>2. task[u].session = session
    BY <1>1, <1>3, <1>4, <2>1 DEF Accounts, OwnTasks, OwnTask, Belongs
  <2>3. QED BY <1>1, <1>4, <2>1, <2>2 DEF Once, Waits, Wait
<1>12. resent[u] = 0 /\ \A q \in Passes : ~Carries(q, u)
  <2>1. handle[u].session = Handled
    BY <1>1, <1>3, <1>4
  <2>2. ~(resent[u] > 0) /\ \A q \in Passes : ~Carries(q, u)
    BY <1>1, <1>4, <2>1 DEF Request, ResentOnce
  <2>3. QED BY <2>2 DEF Types
<1>13. QED BY <1>1, <1>2, <1>3, <1>4, <1>6, <1>8, <1>9, <1>10, <1>11, <1>12

LEMMA ClaimsKeepsOnce ==
  ASSUME Types, Accounts, Once, NEW p \in Passes, Judge(p), Claims(p), resent' = resent
  PROVE  Once'
<1>1. /\ Types' /\ WorldKept /\ UNCHANGED <<frames, tracked, task>>
      /\ pass[p].pc = "judge" /\ pass[p].session = session /\ OtherPasses(p)
  BY JudgeEffects
<1>2. PICK u \in Creators :
        /\ u = submission.unadmitted /\ tracked = u
        /\ Tried(u) /\ Open(u) /\ handle[u].session = session
        /\ Handled = session /\ handle[u].pc = "created"
        /\ admitted[u] = 0 /\ NoFrame(u) /\ task[u].pc = "none"
        /\ resent[u] = 0 /\ ~Refused /\ \A q \in Passes : ~Carries(q, u)
  BY <1>1, UndeliveredFacts DEF Claims
<1>3. /\ handle' = handle /\ age' = "recent"
      /\ submission'.unadmitted = submission.unadmitted /\ submission'.awaiting = submission.awaiting
      /\ submission'.submitted /\ submission'.sentOn = NoReceipt
      /\ submission'.handledSession = Handled
      /\ pass'[p].pc = "resending" /\ pass'[p].session = pass[p].session
      /\ pass'[p].returned = pass[p].returned
      /\ pass'[p].project = pass[p].project /\ pass'[p].seen = pass[p].seen
      /\ pass'[p].request = u
  BY <1>2 DEF Claims
<1>4. WorldStands /\ inbox' = inbox /\ session' = session /\ Fates /\ TriedStay
  BY <1>1, <1>3, FatesSame, FatesStay DEF WorldKept, WorldStands, Once
<1>5. Told' /\ LessRefused /\ ~Refused'
  BY <1>2, <1>4, NotTold DEF Once, LessRefused
<1>6. Request(u)'
  <2>1. Tried(u)' /\ NoFrame(u)' /\ admitted'[u] = 0 /\ resent'[u] = 0 /\ task'[u].pc = "none"
        /\ handle'[u].pc = "created"
    BY <1>1, <1>2, <1>3 DEF Tried, NoFrame, WorldKept
  <2>2. \A q \in Passes : Resends(q, u)' => q = p
    BY <1>1, <1>2 DEF OtherPasses, SamePass, Moves, Resends, Carries
  <2>3. OneFrame(u)'
    BY <2>1 DEF NoFrame, OneFrame
  <2>4. Untouched(u)' /\ OneRequest(u)'
    BY <1>5, <2>1, <2>2, <2>3 DEF Untouched, OneRequest, Again
  <2>5. ResentOnce(u)'
    BY <1>3, <2>1 DEF ResentOnce
  <2>6. OwnRequest(u)' /\ LostForGood(u)'
    BY <1>2, <1>3, <2>1 DEF OwnRequest, Once, Requests, Request, LostForGood
  <2>7. QED BY <2>4, <2>5, <2>6 DEF Request
<1>7. ASSUME NEW j \in Creators, j # u PROVE LessRequest(j) /\ LessPasses(j) /\ StillSubmitted(j)
  <2>1. LessPasses(j)
    BY <1>1, <1>3, <1>7
       DEF OtherPasses, SamePass, Moves, LessPasses, LessPass, Resends, Carries
  <2>2. QED BY <1>1, <1>3, <2>1 DEF LessRequest, TriedKept, StillSubmitted, Again, WorldKept
<1>8. Requests'
  <2>1. \A j \in Creators : Request(j)'
    BY <1>5, <1>6, <1>7, OthersKept
  <2>2. SafelyCarried
    BY <1>1, <1>2, <1>3 DEF SafelyCarried, Carries, Once, Requests, OtherPasses, SamePass, Moves
  <2>3. QED BY <2>1, <2>2, CarriedKept DEF Once, Requests
<1>9. Creations' /\ Single'
  <2>1. CallsKept /\ TrackedKept
    BY <1>1, <1>3 DEF CallsKept, CallKept, SameCall, TriedKept, TrackedKept
  <2>2. QED BY <2>1, CreationsKept DEF Once
<1>10. \A j \in Creators : FreshKept(j)
  BY <1>3 DEF FreshKept
<1>11. Receipt'
  <2>1. NoReceipt.generation = 0
    BY DEF NoReceipt
  <2>2. ReceiptGoesOn
    BY <1>3, <2>1 DEF ReceiptGoesOn
  <2>3. QED BY <1>1, <1>4, <1>5, <1>10, <2>2, ReceiptKept DEF Once, Types, WorldStands
<1>12. Waits'
  <2>1. WaitsGoOn /\ \A j \in Creators : WaitKept(j)
    BY <1>1, <1>3 DEF WaitsGoOn, WaitKept
  <2>2. QED BY <2>1, WaitsKept DEF Once
<1>13. Registries' /\ RecoveredIsKnown'
  <2>1. Registries'
    BY <1>4, RegistriesKept DEF Once, WorldStands
  <2>2. QED BY <1>1, <1>2, <2>1, ProjectFacts DEF RecoveredIsKnown, Types
<1>14. Answers'
  <2>1. StirredOn
    BY <1>3 DEF StirredOn, Stirred
  <2>2. Looked(p) /\ Looked(p)' /\ Quietness(p)'
    <3>1. Looked(p)
      BY DEF Once, Answers
    <3>2. QED BY <1>1, <1>3, <3>1 DEF Looked, Quietness, Known, WorldKept, Tried
  <2>3. QED BY <1>1, <1>4, <1>10, <2>1, <2>2, AnswerKept DEF Answers, OtherPasses
<1>15. QED BY <1>5, <1>8, <1>9, <1>11, <1>12, <1>13, <1>14 DEF Once

LEMMA ResendKeepsOnce ==
  ASSUME Types, Accounts, Once, NEW p \in Passes, Resend(p)
  PROVE  Once'
<1>1. PICK r \in Creators : /\ r = pass[p].request /\ Resends(p, r) /\ Carries(p, r)
                            /\ handle[r].session = pass[p].session
  BY DEF Resend, At, Resends, Carries, Accounts, OwnPasses, OwnPass, Belongs
<1>2. /\ Types' /\ WorldKept /\ UNCHANGED <<tracked, handle, submission, age, task>>
      /\ pass[p].pc = "resending" /\ pass[p].session = session /\ OtherPasses(p)
      /\ Wider(r)
      /\ pass'[p].pc = "resent"
      /\ pass'[p].session = pass[p].session /\ pass'[p].returned = pass[p].returned
      /\ pass'[p].project = pass[p].project /\ pass'[p].seen = pass[p].seen
      /\ pass'[p].request = r
      /\ resent'[r] = resent[r] + 1
      /\ \A k \in Creators : k # r => resent'[k] = resent[k]
  BY <1>1, ResendEffects
<1>3. /\ handle[r].pc = "created" /\ Tried(r) /\ handle[r].session = session /\ Handled = session
      /\ Request(r) /\ Coming(r)
  <2>1. handle[r].pc = "created"
    BY <1>1 DEF Once, Requests, Carried
  <2>2. Tried(r)
    BY <2>1 DEF Once, Creations, Creation, Sent
  <2>3. handle[r].session = session /\ Handled = session
    BY <1>1, <1>2, <2>2, TriedFacts
  <2>4. QED BY <1>1, <2>1, <2>2, <2>3 DEF Once, Requests, Coming
<1>4. /\ inbox' = inbox /\ session' = session /\ Fates /\ TriedStay
      /\ \A j \in Creators : LessPasses(j)
  <2>1. \A j \in Creators : LessPasses(j)
    BY <1>1, <1>2 DEF OtherPasses, SamePass, Moves, LessPasses, LessPass, Resends, Carries
  <2>2. QED BY <1>2, <2>1, FatesSame, FatesStay DEF WorldKept, Once
<1>5. Told' /\ LessRefused
  BY <1>4, NotTold DEF Once
<1>6. ~Coming(r)'
  <2>1. ~Again(r) /\ \A q \in Passes : Resends(q, r) => q = p
    BY <1>1, <1>3 DEF Request, OneRequest
  <2>2. \A q \in Passes : ~Resends(q, r)'
    BY <1>2, <2>1 DEF OtherPasses, SamePass, Moves, Resends
  <2>3. QED BY <1>2, <1>3, <2>1, <2>2 DEF Coming, Again
<1>7. Request(r)'
  <2>1. resent'[r] <= 1
    BY <1>1, <1>2, <1>3 DEF Request, ResentOnce
  <2>2. UNCHANGED <<admitted, inbox, session, submission, handle, task>>
    BY <1>2 DEF WorldKept
  <2>3. handle'[r].session = handle[r].session /\ SameFate(handle'[r], handle[r])
    BY <2>2 DEF SameFate
  <2>4. task'[r].pc # "none" => task[r].pc # "none" /\ task'[r].request = task[r].request
    BY <2>2
  <2>5. \E q \in Passes : Carries(q, r)
    BY <1>1
  <2>6. QED BY <1>2, <1>3, <1>6, <2>1, <2>2, <2>3, <2>4, <2>5, WrittenKept
<1>8. ASSUME NEW j \in Creators, j # r PROVE LessRequest(j) /\ StillSubmitted(j)
  <2>1. \A f \in frames' : f.request = j => f \in frames
    BY <1>2, <1>8, WiderFacts
  <2>2. QED BY <1>2, <1>8, <2>1
            DEF LessRequest, TriedKept, StillSubmitted, Again, WorldKept, Handled
<1>9. Requests'
  <2>1. \A j \in Creators : Request(j)'
    BY <1>4, <1>5, <1>7, <1>8, OthersKept
  <2>2. SafelyCarried
    BY <1>2, <1>4 DEF SafelyCarried, LessPasses, LessPass, Once, Requests
  <2>3. QED BY <2>1, <2>2, CarriedKept DEF Once, Requests
<1>10. Creations' /\ Single'
  <2>1. CallsKept /\ TrackedKept
    BY <1>2 DEF CallsKept, CallKept, SameCall, TriedKept, TrackedKept, Handled
  <2>2. QED BY <2>1, CreationsKept DEF Once
<1>11. (\A j \in Creators : FreshKept(j)) /\ ~Fresh(r)'
  <2>1. submission.submitted \/ handle[r].session # Handled
    BY <1>1, <1>3 DEF Request, ResentOnce
  <2>2. QED BY <1>2, <1>3, <2>1 DEF FreshKept, Fresh
<1>12. Receipt'
  <2>1. ReceiptGoesOn
    BY <1>2 DEF ReceiptGoesOn, Handled
  <2>2. QED BY <1>2, <1>5, <1>11, <2>1, ReceiptWritten DEF Once, Types, WorldKept
<1>13. Waits'
  <2>1. WaitsGoOn /\ \A j \in Creators : WaitKept(j)
    BY <1>2 DEF WaitsGoOn, WaitKept, Handled
  <2>2. QED BY <2>1, WaitsKept DEF Once
<1>14. Registries' /\ RecoveredIsKnown'
  <2>1. Registries'
    BY <1>2, <1>4, RegistriesKept DEF Once, WorldKept
  <2>2. QED BY <1>2 , <2>1 DEF Once, RecoveredIsKnown, Known, WorldKept, Handled
<1>15. Answers'
  <2>1. Looked(p) /\ Looked(p)' /\ Quietness(p)'
    <3>1. Looked(p)
      BY DEF Once, Answers
    <3>2. QED BY <1>2, <3>1 DEF Looked, Quietness, Known, WorldKept, Tried
  <2>2. ASSUME NEW q \in Passes, q # p PROVE Looked(q)' /\ Quietness(q)'
    <3>1. LooksOn(q)
      BY <1>2, <2>2 DEF LooksOn, OtherPasses, Known, WorldKept
    <3>2. JudgesOn(q)
      BY <1>2, <1>11, FreshOnesKept DEF Once, Answers, WorldKept
    <3>3. ASSUME NEW j \in Creators PROVE QuietKept(j)
      <4>1. CASE j = r
        BY <1>2, <4>1 DEF QuietKept, Stirred, Carries, WorldKept
      <4>2. CASE j # r
        <5>1. \A f \in frames' : f.request = j => f \in frames
          BY <1>2, <4>2, WiderFacts
        <5>2. Stirred(j) => Stirred(j)'
          BY <1>1, <1>2, <4>2 DEF Stirred, Open, Carries, OtherPasses, SamePass, Moves
        <5>3. QED BY <1>2, <5>1, <5>2 DEF QuietKept, WorldKept
      <4>3. QED BY <4>1, <4>2
    <3>4. QED BY <1>4, <3>1, <3>2, <3>3, AnswerStays
  <2>3. QED BY <2>1, <2>2 DEF Answers
<1>16. QED BY <1>5, <1>9, <1>10, <1>12, <1>13, <1>14, <1>15 DEF Once

LEMMA ReturnsKeepsOnce ==
  ASSUME Types, Accounts, Once, NEW p \in Passes, ResendReturns(p), resent' = resent
  PROVE  Once'
<1>1. /\ Types' /\ WorldKept /\ UNCHANGED <<frames, tracked, handle, task>>
      /\ pass[p].pc \in {"resent", "resending"} /\ pass[p].session = session
      /\ OtherPasses(p) /\ pass'[p] = NoPass /\ age' = "recent"
      /\ submission'.unadmitted = submission.unadmitted
      /\ submission'.awaiting = submission.awaiting
      /\ submission'.submitted /\ submission'.handledSession = Handled
      /\ \/ submission'.sentOn = submission.sentOn
         \/ /\ pass[p].pc = "resent" /\ submission.unadmitted # None
            /\ submission'.sentOn = [generation |-> pass[p].generation, session |-> session]
  BY ReturnsEffects
<1>2. PICK r \in Creators : Carries(p, r) /\ Began(r) /\ handle[r].session = session
  BY <1>1 DEF Carries, Accounts, OwnPasses, OwnPass, Belongs
<1>3. handle[r].pc = "created" /\ Handled = session /\ Handled # NoSession
  <2>1. handle[r].pc = "created"
    BY <1>2 DEF Once, Requests, Carried
  <2>2. Tried(r)
    BY <2>1 DEF Once, Creations, Creation, Sent
  <2>3. QED BY <1>2, <2>1, <2>2, TriedFacts
<1>4. /\ WorldStands /\ inbox' = inbox /\ session' = session /\ Fates /\ TriedStay /\ LessTasks
      /\ \A j \in Creators : LessPasses(j)
  <2>1. NoPass.pc = "idle"
    BY DEF NoPass
  <2>2. QED BY <1>1, <2>1, FatesSame, FatesStay, TasksLike, PassesLess DEF WorldKept, WorldStands, Once
<1>5. Told' /\ LessRefused
  BY <1>4, NotTold DEF Once
<1>6. Requests'
  <2>1. ASSUME NEW j \in Creators PROVE LessRequest(j) /\ StillSubmitted(j)
    BY <1>1, <1>4 DEF LessRequest, TriedKept, StillSubmitted, Again, WorldKept
  <2>2. SafelyCarried
    BY <1>1, <1>4 DEF SafelyCarried, LessPasses, LessPass, Once, Requests
  <2>3. QED BY <1>4, <1>5, <2>1, <2>2, RequestsKept DEF Once
<1>7. Creations' /\ Single'
  <2>1. CallsKept /\ TrackedKept
    BY <1>1 DEF CallsKept, CallKept, SameCall, TriedKept, TrackedKept
  <2>2. QED BY <2>1, CreationsKept DEF Once
<1>8. \A j \in Creators : FreshKept(j) /\ ~Fresh(j)'
  BY <1>1 DEF FreshKept, Fresh
<1>9. Receipt'
  <2>1. CASE submission'.sentOn = submission.sentOn
    <3>1. ReceiptGoesOn
      BY <1>1, <2>1 DEF ReceiptGoesOn
    <3>2. QED BY <1>1, <1>4, <1>5, <1>8, <3>1, ReceiptKept DEF Once, Types, WorldStands
  <2>2. CASE submission'.sentOn = [generation |-> pass[p].generation, session |-> session]
    <3>1. submission'.sentOn.session = session
      BY <2>2
    <3>2. \A f \in frames' : f.generation = generation'
      BY <1>1 DEF Once, Receipt, WorldKept
    <3>3. Kin(r)' /\ handle'[r].pc = "created"
      BY <1>1, <1>2, <1>3 DEF Kin, Began, Handled
    <3>4. submission'.handledSession = session /\ session \in Nat
      BY <1>1, <1>3, SessionFacts DEF Types
    <3>5. QED BY <1>3, <1>8, <3>1, <3>2, <3>3, <3>4 DEF Receipt, FreshReceipt, Handled
  <2>3. QED BY <1>1, <2>1, <2>2
<1>10. Waits'
  <2>1. WaitsGoOn /\ \A j \in Creators : WaitKept(j)
    BY <1>1 DEF WaitsGoOn, WaitKept
  <2>2. QED BY <2>1, WaitsKept DEF Once
<1>11. Registries' /\ RecoveredIsKnown'
  <2>1. Registries'
    BY <1>4, RegistriesKept DEF Once, WorldStands
  <2>2. QED BY <1>1, <2>1 DEF Once, RecoveredIsKnown, Known, WorldKept, Handled
<1>12. Answers'
  <2>1. StirredOn
    BY <1>1 DEF StirredOn, Stirred
  <2>2. ASSUME NEW q \in Passes PROVE Looked(q)' /\ Quietness(q)'
    BY <1>1, <1>4, <1>8, <2>1, AnswerKept DEF OtherPasses
  <2>3. QED BY <2>2 DEF Answers
<1>13. QED BY <1>5, <1>6, <1>7, <1>9, <1>10, <1>11, <1>12 DEF Once

(***************************************************************************)
(* The creation.                                                           *)
(***************************************************************************)
LEMMA NotTrackedKeepsOnce ==
  ASSUME Types, Accounts, Once, NEW k \in Creators, NotTracked(k), resent' = resent
  PROVE  Once'
<1>1. /\ Types' /\ WorldKept /\ UNCHANGED <<frames, tracked, submission, age, task, pass>>
      /\ handle[k].pc = "prepared" /\ handle'[k].pc = "failed"
      /\ handle'[k].session = handle[k].session /\ SameFate(handle'[k], handle[k])
      /\ Others(k)
  BY NotTrackedEffects
<1>2. k \in Projects /\ ~Tried(k) /\ tracked # k /\ \A j \in Creators : j \in Projects
  BY <1>1, ProjectFacts DEF Once, Creations, Creation, Types, Sent
<1>3. \A j \in Creators : /\ handle'[j].session = handle[j].session
                          /\ SameFate(handle'[j], handle[j])
                          /\ j # k => handle'[j] = handle[j]
  BY <1>1, <1>2 DEF Others, SameFate
<1>4. /\ WorldStands /\ inbox' = inbox /\ session' = session /\ SamePasses /\ TriedStay
      /\ \A j \in Creators : LessPasses(j)
  BY <1>1, <1>3, SamePassFacts, PassesLike DEF WorldKept, WorldStands, TriedStay, Tried, SameFate
<1>5. Told' /\ LessRefused
  BY <1>3, <1>4, ToldKept DEF Once, SameFate, LessRefused, Tried
<1>6. Creations' /\ Single'
  <2>1. Creations'
    <3>1. ASSUME NEW j \in Creators PROVE Creation(j)'
      <4>1. Creation(j)
        BY DEF Once, Creations
      <4>2. CASE j = k
        BY <1>1, <1>2, <4>2 DEF Creation, Sent
      <4>3. CASE j # k
        BY <1>1, <1>3, <4>1, <4>3 DEF Creation, Sent, Tried, Handled
      <4>4. QED BY <4>2, <4>3
    <3>2. QED BY <3>1 DEF Creations
  <2>2. Single'
    <3>1. ASSUME NEW i \in Creators, NEW j \in Creators PROVE Apart(i, j)'
      <4>1. Apart(i, j)
        BY DEF Once, Single
      <4>2. /\ Siblings(i, j)' => Siblings(i, j)
            /\ Tried(i)' <=> Tried(i)
            /\ Tried(j)' <=> Tried(j)
        BY <1>1, <1>3 DEF Siblings, Tried, SameFate, Began
      <4>3. /\ handle'[i].pc \in Preparing => handle[i].pc \in Preparing
            /\ handle'[j].pc \in Preparing => handle[j].pc \in Preparing
            /\ handle'[i].pc = "failed" /\ Tried(i) => handle[i].pc = "failed"
        BY <1>1, <1>2, <1>3 DEF Preparing
      <4>4. QED BY <4>1, <4>2, <4>3 DEF Apart
    <3>2. QED BY <3>1 DEF Single
  <2>3. QED BY <2>1, <2>2
<1>7. Requests'
  <2>1. ASSUME NEW j \in Creators PROVE LessRequest(j) /\ StillSubmitted(j)
    <3>1. handle'[j].pc = "sending" => handle[j].pc = "sending"
      BY <1>1, <1>3
    <3>2. TriedKept(j) /\ handle'[j].session = handle[j].session
          /\ handle'[j].status = handle[j].status /\ handle'[j].cause = handle[j].cause
      BY <1>3 DEF TriedKept, SameFate
    <3>3. QED BY <1>1, <3>1, <3>2 DEF LessRequest, StillSubmitted, Again, WorldKept, Handled
  <2>2. SafelyCarried
    <3>1. \A j \in Creators : handle[j].pc = "created" => handle'[j].pc = "created"
      BY <1>1, <1>3
    <3>2. handle'[Recovered] = handle[Recovered]
      BY <1>1, ProjectFacts DEF Others, Types
    <3>3. QED BY <1>1, <3>1, <3>2 DEF SafelyCarried, Carries, Once, Requests
  <2>3. QED BY <1>4, <1>5, <2>1, <2>2, RequestsKept DEF Once
<1>8. \A j \in Creators : FreshKept(j)
  <2>1. submission.unadmitted # k
    BY <1>2 DEF Once, Requests, Request, Untouched
  <2>2. QED BY <1>1, <1>3, <2>1 DEF FreshKept, Fresh
<1>9. Receipt'
  <2>1. ReceiptGoesOn
    BY <1>1, <1>3 DEF ReceiptGoesOn, Handled
  <2>2. QED BY <1>1, <1>4, <1>5, <1>8, <2>1, ReceiptKept DEF Once, Types, WorldStands
<1>10. Waits'
  <2>1. WaitsGoOn /\ \A j \in Creators : WaitKept(j)
    BY <1>1 DEF WaitsGoOn, WaitKept, Handled
  <2>2. QED BY <2>1, WaitsKept DEF Once
<1>11. Registries' /\ RecoveredIsKnown'
  <2>1. Registries'
    BY <1>4, RegistriesKept DEF Once, WorldStands
  <2>2. QED BY <1>1, <2>1 DEF Once, RecoveredIsKnown, Known, WorldKept, Handled
<1>12. Answers'
  <2>1. SUFFICES ASSUME NEW p \in Passes PROVE Looked(p)' /\ Quietness(p)'
    BY DEF Answers
  <2>2. LooksOn(p)
    BY <1>1, <1>3, <1>4 DEF LooksOn, SamePasses, Known, WorldKept
  <2>3. JudgesOn(p)
    BY <1>1, <1>8, FreshOnesKept DEF Once, Answers, WorldKept
  <2>4. ASSUME NEW j \in Creators PROVE QuietKept(j)
    <3>1. Stirred(j) => Stirred(j)'
      BY <1>1, <1>3 DEF Stirred, Open, SameFate, Carries
    <3>2. QED BY <1>1, <3>1 DEF QuietKept, WorldKept
  <2>5. QED BY <1>4, <2>2, <2>3, <2>4, AnswerStays
<1>13. QED BY <1>5, <1>6, <1>7, <1>9, <1>10, <1>11, <1>12 DEF Once

(* What the passes know, over a step of a creation *)
CreatedStay == \A j \in Creators : handle[j].pc = "created" => handle'[j].pc = "created"

LEMMA CreateAnswers ==
  ASSUME Types, Accounts, Once, WorldKept, SamePasses, TriedStay, CreatedStay,
         \A p \in Passes : JudgesOn(p),
         \A j \in Creators :
           handle[j].pc = "created" /\ handle[j].session = session => QuietKept(j)
  PROVE  Answers'
<1>1. SUFFICES ASSUME NEW p \in Passes PROVE Looked(p)' /\ Quietness(p)'
  BY DEF Answers
<1>2. LooksOn(p) /\ session' = session
  BY DEF LooksOn, SamePasses, Known, WorldKept, CreatedStay
<1>3. QED BY <1>2, AnswerStays

LEMMA BeginKeepsOnce ==
  ASSUME Types, Accounts, Once, NEW k \in Creators, Begin(k), resent' = resent
  PROVE  Once'
<1>1. /\ Types' /\ WorldKept /\ UNCHANGED <<frames, age, task, pass>>
      /\ handle[k].pc = "idle" /\ Reusable
      /\ tracked' = Kept /\ submission' = Pruned
      /\ handle'[k].pc = "prepared" /\ handle'[k].session = session
      /\ SameFate(handle'[k], Ended[k])
      /\ \A j \in Projects : j # k => handle'[j] = Ended[j]
  BY BeginEffects DEF Accounts
<1>2. /\ k \in Projects /\ ~Tried(k) /\ tracked # k /\ submission.unadmitted # k
      /\ Creators \subseteq Projects /\ Recovered \in Projects /\ Recovered # k
  BY <1>1, ProjectFacts
     DEF Once, Creations, Creation, Types, Sent, Requests, Request, Untouched
<1>3. ClearedFirst /\ \A j \in Projects : EndedWith(j, Ended)
  BY <1>1, ClearedFacts, Pruning DEF Accounts
<1>4. /\ \A j \in Projects : j # k => EndedWith(j, handle')
      /\ SameFate(handle'[k], handle[k])
  <2>1. SameFate(Ended[k], handle[k])
    BY <1>2, <1>3 DEF EndedWith, Fails, Tried
  <2>2. QED BY <1>1, <1>3, <2>1 DEF EndedWith, SameFate
<1>5. \A j \in Creators : /\ j # k => CallKept(j)
                          /\ handle'[j].status = "open" => handle[j].status = "open"
                          /\ handle'[j].cause = "lost" => handle[j].cause = "lost"
                          /\ TriedKept(j)
                          /\ Tried(j) => handle'[j].session = handle[j].session
                          /\ handle'[j].pc = "sending" => handle[j].pc = "sending"
                          /\ handle[j].pc = "created" => handle'[j].pc = "created"
  <2>1. ASSUME NEW j \in Creators, j # k
        PROVE  /\ CallKept(j)
               /\ handle'[j].status = "open" => handle[j].status = "open"
               /\ handle'[j].cause = "lost" => handle[j].cause = "lost"
    BY <1>2, <1>4, <2>1 DEF EndedWith, CallKept, TriedKept, SameFate, Fails
  <2>2. QED BY <1>1, <1>2, <1>4, <2>1 DEF CallKept, SameCall, TriedKept, SameFate
<1>6. /\ WorldStands /\ inbox' = inbox /\ session' = session /\ SamePasses /\ TriedStay
      /\ CreatedStay /\ \A j \in Creators : LessPasses(j)
  BY <1>1, <1>5, SamePassFacts, PassesLike
     DEF WorldKept, WorldStands, TriedStay, Tried, TriedKept, CreatedStay
<1>7. Told' /\ LessRefused
  BY <1>6, ToldKept DEF Once, LessRefused, TriedStay
<1>8. TrackedKept \/ Retired
  BY <1>3 DEF ClearedFirst, TrackedKept, Handled
<1>9. Creations'
  <2>1. Creation(k)'
    <3>1. tracked' # k
      BY <1>2, <1>3 , ProjectFacts DEF ClearedFirst, Retired, Types
    <3>2. ~Tried(k)'
      BY <1>2, <1>4 DEF Tried, SameFate
    <3>3. QED BY <1>1, <3>1, <3>2 DEF Creation, Sent
  <2>2. ASSUME NEW j \in Creators, j # k PROVE Creation(j)'
    BY <1>5, <1>8, <2>2, CreationKept DEF Once
  <2>3. QED BY <2>1, <2>2 DEF Creations
<1>10. Single'
  <2>1. ASSUME NEW i \in Creators, NEW j \in Creators PROVE Apart(i, j)'
    <3>1. SUFFICES ASSUME Siblings(i, j)'
                   PROVE  /\ ~(handle'[i].pc \in Preparing /\ handle'[j].pc \in Preparing)
                          /\ handle'[i].pc = "failed" /\ Tried(i)' => handle'[j].pc \notin Preparing
                          /\ ~(Tried(i)' /\ Tried(j)')
      BY DEF Apart
    <3>2. i # j /\ handle'[i].session = handle'[j].session
      BY <3>1 DEF Siblings
    <3>3. ~Tried(k)' /\ \A c \in Creators : Tried(c)' <=> Tried(c)
      BY <1>2, <1>5 DEF Tried, TriedKept
    <3>4. \A c \in Creators : c # k => handle'[c].pc = handle[c].pc
                                       /\ handle'[c].session = handle[c].session
      BY <1>5 DEF CallKept, SameCall
    <3>5. \A c \in Creators : c # k /\ handle'[c].session = session =>
            handle'[c].pc \notin Preparing /\ (handle'[c].pc = "failed" => ~Tried(c)')
      BY <1>1, <3>3, <3>4 DEF Reusable, Preparing, Tried
    <3>6. CASE i = k
      BY <1>1, <3>2, <3>3, <3>5, <3>6
    <3>7. CASE j = k
      BY <1>1, <3>2, <3>3, <3>5, <3>7
    <3>8. CASE i # k /\ j # k
      <4>1. Apart(i, j) /\ Siblings(i, j)
        BY <3>1, <3>4, <3>8 DEF Once, Single, Siblings, Began
      <4>2. QED BY <3>3, <3>4, <3>8, <4>1 DEF Apart
    <3>9. QED BY <3>6, <3>7, <3>8
  <2>2. QED BY <2>1 DEF Single
<1>11. Requests'
  <2>1. ASSUME NEW j \in Creators PROVE LessRequest(j)
    <3>1. submission'.unadmitted = j => submission.unadmitted = j
      BY <1>3, ProjectFacts DEF ClearedFirst, Retired, Types
    <3>2. QED BY <1>1, <1>5, <3>1 DEF LessRequest, Again, WorldKept
  <2>2. ASSUME NEW j \in Creators PROVE StillSubmitted(j)
    <3>1. CASE Handled = session /\ submission' = submission
      BY <1>5, <3>1 DEF StillSubmitted, Handled
    <3>2. CASE Retired
      <4>1. Tried(j) => handle[j].session # session
        BY <3>2, TriedFacts DEF Retired
      <4>2. QED BY <1>5, <3>2, <4>1 DEF StillSubmitted, Retired
    <3>3. QED BY <1>3, <3>1, <3>2 DEF ClearedFirst
  <2>3. SafelyCarried
    <3>1. handle'[Recovered].cause # "lost"
      BY <1>2, <1>4 DEF EndedWith, SameFate, Fails, Once, Requests
    <3>2. QED BY <1>1, <1>5, <3>1 DEF SafelyCarried, Carries, Once, Requests
  <2>4. QED BY <1>6, <1>7, <2>1, <2>2, <2>3, RequestsKept DEF Once
<1>12. \A j \in Creators : FreshKept(j)
  <2>1. ASSUME NEW j \in Creators PROVE FreshKept(j)
    <3>1. CASE Retired
      BY <3>1, ProjectFacts DEF Retired, FreshKept, Types
    <3>2. CASE submission' = submission
      BY <1>2, <1>5, <3>2 DEF FreshKept, Fresh, CallKept, SameCall
    <3>3. QED BY <1>3, <3>1, <3>2 DEF ClearedFirst
  <2>2. QED BY <2>1
<1>13. Receipt'
  <2>1. CASE Retired
    BY <1>1, <2>1, ReceiptRetired DEF Once, Accounts, WorldKept
  <2>2. CASE submission' = submission
    <3>1. ReceiptGoesOn
      BY <1>1, <1>5, <2>2 DEF ReceiptGoesOn, Handled, CallKept, SameCall
    <3>2. QED BY <1>1, <1>7, <1>12, <3>1, ReceiptKept DEF Once, Types, WorldKept
  <2>3. QED BY <1>3, <2>1, <2>2 DEF ClearedFirst
<1>14. Waits'
  <2>1. \A j \in Creators : WaitKept(j)
    BY <1>1 DEF WaitKept
  <2>2. WaitsGoOn \/ Retired
    BY <1>3 DEF ClearedFirst, WaitsGoOn, Handled
  <2>3. QED BY <2>1, <2>2, WaitsKept DEF Once
<1>15. Registries' /\ RecoveredIsKnown'
  <2>1. Registries'
    BY <1>6, RegistriesKept DEF Once, WorldStands
  <2>2. RecoveredIsKnown'
    <3>1. CASE Retired
      BY <3>1, ProjectFacts DEF Retired, RecoveredIsKnown, Types
    <3>2. CASE submission' = submission /\ tracked' = tracked
      BY <1>1, <3>2 DEF Once, RecoveredIsKnown, Known, WorldKept, Handled
    <3>3. QED BY <1>3, <3>1, <3>2 DEF ClearedFirst
  <2>3. QED BY <2>1, <2>2
<1>16. Answers'
  <2>1. StirredOn
    <3>1. StirsOn \/ Retired
      BY <1>1, <1>3 DEF ClearedFirst, StirsOn, Carries
    <3>2. QED BY <1>5, <3>1, StirredStays
  <2>2. \A p \in Passes : JudgesOn(p)
    BY <1>1, <1>12, FreshOnesKept DEF Once, Answers, WorldKept
  <2>3. ASSUME NEW j \in Creators, handle[j].pc = "created", handle[j].session = session
        PROVE  QuietKept(j)
    BY <1>1, <2>1, <2>3 DEF QuietKept, StirredOn, WorldKept
  <2>4. QED BY <1>1, <1>6, <2>2, <2>3, CreateAnswers
<1>17. QED BY <1>7, <1>9, <1>10, <1>11, <1>13, <1>14, <1>15, <1>16 DEF Once

LEMMA TrackKeepsOnce ==
  ASSUME Types, Accounts, Once, NEW k \in Creators, Track(k), resent' = resent
  PROVE  Once'
<1>1. /\ Types' /\ WorldKept /\ UNCHANGED <<frames, task>> /\ SamePasses
      /\ handle[k].pc = "prepared" /\ handle[k].session = session
      /\ tracked = None /\ tracked' = k
      /\ handle'[k].pc = "sending" /\ handle'[k].session = session
      /\ handle'[k].status = "open" /\ handle'[k].cause = handle[k].cause
      /\ Others(k)
      /\ submission'.unadmitted = k
      /\ submission'.awaiting = submission.awaiting
      /\ submission'.submitted = submission.submitted
      /\ submission'.sentOn = submission.sentOn
      /\ submission'.handledSession = Handled
  BY TrackEffects
<1>2. /\ k \in Projects /\ k # None /\ k # Recovered /\ ~Tried(k) /\ Began(k)
      /\ \A j \in Creators : j \in Projects /\ j # None
      /\ Recovered \in Projects
  BY <1>1, ProjectFacts DEF Once, Creations, Creation, Types, Began
<1>3. Handled = session /\ Handled # NoSession /\ session \in Nat
  <2>1. handle[k].session <= Handled /\ Handled # NoSession /\ Handled <= session
    BY <1>2 DEF Accounts, Beginnings, Bounds
  <2>2. QED BY <1>1, <2>1, SessionFacts DEF Types, Submissions, Handled
<1>4. ASSUME NEW j \in Creators, Tried(j) PROVE handle[j].session # session
  <2>1. SUFFICES ASSUME handle[j].session = session PROVE FALSE
    OBVIOUS
  <2>2. j # k /\ Began(j)
    BY <1>2, <1>4, TriedFacts
  <2>3. Apart(j, k) /\ Siblings(j, k)
    BY <1>1, <1>2, <2>1, <2>2 DEF Once, Single, Siblings
  <2>4. handle[j].pc \notin Preparing /\ handle[j].pc # "failed"
    BY <1>1, <1>4, <2>3 DEF Apart, Preparing
  <2>5. handle[j].pc # "idle" /\ Creation(j)
    BY <1>4 DEF Once, Creations, Creation
  <2>6. handle[j].pc = "created"
    BY <1>2, <2>4, <2>5 DEF Types, Handles, Preparing
  <2>7. tracked = j
    BY <1>3, <2>1, <2>5, <2>6 DEF Creation, Sent
  <2>8. QED BY <1>1, <1>2, <2>7
<1>5. /\ ~Refused
      /\ ~(submission.sentOn.generation > 0 /\ submission.sentOn.session = Handled)
      /\ \A j \in Creators : ~(task[j].pc # "none" /\ task[j].session = session)
  <2>1. ~Refused
    BY <1>4 DEF Once, Told
  <2>2. \A j \in Creators : handle[j].pc = "created" => Tried(j)
    BY DEF Once, Creations, Creation, Sent
  <2>3. \A j \in Creators : ~(Kin(j) /\ handle[j].pc = "created")
    BY <1>3, <1>4, <2>2 DEF Kin
  <2>4. \A j \in Creators : ~(task[j].pc # "none" /\ task[j].session = session)
    BY <1>2, <1>4, TaskFacts
  <2>5. QED BY <2>1, <2>3, <2>4 DEF Once, Receipt
<1>6. Request(k) /\ Untouched(k) /\ admitted[k] = 0 /\ resent[k] = 0 /\ NoFrame(k)
      /\ task[k].pc = "none" /\ \A p \in Passes : ~Carries(p, k)
  BY <1>2 DEF Once, Requests, Request, Untouched
<1>7. ASSUME NEW j \in Creators, j # k PROVE handle'[j] = handle[j]
  BY <1>2, <1>7, <1>1 DEF Others
<1>8. /\ WorldStands /\ inbox' = inbox /\ session' = session /\ TriedStay /\ CreatedStay
      /\ \A j \in Creators : LessPasses(j)
  <2>1. WorldStands /\ inbox' = inbox /\ session' = session
    BY <1>1 DEF WorldKept, WorldStands
  <2>2. TriedStay /\ CreatedStay
    BY <1>1, <1>2, <1>7 DEF TriedStay, CreatedStay, Tried
  <2>3. QED BY <1>1, <2>1, <2>2, PassesLike
<1>9. Told' /\ LessRefused /\ ~Refused'
  BY <1>5, <1>8, ToldKept DEF Once, LessRefused, TriedStay
<1>10. Creations'
  <2>1. Creation(k)'
    BY <1>1 DEF Creation, Sent, Tried
  <2>2. ASSUME NEW j \in Creators, j # k PROVE Creation(j)'
    <3>1. Creation(j) /\ handle'[j] = handle[j] /\ tracked' # j
      BY <1>1, <1>7, <2>2 DEF Once, Creations
    <3>2. Tried(j) => handle[j].session # session
      BY <1>4
    <3>3. QED BY <1>1, <1>3, <3>1, <3>2 DEF Creation, Sent, Tried, Handled
  <2>3. QED BY <2>1, <2>2 DEF Creations
<1>11. Single'
  <2>1. ASSUME NEW i \in Creators, NEW j \in Creators PROVE Apart(i, j)'
    <3>1. SUFFICES ASSUME Siblings(i, j)'
                   PROVE  /\ ~(handle'[i].pc \in Preparing /\ handle'[j].pc \in Preparing)
                          /\ handle'[i].pc = "failed" /\ Tried(i)' => handle'[j].pc \notin Preparing
                          /\ ~(Tried(i)' /\ Tried(j)')
      BY DEF Apart
    <3>2. i # j /\ handle'[i].session = handle'[j].session
      BY <3>1 DEF Siblings
    <3>3. Siblings(i, j) /\ Siblings(j, i)
      BY <1>1, <1>2, <1>7, <3>1 DEF Siblings, Began
    <3>4. Apart(i, j) /\ Apart(j, i)
      BY DEF Once, Single
    <3>5. CASE i = k
      <4>1. handle'[j] = handle[j] /\ handle[j].session = session
        BY <1>1, <1>7, <3>2, <3>5
      <4>2. ~Tried(j)
        BY <1>4, <4>1
      <4>3. handle[j].pc \notin Preparing
        BY <1>1, <3>3, <3>4, <3>5 DEF Apart, Preparing
      <4>4. QED BY <1>1, <3>5, <4>1, <4>2, <4>3 DEF Tried
    <3>6. CASE j = k
      <4>1. handle'[i] = handle[i] /\ handle[i].session = session
        BY <1>1, <1>7, <3>2, <3>6
      <4>2. ~Tried(i)
        BY <1>4, <4>1
      <4>3. handle[i].pc \notin Preparing
        BY <1>1, <3>3, <3>4, <3>6 DEF Apart, Preparing
      <4>4. QED BY <1>1, <3>6, <4>1, <4>2, <4>3 DEF Tried
    <3>7. CASE i # k /\ j # k
      BY <1>7, <3>3, <3>4, <3>7 DEF Apart, Tried
    <3>8. QED BY <3>5, <3>6, <3>7
  <2>2. QED BY <2>1 DEF Single
<1>12. Request(k)'
  <2>1. Tried(k)' /\ NoFrame(k)' /\ admitted'[k] = 0 /\ resent'[k] = 0 /\ task'[k].pc = "none"
        /\ \A p \in Passes : ~Carries(p, k)' /\ ~Resends(p, k)'
    <3>1. \A p \in Passes : ~Carries(p, k)'
      BY <1>1, <1>6 DEF SamePasses, SamePass, Moves, Carries
    <3>2. QED BY <1>1, <1>6, <1>8, <3>1 DEF WorldStands, Tried, NoFrame, Carries, Resends
  <2>2. OneFrame(k)'
    BY <2>1 DEF NoFrame, OneFrame
  <2>3. Untouched(k)' /\ OneRequest(k)'
    BY <1>9, <2>1, <2>2 DEF Untouched, OneRequest, Again
  <2>4. ResentOnce(k)'
    BY <2>1 DEF ResentOnce
  <2>5. handle'[k].cause # "lost"
    BY <1>1, <1>2, <1>6 DEF Request, LostForGood
  <2>6. OwnRequest(k)' /\ LostForGood(k)'
    BY <2>1, <2>5 DEF OwnRequest, LostForGood
  <2>7. QED BY <2>3, <2>4, <2>6 DEF Request
<1>13. Requests'
  <2>1. ASSUME NEW j \in Creators, j # k PROVE LessRequest(j) /\ LessPasses(j) /\ StillSubmitted(j)
    BY <1>1, <1>7, <1>8, <2>1 DEF LessRequest, TriedKept, StillSubmitted, Again, WorldStands
  <2>2. \A j \in Creators : Request(j)'
    BY <1>9, <1>12, <2>1, OthersKept
  <2>3. SafelyCarried
    <3>1. handle'[Recovered] = handle[Recovered]
      BY <1>1, <1>2 DEF Others
    <3>2. \A p \in Passes : \A j \in Creators :
            pass'[p].pc \in {"resending", "resent"} /\ pass'[p].request = j => Carries(p, j)
      BY <1>8 DEF LessPasses, LessPass
    <3>3. QED BY <1>1, <1>8, <3>1, <3>2 DEF SafelyCarried, CreatedStay, Once, Requests
  <2>4. QED BY <2>2, <2>3, CarriedKept DEF Once, Requests
<1>14. Receipt'
  <2>1. ASSUME NEW j \in Creators PROVE FreshReceipt(j)'
    <3>1. CASE j = k
      <4>1. NoFrame(k)'
        BY <1>1, <1>6 DEF NoFrame
      <4>2. QED BY <1>1, <1>5, <1>9, <3>1, <4>1 DEF FreshReceipt, NoFrame, Handled
    <3>2. CASE j # k
      BY <1>1, <3>2 DEF FreshReceipt, Fresh
    <3>3. QED BY <3>1, <3>2
  <2>2. QED BY <1>1, <1>5, <2>1 DEF Once, Receipt, WorldKept, Handled
<1>15. Waits'
  BY <1>1, <1>3, <1>5 DEF Waits, Wait, Handled
<1>16. Registries' /\ RecoveredIsKnown'
  <2>1. Registries'
    BY <1>8, RegistriesKept DEF Once, WorldStands
  <2>2. QED BY <1>1, <1>2, <2>1 DEF RecoveredIsKnown
<1>17. Answers'
  <2>1. \A p \in Passes : JudgesOn(p)
    <3>1. FreshOnes
      <4>1. admitted'[k] = 0
        BY <1>6, <1>8 DEF WorldStands
      <4>2. QED BY <1>1, <4>1 DEF FreshOnes
    <3>2. QED BY <1>8, <3>1 DEF JudgesOn
  <2>2. ASSUME NEW j \in Creators, handle[j].pc = "created", handle[j].session = session
        PROVE  QuietKept(j)
    <3>1. Tried(j)
      BY <2>2 DEF Once, Creations, Creation, Sent
    <3>2. QED BY <1>4, <2>2, <3>1
  <2>3. QED BY <1>1, <1>8, <2>1, <2>2, CreateAnswers
<1>18. QED BY <1>9, <1>10, <1>11, <1>13, <1>14, <1>15, <1>16, <1>17 DEF Once

LEMMA WriteRequestKeepsOnce ==
  ASSUME Types, Accounts, Once, NEW k \in Creators, WriteRequest(k), resent' = resent
  PROVE  Once'
<1>1. /\ Types' /\ WorldKept /\ UNCHANGED <<tracked, submission, age, task, pass>>
      /\ Wider(k) /\ connected
      /\ handle[k].pc = "sending" /\ handle[k].session = session
      /\ handle'[k].pc = "wrote" /\ handle'[k].session = session
      /\ handle'[k].generation = generation /\ SameFate(handle'[k], handle[k])
      /\ Others(k)
  BY WriteRequestEffects
<1>2. /\ k \in Projects /\ k # Recovered /\ \A j \in Creators : j \in Projects
      /\ Recovered \in Projects
  BY ProjectFacts DEF Types
<1>3. Tried(k) /\ Request(k) /\ Coming(k) /\ Handled = session /\ NoFrame(k)
  <2>1. Tried(k) /\ Request(k) /\ Coming(k)
    BY <1>1 DEF Once, Creations, Creation, Sent, Requests, Coming
  <2>2. QED BY <1>1, <2>1, TriedFacts DEF Request, OneRequest
<1>4. ASSUME NEW j \in Creators, j # k PROVE handle'[j] = handle[j]
  BY <1>1, <1>2, <1>4 DEF Others
<1>5. \A j \in Creators : /\ handle'[j].session = handle[j].session
                          /\ SameFate(handle'[j], handle[j])
  BY <1>1, <1>4 DEF SameFate
<1>6. /\ inbox' = inbox /\ session' = session /\ SamePasses /\ TriedStay /\ CreatedStay
      /\ \A j \in Creators : LessPasses(j)
  <2>1. inbox' = inbox /\ session' = session /\ SamePasses
    BY <1>1, SamePassFacts DEF WorldKept
  <2>2. TriedStay /\ CreatedStay
    BY <1>1, <1>4, <1>5 DEF TriedStay, CreatedStay, Tried, SameFate
  <2>3. QED BY <2>1, <2>2, PassesLike
<1>7. Told' /\ LessRefused
  BY <1>6, ToldKept DEF Once, LessRefused, TriedStay
<1>8. Creations' /\ Single'
  <2>1. ASSUME NEW j \in Creators PROVE Creation(j)'
    <3>1. Creation(j) /\ Creation(k)
      BY DEF Once, Creations
    <3>2. CASE j = k
      <4>1. Tried(k)' /\ tracked = k
        BY <1>1, <1>3, <3>1 DEF Creation, Sent, Tried, SameFate
      <4>2. QED BY <1>1, <3>2, <4>1 DEF Creation, Sent
    <3>3. CASE j # k
      BY <1>1, <1>4, <3>1, <3>3 DEF Creation, Sent, Tried, Handled
    <3>4. QED BY <3>2, <3>3
  <2>2. ASSUME NEW i \in Creators, NEW j \in Creators PROVE Apart(i, j)'
    <3>1. Apart(i, j)
      BY DEF Once, Single
    <3>2. \A c \in Creators : /\ handle'[c].pc \in Preparing <=> handle[c].pc \in Preparing
                              /\ handle'[c].pc = "failed" <=> handle[c].pc = "failed"
                              /\ Began(c)' <=> Began(c)
                              /\ Tried(c)' <=> Tried(c)
      BY <1>1, <1>4, <1>5 DEF Preparing, Began, Tried, SameFate
    <3>3. Siblings(i, j)' => Siblings(i, j)
      BY <1>5, <3>2 DEF Siblings
    <3>4. QED BY <3>1, <3>2, <3>3 DEF Apart
  <2>3. QED BY <2>1, <2>2 DEF Creations, Single
<1>9. Request(k)'
  <2>1. ~Coming(k)'
    <3>1. task[k].pc = "none" /\ \A p \in Passes : ~Resends(p, k)
      BY <1>1, <1>3 DEF Request, OneRequest
    <3>2. QED BY <1>1, <3>1 DEF Coming, Again, Resends
  <2>2. UNCHANGED <<admitted, inbox, session, submission>>
    BY <1>1 DEF WorldKept
  <2>3. resent'[k] <= 1
    BY <1>3 DEF Request, ResentOnce
  <2>4. resent'[k] > 0 \/ (\E p \in Passes : Carries(p, k)') =>
          resent[k] > 0 \/ \E p \in Passes : Carries(p, k)
    BY <1>1 DEF Carries
  <2>5. task'[k].pc # "none" => task[k].pc # "none" /\ task'[k].request = task[k].request
    BY <1>1
  <2>6. QED BY <1>1, <1>3, <1>5, <2>1, <2>2, <2>3, <2>4, <2>5, WrittenKept
<1>10. Requests'
  <2>1. ASSUME NEW j \in Creators, j # k PROVE LessRequest(j) /\ LessPasses(j) /\ StillSubmitted(j)
    <3>1. \A f \in frames' : f.request = j => f \in frames
      BY <1>1, <2>1, WiderFacts
    <3>2. QED BY <1>1, <1>4, <1>6, <2>1, <3>1
              DEF LessRequest, TriedKept, StillSubmitted, Again, WorldKept, Handled
  <2>2. \A j \in Creators : Request(j)'
    BY <1>7, <1>9, <2>1, OthersKept
  <2>3. SafelyCarried
    <3>1. handle'[Recovered] = handle[Recovered]
      BY <1>1, <1>2 DEF Others
    <3>2. \A p \in Passes : \A j \in Creators :
            pass'[p].pc \in {"resending", "resent"} /\ pass'[p].request = j => Carries(p, j)
      BY <1>6 DEF LessPasses, LessPass
    <3>3. QED BY <1>1, <1>6, <3>1, <3>2 DEF SafelyCarried, CreatedStay, Once, Requests
  <2>4. QED BY <2>2, <2>3, CarriedKept DEF Once, Requests
<1>11. ASSUME NEW j \in Creators, j # k PROVE FreshKept(j)
  BY <1>1, <1>4, <1>11 DEF FreshKept, Fresh
<1>12. WrittenOn(k, generation)'
  BY <1>1 DEF WrittenOn, WorldKept
<1>13. Receipt'
  <2>1. ReceiptGoesOn
    BY <1>1, <1>6, <1>5 DEF ReceiptGoesOn, CreatedStay, Handled
  <2>2. FreshReceipt(k)'
    <3>1. SUFFICES ASSUME Fresh(k)
                   PROVE  /\ submission.sentOn.generation > 0 /\ submission.sentOn.session = Handled =>
                               handle'[k].pc = "created"
                               /\ handle'[k].generation = submission.sentOn.generation
                          /\ \A f \in frames' : f.request = k => WrittenOn(k, f.generation)'
      BY <1>1, <1>12 DEF FreshReceipt, Fresh, Handled
    <3>2. ~(submission.sentOn.generation > 0 /\ submission.sentOn.session = Handled)
      BY <1>1, <3>1 DEF Once, Receipt, FreshReceipt
    <3>3. ASSUME NEW f \in frames', f.request = k PROVE WrittenOn(k, f.generation)'
      <4>1. f.generation = generation
        BY <1>1, <1>3, <3>3, WiderFacts DEF NoFrame
      <4>2. QED BY <1>1, <4>1 DEF WrittenOn
    <3>4. QED BY <3>2, <3>3
  <2>3. ASSUME NEW j \in Creators, j # k PROVE FreshReceipt(j)'
    <3>1. \A f \in frames' : f.request = j => f \in frames
      BY <1>1, <2>3, WiderFacts
    <3>2. generation' = generation
      BY <1>1 DEF WorldKept
    <3>3. QED BY <1>7, <1>11, <2>1, <2>3, <3>1, <3>2, FreshReceiptKept DEF Once, Receipt, ReceiptGoesOn
  <2>4. \A f \in frames' : f.generation = generation'
    BY <1>1, WiderFacts DEF Once, Receipt, WorldKept
  <2>5. QED BY <2>1, <2>2, <2>3, <2>4, ReceiptStands DEF Once, Types, Receipt, Handled
<1>14. Waits'
  BY <1>1 DEF Once, Waits, Wait, Handled
<1>15. Registries' /\ RecoveredIsKnown'
  <2>1. Registries'
    BY <1>1, <1>6, RegistriesKept DEF Once, WorldKept
  <2>2. QED BY <1>1, <2>1 DEF Once, RecoveredIsKnown, Known, WorldKept, Handled
<1>16. Answers'
  <2>1. ASSUME NEW p \in Passes PROVE JudgesOn(p)
    <3>1. SUFFICES ASSUME pass[p].pc = "judge", pass[p].session = session PROVE FreshOnes
      BY <1>6 DEF JudgesOn
    <3>2. \A j \in Creators :
            Fresh(j) /\ handle[j].session = session /\ admitted[j] > 0 => WrittenOn(j, generation)
      BY <3>1 DEF Once, Answers, Looked
    <3>3. admitted' = admitted /\ generation' = generation /\ submission' = submission
      BY <1>1 DEF WorldKept
    <3>4. ASSUME NEW j \in Creators, Fresh(j), handle'[j].session = session, admitted[j] > 0
          PROVE  handle'[j].pc \in {"wrote", "created"} /\ handle'[j].generation = generation
      BY <1>1, <1>4, <3>2, <3>4 DEF WrittenOn
    <3>5. QED BY <1>6, <3>3, <3>4 DEF FreshOnes, Fresh
  <2>2. ASSUME NEW j \in Creators, handle[j].pc = "created", handle[j].session = session
        PROVE  QuietKept(j)
    <3>1. Tried(j)
      BY <2>2 DEF Once, Creations, Creation, Sent
    <3>2. j = k
      BY <1>1, <1>3, <2>2, <3>1, OnlyOne DEF Once, Accounts
    <3>3. QED BY <1>1, <2>2, <3>2
  <2>3. QED BY <1>1, <1>6, <2>1, <2>2, CreateAnswers
<1>17. QED BY <1>7, <1>8, <1>10, <1>13, <1>14, <1>15, <1>16 DEF Once

LEMMA ConfirmKeepsOnce ==
  ASSUME Types, Accounts, Once, NEW k \in Creators, Confirm(k), resent' = resent
  PROVE  Once'
<1>1. /\ Types' /\ WorldKept /\ UNCHANGED <<frames, tracked, age, task, pass>>
      /\ handle[k].pc = "wrote" /\ handle[k].session = session
      /\ handle'[k].pc = "created" /\ handle'[k].session = session
      /\ handle'[k].generation = handle[k].generation /\ SameFate(handle'[k], handle[k])
      /\ Others(k)
      /\ submission'.unadmitted = submission.unadmitted
      /\ submission'.awaiting = submission.awaiting
      /\ submission'.submitted = submission.submitted
      /\ submission'.handledSession = Handled
      /\ \/ submission.unadmitted = None /\ submission'.sentOn = submission.sentOn
         \/ /\ submission.unadmitted # None
            /\ submission'.sentOn = [generation |-> handle[k].generation, session |-> session]
  BY ConfirmEffects
<1>2. /\ k \in Projects /\ k # Recovered /\ k # None
      /\ \A j \in Creators : j \in Projects /\ j # None
      /\ Recovered \in Projects
  BY ProjectFacts DEF Types
<1>3. Tried(k) /\ Handled = session /\ Handled # NoSession /\ tracked = k
  <2>1. Tried(k) /\ Creation(k) /\ Sent(k)
    BY <1>1 DEF Once, Creations, Creation, Sent
  <2>2. QED BY <1>1, <2>1, TriedFacts DEF Creation
<1>4. ASSUME NEW j \in Creators, j # k PROVE handle'[j] = handle[j]
  BY <1>1, <1>2, <1>4 DEF Others
<1>5. \A j \in Creators : /\ handle'[j].session = handle[j].session
                          /\ SameFate(handle'[j], handle[j])
                          /\ handle'[j].generation = handle[j].generation
  BY <1>1, <1>4 DEF SameFate
<1>6. /\ WorldStands /\ inbox' = inbox /\ session' = session /\ SamePasses /\ TriedStay
      /\ CreatedStay /\ \A j \in Creators : LessPasses(j)
  <2>1. WorldStands /\ inbox' = inbox /\ session' = session /\ SamePasses
    BY <1>1, SamePassFacts DEF WorldKept, WorldStands
  <2>2. TriedStay /\ CreatedStay
    BY <1>1, <1>4, <1>5 DEF TriedStay, CreatedStay, Tried, SameFate
  <2>3. QED BY <2>1, <2>2, PassesLike
<1>7. Told' /\ LessRefused
  BY <1>6, ToldKept DEF Once, LessRefused, TriedStay
<1>8. Creations' /\ Single'
  <2>1. ASSUME NEW j \in Creators PROVE Creation(j)'
    <3>1. Creation(j)
      BY DEF Once, Creations
    <3>2. CASE j = k
      <4>1. Tried(k)'
        BY <1>1, <1>3 DEF Tried, SameFate
      <4>2. QED BY <1>1, <1>3, <3>2, <4>1 DEF Creation, Sent
    <3>3. CASE j # k
      BY <1>1, <1>4, <3>1, <3>3 DEF Creation, Sent, Tried, Handled
    <3>4. QED BY <3>2, <3>3
  <2>2. ASSUME NEW i \in Creators, NEW j \in Creators PROVE Apart(i, j)'
    <3>1. Apart(i, j)
      BY DEF Once, Single
    <3>2. \A c \in Creators : /\ handle'[c].pc \in Preparing => handle[c].pc \in Preparing
                              /\ handle'[c].pc = "failed" <=> handle[c].pc = "failed"
                              /\ Began(c)' <=> Began(c)
                              /\ Tried(c)' <=> Tried(c)
      BY <1>1, <1>4, <1>5 DEF Preparing, Began, Tried, SameFate
    <3>3. Siblings(i, j)' => Siblings(i, j)
      BY <1>5, <3>2 DEF Siblings
    <3>4. QED BY <3>1, <3>2, <3>3 DEF Apart
  <2>3. QED BY <2>1, <2>2 DEF Creations, Single
<1>9. Requests'
  <2>1. ASSUME NEW j \in Creators PROVE LessRequest(j) /\ StillSubmitted(j)
    <3>1. handle'[j].pc = "sending" => handle[j].pc = "sending"
      BY <1>1, <1>4
    <3>2. TriedKept(j) /\ handle'[j].session = handle[j].session
          /\ handle'[j].status = handle[j].status /\ handle'[j].cause = handle[j].cause
      BY <1>5 DEF TriedKept, SameFate
    <3>3. QED BY <1>1, <1>6, <3>1, <3>2 DEF LessRequest, StillSubmitted, Again, WorldStands
  <2>2. SafelyCarried
    <3>1. handle'[Recovered] = handle[Recovered]
      BY <1>1, <1>2 DEF Others
    <3>2. \A p \in Passes : \A j \in Creators :
            pass'[p].pc \in {"resending", "resent"} /\ pass'[p].request = j => Carries(p, j)
      BY <1>6 DEF LessPasses, LessPass
    <3>3. QED BY <1>1, <1>6, <3>1, <3>2 DEF SafelyCarried, CreatedStay, Once, Requests
  <2>3. QED BY <1>6, <1>7, <2>1, <2>2, RequestsKept DEF Once
<1>10. ASSUME NEW j \in Creators, Fresh(j)' PROVE Fresh(j) /\ j = k /\ submission.unadmitted # None
  <2>1. Fresh(j) /\ submission.unadmitted = j
    BY <1>1, <1>10 DEF Fresh
  <2>2. QED BY <1>2, <1>3, <2>1, UnadmittedFacts
<1>11. Receipt'
  <2>1. ASSUME NEW j \in Creators PROVE FreshReceipt(j)'
    <3>1. SUFFICES ASSUME Fresh(j)' PROVE FreshReceipt(j)'
      BY DEF FreshReceipt
    <3>2. Fresh(k) /\ j = k /\ FreshReceipt(k)
      BY <1>10, <3>1 DEF Once, Receipt
    <3>3. submission'.sentOn.generation = handle'[k].generation
      <4>1. submission'.sentOn = [generation |-> handle[k].generation, session |-> session]
        BY <1>1, <1>10, <3>1
      <4>2. QED BY <1>1, <4>1
    <3>4. \A g : WrittenOn(k, g) => WrittenOn(k, g)'
      BY <1>1 DEF WrittenOn
    <3>5. \A f \in frames' : f.request = k => WrittenOn(k, f.generation)'
      BY <1>1, <3>2, <3>4 DEF FreshReceipt
    <3>6. Refused' /\ handle'[k].session = session' => WrittenOn(k, generation)'
      <4>1. Refused' /\ handle'[k].session = session' => WrittenOn(k, generation)
        BY <1>1, <1>6, <1>7, <3>2 DEF FreshReceipt, LessRefused
      <4>2. QED BY <1>1, <1>6, <4>1 DEF WrittenOn, WorldStands
    <3>7. QED BY <1>1, <3>2, <3>3, <3>5, <3>6 DEF FreshReceipt
  <2>2. Kin(k)' /\ handle'[k].pc = "created"
    BY <1>1, <1>3 DEF Kin, Began, Handled
  <2>3. submission'.sentOn.generation > 0 =>
          submission'.handledSession # NoSession /\ submission'.sentOn.session <= submission'.handledSession
    <3>1. CASE submission'.sentOn = submission.sentOn
      BY <1>1, <3>1 DEF Once, Receipt
    <3>2. CASE submission'.sentOn = [generation |-> handle[k].generation, session |-> session]
      <4>1. submission'.sentOn.session = session /\ session \in Nat
        BY <3>2, SessionFacts DEF Types
      <4>2. QED BY <1>1, <1>3, <4>1
    <3>3. QED BY <1>1, <3>1, <3>2
  <2>4. QED BY <1>1, <1>6, <2>1, <2>2, <2>3 DEF Once, Receipt, WorldStands, Handled
<1>12. Waits'
  BY <1>1 DEF Once, Waits, Wait, Handled
<1>13. Registries' /\ RecoveredIsKnown'
  <2>1. Registries'
    BY <1>6, RegistriesKept DEF Once, WorldStands
  <2>2. QED BY <1>1, <2>1 DEF Once, RecoveredIsKnown, Known, WorldKept, Handled
<1>14. Answers'
  <2>1. ASSUME NEW p \in Passes PROVE JudgesOn(p)
    <3>1. SUFFICES ASSUME pass[p].pc = "judge", pass[p].session = session PROVE FreshOnes
      BY <1>6 DEF JudgesOn
    <3>2. \A j \in Creators :
            Fresh(j) /\ handle[j].session = session /\ admitted[j] > 0 => WrittenOn(j, generation)
      BY <3>1 DEF Once, Answers, Looked
    <3>3. ASSUME NEW j \in Creators, Fresh(j), handle'[j].session = session, admitted[j] > 0
          PROVE  handle'[j].pc \in {"wrote", "created"} /\ handle'[j].generation = generation
      BY <1>1, <1>4, <1>5, <3>2, <3>3 DEF WrittenOn
    <3>4. QED BY <1>1, <1>6, <3>3 DEF FreshOnes, Fresh, WorldStands
  <2>2. ASSUME NEW j \in Creators, handle[j].pc = "created", handle[j].session = session
        PROVE  QuietKept(j)
    <3>1. Tried(j)
      BY <2>2 DEF Once, Creations, Creation, Sent
    <3>2. j = k
      BY <1>1, <1>3, <2>2, <3>1, OnlyOne DEF Once, Accounts
    <3>3. QED BY <1>1, <2>2, <3>2
  <2>3. QED BY <1>1, <1>6, <2>1, <2>2, CreateAnswers
<1>15. QED BY <1>7, <1>8, <1>9, <1>11, <1>12, <1>13, <1>14 DEF Once

LEMMA SendFailsKeepsOnce ==
  ASSUME Types, Accounts, Once, NEW k \in Creators, SendFails(k), resent' = resent
  PROVE  Once'
<1>1. /\ Types' /\ WorldKept /\ UNCHANGED <<frames, age, task, pass>>
      /\ handle[k].pc \in {"sending", "wrote"} /\ handle'[k].pc = "failed"
      /\ handle'[k].session = handle[k].session
      /\ \/ SameFate(handle'[k], handle[k])
         \/ handle[k].session # session /\ Fails(handle'[k], handle[k], "session")
      /\ Others(k)
      /\ \/ tracked = k /\ tracked' = None /\ submission'.unadmitted = None
         \/ tracked # k /\ tracked' = tracked /\ submission' = submission
      /\ submission'.awaiting = submission.awaiting
      /\ submission'.submitted = submission.submitted
      /\ submission'.sentOn = submission.sentOn
      /\ submission'.handledSession = Handled
  BY SendFailsEffects
<1>2. /\ k \in Projects /\ k # Recovered /\ k # None /\ None # Recovered
      /\ \A j \in Creators : j \in Projects /\ j # None
      /\ Recovered \in Projects
  BY ProjectFacts DEF Types
<1>3. Tried(k) /\ Creation(k) /\ Sent(k)
  BY <1>1 DEF Once, Creations, Creation, Sent
<1>4. ASSUME NEW j \in Creators, j # k PROVE handle'[j] = handle[j]
  BY <1>1, <1>2, <1>4 DEF Others
<1>5. \A j \in Creators : /\ handle'[j].session = handle[j].session
                          /\ TriedKept(j)
                          /\ handle'[j].status = "open" => handle[j].status = "open"
                          /\ handle'[j].cause = "lost" => handle[j].cause = "lost"
                          /\ handle'[j].pc # "failed" => j # k /\ handle'[j] = handle[j]
  BY <1>1, <1>4 DEF SameFate, Fails, TriedKept
<1>6. /\ WorldStands /\ inbox' = inbox /\ session' = session /\ SamePasses /\ TriedStay
      /\ CreatedStay /\ \A j \in Creators : LessPasses(j)
  <2>1. WorldStands /\ inbox' = inbox /\ session' = session /\ SamePasses
    BY <1>1, SamePassFacts DEF WorldKept, WorldStands
  <2>2. TriedStay /\ CreatedStay
    BY <1>1, <1>4, <1>5 DEF TriedStay, CreatedStay, Tried, TriedKept
  <2>3. QED BY <2>1, <2>2, PassesLike
<1>7. Told' /\ LessRefused
  BY <1>6, ToldKept DEF Once, LessRefused, TriedStay
<1>8. Creations'
  <2>1. ASSUME NEW j \in Creators PROVE Creation(j)'
    <3>1. Creation(j)
      BY DEF Once, Creations
    <3>2. CASE j = k
      BY <1>1, <1>2, <3>2 DEF Creation, Sent
    <3>3. CASE j # k
      <4>1. handle'[j] = handle[j] /\ (tracked' = j <=> tracked = j)
        BY <1>1, <1>2, <1>4, <3>3
      <4>2. QED BY <1>1, <3>1, <4>1 DEF Creation, Sent, Tried, Handled
    <3>4. QED BY <3>2, <3>3
  <2>2. QED BY <2>1 DEF Creations
<1>9. Single'
  <2>1. ASSUME NEW i \in Creators, NEW j \in Creators PROVE Apart(i, j)'
    <3>1. Apart(i, j) /\ Apart(j, i)
      BY DEF Once, Single
    <3>2. \A c \in Creators : /\ handle'[c].pc \in Preparing => handle[c].pc \in Preparing
                              /\ handle'[c].pc = "failed" => handle[c].pc = "failed" \/ c = k
                              /\ Began(c)' <=> Began(c)
                              /\ Tried(c)' <=> Tried(c)
      BY <1>1, <1>4, <1>5 DEF Preparing, Began, Tried, TriedKept
    <3>3. Siblings(i, j)' => Siblings(i, j) /\ Siblings(j, i)
      BY <1>5, <3>2 DEF Siblings
    <3>4. handle[k].pc \in Preparing
      BY <1>1 DEF Preparing
    <3>5. QED BY <3>1, <3>2, <3>3, <3>4 DEF Apart
  <2>2. QED BY <2>1 DEF Single
<1>10. Requests'
  <2>1. ASSUME NEW j \in Creators PROVE LessRequest(j) /\ StillSubmitted(j)
    <3>1. handle'[j].pc = "sending" => handle[j].pc = "sending"
      BY <1>5
    <3>2. submission'.unadmitted = j => submission.unadmitted = j
      BY <1>1, <1>2
    <3>3. QED BY <1>1, <1>5, <1>6, <3>1, <3>2 DEF LessRequest, StillSubmitted, Again, WorldStands
  <2>2. SafelyCarried
    <3>1. handle'[Recovered] = handle[Recovered]
      BY <1>1, <1>2 DEF Others
    <3>2. \A p \in Passes : \A j \in Creators :
            pass'[p].pc \in {"resending", "resent"} /\ pass'[p].request = j => Carries(p, j)
      BY <1>6 DEF LessPasses, LessPass
    <3>3. QED BY <1>1, <1>6, <3>1, <3>2 DEF SafelyCarried, CreatedStay, Once, Requests
  <2>3. QED BY <1>6, <1>7, <2>1, <2>2, RequestsKept DEF Once
<1>11. ASSUME NEW j \in Creators PROVE FreshKept(j)
  <2>1. SUFFICES ASSUME submission'.unadmitted = j PROVE FreshKept(j)
    BY DEF FreshKept
  <2>2. tracked # k /\ submission' = submission
    BY <1>1, <1>2, <2>1
  <2>3. j # k
    <3>1. SUFFICES ASSUME j = k PROVE FALSE
      OBVIOUS
    <3>2. Kin(k)
      BY <1>2, <2>1, <2>2, <3>1, UnadmittedFacts
    <3>3. QED BY <1>3, <2>2, <3>2 DEF Creation, Kin
  <2>4. QED BY <1>4, <2>2, <2>3 DEF FreshKept, Fresh
<1>12. Receipt'
  <2>1. ReceiptGoesOn
    BY <1>1, <1>5, <1>6 DEF ReceiptGoesOn, CreatedStay, Handled
  <2>2. QED BY <1>1, <1>6, <1>7, <1>11, <2>1, ReceiptKept DEF Once, Types, WorldStands
<1>13. Waits'
  <2>1. WaitsGoOn /\ \A j \in Creators : WaitKept(j)
    BY <1>1 DEF WaitsGoOn, WaitKept
  <2>2. QED BY <2>1, WaitsKept DEF Once
<1>14. Registries' /\ RecoveredIsKnown'
  <2>1. Registries'
    BY <1>6, RegistriesKept DEF Once, WorldStands
  <2>2. tracked' = Recovered => tracked = Recovered /\ submission' = submission
    BY <1>1, <1>2
  <2>3. QED BY <1>1, <2>1, <2>2 DEF Once, RecoveredIsKnown, Known, WorldKept, Handled
<1>15. Answers'
  <2>1. \A p \in Passes : JudgesOn(p)
    BY <1>6, <1>11, FreshOnesKept DEF Once, Answers, WorldStands
  <2>2. ASSUME NEW j \in Creators, handle[j].pc = "created", handle[j].session = session
        PROVE  QuietKept(j)
    <3>1. handle'[j] = handle[j]
      BY <1>1, <1>4, <2>2
    <3>2. Stirred(j) => Stirred(j)'
      BY <1>1, <3>1 DEF Stirred, Open, Carries
    <3>3. QED BY <1>1, <1>6, <3>2 DEF QuietKept, WorldStands
  <2>3. QED BY <1>1, <1>6, <2>1, <2>2, CreateAnswers
<1>16. QED BY <1>7, <1>8, <1>9, <1>10, <1>12, <1>13, <1>14, <1>15 DEF Once

LEMMA CreateKeepsOnce ==
  ASSUME Types, Accounts, Once, NEW k \in Creators, Create(k), resent' = resent
  PROVE  Once'
BY BeginKeepsOnce, TrackKeepsOnce, NotTrackedKeepsOnce, WriteRequestKeepsOnce, ConfirmKeepsOnce,
   SendFailsKeepsOnce DEF Create

--------------------------------------------------------------------------------
(***************************************************************************)
(* The environment.                                                        *)
(***************************************************************************)
LEMMA ClientStands ==
  ASSUME Types, Accounts, Once, ClientKept
  PROVE  /\ Creations' /\ Single' /\ Waits' /\ TriedStay /\ CreatedStay /\ SamePasses
         /\ \A k \in Creators : LessPasses(k) /\ FreshKept(k)
         /\ SafelyCarried
<1>1. /\ handle' = handle /\ submission' = submission /\ tracked' = tracked
      /\ task' = task /\ pass' = pass
  BY DEF ClientKept
<1>2. Creations' /\ Single' /\ Waits'
  <2>1. CallsKept /\ TrackedKept
    BY <1>1 DEF CallsKept, CallKept, SameCall, TriedKept, TrackedKept, Handled
  <2>2. Waits'
    BY <1>1 DEF Once, Waits, Wait, Handled
  <2>3. QED BY <2>1, <2>2, CreationsKept DEF Once
<1>3. TriedStay /\ CreatedStay
  BY <1>1 DEF TriedStay, CreatedStay, Tried
<1>4. SamePasses /\ \A k \in Creators : LessPasses(k)
  BY <1>1, SamePassFacts, PassesLike
<1>5. \A k \in Creators : FreshKept(k)
  BY <1>1 DEF FreshKept, Fresh
<1>6. SafelyCarried
  BY <1>1 DEF SafelyCarried, Carries, Once, Requests
<1>7. QED BY <1>2, <1>3, <1>4, <1>5, <1>6

LEMMA RequestStands ==
  ASSUME ClientKept, resent' = resent, NEW k \in Creators, admitted'[k] = admitted[k],
         \A f \in frames' : f.request = k => f \in frames
  PROVE  LessRequest(k) /\ StillSubmitted(k)
BY DEF ClientKept, LessRequest, TriedKept, StillSubmitted, Again, Handled

RegistryStands ==
  /\ \A s \in Sessions : Known(s) => service'[s].registry # "absent"
  /\ \A p \in Passes :
       pass[p].pc = "registry" /\ service[pass[p].session].registry # "gone" =>
         service'[pass[p].session].registry # "gone"

LEMMA LooksStay ==
  ASSUME Types, Accounts, Once, ClientKept, RegistryStands
  PROVE  (\A p \in Passes : LooksOn(p)) /\ RecoveredIsKnown'
<1>1. ASSUME NEW p \in Passes PROVE LooksOn(p)
  <2>1. pass[p].session \in Sessions
    BY DEF Types, RecoveryPasses
  <2>2. SamePass(p) /\ handle' = handle
    BY ClientStands DEF SamePasses, ClientKept
  <2>3. QED BY <2>1, <2>2 DEF LooksOn, RegistryStands
<1>2. RecoveredIsKnown'
  <2>1. tracked = Recovered => Handled \in Sessions
    BY DEF Types, Submissions, Handled, Accounts, OwnState, Kin, ConstantsAreSound
  <2>2. tracked' = tracked /\ submission' = submission
    BY DEF ClientKept
  <2>3. QED BY <2>1, <2>2 DEF Once, RecoveredIsKnown, RegistryStands, Known, Handled
<1>3. QED BY <1>1, <1>2

(* The client's side of an answer does not move *)
LEMMA QuietStands ==
  ASSUME ClientKept, age' = age, session' = session, NEW k \in Creators,
         \A f \in frames' : f.request = k => f \in frames, admitted'[k] = admitted[k]
  PROVE  QuietKept(k)
BY DEF ClientKept, QuietKept, Stirred, Open, Carries

LEMMA StillWorld ==
  ASSUME Types, Accounts, Once, ClientKept, Told', LessRefused, Registries', RegistryStands,
         UNCHANGED <<session, generation, admitted, resent, age>>, frames' \subseteq frames
  PROVE  Once'
<1>1. /\ Creations' /\ Single' /\ Waits' /\ TriedStay /\ CreatedStay /\ SamePasses
      /\ \A k \in Creators : LessPasses(k) /\ FreshKept(k)
      /\ SafelyCarried
  BY ClientStands
<1>2. Requests'
  BY <1>1, RequestStands, RequestsKept DEF Once
<1>3. Receipt'
  <2>1. ReceiptGoesOn
    BY <1>1 DEF ReceiptGoesOn, ClientKept, Handled
  <2>2. QED BY <1>1, <2>1, ReceiptKept DEF Once, Types
<1>4. (\A p \in Passes : LooksOn(p)) /\ RecoveredIsKnown'
  BY LooksStay
<1>5. Answers'
  <2>1. \A p \in Passes : JudgesOn(p)
    BY <1>1, FreshOnesKept DEF Once, Answers
  <2>2. \A k \in Creators : QuietKept(k)
    BY QuietStands
  <2>3. ASSUME NEW p \in Passes PROVE Looked(p)' /\ Quietness(p)'
    BY <1>1, <1>4, <2>1, <2>2, AnswerStays
  <2>4. QED BY <2>3 DEF Answers
<1>6. QED BY <1>1, <1>2, <1>3, <1>4, <1>5 DEF Once

LEMMA RegistryKept ==
  ASSUME Types, Accounts, Once, ClientKept, admitted' = admitted,
         \A s \in Sessions : /\ service'[s].registry = service[s].registry
                             /\ service[s].record => service'[s].record
  PROVE  Registries' /\ RegistryStands
<1>1. Registries'
  BY ClientStands, RegistriesKept DEF Once
<1>2. \A p \in Passes : pass[p].session \in Sessions
  BY DEF Types, RecoveryPasses
<1>3. QED BY <1>1, <1>2 DEF RegistryStands, Known

LEMMA DisconnectKeepsOnce ==
  ASSUME Types, Accounts, Once, Disconnect, resent' = resent
  PROVE  Once'
<1>1. /\ ClientKept /\ UNCHANGED <<session, generation, frames, service, admitted, age>>
  BY DisconnectEffects
<1>2. PICK kept \in 0 .. Len(inbox) : inbox' = SubSeq(inbox, 1, kept)
  BY DisconnectEffects
<1>3. \A i \in DOMAIN inbox' : i \in DOMAIN inbox /\ inbox'[i] = inbox[i]
  <2>1. inbox \in Seq(Messages)
    BY DEF Types
  <2>2. QED BY <1>2, <2>1
<1>4. \A i \in DOMAIN inbox' : i \in DOMAIN inbox /\ (IsRefusal(i)' <=> IsRefusal(i))
  BY <1>1, <1>3 DEF IsRefusal
<1>5. Told' /\ LessRefused
  <2>1. LessRefused
    BY <1>1, <1>4 DEF LessRefused, Refused
  <2>2. Refused' => \E k \in Creators : Tried(k)' /\ handle'[k].session = session'
    BY <1>1, <2>1 DEF Once, Told, LessRefused, Tried, ClientKept
  <2>3. QED BY <1>1, <1>3, <1>4, <2>1, <2>2 DEF Once, Told
<1>6. Registries' /\ RegistryStands
  BY <1>1, RegistryKept
<1>7. QED BY <1>1, <1>5, <1>6, StillWorld

(* What the service says of a project, and that a refusal is the only one *)
LEMMA AppendTold ==
  ASSUME Types, Accounts, Once, ClientKept, session' = session,
         NEW kind \in {"seen", "done", "refused"}, NEW s \in Sessions, s <= session,
         inbox' = inbox \/ inbox' = Append(inbox, [kind |-> kind, session |-> s]),
         kind = "refused" /\ s = session =>
           ~Refused /\ \E k \in Creators : Tried(k) /\ handle[k].session = session
  PROVE  /\ Told'
         /\ kind # "refused" \/ s # session => LessRefused
<1>1. inbox \in Seq(Messages) /\ [kind |-> kind, session |-> s] \in Messages
  BY DEF Types, Messages
<1>2. CASE inbox' = inbox
  <2>1. Told' /\ (Refused' <=> Refused)
    BY <1>2, ToldKept, ClientStands DEF Once, TriedStay
  <2>2. QED BY <2>1 DEF LessRefused
<1>3. CASE inbox' = Append(inbox, [kind |-> kind, session |-> s])
  <2>1. PICK n \in Nat : n = Len(inbox)
    BY <1>1
  <2>2. /\ DOMAIN inbox' = DOMAIN inbox \cup {n + 1}
        /\ n + 1 \notin DOMAIN inbox
        /\ \A i \in DOMAIN inbox : inbox'[i] = inbox[i]
        /\ inbox'[n + 1] = [kind |-> kind, session |-> s]
    BY <1>1, <1>3, <2>1
  <2>3. /\ \A i \in DOMAIN inbox : IsRefusal(i)' <=> IsRefusal(i)
        /\ IsRefusal(n + 1)' <=> kind = "refused" /\ s = session
    BY <2>2 DEF IsRefusal
  <2>4. Refused' => Refused \/ (kind = "refused" /\ s = session)
    BY <2>2, <2>3 DEF Refused
  <2>5. \A i \in DOMAIN inbox' : inbox'[i].session <= session'
    BY <2>2 DEF Once, Told
  <2>6. \A i, j \in DOMAIN inbox' : IsRefusal(i)' /\ IsRefusal(j)' => i = j
    BY <2>2, <2>3 DEF Once, Told, Refused
  <2>7. Refused' => \E k \in Creators : Tried(k)' /\ handle'[k].session = session'
    BY <2>4 DEF Once, Told, Tried, ClientKept
  <2>8. QED BY <2>4, <2>5, <2>6, <2>7 DEF Told, LessRefused
<1>4. QED BY <1>2, <1>3

LEMMA FrameFacts ==
  ASSUME Types, Accounts, Once, NEW f \in frames
  PROVE  /\ f.request \in Creators /\ Tried(f.request) /\ Request(f.request)
         /\ f.session \in Sessions
         /\ handle[f.request].session = f.session /\ f.session <= session
         /\ f.generation = generation /\ ~NoFrame(f.request)
         /\ admitted[f.request] = 0 /\ ~Coming(f.request)
         /\ ~(Refused /\ f.session = session)
<1>1. /\ f.request \in Creators /\ f.session \in Sessions
      /\ Began(f.request) /\ handle[f.request].session = f.session
      /\ ~NoFrame(f.request) /\ f.generation = generation
  BY DEF Types, Frames, Accounts, OwnFrames, NoFrame, Once, Receipt
<1>2. Request(f.request)
  BY <1>1 DEF Once, Requests
<1>3. Tried(f.request)
  BY <1>1, <1>2 DEF Request, Untouched
<1>4. f.session <= session
  <2>1. handle[f.request].session <= Handled /\ Handled <= session
        /\ handle[f.request].session \in Nat /\ Handled \in Nat
    BY <1>1, <1>3, TriedFacts
  <2>2. QED BY <1>1, <2>1, SessionFacts DEF Types
<1>5. /\ admitted[f.request] = 0 /\ ~Coming(f.request)
      /\ ~(Refused /\ f.session = session)
  BY <1>1, <1>2, <1>3 DEF Request, OneRequest
<1>6. QED BY <1>1, <1>2, <1>3, <1>4, <1>5

LEMMA NoOtherFrame ==
  ASSUME Types, Accounts, Once, NEW f \in frames, frames' = frames \ {f}
  PROVE  NoFrame(f.request)' /\ \A k \in Creators : NoFrame(k) => NoFrame(k)'
<1>1. OneFrame(f.request)
  BY FrameFacts DEF Request, OneRequest
<1>2. QED BY <1>1 DEF OneFrame, NoFrame

LEMMA LoseKeepsOnce ==
  ASSUME Types, Accounts, Once, NEW f \in frames, Lose(f), resent' = resent
  PROVE  Once'
<1>1. /\ ClientKept /\ frames' \subseteq frames
      /\ UNCHANGED <<session, generation, service, admitted, inbox, age>>
  BY LoseEffects
<1>2. Told' /\ LessRefused
  BY <1>1, ClientStands, ToldKept DEF Once, TriedStay, LessRefused
<1>3. Registries' /\ RegistryStands
  BY <1>1, RegistryKept
<1>4. QED BY <1>1, <1>2, <1>3, StillWorld

LEMMA RecordKeepsOnce ==
  ASSUME Types, Accounts, Once, NEW s \in Sessions, WriteRecord(s), resent' = resent
  PROVE  Once'
<1>1. /\ ClientKept /\ UNCHANGED <<session, generation, frames, admitted, inbox, age>>
      /\ \A r \in Sessions : service'[r].registry = service[r].registry
                             /\ (service[r].record => service'[r].record)
  BY RecordEffects
<1>2. Told' /\ LessRefused
  BY <1>1, ClientStands, ToldKept DEF Once, TriedStay, LessRefused
<1>3. Registries' /\ RegistryStands
  BY <1>1, RegistryKept
<1>4. QED BY <1>1, <1>2, <1>3, StillWorld

LEMMA CompleteKeepsOnce ==
  ASSUME Types, Accounts, Once, NEW s \in Sessions, Complete(s), resent' = resent
  PROVE  Once'
<1>1. /\ ClientKept /\ service[s].registry = "live" /\ service[s].record
      /\ service'[s].registry = "gone" /\ service'[s].record
      /\ \A r \in Sessions : r # s => service'[r] = service[r]
      /\ \A p \in Passes : pass[p].pc # "registry" \/ pass[p].session # s
      /\ inbox' = inbox \/ inbox' = Append(inbox, [kind |-> "done", session |-> s])
      /\ UNCHANGED <<session, generation, frames, admitted, age>>
  BY CompleteEffects
<1>2. \A r \in Sessions : Known(r) <=> service'[r].registry # "absent"
  BY <1>1 DEF Known
<1>3. s <= session
  <2>1. PICK k \in Creators : admitted[k] > 0 /\ handle[k].session = s
    BY <1>1 DEF Once, Registries, Known
  <2>2. Tried(k)
    BY <2>1 DEF Once, Requests, Request, Untouched, Types
  <2>3. handle[k].session <= Handled /\ Handled <= session
        /\ handle[k].session \in Nat /\ Handled \in Nat
    BY <2>2, TriedFacts
  <2>4. QED BY <2>1, <2>3, SessionFacts DEF Types
<1>4. Told' /\ LessRefused
  <2> DEFINE kind == "done"
  <2>1. kind \in {"seen", "done", "refused"} /\ kind # "refused"
        /\ (inbox' = inbox \/ inbox' = Append(inbox, [kind |-> kind, session |-> s]))
    BY <1>1
  <2> HIDE DEF kind
  <2>2. QED BY <1>1, <1>3, <2>1, AppendTold
<1>5. Registries'
  <2>1. \A k \in Creators : handle[k].session \in Sessions
    BY ProjectFacts DEF Types, Handles
  <2>2. handle' = handle
    BY <1>1 DEF ClientKept
  <2>3. \A r \in Sessions : service'[r].registry = "gone" => service'[r].record
    BY <1>1 DEF Once, Registries
  <2>4. QED BY <1>1, <1>2, <2>1, <2>2, <2>3 DEF Once, Registries, Known
<1>6. RegistryStands
  <2>1. \A p \in Passes : pass[p].session \in Sessions
    BY DEF Types, RecoveryPasses
  <2>2. QED BY <1>1, <1>2, <2>1 DEF RegistryStands
<1>7. QED BY <1>1, <1>4, <1>5, <1>6, StillWorld

LEMMA RefuseKeepsOnce ==
  ASSUME Types, Accounts, Once, NEW f \in frames, Refuse(f), resent' = resent
  PROVE  Once'
<1>1. /\ ClientKept /\ frames' = frames \ {f} /\ frames' \subseteq frames
      /\ inbox' = inbox \/ inbox' = Append(inbox, [kind |-> "refused", session |-> f.session])
      /\ UNCHANGED <<session, generation, service, admitted, age>>
  BY RefuseEffects
<1>0. PICK k \in Creators, s \in Sessions : k = f.request /\ s = f.session
  BY FrameFacts
<1>2. /\ Tried(k) /\ Request(k) /\ handle[k].session = s /\ s <= session
      /\ f.generation = generation /\ ~NoFrame(k) /\ admitted[k] = 0 /\ ~Coming(k)
      /\ ~(Refused /\ s = session)
  BY <1>0, FrameFacts
<1>3. NoFrame(k)' /\ \A j \in Creators : NoFrame(j) => NoFrame(j)'
  BY <1>0, <1>1, NoOtherFrame
<1>4. Registries' /\ RegistryStands
  BY <1>1, RegistryKept
<1>5. Told' /\ (s # session => LessRefused)
  <2> DEFINE kind == "refused"
  <2>1. kind \in {"seen", "done", "refused"}
        /\ (inbox' = inbox \/ inbox' = Append(inbox, [kind |-> kind, session |-> s]))
    BY <1>0, <1>1
  <2>2. kind = "refused" /\ s = session =>
          ~Refused /\ \E j \in Creators : Tried(j) /\ handle[j].session = session
    BY <1>2
  <2> HIDE DEF kind
  <2>3. QED BY <1>1, <1>2, <2>1, <2>2, AppendTold
<1>6. CASE s # session
  BY <1>1, <1>4, <1>5, <1>6, StillWorld
<1>7. CASE s = session
  <2>1. /\ Creations' /\ Single' /\ Waits' /\ TriedStay /\ CreatedStay /\ SamePasses
        /\ \A j \in Creators : LessPasses(j) /\ FreshKept(j)
        /\ SafelyCarried
    BY <1>1, ClientStands
  <2>2. ASSUME NEW j \in Creators, Tried(j), handle[j].session = session PROVE j = k
    BY <1>2, <1>7, <2>2, OnlyOne DEF Once, Accounts
  <2>3. Request(k)'
    <3>1. UNCHANGED <<handle, task, pass, submission, admitted, resent>>
      BY <1>1 DEF ClientKept
    <3>2. OneFrame(k)' /\ ~Coming(k)' /\ admitted'[k] = 0
      BY <1>2, <1>3, <3>1 DEF NoFrame, OneFrame, Coming, Again, Resends
    <3>3. Untouched(k)'
      BY <1>2, <3>1 DEF Untouched, Tried
    <3>4. OneRequest(k)'
      BY <1>3, <3>2 DEF OneRequest, Coming
    <3>5. ResentOnce(k)' /\ OwnRequest(k)'
      BY <1>2, <3>1 DEF Request, ResentOnce, OwnRequest, Handled, Resends, Carries
    <3>6. LostForGood(k)'
      BY <1>2, <3>1 DEF Request, LostForGood
    <3>7. QED BY <3>3, <3>4, <3>5, <3>6 DEF Request
  <2>4. Requests'
    <3>1. ASSUME NEW j \in Creators, j # k PROVE Request(j)'
      <4>1. ~(Tried(j) /\ handle[j].session = session')
        BY <1>1, <2>2, <3>1
      <4>2. LessRequest(j) /\ StillSubmitted(j)
        BY <1>1, RequestStands
      <4>3. QED BY <2>1, <4>1, <4>2, RequestKept DEF Once, Requests
    <3>2. QED BY <2>1, <2>3, <3>1, CarriedKept DEF Once, Requests
  <2>5. Receipt'
    <3>1. UNCHANGED <<handle, submission, generation, session>>
      BY <1>1 DEF ClientKept
    <3>2. ASSUME NEW j \in Creators PROVE FreshReceipt(j)'
      <4>1. SUFFICES ASSUME Fresh(j) PROVE FreshReceipt(j)'
        BY <3>1 DEF FreshReceipt, Fresh
      <4>2. FreshReceipt(j) /\ Tried(j)
        BY <4>1, UnadmittedFacts, ProjectFacts DEF Once, Receipt, Fresh, Types
      <4>3. /\ submission.sentOn.generation > 0 /\ submission.sentOn.session = Handled =>
                 handle[j].pc = "created" /\ handle[j].generation = submission.sentOn.generation
            /\ \A g \in frames : g.request = j => WrittenOn(j, g.generation)
        BY <4>1, <4>2 DEF FreshReceipt
      <4>4. handle[j].session = session => WrittenOn(j, generation)
        BY <1>0, <1>2, <2>2, <4>2, <4>3
      <4>5. QED BY <1>1, <3>1, <4>3, <4>4 DEF FreshReceipt, WrittenOn, Handled
    <3>3. ReceiptGoesOn
      BY <3>1 DEF ReceiptGoesOn, Handled
    <3>4. QED BY <1>1, <3>2, <3>3, ReceiptStands DEF Once, Types, Receipt, Handled
  <2>6. (\A p \in Passes : LooksOn(p)) /\ RecoveredIsKnown'
    BY <1>1, <1>4, LooksStay
  <2>7. Answers'
    <3>1. \A p \in Passes : JudgesOn(p)
      BY <1>1, <2>1, FreshOnesKept DEF Once, Answers
    <3>2. \A j \in Creators : QuietKept(j)
      BY <1>1, QuietStands
    <3>3. ASSUME NEW p \in Passes PROVE Looked(p)' /\ Quietness(p)'
      BY <2>1, <2>6, <3>1, <3>2, AnswerStays
    <3>4. QED BY <3>3 DEF Answers
  <2>8. QED BY <1>4, <1>5, <2>1, <2>4, <2>5, <2>6, <2>7 DEF Once
<1>8. QED BY <1>6, <1>7

LEMMA AdmitKeepsOnce ==
  ASSUME Types, Accounts, Once, NEW f \in frames, Admit(f), resent' = resent
  PROVE  Once'
<1>0. PICK k \in Creators, s \in Sessions : k = f.request /\ s = f.session
  BY FrameFacts
<1>1. /\ ClientKept /\ frames' = frames \ {f} /\ frames' \subseteq frames
      /\ admitted'[k] = admitted[k] + 1
      /\ \A j \in Creators : j # k => admitted'[j] = admitted[j]
      /\ service'[s].registry = "live"
      /\ \A r \in Sessions : r # s => service'[r] = service[r]
      /\ service'[s].record = service[s].record
      /\ inbox' = inbox \/ inbox' = Append(inbox, [kind |-> "seen", session |-> s])
      /\ UNCHANGED <<session, generation, age>>
  BY <1>0, AdmitEffects
<1>2. /\ Tried(k) /\ Request(k) /\ handle[k].session = s /\ s <= session
      /\ f.generation = generation /\ ~NoFrame(k) /\ admitted[k] = 0 /\ ~Coming(k)
      /\ ~(Refused /\ s = session)
  BY <1>0, FrameFacts
<1>3. NoFrame(k)' /\ \A j \in Creators : NoFrame(j) => NoFrame(j)'
  BY <1>0, <1>1, NoOtherFrame
<1>4. /\ Creations' /\ Single' /\ Waits' /\ TriedStay /\ CreatedStay /\ SamePasses
      /\ \A j \in Creators : LessPasses(j) /\ FreshKept(j)
      /\ SafelyCarried
  BY <1>1, ClientStands
<1>5. Told' /\ LessRefused
  <2> DEFINE kind == "seen"
  <2>1. kind \in {"seen", "done", "refused"} /\ kind # "refused"
        /\ (inbox' = inbox \/ inbox' = Append(inbox, [kind |-> kind, session |-> s]))
    BY <1>1
  <2> HIDE DEF kind
  <2>2. QED BY <1>1, <1>2, <2>1, AppendTold
<1>6. UNCHANGED <<handle, task, pass, submission, resent>>
  BY <1>1 DEF ClientKept
<1>7. Request(k)'
  <2>1. OneFrame(k)' /\ ~Coming(k)' /\ admitted'[k] = 1
    BY <1>1, <1>2, <1>3, <1>6 DEF NoFrame, OneFrame, Coming, Again, Resends
  <2>2. Untouched(k)'
    BY <1>2, <1>6 DEF Untouched, Tried
  <2>3. ~(Refused' /\ handle'[k].session = session')
    BY <1>1, <1>2, <1>5, <1>6 DEF LessRefused
  <2>4. OneRequest(k)'
    BY <1>3, <2>1, <2>3 DEF OneRequest, Coming
  <2>5. ResentOnce(k)' /\ OwnRequest(k)'
    BY <1>2, <1>6 DEF Request, ResentOnce, OwnRequest, Handled, Resends, Carries
  <2>6. LostForGood(k)'
    BY <1>2, <1>6 DEF Request, LostForGood
  <2>7. QED BY <2>2, <2>4, <2>5, <2>6 DEF Request
<1>8. Requests'
  <2>1. ASSUME NEW j \in Creators, j # k PROVE LessRequest(j) /\ LessPasses(j) /\ StillSubmitted(j)
    BY <1>1, <1>4, <2>1, RequestStands
  <2>2. \A j \in Creators : Request(j)'
    BY <1>5, <1>7, <2>1, OthersKept
  <2>3. QED BY <1>4, <2>2, CarriedKept DEF Once, Requests
<1>9. Receipt'
  <2>1. ReceiptGoesOn
    BY <1>6 DEF ReceiptGoesOn, Handled
  <2>2. QED BY <1>1, <1>4, <1>5, <2>1, ReceiptKept DEF Once, Types
<1>10. Registries'
  <2>1. \A j \in Creators : handle[j].session \in Sessions /\ admitted[j] \in Nat
    BY ProjectFacts DEF Types, Handles
  <2>2. ASSUME NEW j \in Creators, admitted'[j] > 0
        PROVE  service'[handle'[j].session].registry # "absent"
    BY <1>1, <1>2, <1>6, <2>1, <2>2 DEF Once, Registries, Known
  <2>3. ASSUME NEW r \in Sessions, service'[r].registry # "absent"
        PROVE  \E j \in Creators : admitted'[j] > 0 /\ handle'[j].session = r
    <3>1. CASE r = s
      <4>1. admitted'[k] > 0 /\ handle'[k].session = r
        BY <1>1, <1>2, <1>6, <3>1
      <4>2. QED BY <4>1
    <3>2. CASE r # s
      <4>1. PICK j \in Creators : admitted[j] > 0 /\ handle[j].session = r
        BY <1>1, <2>3, <3>2 DEF Once, Registries, Known
      <4>2. j # k
        BY <1>2, <4>1
      <4>3. QED BY <1>1, <1>6, <4>1, <4>2
    <3>3. QED BY <3>1, <3>2
  <2>4. ASSUME NEW r \in Sessions, service'[r].registry = "gone" PROVE service'[r].record
    BY <1>1, <2>4 DEF Once, Registries
  <2>5. QED BY <2>2, <2>3, <2>4 DEF Registries, Known
<1>11. RegistryStands
  <2>1. \A p \in Passes : pass[p].session \in Sessions
    BY DEF Types, RecoveryPasses
  <2>2. QED BY <1>1, <2>1 DEF RegistryStands, Known
<1>12. (\A p \in Passes : LooksOn(p)) /\ RecoveredIsKnown'
  BY <1>1, <1>11, LooksStay
<1>13. Answers'
  <2>1. ASSUME NEW p \in Passes PROVE Looked(p)'
    <3>1. JudgesOn(p)
      <4>1. SUFFICES ASSUME pass[p].pc = "judge", pass[p].session = session PROVE FreshOnes
        BY <1>1 DEF JudgesOn
      <4>2. ASSUME NEW j \in Creators, Fresh(j), handle[j].session = session, admitted'[j] > 0
            PROVE  WrittenOn(j, generation)
        <5>1. CASE j = k
          BY <1>0, <1>2, <4>2, <5>1 DEF Once, Receipt, FreshReceipt
        <5>2. CASE j # k
          BY <1>1, <4>1, <4>2, <5>2 DEF Once, Answers, Looked
        <5>3. QED BY <5>1, <5>2
      <4>3. QED BY <1>1, <1>6, <4>2 DEF FreshOnes, Fresh, WrittenOn
    <3>2. QED BY <1>4, <1>12, <3>1, LookedKept DEF Once, Answers
  <2>2. ASSUME NEW p \in Passes PROVE Quietness(p)'
    <3>1. ASSUME NEW j \in Creators PROVE Stirred(j) => Stirred(j)'
      BY <1>1, <1>6 DEF Stirred, Open, Carries
    <3>2. Quietness(p)
      BY DEF Once, Answers
    <3>3. ASSUME NEW j \in Creators, NoFrame(j), admitted[j] = 0
          PROVE  NoFrame(j)' /\ admitted'[j] = 0
      BY <1>1, <1>2, <1>3, <3>3
    <3>4. QED BY <1>1, <1>3, <1>6, <3>1, <3>2, <3>3 DEF Quietness
  <2>3. QED BY <2>1, <2>2 DEF Answers
<1>14. QED BY <1>4, <1>5, <1>8, <1>9, <1>10, <1>12, <1>13 DEF Once

LEMMA SwitchKeepsOnce ==
  ASSUME Types, Accounts, Once, SwitchAccount, resent' = resent
  PROVE  Once'
<1>1. /\ ClientKept /\ session' = session + 1 /\ session \in Nat /\ Types'
      /\ UNCHANGED <<generation, frames, service, admitted, inbox, age>>
  BY SwitchEffects, SessionFacts DEF Types
<1>2. /\ Creations' /\ Single' /\ Waits' /\ TriedStay /\ CreatedStay /\ SamePasses
      /\ \A j \in Creators : LessPasses(j) /\ FreshKept(j)
      /\ SafelyCarried
  BY <1>1, ClientStands
<1>3. \A i \in DOMAIN inbox : inbox[i].session <= session /\ inbox[i].session \in Nat
  <2>1. inbox \in Seq(Messages)
    BY DEF Types
  <2>2. \A i \in DOMAIN inbox : inbox[i].session \in Nat
    <3>1. \A i \in DOMAIN inbox : inbox[i] \in Messages
      BY <2>1
    <3>2. \A m \in Messages : m.session \in Nat
      BY SessionFacts DEF Types, Messages
    <3>3. QED BY <3>1, <3>2
  <2>3. QED BY <2>2 DEF Once, Told
<1>4. Told' /\ LessRefused
  <2>1. \A i \in DOMAIN inbox' : inbox'[i].session <= session' /\ inbox'[i].session # session'
    BY <1>1, <1>3
  <2>2. ~Refused'
    BY <2>1 DEF Refused, IsRefusal
  <2>3. QED BY <2>1, <2>2 DEF Told, Refused, LessRefused
<1>5. Requests'
  BY <1>1, <1>2, <1>4, RequestStands, RequestsKept DEF Once
<1>6. Receipt'
  <2>1. ReceiptGoesOn
    BY <1>1, <1>2 DEF ReceiptGoesOn, ClientKept, Handled
  <2>2. QED BY <1>1, <1>2, <1>4, <2>1, ReceiptKept DEF Once, Types
<1>7. Registries' /\ RegistryStands
  BY <1>1, RegistryKept
<1>8. (\A p \in Passes : LooksOn(p)) /\ RecoveredIsKnown'
  BY <1>1, <1>7, LooksStay
<1>9. Answers'
  <2>1. ASSUME NEW p \in Passes, pass[p].pc # "idle" PROVE pass[p].session # session'
    <3>1. pass[p].session <= session /\ pass[p].session \in Nat
      BY <2>1, SessionFacts DEF Accounts, OwnPasses, OwnPass, Types, RecoveryPasses
    <3>2. QED BY <1>1, <3>1
  <2>2. ASSUME NEW p \in Passes PROVE Looked(p)' /\ Quietness(p)'
    <3>1. JudgesOn(p)
      BY <2>1 DEF JudgesOn
    <3>2. QED BY <1>2, <1>8, <2>1, <3>1, AnswerStays
  <2>3. QED BY <2>2 DEF Answers
<1>10. QED BY <1>2, <1>4, <1>5, <1>6, <1>7, <1>8, <1>9 DEF Once

(* A connection begins, and the grace ends, when nothing of a request is under way and *)
(* the client has heard all that the service said of it.                               *)
LEMMA PauseKeepsOnce ==
  ASSUME Types, Accounts, Once, ~Late, Reconnect \/ Age, resent' = resent
  PROVE  Once'
<1>1. /\ ClientKept /\ Prompt /\ frames = {}
      /\ UNCHANGED <<session, frames, service, admitted, inbox>>
      /\ generation' = generation \/ inbox = <<>>
  BY ReconnectEffects, AgeEffects DEF Prompt
<1>2. /\ Creations' /\ Single' /\ Waits' /\ TriedStay /\ CreatedStay /\ SamePasses
      /\ \A j \in Creators : LessPasses(j) /\ FreshKept(j)
      /\ SafelyCarried
  BY <1>1, ClientStands
<1>3. Told' /\ LessRefused /\ ~Refused'
  <2>1. ~Refused /\ ~Refused'
    BY <1>1 DEF Prompt, Refused
  <2>2. QED BY <1>1, <1>2, <2>1, ToldKept DEF Once, TriedStay, LessRefused
<1>4. Requests'
  BY <1>1, <1>2, <1>3, RequestStands, RequestsKept DEF Once
<1>5. Receipt'
  <2>1. ReceiptGoesOn /\ handle' = handle /\ submission' = submission
    BY <1>1, <1>2 DEF ReceiptGoesOn, ClientKept, Handled
  <2>2. ASSUME NEW k \in Creators PROVE FreshReceipt(k)'
    BY <1>1, <1>3, <2>1 DEF Once, Receipt, FreshReceipt, Fresh, Handled
  <2>3. QED BY <1>1, <2>1, <2>2, ReceiptStands DEF Once, Types, Receipt, Handled
<1>6. Registries' /\ RegistryStands
  BY <1>1, RegistryKept
<1>7. (\A p \in Passes : LooksOn(p)) /\ RecoveredIsKnown'
  BY <1>1, <1>6, LooksStay
<1>8. Answers'
  <2>1. ASSUME NEW p \in Passes PROVE pass[p].pc # "judge" /\ pass'[p].pc # "judge"
    BY <1>1 DEF Prompt, ClientKept
  <2>2. ASSUME NEW p \in Passes PROVE Looked(p)'
    <3>1. JudgesOn(p)
      BY <2>1 DEF JudgesOn
    <3>2. QED BY <1>2, <1>7, <3>1, LookedKept DEF Once, Answers
  <2>3. \A k \in Creators : NoFrame(k)'
    BY <1>1 DEF NoFrame
  <2>4. \A p \in Passes : Quietness(p)'
    BY <2>1, <2>3 DEF Quietness
  <2>5. QED BY <2>2, <2>4 DEF Answers
<1>9. QED BY <1>2, <1>3, <1>4, <1>5, <1>6, <1>7, <1>8 DEF Once

LEMMA ServiceKeepsOnce ==
  ASSUME Types, Accounts, Once, Service, resent' = resent
  PROVE  Once'
BY AdmitKeepsOnce, RefuseKeepsOnce, LoseKeepsOnce, RecordKeepsOnce, CompleteKeepsOnce DEF Service

--------------------------------------------------------------------------------
(***************************************************************************)
(* Every step keeps it.                                                    *)
(***************************************************************************)
LEMMA StartOnce ==
  ASSUME ConstantsAreSound, Init
  PROVE  Once
<1>1. /\ session = 0 /\ frames = {} /\ inbox = <<>> /\ tracked = None
      /\ submission = [unadmitted |-> None, awaiting |-> FALSE, submitted |-> FALSE,
                       sentOn |-> NoReceipt, handledSession |-> NoSession]
      /\ task = [k \in Projects |-> NoTask] /\ pass = [p \in Passes |-> NoPass]
      /\ service = [s \in Sessions |-> [registry |-> "absent", record |-> FALSE]]
      /\ admitted = [k \in Creators |-> 0] /\ resent = [k \in Creators |-> 0]
  BY DEF Init
<1>2. handle = [k \in Projects |-> [pc |-> "idle", session |-> 0, status |-> "none",
                                    cause |-> "none", generation |-> 0]]
  BY DEF Init
<1>3. \A k \in Projects : /\ handle[k].pc = "idle" /\ handle[k].status = "none"
                          /\ handle[k].cause = "none" /\ task[k].pc = "none"
  BY <1>1, <1>2 DEF NoTask
<1>4. /\ submission.unadmitted = None /\ submission.sentOn.generation = 0
      /\ ~submission.awaiting /\ ~submission.submitted
  BY <1>1 DEF NoReceipt
<1>5. Creators \subseteq Projects /\ Recovered \in Projects /\ None \notin Creators
      /\ None # Recovered /\ Recovered \notin Creators
  BY ProjectFacts
<1>6. Creations /\ Single
  BY <1>1, <1>3, <1>5
     DEF Creations, Creation, Sent, Tried, Single, Apart, Siblings, Preparing, Began
<1>7. ~Refused /\ Told
  BY <1>1 DEF Told, Refused
<1>8. Requests
  <2>1. \A p \in Passes : pass[p].pc = "idle"
    BY <1>1 DEF NoPass
  <2>2. ASSUME NEW k \in Creators PROVE Request(k)
    <3>1. Untouched(k) /\ OneRequest(k) /\ ResentOnce(k)
      BY <1>1, <1>3, <1>4, <1>5, <1>7, <2>1
         DEF Untouched, OneRequest, ResentOnce, NoFrame, OneFrame, Coming, Again, Resends, Carries
    <3>2. OwnRequest(k) /\ LostForGood(k)
      BY <1>3, <1>5 DEF OwnRequest, LostForGood
    <3>3. QED BY <3>1, <3>2 DEF Request
  <2>3. QED BY <1>3, <1>5, <2>1, <2>2 DEF Requests, Carried, Carries
<1>9. Receipt
  BY <1>1, <1>4, <1>5 DEF Receipt, FreshReceipt, Fresh
<1>10. Waits /\ RecoveredIsKnown
  BY <1>1, <1>3, <1>5 DEF Waits, Wait, RecoveredIsKnown
<1>11. Registries
  BY <1>1 DEF Registries, Known
<1>12. Answers
  BY <1>1, <1>5 DEF Answers, Looked, Quietness, NoPass
<1>13. QED BY <1>6, <1>7, <1>8, <1>9, <1>10, <1>11, <1>12 DEF Once

LEMMA HearingKeepsOnce ==
  ASSUME Types, Accounts, Once, Hear, resent' = resent
  PROVE  Once'
<1>1. \/ Retired /\ EndedAll /\ task' = task
      \/ /\ Handled = session /\ tracked' = tracked
         /\ HearsNothing \/ HearsEvidence \/ HearsRefusal \/ HearsRestart
  BY HearEffects DEF Accounts
<1>2. CASE Handled = session /\ tracked' = tracked /\ HearsRestart
  BY <1>2, RestartKeepsOnce
<1>3. QED BY <1>1, <1>2, HearKeepsOnce

LEMMA TaskKeepsOnce ==
  ASSUME Types, Accounts, Once, NEW k \in Projects, Restart(k), resent' = resent
  PROVE  Once'
BY ResumeStopsKeepsOnce, ResumeKeepsOnce, WriteAgainKeepsOnce, FinishKeepsOnce, FailTaskKeepsOnce,
   EndTaskKeepsOnce DEF Restart

LEMMA AdvanceKeepsOnce ==
  ASSUME Types, Accounts, Once, NEW p \in Passes, Advance(p), resent' = resent
  PROVE  Once'
<1>1. CASE Judge(p)
  BY <1>1, JudgeEffects, ClaimsKeepsOnce, JudgesKeepsOnce
<1>2. QED BY <1>1, SnapshotKeepsOnce, ReconcileKeepsOnce, StatusKeepsOnce, RegistryKeepsOnce,
             ReturnsKeepsOnce, AbandonKeepsOnce DEF Advance

LEMMA StepKeepsOnce ==
  ASSUME ~Late, Types, Accounts, Once, [Next]_vars
  PROVE  Once'
<1>1. CASE UNCHANGED vars
  <2>1. UNCHANGED <<session, generation, frames, service, admitted, inbox, tracked,
                    handle, submission, age, task, pass, resent>>
    BY <1>1 DEF vars, socketVars, serviceVars, clientVars
  <2>2. ClientKept
    BY <2>1 DEF ClientKept
  <2>3. Told' /\ LessRefused
    BY <2>1, <2>2, ClientStands, ToldKept DEF Once, TriedStay, LessRefused
  <2>4. Registries' /\ RegistryStands
    BY <2>1, <2>2, RegistryKept
  <2>5. QED BY <2>1, <2>2, <2>3, <2>4, StillWorld
<1>2. CASE SwitchAccount /\ resent' = resent
  BY <1>2, SwitchKeepsOnce
<1>3. CASE Disconnect /\ resent' = resent
  BY <1>3, DisconnectKeepsOnce
<1>4. CASE (Reconnect \/ Age) /\ resent' = resent
  BY <1>4, PauseKeepsOnce
<1>5. CASE Service /\ resent' = resent
  BY <1>5, ServiceKeepsOnce
<1>6. CASE Hear /\ resent' = resent
  BY <1>6, HearingKeepsOnce
<1>7. CASE HearSwitch /\ resent' = resent
  BY <1>7, SwitchHeardKeepsOnce
<1>8. CASE (\E k \in Creators : Create(k)) /\ resent' = resent
  BY <1>8, CreateKeepsOnce
<1>9. CASE (\E k \in Projects : Restart(k)) /\ resent' = resent
  BY <1>9, TaskKeepsOnce
<1>10. CASE (\E p \in Passes : SyncStart(p)) /\ resent' = resent
  BY <1>10, SyncStartKeepsOnce
<1>11. CASE (\E p \in Passes : ResolveStart(p)) /\ resent' = resent
  BY <1>11, ResolveKeepsOnce
<1>12. CASE (\E p \in Passes : Advance(p)) /\ resent' = resent
  BY <1>12, AdvanceKeepsOnce
<1>13. CASE \E p \in Passes : Resend(p)
  BY <1>13, ResendKeepsOnce
<1>14. QED BY <1>1, <1>2, <1>3, <1>4, <1>5, <1>6, <1>7, <1>8, <1>9, <1>10, <1>11, <1>12,
              <1>13 DEF Next, Quiet

(* Of each creation of an id, at most one thing is under way that can still have    *)
(* its request admitted, and none once it was: through the creation, the restart    *)
(* task, the resends after an absence and the refusals, in every account.  Without  *)
(* Late: no answer outlasts the grace, no event the connection that brought it.     *)
THEOREM OnceHolds ==
  ASSUME ConstantsAreSound, ~Late
  PROVE  Spec => [](Types /\ Accounts /\ Once)
<1>1. Init => Types /\ Accounts /\ Once
  BY StartAccounts, StartOnce
<1>2. Types /\ Accounts /\ Once /\ [Next]_vars => (Types /\ Accounts /\ Once)'
  BY StepKeepsAccounts, StepKeepsOnce
<1>3. QED BY <1>1, <1>2, PTL DEF Spec

(* However often a request is written again (after a restart refusal, after a      *)
(* confirmed absence, by two passes at once), the service admits it once, and an   *)
(* absence resends it once: the claim of resend_undelivered stands before the      *)
(* write, and a receipt of an older connection is the evidence that the frame is   *)
(* gone (submission_recovery.rs).                                                  *)
THEOREM RequestsAreAdmittedOnce ==
  ASSUME ConstantsAreSound, ~Late
  PROVE  Spec => []AdmittedOnce
<1>1. Once => AdmittedOnce
  BY DEF Once, Requests, Request, OneRequest, ResentOnce, AdmittedOnce
<1>2. QED BY <1>1, OnceHolds, PTL

(* A project that a sync declares lost was never admitted and has no frame on its  *)
(* way: the status and registry lookups, the grace and the restart task's claim    *)
(* together rule out every way its request could still come (recovery.rs).         *)
THEOREM LostProjectsAreLost ==
  ASSUME ConstantsAreSound, ~Late
  PROVE  Spec => []LostIsTrue
<1>1. Once => LostIsTrue
  BY DEF Once, Requests, Request, LostForGood, NoFrame, LostIsTrue, Projects
<1>2. QED BY <1>1, OnceHolds, PTL
================================================================================
