------------------------------ MODULE ChatStream ------------------------------
(***************************************************************************)
(* Chat completions on the shared socket: the calls of start_completion,   *)
(* the one listener that hears tokens, results and the state of the        *)
(* connection, the recovery maps that decide which streams survive a lost  *)
(* connection, and the timers that bound their silence                     *)
(* (src/src/chat/socket.rs, src/src/chat/events.rs,                        *)
(* src/src/chat/events/transport_recovery.rs, src/src/event.rs).           *)
(*                                                                         *)
(* The connection is what module SocketTransport does, seen from the event *)
(* bus; the peer is modelled from what the client reads.  A section under  *)
(* one lock is one step: the listener, the calls and the timers interleave *)
(* between the sections of one handler.                                    *)
(*                                                                         *)
(* A definition marked "Fault" is not part of the specification: put in    *)
(* the place of the definition after it, it must break a property.         *)
(***************************************************************************)
EXTENDS Naturals, Sequences, FiniteSets, Functions

CONSTANTS
  Streams,        \* the job ids, one for each call of start_completion
  Peers,          \* what may answer: "modern" peers list the jobs they kept, "legacy" ones do not
  Closes,         \* how a peer closes: "disconnected", or "switched" to another connection (4015)
  MaxSession,     \* bound: the account changes while session is below it
  MaxAttempts,    \* bound: connections are attempted again while attempts is below it
  MaxLags,        \* bound: other traffic overruns the listener while lags is below it
  MaxBus          \* bound: an event is emitted while fewer are waiting for the listener

ASSUME ChatAssumption ==
  /\ Peers \subseteq {"modern", "legacy"} /\ Peers # {}
  /\ Closes \subseteq {"disconnected", "switched"}
  /\ MaxSession \in Nat /\ MaxAttempts \in Nat /\ MaxLags \in Nat /\ MaxBus \in Nat \ {0}

VARIABLES
  session,    \* the current account session
  closed,     \* the client was closed
  conn,       \* the connection in hand
  attempts,   \* how often a connection was attempted
  jobs,       \* what the peer does for each stream
  bus,        \* events emitted and not yet received by the listener
  sequence,   \* EventBus.sequence, counting the handshakes only
  lagged,     \* the next receive reports a lag
  lags,       \* how often it did
  call,       \* the position of each call of start_completion and what it holds
  active,     \* ChatInner.active
  recovery,   \* TransportRecovery
  timers,     \* the epochs whose 35 s still run, with the streams taken by those that ended
  listener,   \* the listener's position
  stream,     \* ChatStreamState: whether it is complete, and how
  out         \* history: what the caller of each stream was given, in order

connVars == <<conn, attempts, jobs>>
busVars == <<bus, sequence, lagged, lags>>
chatVars == <<active, recovery, stream, out>>
vars == <<session, closed, connVars, busVars, call, chatVars, timers, listener>>

NoFrame == {"no frame"}       \* no handshake frame is on its way
Unlisted == {"unlisted"}      \* a handshake without activeLLMJobIDs
Nobody == 0                   \* an event of no session in particular
NoStreams == [s \in {} |-> 0]  \* a map of no stream
Sessions == 1 .. MaxSession + 2

Init ==
  /\ session = 1 /\ closed = FALSE
  /\ conn = [pc |-> "idle", session |-> Nobody, hello |-> NoFrame, ready |-> FALSE]
  /\ attempts = 0
  /\ jobs = [s \in Streams |-> "none"]
  /\ bus = <<>> /\ sequence = 0 /\ lagged = FALSE /\ lags = 0
  /\ call = [s \in Streams |-> [pc |-> "idle", session |-> Nobody, after |-> 0]]
  /\ active = {}
  /\ recovery = [unsent |-> NoStreams, sent |-> NoStreams, awaiting |-> NoStreams, epoch |-> 0]
  /\ timers = [running |-> {}, taken |-> {}]
  /\ listener = [pc |-> "select", session |-> 1]
  /\ stream = [s \in Streams |-> "open"]
  /\ out = [s \in Streams |-> <<>>]

(* The streams an event of a session speaks of; an unscoped event speaks of all *)
Of(who) == {s \in active : who = Nobody \/ call[s].session = who}

--------------------------------------------------------------------------------
(***************************************************************************)
(* The event bus and the connection behind it.                             *)
(***************************************************************************)
Event(kind, who) == [kind |-> kind, session |-> who, ids |-> {}, seq |-> 0]

(* EventBus.emit: only a handshake is compared by its sequence *)
Emit(event) ==
  LET n == IF event.kind = "authenticated" THEN sequence + 1 ELSE sequence
  IN /\ Len(bus) < MaxBus
     /\ sequence' = n
     /\ bus' = IF listener.pc = "done" THEN bus ELSE Append(bus, [event EXCEPT !.seq = n])
     /\ UNCHANGED <<lagged, lags>>

(* Other events overrun the ring of 1024 and events that were waiting in it *)
Overrun ==
  /\ lags < MaxLags /\ listener.pc # "done"
  /\ \E lost \in 1 .. Len(bus) : bus' = SubSeq(bus, lost + 1, Len(bus))
  /\ lagged' = TRUE /\ lags' = lags + 1
  /\ UNCHANGED <<session, closed, connVars, sequence, call, chatVars, timers, listener>>

ConnSide == UNCHANGED <<session, closed, chatVars, timers, listener>>

(* A new connection is attempted, and announced; a legacy peer will list nothing *)
Connecting ==
  /\ conn.pc = "idle" /\ ~closed /\ attempts < MaxAttempts
  /\ attempts' = attempts + 1
  /\ \E peer \in Peers :
       conn' = [conn EXCEPT !.pc = "opening",
                            !.hello = IF peer = "legacy" THEN Unlisted ELSE NoFrame]
  /\ Emit(Event("connecting", session))
  /\ UNCHANGED <<jobs, call>>
  /\ ConnSide

(* The peer accepts, and writes its handshake: a modern one lists what it still runs *)
Open ==
  /\ conn.pc = "opening" /\ ~closed
  /\ conn' = [pc |-> "open", session |-> session, ready |-> FALSE,
              hello |-> IF conn.hello = Unlisted THEN Unlisted
                        ELSE {s \in Streams : jobs[s] = "running" /\ call[s].session = session}]
  /\ UNCHANGED <<attempts, jobs, busVars, call>>
  /\ ConnSide

(* handle_socket_frame of the handshake *)
Handshake ==
  /\ conn.pc = "open" /\ conn.session = session /\ conn.hello # NoFrame
  /\ Emit([Event("authenticated", conn.session) EXCEPT !.ids = conn.hello])
  /\ conn' = [conn EXCEPT !.ready = TRUE, !.hello = NoFrame]
  /\ UNCHANGED <<attempts, jobs, call>>
  /\ ConnSide

(* A peer that stays silent for 10 s counts as ready *)
LegacyReady ==
  /\ conn.pc = "open" /\ ~conn.ready
  /\ conn.hello = Unlisted
  /\ conn' = [conn EXCEPT !.ready = TRUE]
  /\ UNCHANGED <<attempts, jobs, busVars, call>>
  /\ ConnSide

(* The calls whose commands a closing connection of their session drops *)
Refused(who) ==
  [s \in Streams |-> IF call[s].pc = "sending" /\ call[s].session = who
                       THEN [call[s] EXCEPT !.pc = "refused"] ELSE call[s]]

(* The connection is lost; the peer keeps any of the jobs it ran *)
Lose ==
  /\ conn.pc \in {"opening", "open"} /\ attempts < MaxAttempts
  /\ conn' = [conn EXCEPT !.pc = "idle", !.ready = FALSE, !.hello = NoFrame]
  /\ \E gone \in SUBSET {s \in Streams : jobs[s] = "running"} :
       jobs' = [s \in Streams |-> IF s \in gone THEN "gone" ELSE jobs[s]]
  /\ IF conn.pc = "open" THEN Emit(Event("connecting", conn.session)) ELSE UNCHANGED busVars
  /\ UNCHANGED <<attempts, call>>
  /\ ConnSide

(* The peer closes it: the manager suspends.  4015 says that another connection took over *)
PeerCloses ==
  /\ conn.pc = "open" /\ conn.session = session
  /\ conn' = [conn EXCEPT !.pc = "suspended", !.ready = FALSE, !.hello = NoFrame]
  /\ \E kind \in Closes : Emit(Event(kind, conn.session))
  /\ \E gone \in SUBSET {s \in Streams : jobs[s] = "running"} :
       jobs' = [s \in Streams |-> IF s \in gone THEN "gone" ELSE jobs[s]]
  /\ call' = Refused(conn.session)
  /\ UNCHANGED attempts
  /\ ConnSide

(* A queued command wakes a suspended manager *)
Wake ==
  /\ conn.pc = "suspended" /\ \E s \in Streams : call[s].pc = "sending"
  /\ conn' = [conn EXCEPT !.pc = "idle"]
  /\ UNCHANGED <<attempts, jobs, busVars, call>>
  /\ ConnSide

(* The connection of a session that ended is closed, for good when the client is *)
AuthChanged ==
  /\ conn.pc = "open" /\ conn.session # session
  /\ conn' = [conn EXCEPT !.pc = "idle", !.ready = FALSE, !.hello = NoFrame]
  /\ Emit(Event("disconnected", IF closed THEN Nobody ELSE conn.session))
  /\ UNCHANGED <<attempts, jobs, call>>
  /\ ConnSide

(* The account changes, or the client is closed *)
ChangeAccount ==
  /\ ~closed
  /\ \/ session <= MaxSession /\ UNCHANGED closed
     \/ closed' = TRUE
  /\ session' = session + 1
  /\ conn' = IF conn.pc = "suspended" THEN [conn EXCEPT !.pc = "idle"] ELSE conn
  /\ UNCHANGED <<attempts, jobs, busVars, call, chatVars, timers, listener>>

(* The manager writes a queued request and reads the sequence of the bus *)
Write(s) ==
  /\ call[s].pc = "sending" /\ call[s].session = conn.session
  /\ conn.pc = "open" /\ conn.ready /\ session = conn.session
  /\ jobs' = [jobs EXCEPT ![s] = "running"]
  /\ call' = [call EXCEPT ![s].pc = "written", ![s].after = sequence]
  /\ UNCHANGED <<conn, attempts, busVars>>
  /\ ConnSide

(* The write fails, after its frame left or not, and with it the connection *)
WriteFails(s) ==
  /\ call[s].pc = "sending" /\ call[s].session = conn.session
  /\ conn.pc = "open" /\ conn.ready /\ session = conn.session
  /\ attempts < MaxAttempts
  /\ \E left \in BOOLEAN : jobs' = [jobs EXCEPT ![s] = IF left THEN "running" ELSE "none"]
  /\ call' = [call EXCEPT ![s].pc = "refused"]
  /\ conn' = [conn EXCEPT !.pc = "idle", !.ready = FALSE, !.hello = NoFrame]
  /\ Emit(Event("connecting", conn.session))
  /\ UNCHANGED attempts
  /\ ConnSide

(* What the peer sends of a job it runs *)
Tell(s, kind) ==
  /\ jobs[s] = "running"
  /\ conn.pc = "open" /\ conn.session = session /\ call[s].session = session
  /\ Emit([Event(kind, conn.session) EXCEPT !.ids = {s}])
  /\ UNCHANGED <<conn, attempts, call>>
  /\ ConnSide

(* One token is enough, and a state where it can stop a timer *)
Progress(s) ==
  /\ \A i \in DOMAIN bus : bus[i].ids # {s}
  /\ \/ Len(out[s]) = 0 /\ listener.pc # "push" /\ Tell(s, "token")
     \/ s \in DOMAIN recovery.awaiting /\ Tell(s, "state")
  /\ UNCHANGED jobs

Finish(s) ==
  /\ \E kind \in {"result", "error"} : Tell(s, kind)
  /\ jobs' = [jobs EXCEPT ![s] = "finished"]

--------------------------------------------------------------------------------
(***************************************************************************)
(* TransportRecovery, and how a stream ends.                               *)
(***************************************************************************)
(* A map after an insertion for some streams, and after a removal *)
With(f, set, value) == [s \in DOMAIN f \cup set |-> IF s \in set THEN value ELSE f[s]]
Without(f, gone) == Restrict(f, DOMAIN f \ gone)

(* TransportRecovery.submitting *)
NewPending == [closed |-> FALSE, handshake |-> 0, kept |-> FALSE]

(* TransportRecovery.forget *)
Forgotten(s) == [recovery EXCEPT !.unsent = Without(@, {s}), !.sent = Without(@, {s}),
                                 !.awaiting = Without(@, {s})]

(* Fault: whoever reports an end ends the stream, removed or not *)
EndAnyway(s, state, how) ==
  /\ active' = active \ {s}
  /\ recovery' = Forgotten(s)
  /\ stream' = [stream EXCEPT ![s] = state]
  /\ out' = [out EXCEPT ![s] = Append(@, how)]

(* handle_result and handle_error: who removes the stream ends it *)
End(s, state, how) ==
  /\ active' = active \ {s}
  /\ recovery' = Forgotten(s)
  /\ IF s \in active
       THEN /\ stream' = [stream EXCEPT ![s] = state]
            /\ out' = [out EXCEPT ![s] = Append(@, how)]
       ELSE UNCHANGED <<stream, out>>

Fail(s, how) == End(s, "error", how)

(* Fault: a receipt after the end of its stream is recorded all the same *)
JudgeEnded(s) ==
  IF s \notin DOMAIN recovery.unsent THEN "sent"
  ELSE LET pending == recovery.unsent[s]
       IN IF pending.closed THEN "terminal"
          ELSE IF pending.handshake > call[s].after /\ ~pending.kept THEN "handshake" ELSE "sent"

(* Fault: a handshake judges the writes that followed it, too *)
JudgeAnyWrite(s) ==
  IF s \notin DOMAIN recovery.unsent THEN "ended"
  ELSE LET pending == recovery.unsent[s]
       IN IF pending.closed THEN "terminal"
          ELSE IF pending.handshake > 0 /\ ~pending.kept THEN "handshake" ELSE "sent"

(* What submitted finds that the listener noted while the request was being sent *)
Judge(s) ==
  IF s \notin DOMAIN recovery.unsent THEN "ended"
  ELSE LET pending == recovery.unsent[s]
       IN IF pending.closed THEN "terminal"
          ELSE IF pending.handshake > call[s].after /\ ~pending.kept THEN "handshake" ELSE "sent"

--------------------------------------------------------------------------------
(***************************************************************************)
(* start_completion, and the caller who waits for what it returned.        *)
(***************************************************************************)
CallSide == UNCHANGED <<session, closed, connVars, busVars, timers, listener>>
At(s, position) == call[s].pc = position
Goto(s, position) == call' = [call EXCEPT ![s].pc = position]

(* The session of the call is taken before its images are fetched *)
Prepare(s) ==
  /\ At(s, "idle") /\ ~closed
  /\ call' = [call EXCEPT ![s].pc = "prepared", ![s].session = session]
  /\ UNCHANGED chatVars
  /\ CallSide

Submitting(s) ==
  /\ At(s, "prepared")
  /\ IF call[s].session # session
       THEN Goto(s, "failed") /\ UNCHANGED recovery
       ELSE /\ recovery' = [recovery EXCEPT !.unsent = With(@, {s}, NewPending)]
            /\ Goto(s, "submitting")
  /\ UNCHANGED <<active, stream, out>>
  /\ CallSide

Insert(s) ==
  /\ At(s, "submitting")
  /\ active' = active \cup {s}
  /\ Goto(s, "sending")
  /\ UNCHANGED <<recovery, stream, out>>
  /\ CallSide

(* The send fails: its session ended, or its time is over, perhaps while it is written *)
Refuse(s) ==
  /\ At(s, "sending")
  /\ \/ UNCHANGED jobs
     \/ /\ conn.pc = "open" /\ conn.ready /\ conn.session = call[s].session
        /\ jobs' = [jobs EXCEPT ![s] = "running"]
  /\ Goto(s, "refused")
  /\ UNCHANGED <<session, closed, conn, attempts, busVars, timers, listener, chatVars>>

(* The receipt is read, unless the session of the call has ended since *)
Acknowledge(s) ==
  /\ At(s, "written")
  /\ Goto(s, IF call[s].session = session THEN "accepted" ELSE "refused")
  /\ UNCHANGED chatVars
  /\ CallSide

(* submitted: the receipt meets what the listener noted *)
Submitted(s) ==
  /\ At(s, "accepted")
  /\ LET verdict == Judge(s)
     IN /\ recovery' = [recovery EXCEPT
             !.unsent = Without(@, {s}),
             !.sent = IF verdict = "sent" THEN With(@, {s}, call[s].after) ELSE @]
        /\ Goto(s, CASE verdict = "terminal" -> "closed"
                     [] verdict = "handshake" -> "missing"
                     [] OTHER -> "started")
  /\ UNCHANGED <<active, stream, out>>
  /\ CallSide

SettleSubmitted(s) ==
  /\ \/ At(s, "closed") /\ Fail(s, "terminal")
     \/ At(s, "missing") /\ Fail(s, "handshake")
  /\ Goto(s, "started")
  /\ CallSide

(* The error path of start_completion *)
Withdraw(s) ==
  /\ At(s, "refused")
  /\ Goto(s, "removed")
  /\ active' = active \ {s}
  /\ UNCHANGED <<recovery, stream, out>>
  /\ CallSide

(* A caller that is cancelled, or out of time, takes the stream back *)
Leave(s) ==
  /\ At(s, "started")
  /\ Goto(s, "leaving")
  /\ active' = active \ {s}
  /\ UNCHANGED <<recovery, stream, out>>
  /\ CallSide

Forget(s) ==
  /\ \/ At(s, "removed") /\ Goto(s, "failed")
     \/ At(s, "leaving") /\ Goto(s, "left")
  /\ recovery' = Forgotten(s)
  /\ UNCHANGED <<active, stream, out>>
  /\ CallSide

(* The caller drops the call itself: nothing is taken back *)
Drop(s) ==
  /\ call[s].pc \in {"sending", "written"}
  /\ Goto(s, "dropped")
  /\ UNCHANGED chatVars
  /\ CallSide

(* ChatStream.wait *)
Return(s) ==
  /\ At(s, "started") /\ stream[s] # "open"
  /\ Goto(s, "returned")
  /\ UNCHANGED chatVars
  /\ CallSide

--------------------------------------------------------------------------------
(***************************************************************************)
(* The listener.  It looks at the session before it receives.              *)
(***************************************************************************)
ListenerSide == UNCHANGED <<session, closed, connVars, sequence, lags, call>>
Listening == [pc |-> "select", session |-> listener.session]
Doing(pc, event, ids) ==
  [pc |-> pc, session |-> listener.session, event |-> event, ids |-> ids]
Receivable == listener.pc = "select" /\ listener.session = session

(* end_previous_sessions *)
EndSessions ==
  /\ listener.pc = "select" /\ listener.session # session
  /\ listener' = Doing("ending", Event("session", Nobody),
                       {s \in active : call[s].session # session})
  /\ UNCHANGED <<bus, lagged, chatVars, timers>>
  /\ ListenerSide

(* take_active_snapshot *)
TakeLagged ==
  /\ Receivable /\ lagged
  /\ lagged' = FALSE
  /\ active' = {}
  /\ listener' = Doing("lag", Event("lag", Nobody), active)
  /\ UNCHANGED <<bus, recovery, stream, out, timers>>
  /\ ListenerSide

(* Fault: whatever session an event comes from, it speaks of every stream *)
SnapshotOfAll(event) == {s \in active : TRUE}

(* The streams a handler collects before it takes the recovery lock *)
Snapshot(event) == Of(event.session)

(* A frame of an account that ended is not for this one *)
Outdated(event) ==
  event.kind \in {"token", "state", "result", "error"} /\ event.session # session

(* handle_chat_event, up to the first lock it gives back *)
Receive ==
  /\ Receivable /\ ~lagged /\ bus # <<>>
  /\ bus' = Tail(bus)
  /\ LET event == Head(bus)
         heard == ~Outdated(event) /\ event.ids # Unlisted
     IN \/ ~heard /\ UNCHANGED <<chatVars, listener>>
        \/ /\ heard /\ event.kind \in {"token", "state"}
           /\ recovery' = [recovery EXCEPT !.awaiting = Without(@, event.ids)]
           /\ listener' = IF event.kind = "token" THEN Doing("push", event, event.ids)
                                                  ELSE listener
           /\ UNCHANGED <<active, stream, out>>
        \/ /\ heard /\ event.kind = "result"
           /\ \E s \in event.ids : End(s, "complete", "result")
           /\ UNCHANGED listener
        \/ /\ heard /\ event.kind = "error"
           /\ \E s \in event.ids : Fail(s, "reported")
           /\ UNCHANGED listener
        \/ /\ heard /\ event.kind \notin {"token", "state", "result", "error"}
           /\ listener' = Doing("judge", event, Snapshot(event))
           /\ UNCHANGED chatVars
  /\ UNCHANGED <<lagged, timers>>
  /\ ListenerSide

(* handle_tokens, under the lock of the active streams *)
Push ==
  /\ listener.pc = "push"
  /\ out' = [s \in Streams |-> IF s \in listener.ids \cap active
                                 THEN Append(out[s], "chunk") ELSE out[s]]
  /\ listener' = Listening
  /\ UNCHANGED <<bus, lagged, active, recovery, stream, timers>>
  /\ ListenerSide

(* Fault: the next handshake is trusted to tell what became of the streams *)
LostTrusting ==
  /\ listener.pc = "judge" /\ listener.event.kind \in {"connecting", "switched"}
  /\ listener' = Listening
  /\ UNCHANGED <<bus, lagged, chatVars, timers>>
  /\ ListenerSide

(* lost: sent streams that are not waited for yet get a new timer *)
Lost ==
  /\ listener.pc = "judge" /\ listener.event.kind \in {"connecting", "switched"}
  /\ LET added == listener.ids \ (DOMAIN recovery.unsent \cup DOMAIN recovery.awaiting)
         epoch == recovery.epoch + 1
     IN IF added = {} THEN UNCHANGED <<recovery, timers>>
        ELSE /\ recovery' = [recovery EXCEPT !.epoch = epoch,
                               !.awaiting = With(@, added, epoch)]
             /\ timers' = [timers EXCEPT !.running = @ \cup {epoch}]
  /\ listener' = Listening
  /\ UNCHANGED <<bus, lagged, active, stream, out>>
  /\ ListenerSide

(* closed, with a code that ends the work of its session *)
Closed ==
  /\ listener.pc = "judge" /\ listener.event.kind = "disconnected"
  /\ recovery' = [recovery EXCEPT !.unsent =
       [s \in DOMAIN @ |-> IF listener.event.session \in {Nobody, call[s].session}
                             THEN [@[s] EXCEPT !.closed = TRUE] ELSE @[s]]]
  /\ listener' = Doing("failing", listener.event, listener.ids \ DOMAIN recovery.unsent)
  /\ UNCHANGED <<bus, lagged, active, stream, out, timers>>
  /\ ListenerSide

(* authenticated: only a write before the frame can be missing from it *)
Missing(s, event) ==
  /\ s \notin event.ids
  /\ s \in DOMAIN recovery.sent => recovery.sent[s] < event.seq

(* The verdict of the latest frame waits for the receipt *)
Noted(pending, event, s) ==
  IF pending.handshake < event.seq
    THEN [pending EXCEPT !.handshake = event.seq, !.kept = s \in event.ids] ELSE pending

Authenticated ==
  /\ listener.pc = "judge" /\ listener.event.kind = "authenticated"
  /\ LET event == listener.event
     IN /\ recovery' = [recovery EXCEPT
             !.awaiting = Without(@, listener.ids),
             !.unsent = [s \in DOMAIN @ |-> IF s \in listener.ids
                                              THEN Noted(@[s], event, s) ELSE @[s]]]
        /\ listener' = Doing("failing", event,
             {s \in listener.ids \ DOMAIN recovery.unsent : Missing(s, event)})
  /\ UNCHANGED <<bus, lagged, active, stream, out, timers>>
  /\ ListenerSide

(* What a handler found is failed one stream after the other *)
FailNext ==
  /\ listener.pc \in {"ending", "failing"}
  /\ \E s \in listener.ids :
       /\ Fail(s, IF listener.pc = "ending" THEN "session"
                  ELSE IF listener.event.kind = "disconnected" THEN "terminal" ELSE "handshake")
       /\ listener' = [listener EXCEPT !.ids = @ \ {s}]
  /\ UNCHANGED <<bus, lagged, timers>>
  /\ ListenerSide

(* fail_lagged_snapshot: the streams are no longer in the map *)
FailLagged ==
  /\ listener.pc = "lag"
  /\ \E s \in listener.ids :
       /\ recovery' = Forgotten(s)
       /\ stream' = [stream EXCEPT ![s] = "error"]
       /\ out' = [out EXCEPT ![s] = Append(@, "lag")]
       /\ listener' = [listener EXCEPT !.ids = @ \ {s}]
  /\ UNCHANGED <<bus, lagged, active, timers>>
  /\ ListenerSide

(* The session is read again after its predecessors were ended *)
Resume ==
  /\ listener.pc \in {"ending", "failing", "lag"} /\ listener.ids = {}
  /\ listener' = IF listener.pc # "ending" THEN Listening
                 ELSE [pc |-> IF closed THEN "done" ELSE "select", session |-> session]
  /\ bus' = IF listener.pc = "ending" /\ closed THEN <<>> ELSE bus
  /\ UNCHANGED <<lagged, chatVars, timers>>
  /\ ListenerSide

--------------------------------------------------------------------------------
(***************************************************************************)
(* The timers that lost starts.                                            *)
(***************************************************************************)
Due(epoch) == {s \in DOMAIN recovery.awaiting : recovery.awaiting[s] = epoch}

TimerSide == UNCHANGED <<session, closed, connVars, busVars, call, listener>>

(* expire *)
Expire(epoch) ==
  /\ epoch \in timers.running
  /\ recovery' = [recovery EXCEPT !.awaiting = Without(@, Due(epoch))]
  /\ timers' = [running |-> timers.running \ {epoch}, taken |-> timers.taken \cup Due(epoch)]
  /\ UNCHANGED <<active, stream, out>>
  /\ TimerSide

FailTaken(s) ==
  /\ s \in timers.taken
  /\ Fail(s, "silence")
  /\ timers' = [timers EXCEPT !.taken = @ \ {s}]
  /\ TimerSide

--------------------------------------------------------------------------------
Manager == Connecting \/ Open \/ Handshake \/ LegacyReady \/ Wake \/ AuthChanged
Environment == ChangeAccount \/ Lose \/ PeerCloses \/ Overrun
CallStep(s) ==
  \/ Submitting(s) \/ Insert(s) \/ Acknowledge(s) \/ Submitted(s) \/ SettleSubmitted(s)
  \/ Withdraw(s) \/ Forget(s) \/ Return(s)
Listen ==
  \/ EndSessions \/ TakeLagged \/ Receive \/ Push \/ Lost \/ Closed \/ Authenticated
  \/ FailNext \/ FailLagged \/ Resume

(* A caller who leaves cannot tell how a stream ends: here they stay *)
StayNext ==
  \/ Manager \/ Environment \/ Listen
  \/ \E s \in Streams :
       \/ Prepare(s) \/ CallStep(s) \/ Refuse(s) \/ Drop(s)
       \/ Write(s) \/ WriteFails(s) \/ Progress(s) \/ Finish(s) \/ FailTaken(s)
  \/ \E epoch \in timers.running : Expire(epoch)

Next == StayNext \/ \E s \in Streams : Leave(s)

Spec == Init /\ [][Next]_vars

(* Every task of the client runs on, timers end, the peer settles what it runs *)
Fairness ==
  /\ WF_vars(Manager) /\ WF_vars(Listen)
  /\ WF_vars(\E epoch \in timers.running : Expire(epoch))
  /\ \A s \in Streams :
       /\ WF_vars(CallStep(s) \/ Refuse(s)) /\ WF_vars(Finish(s)) /\ WF_vars(FailTaken(s))

FairSpec == Init /\ [][StayNext]_vars /\ Fairness

--------------------------------------------------------------------------------
(***************************************************************************)
(* Properties.                                                             *)
(***************************************************************************)
Terminals == {"result", "reported", "handshake", "silence", "terminal", "session", "lag"}
Positions == {"idle", "prepared", "submitting", "sending", "written", "accepted", "closed",
              "missing", "started", "refused", "removed", "leaving", "failed", "left",
              "dropped", "returned"}

(* The types of the state *)
TypeOK ==
  /\ session \in Sessions /\ closed \in BOOLEAN
  /\ jobs \in [Streams -> {"none", "running", "gone", "finished"}]
  /\ call \in [Streams -> [pc : Positions, session : Sessions \cup {Nobody}, after : Nat]]
  /\ active \subseteq Streams
  /\ recovery.unsent \in [DOMAIN recovery.unsent ->
                            [closed : BOOLEAN, handshake : Nat, kept : BOOLEAN]]
  /\ recovery.sent \in [DOMAIN recovery.sent -> Nat]
  /\ recovery.awaiting \in [DOMAIN recovery.awaiting -> 1 .. recovery.epoch]
  /\ timers.running \subseteq 1 .. recovery.epoch /\ timers.taken \subseteq Streams
  /\ stream \in [Streams -> {"open", "complete", "error"}]
  /\ out \in [Streams -> Seq(Terminals \cup {"chunk"})]

(* A caller is given at most one end of its stream, as the last thing, although the       *)
(* listener, the timers, the receipt and the caller itself may all try to end it.         *)
OneTerminal ==
  \A s \in Streams : \A i \in DOMAIN out[s] :
    out[s][i] \in Terminals => i = Len(out[s])

(* A stream failed because a handshake does not list it is not run by the peer: neither a *)
(* request written after that frame nor one a later frame lists may be failed by it, in   *)
(* whatever order the receipt and the frames are handled.  A stream that its own receipt  *)
(* found closed is being failed anyway.                                                   *)
MissingIsTrue ==
  [][\A s \in Streams : out'[s] = Append(out[s], "handshake") =>
       jobs[s] # "running" \/ At(s, "closed")]_vars

(* What ended leaves nothing behind in the recovery maps once its call is over, except an *)
(* entry that a listener overtaken by the end still makes: its timer removes that one.    *)
NoLeftovers ==
  /\ \A s \in Streams :
       /\ call[s].pc \in {"failed", "left", "returned"}
          \/ (At(s, "started") /\ stream[s] # "open")
       /\ listener.pc = "select"
       => s \notin DOMAIN recovery.unsent \cup DOMAIN recovery.sent
  /\ Range(recovery.awaiting) \subseteq timers.running

(* An event of one account's connection, however late it is heard, neither ends nor feeds *)
(* a stream of another account, and does not mark its request or stop its timer.          *)
Hears ==
  \/ listener.pc \in {"judge", "failing", "push"} /\ listener' # listener
  \/ listener.pc = "select" /\ bus # <<>> /\ bus' = Tail(bus) /\ ~lagged'
Heard == IF listener.pc = "select" THEN Head(bus) ELSE listener.event

OwnEventsOnly ==
  [][Hears => \A s \in Streams :
       Heard.session \in {Nobody, call[s].session} \/
       /\ out'[s] = out[s]
       /\ s \in DOMAIN recovery.unsent => recovery'.unsent[s] = recovery.unsent[s]
       /\ s \in DOMAIN recovery.awaiting => s \in DOMAIN recovery'.awaiting]_vars

(* What no timer bounds: a write whose receipt is not handled yet when the loss of its    *)
(* connection is heard, if the next peer lists no jobs, or if no peer follows (4015)       *)
UnlistedAhead == conn.hello = Unlisted \/ \E i \in DOMAIN bus : bus[i].ids = Unlisted
LeftOut(s) ==
  /\ listener.pc = "judge" /\ s \in listener.ids \cap DOMAIN recovery.unsent
  /\ \/ listener.event.kind = "switched"
     \/ listener.event.kind = "connecting" /\ UnlistedAhead

(* A started stream ends although its connection is lost or closed and the peer forgets   *)
(* its job, whether the next peer lists what it kept or leaves that to the timers, unless *)
(* the stream was left out when the loss was heard.                                       *)
StreamsEnd ==
  \A s \in Streams :
    <>LeftOut(s) \/ (At(s, "started") ~> stream[s] # "open")
================================================================================
