--------------------------- MODULE ChatStreamProofs ---------------------------
(***************************************************************************)
(* What chat streams promise their callers, for any set of streams, peers  *)
(* and closes, and any number of accounts, connections and lags.           *)
(***************************************************************************)
EXTENDS ChatStream, TLAPS

--------------------------------------------------------------------------------
(***************************************************************************)
(* Types.  TypeOK says nothing of the listener, the bus and the connection *)
(* that its own step would need; this does.                                *)
(***************************************************************************)
Kinds == {"connecting", "authenticated", "disconnected", "switched", "token", "state", "result",
          "error", "session", "lag"}
Events == [kind : Kinds, session : Nat, ids : (SUBSET Streams) \cup {Unlisted}, seq : Nat]
Conns == [pc : {"idle", "opening", "open", "suspended"}, session : Nat,
          hello : (SUBSET Streams) \cup {NoFrame, Unlisted}, ready : BOOLEAN]
Resting == [pc : {"select", "done"}, session : Nat]
Busy == [pc : {"ending", "lag", "push", "judge", "failing"}, session : Nat, event : Events,
         ids : SUBSET Streams]
Pendings == [closed : BOOLEAN, handshake : Nat, kept : BOOLEAN]
Calls == [pc : Positions, session : Nat, after : Nat]

(* Maps from some of the streams *)
Maps(values) == UNION {[some -> values] : some \in SUBSET Streams}

Recoveries == [unsent : Maps(Pendings), sent : Maps(Nat), awaiting : Maps(Nat), epoch : Nat]

Types ==
  /\ session \in Nat \ {0} /\ closed \in BOOLEAN
  /\ conn \in Conns
  /\ jobs \in [Streams -> {"none", "running", "gone", "finished"}]
  /\ bus \in Seq(Events) /\ sequence \in Nat
  /\ call \in [Streams -> Calls]
  /\ active \subseteq Streams
  /\ recovery \in Recoveries
  /\ timers \in [running : SUBSET Nat, taken : SUBSET Streams]
  /\ listener \in Resting \cup Busy
  /\ stream \in [Streams -> {"open", "complete", "error"}]
  /\ out \in [Streams -> Seq(Terminals \cup {"chunk"})]

LEMMA MapFacts ==
  ASSUME NEW values, NEW f
  PROVE  f \in Maps(values) <=> f \in [DOMAIN f -> values] /\ DOMAIN f \subseteq Streams
BY DEF Maps

LEMMA WithoutFacts ==
  ASSUME NEW values, NEW f \in Maps(values), NEW gone
  PROVE  /\ Without(f, gone) \in Maps(values)
         /\ DOMAIN Without(f, gone) = DOMAIN f \ gone
         /\ \A s \in DOMAIN f \ gone : Without(f, gone)[s] = f[s]
<1>1. f \in [DOMAIN f -> values] /\ DOMAIN f \subseteq Streams
  BY MapFacts
<1>2. /\ DOMAIN Without(f, gone) = DOMAIN f \ gone
      /\ \A s \in DOMAIN f \ gone : Without(f, gone)[s] = f[s]
  BY DEF Without, Restrict
<1>3. Without(f, gone) \in [DOMAIN f \ gone -> values]
  BY <1>1 DEF Without, Restrict
<1>4. QED BY <1>1, <1>2, <1>3, MapFacts

LEMMA WithFacts ==
  ASSUME NEW values, NEW f \in Maps(values), NEW set \in SUBSET Streams, NEW value \in values
  PROVE  /\ With(f, set, value) \in Maps(values)
         /\ DOMAIN With(f, set, value) = DOMAIN f \cup set
<1>1. f \in [DOMAIN f -> values] /\ DOMAIN f \subseteq Streams
  BY MapFacts
<1>2. DOMAIN With(f, set, value) = DOMAIN f \cup set
  BY DEF With
<1>3. With(f, set, value) \in [DOMAIN f \cup set -> values]
  BY <1>1 DEF With
<1>4. QED BY <1>1, <1>2, <1>3, MapFacts

LEMMA PutFacts ==
  ASSUME NEW values, NEW f \in Maps(values), NEW s \in Streams, NEW value \in values
  PROVE  /\ With(f, {s}, value) \in Maps(values)
         /\ DOMAIN With(f, {s}, value) = DOMAIN f \cup {s}
BY WithFacts

(* The maps of TransportRecovery *)
Unsent == recovery.unsent
Sent == recovery.sent
Awaiting == recovery.awaiting

LEMMA RecoveryFields ==
  recovery \in Recoveries =>
    /\ Unsent \in Maps(Pendings) /\ Sent \in Maps(Nat) /\ Awaiting \in Maps(Nat)
    /\ recovery.epoch \in Nat
BY DEF Recoveries, Unsent, Sent, Awaiting

Forgets(s) ==
  /\ DOMAIN Unsent' = DOMAIN Unsent \ {s}
  /\ \A t \in DOMAIN Unsent \ {s} : Unsent'[t] = Unsent[t]
  /\ DOMAIN Sent' = DOMAIN Sent \ {s}
  /\ \A t \in DOMAIN Sent \ {s} : Sent'[t] = Sent[t]
  /\ DOMAIN Awaiting' = DOMAIN Awaiting \ {s}
  /\ \A t \in DOMAIN Awaiting \ {s} : Awaiting'[t] = Awaiting[t]

LEMMA ForgottenFields ==
  ASSUME recovery \in Recoveries, NEW s,
         Unsent' = Without(Unsent, {s}), Sent' = Without(Sent, {s}),
         Awaiting' = Without(Awaiting, {s})
  PROVE  /\ Unsent' \in Maps(Pendings) /\ Sent' \in Maps(Nat) /\ Awaiting' \in Maps(Nat)
         /\ Forgets(s)
<1>1. ASSUME NEW values, NEW f \in Maps(values), NEW g, g = Without(f, {s})
      PROVE  /\ g \in Maps(values) /\ DOMAIN g = DOMAIN f \ {s}
             /\ \A t \in DOMAIN f \ {s} : g[t] = f[t]
  BY <1>1, WithoutFacts, ZenonT(40)
<1>2. /\ Unsent' \in Maps(Pendings) /\ DOMAIN Unsent' = DOMAIN Unsent \ {s}
      /\ \A t \in DOMAIN Unsent \ {s} : Unsent'[t] = Unsent[t]
  <2>1. Unsent \in Maps(Pendings)
    BY RecoveryFields
  <2>2. QED BY <1>1, <2>1
<1>3. /\ Sent' \in Maps(Nat) /\ DOMAIN Sent' = DOMAIN Sent \ {s}
      /\ \A t \in DOMAIN Sent \ {s} : Sent'[t] = Sent[t]
  <2>1. Sent \in Maps(Nat)
    BY RecoveryFields
  <2>2. QED BY <1>1, <2>1
<1>4. /\ Awaiting' \in Maps(Nat) /\ DOMAIN Awaiting' = DOMAIN Awaiting \ {s}
      /\ \A t \in DOMAIN Awaiting \ {s} : Awaiting'[t] = Awaiting[t]
  <2>1. Awaiting \in Maps(Nat)
    BY RecoveryFields
  <2>2. QED BY <1>1, <2>1
<1>5. QED BY <1>2, <1>3, <1>4 DEF Forgets

LEMMA ForgottenFacts ==
  ASSUME recovery \in Recoveries, NEW s, recovery' = Forgotten(s)
  PROVE  recovery' \in Recoveries /\ recovery'.epoch = recovery.epoch /\ Forgets(s)
<1>1. recovery' = [unsent |-> Without(Unsent, {s}), sent |-> Without(Sent, {s}),
                   awaiting |-> Without(Awaiting, {s}), epoch |-> recovery.epoch]
  BY DEF Recoveries, Forgotten, Unsent, Sent, Awaiting
<1>2. /\ Unsent' = Without(Unsent, {s}) /\ Sent' = Without(Sent, {s})
      /\ Awaiting' = Without(Awaiting, {s}) /\ recovery'.epoch = recovery.epoch
  BY <1>1 DEF Unsent, Sent, Awaiting
<1>3. /\ Unsent' \in Maps(Pendings) /\ Sent' \in Maps(Nat) /\ Awaiting' \in Maps(Nat)
      /\ Forgets(s)
  BY <1>2, ForgottenFields
<1>4. recovery' \in Recoveries
  BY <1>1, <1>2, <1>3, RecoveryFields DEF Recoveries
<1>5. QED BY <1>2, <1>3, <1>4

LEMMA EndFacts ==
  ASSUME Types, NEW s, NEW state \in {"complete", "error"}, NEW how \in Terminals,
         End(s, state, how)
  PROVE  /\ active' = active \ {s} /\ recovery' = Forgotten(s)
         /\ s \notin active => UNCHANGED <<stream, out>>
         /\ \A t \in Streams : t # s => stream'[t] = stream[t] /\ out'[t] = out[t]
         /\ s \in active => stream'[s] = state /\ out'[s] = Append(out[s], how)
         /\ stream' \in [Streams -> {"open", "complete", "error"}]
         /\ out' \in [Streams -> Seq(Terminals \cup {"chunk"})]
<1>1. CASE s \in active
  <2>1. /\ s \in Streams /\ out[s] \in Seq(Terminals \cup {"chunk"})
        /\ stream' = [stream EXCEPT ![s] = state] /\ out' = [out EXCEPT ![s] = Append(out[s], how)]
    BY <1>1 DEF End, Types
  <2>2. Append(out[s], how) \in Seq(Terminals \cup {"chunk"})
    BY <2>1
  <2>3. QED BY <1>1, <2>1, <2>2 DEF End, Types
<1>2. CASE s \notin active
  BY <1>2 DEF End, Types
<1>3. QED BY <1>1, <1>2

LEMMA EmitFacts ==
  ASSUME Types, NEW event \in Events, Emit(event)
  PROVE  /\ bus' \in Seq(Events) /\ sequence' \in Nat
         /\ sequence' = IF event.kind = "authenticated" THEN sequence + 1 ELSE sequence
         /\ \/ bus' = bus
            \/ \E x \in Events : /\ bus' = Append(bus, x)
                                 /\ x.kind = event.kind /\ x.session = event.session
                                 /\ x.ids = event.ids /\ x.seq = sequence'
<1>1. sequence' = IF event.kind = "authenticated" THEN sequence + 1 ELSE sequence
  BY DEF Emit
<1>2. sequence' \in Nat /\ bus \in Seq(Events)
  BY <1>1 DEF Types
<1>3. PICK x : x = [event EXCEPT !.seq = sequence']
  OBVIOUS
<1>4. x \in Events /\ x.kind = event.kind /\ x.session = event.session /\ x.ids = event.ids
      /\ x.seq = sequence'
  BY <1>2, <1>3 DEF Events
<1>5. bus' = bus \/ bus' = Append(bus, x)
  BY <1>1, <1>3 DEF Emit
<1>6. QED BY <1>1, <1>2, <1>4, <1>5

LEMMA EventFacts ==
  ASSUME NEW kind \in Kinds, NEW who \in Nat
  PROVE  /\ Event(kind, who) \in Events
         /\ Event(kind, who).kind = kind /\ Event(kind, who).session = who
         /\ \A ids \in (SUBSET Streams) \cup {Unlisted} :
              /\ [Event(kind, who) EXCEPT !.ids = ids] \in Events
              /\ [Event(kind, who) EXCEPT !.ids = ids].kind = kind
              /\ [Event(kind, who) EXCEPT !.ids = ids].session = who
              /\ [Event(kind, who) EXCEPT !.ids = ids].ids = ids
BY DEF Event, Events

(* What the connection, its peer and the account do to the calls and the bus *)
ConnAction ==
  \/ Manager \/ Environment
  \/ \E s \in Streams : Write(s) \/ WriteFails(s) \/ Progress(s) \/ Finish(s)

(* An event reaches the listener, or nobody listens any more *)
Hearing(kind, who, ids) ==
  /\ sequence' = IF kind = "authenticated" THEN sequence + 1 ELSE sequence
  /\ \/ bus' = bus
     \/ \E x \in Events : /\ bus' = Append(bus, x)
                          /\ x.kind = kind /\ x.session = who /\ x.seq = sequence'
                          /\ kind \in {"authenticated", "token", "state", "result", "error"} => x.ids = ids

LEMMA HearingType ==
  ASSUME Types, NEW kind, NEW who, NEW ids, Hearing(kind, who, ids)
  PROVE  bus' \in Seq(Events) /\ sequence' \in Nat
<1>1. sequence' \in Nat
  BY DEF Types, Hearing
<1>2. bus \in Seq(Events) /\ (bus' = bus \/ \E x \in Events : bus' = Append(bus, x))
  BY DEF Types, Hearing
<1>3. bus' \in Seq(Events)
  BY <1>2
<1>4. QED BY <1>1, <1>3

LEMMA AnnounceFacts ==
  ASSUME Types, NEW kind \in Kinds \ {"authenticated", "token", "state", "result", "error"}, NEW who \in Nat,
         Emit(Event(kind, who))
  PROVE  Hearing(kind, who, {})
BY EmitFacts, EventFacts DEF Hearing

LEMMA TellFacts ==
  ASSUME Types, NEW kind \in Kinds, NEW who \in Nat, NEW ids \in (SUBSET Streams) \cup {Unlisted},
         Emit([Event(kind, who) EXCEPT !.ids = ids])
  PROVE  Hearing(kind, who, ids)
<1>1. PICK event : event = [Event(kind, who) EXCEPT !.ids = ids]
  OBVIOUS
<1>2. event \in Events /\ event.kind = kind /\ event.session = who /\ event.ids = ids
  BY <1>1, EventFacts
<1>3. Emit(event)
  BY <1>1
<1>4. QED BY <1>2, <1>3, EmitFacts DEF Hearing

(* What a step of the connection emits *)
Announcement ==
  \/ UNCHANGED <<bus, sequence>>
  \/ /\ sequence' = sequence /\ lagged' = TRUE
     /\ \E lost \in 1 .. Len(bus) : bus' = SubSeq(bus, lost + 1, Len(bus))
  \/ \E kind \in {"connecting", "disconnected", "switched"}, who \in Nat : Hearing(kind, who, {})
  \/ Handshake /\ Hearing("authenticated", conn.session, conn.hello)
  \/ \E s \in Streams, kind \in {"token", "state", "result", "error"} :
       /\ call[s].session = session /\ jobs[s] = "running"
       /\ call' = call
       /\ Hearing(kind, session, {s})

LEMMA ConnEmits == ASSUME Types, ConnAction PROVE Announcement
<1>1. conn.session \in Nat /\ session \in Nat /\ Nobody \in Nat
      /\ conn.hello \in (SUBSET Streams) \cup {NoFrame, Unlisted}
  BY DEF Types, Conns, Nobody
<1> USE DEF Announcement
<1>2. CASE Connecting
  BY <1>1, <1>2, AnnounceFacts DEF Connecting, Kinds
<1>3. CASE Open \/ LegacyReady \/ Wake \/ ChangeAccount \/ \E s \in Streams : Write(s)
  BY <1>3 DEF Open, LegacyReady, Wake, ChangeAccount, Write, busVars
<1>4. CASE Handshake
  <2>1. conn.hello \in (SUBSET Streams) \cup {Unlisted}
    <3>1. conn.hello # NoFrame
      BY <1>4 DEF Handshake
    <3>2. QED BY <1>1, <3>1
  <2>2. Emit([Event("authenticated", conn.session) EXCEPT !.ids = conn.hello])
    BY <1>4 DEF Handshake
  <2>3. QED BY <1>1, <1>4, <2>1, <2>2, TellFacts DEF Kinds
<1>5. CASE Lose \/ \E s \in Streams : WriteFails(s)
  BY <1>1, <1>5, AnnounceFacts DEF Lose, WriteFails, Kinds, busVars
<1>6. CASE PeerCloses
  <2>1. PICK kind \in Closes : Emit(Event(kind, conn.session))
    BY <1>6 DEF PeerCloses
  <2>2. kind \in {"disconnected", "switched"}
    BY ChatAssumption
  <2>3. QED BY <1>1, <2>1, <2>2, AnnounceFacts DEF Kinds
<1>7. CASE AuthChanged
  <2>1. PICK who \in Nat : Emit(Event("disconnected", who))
    BY <1>1, <1>7 DEF AuthChanged
  <2>2. QED BY <2>1, AnnounceFacts DEF Kinds
<1>8. CASE Overrun
  BY <1>8 DEF Overrun
<1>9. ASSUME NEW s \in Streams, NEW kind \in {"token", "state", "result", "error"}, Tell(s, kind)
      PROVE  Announcement
  <2>1. Emit([Event(kind, conn.session) EXCEPT !.ids = {s}]) /\ conn.session = session
    BY <1>9 DEF Tell
  <2>2. Hearing(kind, session, {s})
    BY <1>1, <2>1, TellFacts DEF Kinds
  <2>3. QED BY <1>9, <2>2 DEF Tell
<1>10. ASSUME NEW s \in Streams, Progress(s) \/ Finish(s) PROVE Announcement
  BY <1>9, <1>10 DEF Progress, Finish
<1>11. QED BY <1>2, <1>3, <1>4, <1>5, <1>6, <1>7, <1>8, <1>10
       DEF ConnAction, Manager, Environment

(* What a step of the connection does to a call and to its job *)
Moves(s) ==
  \/ call'[s] = call[s] /\ (jobs'[s] = "running" => jobs[s] = "running")
  \/ /\ call[s].pc = "sending" /\ call'[s].pc = "refused"
     /\ call'[s].session = call[s].session /\ call'[s].after = call[s].after
     /\ conn'.hello = NoFrame
  \/ /\ Write(s) /\ call'[s].pc = "written" /\ call'[s].session = call[s].session
     /\ call'[s].after = sequence /\ UNCHANGED <<bus, sequence>>

LEMMA ConnMoves ==
  ASSUME Types, ConnAction
  PROVE  /\ call' \in [Streams -> Calls] /\ UNCHANGED <<chatVars, timers, listener>>
         /\ jobs' \in [Streams -> {"none", "running", "gone", "finished"}]
         /\ \A s \in Streams : Moves(s)
<1> DEFINE Goal == /\ call' \in [Streams -> Calls] /\ UNCHANGED <<chatVars, timers, listener>>
                   /\ jobs' \in [Streams -> {"none", "running", "gone", "finished"}]
                   /\ \A s \in Streams : Moves(s)
<1>1. /\ call \in [Streams -> Calls] /\ sequence \in Nat
      /\ jobs \in [Streams -> {"none", "running", "gone", "finished"}]
  BY DEF Types
<1>2. CASE UNCHANGED <<call, jobs, chatVars, timers, listener>>
  BY <1>1, <1>2 DEF Moves
<1>3. CASE Connecting \/ Open \/ Handshake \/ LegacyReady \/ Wake \/ AuthChanged \/ Overrun
           \/ ChangeAccount
  BY <1>2, <1>3 DEF Connecting, Open, Handshake, LegacyReady, Wake, AuthChanged, Overrun,
                    ChangeAccount, ConnSide, connVars
<1>4. CASE Lose \/ PeerCloses
  <2>1. UNCHANGED <<chatVars, timers, listener>>
    BY <1>4 DEF Lose, PeerCloses, ConnSide
  <2>2. PICK gone \in SUBSET {s \in Streams : jobs[s] = "running"} :
          jobs' = [s \in Streams |-> IF s \in gone THEN "gone" ELSE jobs[s]]
    BY <1>4 DEF Lose, PeerCloses
  <2>3. call' = call \/ \E who : call' = Refused(who)
    BY <1>4 DEF Lose, PeerCloses
  <2>4. ASSUME NEW s \in Streams
        PROVE  \/ call'[s] = call[s]
               \/ /\ call[s].pc = "sending" /\ call'[s].pc = "refused"
                  /\ call'[s].session = call[s].session /\ call'[s].after = call[s].after
    BY <1>1, <2>3 DEF Refused, Calls, Positions
  <2>5. call' \in [Streams -> Calls]
    <3>1. call' = [s \in Streams |-> call'[s]] 
      BY <1>1, <2>3 DEF Refused
    <3>2. \A s \in Streams : call'[s] \in Calls
      BY <1>1, <2>3 DEF Refused, Calls, Positions
    <3>3. QED BY <3>1, <3>2
  <2>6. \A s \in Streams : jobs'[s] = "running" => jobs[s] = "running"
    BY <2>2
  <2>7. jobs' \in [Streams -> {"none", "running", "gone", "finished"}]
    BY <1>1, <2>2
  <2>8. conn'.hello = NoFrame
    BY <1>4 DEF Lose, PeerCloses, Types, Conns
  <2>9. QED BY <2>1, <2>4, <2>5, <2>6, <2>7, <2>8 DEF Moves
<1>5. ASSUME NEW s \in Streams, Write(s) PROVE Goal
  <2>1. /\ UNCHANGED <<chatVars, timers, listener, bus, sequence>>
        /\ jobs' = [jobs EXCEPT ![s] = "running"]
        /\ call' = [call EXCEPT ![s] = [call[s] EXCEPT !.pc = "written", !.after = sequence]]
    BY <1>1, <1>5 DEF Write, ConnSide, busVars
  <2>2. /\ call[s] \in Calls
        /\ [call[s] EXCEPT !.pc = "written", !.after = sequence] \in Calls
    BY <1>1 DEF Calls, Positions
  <2>3. \A t \in Streams \ {s} : call'[t] = call[t] /\ jobs'[t] = jobs[t]
    BY <1>1, <2>1
  <2>4. /\ call'[s].pc = "written" /\ call'[s].session = call[s].session
        /\ call'[s].after = sequence
    BY <1>1, <2>1, <2>2 DEF Calls
  <2>5. /\ jobs' \in [Streams -> {"none", "running", "gone", "finished"}]
        /\ call' \in [Streams -> Calls]
    BY <1>1, <2>1, <2>2
  <2>6. QED BY <1>5, <2>1, <2>3, <2>4, <2>5 DEF Moves
<1>6. ASSUME NEW s \in Streams, WriteFails(s) PROVE Goal
  <2>1. /\ UNCHANGED <<chatVars, timers, listener>> /\ call[s].pc = "sending"
        /\ \E left \in BOOLEAN : jobs' = [jobs EXCEPT ![s] = IF left THEN "running" ELSE "none"]
        /\ call' = [call EXCEPT ![s] = [call[s] EXCEPT !.pc = "refused"]]
    BY <1>1, <1>6 DEF WriteFails, ConnSide
  <2>2. call[s] \in Calls /\ [call[s] EXCEPT !.pc = "refused"] \in Calls
    BY <1>1 DEF Calls, Positions
  <2>3. \A t \in Streams \ {s} : call'[t] = call[t] /\ jobs'[t] = jobs[t]
    BY <1>1, <2>1
  <2>4. /\ call'[s].pc = "refused" /\ call'[s].session = call[s].session
        /\ call'[s].after = call[s].after
    BY <1>1, <2>1, <2>2 DEF Calls
  <2>5. /\ jobs' \in [Streams -> {"none", "running", "gone", "finished"}]
        /\ call' \in [Streams -> Calls]
    BY <1>1, <2>1, <2>2
  <2>6. conn'.hello = NoFrame
    BY <1>6 DEF WriteFails, Types, Conns
  <2>7. QED BY <2>1, <2>3, <2>4, <2>5, <2>6 DEF Moves
<1>7. ASSUME NEW s \in Streams, Progress(s) \/ Finish(s) PROVE Goal
  <2>1. UNCHANGED <<call, chatVars, timers, listener>>
        /\ (jobs' = jobs \/ jobs' = [jobs EXCEPT ![s] = "finished"])
    BY <1>7 DEF Progress, Finish, Tell, ConnSide
  <2>2. QED BY <1>1, <2>1 DEF Moves
<1>8. QED BY <1>3, <1>4, <1>5, <1>6, <1>7 DEF ConnAction, Manager, Environment

LEMMA ConnKeepsTypes == ASSUME Types, ConnAction PROVE Types'
<1>1. bus' \in Seq(Events) /\ sequence' \in Nat
  <2>1. CASE \E lost \in 1 .. Len(bus) : bus' = SubSeq(bus, lost + 1, Len(bus)) /\ sequence' = sequence
    <3>1. bus \in Seq(Events) /\ sequence \in Nat
      BY DEF Types
    <3>2. PICK lost \in 1 .. Len(bus) : bus' = SubSeq(bus, lost + 1, Len(bus))
      BY <2>1
    <3>3. lost \in Nat \ {0} /\ Len(bus) \in Nat
      BY <3>1
    <3>4. SubSeq(bus, lost + 1, Len(bus)) \in Seq(Events)
      BY <3>1, <3>3
    <3>5. QED BY <2>1, <3>1, <3>2, <3>4
  <2>2. QED BY <2>1, ConnEmits, HearingType DEF Announcement, Types
<1>2. session' \in Nat \ {0} /\ closed' \in BOOLEAN
  <2>1. session \in Nat \ {0} /\ closed \in BOOLEAN
    BY DEF Types
  <2>2. CASE ChangeAccount
    <3>1. session' = session + 1 /\ (closed' = closed \/ closed' = TRUE)
      BY <2>2 DEF ChangeAccount
    <3>2. session' \in Nat \ {0}
      BY <2>1, <3>1
    <3>3. QED BY <2>1, <3>1, <3>2
  <2>3. CASE UNCHANGED <<session, closed>>
    BY <2>1, <2>3
  <2>4. QED BY <2>2, <2>3
         DEF ConnAction, Manager, Environment, Connecting, Open, Handshake, LegacyReady, Wake,
             AuthChanged, Lose, PeerCloses, Overrun, Write, WriteFails, Progress, Finish, Tell,
             ConnSide
<1>3. conn' \in Conns
  <2>1. conn \in Conns /\ session \in Nat
    BY DEF Types
  <2>2. CASE Open
    <3>1. conn' = [pc |-> "open", session |-> session, ready |-> FALSE,
              hello |-> IF conn.hello = Unlisted THEN Unlisted
                        ELSE {s \in Streams : jobs[s] = "running" /\ call[s].session = session}]
      BY <2>2 DEF Open
    <3>2. QED BY <2>1, <3>1 DEF Conns
  <2>3. CASE conn' = conn
    BY <2>1, <2>3
  <2>4. CASE \/ conn' = [conn EXCEPT !.pc = "idle"]
             \/ \E hello \in {NoFrame, Unlisted} :
                  conn' = [conn EXCEPT !.pc = "opening", !.hello = hello]
    BY <2>1, <2>4 DEF Conns
  <2>5. CASE conn' = [conn EXCEPT !.ready = TRUE] \/ conn' = [conn EXCEPT !.ready = TRUE, !.hello = NoFrame]
    BY <2>1, <2>5 DEF Conns
  <2>6. CASE \E pc \in {"idle", "suspended"} : conn' = [conn EXCEPT !.pc = pc, !.ready = FALSE, !.hello = NoFrame]
    BY <2>1, <2>6 DEF Conns
  <2>7. QED BY <2>2, <2>3, <2>4, <2>5, <2>6
         DEF ConnAction, Manager, Environment, Connecting, Handshake, LegacyReady, Wake,
             AuthChanged, Lose, PeerCloses, Overrun, ChangeAccount, Write, WriteFails, Progress,
             Finish, Tell, ConnSide, connVars
<1>4. QED BY <1>1, <1>2, <1>3, ConnMoves DEF Types, chatVars

--------------------------------------------------------------------------------
(***************************************************************************)
(* The invariant.                                                          *)
(***************************************************************************)
Early == {"idle", "prepared", "submitting"}

(* The streams a lag took out of the map, to be failed one by one *)
Taken == IF listener.pc = "lag" THEN listener.ids ELSE {}

Unended(s) == stream[s] = "open" /\ \A i \in DOMAIN out[s] : out[s][i] \notin Terminals
Single(s) == \A i \in DOMAIN out[s] : out[s][i] \in Terminals => i = Len(out[s])

(* What has ended is in no map, and what is to be ended has not *)
EndOf(s) ==
  /\ Single(s)
  /\ s \in active => s \notin Taken
  /\ s \in active \cup Taken => Unended(s)
  /\ call[s].pc \in Early => Unended(s) /\ s \notin Taken
  /\ stream[s] # "open" => s \notin DOMAIN Unsent \cup DOMAIN Sent

Ends == \A s \in Streams : EndOf(s)

(* Where a call stands when its stream is in one of the maps *)
Place(s) ==
  /\ call[s].pc = "submitting" => s \in DOMAIN Unsent
  /\ s \in DOMAIN Unsent =>
       call[s].pc \in {"submitting", "sending", "written", "accepted", "refused", "removed",
                       "dropped"}
  /\ s \in DOMAIN Sent => call[s].pc \in {"started", "leaving"} /\ Sent[s] = call[s].after
  /\ s \in active =>
       \/ call[s].pc \in {"sending", "written", "accepted", "refused", "dropped"}
          /\ s \in DOMAIN Unsent
       \/ call[s].pc \in {"closed", "missing"}
       \/ call[s].pc = "started" /\ s \in DOMAIN Sent
  /\ s \in DOMAIN Awaiting => Awaiting[s] \in timers.running

Places == \A s \in Streams : Place(s)

(* Nobody is at a stream that was not begun *)
Handled == IF listener.pc \in {"ending", "lag", "push", "judge", "failing"}
             THEN listener.ids ELSE {}

Begun ==
  \A s \in Streams :
    call[s].pc \in Early => s \notin DOMAIN Awaiting \cup timers.taken \cup Handled

(* An event of a stream comes from the session of its call, which sent its request *)
Own(event) ==
  /\ event.kind \in {"authenticated", "token", "state", "result", "error"} => event.session # Nobody
  /\ event.kind \in {"token", "state", "result", "error"} =>
       \A s \in Streams : s \in event.ids =>
         call[s].session = event.session /\ call[s].pc \notin Early

OwnBus == \A i \in DOMAIN bus : Own(bus[i])

OwnHearing ==
  listener.pc \in {"push", "judge", "failing"} =>
    /\ Own(listener.event)
    /\ \A s \in listener.ids : listener.event.session \in {Nobody, call[s].session}
    /\ listener.pc = "push" =>
         \A s \in listener.ids : call[s].session = listener.event.session

Hearsay ==
  /\ OwnBus
  /\ OwnHearing
  /\ \A s \in Streams : call[s].pc = "idle" => call[s].session = Nobody

(* What a handshake frame does not list was written after it *)
Running(s) == jobs[s] = "running"
Past == {"written", "accepted", "closed", "missing", "started"}

True(event) ==
  /\ event.seq <= sequence
  /\ event.kind = "authenticated" /\ event.ids # Unlisted =>
       \A s \in Streams :
         call[s].session = event.session /\ Running(s) /\ call[s].pc \in Past /\ s \notin event.ids
           => call[s].after >= event.seq

(* A frame on its way lists what the peer of its session runs *)
Listed ==
  conn.hello \notin {NoFrame, Unlisted} =>
    /\ ~conn.ready
    /\ \A s \in Streams : Running(s) /\ call[s].session = conn.session => s \in conn.hello

(* What is noted of a request, and what a handler has found, is true of its job *)
Noticed(s) ==
  /\ call[s].pc \in Early \cup {"sending", "missing"} => ~Running(s)
  /\ s \in DOMAIN Unsent =>
       /\ Unsent[s].handshake <= sequence
       /\ call[s].pc \in {"written", "accepted"} /\ Running(s)
            /\ Unsent[s].handshake > call[s].after => Unsent[s].kept
  /\ listener.pc = "failing" /\ listener.event.kind = "authenticated"
       /\ s \in listener.ids /\ s \in active =>
         \/ call[s].pc = "closed"
         \/ call[s].pc \in {"missing", "started"} /\ ~Running(s)

TrueBus == \A i \in DOMAIN bus : True(bus[i])

TrueHearing ==
  listener.pc = "judge" => True(listener.event) /\ listener.event.ids # Unlisted

Handshakes ==
  /\ Listed
  /\ \A s \in Streams : Noticed(s)
  /\ TrueBus
  /\ TrueHearing
  /\ listener.pc = "failing" => listener.event.kind \in {"disconnected", "authenticated"}

IInv == Types /\ Ends /\ Places /\ Begun /\ Hearsay /\ Handshakes

--------------------------------------------------------------------------------
(***************************************************************************)
(* What the steps of a call, of the listener and of the timers do.         *)
(***************************************************************************)
CallAction(s) == Prepare(s) \/ CallStep(s) \/ Refuse(s) \/ Drop(s) \/ Leave(s)

Maintained == UNCHANGED <<active, recovery, stream, out>>

(* From a position to another; only a job whose request is refused may have begun *)
Turns(s, from, to) ==
  /\ call[s].pc = from /\ call'[s].pc = to
  /\ call'[s].session = call[s].session /\ call'[s].after = call[s].after
  /\ jobs' = jobs

(* Nothing but the position changes *)
Steps(s) ==
  /\ Maintained
  /\ \/ /\ call[s].pc = "idle" /\ call'[s].pc = "prepared" /\ call'[s].session = session
        /\ jobs' = jobs
     \/ Turns(s, "prepared", "failed")
     \/ /\ call[s].pc = "sending" /\ call'[s].pc = "refused"
        /\ call'[s].session = call[s].session /\ call'[s].after = call[s].after
        /\ jobs'[s] = jobs[s] \/ (conn.ready /\ conn.session = call[s].session)
     \/ Turns(s, "written", "accepted") \/ Turns(s, "written", "refused")
     \/ Turns(s, "sending", "dropped") \/ Turns(s, "written", "dropped")
     \/ Turns(s, "started", "returned") /\ stream[s] # "open"

Registers(s) ==
  /\ Turns(s, "prepared", "submitting") /\ UNCHANGED <<active, stream, out>>
  /\ Sent' = Sent /\ Awaiting' = Awaiting /\ DOMAIN Unsent' = DOMAIN Unsent \cup {s}
  /\ Unsent'[s] = NewPending
  /\ \A t \in DOMAIN Unsent \ {s} : Unsent'[t] = Unsent[t]

Inserts(s) ==
  /\ Turns(s, "submitting", "sending") /\ active' = active \cup {s}
  /\ UNCHANGED <<recovery, stream, out>>

Settles(s) ==
  /\ UNCHANGED <<active, stream, out>> /\ Awaiting' = Awaiting
  /\ DOMAIN Unsent' = DOMAIN Unsent \ {s}
  /\ \A t \in DOMAIN Unsent \ {s} : Unsent'[t] = Unsent[t]
  /\ \/ /\ Turns(s, "accepted", "closed") \/ Turns(s, "accepted", "started")
        /\ Sent' = Sent
        /\ call'[s].pc = "started" => s \notin DOMAIN Unsent
     \/ /\ Turns(s, "accepted", "missing") /\ Sent' = Sent
        /\ s \in DOMAIN Unsent
        /\ Unsent[s].handshake > call[s].after /\ ~Unsent[s].kept
     \/ /\ Turns(s, "accepted", "started") /\ s \in DOMAIN Unsent
        /\ DOMAIN Sent' = DOMAIN Sent \cup {s} /\ Sent'[s] = call[s].after
        /\ \A t \in DOMAIN Sent \ {s} : Sent'[t] = Sent[t]

Fails(s) ==
  \/ Turns(s, "closed", "started") /\ End(s, "error", "terminal")
  \/ Turns(s, "missing", "started") /\ End(s, "error", "handshake")

Leaves(s) ==
  /\ Turns(s, "refused", "removed") \/ Turns(s, "started", "leaving")
  /\ active' = active \ {s} /\ UNCHANGED <<recovery, stream, out>>

Cleans(s) ==
  /\ Turns(s, "removed", "failed") \/ Turns(s, "leaving", "left")
  /\ recovery' = Forgotten(s) /\ UNCHANGED <<active, stream, out>>

CallEffect(s) ==
  \/ Steps(s) \/ Registers(s) \/ Inserts(s) \/ Settles(s) \/ Fails(s) \/ Leaves(s) \/ Cleans(s)

LEMMA TurnFacts ==
  ASSUME Types, NEW s \in Streams, NEW to \in Positions, Goto(s, to), jobs' = jobs
  PROVE  /\ Turns(s, call[s].pc, to) /\ call' \in [Streams -> Calls]
         /\ \A t \in Streams \ {s} : call'[t] = call[t]
<1>1. /\ call \in [Streams -> Calls] /\ call[s] \in Calls
      /\ call' = [call EXCEPT ![s] = [call[s] EXCEPT !.pc = to]]
  BY DEF Types, Goto
<1>2. [call[s] EXCEPT !.pc = to] \in Calls
  BY <1>1 DEF Calls
<1>3. QED BY <1>1, <1>2 DEF Turns, Calls

LEMMA SubmittingFacts ==
  ASSUME Types, NEW s \in Streams, Submitting(s)
  PROVE  CallEffect(s) /\ recovery' \in Recoveries /\ call' \in [Streams -> Calls]
         /\ \A t \in Streams \ {s} : call'[t] = call[t]
<1>1. jobs' = jobs /\ call[s].pc = "prepared" /\ UNCHANGED <<active, stream, out>>
  BY DEF Submitting, CallSide, At, connVars
<1>2. CASE Goto(s, "failed") /\ UNCHANGED recovery
  BY <1>1, <1>2, TurnFacts DEF Positions, CallEffect, Steps, Registers, Inserts, Settles, Fails,
                               Leaves, Cleans, Maintained, Types
<1>3. CASE /\ recovery' = [recovery EXCEPT !.unsent = With(@, {s}, NewPending)]
           /\ Goto(s, "submitting")
  <2>1. /\ Turns(s, "prepared", "submitting") /\ call' \in [Streams -> Calls]
        /\ \A t \in Streams \ {s} : call'[t] = call[t]
    BY <1>1, <1>3, TurnFacts DEF Positions
  <2>2. recovery' = [unsent |-> With(Unsent, {s}, NewPending), sent |-> Sent,
                     awaiting |-> Awaiting, epoch |-> recovery.epoch]
    BY <1>3 DEF Types, Recoveries, Unsent, Sent, Awaiting
  <2>3. /\ Unsent' = With(Unsent, {s}, NewPending) /\ Sent' = Sent /\ Awaiting' = Awaiting
    BY <2>2 DEF Unsent, Sent, Awaiting
  <2>4. /\ Unsent \in Maps(Pendings) /\ Sent \in Maps(Nat) /\ Awaiting \in Maps(Nat)
        /\ recovery.epoch \in Nat /\ NewPending \in Pendings
    BY RecoveryFields DEF Types, NewPending, Pendings
  <2>5. /\ Unsent' \in Maps(Pendings) /\ DOMAIN Unsent' = DOMAIN Unsent \cup {s}
    BY <2>3, <2>4, PutFacts
  <2>6. Unsent'[s] = NewPending /\ \A t \in DOMAIN Unsent \ {s} : Unsent'[t] = Unsent[t]
    BY <2>3 DEF With
  <2>7. recovery' \in Recoveries
    BY <2>2, <2>3, <2>4, <2>5 DEF Recoveries
  <2>8. QED BY <1>1, <2>1, <2>3, <2>5, <2>6, <2>7 DEF CallEffect, Steps, Registers, Inserts,
         Settles, Fails, Leaves, Cleans
<1>4. QED BY <1>2, <1>3 DEF Submitting

LEMMA SubmittedFacts ==
  ASSUME Types, NEW s \in Streams, Submitted(s)
  PROVE  CallEffect(s) /\ recovery' \in Recoveries /\ call' \in [Streams -> Calls]
         /\ \A t \in Streams \ {s} : call'[t] = call[t]
<1> DEFINE verdict == Judge(s)
           to == CASE verdict = "terminal" -> "closed" [] verdict = "handshake" -> "missing"
                   [] OTHER -> "started"
<1>1. /\ jobs' = jobs /\ call[s].pc = "accepted" /\ UNCHANGED <<active, stream, out>>
      /\ Goto(s, to)
  BY DEF Submitted, CallSide, At, connVars
<1>2. /\ verdict = "ended" => s \notin DOMAIN Unsent
      /\ verdict # "ended" => s \in DOMAIN Unsent
      /\ verdict = "handshake" => Unsent[s].handshake > call[s].after /\ ~Unsent[s].kept
      /\ verdict \in {"ended", "terminal", "handshake", "sent"}
  BY DEF Judge, Unsent
<1>3. recovery' = [unsent |-> Without(Unsent, {s}),
                   sent |-> IF verdict = "sent" THEN With(Sent, {s}, call[s].after) ELSE Sent,
                   awaiting |-> Awaiting, epoch |-> recovery.epoch]
  BY DEF Submitted, Types, Recoveries, Unsent, Sent, Awaiting
<1> HIDE DEF verdict
<1>4. \/ to = "closed" /\ verdict = "terminal"
      \/ to = "missing" /\ verdict = "handshake"
      \/ to = "started" /\ verdict \in {"ended", "sent"}
  BY <1>2
<1> HIDE DEF to
<1>5. /\ Turns(s, "accepted", to) /\ call' \in [Streams -> Calls]
      /\ \A t \in Streams \ {s} : call'[t] = call[t]
  BY <1>1, <1>4, TurnFacts DEF Positions
<1>6. /\ Unsent \in Maps(Pendings) /\ Sent \in Maps(Nat) /\ Awaiting \in Maps(Nat)
      /\ recovery.epoch \in Nat /\ call[s].after \in Nat
  BY RecoveryFields DEF Types, Calls
<1>7. /\ Unsent' = Without(Unsent, {s}) /\ Awaiting' = Awaiting
      /\ verdict = "sent" => Sent' = With(Sent, {s}, call[s].after)
      /\ verdict # "sent" => Sent' = Sent
  BY <1>3 DEF Unsent, Sent, Awaiting
<1>8. /\ Unsent' \in Maps(Pendings) /\ DOMAIN Unsent' = DOMAIN Unsent \ {s}
      /\ \A t \in DOMAIN Unsent \ {s} : Unsent'[t] = Unsent[t]
  <2>1. Unsent \in Maps(Pendings) /\ Unsent' = Without(Unsent, {s})
    BY <1>6, <1>7
  <2>2. QED BY <2>1, WithoutFacts, ZenonT(40)
<1>9. ASSUME verdict = "sent"
      PROVE  Sent' \in Maps(Nat) /\ DOMAIN Sent' = DOMAIN Sent \cup {s}
  <2> DEFINE after == call[s].after
  <2>0. after \in Nat /\ Sent \in Maps(Nat)
    BY <1>6
  <2>2. Sent' = With(Sent, {s}, after)
    BY <1>7, <1>9
  <2> HIDE DEF after
  <2>1. /\ With(Sent, {s}, after) \in Maps(Nat)
        /\ DOMAIN With(Sent, {s}, after) = DOMAIN Sent \cup {s}
    BY <2>0, PutFacts
  <2>3. QED BY <2>1, <2>2
<1>10. verdict = "sent" => Sent'[s] = call[s].after /\ \A t \in DOMAIN Sent \ {s} : Sent'[t] = Sent[t]
  BY <1>7 DEF With
<1>11. recovery' \in Recoveries
  BY <1>3, <1>6, <1>7, <1>8, <1>9 DEF Recoveries
<1>12. CallEffect(s)
  <2>1. CASE to = "closed" /\ verdict = "terminal"
    <3>1. Turns(s, "accepted", "closed") /\ Sent' = Sent /\ call'[s].pc = "closed"
      BY <1>5, <1>7, <2>1 DEF Turns
    <3>2. QED BY <1>1, <1>7, <1>8, <3>1 DEF CallEffect, Steps, Registers, Inserts, Settles, Fails,
         Leaves, Cleans
  <2>2. CASE to = "missing" /\ verdict = "handshake"
    <3>1. /\ Turns(s, "accepted", "missing") /\ Sent' = Sent /\ s \in DOMAIN Unsent
          /\ Unsent[s].handshake > call[s].after /\ ~Unsent[s].kept
      BY <1>2, <1>5, <1>7, <2>2
    <3>2. QED BY <1>1, <1>7, <1>8, <3>1 DEF CallEffect, Steps, Registers, Inserts, Settles, Fails,
         Leaves, Cleans
  <2>3. CASE to = "started" /\ verdict = "ended"
    <3>1. Turns(s, "accepted", "started") /\ Sent' = Sent /\ s \notin DOMAIN Unsent
      BY <1>2, <1>5, <1>7, <2>3
    <3>2. QED BY <1>1, <1>7, <1>8, <3>1 DEF CallEffect, Steps, Registers, Inserts, Settles, Fails,
         Leaves, Cleans
  <2>4. CASE to = "started" /\ verdict = "sent"
    <3>1. /\ Turns(s, "accepted", "started") /\ s \in DOMAIN Unsent
          /\ DOMAIN Sent' = DOMAIN Sent \cup {s} /\ Sent'[s] = call[s].after
          /\ \A t \in DOMAIN Sent \ {s} : Sent'[t] = Sent[t]
      BY <1>2, <1>5, <1>9, <1>10, <2>4
    <3>2. QED BY <1>1, <1>7, <1>8, <3>1 DEF CallEffect, Steps, Registers, Inserts, Settles, Fails,
         Leaves, Cleans
  <2>5. QED BY <1>4, <2>1, <2>2, <2>3, <2>4
<1>13. QED BY <1>5, <1>11, <1>12

(* What every step of a call leaves alone *)
CallFrame(s) ==
  /\ UNCHANGED <<session, closed, conn, bus, sequence, timers, listener>>
  /\ \A t \in Streams \ {s} : call'[t] = call[t] /\ jobs'[t] = jobs[t]

LEMMA CallFrames ==
  ASSUME Types, NEW s \in Streams, CallAction(s)
  PROVE  /\ CallFrame(s)
         /\ jobs' \in [Streams -> {"none", "running", "gone", "finished"}]
         /\ call' \in [Streams -> Calls]
<1> DEFINE Goal == /\ CallFrame(s)
                   /\ jobs' \in [Streams -> {"none", "running", "gone", "finished"}]
                   /\ call' \in [Streams -> Calls]
<1>1. /\ jobs \in [Streams -> {"none", "running", "gone", "finished"}]
      /\ call \in [Streams -> Calls] /\ session \in Nat
  BY DEF Types
<1>2. ASSUME CallSide, NEW to \in Positions, Goto(s, to) PROVE Goal
  <2>1. jobs' = jobs /\ UNCHANGED <<session, closed, conn, bus, sequence, timers, listener>>
    BY <1>2 DEF CallSide, connVars, busVars
  <2>2. QED BY <1>1, <1>2, <2>1, TurnFacts DEF CallFrame
<1>3. CASE Prepare(s)
  <2>1. jobs' = jobs /\ UNCHANGED <<session, closed, conn, bus, sequence, timers, listener>>
    BY <1>3 DEF Prepare, CallSide, connVars, busVars
  <2>2. call' = [call EXCEPT ![s] = [call[s] EXCEPT !.pc = "prepared", !.session = session]]
    BY <1>1, <1>3 DEF Prepare
  <2>3. [call[s] EXCEPT !.pc = "prepared", !.session = session] \in Calls
    BY <1>1 DEF Calls, Positions
  <2>4. call' \in [Streams -> Calls] /\ \A t \in Streams \ {s} : call'[t] = call[t]
    BY <1>1, <2>2, <2>3
  <2>5. QED BY <1>1, <2>1, <2>4 DEF CallFrame
<1>4. CASE Refuse(s)
  <2>1. /\ Goto(s, "refused")
        /\ UNCHANGED <<session, closed, conn, bus, sequence, timers, listener>>
        /\ jobs' = jobs \/ jobs' = [jobs EXCEPT ![s] = "running"]
    BY <1>4 DEF Refuse, busVars
  <2>2. call' = [call EXCEPT ![s] = [call[s] EXCEPT !.pc = "refused"]]
    BY <1>1, <2>1 DEF Goto
  <2>3. [call[s] EXCEPT !.pc = "refused"] \in Calls
    BY <1>1 DEF Calls, Positions
  <2>4. call' \in [Streams -> Calls] /\ \A t \in Streams \ {s} : call'[t] = call[t]
    BY <1>1, <2>2, <2>3
  <2>5. /\ jobs' \in [Streams -> {"none", "running", "gone", "finished"}]
        /\ \A t \in Streams \ {s} : jobs'[t] = jobs[t]
    BY <1>1, <2>1
  <2>6. QED BY <2>1, <2>4, <2>5 DEF CallFrame
<1>5. CASE Submitting(s)
  BY <1>2, <1>5 DEF Submitting, Positions
<1>6. CASE Insert(s) \/ Drop(s) \/ Return(s)
  BY <1>2, <1>6 DEF Insert, Drop, Return, Positions
<1>7. CASE Acknowledge(s)
  BY <1>2, <1>7 DEF Acknowledge, Positions
<1>8. CASE Submitted(s)
  <2>1. CallSide /\ \E to \in {"closed", "missing", "started"} : Goto(s, to)
    BY <1>8 DEF Submitted
  <2>2. QED BY <1>2, <2>1 DEF Positions
<1>9. CASE SettleSubmitted(s) \/ Withdraw(s) \/ Leave(s) \/ Forget(s)
  BY <1>2, <1>9 DEF SettleSubmitted, Withdraw, Leave, Forget, Positions
<1>10. QED BY <1>3, <1>4, <1>5, <1>6, <1>7, <1>8, <1>9 DEF CallAction, CallStep

LEMMA CallEffects == ASSUME Types, NEW s \in Streams, CallAction(s) PROVE CallEffect(s)
<1>1. /\ call \in [Streams -> Calls] /\ call[s] \in Calls /\ session \in Nat
      /\ jobs \in [Streams -> {"none", "running", "gone", "finished"}]
  BY DEF Types
<1>2. ASSUME CallSide, NEW to \in Positions, Goto(s, to) PROVE Turns(s, call[s].pc, to)
  BY <1>2, TurnFacts DEF CallSide, connVars
<1>3. CASE Prepare(s)
  <2>1. /\ jobs' = jobs /\ Maintained /\ call[s].pc = "idle"
        /\ call' = [call EXCEPT ![s] = [call[s] EXCEPT !.pc = "prepared", !.session = session]]
    BY <1>1, <1>3 DEF Prepare, CallSide, connVars, At, Maintained, chatVars
  <2>2. call'[s] = [call[s] EXCEPT !.pc = "prepared", !.session = session]
    BY <1>1, <2>1
  <2>3. call'[s].pc = "prepared" /\ call'[s].session = session
    BY <1>1, <2>2 DEF Calls
  <2>4. QED BY <2>1, <2>3 DEF CallEffect, Steps
<1>4. CASE Refuse(s)
  <2>1. /\ call[s].pc = "sending" /\ Maintained
        /\ call' = [call EXCEPT ![s] = [call[s] EXCEPT !.pc = "refused"]]
        /\ \/ jobs' = jobs
           \/ conn.ready /\ conn.session = call[s].session
    BY <1>1, <1>4 DEF Refuse, At, Goto, Maintained, chatVars
  <2>2. /\ call'[s].pc = "refused" /\ call'[s].session = call[s].session
        /\ call'[s].after = call[s].after
    BY <1>1, <2>1 DEF Calls
  <2>3. QED BY <2>1, <2>2 DEF CallEffect, Steps
<1>5. CASE Submitting(s)
  BY <1>5, SubmittingFacts
<1>6. CASE Insert(s)
  <2>1. /\ Turns(s, "submitting", "sending") /\ active' = active \cup {s}
        /\ UNCHANGED <<recovery, stream, out>>
    BY <1>2, <1>6 DEF Insert, At, Positions
  <2>2. QED BY <2>1 DEF CallEffect, Inserts
<1>7. CASE Drop(s)
  <2>1. /\ Turns(s, "sending", "dropped") \/ Turns(s, "written", "dropped")
        /\ Maintained
    BY <1>2, <1>7 DEF Drop, Positions, Maintained, chatVars
  <2>2. QED BY <2>1 DEF CallEffect, Steps
<1>8. CASE Return(s)
  <2>1. Turns(s, "started", "returned") /\ Maintained /\ stream[s] # "open"
    BY <1>2, <1>8 DEF Return, At, Positions, Maintained, chatVars
  <2>2. QED BY <2>1 DEF CallEffect, Steps
<1>9. CASE Acknowledge(s)
  <2>1. /\ Turns(s, "written", "accepted") \/ Turns(s, "written", "refused")
        /\ Maintained
    BY <1>2, <1>9 DEF Acknowledge, At, Positions, Maintained, chatVars
  <2>2. QED BY <2>1 DEF CallEffect, Steps
<1>10. CASE Submitted(s)
  BY <1>10, SubmittedFacts
<1>11. CASE SettleSubmitted(s)
  <2>1. \/ Turns(s, "closed", "started") /\ End(s, "error", "terminal")
        \/ Turns(s, "missing", "started") /\ End(s, "error", "handshake")
    BY <1>2, <1>11 DEF SettleSubmitted, At, Positions, Fail
  <2>2. QED BY <2>1 DEF CallEffect, Fails
<1>12. CASE Withdraw(s) \/ Leave(s)
  <2>1. /\ Turns(s, "refused", "removed") \/ Turns(s, "started", "leaving")
        /\ active' = active \ {s} /\ UNCHANGED <<recovery, stream, out>>
    BY <1>2, <1>12 DEF Withdraw, Leave, At, Positions
  <2>2. QED BY <2>1 DEF CallEffect, Leaves
<1>13. CASE Forget(s)
  <2>1. /\ Turns(s, "removed", "failed") \/ Turns(s, "leaving", "left")
        /\ recovery' = Forgotten(s) /\ UNCHANGED <<active, stream, out>>
    BY <1>2, <1>13 DEF Forget, At, Positions
  <2>2. QED BY <2>1 DEF CallEffect, Cleans
<1>14. QED BY <1>3, <1>4, <1>5, <1>6, <1>7, <1>8, <1>9, <1>10, <1>11, <1>12, <1>13
       DEF CallAction, CallStep

LEMMA CallKeepsTypes == ASSUME Types, NEW s \in Streams, CallAction(s) PROVE Types'
<1>1. /\ CallFrame(s) /\ jobs' \in [Streams -> {"none", "running", "gone", "finished"}]
      /\ call' \in [Streams -> Calls]
  BY CallFrames
<1>2. recovery' \in Recoveries
  <2>1. CASE Submitting(s) \/ Submitted(s)
    BY <2>1, SubmittingFacts, SubmittedFacts
  <2>2. CASE recovery' = recovery
    BY <2>2 DEF Types
  <2>3. CASE recovery' = Forgotten(s)
    <3>1. recovery \in Recoveries
      BY DEF Types
    <3>2. QED BY <2>3, <3>1, ForgottenFacts
  <2>4. QED BY <2>1, <2>2, <2>3
         DEF CallAction, CallStep, Prepare, Insert, Refuse, Acknowledge, SettleSubmitted, Fail, End,
             Withdraw, Leave, Forget, Drop, Return, chatVars
<1>3. /\ active' \subseteq Streams
      /\ stream' \in [Streams -> {"open", "complete", "error"}]
      /\ out' \in [Streams -> Seq(Terminals \cup {"chunk"})]
  <2>1. CASE UNCHANGED <<stream, out>>
    <3>1. active' = active \/ active' = active \cup {s} \/ active' = active \ {s}
      BY CallEffects, EndFacts
         DEF CallEffect, Steps, Registers, Inserts, Settles, Fails, Leaves, Cleans, Maintained, Terminals
    <3>2. QED BY <2>1, <3>1 DEF Types
  <2>2. CASE End(s, "error", "terminal") \/ End(s, "error", "handshake")
    BY <2>2, EndFacts DEF Types, Terminals
  <2>3. QED BY <2>1, <2>2, CallEffects
         DEF CallEffect, Steps, Registers, Inserts, Settles, Fails, Leaves, Cleans, Maintained
<1>4. QED BY <1>1, <1>2, <1>3 DEF Types, CallFrame

(* Streams that are no longer waited for *)
Awoken(ids) == [recovery EXCEPT !.awaiting = Without(@, ids)]

Wakes(ids) ==
  /\ DOMAIN Awaiting' = DOMAIN Awaiting \ ids
  /\ \A t \in DOMAIN Awaiting \ ids : Awaiting'[t] = Awaiting[t]

LEMMA AwokenFacts ==
  ASSUME recovery \in Recoveries, NEW ids, recovery' = Awoken(ids)
  PROVE  recovery' \in Recoveries /\ Unsent' = Unsent /\ Sent' = Sent /\ Wakes(ids)
<1>1. recovery' = [unsent |-> Unsent, sent |-> Sent, awaiting |-> Without(Awaiting, ids),
                   epoch |-> recovery.epoch]
  BY DEF Recoveries, Awoken, Unsent, Sent, Awaiting
<1>2. /\ Unsent' = Unsent /\ Sent' = Sent /\ Awaiting' = Without(Awaiting, ids)
      /\ recovery'.epoch = recovery.epoch
  BY <1>1 DEF Unsent, Sent, Awaiting
<1>3. /\ Unsent \in Maps(Pendings) /\ Sent \in Maps(Nat) /\ Awaiting \in Maps(Nat)
      /\ recovery.epoch \in Nat
  BY RecoveryFields
<1>4. /\ Awaiting' \in Maps(Nat) /\ DOMAIN Awaiting' = DOMAIN Awaiting \ ids
      /\ \A t \in DOMAIN Awaiting \ ids : Awaiting'[t] = Awaiting[t]
  <2>1. Awaiting \in Maps(Nat) /\ Awaiting' = Without(Awaiting, ids)
    BY <1>2, <1>3
  <2>2. QED BY <2>1, WithoutFacts
<1>5. recovery' \in Recoveries
  BY <1>1, <1>2, <1>3, <1>4 DEF Recoveries
<1>6. QED BY <1>2, <1>4, <1>5 DEF Wakes

(* lost: what is waited for after it *)
LEMMA LostFacts ==
  ASSUME Types, Lost
  PROVE  /\ recovery' \in Recoveries /\ Unsent' = Unsent /\ Sent' = Sent
         /\ timers' \in [running : SUBSET Nat, taken : SUBSET Streams]
         /\ timers.running \subseteq timers'.running
         /\ \A t \in DOMAIN Awaiting : t \in DOMAIN Awaiting' /\ Awaiting'[t] = Awaiting[t]
         /\ \A t \in DOMAIN Awaiting' \ DOMAIN Awaiting :
              t \in listener.ids /\ Awaiting'[t] \in timers'.running
<1> DEFINE added == listener.ids \ (DOMAIN Unsent \cup DOMAIN Awaiting)
           epoch == recovery.epoch + 1
           Goal == /\ recovery' \in Recoveries /\ Unsent' = Unsent /\ Sent' = Sent
                   /\ timers' \in [running : SUBSET Nat, taken : SUBSET Streams]
                   /\ timers.running \subseteq timers'.running
                   /\ \A t \in DOMAIN Awaiting : t \in DOMAIN Awaiting' /\ Awaiting'[t] = Awaiting[t]
                   /\ \A t \in DOMAIN Awaiting' \ DOMAIN Awaiting :
                        t \in listener.ids /\ Awaiting'[t] \in timers'.running
<1>1. /\ Unsent \in Maps(Pendings) /\ Sent \in Maps(Nat) /\ Awaiting \in Maps(Nat)
      /\ recovery.epoch \in Nat /\ recovery \in Recoveries
      /\ timers \in [running : SUBSET Nat, taken : SUBSET Streams]
  BY RecoveryFields DEF Types
<1>2. CASE UNCHANGED <<recovery, timers>>
  BY <1>1, <1>2 DEF Unsent, Sent, Awaiting
<1>3. CASE /\ recovery' = [recovery EXCEPT !.epoch = epoch, !.awaiting = With(@, added, epoch)]
           /\ timers' = [timers EXCEPT !.running = @ \cup {epoch}]
  <2>1. added \in SUBSET Streams /\ added \subseteq listener.ids
    BY DEF Lost, Types, Resting, Busy
  <2>2. recovery' = [unsent |-> Unsent, sent |-> Sent, awaiting |-> With(Awaiting, added, epoch),
                     epoch |-> epoch]
    BY <1>1, <1>3 DEF Recoveries, Unsent, Sent, Awaiting
  <2>3. /\ timers'.running = timers.running \cup {epoch} /\ timers'.taken = timers.taken
        /\ timers' \in [running : SUBSET Nat, taken : SUBSET Streams]
    BY <1>1, <1>3
  <2>11. epoch \in Nat
    BY <1>1
  <2>13. added \in SUBSET Streams
    BY <2>1
  <2>12. Awaiting \in Maps(Nat)
    BY <1>1
  <2> HIDE DEF added, epoch
  <2>4. /\ Unsent' = Unsent /\ Sent' = Sent /\ Awaiting' = With(Awaiting, added, epoch)
    BY <2>2 DEF Unsent, Sent, Awaiting
  <2>5. /\ With(Awaiting, added, epoch) \in Maps(Nat)
        /\ DOMAIN With(Awaiting, added, epoch) = DOMAIN Awaiting \cup added
    <3>1. Awaiting \in [DOMAIN Awaiting -> Nat] /\ DOMAIN Awaiting \subseteq Streams
      BY <2>12, MapFacts
    <3>2. DOMAIN With(Awaiting, added, epoch) = DOMAIN Awaiting \cup added
      BY DEF With
    <3>3. With(Awaiting, added, epoch) \in [DOMAIN Awaiting \cup added -> Nat]
      BY <2>11, <3>1 DEF With
    <3>4. QED BY <2>13, <3>1, <3>2, <3>3, MapFacts
  <2>6. recovery' \in Recoveries
    BY <1>1, <2>2, <2>5, <2>11 DEF Recoveries
  <2>7. DOMAIN Awaiting \cap added = {}
    BY DEF added
  <2>8. \A t \in DOMAIN Awaiting : t \in DOMAIN Awaiting' /\ Awaiting'[t] = Awaiting[t]
    BY <2>4, <2>5, <2>7 DEF With
  <2>9. \A t \in DOMAIN Awaiting' \ DOMAIN Awaiting : t \in added /\ Awaiting'[t] = epoch
    BY <2>4, <2>5 DEF With
  <2>10. QED BY <2>1, <2>3, <2>4, <2>6, <2>8, <2>9
<1>4. QED BY <1>2, <1>3 DEF Lost, Unsent, Awaiting

LEMMA ClosedFacts ==
  ASSUME Types, Closed
  PROVE  /\ recovery' \in Recoveries /\ Sent' = Sent /\ Awaiting' = Awaiting
         /\ DOMAIN Unsent' = DOMAIN Unsent
         /\ \A t \in DOMAIN Unsent :
              /\ Unsent'[t].handshake = Unsent[t].handshake /\ Unsent'[t].kept = Unsent[t].kept
              /\ listener.event.session \notin {Nobody, call[t].session} => Unsent'[t] = Unsent[t]
<1> DEFINE g == [s \in DOMAIN Unsent |->
                   IF listener.event.session \in {Nobody, call[s].session}
                     THEN [Unsent[s] EXCEPT !.closed = TRUE] ELSE Unsent[s]]
<1>1. /\ Unsent \in Maps(Pendings) /\ Sent \in Maps(Nat) /\ Awaiting \in Maps(Nat)
      /\ recovery.epoch \in Nat /\ recovery \in Recoveries
  BY RecoveryFields DEF Types
<1>2. Unsent \in [DOMAIN Unsent -> Pendings] /\ DOMAIN Unsent \subseteq Streams
  BY <1>1, MapFacts
<1>3. recovery' = [unsent |-> g, sent |-> Sent, awaiting |-> Awaiting, epoch |-> recovery.epoch]
  BY <1>1 DEF Closed, Recoveries, Unsent, Sent, Awaiting
<1>4. Unsent' = g /\ Sent' = Sent /\ Awaiting' = Awaiting
  BY <1>3 DEF Unsent, Sent, Awaiting
<1>5. \A t \in DOMAIN Unsent :
        /\ g[t] \in Pendings /\ g[t].handshake = Unsent[t].handshake /\ g[t].kept = Unsent[t].kept
        /\ listener.event.session \notin {Nobody, call[t].session} => g[t] = Unsent[t]
  BY <1>2 DEF Pendings
<1>6. g \in [DOMAIN Unsent -> Pendings]
  BY <1>5
<1>7. DOMAIN g = DOMAIN Unsent
  OBVIOUS
<1> HIDE DEF g
<1>8. g \in Maps(Pendings)
  BY <1>2, <1>6, <1>7, MapFacts
<1>9. recovery' \in Recoveries
  BY <1>1, <1>3, <1>8 DEF Recoveries
<1>10. QED BY <1>4, <1>5, <1>7, <1>9

LEMMA AuthenticatedFacts ==
  ASSUME Types, Authenticated
  PROVE  /\ recovery' \in Recoveries /\ Sent' = Sent /\ Wakes(listener.ids)
         /\ DOMAIN Unsent' = DOMAIN Unsent
         /\ \A t \in DOMAIN Unsent :
              \/ Unsent'[t] = Unsent[t]
              \/ /\ t \in listener.ids /\ Unsent'[t].handshake = listener.event.seq
                 /\ Unsent'[t].kept = (t \in listener.event.ids)
<1> DEFINE g == [s \in DOMAIN Unsent |-> IF s \in listener.ids
                                           THEN Noted(Unsent[s], listener.event, s) ELSE Unsent[s]]
<1>1. /\ Unsent \in Maps(Pendings) /\ Sent \in Maps(Nat) /\ Awaiting \in Maps(Nat)
      /\ recovery.epoch \in Nat /\ recovery \in Recoveries
  BY RecoveryFields DEF Types
<1>2. Unsent \in [DOMAIN Unsent -> Pendings] /\ DOMAIN Unsent \subseteq Streams
  BY <1>1, MapFacts
<1>3. recovery' = [unsent |-> g, sent |-> Sent, awaiting |-> Without(Awaiting, listener.ids),
                   epoch |-> recovery.epoch]
  BY <1>1 DEF Authenticated, Recoveries, Unsent, Sent, Awaiting
<1>4. Unsent' = g /\ Sent' = Sent /\ Awaiting' = Without(Awaiting, listener.ids)
  BY <1>3 DEF Unsent, Sent, Awaiting
<1>5. listener.event.seq \in Nat
  BY DEF Authenticated, Types, Resting, Busy, Events
<1>6. ASSUME NEW t \in DOMAIN Unsent
      PROVE
        /\ g[t] \in Pendings
        /\ \/ g[t] = Unsent[t]
           \/ /\ t \in listener.ids /\ g[t].handshake = listener.event.seq
              /\ g[t].kept = (t \in listener.event.ids)
  <2>1. Unsent[t] \in Pendings /\ (t \in listener.event.ids) \in BOOLEAN
    BY <1>2
  <2>2. CASE t \in listener.ids /\ Unsent[t].handshake < listener.event.seq
    <3>1. g[t] = [Unsent[t] EXCEPT !.handshake = listener.event.seq,
                                   !.kept = t \in listener.event.ids]
      BY <2>2 DEF Noted
    <3>2. QED BY <1>5, <2>1, <2>2, <3>1 DEF Pendings
  <2>3. CASE ~(t \in listener.ids /\ Unsent[t].handshake < listener.event.seq)
    BY <2>1, <2>3 DEF Noted
  <2>4. QED BY <2>2, <2>3
<1>7. g \in [DOMAIN Unsent -> Pendings]
  BY <1>6
<1>8. DOMAIN g = DOMAIN Unsent
  OBVIOUS
<1> HIDE DEF g
<1>9. g \in Maps(Pendings)
  BY <1>2, <1>7, <1>8, MapFacts
<1>10. /\ Awaiting' \in Maps(Nat) /\ DOMAIN Awaiting' = DOMAIN Awaiting \ listener.ids
       /\ \A t \in DOMAIN Awaiting \ listener.ids : Awaiting'[t] = Awaiting[t]
  <2> DEFINE ids == listener.ids
  <2>1. Awaiting' = Without(Awaiting, ids) /\ Awaiting \in Maps(Nat)
    BY <1>1, <1>4
  <2> HIDE DEF ids
  <2>2. /\ Awaiting' \in Maps(Nat) /\ DOMAIN Awaiting' = DOMAIN Awaiting \ ids
        /\ \A t \in DOMAIN Awaiting \ ids : Awaiting'[t] = Awaiting[t]
    BY <2>1, WithoutFacts
  <2>3. QED BY <2>2 DEF ids
<1>11. recovery' \in Recoveries
  BY <1>1, <1>3, <1>4, <1>9, <1>10 DEF Recoveries
<1>12. QED BY <1>4, <1>6, <1>8, <1>10, <1>11 DEF Wakes

--------------------------------------------------------------------------------
(***************************************************************************)
(* The steps of the listener and of the timers keep the types.             *)
(***************************************************************************)
Handling == {"ending", "lag", "push", "judge", "failing"}

LEMMA DoingFacts ==
  ASSUME Types, NEW pc \in Handling, NEW event \in Events, NEW ids \in SUBSET Streams
  PROVE  /\ Doing(pc, event, ids) \in Busy
         /\ Doing(pc, event, ids).pc = pc /\ Doing(pc, event, ids).event = event
         /\ Doing(pc, event, ids).ids = ids
<1>1. listener.session \in Nat
  BY DEF Types, Resting, Busy
<1>2. QED BY <1>1 DEF Doing, Busy, Handling

LEMMA ListeningFacts == Types => Listening \in Resting /\ Listening.pc = "select"
BY DEF Types, Resting, Busy, Listening

LEMMA BusyFacts ==
  Types /\ listener.pc \in Handling =>
    listener \in Busy /\ listener.event \in Events /\ listener.ids \in SUBSET Streams
BY DEF Types, Resting, Busy, Handling

(* One stream of those the listener is at is done *)
LEMMA NextFacts ==
  ASSUME Types, listener.pc \in Handling, NEW s, listener' = [listener EXCEPT !.ids = @ \ {s}]
  PROVE  /\ listener' \in Busy /\ listener'.pc = listener.pc /\ listener'.event = listener.event
         /\ listener'.ids = listener.ids \ {s}
BY BusyFacts DEF Busy

(* What Receive does with the first event of the bus *)
Takes(event) ==
  \/ UNCHANGED <<active, recovery, stream, out, listener>>
  \/ /\ recovery' = Awoken(event.ids) /\ UNCHANGED <<active, stream, out>>
     /\ event.ids \in SUBSET Streams /\ event.kind \in {"token", "state"}
     /\ listener' = listener \/ listener' = Doing("push", event, event.ids)
  \/ /\ event.ids \in SUBSET Streams /\ event.kind \in {"result", "error"}
     /\ listener' = listener
     /\ \E s \in event.ids : End(s, "complete", "result") \/ End(s, "error", "reported")
  \/ /\ listener' = Doing("judge", event, Snapshot(event)) /\ event.ids # Unlisted
     /\ UNCHANGED <<active, recovery, stream, out>>

LEMMA ReceiveFacts ==
  ASSUME Types, Receive
  PROVE  /\ bus # <<>> /\ bus' = Tail(bus) /\ Head(bus) \in Events
         /\ listener.pc = "select" /\ UNCHANGED <<timers, lagged>>
         /\ Takes(Head(bus))
<1>1. /\ bus # <<>> /\ bus' = Tail(bus) /\ Head(bus) \in Events
      /\ listener.pc = "select" /\ UNCHANGED <<timers, lagged>>
  BY DEF Receive, Receivable, Types
<1>2. PICK event \in Events : event = Head(bus)
  BY <1>1
<1>3. event.ids \in (SUBSET Streams) \cup {Unlisted}
  BY DEF Events
<1>4. Takes(event)
  <2>1. CASE UNCHANGED <<chatVars, listener>>
    BY <2>1 DEF Takes, chatVars
  <2>2. CASE /\ event.ids # Unlisted /\ event.kind \in {"token", "state"}
             /\ recovery' = [recovery EXCEPT !.awaiting = Without(@, event.ids)]
             /\ listener' = IF event.kind = "token" THEN Doing("push", event, event.ids) ELSE listener
             /\ UNCHANGED <<active, stream, out>>
    <3>1. recovery' = Awoken(event.ids)
      BY <2>2 DEF Awoken
    <3>2. listener' = listener \/ listener' = Doing("push", event, event.ids)
      BY <2>2
    <3>3. event.ids \in SUBSET Streams /\ event.kind \in {"token", "state"}
          /\ UNCHANGED <<active, stream, out>>
      BY <1>3, <2>2
    <3>4. QED BY <3>1, <3>2, <3>3 DEF Takes
  <2>3. CASE /\ event.ids # Unlisted /\ event.kind \in {"result", "error"} /\ UNCHANGED listener
             /\ \E s \in event.ids : End(s, "complete", "result") \/ End(s, "error", "reported")
    BY <1>3, <2>3 DEF Takes
  <2>4. CASE /\ event.ids # Unlisted /\ UNCHANGED chatVars
             /\ listener' = Doing("judge", event, Snapshot(event))
    BY <1>3, <2>4 DEF Takes, chatVars
  <2>5. QED BY <1>2, <2>1, <2>2, <2>3, <2>4 DEF Receive, Fail
<1>5. QED BY <1>1, <1>2, <1>4

LEMMA OfFacts == ASSUME Types, NEW event PROVE Snapshot(event) \in SUBSET Streams
BY DEF Types, Snapshot, Of

(* The part of the state that an end of a stream changes *)
Chat ==
  /\ active \subseteq Streams /\ recovery \in Recoveries
  /\ stream \in [Streams -> {"open", "complete", "error"}]
  /\ out \in [Streams -> Seq(Terminals \cup {"chunk"})]

LEMMA EndKeepsChat ==
  ASSUME Types, NEW s, NEW state \in {"complete", "error"}, NEW how \in Terminals,
         End(s, state, how)
  PROVE  Chat'
<1>1. recovery \in Recoveries /\ active \subseteq Streams
  BY DEF Types
<1>2. active' \subseteq Streams /\ recovery' = Forgotten(s)
  BY <1>1, EndFacts
<1>3. recovery' \in Recoveries
  BY <1>1, <1>2, ForgottenFacts
<1>4. QED BY <1>2, <1>3, EndFacts DEF Chat

LEMMA ListenKeepsTypes == ASSUME Types, Listen PROVE Types'
<1>1. UNCHANGED <<session, closed, conn, jobs, sequence, call>>
  BY DEF Listen, EndSessions, TakeLagged, Receive, Push, Lost, Closed, Authenticated, FailNext,
         FailLagged, Resume, ListenerSide, connVars
<1>2. /\ Chat /\ bus \in Seq(Events) /\ listener \in Resting \cup Busy
      /\ timers \in [running : SUBSET Nat, taken : SUBSET Streams] /\ recovery \in Recoveries
      /\ session \in Nat
  BY DEF Types, Chat
<1>3. ASSUME Chat', bus' \in Seq(Events), listener' \in Resting \cup Busy,
             timers' \in [running : SUBSET Nat, taken : SUBSET Streams]
      PROVE  Types'
  BY <1>1, <1>3 DEF Types, Chat
<1>4. CASE EndSessions
  <2>1. /\ listener' = Doing("ending", Event("session", Nobody), {s \in active : call[s].session # session})
        /\ UNCHANGED <<bus, active, recovery, stream, out, timers>>
    BY <1>4 DEF EndSessions, chatVars
  <2>2. Event("session", Nobody) \in Events
    BY EventFacts DEF Kinds, Nobody
  <2>3. {s \in active : call[s].session # session} \in SUBSET Streams
    BY <1>2 DEF Chat
  <2>4. listener' \in Busy
    BY <2>1, <2>2, <2>3, DoingFacts DEF Handling
  <2>5. QED BY <1>2, <1>3, <2>1, <2>4 DEF Chat
<1>5. CASE TakeLagged
  <2>1. /\ listener' = Doing("lag", Event("lag", Nobody), active) /\ active' = {}
        /\ UNCHANGED <<bus, recovery, stream, out, timers>>
    BY <1>5 DEF TakeLagged
  <2>2. Event("lag", Nobody) \in Events /\ active \in SUBSET Streams
    BY <1>2, EventFacts DEF Kinds, Nobody, Chat
  <2>3. listener' \in Busy
    BY <2>1, <2>2, DoingFacts DEF Handling
  <2>4. QED BY <1>2, <1>3, <2>1, <2>3 DEF Chat
<1>6. CASE Receive
  <2>1. /\ bus' \in Seq(Events) /\ Head(bus) \in Events /\ timers' = timers /\ Takes(Head(bus))
    BY <1>2, <1>6, ReceiveFacts
  <2>2. CASE UNCHANGED <<active, recovery, stream, out, listener>>
    BY <1>2, <1>3, <2>1, <2>2 DEF Chat
  <2>3. ASSUME NEW event \in Events, recovery' = Awoken(event.ids), UNCHANGED <<active, stream, out>>,
               event.ids \in SUBSET Streams,
               listener' = listener \/ listener' = Doing("push", event, event.ids)
        PROVE  Types'
    <3>1. Chat'
      BY <1>2, <2>3, AwokenFacts DEF Chat
    <3>2. listener' \in Resting \cup Busy
      BY <1>2, <2>3, DoingFacts DEF Handling
    <3>3. QED BY <1>2, <1>3, <2>1, <3>1, <3>2
  <2>4. ASSUME listener' = listener, NEW s, End(s, "complete", "result") \/ End(s, "error", "reported")
        PROVE  Types'
    BY <1>2, <1>3, <2>1, <2>4, EndKeepsChat DEF Terminals
  <2>5. ASSUME NEW event \in Events, listener' = Doing("judge", event, Snapshot(event)),
               UNCHANGED <<active, recovery, stream, out>>
        PROVE  Types'
    <3>1. listener' \in Resting \cup Busy
      BY <2>5, OfFacts, DoingFacts DEF Handling
    <3>2. QED BY <1>2, <1>3, <2>1, <2>5, <3>1 DEF Chat
  <2>6. QED BY <2>1, <2>2, <2>3, <2>4, <2>5 DEF Takes
<1>7. CASE Push
  <2>1. /\ out' = [s \in Streams |-> IF s \in listener.ids \cap active
                                       THEN Append(out[s], "chunk") ELSE out[s]]
        /\ listener' = Listening /\ UNCHANGED <<bus, active, recovery, stream, timers>>
    BY <1>7 DEF Push
  <2>2. out' \in [Streams -> Seq(Terminals \cup {"chunk"})]
    <3>1. ASSUME NEW s \in Streams
          PROVE  Append(out[s], "chunk") \in Seq(Terminals \cup {"chunk"})
      BY <1>2 DEF Chat
    <3>2. QED BY <1>2, <2>1, <3>1 DEF Chat
  <2>3. QED BY <1>2, <1>3, <2>1, <2>2, ListeningFacts DEF Chat
<1>8. CASE Lost
  <2>1. listener' = Listening /\ UNCHANGED <<bus, active, stream, out>>
    BY <1>8 DEF Lost
  <2>2. /\ recovery' \in Recoveries
        /\ timers' \in [running : SUBSET Nat, taken : SUBSET Streams]
    BY <1>8, LostFacts
  <2>3. QED BY <1>2, <1>3, <2>1, <2>2, ListeningFacts DEF Chat
<1>9. CASE Closed \/ Authenticated
  <2>1. recovery' \in Recoveries /\ UNCHANGED <<bus, active, stream, out, timers>>
    BY <1>9, ClosedFacts, AuthenticatedFacts DEF Closed, Authenticated
  <2>2. listener.event \in Events /\ listener.ids \in SUBSET Streams
    BY <1>9, BusyFacts DEF Closed, Authenticated, Handling
  <2>3. PICK ids : ids \subseteq listener.ids /\ listener' = Doing("failing", listener.event, ids)
    BY <1>9 DEF Closed, Authenticated
  <2>4. listener' \in Busy
    BY <2>2, <2>3, DoingFacts DEF Handling
  <2>5. QED BY <1>2, <1>3, <2>1, <2>4 DEF Chat
<1>10. CASE FailNext
  <2>1. /\ UNCHANGED <<bus, timers>> /\ listener.pc \in Handling
        /\ \E s : /\ listener' = [listener EXCEPT !.ids = @ \ {s}]
                  /\ \E how \in Terminals : End(s, "error", how)
    BY <1>10 DEF FailNext, Fail, Handling, Terminals
  <2>2. listener' \in Busy
    BY <2>1, NextFacts
  <2>3. Chat'
    BY <2>1, EndKeepsChat
  <2>4. QED BY <1>2, <1>3, <2>1, <2>2, <2>3
<1>11. CASE FailLagged
  <2>1. PICK s \in listener.ids :
          /\ recovery' = Forgotten(s) /\ stream' = [stream EXCEPT ![s] = "error"]
          /\ out' = [out EXCEPT ![s] = Append(out[s], "lag")]
          /\ listener' = [listener EXCEPT !.ids = @ \ {s}]
    BY <1>11 DEF FailLagged
  <2>2. /\ UNCHANGED <<bus, timers, active>> /\ listener.pc \in Handling
    BY <1>11 DEF FailLagged, Handling
  <2>3. listener' \in Busy /\ s \in Streams
    BY <2>1, <2>2, NextFacts, BusyFacts
  <2>4. Append(out[s], "lag") \in Seq(Terminals \cup {"chunk"})
    BY <1>2, <2>3 DEF Chat, Terminals
  <2>5. stream' \in [Streams -> {"open", "complete", "error"}]
        /\ out' \in [Streams -> Seq(Terminals \cup {"chunk"})]
    BY <1>2, <2>1, <2>4 DEF Chat
  <2>6. recovery' \in Recoveries
    BY <1>2, <2>1, ForgottenFacts
  <2>7. QED BY <1>2, <1>3, <2>2, <2>3, <2>5, <2>6 DEF Chat
<1>12. CASE Resume
  <2>1. /\ UNCHANGED <<active, recovery, stream, out, timers>>
        /\ bus' = <<>> \/ bus' = bus
        /\ \/ listener' = Listening
           \/ \E pc \in {"done", "select"} : listener' = [pc |-> pc, session |-> session]
    BY <1>12 DEF Resume, chatVars
  <2>2. listener' \in Resting
    BY <1>2, <2>1, ListeningFacts DEF Resting
  <2>3. bus' \in Seq(Events)
    <3>1. <<>> \in Seq(Events)
      OBVIOUS
    <3>2. QED BY <1>2, <2>1, <3>1
  <2>4. QED BY <1>2, <1>3, <2>1, <2>2, <2>3 DEF Chat
<1>13. QED BY <1>4, <1>5, <1>6, <1>7, <1>8, <1>9, <1>10, <1>11, <1>12 DEF Listen

(* The timers *)
TimerAction == (\E s \in Streams : FailTaken(s)) \/ \E epoch \in timers.running : Expire(epoch)

LEMMA ExpireFacts ==
  ASSUME Types, NEW epoch \in timers.running, Expire(epoch)
  PROVE  /\ recovery' \in Recoveries /\ Unsent' = Unsent /\ Sent' = Sent /\ Wakes(Due(epoch))
         /\ timers'.running = timers.running \ {epoch}
         /\ timers'.taken = timers.taken \cup Due(epoch)
         /\ Due(epoch) = {t \in DOMAIN Awaiting : Awaiting[t] = epoch}
         /\ UNCHANGED <<session, closed, conn, jobs, bus, sequence, call, listener, active, stream, out>>
<1>1. recovery \in Recoveries
  BY DEF Types
<1>2. recovery' = Awoken(Due(epoch))
  BY DEF Expire, Awoken
<1>3. /\ recovery' \in Recoveries /\ Unsent' = Unsent /\ Sent' = Sent /\ Wakes(Due(epoch))
  BY <1>1, <1>2, AwokenFacts
<1>4. QED BY <1>3 DEF Expire, TimerSide, connVars, busVars, Due, Awaiting

LEMMA TimersKeepTypes == ASSUME Types, TimerAction PROVE Types'
<1>1. CASE \E epoch \in timers.running : Expire(epoch)
  <2>1. PICK epoch \in timers.running : Expire(epoch)
    BY <1>1
  <2>2. Due(epoch) \subseteq Streams
    <3>1. Awaiting \in Maps(Nat)
      BY RecoveryFields DEF Types
    <3>2. DOMAIN Awaiting \subseteq Streams
      BY <3>1, MapFacts
    <3>3. QED BY <2>1, <3>2, ExpireFacts
  <2>3. timers' \in [running : SUBSET Nat, taken : SUBSET Streams]
    BY <2>1, <2>2, ExpireFacts DEF Types, Expire
  <2>4. QED BY <2>1, <2>3, ExpireFacts DEF Types
<1>2. CASE \E s \in Streams : FailTaken(s)
  <2>1. PICK s \in Streams : End(s, "error", "silence") /\ timers' = [timers EXCEPT !.taken = @ \ {s}]
    BY <1>2 DEF FailTaken, Fail
  <2>2. Chat'
    BY <2>1, EndKeepsChat DEF Terminals
  <2>3. timers' \in [running : SUBSET Nat, taken : SUBSET Streams]
    BY <2>1 DEF Types
  <2>4. UNCHANGED <<session, closed, conn, jobs, bus, sequence, call, listener>>
    BY <1>2 DEF FailTaken, TimerSide, connVars, busVars
  <2>5. QED BY <2>2, <2>3, <2>4 DEF Types, Chat
<1>3. QED BY <1>1, <1>2 DEF TimerAction

--------------------------------------------------------------------------------
(***************************************************************************)
(* What has ended stays ended.                                             *)
(***************************************************************************)
LEMMA EndOfKept ==
  ASSUME NEW s, EndOf(s), stream'[s] = stream[s], out'[s] = out[s],
         s \in active' => s \in active, s \in Taken' => s \in Taken,
         call'[s].pc \in Early => call[s].pc \in Early,
         s \in DOMAIN Unsent' => s \in DOMAIN Unsent, s \in DOMAIN Sent' => s \in DOMAIN Sent
  PROVE  EndOf(s)'
<1>1. Single(s)' /\ (Unended(s) => Unended(s)')
  BY DEF EndOf, Single, Unended
<1>2. QED BY <1>1 DEF EndOf, Unended

LEMMA AppendFacts ==
  ASSUME NEW S, NEW q \in Seq(S), NEW e \in S
  PROVE  /\ Len(Append(q, e)) = Len(q) + 1
         /\ \A i \in DOMAIN Append(q, e) :
              \/ i \in DOMAIN q /\ Append(q, e)[i] = q[i]
              \/ i = Len(q) + 1 /\ Append(q, e)[i] = e
OBVIOUS

(* Who ends an open stream ends it once *)
LEMMA LastFacts ==
  ASSUME NEW s, Unended(s), out[s] \in Seq(Terminals \cup {"chunk"}),
         NEW how \in Terminals \cup {"chunk"}, out'[s] = Append(out[s], how)
  PROVE  Single(s)'
<1>1. \A i \in DOMAIN out[s] : out[s][i] \notin Terminals
  BY DEF Unended
<1>2. Len(out'[s]) = Len(out[s]) + 1
  BY AppendFacts
<1>3. ASSUME NEW i \in DOMAIN out'[s] PROVE i = Len(out[s]) + 1 \/ out'[s][i] \notin Terminals
  <2>1. \/ i \in DOMAIN out[s] /\ out'[s][i] = out[s][i]
        \/ i = Len(out[s]) + 1
    BY AppendFacts
  <2>2. QED BY <1>1, <2>1
<1>4. QED BY <1>2, <1>3 DEF Single

LEMMA ChunkFacts ==
  ASSUME NEW s, Unended(s), out[s] \in Seq(Terminals \cup {"chunk"}), stream' = stream,
         out'[s] = Append(out[s], "chunk")
  PROVE  Unended(s)'
<1>1. \A i \in DOMAIN out[s] : out[s][i] \notin Terminals
  BY DEF Unended
<1>2. "chunk" \notin Terminals
  BY DEF Terminals
<1>3. ASSUME NEW i \in DOMAIN out'[s] PROVE out'[s][i] \notin Terminals
  <2>1. \/ i \in DOMAIN out[s] /\ out'[s][i] = out[s][i]
        \/ out'[s][i] = "chunk"
    BY AppendFacts
  <2>2. QED BY <1>1, <1>2, <2>1
<1>4. QED BY <1>3 DEF Unended

(* The stream that a step ends *)
LEMMA EndOfEnded ==
  ASSUME Types, NEW s \in Streams, EndOf(s), Place(s), s \in active \/ s \in Taken,
         NEW how \in Terminals, out'[s] = Append(out[s], how),
         call[s].pc \notin Early, call'[s].pc \notin Early,
         s \notin active', s \notin Taken',
         s \notin DOMAIN Unsent', s \notin DOMAIN Sent'
  PROVE  EndOf(s)'
<1>1. Unended(s) /\ out[s] \in Seq(Terminals \cup {"chunk"})
  BY DEF EndOf, Types
<1>2. Single(s)'
  BY <1>1, LastFacts
<1>3. QED BY <1>2 DEF EndOf

(* End is the only one who ends a stream of the map, and forgets it in the same step *)
LEMMA EndKeepsEnds ==
  ASSUME Types, Ends, Places, NEW s, NEW state \in {"complete", "error"}, NEW how \in Terminals,
         End(s, state, how), Taken' \subseteq Taken,
         \A t \in Streams : call'[t].pc \in Early => call[t].pc \in Early
  PROVE  Ends'
<1>1. /\ active' = active \ {s} /\ recovery' = Forgotten(s)
      /\ s \notin active => UNCHANGED <<stream, out>>
      /\ \A t \in Streams : t # s => stream'[t] = stream[t] /\ out'[t] = out[t]
      /\ s \in active => out'[s] = Append(out[s], how)
  BY EndFacts
<1>2. Forgets(s)
  BY <1>1, ForgottenFacts DEF Types
<1>3. /\ DOMAIN Unsent' = DOMAIN Unsent \ {s} /\ DOMAIN Sent' = DOMAIN Sent \ {s}
  BY <1>2 DEF Forgets
<1>4. ASSUME NEW t \in Streams PROVE EndOf(t)'
  <2>1. EndOf(t) /\ Place(t)
    BY DEF Ends, Places
  <2>2. CASE t = s /\ s \in active
    <3>1. call[t].pc \notin Early /\ call'[t].pc \notin Early
      BY <2>1, <2>2 DEF Place, Early
    <3>2. t \notin Taken'
      BY <2>1, <2>2 DEF EndOf
    <3>3. QED BY <1>1, <1>3, <2>1, <2>2, <3>1, <3>2, EndOfEnded
  <2>3. CASE ~(t = s /\ s \in active)
    <3>1. stream'[t] = stream[t] /\ out'[t] = out[t]
      BY <1>1, <2>3
    <3>2. t \in active' => t \in active
      BY <1>1
    <3>3. (t \in DOMAIN Unsent' => t \in DOMAIN Unsent) /\ (t \in DOMAIN Sent' => t \in DOMAIN Sent)
      BY <1>3
    <3>4. QED BY <2>1, <3>1, <3>2, <3>3, EndOfKept
  <2>4. QED BY <2>2, <2>3
<1>5. QED BY <1>4 DEF Ends

LEMMA ConnKeepsEnds == ASSUME Types, Ends, ConnAction PROVE Ends'
<1>1. UNCHANGED <<active, recovery, stream, out, listener>> /\ \A s \in Streams : Moves(s)
  BY ConnMoves DEF chatVars
<1>2. ASSUME NEW s \in Streams PROVE EndOf(s)'
  <2>1. EndOf(s) /\ Moves(s)
    BY <1>1 DEF Ends
  <2>2. call'[s].pc \in Early => call[s].pc \in Early
    BY <2>1 DEF Moves, Early
  <2>3. Taken' = Taken /\ Unsent' = Unsent /\ Sent' = Sent
    BY <1>1 DEF Taken, Unsent, Sent
  <2>4. QED BY <1>1, <2>1, <2>2, <2>3, EndOfKept
<1>3. QED BY <1>2 DEF Ends

(* Nothing of a stream changes, except that it may no longer be waited for *)
Same(t) ==
  /\ call'[t] = call[t] /\ jobs'[t] = jobs[t] /\ stream'[t] = stream[t] /\ out'[t] = out[t]
  /\ t \in active' <=> t \in active
  /\ t \in DOMAIN Unsent' <=> t \in DOMAIN Unsent
  /\ t \in DOMAIN Unsent => Unsent'[t] = Unsent[t]
  /\ t \in DOMAIN Sent' <=> t \in DOMAIN Sent
  /\ t \in DOMAIN Sent => Sent'[t] = Sent[t]
  /\ t \in DOMAIN Awaiting' => t \in DOMAIN Awaiting /\ Awaiting'[t] = Awaiting[t]

LEMMA SameKeeps ==
  ASSUME NEW t, Same(t)
  PROVE  /\ EndOf(t) /\ (t \in Taken' => t \in Taken) => EndOf(t)'
         /\ Place(t) /\ timers'.running = timers.running => Place(t)'
         /\ Noticed(t) /\ UNCHANGED <<listener, sequence>> => Noticed(t)'
<1>1. ASSUME EndOf(t), t \in Taken' => t \in Taken PROVE EndOf(t)'
  <2>1. /\ stream'[t] = stream[t] /\ out'[t] = out[t]
        /\ t \in active' => t \in active
        /\ call'[t].pc \in Early => call[t].pc \in Early
        /\ t \in DOMAIN Unsent' => t \in DOMAIN Unsent
        /\ t \in DOMAIN Sent' => t \in DOMAIN Sent
    BY DEF Same
  <2>2. QED BY <1>1, <2>1, EndOfKept
<1>2. ASSUME Place(t), timers'.running = timers.running PROVE Place(t)'
  BY <1>2 DEF Same, Place
<1>3. ASSUME Noticed(t), UNCHANGED <<listener, sequence>> PROVE Noticed(t)'
  BY <1>3 DEF Same, Noticed, Running
<1>4. QED BY <1>1, <1>2, <1>3

LEMMA EndOthers ==
  ASSUME Types, NEW s, NEW state \in {"complete", "error"}, NEW how \in Terminals,
         End(s, state, how), NEW t \in Streams, t # s, call'[t] = call[t], jobs'[t] = jobs[t]
  PROVE  Same(t)
<1>1. active' = active \ {s} /\ stream'[t] = stream[t] /\ out'[t] = out[t]
  <2>1. /\ active' = active \ {s}
        /\ \A u \in Streams : u # s => stream'[u] = stream[u] /\ out'[u] = out[u]
    BY EndFacts
  <2>2. QED BY <2>1
<1>2. Forgets(s)
  BY EndFacts, ForgottenFacts DEF Types
<1>3. QED BY <1>1, <1>2 DEF Same, Forgets

LEMMA CallOthers ==
  ASSUME Types, NEW s \in Streams, CallAction(s), NEW t \in Streams, t # s
  PROVE  Same(t)
<1>1. call'[t] = call[t] /\ jobs'[t] = jobs[t]
  BY CallFrames DEF CallFrame
<1>2. CASE Maintained
  BY <1>1, <1>2 DEF Maintained, Same, Unsent, Sent, Awaiting
<1>3. CASE /\ UNCHANGED <<active, stream, out>>
           /\ Sent' = Sent /\ Awaiting' = Awaiting /\ DOMAIN Unsent' = DOMAIN Unsent \cup {s}
           /\ \A u \in DOMAIN Unsent \ {s} : Unsent'[u] = Unsent[u]
  BY <1>1, <1>3 DEF Same
<1>4. CASE UNCHANGED <<recovery, stream, out>>
           /\ (active' = active \cup {s} \/ active' = active \ {s})
  BY <1>1, <1>4 DEF Same, Unsent, Sent, Awaiting
<1>5. CASE /\ UNCHANGED <<active, stream, out>> /\ Awaiting' = Awaiting
           /\ DOMAIN Unsent' = DOMAIN Unsent \ {s}
           /\ \A u \in DOMAIN Unsent \ {s} : Unsent'[u] = Unsent[u]
           /\ \/ Sent' = Sent
              \/ /\ DOMAIN Sent' = DOMAIN Sent \cup {s}
                 /\ \A u \in DOMAIN Sent \ {s} : Sent'[u] = Sent[u]
  BY <1>1, <1>5 DEF Same
<1>6. CASE End(s, "error", "terminal") \/ End(s, "error", "handshake")
  BY <1>1, <1>6, EndOthers DEF Terminals
<1>7. CASE recovery' = Forgotten(s) /\ UNCHANGED <<active, stream, out>>
  <2>1. Forgets(s)
    BY <1>7, ForgottenFacts DEF Types
  <2>2. QED BY <1>1, <1>7, <2>1 DEF Same, Forgets
<1>8. QED BY <1>2, <1>3, <1>4, <1>5, <1>6, <1>7, CallEffects
      DEF CallEffect, Steps, Registers, Inserts, Settles, Fails, Leaves, Cleans

LEMMA CallKeepsEnds == ASSUME Types, Ends, Places, NEW s \in Streams, CallAction(s) PROVE Ends'
<1>1. /\ Taken' = Taken /\ EndOf(s) /\ Place(s)
  BY CallFrames DEF CallFrame, Taken, Ends, Places
<1>2. ASSUME NEW t \in Streams, t # s PROVE EndOf(t)'
  <2>1. EndOf(t) /\ Same(t)
    BY <1>2, CallOthers DEF Ends
  <2>2. QED BY <1>1, <2>1, SameKeeps
<1>3. CASE Fails(s)
  <2>1. \A t \in Streams : call'[t].pc \in Early => call[t].pc \in Early
    <3>1. call'[s].pc \notin Early
      BY <1>3 DEF Fails, Turns, Early
    <3>2. QED BY <3>1, CallFrames DEF CallFrame
  <2>2. Ends'
    BY <1>1, <1>3, <2>1, EndKeepsEnds DEF Fails, Terminals
  <2>3. QED BY <2>2
<1>4. CASE ~Fails(s)
  <2>0. UNCHANGED <<stream, out>>
    BY <1>4, CallEffects
       DEF CallEffect, Steps, Registers, Inserts, Settles, Leaves, Cleans, Maintained
  <2>1. EndOf(s)'
    <3>1. CASE Steps(s)
      <4>1. UNCHANGED <<active, recovery>> /\ (call'[s].pc \in Early => call[s].pc \in Early)
        BY <3>1 DEF Steps, Maintained, Turns, Early
      <4>2. QED BY <1>1, <2>0, <4>1, EndOfKept DEF Unsent, Sent
    <3>2. CASE Registers(s) \/ Inserts(s)
      <4>1. /\ call[s].pc \in Early /\ Sent' = Sent
            /\ Registers(s) => active' = active
            /\ Inserts(s) => call'[s].pc \notin Early /\ Unsent' = Unsent
        BY <3>2 DEF Registers, Inserts, Turns, Early, Unsent, Sent
      <4>2. Unended(s) /\ s \notin Taken /\ stream[s] = "open" /\ Unended(s)'
        BY <1>1, <2>0, <4>1 DEF EndOf, Unended
      <4>3. Single(s)'
        BY <1>1, <2>0 DEF EndOf, Single
      <4>4. QED BY <1>1, <2>0, <4>2, <4>3 DEF EndOf
    <3>3. CASE Settles(s)
      <4>1. /\ active' = active /\ call'[s].pc \notin Early
            /\ s \in DOMAIN Unsent' => s \in DOMAIN Unsent
            /\ s \in DOMAIN Sent' => s \in DOMAIN Sent \cup DOMAIN Unsent
        BY <3>3 DEF Settles, Turns, Early
      <4>2. Single(s)' /\ (Unended(s) => Unended(s)')
        BY <1>1, <2>0 DEF EndOf, Single, Unended
      <4>3. QED BY <1>1, <2>0, <4>1, <4>2 DEF EndOf
    <3>4. CASE Leaves(s)
      <4>1. s \notin active' /\ recovery' = recovery /\ call'[s].pc \notin Early
        BY <3>4 DEF Leaves, Turns, Early
      <4>2. QED BY <1>1, <2>0, <4>1, EndOfKept DEF Unsent, Sent
    <3>5. CASE Cleans(s)
      <4>1. active' = active /\ call'[s].pc \notin Early /\ recovery' = Forgotten(s)
        BY <3>5 DEF Cleans, Turns, Early
      <4>2. Forgets(s)
        BY <4>1, ForgottenFacts DEF Types
      <4>3. s \notin DOMAIN Unsent' /\ s \notin DOMAIN Sent'
        BY <4>2 DEF Forgets
      <4>4. QED BY <1>1, <2>0, <4>1, <4>3, EndOfKept
    <3>6. QED BY <1>4, <3>1, <3>2, <3>3, <3>4, <3>5, CallEffects DEF CallEffect
  <2>2. QED BY <1>2, <2>1 DEF Ends
<1>5. QED BY <1>3, <1>4

LEMMA QuietKeepsEnds ==
  ASSUME Ends, UNCHANGED <<call, stream, out>>, active' \subseteq active, Taken' \subseteq Taken,
         DOMAIN Unsent' \subseteq DOMAIN Unsent, DOMAIN Sent' \subseteq DOMAIN Sent
  PROVE  Ends'
<1>1. ASSUME NEW s \in Streams PROVE EndOf(s)'
  BY EndOfKept DEF Ends
<1>2. QED BY <1>1 DEF Ends

LEMMA ListenKeepsEnds == ASSUME Types, Ends, Places, Listen PROVE Ends'
<1>1. call' = call /\ recovery \in Recoveries
  BY DEF Listen, EndSessions, TakeLagged, Receive, Push, Lost, Closed, Authenticated, FailNext,
         FailLagged, Resume, ListenerSide, Types
<1>2. ASSUME recovery' = recovery PROVE DOMAIN Unsent' = DOMAIN Unsent /\ DOMAIN Sent' = DOMAIN Sent
  BY <1>2 DEF Unsent, Sent
<1>3. CASE EndSessions
  <2>1. Taken' = {}
    BY <1>3 DEF EndSessions, Doing, Taken
  <2>2. QED BY <1>1, <1>2, <1>3, <2>1, QuietKeepsEnds DEF EndSessions, chatVars
<1>4. CASE TakeLagged
  <2>1. active' = {} /\ Taken' = active /\ UNCHANGED <<recovery, stream, out>>
    BY <1>4 DEF TakeLagged, Doing, Taken
  <2>2. DOMAIN Unsent' = DOMAIN Unsent /\ DOMAIN Sent' = DOMAIN Sent
    BY <1>2, <2>1
  <2>3. ASSUME NEW s \in Streams PROVE EndOf(s)'
    <3>1. EndOf(s) /\ (call[s].pc \in Early => s \notin active)
      BY DEF Ends, Places, Place, Early
    <3>2. Single(s)' /\ (Unended(s) => Unended(s)')
      BY <2>1, <3>1 DEF EndOf, Single, Unended
    <3>3. QED BY <1>1, <2>1, <2>2, <3>1, <3>2 DEF EndOf
  <2>4. QED BY <2>3 DEF Ends
<1>5. CASE Receive
  <2>1. listener.pc = "select" /\ Takes(Head(bus)) /\ Taken = {}
    BY <1>5, ReceiveFacts DEF Taken
  <2>2. CASE UNCHANGED <<active, recovery, stream, out, listener>>
    BY <1>1, <1>2, <2>1, <2>2, QuietKeepsEnds DEF Taken
  <2>3. ASSUME NEW event, recovery' = Awoken(event.ids), UNCHANGED <<active, stream, out>>,
               listener' = listener \/ listener' = Doing("push", event, event.ids)
        PROVE  Ends'
    <3>1. Taken' = {}
      BY <2>1, <2>3 DEF Taken, Doing
    <3>2. DOMAIN Unsent' = DOMAIN Unsent /\ DOMAIN Sent' = DOMAIN Sent
      BY <1>1, <2>3, AwokenFacts
    <3>3. QED BY <1>1, <2>3, <3>1, <3>2, QuietKeepsEnds
  <2>4. ASSUME listener' = listener, NEW s, End(s, "complete", "result") \/ End(s, "error", "reported")
        PROVE  Ends'
    <3>1. Taken' = Taken
      BY <2>4 DEF Taken
    <3>2. QED BY <1>1, <2>4, <3>1, EndKeepsEnds DEF Terminals
  <2>5. ASSUME NEW event, listener' = Doing("judge", event, Snapshot(event)),
               UNCHANGED <<active, recovery, stream, out>>
        PROVE  Ends'
    <3>1. Taken' = {}
      BY <2>5 DEF Taken, Doing
    <3>2. QED BY <1>1, <1>2, <2>5, <3>1, QuietKeepsEnds
  <2>6. QED BY <2>1, <2>2, <2>3, <2>4, <2>5 DEF Takes
<1>6. CASE Push
  <2>1. /\ out' = [s \in Streams |-> IF s \in listener.ids \cap active
                                       THEN Append(out[s], "chunk") ELSE out[s]]
        /\ UNCHANGED <<active, recovery, stream>> /\ Taken' = {}
    BY <1>6 DEF Push, Listening, Taken
  <2>2. DOMAIN Unsent' = DOMAIN Unsent /\ DOMAIN Sent' = DOMAIN Sent
    BY <1>2, <2>1
  <2>3. ASSUME NEW s \in Streams PROVE EndOf(s)'
    <3>1. EndOf(s)
      BY DEF Ends
    <3>2. CASE s \in listener.ids \cap active
      <4>1. /\ Unended(s) /\ out[s] \in Seq(Terminals \cup {"chunk"})
            /\ out'[s] = Append(out[s], "chunk")
        BY <2>1, <3>1, <3>2 DEF EndOf, Types
      <4>2. Unended(s)'
        BY <2>1, <4>1, ChunkFacts
      <4>3. Single(s)'
        BY <4>1, LastFacts
      <4>4. QED BY <1>1, <2>1, <2>2, <3>1, <4>2, <4>3 DEF EndOf
    <3>3. CASE s \notin listener.ids \cap active
      BY <1>1, <2>1, <2>2, <3>1, <3>3, EndOfKept
    <3>4. QED BY <3>2, <3>3
  <2>4. QED BY <2>3 DEF Ends
<1>7. CASE Lost \/ Closed \/ Authenticated
  <2>1. Taken' = {} /\ UNCHANGED <<active, stream, out>>
    BY <1>7 DEF Lost, Closed, Authenticated, Listening, Doing, Taken
  <2>2. DOMAIN Unsent' = DOMAIN Unsent /\ DOMAIN Sent' = DOMAIN Sent
    BY <1>7, LostFacts, ClosedFacts, AuthenticatedFacts
  <2>3. QED BY <1>1, <2>1, <2>2, QuietKeepsEnds
<1>8. CASE FailNext
  <2>1. /\ listener.pc \in {"ending", "failing"}
        /\ \E s : /\ listener' = [listener EXCEPT !.ids = @ \ {s}]
                  /\ \E how \in Terminals : End(s, "error", how)
    BY <1>8 DEF FailNext, Fail, Terminals
  <2>2. listener'.pc = listener.pc
    BY <2>1, NextFacts DEF Handling
  <2>3. Taken' = {}
    BY <2>1, <2>2 DEF Taken
  <2>4. QED BY <1>1, <2>1, <2>3, EndKeepsEnds
<1>9. CASE FailLagged
  <2>1. PICK s \in listener.ids :
          /\ recovery' = Forgotten(s) /\ stream' = [stream EXCEPT ![s] = "error"]
          /\ out' = [out EXCEPT ![s] = Append(out[s], "lag")]
          /\ listener' = [listener EXCEPT !.ids = @ \ {s}]
    BY <1>9 DEF FailLagged
  <2>2. active' = active /\ listener.pc = "lag"
    BY <1>9 DEF FailLagged
  <2>3. listener'.pc = "lag" /\ listener'.ids = listener.ids \ {s} /\ s \in Streams
    BY <2>1, <2>2, NextFacts, BusyFacts DEF Handling
  <2>4. Taken = listener.ids /\ Taken' = Taken \ {s}
    BY <2>2, <2>3 DEF Taken
  <2>5. Forgets(s)
    BY <1>1, <2>1, ForgottenFacts
  <2>6. /\ DOMAIN Unsent' = DOMAIN Unsent \ {s} /\ DOMAIN Sent' = DOMAIN Sent \ {s}
    BY <2>5 DEF Forgets
  <2>7. ASSUME NEW t \in Streams PROVE EndOf(t)'
    <3>1. EndOf(t) /\ Place(t)
      BY DEF Ends, Places
    <3>2. CASE t = s
      <4>1. /\ out'[t] = Append(out[t], "lag") /\ t \in Taken
            /\ call[t].pc \notin Early /\ t \notin active
        BY <2>1, <2>4, <3>1, <3>2 DEF EndOf, Types
      <4>2. QED BY <1>1, <2>2, <2>4, <2>6, <3>1, <3>2, <4>1, EndOfEnded DEF Terminals
    <3>3. CASE t # s
      <4>1. stream'[t] = stream[t] /\ out'[t] = out[t]
        BY <2>1, <3>3 DEF Types
      <4>2. QED BY <1>1, <2>2, <2>4, <2>6, <3>1, <4>1, EndOfKept
    <3>4. QED BY <3>2, <3>3
  <2>8. QED BY <2>7 DEF Ends
<1>10. CASE Resume
  <2>1. UNCHANGED <<active, recovery, stream, out>> /\ Taken' = {}
    BY <1>10 DEF Resume, chatVars, Listening, Taken
  <2>2. QED BY <1>1, <1>2, <2>1, QuietKeepsEnds
<1>11. QED BY <1>3, <1>4, <1>5, <1>6, <1>7, <1>8, <1>9, <1>10 DEF Listen

LEMMA TimersKeepEnds == ASSUME Types, Ends, Places, TimerAction PROVE Ends'
<1>1. CASE \E epoch \in timers.running : Expire(epoch)
  <2>1. UNCHANGED <<call, stream, out, active, listener>> /\ Unsent' = Unsent /\ Sent' = Sent
    BY <1>1, ExpireFacts
  <2>2. Taken' = Taken
    BY <2>1 DEF Taken
  <2>3. QED BY <2>1, <2>2, QuietKeepsEnds
<1>2. CASE \E s \in Streams : FailTaken(s)
  <2>1. PICK s \in Streams : End(s, "error", "silence")
    BY <1>2 DEF FailTaken, Fail
  <2>2. call' = call /\ Taken' = Taken
    BY <1>2 DEF FailTaken, TimerSide, Taken
  <2>3. QED BY <2>1, <2>2, EndKeepsEnds DEF Terminals
<1>3. QED BY <1>1, <1>2 DEF TimerAction

--------------------------------------------------------------------------------
(***************************************************************************)
(* Every stream of a map is where its call says.                           *)
(***************************************************************************)
LEMMA ConnKeepsPlaces == ASSUME Types, Places, ConnAction PROVE Places'
<1>1. UNCHANGED <<active, recovery, timers>> /\ \A s \in Streams : Moves(s)
  BY ConnMoves DEF chatVars
<1>2. Unsent' = Unsent /\ Sent' = Sent /\ Awaiting' = Awaiting
  BY <1>1 DEF Unsent, Sent, Awaiting
<1>3. ASSUME NEW s \in Streams PROVE Place(s)'
  <2>1. Place(s) /\ Moves(s)
    BY <1>1 DEF Places
  <2>2. CASE call'[s] = call[s]
    BY <1>1, <1>2, <2>1, <2>2 DEF Place
  <2>3. CASE call[s].pc = "sending" /\ call'[s].pc \in {"refused", "written"}
    <3>1. s \notin DOMAIN Sent
      BY <2>1, <2>3 DEF Place
    <3>2. QED BY <1>1, <1>2, <2>1, <2>3, <3>1 DEF Place
  <2>4. QED BY <2>1, <2>2, <2>3 DEF Moves, Write
<1>4. QED BY <1>3 DEF Places

(* What ended is nowhere *)
LEMMA NowherePlace ==
  ASSUME NEW s, s \notin active', s \notin DOMAIN Unsent', s \notin DOMAIN Sent',
         s \notin DOMAIN Awaiting', call'[s].pc # "submitting"
  PROVE  Place(s)'
BY DEF Place

LEMMA EndKeepsPlaces ==
  ASSUME Types, Places, NEW s, NEW state \in {"complete", "error"}, NEW how \in Terminals,
         End(s, state, how), timers'.running = timers.running,
         s \in Streams => call'[s].pc # "submitting",
         \A t \in Streams \ {s} : call'[t] = call[t] /\ jobs'[t] = jobs[t]
  PROVE  Places'
<1>1. ASSUME NEW t \in Streams, t # s PROVE Place(t)'
  <2>1. Place(t)
    BY DEF Places
  <2>2. call'[t] = call[t] /\ jobs'[t] = jobs[t]
    BY <1>1
  <2>3. Same(t)
    BY <1>1, <2>2, EndOthers
  <2>4. QED BY <2>1, <2>3, SameKeeps
<1>2. ASSUME s \in Streams PROVE Place(s)'
  <2>1. active' = active \ {s} /\ recovery' = Forgotten(s)
    BY EndFacts
  <2>2. Forgets(s)
    BY <2>1, ForgottenFacts DEF Types
  <2>3. QED BY <1>2, <2>1, <2>2, NowherePlace DEF Forgets
<1>3. QED BY <1>1, <1>2 DEF Places

LEMMA CallKeepsPlaces == ASSUME Types, Ends, Places, NEW s \in Streams, CallAction(s) PROVE Places'
<1>1. /\ timers' = timers /\ EndOf(s) /\ Place(s)
  BY CallFrames DEF CallFrame, Ends, Places
<1>2. ASSUME NEW t \in Streams, t # s PROVE Place(t)'
  <2>1. Place(t) /\ Same(t)
    BY <1>2, CallOthers DEF Places
  <2>2. QED BY <1>1, <2>1, SameKeeps
<1>3. Place(s)'
  <2>1. CASE Steps(s)
    <3>1. UNCHANGED active /\ Unsent' = Unsent /\ Sent' = Sent /\ Awaiting' = Awaiting
      BY <2>1 DEF Steps, Maintained, Unsent, Sent, Awaiting
    <3>2. CASE call[s].pc \in {"idle", "prepared"} /\ call'[s].pc \in {"prepared", "failed"}
      BY <1>1, <3>1, <3>2 DEF Place
    <3>3. CASE /\ call[s].pc \in {"sending", "written"}
               /\ call'[s].pc \in {"refused", "accepted", "dropped"}
      BY <1>1, <3>1, <3>3 DEF Place
    <3>4. CASE call[s].pc = "started" /\ call'[s].pc = "returned" /\ stream[s] # "open"
      <4>1. s \notin active /\ s \notin DOMAIN Unsent /\ s \notin DOMAIN Sent
        BY <1>1, <3>4 DEF EndOf, Unended
      <4>2. QED BY <1>1, <3>1, <3>4, <4>1 DEF Place
    <3>5. QED BY <2>1, <3>2, <3>3, <3>4 DEF Steps, Turns
  <2>2. CASE Registers(s)
    <3>1. /\ UNCHANGED active /\ Sent' = Sent /\ Awaiting' = Awaiting
          /\ DOMAIN Unsent' = DOMAIN Unsent \cup {s}
          /\ call[s].pc = "prepared" /\ call'[s].pc = "submitting"
      BY <2>2 DEF Registers, Turns
    <3>2. QED BY <1>1, <3>1 DEF Place
  <2>3. CASE Inserts(s)
    <3>1. /\ Unsent' = Unsent /\ Sent' = Sent /\ Awaiting' = Awaiting
          /\ call[s].pc = "submitting" /\ call'[s].pc = "sending"
      BY <2>3 DEF Inserts, Turns, Unsent, Sent, Awaiting
    <3>2. QED BY <1>1, <3>1 DEF Place
  <2>4. CASE Settles(s)
    <3>1. /\ active' = active /\ DOMAIN Unsent' = DOMAIN Unsent \ {s} /\ Awaiting' = Awaiting
          /\ call[s].pc = "accepted" /\ call'[s].pc \in {"closed", "missing", "started"}
          /\ call'[s].after = call[s].after
      BY <2>4 DEF Settles, Turns
    <3>2. /\ s \notin DOMAIN Sent
          /\ s \in active => s \in DOMAIN Unsent
      BY <1>1, <3>1 DEF Place
    <3>3. CASE Sent' = Sent /\ (call'[s].pc = "started" => s \notin DOMAIN Unsent)
      BY <1>1, <3>1, <3>2, <3>3 DEF Place
    <3>4. CASE /\ DOMAIN Sent' = DOMAIN Sent \cup {s} /\ Sent'[s] = call[s].after
               /\ call'[s].pc = "started"
      BY <1>1, <3>1, <3>2, <3>4 DEF Place
    <3>5. QED BY <2>4, <3>3, <3>4 DEF Settles, Turns
  <2>5. CASE Fails(s)
    <3>1. call'[s].pc = "started" /\ recovery' = Forgotten(s) /\ active' = active \ {s}
      BY <2>5, EndFacts DEF Fails, Turns, Terminals
    <3>2. Forgets(s)
      BY <3>1, ForgottenFacts DEF Types
    <3>3. QED BY <3>1, <3>2, NowherePlace DEF Forgets
  <2>6. CASE Leaves(s)
    <3>1. /\ Unsent' = Unsent /\ Sent' = Sent /\ Awaiting' = Awaiting /\ active' = active \ {s}
          /\ \/ call[s].pc = "refused" /\ call'[s].pc = "removed"
             \/ call[s].pc = "started" /\ call'[s].pc = "leaving"
          /\ call'[s].after = call[s].after
      BY <2>6 DEF Leaves, Turns, Unsent, Sent, Awaiting
    <3>2. QED BY <1>1, <3>1 DEF Place
  <2>7. CASE Cleans(s)
    <3>1. /\ active' = active /\ recovery' = Forgotten(s) /\ call[s].pc \in {"removed", "leaving"}
          /\ call'[s].pc \in {"failed", "left"}
      BY <2>7 DEF Cleans, Turns
    <3>2. Forgets(s)
      BY <3>1, ForgottenFacts DEF Types
    <3>3. s \notin active
      BY <1>1, <3>1 DEF Place
    <3>4. QED BY <3>1, <3>2, <3>3, NowherePlace DEF Forgets
  <2>8. QED BY <2>1, <2>2, <2>3, <2>4, <2>5, <2>6, <2>7, CallEffects DEF CallEffect
<1>4. QED BY <1>2, <1>3 DEF Places

LEMMA QuietKeepsPlaces ==
  ASSUME Places, UNCHANGED call, active' \subseteq active, DOMAIN Unsent' = DOMAIN Unsent,
         Sent' = Sent,
         \A t \in DOMAIN Awaiting' : t \in Streams => Awaiting'[t] \in timers'.running
  PROVE  Places'
<1>1. ASSUME NEW s \in Streams PROVE Place(s)'
  <2>1. Place(s)
    BY DEF Places
  <2>2. s \in DOMAIN Awaiting' => Awaiting'[s] \in timers'.running
    OBVIOUS
  <2>3. QED BY <2>1, <2>2 DEF Place
<1>2. QED BY <1>1 DEF Places

LEMMA ListenKeepsPlaces == ASSUME Types, Ends, Places, Begun, Hearsay, Listen PROVE Places'
<1>1. call' = call /\ jobs' = jobs /\ recovery \in Recoveries
  BY DEF Listen, EndSessions, TakeLagged, Receive, Push, Lost, Closed, Authenticated, FailNext,
         FailLagged, Resume, ListenerSide, Types, connVars
<1>2. \A t \in DOMAIN Awaiting : t \in Streams => Awaiting[t] \in timers.running
  BY DEF Places, Place
<1>3. ASSUME UNCHANGED <<recovery, timers>>, active' \subseteq active PROVE Places'
  BY <1>1, <1>2, <1>3, QuietKeepsPlaces DEF Unsent, Sent, Awaiting
<1>4. CASE EndSessions \/ TakeLagged \/ Push \/ Resume
  BY <1>3, <1>4 DEF EndSessions, TakeLagged, Push, Resume, chatVars
<1>5. CASE Receive
  <2>1. Takes(Head(bus)) /\ timers' = timers /\ Head(bus) \in Events /\ bus # <<>>
    BY <1>5, ReceiveFacts
  <2>2. CASE UNCHANGED <<active, recovery>>
    BY <1>3, <2>1, <2>2
  <2>3. ASSUME NEW event, recovery' = Awoken(event.ids), UNCHANGED <<active, stream, out>>
        PROVE  Places'
    <3>1. Unsent' = Unsent /\ Sent' = Sent /\ Wakes(event.ids)
      BY <1>1, <2>3, AwokenFacts
    <3>2. \A t \in DOMAIN Awaiting' : t \in Streams => Awaiting'[t] \in timers'.running
      BY <1>2, <2>1, <3>1 DEF Wakes
    <3>3. QED BY <1>1, <2>3, <3>1, <3>2, QuietKeepsPlaces
  <2>4. ASSUME NEW s \in Head(bus).ids, s \in Streams, Head(bus).kind \in {"result", "error"},
               End(s, "complete", "result") \/ End(s, "error", "reported")
        PROVE  Places'
    <3>1. Own(Head(bus))
      <4>1. bus \in Seq(Events)
        BY DEF Types
      <4>2. 1 \in DOMAIN bus /\ Head(bus) = bus[1]
        BY <2>1, <4>1
      <4>3. QED BY <4>2 DEF Hearsay, OwnBus
    <3>2. call[s].pc # "submitting"
      BY <2>4, <3>1 DEF Own, Early
    <3>3. QED BY <1>1, <2>1, <2>4, <3>2, EndKeepsPlaces DEF Terminals
  <2>5. QED BY <2>1, <2>2, <2>3, <2>4 DEF Takes
<1>6. CASE Lost
  <2>1. active' = active
    BY <1>6 DEF Lost
  <2>2. /\ Unsent' = Unsent /\ Sent' = Sent /\ timers.running \subseteq timers'.running
        /\ \A t \in DOMAIN Awaiting : t \in DOMAIN Awaiting' /\ Awaiting'[t] = Awaiting[t]
        /\ \A t \in DOMAIN Awaiting' \ DOMAIN Awaiting : Awaiting'[t] \in timers'.running
    BY <1>6, LostFacts
  <2>3. \A t \in DOMAIN Awaiting' : t \in Streams => Awaiting'[t] \in timers'.running
    BY <1>2, <2>2
  <2>4. QED BY <1>1, <2>1, <2>2, <2>3, QuietKeepsPlaces
<1>7. CASE Closed
  <2>1. active' = active /\ timers' = timers
    BY <1>7 DEF Closed
  <2>2. DOMAIN Unsent' = DOMAIN Unsent /\ Sent' = Sent /\ Awaiting' = Awaiting
    BY <1>7, ClosedFacts
  <2>3. QED BY <1>1, <1>2, <2>1, <2>2, QuietKeepsPlaces
<1>8. CASE Authenticated
  <2>1. active' = active /\ timers' = timers
    BY <1>8 DEF Authenticated
  <2>2. DOMAIN Unsent' = DOMAIN Unsent /\ Sent' = Sent /\ Wakes(listener.ids)
    BY <1>8, AuthenticatedFacts
  <2>3. \A t \in DOMAIN Awaiting' : t \in Streams => Awaiting'[t] \in timers'.running
    BY <1>2, <2>1, <2>2 DEF Wakes
  <2>4. QED BY <1>1, <2>1, <2>2, <2>3, QuietKeepsPlaces
<1>9. CASE FailNext
  <2>1. PICK s \in listener.ids : \E how \in Terminals : End(s, "error", how)
    BY <1>9 DEF FailNext, Fail, Terminals
  <2>2. timers' = timers /\ s \in Handled
    BY <1>9, <2>1 DEF FailNext, Handled
  <2>3. s \in Streams => call[s].pc # "submitting"
    BY <2>2 DEF Begun, Early
  <2>4. QED BY <1>1, <2>1, <2>2, <2>3, EndKeepsPlaces
<1>10. CASE FailLagged
  <2>1. PICK s \in listener.ids : recovery' = Forgotten(s)
    BY <1>10 DEF FailLagged
  <2>2. timers' = timers /\ s \in Handled /\ active' = active
    BY <1>10, <2>1 DEF FailLagged, Handled
  <2>3. Forgets(s)
    BY <1>1, <2>1, ForgottenFacts
  <2>4. ASSUME NEW t \in Streams PROVE Place(t)'
    <3>1. Place(t)
      BY DEF Places
    <3>2. CASE t = s
      <4>1. call[t].pc # "submitting"
        BY <2>2, <3>2 DEF Begun, Early
      <4>2. s \notin active
        BY <1>10, <2>1, <3>2 DEF FailLagged, Ends, EndOf, Taken
      <4>3. QED BY <1>1, <2>2, <2>3, <3>1, <3>2, <4>1, <4>2 DEF Place, Forgets
    <3>3. CASE t # s
      BY <1>1, <2>2, <2>3, <3>1, <3>3 DEF Place, Forgets
    <3>4. QED BY <3>2, <3>3
  <2>5. QED BY <2>4 DEF Places
<1>11. QED BY <1>4, <1>5, <1>6, <1>7, <1>8, <1>9, <1>10 DEF Listen

LEMMA TimersKeepPlaces == ASSUME Types, Places, Begun, TimerAction PROVE Places'
<1>1. CASE \E epoch \in timers.running : Expire(epoch)
  <2>1. PICK epoch \in timers.running : Expire(epoch)
    BY <1>1
  <2>2. /\ UNCHANGED <<call, active>> /\ Unsent' = Unsent /\ Sent' = Sent /\ Wakes(Due(epoch))
        /\ timers'.running = timers.running \ {epoch}
        /\ Due(epoch) = {t \in DOMAIN Awaiting : Awaiting[t] = epoch}
    BY <2>1, ExpireFacts
  <2>3. \A t \in DOMAIN Awaiting' : t \in Streams => Awaiting'[t] \in timers'.running
    BY <2>2 DEF Places, Place, Wakes
  <2>4. QED BY <2>2, <2>3, QuietKeepsPlaces
<1>2. CASE \E s \in Streams : FailTaken(s)
  <2>1. PICK s \in Streams :
          /\ End(s, "error", "silence") /\ s \in timers.taken
          /\ timers' = [timers EXCEPT !.taken = @ \ {s}]
    BY <1>2 DEF FailTaken, Fail
  <2>2. call' = call /\ jobs' = jobs /\ timers'.running = timers.running
    BY <1>2, <2>1 DEF FailTaken, TimerSide, connVars, Types
  <2>3. call[s].pc # "submitting"
    BY <2>1 DEF Begun, Early
  <2>4. QED BY <2>1, <2>2, <2>3, EndKeepsPlaces DEF Terminals
<1>3. QED BY <1>1, <1>2 DEF TimerAction

--------------------------------------------------------------------------------
(***************************************************************************)
(* Nobody is at a stream that was not begun.                               *)
(***************************************************************************)
LEMMA BegunKept ==
  ASSUME Begun,
         \A s \in Streams : call'[s].pc \in Early => call[s].pc \in Early,
         \A s \in Streams : s \in DOMAIN Awaiting' \cup timers'.taken \cup Handled' =>
           \/ s \in DOMAIN Awaiting \cup timers.taken \cup Handled
           \/ call[s].pc \notin Early
  PROVE  Begun'
BY DEF Begun

LEMMA ConnKeepsBegun == ASSUME Types, Begun, ConnAction PROVE Begun'
<1>1. UNCHANGED <<recovery, timers, listener>> /\ \A s \in Streams : Moves(s)
  BY ConnMoves DEF chatVars
<1>2. \A s \in Streams : call'[s].pc \in Early => call[s].pc \in Early
  BY <1>1 DEF Moves, Write, Early
<1>3. Awaiting' = Awaiting /\ Handled' = Handled /\ timers'.taken = timers.taken
  BY <1>1 DEF Awaiting, Handled
<1>4. QED BY <1>2, <1>3, BegunKept

LEMMA CallKeepsBegun == ASSUME Types, Begun, NEW s \in Streams, CallAction(s) PROVE Begun'
<1>1. timers' = timers /\ Handled' = Handled
  BY CallFrames DEF CallFrame, Handled
<1>2. DOMAIN Awaiting' \subseteq DOMAIN Awaiting
  <2>1. CASE Awaiting' = Awaiting
    BY <2>1
  <2>2. CASE recovery' = Forgotten(s)
    BY <2>2, ForgottenFacts DEF Types, Forgets
  <2>3. QED BY <2>1, <2>2, CallEffects, EndFacts
        DEF CallEffect, Steps, Registers, Inserts, Settles, Fails, Leaves, Cleans, Maintained,
            Awaiting, Terminals
<1>3. call'[s].pc \in Early => call[s].pc \in Early
  BY CallEffects DEF CallEffect, Steps, Registers, Inserts, Settles, Fails, Leaves, Cleans, Turns,
                     Early
<1>4. \A t \in Streams : call'[t].pc \in Early => call[t].pc \in Early
  BY <1>3, CallFrames DEF CallFrame
<1>5. QED BY <1>1, <1>2, <1>4, BegunKept

LEMMA ListenKeepsBegun ==
  ASSUME Types, Places, Begun, Hearsay, Listen
  PROVE  Begun'
<1>1. call' = call /\ recovery \in Recoveries
  BY DEF Listen, EndSessions, TakeLagged, Receive, Push, Lost, Closed, Authenticated, FailNext,
         FailLagged, Resume, ListenerSide, Types
<1>2. \A s \in active : s \in Streams => call[s].pc \notin Early
  BY DEF Places, Place, Early
<1>3. ASSUME timers'.taken = timers.taken,
             \A s \in Streams : s \in DOMAIN Awaiting' => s \in DOMAIN Awaiting \cup Handled,
             \A s \in Streams : s \in Handled' => s \in Handled \/ call[s].pc \notin Early
      PROVE  Begun'
  BY <1>1, <1>3, BegunKept
<1>4. CASE EndSessions \/ TakeLagged
  <2>1. /\ recovery' = recovery /\ timers' = timers
        /\ Handled' \subseteq active
    BY <1>4 DEF EndSessions, TakeLagged, chatVars, Doing, Handled
  <2>2. Awaiting' = Awaiting
    BY <2>1 DEF Awaiting
  <2>3. QED BY <1>2, <1>3, <2>1, <2>2
<1>5. CASE Receive
  <2>1. /\ Takes(Head(bus)) /\ timers' = timers /\ Head(bus) \in Events /\ bus # <<>>
        /\ listener.pc = "select"
    BY <1>5, ReceiveFacts
  <2>2. Handled = {}
    BY <2>1 DEF Handled
  <2>3. Own(Head(bus))
    <3>1. bus \in Seq(Events)
      BY DEF Types
    <3>2. 1 \in DOMAIN bus /\ Head(bus) = bus[1]
      BY <2>1, <3>1
    <3>3. QED BY <3>2 DEF Hearsay, OwnBus
  <2>4. CASE UNCHANGED <<recovery, listener>>
    <3>1. Awaiting' = Awaiting /\ Handled' = Handled
      BY <2>4 DEF Awaiting, Handled
    <3>2. QED BY <1>3, <2>1, <3>1
  <2>5. ASSUME NEW event, Own(event), event.kind \in {"token", "state"}, recovery' = Awoken(event.ids),
               listener' = listener \/ listener' = Doing("push", event, event.ids)
        PROVE  Begun'
    <3>1. DOMAIN Awaiting' \subseteq DOMAIN Awaiting
      BY <1>1, <2>5, AwokenFacts DEF Wakes
    <3>2. Handled' \subseteq event.ids
      BY <2>2, <2>5 DEF Handled, Doing
    <3>3. \A s \in Streams : s \in Handled' => call[s].pc \notin Early
      BY <2>5, <3>2 DEF Own
    <3>4. QED BY <1>3, <2>1, <3>1, <3>3
  <2>6. ASSUME listener' = listener, NEW s, End(s, "complete", "result") \/ End(s, "error", "reported")
        PROVE  Begun'
    <3>1. recovery' = Forgotten(s) /\ Handled' = Handled
      BY <2>6, EndFacts DEF Terminals, Handled
    <3>2. DOMAIN Awaiting' \subseteq DOMAIN Awaiting
      BY <1>1, <3>1, ForgottenFacts DEF Forgets
    <3>3. QED BY <1>3, <2>1, <3>1, <3>2
  <2>7. ASSUME NEW event, listener' = Doing("judge", event, Snapshot(event)), recovery' = recovery
        PROVE  Begun'
    <3>1. Awaiting' = Awaiting /\ Handled' \subseteq active
      BY <2>7 DEF Awaiting, Handled, Doing, Snapshot, Of
    <3>2. QED BY <1>2, <1>3, <2>1, <3>1
  <2>8. QED BY <2>1, <2>3, <2>4, <2>5, <2>6, <2>7 DEF Takes
<1>6. CASE Push \/ Resume
  <2>1. recovery' = recovery /\ timers' = timers /\ Handled' = {}
    BY <1>6 DEF Push, Resume, chatVars, Listening, Handled
  <2>2. QED BY <1>3, <2>1 DEF Awaiting
<1>7. CASE Lost
  <2>1. Handled' = {} /\ timers'.taken = timers.taken /\ Handled = listener.ids
    BY <1>7 DEF Lost, Listening, Handled, Types
  <2>2. \A t \in DOMAIN Awaiting' \ DOMAIN Awaiting : t \in listener.ids
    BY <1>7, LostFacts
  <2>3. QED BY <1>3, <2>1, <2>2
<1>8. CASE Closed \/ Authenticated
  <2>1. timers' = timers /\ Handled' \subseteq Handled
    BY <1>8 DEF Closed, Authenticated, Doing, Handled
  <2>2. DOMAIN Awaiting' \subseteq DOMAIN Awaiting
    BY <1>8, ClosedFacts, AuthenticatedFacts DEF Wakes
  <2>3. QED BY <1>3, <2>1, <2>2
<1>9. CASE FailNext \/ FailLagged
  <2>1. PICK s : /\ recovery' = Forgotten(s) /\ listener' = [listener EXCEPT !.ids = @ \ {s}]
    BY <1>9 DEF FailNext, FailLagged, Fail, End
  <2>2. timers' = timers /\ listener.pc \in {"ending", "failing", "lag"}
    BY <1>9 DEF FailNext, FailLagged
  <2>3. listener'.pc = listener.pc /\ listener'.ids = listener.ids \ {s}
    BY <2>1, <2>2, NextFacts DEF Handling
  <2>4. Handled' \subseteq Handled
    BY <2>2, <2>3 DEF Handled
  <2>5. DOMAIN Awaiting' \subseteq DOMAIN Awaiting
    BY <1>1, <2>1, ForgottenFacts DEF Forgets
  <2>6. QED BY <1>3, <2>2, <2>4, <2>5
<1>10. QED BY <1>4, <1>5, <1>6, <1>7, <1>8, <1>9 DEF Listen

LEMMA TimersKeepBegun == ASSUME Types, Begun, TimerAction PROVE Begun'
<1>1. CASE \E epoch \in timers.running : Expire(epoch)
  <2>1. PICK epoch \in timers.running : Expire(epoch)
    BY <1>1
  <2>2. /\ UNCHANGED <<call, listener>> /\ Wakes(Due(epoch))
        /\ timers'.taken = timers.taken \cup Due(epoch) /\ Due(epoch) \subseteq DOMAIN Awaiting
    BY <2>1, ExpireFacts
  <2>3. Handled' = Handled
    BY <2>2 DEF Handled
  <2>4. QED BY <2>2, <2>3, BegunKept DEF Wakes
<1>2. CASE \E s \in Streams : FailTaken(s)
  <2>1. PICK s \in Streams :
          /\ End(s, "error", "silence") /\ timers' = [timers EXCEPT !.taken = @ \ {s}]
    BY <1>2 DEF FailTaken, Fail
  <2>2. call' = call /\ Handled' = Handled /\ timers'.taken \subseteq timers.taken
    BY <1>2, <2>1 DEF FailTaken, TimerSide, Handled, Types
  <2>3. recovery' = Forgotten(s)
    BY <2>1, EndFacts DEF Terminals
  <2>4. DOMAIN Awaiting' \subseteq DOMAIN Awaiting
    BY <2>3, ForgottenFacts DEF Types, Forgets
  <2>5. QED BY <2>2, <2>4, BegunKept
<1>3. QED BY <1>1, <1>2 DEF TimerAction

--------------------------------------------------------------------------------
(***************************************************************************)
(* Events are heard by the streams of their session alone.                 *)
(***************************************************************************)
(* A call keeps its session from the moment it is prepared *)
Keeps(s) ==
  /\ call'[s].pc \in Early => call[s].pc \in Early
  /\ \/ call'[s].session = call[s].session
     \/ call[s].pc = "idle" /\ call'[s].pc = "prepared"
  /\ call'[s].pc = "idle" => call[s].pc = "idle" /\ call'[s].session = call[s].session

LEMMA OwnKept == ASSUME NEW event, Own(event), \A s \in Streams : Keeps(s) PROVE Own(event)'
BY DEF Own, Keeps, Early

LEMMA HeadFacts ==
  ASSUME NEW S, NEW q \in Seq(S), q # <<>>
  PROVE  /\ Head(q) = q[1] /\ 1 \in DOMAIN q
         /\ \A i \in DOMAIN Tail(q) : i + 1 \in DOMAIN q /\ Tail(q)[i] = q[i + 1]
OBVIOUS

LEMMA SubSeqFacts ==
  ASSUME NEW S, NEW q \in Seq(S), NEW lost \in 1 .. Len(q)
  PROVE  \A i \in DOMAIN SubSeq(q, lost + 1, Len(q)) :
           i + lost \in DOMAIN q /\ SubSeq(q, lost + 1, Len(q))[i] = q[i + lost]
OBVIOUS

LEMMA KeepsHearsay ==
  ASSUME Types, Hearsay, listener' = listener, \A s \in Streams : Keeps(s), Begun, OwnBus'
  PROVE  Hearsay'
<1>1. ASSUME listener.pc \in {"push", "judge", "failing"}
      PROVE  /\ Own(listener.event)'
             /\ \A s \in listener.ids : call'[s].session = call[s].session
  <2>1. Own(listener.event) /\ Handled = listener.ids /\ listener.ids \subseteq Streams
    BY <1>1, BusyFacts DEF Hearsay, OwnHearing, Handled, Handling
  <2>2. \A s \in listener.ids : call[s].pc \notin Early
    BY <2>1 DEF Begun
  <2>3. QED BY <2>1, <2>2, OwnKept DEF Keeps, Early
<1>2. OwnHearing'
  BY <1>1 DEF Hearsay, OwnHearing
<1>3. \A s \in Streams : call'[s].pc = "idle" => call'[s].session = Nobody
  BY DEF Hearsay, Keeps
<1>4. QED BY <1>2, <1>3 DEF Hearsay

LEMMA BusKept == ASSUME Hearsay, bus' = bus, \A s \in Streams : Keeps(s) PROVE OwnBus'
BY OwnKept DEF Hearsay, OwnBus

LEMMA ConnKeepsHearsay ==
  ASSUME Types, Hearsay, Begun, Handshakes, ConnAction
  PROVE  Hearsay'
<1>1. listener' = listener /\ \A s \in Streams : Moves(s)
  BY ConnMoves
<1>2. \A s \in Streams : Keeps(s)
  BY <1>1 DEF Moves, Write, Keeps, Early
<1>3. bus \in Seq(Events) /\ OwnBus /\ session # Nobody
  BY DEF Types, Hearsay, Nobody
<1>4. ASSUME NEW x \in Events, Own(x), bus' = Append(bus, x) PROVE OwnBus'
  <2>1. \A i \in DOMAIN bus' : \/ i \in DOMAIN bus /\ bus'[i] = bus[i]
                              \/ bus'[i] = x
    BY <1>3, <1>4, AppendFacts
  <2>2. \A event : Own(event) => Own(event)'
    BY <1>2, OwnKept
  <2>3. QED BY <1>3, <1>4, <2>1, <2>2 DEF OwnBus
<1>5. OwnBus'
  <2>1. CASE UNCHANGED <<bus, sequence>>
    BY <1>2, <2>1, BusKept
  <2>2. CASE \E lost \in 1 .. Len(bus) : bus' = SubSeq(bus, lost + 1, Len(bus))
    <3>1. PICK lost \in 1 .. Len(bus) : bus' = SubSeq(bus, lost + 1, Len(bus))
      BY <2>2
    <3>2. \A i \in DOMAIN bus' : i + lost \in DOMAIN bus /\ bus'[i] = bus[i + lost]
      BY <1>3, <3>1, SubSeqFacts
    <3>3. \A event : Own(event) => Own(event)'
      BY <1>2, OwnKept
    <3>4. QED BY <1>3, <3>2, <3>3 DEF OwnBus
  <2>3. ASSUME NEW kind, NEW who, NEW ids, Hearing(kind, who, ids),
               kind = "authenticated" => who # Nobody,
               kind \in {"token", "state", "result", "error"} =>
                 who # Nobody /\ \A s \in Streams : s \in ids =>
                                    call[s].session = who /\ call[s].pc \notin Early
        PROVE  OwnBus'
    <3>1. CASE bus' = bus
      BY <1>2, <3>1, BusKept
    <3>2. ASSUME NEW x \in Events, bus' = Append(bus, x), x.kind = kind, x.session = who,
                 kind \in {"authenticated", "token", "state", "result", "error"} => x.ids = ids
          PROVE  OwnBus'
      <4>1. Own(x)
        BY <2>3, <3>2 DEF Own
      <4>2. QED BY <1>4, <3>2, <4>1
    <3>3. QED BY <2>3, <3>1, <3>2 DEF Hearing
  <2>4. CASE Handshake /\ Hearing("authenticated", conn.session, conn.hello)
    <3>1. conn.session # Nobody
      BY <1>3, <2>4 DEF Handshake
    <3>2. QED BY <2>3, <2>4, <3>1
  <2>5. ASSUME NEW s \in Streams, NEW kind \in {"token", "state", "result", "error"},
               call[s].session = session, jobs[s] = "running", Hearing(kind, session, {s})
        PROVE  OwnBus'
    <3>1. call[s].pc \notin Early
      BY <2>5 DEF Handshakes, Noticed, Running
    <3>2. \A t \in Streams : t \in {s} => call[t].session = session /\ call[t].pc \notin Early
      BY <2>5, <3>1
    <3>3. QED BY <1>3, <2>3, <2>5, <3>2
  <2>6. ASSUME NEW kind \in {"connecting", "disconnected", "switched"}, NEW who \in Nat,
               Hearing(kind, who, {})
        PROVE  OwnBus'
    BY <2>3, <2>6
  <2>7. QED BY <2>1, <2>2, <2>4, <2>5, <2>6, ConnEmits DEF Announcement
<1>6. QED BY <1>1, <1>2, <1>5, KeepsHearsay

LEMMA CallKeeps == ASSUME Types, NEW s \in Streams, CallAction(s), NEW t \in Streams PROVE Keeps(t)
<1>1. CASE t # s
  BY <1>1, CallFrames DEF CallFrame, Keeps
<1>2. CASE t = s
  BY <1>2, CallEffects DEF CallEffect, Steps, Registers, Inserts, Settles, Fails, Leaves, Cleans,
                           Turns, Early, Keeps
<1>3. QED BY <1>1, <1>2

LEMMA CallKeepsHearsay ==
  ASSUME Types, Hearsay, Begun, NEW s \in Streams, CallAction(s)
  PROVE  Hearsay'
<1>1. bus' = bus /\ listener' = listener
  BY CallFrames DEF CallFrame
<1>2. \A t \in Streams : Keeps(t)
  BY CallKeeps
<1>3. QED BY <1>1, <1>2, BusKept, KeepsHearsay

LEMMA ListenKeepsHearsay == ASSUME Types, Hearsay, Listen PROVE Hearsay'
<1>1. call' = call /\ bus \in Seq(Events) /\ OwnBus /\ OwnHearing
  BY DEF Listen, EndSessions, TakeLagged, Receive, Push, Lost, Closed, Authenticated, FailNext,
         FailLagged, Resume, ListenerSide, Types, Hearsay
<1>2. \A event : Own(event) => Own(event)'
  BY <1>1 DEF Own
<1>3. ASSUME OwnHearing', bus' = bus \/ (bus' = Tail(bus) /\ bus # <<>>) \/ bus' = <<>> PROVE Hearsay'
  <2>1. OwnBus'
    <3>1. CASE bus' = bus
      BY <1>1, <1>2, <3>1 DEF OwnBus
    <3>2. CASE bus' = Tail(bus) /\ bus # <<>>
      <4>1. \A i \in DOMAIN bus' : i + 1 \in DOMAIN bus /\ bus'[i] = bus[i + 1]
        BY <1>1, <3>2, HeadFacts
      <4>2. QED BY <1>1, <1>2, <4>1 DEF OwnBus
    <3>3. CASE bus' = <<>>
      BY <3>3 DEF OwnBus
    <3>4. QED BY <1>3, <3>1, <3>2, <3>3
  <2>2. QED BY <1>1, <1>3, <2>1 DEF Hearsay
<1>4. CASE EndSessions \/ TakeLagged
  <2>1. listener'.pc \in {"ending", "lag"} /\ bus' = bus
    BY <1>4 DEF EndSessions, TakeLagged, Doing
  <2>2. QED BY <1>3, <2>1 DEF OwnHearing
<1>5. CASE Receive
  <2>1. /\ Takes(Head(bus)) /\ Head(bus) \in Events /\ bus # <<>> /\ bus' = Tail(bus)
        /\ listener.pc = "select"
    BY <1>5, ReceiveFacts
  <2>2. Own(Head(bus))
    BY <1>1, <2>1, HeadFacts DEF OwnBus
  <2>3. CASE listener' = listener
    BY <1>3, <2>1, <2>3 DEF OwnHearing
  <2>4. ASSUME NEW event \in Events, Own(event), event.kind \in {"token", "state"},
               event.ids \in SUBSET Streams, listener' = Doing("push", event, event.ids)
        PROVE  OwnHearing'
    <3>1. listener'.pc = "push" /\ listener'.event = event /\ listener'.ids = event.ids
      BY <2>4, DoingFacts DEF Handling
    <3>2. \A s \in event.ids : call[s].session = event.session
      BY <2>4 DEF Own
    <3>3. QED BY <1>1, <1>2, <2>4, <3>1, <3>2 DEF OwnHearing
  <2>5. ASSUME NEW event \in Events, Own(event), listener' = Doing("judge", event, Snapshot(event))
        PROVE  OwnHearing'
    <3>1. listener'.pc = "judge" /\ listener'.event = event /\ listener'.ids = Snapshot(event)
      BY <2>5, DoingFacts, OfFacts DEF Handling
    <3>2. \A s \in Snapshot(event) : event.session \in {Nobody, call[s].session}
      BY DEF Snapshot, Of
    <3>3. QED BY <1>1, <1>2, <2>5, <3>1, <3>2 DEF OwnHearing
  <2>6. QED BY <1>3, <2>1, <2>2, <2>3, <2>4, <2>5 DEF Takes
<1>6. CASE Push \/ Lost
  <2>1. listener'.pc = "select" /\ bus' = bus
    BY <1>6 DEF Push, Lost, Listening
  <2>2. QED BY <1>3, <2>1 DEF OwnHearing
<1>7. CASE Closed \/ Authenticated
  <2>1. listener.pc = "judge" /\ bus' = bus
    BY <1>7 DEF Closed, Authenticated
  <2>2. listener.event \in Events /\ listener.ids \in SUBSET Streams
    BY <2>1, BusyFacts DEF Handling
  <2>3. PICK ids : ids \subseteq listener.ids /\ listener' = Doing("failing", listener.event, ids)
    BY <1>7 DEF Closed, Authenticated
  <2>4. listener'.pc = "failing" /\ listener'.event = listener.event /\ listener'.ids = ids
    BY <2>2, <2>3, DoingFacts DEF Handling
  <2>5. OwnHearing'
    BY <1>1, <1>2, <2>1, <2>3, <2>4 DEF OwnHearing
  <2>6. QED BY <1>3, <2>1, <2>5
<1>8. CASE FailNext \/ FailLagged
  <2>1. PICK s : listener' = [listener EXCEPT !.ids = @ \ {s}]
    BY <1>8 DEF FailNext, FailLagged
  <2>2. listener.pc \in {"ending", "failing", "lag"} /\ bus' = bus
    BY <1>8 DEF FailNext, FailLagged
  <2>3. /\ listener'.pc = listener.pc /\ listener'.event = listener.event
        /\ listener'.ids = listener.ids \ {s}
    BY <2>1, <2>2, NextFacts DEF Handling
  <2>4. OwnHearing'
    BY <1>1, <1>2, <2>2, <2>3 DEF OwnHearing
  <2>5. QED BY <1>3, <2>2, <2>4
<1>9. CASE Resume
  <2>1. listener'.pc \in {"select", "done"} /\ (bus' = bus \/ bus' = <<>>)
    BY <1>9 DEF Resume, Listening
  <2>2. QED BY <1>3, <2>1 DEF OwnHearing
<1>10. QED BY <1>4, <1>5, <1>6, <1>7, <1>8, <1>9 DEF Listen

LEMMA TimersKeepHearsay == ASSUME Types, Hearsay, TimerAction PROVE Hearsay'
<1>1. UNCHANGED <<call, bus, listener>>
  BY ExpireFacts DEF TimerAction, FailTaken, TimerSide, busVars
<1>2. QED BY <1>1 DEF Hearsay, OwnBus, OwnHearing, Own

--------------------------------------------------------------------------------
(***************************************************************************)
(* What a handshake frame says of the jobs of its session stays true.      *)
(***************************************************************************)
(* A request is written after the frames that were emitted before it *)
Advances(s) ==
  call'[s].pc \in Past /\ jobs'[s] = "running" =>
    \/ /\ call[s].pc \in Past /\ Running(s)
       /\ call'[s].session = call[s].session /\ call'[s].after = call[s].after
    \/ call'[s].after >= sequence

LEMMA TrueKept ==
  ASSUME Types, NEW event \in Events, True(event), sequence' \in Nat, sequence' >= sequence,
         call' \in [Streams -> Calls], \A s \in Streams : Advances(s)
  PROVE  True(event)'
<1>1. event.seq \in Nat /\ sequence \in Nat /\ event.seq <= sequence
  BY DEF Types, Events, True
<1>2. event.seq <= sequence'
  BY <1>1
<1>3. ASSUME event.kind = "authenticated", event.ids # Unlisted, NEW s \in Streams,
             call'[s].session = event.session, jobs'[s] = "running", call'[s].pc \in Past,
             s \notin event.ids
      PROVE  call'[s].after >= event.seq
  <2>1. call'[s].after \in Nat /\ Advances(s)
    BY DEF Calls
  <2>2. CASE /\ call[s].pc \in Past /\ Running(s)
             /\ call'[s].session = call[s].session /\ call'[s].after = call[s].after
    BY <1>3, <2>2 DEF True
  <2>3. CASE call'[s].after >= sequence
    BY <1>1, <2>1, <2>3
  <2>4. QED BY <1>3, <2>1, <2>2, <2>3 DEF Advances
<1>4. QED BY <1>2, <1>3 DEF True, Running

LEMMA BusKeptTrue ==
  ASSUME Types, TrueBus, bus' = bus, sequence' \in Nat, sequence' >= sequence,
         call' \in [Streams -> Calls], \A s \in Streams : Advances(s)
  PROVE  TrueBus'
<1>1. \A event \in Events : True(event) => True(event)'
  BY TrueKept
<1>2. \A i \in DOMAIN bus : bus[i] \in Events
  BY DEF Types
<1>3. QED BY <1>1, <1>2 DEF TrueBus

LEMMA NoticedKept ==
  ASSUME NEW t, Noticed(t), call'[t] = call[t], jobs'[t] = jobs[t], sequence' = sequence,
         t \in DOMAIN Unsent' => /\ t \in DOMAIN Unsent
                                 /\ Unsent'[t].handshake = Unsent[t].handshake
                                 /\ Unsent'[t].kept = Unsent[t].kept,
         listener'.pc = "failing" /\ listener'.event.kind = "authenticated"
           /\ t \in listener'.ids /\ t \in active'
           => /\ listener.pc = "failing" /\ listener.event.kind = "authenticated"
              /\ t \in listener.ids /\ t \in active
  PROVE  Noticed(t)'
BY DEF Noticed, Running

(* The frame that a connection has in hand *)
LEMMA ConnFrames ==
  ASSUME Types, ConnAction
  PROVE  \/ Open
         \/ conn'.hello \in {NoFrame, Unlisted}
         \/ /\ conn'.hello = conn.hello /\ conn'.session = conn.session
            /\ conn'.ready = conn.ready
<1>1. conn \in Conns
  BY DEF Types
<1>2. CASE Handshake \/ Lose \/ PeerCloses \/ AuthChanged \/ \E s \in Streams : WriteFails(s)
  BY <1>1, <1>2 DEF Handshake, Lose, PeerCloses, AuthChanged, WriteFails, Conns
<1>3. CASE LegacyReady
  BY <1>1, <1>3 DEF LegacyReady, Conns
<1>4. CASE Connecting \/ Wake
  <2>1. CASE Connecting
    BY <1>1, <2>1 DEF Connecting, Conns
  <2>2. CASE Wake
    BY <1>1, <2>2 DEF Wake, Conns
  <2>3. QED BY <1>4, <2>1, <2>2
<1>5. CASE ChangeAccount
  BY <1>1, <1>5 DEF ChangeAccount, Conns
<1>6. CASE Overrun \/ \E s \in Streams : Write(s) \/ Progress(s) \/ Finish(s)
  BY <1>6 DEF Overrun, Write, Progress, Finish, Tell, connVars
<1>7. QED BY <1>2, <1>3, <1>4, <1>5, <1>6 DEF ConnAction, Manager, Environment

LEMMA ConnKeepsListed == ASSUME Types, Handshakes, ConnAction PROVE Listed'
<1>1. Listed /\ \A s \in Streams : Moves(s)
  BY ConnMoves DEF Handshakes
<1>2. CASE Open
  <2>1. conn' = [pc |-> "open", session |-> session, ready |-> FALSE,
            hello |-> IF conn.hello = Unlisted THEN Unlisted
                      ELSE {s \in Streams : jobs[s] = "running" /\ call[s].session = session}]
    BY <1>2 DEF Open
  <2>2. call' = call /\ jobs' = jobs
    BY <1>2 DEF Open
  <2>3. QED BY <2>1, <2>2 DEF Listed, Running
<1>3. CASE conn'.hello \in {NoFrame, Unlisted}
  BY <1>3 DEF Listed
<1>4. CASE /\ conn'.hello = conn.hello /\ conn'.session = conn.session
           /\ conn'.ready = conn.ready /\ conn'.hello \notin {NoFrame, Unlisted}
  <2>1. ~conn.ready
    BY <1>1, <1>4 DEF Listed
  <2>2. ASSUME NEW s \in Streams
        PROVE  call'[s].session = call[s].session /\ (jobs'[s] = "running" => Running(s))
    <3>1. Moves(s)
      BY <1>1
    <3>2. CASE Write(s)
      BY <2>1, <3>2 DEF Write
    <3>3. QED BY <1>4, <3>1, <3>2 DEF Moves, Running
  <2>3. QED BY <1>1, <1>4, <2>1, <2>2 DEF Listed, Running
<1>5. QED BY <1>2, <1>3, <1>4, ConnFrames

LEMMA ConnAdvances == ASSUME Types, ConnAction, NEW s \in Streams PROVE Advances(s)
<1>1. Moves(s) /\ sequence \in Nat
  BY ConnMoves DEF Types
<1>2. QED BY <1>1 DEF Moves, Advances, Past, Running

LEMMA HearingGrows ==
  ASSUME Types, Announcement PROVE sequence' \in Nat /\ sequence' >= sequence
<1>1. sequence \in Nat
  BY DEF Types
<1>2. sequence' = sequence \/ sequence' = sequence + 1
  BY DEF Announcement, Hearing
<1>3. QED BY <1>1, <1>2

LEMMA ConnKeepsTrue == ASSUME Types, Handshakes, ConnAction PROVE TrueBus'
<1>1. /\ call' \in [Streams -> Calls] /\ sequence' \in Nat /\ sequence' >= sequence
      /\ \A s \in Streams : Advances(s)
  BY ConnMoves, ConnAdvances, ConnEmits, HearingGrows
<1>2. \A event \in Events : True(event) => True(event)'
  BY <1>1, TrueKept
<1>3. /\ bus \in Seq(Events) /\ TrueBus /\ \A i \in DOMAIN bus : bus[i] \in Events
  BY DEF Types, Handshakes
<1>4. ASSUME NEW x \in Events, True(x)', bus' = Append(bus, x) PROVE TrueBus'
  <2>1. \A i \in DOMAIN bus' : \/ i \in DOMAIN bus /\ bus'[i] = bus[i]
                              \/ bus'[i] = x
    BY <1>3, <1>4, AppendFacts
  <2>2. QED BY <1>2, <1>3, <1>4, <2>1 DEF TrueBus
<1>5. CASE bus' = bus
  BY <1>1, <1>5, <1>3, BusKeptTrue
<1>6. CASE \E lost \in 1 .. Len(bus) : bus' = SubSeq(bus, lost + 1, Len(bus))
  <2>1. PICK lost \in 1 .. Len(bus) : bus' = SubSeq(bus, lost + 1, Len(bus))
    BY <1>6
  <2>2. \A i \in DOMAIN bus' : i + lost \in DOMAIN bus /\ bus'[i] = bus[i + lost]
    BY <1>3, <2>1, SubSeqFacts
  <2>3. QED BY <1>2, <1>3, <2>2 DEF TrueBus
<1>7. ASSUME NEW kind, NEW who, NEW ids, Hearing(kind, who, ids), kind # "authenticated"
      PROVE  TrueBus'
  <2>1. ASSUME NEW x \in Events, bus' = Append(bus, x), x.kind = kind, x.seq = sequence'
        PROVE  TrueBus'
    <3>1. True(x)'
      BY <1>1, <1>7, <2>1 DEF True
    <3>2. QED BY <1>4, <2>1, <3>1
  <2>2. QED BY <1>5, <1>7, <2>1 DEF Hearing
<1>8. CASE Handshake /\ Hearing("authenticated", conn.session, conn.hello)
  <2>1. call' = call /\ jobs' = jobs /\ conn.hello # NoFrame
    BY <1>8 DEF Handshake
  <2>2. \A s \in Streams :
          conn.hello # Unlisted /\ call[s].session = conn.session /\ Running(s) => s \in conn.hello
    BY <2>1 DEF Handshakes, Listed
  <2>3. ASSUME NEW x \in Events, bus' = Append(bus, x), x.kind = "authenticated",
               x.session = conn.session, x.seq = sequence', x.ids = conn.hello
        PROVE  TrueBus'
    <3>1. True(x)'
      BY <1>1, <2>1, <2>2, <2>3 DEF True, Running
    <3>2. QED BY <1>4, <2>3, <3>1
  <2>4. QED BY <1>5, <1>8, <2>3 DEF Hearing
<1>9. QED BY <1>5, <1>6, <1>7, <1>8, ConnEmits DEF Announcement

LEMMA ConnKeepsNoticed ==
  ASSUME Types, Handshakes, ConnAction, NEW s \in Streams
  PROVE  Noticed(s)'
<1>1. /\ UNCHANGED <<active, recovery, listener>> /\ Moves(s)
      /\ sequence \in Nat /\ sequence' \in Nat /\ sequence' >= sequence
  BY ConnMoves, ConnEmits, HearingGrows DEF chatVars, Types
<1>2. Unsent' = Unsent /\ Noticed(s)
  BY <1>1 DEF Unsent, Handshakes
<1>3. s \in DOMAIN Unsent => Unsent[s].handshake \in Nat
  <2>1. Unsent \in Maps(Pendings)
    BY RecoveryFields DEF Types
  <2>2. Unsent \in [DOMAIN Unsent -> Pendings]
    BY <2>1, MapFacts
  <2>3. QED BY <2>2 DEF Pendings
<1>4. s \in DOMAIN Unsent => Unsent[s].handshake <= sequence'
  BY <1>1, <1>2, <1>3 DEF Noticed
<1>5. CASE call'[s] = call[s] /\ (jobs'[s] = "running" => jobs[s] = "running")
  BY <1>1, <1>2, <1>4, <1>5 DEF Noticed, Running
<1>6. CASE call[s].pc = "sending" /\ call'[s].pc = "refused"
  BY <1>1, <1>2, <1>4, <1>6 DEF Noticed, Early
<1>7. CASE call[s].pc = "sending" /\ call'[s].pc = "written" /\ call'[s].after = sequence
  <2>1. s \in DOMAIN Unsent => ~(Unsent[s].handshake > call'[s].after)
    BY <1>1, <1>2, <1>3, <1>7 DEF Noticed
  <2>2. QED BY <1>1, <1>2, <1>4, <1>7, <2>1 DEF Noticed, Early
<1>8. QED BY <1>1, <1>5, <1>6, <1>7 DEF Moves, Write

LEMMA HearingKeptTrue ==
  ASSUME Types, TrueHearing, listener' = listener, sequence' \in Nat, sequence' >= sequence,
         call' \in [Streams -> Calls], \A s \in Streams : Advances(s)
  PROVE  TrueHearing'
<1>1. CASE listener.pc = "judge"
  <2>1. PICK event \in Events : event = listener.event
    BY <1>1, BusyFacts DEF Handling
  <2>2. True(event) /\ event.ids # Unlisted
    BY <1>1, <2>1 DEF TrueHearing
  <2>3. True(event)'
    BY <2>2, TrueKept
  <2>4. listener'.event = event
    BY <2>1
  <2>5. True(listener.event)'
    BY <2>3, <2>4 DEF True
  <2>6. QED BY <2>2, <2>4, <2>5 DEF TrueHearing
<1>2. CASE listener.pc # "judge"
  BY <1>2 DEF TrueHearing
<1>3. QED BY <1>1, <1>2

LEMMA ConnKeepsHandshakes == ASSUME Types, Handshakes, ConnAction PROVE Handshakes'
<1>1. listener' = listener /\ call' \in [Streams -> Calls]
  BY ConnMoves
<1>2. TrueHearing'
  <2>1. /\ sequence' \in Nat /\ sequence' >= sequence /\ \A s \in Streams : Advances(s)
    BY ConnAdvances, ConnEmits, HearingGrows
  <2>2. QED BY <1>1, <2>1, HearingKeptTrue DEF Handshakes
<1>3. listener'.pc = "failing" => listener'.event.kind \in {"disconnected", "authenticated"}
  BY <1>1 DEF Handshakes
<1>4. QED BY <1>2, <1>3, ConnKeepsListed, ConnKeepsTrue, ConnKeepsNoticed DEF Handshakes

LEMMA CallAdvances == ASSUME Types, NEW s \in Streams, CallAction(s), NEW t \in Streams PROVE Advances(t)
<1>1. CASE t # s
  BY <1>1, CallFrames DEF CallFrame, Advances, Running
<1>2. CASE t = s
  BY <1>2, CallEffects DEF CallEffect, Steps, Registers, Inserts, Settles, Fails, Leaves, Cleans,
                           Turns, Past, Advances, Running
<1>3. QED BY <1>1, <1>2

LEMMA CallKeepsNoticed ==
  ASSUME Types, Ends, Places, Begun, Handshakes, NEW s \in Streams, CallAction(s)
  PROVE  Noticed(s)'
<1>1. /\ UNCHANGED <<sequence, listener>> /\ Noticed(s) /\ EndOf(s) /\ Place(s) /\ sequence \in Nat
  BY CallFrames DEF CallFrame, Handshakes, Ends, Places, Types
<1>2. listener.pc = "failing" /\ s \in listener.ids => call[s].pc \notin Early
  BY DEF Begun, Handled
<1>3. CASE Steps(s)
  <2>1. active' = active /\ Unsent' = Unsent
    BY <1>3 DEF Steps, Maintained, Unsent
  <2>2. CASE call[s].pc \in {"idle", "prepared"} /\ call'[s].pc \in {"prepared", "failed"} /\ jobs' = jobs
    BY <1>1, <2>1, <2>2 DEF Noticed, Early, Running
  <2>3. CASE call[s].pc \in {"sending", "written"} /\ call'[s].pc \in {"refused", "dropped"}
    BY <1>1, <2>1, <2>3 DEF Noticed, Early, Running
  <2>4. CASE call[s].pc = "written" /\ call'[s].pc = "accepted" /\ jobs' = jobs
             /\ call'[s].after = call[s].after
    BY <1>1, <2>1, <2>4 DEF Noticed, Early, Running
  <2>5. CASE call[s].pc = "started" /\ call'[s].pc = "returned" /\ stream[s] # "open"
    <3>1. s \notin active
      BY <1>1, <2>5 DEF EndOf, Unended
    <3>2. QED BY <1>1, <2>1, <2>5, <3>1 DEF Noticed, Early, Running
  <2>6. QED BY <1>3, <2>2, <2>3, <2>4, <2>5 DEF Steps, Turns
<1>4. CASE Registers(s)
  <2>1. /\ active' = active /\ jobs' = jobs /\ Unsent'[s].handshake = 0
        /\ call[s].pc = "prepared" /\ call'[s].pc = "submitting"
    BY <1>4 DEF Registers, Turns, NewPending
  <2>2. QED BY <1>1, <2>1 DEF Noticed, Early, Running
<1>5. CASE Inserts(s)
  <2>1. /\ jobs' = jobs /\ Unsent' = Unsent
        /\ call[s].pc = "submitting" /\ call'[s].pc = "sending"
    BY <1>5 DEF Inserts, Turns, Unsent
  <2>2. QED BY <1>1, <1>2, <2>1 DEF Noticed, Early, Running
<1>6. CASE Settles(s)
  <2>1. /\ active' = active /\ jobs' = jobs /\ s \notin DOMAIN Unsent'
        /\ call[s].pc = "accepted" /\ call'[s].pc \in {"closed", "missing", "started"}
    BY <1>6 DEF Settles, Turns
  <2>2. call'[s].pc = "missing" => ~Running(s)
    <3>1. call'[s].pc = "missing" =>
            s \in DOMAIN Unsent /\ Unsent[s].handshake > call[s].after /\ ~Unsent[s].kept
      BY <1>6 DEF Settles, Turns
    <3>2. QED BY <1>1, <2>1, <3>1 DEF Noticed
  <2>3. QED BY <1>1, <2>1, <2>2 DEF Noticed, Early, Running
<1>7. CASE Fails(s)
  <2>1. /\ call'[s].pc = "started" /\ recovery' = Forgotten(s) /\ active' = active \ {s}
    BY <1>7, EndFacts DEF Fails, Turns, Terminals
  <2>2. s \notin DOMAIN Unsent'
    <3>1. Forgets(s)
      BY <2>1, ForgottenFacts DEF Types
    <3>2. QED BY <3>1 DEF Forgets
  <2>3. QED BY <2>1, <2>2 DEF Noticed, Early
<1>8. CASE Leaves(s)
  <2>1. /\ call'[s].pc \in {"removed", "leaving"} /\ Unsent' = Unsent /\ active' = active \ {s}
    BY <1>8 DEF Leaves, Turns, Unsent
  <2>2. QED BY <1>1, <2>1 DEF Noticed, Early
<1>9. CASE Cleans(s)
  <2>1. /\ active' = active /\ recovery' = Forgotten(s) /\ call[s].pc \in {"removed", "leaving"}
        /\ call'[s].pc \in {"failed", "left"}
    BY <1>9 DEF Cleans, Turns
  <2>2. s \notin DOMAIN Unsent'
    <3>1. Forgets(s)
      BY <2>1, ForgottenFacts DEF Types
    <3>2. QED BY <3>1 DEF Forgets
  <2>3. QED BY <1>1, <2>1, <2>2 DEF Noticed, Early
<1>10. QED BY <1>3, <1>4, <1>5, <1>6, <1>7, <1>8, <1>9, CallEffects DEF CallEffect

LEMMA CallKeepsHandshakes ==
  ASSUME Types, Ends, Places, Begun, Handshakes, NEW s \in Streams, CallAction(s)
  PROVE  Handshakes'
<1>1. /\ UNCHANGED <<conn, bus, sequence, listener>> /\ call' \in [Streams -> Calls]
      /\ sequence \in Nat
  BY CallFrames DEF CallFrame, Types
<1>2. \A t \in Streams : Advances(t)
  BY CallAdvances
<1>3. sequence' \in Nat /\ sequence' >= sequence
  BY <1>1
<1>4. TrueBus'
  BY <1>1, <1>2, <1>3, BusKeptTrue DEF Handshakes
<1>5. TrueHearing'
  BY <1>1, <1>2, <1>3, HearingKeptTrue DEF Handshakes
<1>6. \A t \in Streams : Noticed(t)'
  <2>1. ASSUME NEW t \in Streams, t # s PROVE Noticed(t)'
    <3>1. Noticed(t) /\ Same(t)
      BY <2>1, CallOthers DEF Handshakes
    <3>2. QED BY <1>1, <3>1, SameKeeps
  <2>2. QED BY <2>1, CallKeepsNoticed
<1>7. Listed'
  <2>1. Listed
    BY DEF Handshakes
  <2>2. ASSUME conn.hello \notin {NoFrame, Unlisted}, NEW t \in Streams, jobs'[t] = "running",
               call'[t].session = conn.session
        PROVE  t \in conn.hello
    <3>1. ~conn.ready
      BY <2>1, <2>2 DEF Listed
    <3>2. CASE t # s
      <4>1. call'[t] = call[t] /\ jobs'[t] = jobs[t]
        BY <3>2, CallFrames DEF CallFrame
      <4>2. QED BY <2>1, <2>2, <4>1 DEF Listed, Running
    <3>3. CASE t = s
      <4>1. jobs'[s] = jobs[s]
        BY <3>1, CallEffects DEF CallEffect, Steps, Registers, Inserts, Settles, Fails, Leaves, Cleans,
                                 Turns
      <4>2. Running(s)
        BY <2>2, <3>3, <4>1 DEF Running
      <4>3. call'[s].session = call[s].session
        <5>1. call[s].pc # "idle"
          BY <4>2 DEF Handshakes, Noticed, Early
        <5>2. QED BY <5>1, CallKeeps DEF Keeps
      <4>4. QED BY <2>1, <2>2, <3>3, <4>2, <4>3 DEF Listed
    <3>4. QED BY <3>2, <3>3
  <2>3. QED BY <1>1, <2>1, <2>2 DEF Listed, Running
<1>8. QED BY <1>1, <1>4, <1>5, <1>6, <1>7 DEF Handshakes

(* Nothing that the frames speak of changes *)
LEMMA StillKeepsHandshakes ==
  ASSUME Types, Handshakes, UNCHANGED <<conn, call, jobs, sequence>>, TrueBus', TrueHearing',
         \A s \in Streams : Noticed(s)',
         listener'.pc = "failing" => listener'.event.kind \in {"disconnected", "authenticated"}
  PROVE  Handshakes'
<1>1. Listed'
  BY DEF Handshakes, Listed, Running
<1>2. QED BY <1>1 DEF Handshakes

LEMMA EndKeepsNoticed ==
  ASSUME Types, Handshakes, UNCHANGED <<call, jobs, sequence>>, NEW s, NEW state \in {"complete", "error"},
         NEW how \in Terminals, End(s, state, how), NEW t \in Streams,
         listener'.pc = "failing" =>
           /\ listener.pc = "failing" /\ listener'.event = listener.event
           /\ listener'.ids \subseteq listener.ids
  PROVE  Noticed(t)'
<1>1. active' = active \ {s} /\ recovery' = Forgotten(s) /\ Noticed(t)
  BY EndFacts DEF Handshakes
<1>2. Forgets(s)
  BY <1>1, ForgottenFacts DEF Types
<1>3. t \in DOMAIN Unsent' => t \in DOMAIN Unsent /\ Unsent'[t] = Unsent[t]
  BY <1>2 DEF Forgets
<1>4. QED BY <1>1, <1>3, NoticedKept

LEMMA ListenKeepsHandshakes ==
  ASSUME Types, Places, Hearsay, Handshakes, Listen
  PROVE  Handshakes'
<1>1. /\ UNCHANGED <<conn, call, jobs, sequence>> /\ bus \in Seq(Events)
      /\ recovery \in Recoveries /\ sequence \in Nat
  BY DEF Listen, EndSessions, TakeLagged, Receive, Push, Lost, Closed, Authenticated, FailNext,
         FailLagged, Resume, ListenerSide, Types, connVars
<1>2. \A event : True(event) => True(event)'
  BY <1>1 DEF True, Running
<1>3. TrueBus /\ TrueHearing /\ \A t \in Streams : Noticed(t)
  BY DEF Handshakes
<1>4. ASSUME bus' = bus \/ (bus' = Tail(bus) /\ bus # <<>>) \/ bus' = <<>> PROVE TrueBus'
  <2>1. CASE bus' = bus
    BY <1>2, <1>3, <2>1 DEF TrueBus
  <2>2. CASE bus' = Tail(bus) /\ bus # <<>>
    <3>1. \A i \in DOMAIN bus' : i + 1 \in DOMAIN bus /\ bus'[i] = bus[i + 1]
      BY <1>1, <2>2, HeadFacts
    <3>2. QED BY <1>2, <1>3, <3>1 DEF TrueBus
  <2>3. CASE bus' = <<>>
    BY <2>3 DEF TrueBus
  <2>4. QED BY <1>4, <2>1, <2>2, <2>3
<1>5. ASSUME recovery' = recovery, active' \subseteq active, listener'.pc # "failing",
             NEW t \in Streams
      PROVE  Noticed(t)'
  <2>1. Unsent' = Unsent
    BY <1>5 DEF Unsent
  <2>2. QED BY <1>1, <1>3, <1>5, <2>1, NoticedKept
<1>6. CASE EndSessions \/ TakeLagged \/ Push \/ Resume
  <2>1. /\ recovery' = recovery /\ active' \subseteq active /\ (bus' = bus \/ bus' = <<>>)
        /\ listener'.pc \notin {"failing", "judge"}
    BY <1>6 DEF EndSessions, TakeLagged, Push, Resume, chatVars, Doing, Listening
  <2>2. TrueHearing'
    BY <2>1 DEF TrueHearing
  <2>3. QED BY <1>1, <1>4, <1>5, <2>1, <2>2, StillKeepsHandshakes
<1>7. CASE Receive
  <2>1. /\ Takes(Head(bus)) /\ Head(bus) \in Events /\ bus # <<>> /\ bus' = Tail(bus)
        /\ listener.pc = "select"
    BY <1>7, ReceiveFacts
  <2>2. True(Head(bus)) /\ TrueBus'
    BY <1>1, <1>3, <1>4, <2>1, HeadFacts DEF TrueBus
  <2>3. CASE UNCHANGED <<active, recovery, listener>>
    <3>1. TrueHearing'
      BY <2>1, <2>3 DEF TrueHearing
    <3>2. QED BY <1>1, <1>5, <2>1, <2>2, <2>3, <3>1, StillKeepsHandshakes
  <2>4. ASSUME NEW event \in Events, recovery' = Awoken(event.ids), active' = active,
               event.ids \in SUBSET Streams,
               listener' = listener \/ listener' = Doing("push", event, event.ids)
        PROVE  Handshakes'
    <3>1. listener'.pc \notin {"judge", "failing"}
      BY <2>1, <2>4, DoingFacts DEF Handling
    <3>2. Unsent' = Unsent
      BY <1>1, <2>4, AwokenFacts
    <3>3. \A t \in Streams : Noticed(t)'
      BY <1>1, <1>3, <2>4, <3>1, <3>2, NoticedKept
    <3>4. TrueHearing'
      BY <3>1 DEF TrueHearing
    <3>5. QED BY <1>1, <2>2, <3>1, <3>3, <3>4, StillKeepsHandshakes
  <2>5. ASSUME listener' = listener, NEW s, End(s, "complete", "result") \/ End(s, "error", "reported")
        PROVE  Handshakes'
    <3>1. TrueHearing' /\ listener'.pc # "failing"
      BY <2>1, <2>5 DEF TrueHearing
    <3>2. \A t \in Streams : Noticed(t)'
      BY <1>1, <2>5, <3>1, EndKeepsNoticed DEF Terminals
    <3>3. QED BY <1>1, <2>2, <3>1, <3>2, StillKeepsHandshakes
  <2>6. ASSUME NEW event \in Events, True(event), listener' = Doing("judge", event, Snapshot(event)),
               event.ids # Unlisted, UNCHANGED <<active, recovery>>
        PROVE  Handshakes'
    <3>1. listener'.pc = "judge" /\ listener'.event = event
      BY <2>6, DoingFacts, OfFacts DEF Handling
    <3>2. TrueHearing'
      BY <1>2, <2>6, <3>1 DEF TrueHearing, True
    <3>3. QED BY <1>1, <1>5, <2>2, <2>6, <3>1, <3>2, StillKeepsHandshakes
  <2>7. QED BY <2>1, <2>2, <2>3, <2>4, <2>5, <2>6 DEF Takes
<1>8. CASE Lost
  <2>1. listener'.pc = "select" /\ bus' = bus /\ active' = active /\ Unsent' = Unsent
    BY <1>8, LostFacts DEF Lost, Listening
  <2>2. \A t \in Streams : Noticed(t)'
    BY <1>1, <1>3, <2>1, NoticedKept
  <2>3. TrueHearing'
    BY <2>1 DEF TrueHearing
  <2>4. QED BY <1>1, <1>4, <2>1, <2>2, <2>3, StillKeepsHandshakes
<1>9. CASE Closed
  <2>1. /\ listener.pc = "judge" /\ listener.event.kind = "disconnected" /\ bus' = bus
        /\ active' = active
        /\ listener' = Doing("failing", listener.event, listener.ids \ DOMAIN recovery.unsent)
    BY <1>9 DEF Closed
  <2>2. listener.event \in Events /\ listener.ids \in SUBSET Streams
    BY <2>1, BusyFacts DEF Handling
  <2>3. listener'.pc = "failing" /\ listener'.event.kind = "disconnected"
    BY <2>1, <2>2, DoingFacts DEF Handling
  <2>4. ASSUME NEW t \in Streams PROVE Noticed(t)'
    <3>1. Noticed(t)
      BY <1>3
    <3>2. t \in DOMAIN Unsent' => /\ t \in DOMAIN Unsent
                                  /\ Unsent'[t].handshake = Unsent[t].handshake
                                  /\ Unsent'[t].kept = Unsent[t].kept
      BY <1>9, ClosedFacts
    <3>3. QED BY <1>1, <2>1, <2>3, <3>1, <3>2, NoticedKept
  <2>5. TrueHearing'
    BY <2>3 DEF TrueHearing
  <2>6. QED BY <1>1, <1>4, <2>1, <2>3, <2>4, <2>5, StillKeepsHandshakes
<1>10. CASE Authenticated
  <2>1. PICK event \in Events : event = listener.event
    BY <1>10, BusyFacts DEF Authenticated, Handling
  <2>2. /\ listener.pc = "judge" /\ event.kind = "authenticated" /\ bus' = bus /\ active' = active
        /\ True(event) /\ event.ids # Unlisted
    BY <1>3, <1>10, <2>1 DEF Authenticated, TrueHearing
  <2>3. PICK ids : /\ ids = {s \in listener.ids \ DOMAIN Unsent : Missing(s, event)}
                   /\ listener' = Doing("failing", event, ids)
    BY <1>10, <2>1 DEF Authenticated, Unsent
  <2>4. listener.ids \in SUBSET Streams /\ ids \in SUBSET Streams
    <3>1. listener.ids \in SUBSET Streams
      BY <2>2, BusyFacts DEF Handling
    <3>2. QED BY <2>3, <3>1
  <2>5. listener'.pc = "failing" /\ listener'.event = event /\ listener'.ids = ids
    BY <2>3, <2>4, DoingFacts DEF Handling
  <2>6. \A s \in listener.ids : call[s].session = event.session
    <3>1. event.session # Nobody /\ \A s \in listener.ids : event.session \in {Nobody, call[s].session}
      BY <2>1, <2>2 DEF Hearsay, OwnHearing, Own
    <3>2. QED BY <3>1
  <2>7. /\ DOMAIN Unsent' = DOMAIN Unsent
        /\ \A t \in DOMAIN Unsent :
              \/ Unsent'[t] = Unsent[t]
              \/ /\ t \in listener.ids /\ Unsent'[t].handshake = event.seq
                 /\ Unsent'[t].kept = (t \in event.ids)
    BY <1>10, <2>1, AuthenticatedFacts
  <2>8. ASSUME NEW t \in Streams PROVE Noticed(t)'
    <3>1. Noticed(t) /\ Place(t) /\ call[t] \in Calls
      BY <1>3 DEF Places, Types
    <3>2. ASSUME t \in DOMAIN Unsent
          PROVE  /\ Unsent'[t].handshake <= sequence
                 /\ call[t].pc \in {"written", "accepted"} /\ Running(t)
                      /\ Unsent'[t].handshake > call[t].after => Unsent'[t].kept
      <4>1. CASE Unsent'[t] = Unsent[t]
        BY <3>1, <3>2, <4>1 DEF Noticed
      <4>2. CASE /\ t \in listener.ids /\ Unsent'[t].handshake = event.seq
                 /\ Unsent'[t].kept = (t \in event.ids)
        <5>1. event.seq <= sequence /\ event.seq \in Nat /\ call[t].after \in Nat
          BY <2>2, <3>1 DEF True, Events, Calls
        <5>2. ASSUME call[t].pc \in {"written", "accepted"}, Running(t), event.seq > call[t].after
              PROVE  t \in event.ids
          <6>1. call[t].session = event.session /\ call[t].pc \in Past
            BY <2>6, <4>2, <5>2 DEF Past
          <6>2. t \notin event.ids => call[t].after >= event.seq
            BY <2>2, <5>2, <6>1 DEF True
          <6>3. QED BY <5>1, <5>2, <6>2
        <5>3. QED BY <4>2, <5>1, <5>2
      <4>3. QED BY <2>7, <3>2, <4>1, <4>2
    <3>3. ASSUME t \in ids, t \in active
          PROVE  call[t].pc = "closed" \/ (call[t].pc \in {"missing", "started"} /\ ~Running(t))
      <4>1. t \in listener.ids /\ t \notin DOMAIN Unsent /\ Missing(t, event)
        BY <2>3, <3>3
      <4>2. CASE call[t].pc = "closed"
        BY <4>2
      <4>3. CASE call[t].pc = "missing"
        BY <3>1, <4>3 DEF Noticed
      <4>4. CASE call[t].pc = "started" /\ t \in DOMAIN Sent
        <5>1. t \notin event.ids /\ Sent[t] < event.seq /\ Sent[t] = call[t].after
          BY <3>1, <4>1, <4>4 DEF Missing, Sent, Place
        <5>2. call[t].after \in Nat /\ event.seq \in Nat
          BY <3>1 DEF Calls, Events
        <5>3. Running(t) => call[t].after >= event.seq
          BY <2>2, <2>6, <4>1, <4>4, <5>1 DEF True, Past
        <5>4. QED BY <4>4, <5>1, <5>2, <5>3
      <4>5. QED BY <3>1, <3>3, <4>1, <4>2, <4>3, <4>4 DEF Place
    <3>4. QED BY <1>1, <2>2, <2>5, <2>7, <3>1, <3>2, <3>3 DEF Noticed, Running
  <2>9. TrueHearing'
    BY <2>5 DEF TrueHearing
  <2>10. QED BY <1>1, <1>4, <2>2, <2>5, <2>8, <2>9, StillKeepsHandshakes
<1>11. CASE FailNext
  <2>1. PICK s \in listener.ids : /\ \E how \in Terminals : End(s, "error", how)
                                  /\ listener' = [listener EXCEPT !.ids = @ \ {s}]
    BY <1>11 DEF FailNext, Fail, Terminals
  <2>2. listener.pc \in {"ending", "failing"} /\ bus' = bus
    BY <1>11 DEF FailNext
  <2>3. /\ listener'.pc = listener.pc /\ listener'.event = listener.event
        /\ listener'.ids \subseteq listener.ids
    BY <2>1, <2>2, NextFacts DEF Handling
  <2>4. \A t \in Streams : Noticed(t)'
    BY <1>1, <2>1, <2>3, EndKeepsNoticed
  <2>5. TrueHearing'
    BY <2>2, <2>3 DEF TrueHearing
  <2>6. listener'.pc = "failing" => listener'.event.kind \in {"disconnected", "authenticated"}
    BY <2>3 DEF Handshakes
  <2>7. QED BY <1>1, <1>4, <2>2, <2>4, <2>5, <2>6, StillKeepsHandshakes
<1>12. CASE FailLagged
  <2>1. PICK s \in listener.ids : /\ recovery' = Forgotten(s)
                                  /\ listener' = [listener EXCEPT !.ids = @ \ {s}]
    BY <1>12 DEF FailLagged
  <2>2. listener.pc = "lag" /\ bus' = bus /\ active' = active
    BY <1>12 DEF FailLagged
  <2>3. listener'.pc = "lag"
    BY <2>1, <2>2, NextFacts DEF Handling
  <2>4. Forgets(s)
    BY <1>1, <2>1, ForgottenFacts
  <2>5. ASSUME NEW t \in Streams PROVE Noticed(t)'
    <3>1. t \in DOMAIN Unsent' => t \in DOMAIN Unsent /\ Unsent'[t] = Unsent[t]
      BY <2>4 DEF Forgets
    <3>2. QED BY <1>1, <1>3, <2>3, <3>1, NoticedKept
  <2>6. TrueHearing'
    BY <2>3 DEF TrueHearing
  <2>7. QED BY <1>1, <1>4, <2>2, <2>3, <2>5, <2>6, StillKeepsHandshakes
<1>13. QED BY <1>6, <1>7, <1>8, <1>9, <1>10, <1>11, <1>12 DEF Listen

LEMMA TimersKeepHandshakes == ASSUME Types, Handshakes, TimerAction PROVE Handshakes'
<1>1. UNCHANGED <<conn, call, jobs, sequence, bus, listener>>
  BY ExpireFacts DEF TimerAction, FailTaken, TimerSide, busVars, connVars
<1>2. TrueBus' /\ TrueHearing'
  BY <1>1 DEF Handshakes, TrueBus, TrueHearing, True, Running
<1>3. listener'.pc = "failing" => listener'.event.kind \in {"disconnected", "authenticated"}
  BY <1>1 DEF Handshakes
<1>4. \A t \in Streams : Noticed(t)'
  <2>1. CASE \E epoch \in timers.running : Expire(epoch)
    <3>1. Unsent' = Unsent /\ active' = active
      BY <2>1, ExpireFacts
    <3>2. QED BY <1>1, <3>1, NoticedKept DEF Handshakes
  <2>2. CASE \E s \in Streams : FailTaken(s)
    <3>1. PICK s \in Streams : End(s, "error", "silence")
      BY <2>2 DEF FailTaken, Fail
    <3>2. QED BY <1>1, <3>1, EndKeepsNoticed DEF Terminals
  <2>3. QED BY <2>1, <2>2 DEF TimerAction
<1>5. QED BY <1>1, <1>2, <1>3, <1>4, StillKeepsHandshakes

--------------------------------------------------------------------------------
(***************************************************************************)
(* The invariant holds.                                                    *)
(***************************************************************************)
LEMMA EmptyMaps == NoStreams \in Maps(Pendings) /\ NoStreams \in Maps(Nat) /\ DOMAIN NoStreams = {}
<1>1. DOMAIN NoStreams = {}
  BY DEF NoStreams
<1>2. NoStreams \in [DOMAIN NoStreams -> Pendings] /\ NoStreams \in [DOMAIN NoStreams -> Nat]
  BY DEF NoStreams
<1>3. QED BY <1>1, <1>2, MapFacts

LEMMA InitInvariant == Init => IInv
<1> SUFFICES ASSUME Init PROVE IInv
  OBVIOUS
<1>1. /\ Unsent = NoStreams /\ Sent = NoStreams /\ Awaiting = NoStreams
      /\ DOMAIN Unsent = {} /\ DOMAIN Sent = {} /\ DOMAIN Awaiting = {}
  BY EmptyMaps DEF Init, Unsent, Sent, Awaiting
<1>2. \A s \in Streams : call[s] = [pc |-> "idle", session |-> Nobody, after |-> 0]
  BY DEF Init
<1>3. Types
  <2>1. recovery \in Recoveries
    BY EmptyMaps DEF Init, Recoveries
  <2>2. call \in [Streams -> Calls]
    BY DEF Init, Calls, Positions, Nobody
  <2>3. conn \in Conns /\ listener \in Resting \cup Busy
    BY DEF Init, Conns, Resting, Nobody
  <2>4. bus \in Seq(Events)
    BY DEF Init
  <2>5. out \in [Streams -> Seq(Terminals \cup {"chunk"})]
    <3>1. <<>> \in Seq(Terminals \cup {"chunk"})
      OBVIOUS
    <3>2. QED BY <3>1 DEF Init
  <2>6. timers \in [running : SUBSET Nat, taken : SUBSET Streams]
    BY DEF Init
  <2>7. /\ session \in Nat \ {0} /\ closed \in BOOLEAN /\ sequence \in Nat
        /\ active \subseteq Streams
    <3>1. session = 1 /\ closed = FALSE /\ sequence = 0 /\ active = {}
      BY DEF Init
    <3>2. session \in Nat \ {0} /\ sequence \in Nat
      BY <3>1
    <3>3. closed \in BOOLEAN /\ active \subseteq Streams
      BY <3>1
    <3>4. QED BY <3>2, <3>3
  <2>8. /\ jobs \in [Streams -> {"none", "running", "gone", "finished"}]
        /\ stream \in [Streams -> {"open", "complete", "error"}]
    <3>1. jobs \in [Streams -> {"none", "running", "gone", "finished"}]
      <4>1. jobs = [s \in Streams |-> "none"]
        BY DEF Init
      <4>2. QED BY <4>1
    <3>2. stream \in [Streams -> {"open", "complete", "error"}]
      <4>1. stream = [s \in Streams |-> "open"]
        BY DEF Init
      <4>2. QED BY <4>1
    <3>3. QED BY <3>1, <3>2
  <2>9. QED BY <2>1, <2>2, <2>3, <2>4, <2>5, <2>6, <2>7, <2>8 DEF Types
<1>4. listener.pc = "select" /\ Taken = {} /\ Handled = {} /\ timers.taken = {} /\ active = {}
  BY DEF Init, Taken, Handled
<1>5. Ends
  <2>1. \A s \in Streams : stream[s] = "open" /\ out[s] = <<>>
    BY DEF Init
  <2>2. \A s \in Streams : Single(s) /\ Unended(s)
    BY <2>1 DEF Single, Unended
  <2>3. QED BY <1>1, <1>4, <2>1, <2>2 DEF Ends, EndOf
<1>6. Places
  BY <1>1, <1>2, <1>4 DEF Places, Place
<1>7. Begun
  BY <1>1, <1>4 DEF Begun
<1>8. Hearsay
  <2>1. bus = <<>>
    BY DEF Init
  <2>2. QED BY <1>2, <1>4, <2>1 DEF Hearsay, OwnBus, OwnHearing
<1>9. Handshakes
  <2>1. bus = <<>> /\ conn.hello = NoFrame /\ \A s \in Streams : jobs[s] = "none"
    BY DEF Init
  <2>2. QED BY <1>1, <1>4, <2>1 DEF Handshakes, Listed, Noticed, TrueBus, TrueHearing, Running
<1>10. QED BY <1>3, <1>5, <1>6, <1>7, <1>8, <1>9 DEF IInv

LEMMA StepsOfNext ==
  Next => ConnAction \/ (\E s \in Streams : CallAction(s)) \/ Listen \/ TimerAction
BY DEF Next, StayNext, ConnAction, CallAction, TimerAction

LEMMA NextInvariant == IInv /\ [Next]_vars => IInv'
<1> SUFFICES ASSUME IInv, [Next]_vars PROVE IInv'
  OBVIOUS
<1>1. Types /\ Ends /\ Places /\ Begun /\ Hearsay /\ Handshakes
  BY DEF IInv
<1>2. CASE ConnAction
  BY <1>1, <1>2, ConnKeepsTypes, ConnKeepsEnds, ConnKeepsPlaces, ConnKeepsBegun, ConnKeepsHearsay,
     ConnKeepsHandshakes DEF IInv
<1>3. CASE \E s \in Streams : CallAction(s)
  BY <1>1, <1>3, CallKeepsTypes, CallKeepsEnds, CallKeepsPlaces, CallKeepsBegun, CallKeepsHearsay,
     CallKeepsHandshakes DEF IInv
<1>4. CASE Listen
  BY <1>1, <1>4, ListenKeepsTypes, ListenKeepsEnds, ListenKeepsPlaces, ListenKeepsBegun,
     ListenKeepsHearsay, ListenKeepsHandshakes DEF IInv
<1>5. CASE TimerAction
  BY <1>1, <1>5, TimersKeepTypes, TimersKeepEnds, TimersKeepPlaces, TimersKeepBegun,
     TimersKeepHearsay, TimersKeepHandshakes DEF IInv
<1>6. CASE UNCHANGED vars
  <2>1. UNCHANGED <<session, closed, conn, jobs, bus, sequence, call, active, recovery, timers,
                    listener, stream, out>>
    BY <1>6 DEF vars, connVars, busVars, chatVars
  <2>2. Types' /\ Taken' = Taken /\ Handled' = Handled
        /\ Unsent' = Unsent /\ Sent' = Sent /\ Awaiting' = Awaiting
    BY <1>1, <2>1 DEF Types, Taken, Handled, Unsent, Sent, Awaiting
  <2>3. Ends'
    BY <1>1, <2>1, <2>2 DEF Ends, EndOf, Single, Unended
  <2>4. Places' /\ Begun'
    BY <1>1, <2>1, <2>2 DEF Places, Place, Begun
  <2>5. Hearsay'
    BY <1>1, <2>1 DEF Hearsay, OwnBus, OwnHearing, Own
  <2>6. Handshakes'
    BY <1>1, <2>1, <2>2
       DEF Handshakes, Listed, Noticed, TrueBus, TrueHearing, True, Running
  <2>7. QED BY <2>2, <2>3, <2>4, <2>5, <2>6 DEF IInv
<1>7. QED BY <1>2, <1>3, <1>4, <1>5, <1>6, StepsOfNext

(* The types, the one end of a stream, the place of its request in the     *)
(* maps of TransportRecovery, the account of what is heard and what a      *)
(* handshake knows of the peer's jobs hold together, in every state.       *)
THEOREM InvariantHolds == Spec => []IInv
BY InitInvariant, NextInvariant, PTL DEF Spec

--------------------------------------------------------------------------------
(***************************************************************************)
(* What callers may rely on.                                               *)
(***************************************************************************)
(* A stream is given at most one end, as the last thing, whichever of the  *)
(* listener, the timers, the receipt and the caller are about to end it:   *)
(* who removes it from ChatInner.active ends it.                           *)
THEOREM StreamsEndOnce == Spec => []OneTerminal
<1>1. IInv => OneTerminal
  BY DEF IInv, Ends, EndOf, Single, OneTerminal
<1>2. QED BY <1>1, InvariantHolds, PTL

(* A call that is over leaves its stream in neither map of requests, and   *)
(* what is still waited for has a timer that will take it out              *)
(* (TransportRecovery.forget, expire).                                     *)
THEOREM NothingIsLeft == Spec => []NoLeftovers
<1>1. IInv => NoLeftovers
  <2> SUFFICES ASSUME IInv PROVE NoLeftovers
    OBVIOUS
  <2>1. ASSUME NEW s \in Streams,
               \/ call[s].pc \in {"failed", "left", "returned"}
               \/ At(s, "started") /\ stream[s] # "open"
        PROVE  s \notin DOMAIN Unsent \cup DOMAIN Sent
    <3>1. EndOf(s) /\ Place(s)
      BY DEF IInv, Ends, Places
    <3>2. QED BY <2>1, <3>1 DEF EndOf, Place, At
  <2>2. DOMAIN Awaiting \subseteq Streams
    <3>1. Awaiting \in Maps(Nat)
      BY RecoveryFields DEF IInv, Types
    <3>2. QED BY <3>1, MapFacts
  <2>3. \A s \in DOMAIN Awaiting : Awaiting[s] \in timers.running
    BY <2>2 DEF IInv, Places, Place
  <2>4. Range(Awaiting) \subseteq timers.running
    BY <2>3 DEF Range
  <2>5. QED BY <2>1, <2>4 DEF NoLeftovers, Unsent, Sent, Awaiting
<1>2. QED BY <1>1, InvariantHolds, PTL

LEMMA AppendsOnce ==
  ASSUME NEW S, NEW q \in Seq(S), NEW e \in S, NEW d \in S
  PROVE  Append(q, e) # q /\ (Append(q, e) = Append(q, d) => e = d)
<1>1. Append(q, e)[Len(q) + 1] = e /\ Append(q, d)[Len(q) + 1] = d /\ Len(Append(q, e)) = Len(q) + 1
  OBVIOUS
<1>2. QED BY <1>1

(* An end that reads as a failed handshake is one *)
LEMMA HandshakeEnd ==
  ASSUME Types, NEW x, NEW state \in {"complete", "error"}, NEW how \in Terminals,
         End(x, state, how), NEW s \in Streams, out'[s] = Append(out[s], "handshake")
  PROVE  x = s /\ s \in active /\ how = "handshake"
<1>1. out[s] \in Seq(Terminals \cup {"chunk"}) /\ "handshake" \in Terminals
  BY DEF Types, Terminals
<1>2. out'[s] # out[s]
  BY <1>1, AppendsOnce
<1>3. x = s /\ s \in active
  <2>1. x \in active
    BY <1>2 DEF End
  <2>2. out' = [out EXCEPT ![x] = Append(out[x], how)]
    BY <2>1 DEF End
  <2>3. s = x
    BY <1>2, <2>2 DEF Types
  <2>4. QED BY <2>1, <2>3
<1>4. out'[s] = Append(out[s], how)
  BY <1>3, EndFacts
<1>5. QED BY <1>1, <1>3, <1>4, AppendsOnce

LEMMA MissingStep ==
  ASSUME IInv, Next, NEW s \in Streams, out'[s] = Append(out[s], "handshake")
  PROVE  ~Running(s) \/ call[s].pc = "closed"
<1>1. /\ Types /\ Noticed(s) /\ out[s] \in Seq(Terminals \cup {"chunk"})
      /\ "handshake" \in Terminals
      /\ listener.pc = "failing" => listener.event.kind \in {"disconnected", "authenticated"}
  BY DEF IInv, Handshakes, Types, Terminals
<1>2. out'[s] # out[s]
  BY <1>1, AppendsOnce
<1>3. CASE ConnAction
  BY <1>1, <1>2, <1>3, ConnMoves DEF chatVars
<1>4. CASE \E t \in Streams : CallAction(t)
  <2>1. PICK t \in Streams : CallEffect(t)
    BY <1>1, <1>4, CallEffects
  <2>2. Fails(t)
    BY <1>2, <2>1 DEF CallEffect, Steps, Registers, Inserts, Settles, Leaves, Cleans, Maintained
  <2>3. CASE Turns(t, "closed", "started") /\ End(t, "error", "terminal")
    BY <1>1, <2>3, HandshakeEnd DEF Terminals
  <2>4. CASE Turns(t, "missing", "started") /\ End(t, "error", "handshake")
    <3>1. t = s
      BY <1>1, <2>4, HandshakeEnd DEF Terminals
    <3>2. QED BY <1>1, <2>4, <3>1 DEF Turns, Noticed
  <2>5. QED BY <2>2, <2>3, <2>4 DEF Fails
<1>5. CASE Listen
  <2>1. CASE Receive
    <3>1. Takes(Head(bus))
      BY <1>1, <2>1, ReceiveFacts
    <3>2. PICK x : End(x, "complete", "result") \/ End(x, "error", "reported")
      BY <1>2, <3>1 DEF Takes
    <3>3. QED BY <1>1, <3>2, HandshakeEnd DEF Terminals
  <2>2. CASE Push
    <3>1. out'[s] = Append(out[s], "chunk")
      BY <1>2, <2>2 DEF Push
    <3>2. QED BY <1>1, <3>1, AppendsOnce DEF Terminals
  <2>3. CASE FailNext
    <3>1. PICK x \in listener.ids : End(x, "error", IF listener.pc = "ending" THEN "session"
                                              ELSE IF listener.event.kind = "disconnected"
                                                   THEN "terminal" ELSE "handshake")
      BY <2>3 DEF FailNext, Fail
    <3> DEFINE how == IF listener.pc = "ending" THEN "session"
                     ELSE IF listener.event.kind = "disconnected" THEN "terminal" ELSE "handshake"
    <3>2. /\ how \in {"session", "terminal", "handshake"}
          /\ how = "handshake" => listener.pc # "ending" /\ listener.event.kind # "disconnected"
      OBVIOUS
    <3> HIDE DEF how
    <3>3. End(x, "error", how)
      BY <3>1 DEF how
    <3>4. x = s /\ s \in active /\ how = "handshake"
      BY <1>1, <3>2, <3>3, HandshakeEnd DEF Terminals
    <3>5. listener.pc = "failing" /\ listener.event.kind = "authenticated"
      <4>1. listener.pc \in {"ending", "failing"}
        BY <2>3 DEF FailNext
      <4>2. listener.pc = "failing"
        BY <3>2, <3>4, <4>1
      <4>3. QED BY <1>1, <3>2, <3>4, <4>2
    <3>6. QED BY <1>1, <3>1, <3>4, <3>5 DEF Noticed
  <2>4. CASE FailLagged
    <3>1. PICK x \in listener.ids : out' = [out EXCEPT ![x] = Append(out[x], "lag")]
      BY <2>4 DEF FailLagged
    <3>2. out'[s] = Append(out[s], "lag")
      BY <1>1, <1>2, <3>1 DEF Types
    <3>3. QED BY <1>1, <3>2, AppendsOnce DEF Terminals
  <2>5. CASE EndSessions \/ TakeLagged \/ Lost \/ Closed \/ Authenticated \/ Resume
    BY <1>2, <2>5 DEF EndSessions, TakeLagged, Lost, Closed, Authenticated, Resume, chatVars
  <2>6. QED BY <1>5, <2>1, <2>2, <2>3, <2>4, <2>5 DEF Listen
<1>6. CASE TimerAction
  <2>1. CASE \E epoch \in timers.running : Expire(epoch)
    BY <1>1, <1>2, <2>1, ExpireFacts
  <2>2. CASE \E x \in Streams : FailTaken(x)
    <3>1. PICK x : End(x, "error", "silence")
      BY <2>2 DEF FailTaken, Fail
    <3>2. QED BY <1>1, <3>1, HandshakeEnd DEF Terminals
  <2>3. QED BY <1>6, <2>1, <2>2 DEF TimerAction
<1>7. QED BY <1>3, <1>4, <1>5, <1>6, StepsOfNext

(* A stream that is failed because a handshake frame does not list it is   *)
(* not run by the peer, whatever else was written, heard or acknowledged   *)
(* between the frame and the failure: TransportRecovery.submitted,         *)
(* authenticated and missing compare the sequence of the write with that   *)
(* of the frame.                                                           *)
THEOREM HandshakesFailWhatIsGone == Spec => MissingIsTrue
<1> DEFINE A == [\A s \in Streams : out'[s] = Append(out[s], "handshake") =>
                    jobs[s] # "running" \/ At(s, "closed")]_vars
<1>1. IInv /\ [Next]_vars => A
  BY MissingStep DEF Running, At
<1>2. QED BY <1>1, InvariantHolds, PTL DEF Spec, MissingIsTrue

(* What an event may do to a stream of another account *)
Spared(s) ==
  /\ out'[s] = out[s]
  /\ s \in DOMAIN Unsent => Unsent'[s] = Unsent[s]
  /\ s \in DOMAIN Awaiting => s \in DOMAIN Awaiting'

LEMMA EndSpares ==
  ASSUME Types, NEW x, NEW state \in {"complete", "error"}, NEW how \in Terminals,
         End(x, state, how), NEW s \in Streams, s # x
  PROVE  Spared(s)
<1>1. recovery' = Forgotten(x) /\ out'[s] = out[s]
  <2>1. /\ recovery' = Forgotten(x)
        /\ \A t \in Streams : t # x => stream'[t] = stream[t] /\ out'[t] = out[t]
    BY EndFacts
  <2>2. QED BY <2>1
<1>2. Forgets(x)
  BY <1>1, ForgottenFacts DEF Types
<1>3. QED BY <1>1, <1>2 DEF Forgets, Spared

LEMMA TailIsShorter ==
  ASSUME NEW S, NEW q \in Seq(S), q # <<>>, NEW e \in S
  PROVE  Tail(q) # q /\ Tail(q) # Append(q, e)
<1>1. Len(Tail(q)) = Len(q) - 1 /\ Len(Append(q, e)) = Len(q) + 1 /\ Len(q) \in Nat
  OBVIOUS
<1>2. Len(Tail(q)) # Len(q) /\ Len(Tail(q)) # Len(Append(q, e))
  <2>1. \A n \in Nat : n - 1 # n /\ n - 1 # n + 1
    OBVIOUS
  <2>2. QED BY <1>1, <2>1
<1>3. (Tail(q) = q => Len(Tail(q)) = Len(q))
      /\ (Tail(q) = Append(q, e) => Len(Tail(q)) = Len(Append(q, e)))
  OBVIOUS
<1>4. QED BY <1>2, <1>3

LEMMA OnlyTheListenerHears == ASSUME IInv, Next, Hears PROVE Listen
<1>1. Types /\ bus \in Seq(Events)
  BY DEF IInv, Types
<1>2. \A e \in Events : bus # <<>> => Tail(bus) # bus /\ Tail(bus) # Append(bus, e)
  BY <1>1, TailIsShorter
<1>3. bus # <<>> => Tail(bus) # bus
  <2>1. Event("lag", 0) \in Events
    BY EventFacts DEF Kinds
  <2>2. QED BY <1>2, <2>1
<1>4. CASE ConnAction
  <2>1. listener' = listener
    BY <1>1, <1>4, ConnMoves
  <2>2. bus # <<>> /\ bus' = Tail(bus) /\ ~lagged'
    BY <2>1 DEF Hears
  <2>3. QED BY <1>1, <1>2, <1>3, <1>4, <2>2, ConnEmits DEF Announcement, Hearing
<1>5. CASE \E s \in Streams : CallAction(s)
  BY <1>1, <1>3, <1>5, CallFrames DEF CallFrame, Hears
<1>6. CASE TimerAction
  <2>1. UNCHANGED <<bus, listener>>
    BY <1>6 DEF TimerAction, Expire, FailTaken, TimerSide, busVars
  <2>2. QED BY <1>3, <2>1 DEF Hears
<1>7. QED BY <1>4, <1>5, <1>6, StepsOfNext

LEMMA HearsOwn ==
  ASSUME IInv, Next, Hears, NEW s \in Streams, Heard.session \notin {Nobody, call[s].session}
  PROVE  Spared(s)
<1>1. /\ Types /\ OwnHearing /\ OwnBus /\ bus \in Seq(Events) /\ recovery \in Recoveries
  BY DEF IInv, Hearsay, Types
<1>2. Listen
  BY OnlyTheListenerHears
<1>3. ASSUME UNCHANGED <<recovery, out>> PROVE Spared(s)
  BY <1>3 DEF Spared, Unsent, Awaiting
<1>4. CASE listener.pc = "select"
  <2>1. bus # <<>> /\ bus' = Tail(bus) /\ Heard = Head(bus)
    BY <1>4 DEF Hears, Heard
  <2>2. Tail(bus) # bus
    <3>1. Event("lag", 0) \in Events
      BY EventFacts DEF Kinds
    <3>2. QED BY <1>1, <2>1, <3>1, TailIsShorter
  <2>3. Receive
    BY <1>2, <1>4, <2>1, <2>2
       DEF Listen, EndSessions, TakeLagged, Push, Lost, Closed, Authenticated, FailNext,
           FailLagged, Resume
  <2>4. PICK event \in Events : event = Head(bus)
    BY <1>1, <2>3, ReceiveFacts
  <2>5. Takes(event) /\ Own(event)
    BY <1>1, <2>1, <2>3, <2>4, ReceiveFacts, HeadFacts DEF OwnBus
  <2>6. event.kind \in {"token", "state", "result", "error"} => s \notin event.ids
    BY <2>1, <2>4, <2>5 DEF Own
  <2>7. CASE UNCHANGED <<recovery, out>>
    BY <1>3, <2>7
  <2>8. CASE recovery' = Awoken(event.ids) /\ out' = out /\ event.kind \in {"token", "state"}
    <3>1. Unsent' = Unsent /\ Wakes(event.ids)
      BY <1>1, <2>8, AwokenFacts
    <3>2. QED BY <2>6, <2>8, <3>1 DEF Wakes, Spared
  <2>9. ASSUME event.kind \in {"result", "error"}, NEW x \in event.ids,
               End(x, "complete", "result") \/ End(x, "error", "reported")
        PROVE  Spared(s)
    <3>1. x # s
      BY <2>6, <2>9
    <3>2. QED BY <1>1, <2>9, <3>1, EndSpares DEF Terminals
  <2>10. QED BY <2>5, <2>7, <2>8, <2>9 DEF Takes
<1>5. CASE listener.pc \in {"judge", "failing", "push"}
  <2>1. Heard = listener.event /\ s \notin listener.ids
    <3>1. Heard = listener.event
      BY <1>5 DEF Heard
    <3>2. QED BY <1>1, <1>5, <3>1 DEF OwnHearing
  <2>2. CASE Push
    <3>1. recovery' = recovery /\ out'[s] = out[s]
      BY <2>1, <2>2 DEF Push
    <3>2. QED BY <3>1 DEF Spared, Unsent, Awaiting
  <2>3. CASE Lost
    <3>1. out' = out /\ Unsent' = Unsent /\ \A t \in DOMAIN Awaiting : t \in DOMAIN Awaiting'
      BY <1>1, <2>3, LostFacts DEF Lost
    <3>2. QED BY <3>1 DEF Spared
  <2>4. CASE Closed
    <3>1. out' = out /\ Awaiting' = Awaiting
      BY <1>1, <2>4, ClosedFacts DEF Closed
    <3>2. s \in DOMAIN Unsent => Unsent'[s] = Unsent[s]
      BY <1>1, <2>1, <2>4, ClosedFacts
    <3>3. QED BY <3>1, <3>2 DEF Spared
  <2>5. CASE Authenticated
    <3>1. out' = out /\ Wakes(listener.ids)
      BY <1>1, <2>5, AuthenticatedFacts DEF Authenticated
    <3>2. s \in DOMAIN Unsent => Unsent'[s] = Unsent[s]
      BY <1>1, <2>1, <2>5, AuthenticatedFacts
    <3>3. QED BY <2>1, <3>1, <3>2 DEF Spared, Wakes
  <2>6. CASE FailNext
    <3>1. PICK x \in listener.ids : \E how \in Terminals : End(x, "error", how)
      BY <2>6 DEF FailNext, Fail, Terminals
    <3>2. QED BY <1>1, <2>1, <3>1, EndSpares
  <2>7. CASE Resume
    BY <1>3, <2>7 DEF Resume, chatVars
  <2>8. QED BY <1>2, <1>5, <2>2, <2>3, <2>4, <2>5, <2>6, <2>7
         DEF Listen, EndSessions, TakeLagged, Receive, Receivable, FailLagged
<1>6. QED BY <1>4, <1>5 DEF Hears

(* An event of one account's connection, however late it is heard, does    *)
(* nothing to a stream of another account: what it speaks of was collected *)
(* by the session of its calls (handle_chat_event, job_ids).               *)
THEOREM EventsStayInTheirAccount == Spec => OwnEventsOnly
<1> DEFINE A == [Hears => \A s \in Streams :
                   Heard.session \in {Nobody, call[s].session} \/
                   /\ out'[s] = out[s]
                   /\ s \in DOMAIN recovery.unsent => recovery'.unsent[s] = recovery.unsent[s]
                   /\ s \in DOMAIN recovery.awaiting => s \in DOMAIN recovery'.awaiting]_vars
<1>1. IInv /\ [Next]_vars => A
  BY HearsOwn DEF Spared, Unsent, Awaiting
<1>2. QED BY <1>1, InvariantHolds, PTL DEF Spec, OwnEventsOnly
================================================================================
