------------------------- MODULE AccountSessionProofs -------------------------
(***************************************************************************)
(* What the account of a client promises, for any number of calls and of   *)
(* accounts, sign-ins and changes of the subscription.                     *)
(***************************************************************************)
EXTENDS AccountSession, TLAPS

--------------------------------------------------------------------------------
(***************************************************************************)
(* How a call moves.                                                       *)
(***************************************************************************)
Positions == Awaiting \cup {"skip", "installing", "installed", "hydrate", "apply", "applying",
                            "undo", "rollback", "clearing", "clear", "show", "showing",
                            "refreshing", "in", "out"}
Holding == {"applying", "showing", "rollback"}
OneThread == runtime = "one_thread"

(* One call moves, with all it holds but its position *)
Alone(k) ==
  /\ call' \in [Calls -> Holdings]
  /\ \A j \in Calls : j # k => call'[j] = call[j]
Keeps(k) ==
  /\ call'[k].session = call[k].session /\ call'[k].who = call[k].who
  /\ call'[k].previous = call[k].previous /\ call'[k].read = call[k].read
  /\ call'[k].states = call[k].states /\ call'[k].writes = call[k].writes

(* A call hydrates the account of the session it installed *)
Hydrating(k) ==
  /\ call[k].pc \in {"fetch", "apply", "applying", "undo", "rollback"} /\ call[k].op # "me"
  /\ Current(call[k])

LEMMA CallFields ==
  ASSUME TypeOK, NEW k \in Calls
  PROVE  /\ call[k] \in Holdings /\ call[k].op \in Operations \cup {"none"}
         /\ call[k].pc \in Positions /\ call[k].session \in Nat /\ call[k].who \in Account
         /\ call[k].previous \in Nat /\ call[k].read \in Nat /\ call[k].writes \in Nat
         /\ call[k].states \in Nat
BY DEF TypeOK, Holdings, Positions

LEMMA ListenerFields ==
  ASSUME TypeOK
  PROVE  /\ listener.pc \in Positions /\ listener.session \in Nat /\ listener.who \in Account
         /\ listener.op \in Operations \cup {"none"} /\ listener.previous \in Nat
         /\ listener.read \in Nat /\ listener.writes \in Nat /\ listener.states \in Nat
BY DEF TypeOK, Holdings, Positions

LEMMA IdleFacts ==
  /\ Idle \in Holdings /\ Idle.pc = "idle" /\ Idle.session = 0 /\ Idle.previous = 0
  /\ Idle.read = 0 /\ Idle.writes = 0 /\ Idle.states = 0 /\ Idle.who = Nobody /\ Idle.op = "none"
BY DEF Idle, Holdings, Awaiting, Account

LEMMA GotoFacts ==
  ASSUME TypeOK, NEW k \in Calls, NEW pc \in Positions, Goto(k, pc)
  PROVE  Alone(k) /\ Keeps(k) /\ call'[k].pc = pc /\ call'[k].op = call[k].op
<1>1. [call[k] EXCEPT !.pc = pc] \in Holdings
  BY CallFields DEF Holdings, Positions
<1>2. call' = [call EXCEPT ![k] = [call[k] EXCEPT !.pc = pc]]
  BY DEF Goto
<1>3. call \in [Calls -> Holdings]
  BY DEF TypeOK
<1>4. call'[k] = [call[k] EXCEPT !.pc = pc] /\ Alone(k)
  BY <1>1, <1>2, <1>3 DEF Alone
<1>5. QED BY <1>4, CallFields DEF Keeps, Holdings

LEMMA DoneFacts ==
  ASSUME TypeOK, NEW k \in Calls, Done(k)
  PROVE  /\ Alone(k) /\ call'[k].pc = "done" /\ call'[k].session = 0 /\ call'[k].previous = 0
         /\ call'[k].read = 0
<1> DEFINE over == [Idle EXCEPT !.pc = "done", !.op = call[k].op]
<1>1. over \in Holdings
  BY CallFields DEF Idle, Holdings, Awaiting, Account
<1>2. call' = [call EXCEPT ![k] = over]
  BY DEF Done
<1>3. call \in [Calls -> Holdings]
  BY DEF TypeOK
<1>4. call'[k] = over /\ Alone(k)
  BY <1>1, <1>2, <1>3 DEF Alone
<1>5. over.pc = "done" /\ over.session = 0 /\ over.previous = 0 /\ over.read = 0
  BY DEF Idle
<1>6. QED BY <1>4, <1>5

--------------------------------------------------------------------------------
(***************************************************************************)
(* What is shared.                                                         *)
(***************************************************************************)
Projections == [hydrated : BOOLEAN, skip : BOOLEAN, session : Nat]
Showns == [who : Account, subscription : Nat, heard : Nat, newest : Nat]
States == [last : Nat, writes : Nat]
Auths == [who : Account, session : Nat]

(* What holds of the account shown: it is the one signed in, or nobody *)
Fits ==
  /\ shown.who \in {auth.who, Nobody}
  /\ projection.hydrated => Authenticated /\ shown.who = auth.who

LEMMA SharedFields ==
  ASSUME TypeOK
  PROVE  /\ auth.who \in Account /\ auth.session \in Nat
         /\ auth = [who |-> auth.who, session |-> auth.session]
         /\ projection.hydrated \in BOOLEAN /\ projection.skip \in BOOLEAN
         /\ projection.session \in Nat
         /\ shown.who \in Account /\ shown.subscription \in Nat /\ shown.heard \in Nat
         /\ shown.newest \in Nat
         /\ state.last \in Nat /\ state.writes \in Nat
BY DEF TypeOK

LEMMA SignInFacts ==
  ASSUME TypeOK, NEW who \in Accounts, ConstantsAreSound, SignIn(who)
  PROVE  /\ auth' \in Auths /\ changed' = TRUE /\ auth'.who = who /\ who # Nobody
         /\ \/ auth'.session = auth.session /\ auth.who = who
            \/ auth'.session = auth.session + 1 /\ auth.who # who
BY SharedFields DEF SignIn, ConstantsAreSound, Auths, Account

LEMMA SignOutFacts ==
  ASSUME TypeOK, SignOut
  PROVE  /\ auth' \in Auths /\ changed' = TRUE /\ auth'.who = Nobody
         /\ auth'.session = auth.session + 1
BY SharedFields DEF SignOut, Auths, Account

LEMMA ResetFacts ==
  ASSUME Reset
  PROVE  /\ shown' \in Showns /\ state' \in States /\ shown'.who = Nobody
         /\ shown'.subscription = 0 /\ shown'.heard = 0 /\ shown'.newest = 0
         /\ state'.last = 0 /\ state'.writes = 0
BY DEF Reset, Unknown, NoState, Showns, States, Account

LEMMA ShowFacts ==
  ASSUME TypeOK, NEW who \in Account, Show(who)
  PROVE  /\ shown' \in Showns /\ shown'.who = who /\ shown'.subscription = shown.subscription
         /\ shown'.heard = shown.heard /\ shown'.newest = shown.newest /\ state' = state
BY DEF Show, TypeOK, Showns

LEMMA ShowNowFacts ==
  ASSUME TypeOK, NEW c, c.who \in Account, ShowNow(c)
  PROVE  /\ projection' \in Projections /\ shown' \in Showns /\ state' \in States
         /\ projection'.session = auth.session /\ shown'.who = c.who
         /\ Current(c) => /\ state' = state /\ shown'.subscription = shown.subscription
                          /\ shown'.heard = shown.heard /\ shown'.newest = shown.newest
         /\ ~Current(c) => /\ state'.last = 0 /\ shown'.subscription = 0
                           /\ shown'.heard = 0 /\ shown'.newest = 0
<1>1. projection' = [projection EXCEPT !.session = auth.session, !.hydrated = TRUE]
  BY DEF ShowNow
<1>2. projection' \in Projections /\ projection'.session = auth.session
  BY <1>1, SharedFields DEF TypeOK, Projections
<1>3. CASE Current(c)
  <2>1. Show(c.who)
    BY <1>3 DEF ShowNow
  <2>2. state' = state /\ state' \in States
    BY <2>1 DEF Show, TypeOK, States
  <2>3. QED BY <1>2, <1>3, <2>1, <2>2, ShowFacts
<1>4. CASE ~Current(c)
  <2>1. shown' = Unknown(c.who) /\ state' = NoState
    BY <1>4 DEF ShowNow
  <2>2. QED BY <1>2, <1>4, <2>1 DEF Unknown, NoState, Showns, States
<1>5. QED BY <1>3, <1>4

LEMMA ClearedFacts ==
  ASSUME TypeOK, ClearProjection
  PROVE  /\ projection' \in Projections /\ shown' \in Showns /\ state' \in States
         /\ projection'.session = projection.session
         /\ Authenticated => projection' = projection /\ shown' = shown /\ state' = state
         /\ ~Authenticated => Reset /\ projection'.hydrated = FALSE
<1>1. CASE Authenticated
  BY <1>1 DEF ClearProjection, KeepShown, TypeOK, Projections, Showns, States
<1>2. CASE ~Authenticated
  BY <1>2, ResetFacts DEF ClearProjection, TypeOK, Projections
<1>3. QED BY <1>1, <1>2

--------------------------------------------------------------------------------
(***************************************************************************)
(* The steps of a call.                                                    *)
(***************************************************************************)
Shared == <<auth, changed, lock, projection, shown, state>>

(* It asks, is answered, or gives up: only its own position changes *)
Strolls(k) ==
  /\ MayRun(k) /\ KeepService /\ UNCHANGED Shared /\ Alone(k)
  /\ call[k].pc \notin Holding \cup {"installed"}
  /\ call[k].pc = "hydrate" => ~Current(call[k])
  /\ call'[k].pc \notin Holding \cup {"installing", "installed", "hydrate"}
  /\ call'[k].session \in {0, call[k].session, auth.session}
  /\ call'[k].previous \in {0, call[k].previous, auth.session}
  /\ call'[k].pc \in {"apply", "show"} => Authenticated /\ call'[k].who = auth.who
  /\ call'[k].pc \in {"nonce", "skip"} =>
       \/ call'[k].who \in Accounts /\ call'[k].op # "me"
       \/ call[k].pc = "nonce" /\ call'[k].who = call[k].who /\ call'[k].op = call[k].op
  /\ Hydrating(k) => Hydrating(k)'
  /\ call'[k].pc = "clearing" => call'[k].session = auth.session
  /\ call'[k].pc \in {"read", "refreshing"} =>
       \/ /\ call'[k].pc = "read" /\ call'[k].read = 0 /\ call'[k].writes = state.writes
          /\ call'[k].previous # 0 => projection.session = auth.session
       \/ /\ call'[k].pc = "read" /\ call'[k].read = version /\ Authenticated
          /\ call[k].pc = "read" /\ Current(call[k])
          /\ call'[k].session = call[k].session /\ call'[k].writes = call[k].writes
          /\ call'[k].previous = call[k].previous /\ call'[k].states \in {0, version}
       \/ /\ call'[k].pc = "refreshing" /\ call[k].read # 0
          /\ call[k].pc = "read" /\ Current(call[k]) /\ Keeps(k)

(* It ends the session *)
Leaves(k) ==
  /\ MayRun(k) /\ KeepService /\ SignOut /\ Alone(k)
  /\ UNCHANGED <<lock, projection, shown, state>>
  /\ call[k].pc \notin Holding /\ call'[k].pc \in {"done", "undo", "clear"}
  /\ call'[k].session \in {0, call[k].session} /\ call'[k].previous \in {0, call[k].previous}
  /\ call[k].pc = "clearing" \/ Current(call[k])

(* It takes the lock *)
Takes(k) ==
  /\ MayRun(k) /\ KeepService /\ UNCHANGED <<auth, changed, projection, shown, state>>
  /\ lock = Free /\ lock' = k /\ Alone(k) /\ Keeps(k) /\ call'[k].op = call[k].op
  /\ \/ call[k].pc = "apply" /\ call'[k].pc = "applying" /\ Current(call[k])
     \/ call[k].pc = "show" /\ call'[k].pc = "showing" /\ Current(call[k])
     \/ call[k].pc = "undo" /\ call'[k].pc = "rollback" /\ (Current(call[k]) \/ ~Authenticated)

(* Positions are what TypeOK says *)
LEMMA PositionFacts ==
  /\ {"nonce", "skip", "fetch", "leave", "read", "show", "apply", "undo", "clear", "clearing",
      "refreshing", "applying", "showing", "rollback", "installing", "installed", "hydrate",
      "done", "idle"} \subseteq Positions
BY DEF Positions, Awaiting

LEMMA StartFacts ==
  ASSUME TypeOK, ConstantsAreSound, NEW k \in Calls, Start(k)
  PROVE  Strolls(k)
<1> DEFINE Begun(op, who, pc, previous) == [Idle EXCEPT !.op = op, !.who = who,
                   !.session = auth.session, !.writes = state.writes, !.previous = previous,
                   !.pc = pc]
<1>1. PICK op \in Operations, who \in Account :
        /\ op \in {"login", "set_tokens"} => who \in Accounts
        /\ call' = [call EXCEPT ![k] = Begun(op, who,
             CASE op = "login" -> "nonce" [] op = "set_tokens" -> "skip"
               [] op = "me" -> "fetch" [] op = "logout" -> "leave" [] op = "refresh" -> "read",
             IF op = "refresh" /\ projection.session = auth.session THEN auth.session ELSE 0)]
  BY DEF Start, Account
<1>2. op \in {"login", "set_tokens", "me", "logout", "refresh"}
  BY DEF ConstantsAreSound
<1>3. PICK pc \in {"nonce", "skip", "fetch", "leave", "read"}, previous \in {0, auth.session} :
        /\ call' = [call EXCEPT ![k] = Begun(op, who, pc, previous)]
        /\ pc \in {"nonce", "skip"} => who \in Accounts /\ op # "me"
        /\ previous # 0 => projection.session = auth.session
  BY <1>1, <1>2
<1>4. Begun(op, who, pc, previous) \in Holdings
  <2>1. previous \in Nat /\ auth.session \in Nat /\ state.writes \in Nat
    BY SharedFields
  <2>2. pc \in Positions /\ who \in Account /\ op \in Operations \cup {"none"}
    BY PositionFacts
  <2>3. QED BY <2>1, <2>2 DEF Idle, Holdings, Positions
<1>5. /\ Begun(op, who, pc, previous).pc = pc
      /\ Begun(op, who, pc, previous).session = auth.session
      /\ Begun(op, who, pc, previous).previous = previous /\ Begun(op, who, pc, previous).read = 0
      /\ Begun(op, who, pc, previous).writes = state.writes
      /\ Begun(op, who, pc, previous).who = who /\ Begun(op, who, pc, previous).op = op
  BY DEF Idle
<1>6. call \in [Calls -> Holdings]
  BY DEF TypeOK
<1>7. Alone(k) /\ call'[k] = Begun(op, who, pc, previous)
  BY <1>3, <1>4, <1>6 DEF Alone
<1>8. MayRun(k) /\ KeepService /\ UNCHANGED Shared /\ call[k].pc = "idle"
  BY DEF Start, KeepAuth, KeepShown, Shared, At
<1> HIDE DEF Begun
<1>9. ~Hydrating(k)
  BY <1>8 DEF Hydrating
<1>10. QED BY <1>3, <1>5, <1>7, <1>8, <1>9 DEF Strolls, Holding

LEMMA AnswerFacts ==
  ASSUME TypeOK, NEW k \in Calls, LoginAnswered(k) \/ Superseded(k)
  PROVE  Strolls(k)
<1>1. MayRun(k) /\ KeepService /\ UNCHANGED Shared
  BY DEF LoginAnswered, Superseded, KeepAuth, KeepShown, Shared
<1>2. CASE LoginAnswered(k) /\ Goto(k, "skip")
  BY <1>1, <1>2, GotoFacts, PositionFacts DEF LoginAnswered, At, Keeps, Strolls, Holding, Hydrating
<1>3. CASE Done(k)
  <2>1. call[k].pc \notin Holding \cup {"installed"} /\ (call[k].pc = "hydrate" => ~Current(call[k]))
    BY DEF LoginAnswered, Superseded, At, Holding
  <2>2. ~Hydrating(k)
    BY DEF LoginAnswered, Superseded, At, Hydrating
  <2>3. QED BY <1>1, <1>3, <2>1, <2>2, DoneFacts DEF Strolls, Holding
<1>4. QED BY <1>2, <1>3 DEF LoginAnswered, Superseded

LEMMA FetchedFacts ==
  ASSUME TypeOK, NEW k \in Calls, Fetched(k)
  PROVE  Strolls(k)
<1>1. MayRun(k) /\ KeepService /\ UNCHANGED Shared /\ call[k].pc = "fetch"
      /\ Authenticated /\ Current(call[k])
  BY DEF Fetched, KeepAuth, KeepShown, Shared, At
<1>2. PICK pc \in {"apply", "show"} :
        /\ call' = [call EXCEPT ![k] = [call[k] EXCEPT !.who = auth.who, !.pc = pc]]
        /\ call[k].op # "me" => pc = "apply"
  BY CallFields DEF Fetched, TypeOK, Holdings
<1> DEFINE told == [call[k] EXCEPT !.who = auth.who, !.pc = pc]
<1>3. told \in Holdings /\ told.who = auth.who /\ told.pc = pc
      /\ told.session = call[k].session /\ told.previous = call[k].previous /\ told.op = call[k].op
  BY CallFields, SharedFields, PositionFacts DEF Holdings, Positions
<1>4. call \in [Calls -> Holdings]
  BY DEF TypeOK
<1>5. Alone(k) /\ call'[k] = told
  BY <1>2, <1>3, <1>4 DEF Alone
<1> HIDE DEF told
<1>6. Hydrating(k) => Hydrating(k)'
  BY <1>1, <1>2, <1>3, <1>5 DEF Hydrating, Current, Shared
<1>7. QED BY <1>1, <1>3, <1>5, <1>6 DEF Strolls, Holding

LEMMA FailFacts ==
  ASSUME TypeOK, NEW k \in Calls, FetchFails(k) \/ LeaveFails(k)
  PROVE  Strolls(k) \/ Leaves(k)
<1>1. MayRun(k) /\ KeepService /\ UNCHANGED <<lock, projection, shown, state>>
      /\ call[k].pc \in {"fetch", "leave"}
  BY DEF FetchFails, LeaveFails, KeepShown, At
<1>2. /\ Alone(k) /\ call'[k].pc \in {"done", "undo", "clear"}
      /\ call'[k].session \in {0, call[k].session} /\ call'[k].previous \in {0, call[k].previous}
      /\ Hydrating(k) => call'[k].pc = "undo" /\ call'[k].op = call[k].op
                         /\ call'[k].session = call[k].session
  <2>1. CASE Done(k)
    <3>1. ~Goto(k, "undo")
      BY <2>1, DoneFacts, GotoFacts, PositionFacts
    <3>2. ~Hydrating(k)
      BY <3>1 DEF FetchFails, LeaveFails, At, Hydrating
    <3>3. QED BY <2>1, <3>2, DoneFacts
  <2>2. ASSUME NEW pc \in {"undo", "clear"}, Goto(k, pc)
        PROVE  /\ Alone(k) /\ call'[k].pc = pc /\ call'[k].op = call[k].op
               /\ call'[k].session = call[k].session /\ call'[k].previous = call[k].previous
    BY <2>2, GotoFacts, PositionFacts DEF Keeps
  <2>3. CASE Goto(k, "undo")
    BY <2>2, <2>3
  <2>4. CASE Goto(k, "clear")
    <3>1. ~Done(k) /\ ~Goto(k, "undo")
      BY <2>4, DoneFacts, GotoFacts, PositionFacts
    <3>2. ~Hydrating(k)
      BY <3>1 DEF FetchFails, LeaveFails, At, Hydrating
    <3>3. QED BY <2>2, <2>4, <3>2
  <2>5. Done(k) \/ Goto(k, "undo") \/ Goto(k, "clear")
    BY DEF FetchFails, LeaveFails
  <2>6. QED BY <2>1, <2>3, <2>4, <2>5
<1>3. KeepAuth \/ (Current(call[k]) /\ SignOut)
  BY DEF FetchFails, LeaveFails
<1>4. CASE KeepAuth
  <2>1. Hydrating(k) => Hydrating(k)'
    BY <1>2, <1>4 DEF Hydrating, Current, KeepAuth
  <2>2. QED BY <1>1, <1>2, <1>4, <2>1 DEF Strolls, Holding, KeepAuth, Shared
<1>5. CASE Current(call[k]) /\ SignOut
  BY <1>1, <1>2, <1>5 DEF Leaves, Holding
<1>6. QED BY <1>3, <1>4, <1>5

LEMMA LeftFacts ==
  ASSUME TypeOK, NEW k \in Calls, Left(k)
  PROVE  Strolls(k)
<1>1. MayRun(k) /\ KeepService /\ UNCHANGED Shared /\ call[k].pc = "leave"
  BY DEF Left, KeepAuth, KeepShown, Shared, At
<1>2. CASE Current(call[k]) /\ Goto(k, "clearing")
  BY <1>1, <1>2, GotoFacts, PositionFacts DEF Keeps, Strolls, Holding, Current, Hydrating
<1>3. CASE Done(k)
  BY <1>1, <1>3, DoneFacts DEF Strolls, Holding, Hydrating
<1>4. QED BY <1>2, <1>3 DEF Left

LEMMA ClearAuthFacts ==
  ASSUME TypeOK, NEW k \in Calls, ClearAuth(k)
  PROVE  Leaves(k) /\ call[k].pc = "clearing"
<1>1. MayRun(k) /\ KeepService /\ UNCHANGED <<lock, projection, shown, state>>
      /\ call[k].pc = "clearing" /\ SignOut /\ Goto(k, "clear")
  BY DEF ClearAuth, KeepShown, At
<1>2. QED BY <1>1, GotoFacts, PositionFacts DEF Keeps, Leaves, Holding

LEMMA ReadFacts ==
  ASSUME TypeOK, NEW k \in Calls, Read(k)
  PROVE  Strolls(k)
<1>1. MayRun(k) /\ KeepService /\ UNCHANGED Shared /\ call[k].pc = "read"
      /\ Authenticated /\ Current(call[k])
  BY DEF Read, KeepAuth, KeepShown, Shared, At
<1>2. PICK states \in {0, version} :
        call' = [call EXCEPT ![k] = [call[k] EXCEPT !.read = version, !.states = states]]
  BY DEF Read
<1> DEFINE told == [call[k] EXCEPT !.read = version, !.states = states]
<1>3. version \in Nat /\ call \in [Calls -> Holdings] /\ states \in Nat
  BY DEF TypeOK
<1>4. told \in Holdings /\ told.read = version /\ told.pc = call[k].pc
      /\ told.session = call[k].session /\ told.previous = call[k].previous
      /\ told.writes = call[k].writes /\ told.states = states
  BY <1>3, CallFields DEF Holdings
<1>5. Alone(k) /\ call'[k] = told
  BY <1>2, <1>3, <1>4 DEF Alone
<1> HIDE DEF told
<1>6. QED BY <1>1, <1>4, <1>5 DEF Strolls, Holding, Hydrating

LEMMA AnsweredFacts ==
  ASSUME TypeOK, NEW k \in Calls, Answered(k)
  PROVE  Strolls(k)
<1>1. MayRun(k) /\ KeepService /\ UNCHANGED Shared /\ call[k].pc = "read"
      /\ Current(call[k]) /\ call[k].read # 0 /\ Goto(k, "refreshing")
  BY DEF Answered, KeepAuth, KeepShown, Shared, At
<1>2. Alone(k) /\ Keeps(k) /\ call'[k].pc = "refreshing"
  BY <1>1, GotoFacts, PositionFacts
<1>3. call'[k].session = call[k].session /\ call'[k].previous = call[k].previous
  BY <1>2 DEF Keeps
<1>4. QED BY <1>1, <1>2, <1>3 DEF Strolls, Holding, Hydrating

LEMMA TakeFacts ==
  ASSUME TypeOK, NEW k \in Calls, Apply(k) \/ ShowMe(k)
  PROVE  Takes(k)
<1>1. MayRun(k) /\ KeepService /\ UNCHANGED <<auth, changed, projection, shown, state>>
      /\ lock = Free /\ lock' = k /\ Current(call[k])
  BY DEF Apply, ShowMe, KeepAuth, KeepShown, TakeGuarded
<1>2. CASE Apply(k)
  BY <1>1, <1>2, GotoFacts, PositionFacts DEF Apply, At, Takes
<1>3. CASE ShowMe(k)
  BY <1>1, <1>3, GotoFacts, PositionFacts DEF ShowMe, At, Takes
<1>4. QED BY <1>2, <1>3

LEMMA UndoFacts ==
  ASSUME TypeOK, NEW k \in Calls, Undo(k)
  PROVE  Strolls(k) \/ Takes(k)
<1>1. MayRun(k) /\ KeepService /\ UNCHANGED <<auth, changed, projection, shown, state>>
      /\ lock = Free /\ call[k].pc = "undo"
  BY DEF Undo, KeepAuth, KeepShown, At
<1>2. CASE (Current(call[k]) \/ ~Authenticated) /\ lock' = k /\ Goto(k, "rollback")
  BY <1>1, <1>2, GotoFacts, PositionFacts DEF Takes
<1>3. CASE ~Current(call[k]) /\ lock' = lock /\ Done(k)
  BY <1>1, <1>3, DoneFacts DEF Strolls, Holding, Shared, Hydrating
<1>4. QED BY <1>2, <1>3 DEF Undo

(* A sign-in: what is called off is the listener's own hydration *)
LEMMA SkipFacts ==
  ASSUME TypeOK, NEW k \in Calls, Skip(k)
  PROVE  /\ MayRun(k) /\ KeepService /\ UNCHANGED <<auth, changed, lock, shown, state>>
         /\ projection' \in Projections /\ projection'.hydrated = projection.hydrated
         /\ projection'.session = projection.session
         /\ call[k].pc = "skip" /\ Alone(k) /\ call'[k].pc = "installing"
         /\ call'[k].session = call[k].session /\ call'[k].previous = auth.session
         /\ call'[k].who = call[k].who /\ call'[k].op = call[k].op
<1>1. MayRun(k) /\ KeepService /\ UNCHANGED <<auth, changed, lock, shown, state>>
      /\ call[k].pc = "skip" /\ projection' = [projection EXCEPT !.skip = TRUE]
      /\ call' = [call EXCEPT ![k] = [call[k] EXCEPT !.pc = "installing", !.previous = auth.session]]
  BY DEF Skip, KeepAuth, KeepShown, At
<1> DEFINE told == [call[k] EXCEPT !.pc = "installing", !.previous = auth.session]
<1>2. told \in Holdings /\ told.pc = "installing" /\ told.previous = auth.session
      /\ told.session = call[k].session /\ told.who = call[k].who /\ told.op = call[k].op
  BY CallFields, SharedFields, PositionFacts DEF Holdings, Positions
<1>3. call \in [Calls -> Holdings]
  BY DEF TypeOK
<1>4. Alone(k) /\ call'[k] = told
  BY <1>1, <1>2, <1>3 DEF Alone
<1>5. projection' \in Projections /\ projection'.hydrated = projection.hydrated
      /\ projection'.session = projection.session
  BY <1>1 DEF TypeOK, Projections
<1> HIDE DEF told
<1>6. QED BY <1>1, <1>2, <1>4, <1>5

(* The credentials are installed *)
Installs(k) ==
  /\ MayRun(k) /\ KeepService /\ UNCHANGED <<lock, projection, shown, state>>
  /\ call[k].pc = "installing" /\ call'[k].pc = "installed" /\ Alone(k) /\ Keeps(k)
  /\ call'[k].op = call[k].op
  /\ \E who \in Accounts : SignIn(who)

LEMMA InstallFacts ==
  ASSUME TypeOK, NEW k \in Calls, Install(k),
         call[k].who \in Accounts
  PROVE  Strolls(k) \/ Installs(k)
<1>1. MayRun(k) /\ KeepService /\ UNCHANGED <<lock, projection, shown, state>>
      /\ call[k].pc = "installing"
  BY DEF Install, KeepShown, At
<1>2. CASE SignIn(call[k].who) /\ Goto(k, "installed")
  BY <1>1, <1>2, GotoFacts, PositionFacts DEF Installs
<1>3. CASE Goto(k, "clear") /\ KeepAuth
  <2>1. Alone(k) /\ Keeps(k) /\ call'[k].pc = "clear"
    BY <1>3, GotoFacts, PositionFacts
  <2>2. call'[k].session = call[k].session /\ call'[k].previous = call[k].previous
    BY <2>1 DEF Keeps
  <2>3. QED BY <1>1, <1>3, <2>1, <2>2 DEF Strolls, Holding, KeepAuth, Shared, Hydrating
<1>4. QED BY <1>2, <1>3 DEF Install

LEMMA InstalledFacts ==
  ASSUME TypeOK, NEW k \in Calls, Installed(k)
  PROVE  /\ MayRun(k) /\ KeepService /\ UNCHANGED Shared
         /\ call[k].pc = "installed" /\ Alone(k) /\ call'[k].pc = "hydrate"
         /\ call'[k].session = auth.session /\ call'[k].previous = call[k].previous
         /\ call'[k].op = call[k].op
<1>1. MayRun(k) /\ KeepService /\ UNCHANGED Shared /\ call[k].pc = "installed"
      /\ call' = [call EXCEPT ![k] = [call[k] EXCEPT !.pc = "hydrate", !.session = auth.session]]
  BY DEF Installed, KeepAuth, KeepShown, Shared, At
<1> DEFINE told == [call[k] EXCEPT !.pc = "hydrate", !.session = auth.session]
<1>2. told \in Holdings /\ told.pc = "hydrate" /\ told.session = auth.session
      /\ told.previous = call[k].previous /\ told.op = call[k].op
  BY CallFields, SharedFields, PositionFacts DEF Holdings, Positions
<1>3. call \in [Calls -> Holdings]
  BY DEF TypeOK
<1>4. Alone(k) /\ call'[k] = told
  BY <1>1, <1>2, <1>3 DEF Alone
<1> HIDE DEF told
<1>5. QED BY <1>1, <1>2, <1>4

LEMMA HydrateFacts ==
  ASSUME TypeOK, NEW k \in Calls, Hydrate(k)
  PROVE  /\ MayRun(k) /\ KeepService /\ UNCHANGED <<auth, changed, lock>>
         /\ lock = Free /\ Current(call[k])
         /\ call[k].pc = "hydrate" /\ Alone(k) /\ Keeps(k) /\ call'[k].pc = "fetch"
         /\ call'[k].op = call[k].op
         /\ projection' \in Projections /\ projection'.hydrated = FALSE
         /\ projection'.session = auth.session
         /\ shown' \in Showns /\ state' \in States
         /\ call[k].previous # auth.session => Reset
         /\ call[k].previous = auth.session => shown' = shown /\ state' = state
<1>1. MayRun(k) /\ KeepService /\ UNCHANGED <<auth, changed, lock>>
      /\ lock = Free /\ Current(call[k]) /\ call[k].pc = "hydrate" /\ Goto(k, "fetch")
      /\ projection' = [projection EXCEPT !.session = call[k].session, !.hydrated = FALSE]
  BY DEF Hydrate, KeepAuth, TakeGuarded, At
<1>2. IF call[k].session # call[k].previous THEN Reset ELSE KeepShown
  BY DEF Hydrate
<1>3. call[k].session = auth.session
  BY <1>1 DEF Current
<1>4. projection' \in Projections /\ projection'.hydrated = FALSE
      /\ projection'.session = auth.session
  BY <1>1, <1>3, CallFields DEF TypeOK, Projections
<1>5. /\ shown' \in Showns /\ state' \in States
      /\ call[k].previous # auth.session => Reset
      /\ call[k].previous = auth.session => shown' = shown /\ state' = state
  BY <1>2, <1>3, ResetFacts DEF KeepShown, TypeOK, Showns, States
<1>6. Alone(k) /\ Keeps(k) /\ call'[k].pc = "fetch" /\ call'[k].op = call[k].op
  BY <1>1, GotoFacts, PositionFacts
<1>7. QED BY <1>1, <1>4, <1>5, <1>6

(* The lock is given back *)
Releases(k) ==
  /\ MayRun(k) /\ KeepService /\ lock' = Free
  /\ Alone(k) /\ call'[k].pc = "done" /\ call'[k].session = 0 /\ call'[k].previous = 0
  /\ projection' \in Projections /\ shown' \in Showns /\ state' \in States

LEMMA AppliedFacts ==
  ASSUME TypeOK, NEW k \in Calls, Applied(k)
  PROVE  /\ Releases(k) /\ call[k].pc = "applying" /\ UNCHANGED <<auth, changed, state>>
         /\ shown'.who = call[k].who /\ shown'.subscription = shown.subscription
         /\ shown'.heard = shown.heard /\ shown'.newest = shown.newest
         /\ projection'.session = projection.session
<1>1. MayRun(k) /\ KeepService /\ lock' = Free /\ UNCHANGED <<auth, changed>>
      /\ call[k].pc = "applying" /\ Show(call[k].who) /\ Done(k)
      /\ projection' = [projection EXCEPT !.hydrated = TRUE]
  BY DEF Applied, KeepAuth, At
<1>2. /\ shown' \in Showns /\ shown'.who = call[k].who /\ state' = state
      /\ shown'.subscription = shown.subscription /\ shown'.heard = shown.heard
      /\ shown'.newest = shown.newest
  BY <1>1, ShowFacts, CallFields
<1>3. state' \in States /\ projection' \in Projections
      /\ projection'.session = projection.session
  BY <1>1, <1>2 DEF TypeOK, States, Projections
<1>4. QED BY <1>1, <1>2, <1>3, DoneFacts DEF Releases

LEMMA ShownMeFacts ==
  ASSUME TypeOK, NEW k \in Calls, ShownMe(k)
  PROVE  /\ Releases(k) /\ call[k].pc = "showing" /\ UNCHANGED <<auth, changed>>
         /\ shown'.who = call[k].who /\ projection'.session = auth.session
         /\ Current(call[k]) => /\ state' = state /\ shown'.subscription = shown.subscription
                                /\ shown'.heard = shown.heard /\ shown'.newest = shown.newest
         /\ ~Current(call[k]) => /\ state'.last = 0 /\ shown'.subscription = 0
                                 /\ shown'.heard = 0 /\ shown'.newest = 0
<1>1. MayRun(k) /\ KeepService /\ lock' = Free /\ UNCHANGED <<auth, changed>>
      /\ call[k].pc = "showing" /\ Done(k) /\ ShowNow(call[k])
  BY DEF ShownMe, KeepAuth, At
<1>2. call[k].who \in Account
  BY CallFields
<1>3. QED BY <1>1, <1>2, ShowNowFacts, DoneFacts DEF Releases

LEMMA RollbackFacts ==
  ASSUME TypeOK, NEW k \in Calls, Rollback(k)
  PROVE  /\ Releases(k) /\ call[k].pc = "rollback" /\ SignOut /\ Reset
         /\ projection'.session = projection.session
<1>1. MayRun(k) /\ KeepService /\ lock' = Free /\ SignOut /\ Reset
      /\ call[k].pc = "rollback" /\ Done(k)
      /\ projection' = [projection EXCEPT !.hydrated = FALSE, !.skip = FALSE]
  BY DEF Rollback, At
<1>2. projection' \in Projections /\ projection'.session = projection.session
  BY <1>1 DEF TypeOK, Projections
<1>3. QED BY <1>1, <1>2, DoneFacts, ResetFacts DEF Releases

(* The projection of one who has left is cleared *)
LEMMA ClearFacts ==
  ASSUME TypeOK, NEW k \in Calls, Clear(k)
  PROVE  /\ MayRun(k) /\ KeepService /\ UNCHANGED <<auth, changed, lock>> /\ lock = Free
         /\ call[k].pc = "clear" /\ Alone(k) /\ call'[k].pc = "done"
         /\ call'[k].session = 0 /\ call'[k].previous = 0
         /\ ClearProjection
BY DoneFacts DEF Clear, At, KeepAuth

--------------------------------------------------------------------------------
(***************************************************************************)
(* The steps of the listener, and of the subscription.                     *)
(***************************************************************************)
LEMMA NoticeFacts ==
  ASSUME TypeOK, Notice
  PROVE  /\ changed /\ changed' = FALSE /\ UNCHANGED <<lock, projection, shown, state>>
         /\ ListenerSide /\ listener' \in Holdings
         /\ listener'.session = auth.session
         /\ listener'.pc = IF Authenticated THEN "in" ELSE "out"
<1>1. PICK pc \in {"in", "out"} :
        /\ pc = IF Authenticated THEN "in" ELSE "out"
        /\ listener' = [Idle EXCEPT !.pc = pc, !.session = auth.session]
  BY DEF Notice
<1>2. listener' \in Holdings /\ listener'.session = auth.session /\ listener'.pc = pc
  BY <1>1, SharedFields DEF Idle, Holdings, Awaiting, Account
<1>3. QED BY <1>1, <1>2 DEF Notice

LEMMA NoticeOutFacts ==
  ASSUME TypeOK, NoticeOut
  PROVE  /\ listener.pc = "out" /\ lock = Free /\ MayRun(Listener)
         /\ ClearProjection /\ listener' = Idle
         /\ UNCHANGED <<changed, lock>> /\ ListenerSide
BY DEF NoticeOut

LEMMA NoticeInFacts ==
  ASSUME TypeOK, NoticeIn
  PROVE  /\ listener.pc = "in" /\ lock = Free /\ MayRun(Listener)
         /\ UNCHANGED <<changed, lock>> /\ ListenerSide
         /\ projection' \in Projections /\ shown' \in Showns /\ state' \in States
         /\ listener' \in Holdings /\ listener'.pc \in {"idle", "fetch"}
         /\ listener'.session \in {0, listener.session}
         /\ \/ UNCHANGED <<projection, shown, state>>
            \/ /\ projection.session = auth.session /\ projection'.session = auth.session
               /\ projection'.hydrated = projection.hydrated /\ UNCHANGED <<shown, state>>
               /\ Current(listener)
            \/ /\ projection.session # auth.session /\ projection'.session = auth.session
               /\ projection'.hydrated = FALSE /\ Reset /\ Current(listener)
         /\ Current(listener) => projection'.session = auth.session
<1>1. /\ listener.pc = "in" /\ lock = Free /\ MayRun(Listener)
      /\ UNCHANGED <<changed, lock>> /\ ListenerSide
  BY DEF NoticeIn
<1>2. CASE ~Current(listener)
  <2>1. listener' = Idle /\ UNCHANGED <<projection, shown, state>>
    BY <1>2 DEF NoticeIn, KeepShown
  <2>2. QED BY <1>1, <1>2, <2>1, IdleFacts DEF TypeOK, Projections, Showns, States
<1>3. CASE Current(listener)
  <2>1. listener.session = auth.session
    BY <1>3 DEF Current
  <2>2. /\ IF projection.session # listener.session THEN Reset ELSE KeepShown
        /\ projection' = [hydrated |-> projection.hydrated /\ ~(projection.session # listener.session),
                          skip |-> FALSE, session |-> listener.session]
        /\ listener' = Idle \/ listener' = [listener EXCEPT !.pc = "fetch"]
    BY <1>3 DEF NoticeIn
  <2>3. [listener EXCEPT !.pc = "fetch"] \in Holdings
        /\ [listener EXCEPT !.pc = "fetch"].pc = "fetch"
        /\ [listener EXCEPT !.pc = "fetch"].session = listener.session
    BY ListenerFields, PositionFacts DEF TypeOK, Holdings, Positions
  <2>4. /\ listener' \in Holdings /\ listener'.pc \in {"idle", "fetch"}
        /\ listener'.session \in {0, listener.session}
    BY <2>2, <2>3, IdleFacts
  <2>5. projection' \in Projections /\ projection'.session = auth.session
    BY <2>1, <2>2, SharedFields DEF Projections
  <2>6. CASE projection.session = auth.session
    <3>1. UNCHANGED <<shown, state>> /\ projection'.hydrated = projection.hydrated
      BY <2>1, <2>2, <2>6, SharedFields DEF KeepShown
    <3>2. QED BY <1>1, <1>3, <2>4, <2>5, <2>6, <3>1 DEF TypeOK, Showns, States
  <2>7. CASE projection.session # auth.session
    <3>1. Reset /\ projection'.hydrated = FALSE
      BY <2>1, <2>2, <2>7
    <3>2. QED BY <1>1, <1>3, <2>4, <2>5, <2>7, <3>1, ResetFacts
  <2>8. QED BY <2>6, <2>7
<1>4. QED BY <1>2, <1>3

LEMMA NoticeFetchedFacts ==
  ASSUME TypeOK, NoticeFetched
  PROVE  /\ UNCHANGED <<changed, lock, projection, shown, state>> /\ ListenerSide
         /\ listener.pc = "fetch" /\ listener' \in Holdings
         /\ listener'.session \in {0, listener.session}
         /\ \/ listener'.pc = "idle"
            \/ /\ listener'.pc = "show" /\ listener'.who = auth.who
               /\ Current(listener) /\ Authenticated
<1>1. /\ UNCHANGED <<changed, lock, projection, shown, state>> /\ ListenerSide
      /\ listener.pc = "fetch"
  BY DEF NoticeFetched
<1>2. CASE /\ Current(listener) /\ Authenticated
           /\ listener' = [listener EXCEPT !.pc = "show", !.who = auth.who]
  <2>1. listener' \in Holdings /\ listener'.pc = "show" /\ listener'.who = auth.who
        /\ listener'.session = listener.session
    BY <1>2, ListenerFields, SharedFields, PositionFacts DEF TypeOK, Holdings, Positions
  <2>2. QED BY <1>1, <1>2, <2>1
<1>3. CASE listener' = Idle
  BY <1>1, <1>3, IdleFacts
<1>4. QED BY <1>2, <1>3 DEF NoticeFetched

LEMMA NoticeShowFacts ==
  ASSUME TypeOK, NoticeShow
  PROVE  /\ UNCHANGED <<changed, projection, shown, state>> /\ ListenerSide
         /\ listener.pc = "show" /\ listener' \in Holdings
         /\ \/ listener' = Idle /\ lock' = lock
            \/ /\ Current(listener) /\ lock = Free /\ lock' = Listener
               /\ listener'.pc = "showing" /\ listener'.session = listener.session
               /\ listener'.who = listener.who
<1>1. /\ UNCHANGED <<changed, projection, shown, state>> /\ ListenerSide /\ listener.pc = "show"
  BY DEF NoticeShow
<1>2. CASE listener' = Idle /\ lock' = lock
  BY <1>1, <1>2, IdleFacts
<1>3. CASE /\ Current(listener) /\ lock = Free
           /\ lock' = Listener /\ listener' = [listener EXCEPT !.pc = "showing"]
  <2>1. listener' \in Holdings /\ listener'.pc = "showing" /\ listener'.session = listener.session
        /\ listener'.who = listener.who
    BY <1>3, ListenerFields, PositionFacts DEF TypeOK, Holdings, Positions
  <2>2. QED BY <1>1, <1>3, <2>1
<1>4. QED BY <1>2, <1>3 DEF NoticeShow

LEMMA NoticeShownFacts ==
  ASSUME TypeOK, NoticeShown
  PROVE  /\ UNCHANGED changed /\ ListenerSide /\ lock' = Free
         /\ listener.pc = "showing" /\ listener' = Idle /\ MayRun(Listener)
         /\ projection' \in Projections /\ shown' \in Showns /\ state' \in States
         /\ \/ ~Authenticated /\ UNCHANGED <<projection, shown, state>>
            \/ /\ projection'.session = auth.session /\ shown'.who = listener.who
               /\ Current(listener) =>
                    /\ state' = state /\ shown'.subscription = shown.subscription
                    /\ shown'.heard = shown.heard /\ shown'.newest = shown.newest
               /\ ~Current(listener) =>
                    /\ state'.last = 0 /\ shown'.subscription = 0
                    /\ shown'.heard = 0 /\ shown'.newest = 0
<1>1. /\ UNCHANGED changed /\ ListenerSide /\ lock' = Free
      /\ listener.pc = "showing" /\ listener' = Idle /\ MayRun(Listener)
  BY DEF NoticeShown
<1>2. CASE ShowNow(listener)
  <2>1. listener.who \in Account
    BY ListenerFields
  <2>2. QED BY <1>1, <1>2, <2>1, ShowNowFacts
<1>3. CASE ~Authenticated /\ UNCHANGED projection /\ KeepShown
  BY <1>1, <1>3 DEF KeepShown, TypeOK, Projections, Showns, States
<1>4. QED BY <1>2, <1>3 DEF NoticeShown

Events == [session : Nat, version : Nat, states : Nat]

LEMMA EntitlementFacts ==
  ASSUME TypeOK, Entitlement
  PROVE  /\ UNCHANGED <<auth, changed, lock, projection, shown, state, call, listener>>
         /\ UNCHANGED <<runtime, raced>>
         /\ version' = version + 1 /\ version' \in Nat /\ events' \in Seq(Events)
         /\ \A i \in DOMAIN events' :
              (i \in DOMAIN events /\ events'[i] = events[i]) \/ events'[i].version = version'
<1>1. /\ UNCHANGED <<auth, changed, lock, projection, shown, state, call, listener>>
      /\ UNCHANGED <<runtime, raced>>
      /\ version' = version + 1
  BY DEF Entitlement, KeepAuth, KeepShown
<1>2. PICK states \in {0, version'} :
        events' = Append(events, [session |-> auth.session, version |-> version', states |-> states])
  BY DEF Entitlement
<1>3. version' \in Nat /\ events \in Seq(Events)
  <2>1. version \in Nat /\ events \in Seq(Events)
    BY DEF TypeOK, Events
  <2>2. QED BY <1>1, <2>1
<1>4. PICK e \in Events : e.version = version' /\ events' = Append(events, e)
  <2> DEFINE e == [session |-> auth.session, version |-> version', states |-> states]
  <2>1. states \in Nat /\ auth.session \in Nat
    BY <1>3, SharedFields
  <2>2. e \in Events /\ e.version = version'
    BY <1>3, <2>1 DEF Events
  <2>3. QED BY <1>2, <2>2
<1>5. events' \in Seq(Events)
      /\ \A i \in DOMAIN events' : (i \in DOMAIN events /\ events'[i] = events[i]) \/ events'[i] = e
  BY <1>3, <1>4
<1>6. QED BY <1>1, <1>3, <1>4, <1>5

(* What is applied of a subscription *)
Applies(source, read, states) ==
  /\ shown' \in Showns /\ state' \in States
  /\ shown'.who = shown.who /\ shown'.subscription = read
  /\ state'.last = (IF states = 0 THEN state.last ELSE states)
  /\ state'.writes = (IF source = "socket" THEN state.writes + 1 ELSE state.writes)
  /\ shown'.heard = (IF source = "socket" THEN read ELSE shown.heard)
  /\ shown'.newest = (IF states = 0 THEN shown.newest ELSE states)

LEMMA ApplyFacts ==
  ASSUME TypeOK, NEW source \in {"rest", "socket"}, NEW read \in Nat, NEW states \in Nat,
         NEW writes, ApplySubscription(source, read, states, writes)
  PROVE  \/ UNCHANGED <<shown, state>>
         \/ ~Older(source, states, writes) /\ Applies(source, read, states)
<1>1. CASE Older(source, states, writes)
  BY <1>1 DEF ApplySubscription, KeepShown
<1>2. CASE ~Older(source, states, writes)
  <2>1. state' = [last |-> IF states = 0 THEN state.last ELSE states,
                  writes |-> IF source = "socket" THEN state.writes + 1 ELSE state.writes]
    BY <1>2 DEF ApplySubscription
  <2>2. shown' = [shown EXCEPT !.subscription = read,
                               !.heard = IF source = "socket" THEN read ELSE shown.heard,
                               !.newest = IF states = 0 THEN shown.newest ELSE states]
    BY <1>2 DEF ApplySubscription
  <2>3. state' \in States
    BY <2>1, SharedFields DEF States
  <2>4. PICK heard \in Nat, newest \in Nat :
          /\ heard = IF source = "socket" THEN read ELSE shown.heard
          /\ newest = IF states = 0 THEN shown.newest ELSE states
          /\ shown' = [shown EXCEPT !.subscription = read, !.heard = heard, !.newest = newest]
    BY <2>2, SharedFields
  <2>5. shown' \in Showns /\ shown'.who = shown.who /\ shown'.subscription = read
        /\ shown'.heard = heard /\ shown'.newest = newest
    BY <2>4 DEF TypeOK, Showns
  <2>6. QED BY <1>2, <2>1, <2>3, <2>4, <2>5 DEF Applies
<1>3. QED BY <1>1, <1>2

LEMMA EntitledFacts ==
  ASSUME TypeOK, Entitled
  PROVE  /\ UNCHANGED <<auth, changed, lock, projection, call, listener>>
         /\ UNCHANGED <<runtime, version, raced>>
         /\ events # <<>> /\ events' # events /\ events' \in Seq(Events)
         /\ \A i \in DOMAIN events' : \E j \in DOMAIN events : events'[i] = events[j]
         /\ \/ UNCHANGED <<shown, state>>
            \/ \E i \in DOMAIN events :
                 /\ Applies("socket", events[i].version, events[i].states)
                 /\ ~Older("socket", events[i].states, 0)
<1>1. /\ UNCHANGED <<auth, changed, lock, projection, call, listener>>
      /\ UNCHANGED <<runtime, version, raced>>
      /\ events # <<>> /\ events' = Tail(events)
  BY DEF Entitled, KeepAuth
<1>2. events \in Seq(Events) /\ 1 \in DOMAIN events /\ Head(events) = events[1]
      /\ events[1] \in Events
  <2>1. events \in Seq(Events)
    BY DEF TypeOK, Events
  <2>2. QED BY <1>1, <2>1
<1>3. /\ events' # events /\ events' \in Seq(Events)
      /\ \A i \in DOMAIN events' : i + 1 \in DOMAIN events /\ events'[i] = events[i + 1]
  BY <1>1, <1>2
<1>4. \/ UNCHANGED <<shown, state>>
      \/ ApplySubscription("socket", events[1].version, events[1].states, 0)
  BY <1>2 DEF Entitled, KeepShown
<1>5. events[1].version \in Nat /\ events[1].states \in Nat
  BY <1>2 DEF Events
<1>6. \/ UNCHANGED <<shown, state>>
      \/ /\ Applies("socket", events[1].version, events[1].states)
         /\ ~Older("socket", events[1].states, 0)
  BY <1>4, <1>5, ApplyFacts
<1>7. QED BY <1>1, <1>2, <1>3, <1>6

LEMMA RefreshedFacts ==
  ASSUME TypeOK, NEW k \in Calls, Refreshed(k)
  PROVE  /\ MayRun(k) /\ KeepService /\ UNCHANGED <<auth, changed, lock, projection>>
         /\ call[k].pc = "refreshing" /\ Alone(k) /\ call'[k].pc = "done"
         /\ call'[k].session = 0 /\ call'[k].previous = 0
         /\ \/ UNCHANGED <<shown, state>>
            \/ /\ Applies("rest", call[k].read, call[k].states)
               /\ ~Older("rest", call[k].states, call[k].writes)
<1>1. MayRun(k) /\ KeepService /\ UNCHANGED <<auth, changed, lock, projection>>
      /\ call[k].pc = "refreshing" /\ Done(k)
      /\ ApplySubscription("rest", call[k].read, call[k].states, call[k].writes)
  BY DEF Refreshed, At, KeepAuth
<1>2. QED BY <1>1, DoneFacts, ApplyFacts, CallFields

(* A renewal begins a session if it names another wallet: of the account it raced with   *)
(* nobody knows                                                                           *)
LEMMA RenewFacts ==
  ASSUME TypeOK, ConstantsAreSound, Renew
  PROVE  /\ MayRun(Free) /\ Authenticated /\ changed' = TRUE /\ raced' \in BOOLEAN
         /\ UNCHANGED <<lock, projection, call, listener, shown, state>>
         /\ UNCHANGED <<runtime, version, events>>
         /\ auth' \in Auths /\ auth'.who # Nobody /\ (raced => raced')
         /\ \/ auth' = auth /\ raced' = raced
            \/ /\ auth'.session = auth.session + 1
               /\ (\E k \in Calls : call[k].pc = "showing") \/ listener.pc = "showing" => raced'
<1>1. /\ MayRun(Free) /\ Authenticated
      /\ UNCHANGED <<lock, projection, call, listener, shown, state>>
      /\ UNCHANGED <<runtime, version, events>>
  BY DEF Renew, Elsewhere, KeepShown
<1>2. PICK who \in Accounts :
        /\ SignIn(who)
        /\ raced' = (raced \/ (who # auth.who
                               /\ "showing" \in {call[k].pc : k \in Calls} \cup {listener.pc}))
  BY DEF Renew
<1>3. /\ auth' \in Auths /\ changed' = TRUE /\ auth'.who = who /\ who # Nobody
      /\ \/ auth'.session = auth.session /\ auth.who = who
         \/ auth'.session = auth.session + 1 /\ auth.who # who
  BY <1>2, SignInFacts
<1>4. raced \in BOOLEAN
  BY DEF TypeOK
<1>5. CASE who = auth.who
  <2>1. auth' = auth
    BY <1>2, <1>5, SharedFields DEF SignIn
  <2>2. raced' = raced
    BY <1>2, <1>4, <1>5, Zenon
  <2>3. QED BY <1>1, <1>3, <1>4, <2>1, <2>2
<1>6. CASE who # auth.who
  <2>1. raced' = (raced \/ "showing" \in {call[k].pc : k \in Calls} \cup {listener.pc})
    BY <1>2, <1>6, Zenon
  <2>2. (\E k \in Calls : call[k].pc = "showing") \/ listener.pc = "showing" => raced'
    BY <2>1
  <2>3. raced' \in BOOLEAN /\ (raced => raced')
    BY <2>1
  <2>4. QED BY <1>1, <1>3, <1>6, <2>2, <2>3
<1>7. QED BY <1>5, <1>6

--------------------------------------------------------------------------------
(***************************************************************************)
(* Types.                                                                  *)
(***************************************************************************)
(* Whoever signs in has an account *)
Named ==
  \A k \in Calls :
    /\ call[k].pc \in {"nonce", "skip", "installing"} => call[k].who \in Accounts
    /\ call[k].pc \in {"nonce", "skip", "installing", "installed", "hydrate"} => call[k].op # "me"

Types == ConstantsAreSound /\ TypeOK /\ Named

(* TypeOK part by part *)
LEMMA TypesByParts ==
  TypeOK <=> /\ auth \in Auths /\ changed \in BOOLEAN /\ lock \in Calls \cup {Free, Listener}
             /\ projection \in Projections /\ shown \in Showns /\ state \in States
             /\ call \in [Calls -> Holdings] /\ listener \in Holdings
             /\ runtime \in Runtimes /\ raced \in BOOLEAN
             /\ version \in Nat /\ events \in Seq(Events)
BY DEF TypeOK, Auths, Projections, Showns, States, Events

LEMMA TypesByPartsNext ==
  TypeOK' <=> /\ auth' \in Auths /\ changed' \in BOOLEAN /\ lock' \in Calls \cup {Free, Listener}
              /\ projection' \in Projections /\ shown' \in Showns /\ state' \in States
              /\ call' \in [Calls -> Holdings] /\ listener' \in Holdings
              /\ runtime' \in Runtimes /\ raced' \in BOOLEAN
              /\ version' \in Nat /\ events' \in Seq(Events)
BY DEF TypeOK, Auths, Projections, Showns, States, Events

LEMMA InitTypes == ConstantsAreSound /\ Init => Types
<1> SUFFICES ASSUME ConstantsAreSound, Init PROVE Types
  OBVIOUS
<1>1. /\ changed = FALSE /\ lock = Free /\ state = NoState /\ call = [k \in Calls |-> Idle]
      /\ listener = Idle /\ runtime \in Runtimes /\ raced = FALSE /\ version = 1
      /\ events = <<>>
  BY DEF Init
<1>2. auth \in Auths /\ projection \in Projections /\ shown \in Showns
  <2>1. PICK who \in Account :
          /\ auth = [session |-> 1, who |-> who]
          /\ projection = [hydrated |-> who # Nobody, skip |-> FALSE,
                           session |-> IF who = Nobody THEN 0 ELSE 1]
          /\ shown = [who |-> who, subscription |-> 0, heard |-> 0, newest |-> 0]
    BY DEF Init
  <2>2. (who # Nobody) \in BOOLEAN
    OBVIOUS
  <2>3. QED BY <2>1, <2>2 DEF Auths, Projections, Showns
<1>3. state \in States /\ events \in Seq(Events) /\ version \in Nat
  BY <1>1 DEF States, NoState
<1>4. TypeOK
  BY <1>1, <1>2, <1>3, IdleFacts, TypesByParts
<1>5. Named
  BY <1>1, IdleFacts DEF Named
<1>6. QED BY <1>4, <1>5 DEF Types

(* Which steps there are: a call's, the listener's, and those of the subscription *)
LEMMA StepKinds ==
  ASSUME Types, Next
  PROVE  \/ \E k \in Calls :
              \/ Strolls(k) \/ Leaves(k) \/ Takes(k) \/ Skip(k) \/ Installs(k) \/ Installed(k)
              \/ Hydrate(k) \/ Applied(k) \/ ShownMe(k) \/ Rollback(k) \/ Clear(k) \/ Refreshed(k)
         \/ Notice \/ NoticeOut \/ NoticeIn \/ NoticeFetched \/ NoticeShow \/ NoticeShown
         \/ Renew \/ Entitlement \/ Entitled
<1>1. CASE Listen \/ Renew \/ Entitlement \/ Entitled
  BY <1>1 DEF Listen
<1>2. ASSUME NEW k \in Calls, Start(k) \/ CallStep(k)
      PROVE  \/ Strolls(k) \/ Leaves(k) \/ Takes(k) \/ Skip(k) \/ Installs(k) \/ Installed(k)
             \/ Hydrate(k) \/ Applied(k) \/ ShownMe(k) \/ Rollback(k) \/ Clear(k) \/ Refreshed(k)
  <2>1. Install(k) => call[k].who \in Accounts
    BY DEF Install, At, Types, Named
  <2>2. QED
    BY <1>2, <2>1, StartFacts, AnswerFacts, FetchedFacts, FailFacts, LeftFacts, ClearAuthFacts,
       ReadFacts, AnsweredFacts, TakeFacts, UndoFacts, InstallFacts DEF CallStep, Types
<1>3. QED BY <1>1, <1>2 DEF Next

(* A step of a call leaves the rest of its side alone *)
LEMMA CallTypes ==
  ASSUME Types, NEW k \in Calls, KeepService, Alone(k),
         auth' \in Auths, changed' \in BOOLEAN, lock' \in Calls \cup {Free, Listener},
         projection' \in Projections, shown' \in Showns, state' \in States,
         call'[k].pc \in {"nonce", "skip", "installing"} => call'[k].who \in Accounts,
         call'[k].pc \in {"nonce", "skip", "installing", "installed", "hydrate"}
           => call'[k].op # "me"
  PROVE  Types'
<1>1. TypeOK'
  BY TypesByParts, TypesByPartsNext DEF Types, KeepService, Alone
<1>2. Named'
  BY DEF Types, Named, Alone
<1>3. QED BY <1>1, <1>2 DEF Types, ConstantsAreSound

LEMMA OtherTypes ==
  ASSUME Types, UNCHANGED <<call, runtime>>, auth' \in Auths, changed' \in BOOLEAN,
         lock' \in Calls \cup {Free, Listener}, raced' \in BOOLEAN,
         projection' \in Projections, shown' \in Showns, state' \in States,
         listener' \in Holdings, version' \in Nat, events' \in Seq(Events)
  PROVE  Types'
<1>1. TypeOK'
  BY TypesByParts, TypesByPartsNext DEF Types
<1>2. Named'
  BY DEF Types, Named
<1>3. QED BY <1>1, <1>2 DEF Types, ConstantsAreSound

LEMMA StepTypes == Types /\ [Next]_vars => Types'
<1> SUFFICES ASSUME Types, [Next]_vars PROVE Types'
  OBVIOUS
<1>1. TypeOK /\ ConstantsAreSound
  BY DEF Types
<1>2. /\ auth \in Auths /\ changed \in BOOLEAN /\ lock \in Calls \cup {Free, Listener}
      /\ projection \in Projections /\ shown \in Showns /\ state \in States
      /\ listener \in Holdings /\ version \in Nat /\ events \in Seq(Events) /\ raced \in BOOLEAN
  BY <1>1, TypesByParts
<1>3. CASE UNCHANGED vars
  BY <1>2, <1>3, OtherTypes DEF vars
<1>4. ASSUME NEW k \in Calls, Strolls(k) \/ Takes(k)
      PROVE  Types'
  <2>1. call'[k].pc \in {"nonce", "skip", "installing"} => call'[k].who \in Accounts
    BY <1>4 DEF Strolls, Takes, Types, Named
  <2>2. call'[k].pc \in {"nonce", "skip", "installing", "installed", "hydrate"}
          => call'[k].op # "me"
    BY <1>4 DEF Strolls, Takes, Types, Named
  <2>3. QED BY <1>2, <1>4, <2>1, <2>2, CallTypes DEF Strolls, Takes, Shared
<1>5. ASSUME NEW k \in Calls, Leaves(k) \/ Rollback(k)
      PROVE  Types'
  BY <1>1, <1>2, <1>5, SignOutFacts, RollbackFacts, CallTypes DEF Leaves, Releases
<1>6. ASSUME NEW k \in Calls, Skip(k) \/ Installed(k)
      PROVE  Types'
  <2>1. call'[k].pc \in {"nonce", "skip", "installing"} => call'[k].who \in Accounts
    BY <1>1, <1>6, SkipFacts, InstalledFacts DEF Types, Named
  <2>2. call'[k].op # "me"
    BY <1>1, <1>6, SkipFacts, InstalledFacts DEF Types, Named
  <2>3. QED BY <1>1, <1>2, <1>6, <2>1, <2>2, SkipFacts, InstalledFacts, CallTypes DEF Shared
<1>7. ASSUME NEW k \in Calls, Installs(k)
      PROVE  Types'
  <2>1. call'[k].pc = "installed" /\ call'[k].op # "me"
    BY <1>7 DEF Installs, Types, Named
  <2>2. QED BY <1>1, <1>2, <1>7, <2>1, SignInFacts, CallTypes DEF Installs
<1>8. ASSUME NEW k \in Calls, Hydrate(k) \/ Applied(k) \/ ShownMe(k)
      PROVE  Types'
  BY <1>1, <1>2, <1>8, HydrateFacts, AppliedFacts, ShownMeFacts, CallTypes DEF Releases
<1>9. ASSUME NEW k \in Calls, Clear(k) \/ Refreshed(k)
      PROVE  Types'
  BY <1>1, <1>2, <1>9, ClearFacts, ClearedFacts, RefreshedFacts, CallTypes DEF Applies
<1>10. CASE Notice \/ NoticeOut \/ NoticeIn
  BY <1>1, <1>2, <1>10, NoticeFacts, NoticeOutFacts, ClearedFacts, NoticeInFacts, IdleFacts,
     OtherTypes DEF ListenerSide
<1>11. CASE NoticeFetched \/ NoticeShow \/ NoticeShown
  BY <1>1, <1>2, <1>11, NoticeFetchedFacts, NoticeShowFacts, NoticeShownFacts, IdleFacts,
     OtherTypes DEF ListenerSide
<1>12. CASE Renew \/ Entitlement \/ Entitled
  BY <1>1, <1>2, <1>12, RenewFacts, EntitlementFacts, EntitledFacts, OtherTypes DEF Applies
<1>13. QED BY <1>3, <1>4, <1>5, <1>6, <1>7, <1>8, <1>9, <1>10, <1>11, <1>12, StepKinds

LEMMA AlwaysTypes == ConstantsAreSound /\ Spec => []Types
BY InitTypes, StepTypes, PTL DEF Spec

(* The types of the shared state and of every task, whatever runs them. *)
THEOREM TypesHold ==
  ASSUME ConstantsAreSound
  PROVE  Spec => []TypeOK
<1>1. Types => TypeOK
  BY DEF Types
<1>2. QED BY <1>1, AlwaysTypes, PTL

--------------------------------------------------------------------------------
(***************************************************************************)
(* The account shown.  What is shown may be wrong for a while, but never   *)
(* unless someone is about to put it right: who signed in and has not yet  *)
(* reset what is shown, or hydrates it; the listener, which a sign-out or  *)
(* a renewal that names another wallet has woken.                          *)
(***************************************************************************)
Resetting(k) ==
  \/ call[k].pc = "installed" /\ call[k].previous # auth.session
  \/ /\ call[k].pc = "hydrate" /\ call[k].session = auth.session
     /\ call[k].previous # auth.session
Notified ==
  /\ projection.session # auth.session
  /\ changed \/ (listener.pc = "in" /\ Current(listener))

(* It will be put right after whoever holds the lock now *)
Strict == IF Authenticated THEN \E k \in Calls : Resetting(k) ELSE changed \/ listener.pc = "out"
Pending == Strict \/ (Authenticated /\ (Notified \/ \E k \in Calls : Hydrating(k)))

LockHeld ==
  /\ \A k \in Calls : call[k].pc \in Holding <=> lock = k
  /\ listener.pc = "showing" <=> lock = Listener

(* An account that was fetched is the one signed in, as long as its session lasts *)
KnowsOwn ==
  /\ \A k \in Calls : call[k].pc \in {"apply", "applying", "show", "showing"} /\ Current(call[k]) =>
       Authenticated /\ call[k].who = auth.who
  /\ listener.pc \in {"show", "showing"} /\ Current(listener) =>
       Authenticated /\ listener.who = auth.who

Past ==
  /\ \A k \in Calls : call[k].session <= auth.session /\ call[k].previous <= auth.session
  /\ listener.session <= auth.session /\ projection.session <= auth.session

(* Neither is what somebody is about to show wrong, nor what is shown.  Who reads the     *)
(* session again claims the projection for it: the listener would then find nothing to do *)
Late ==
  \/ \E k \in Calls : call[k].pc = "showing" /\ ~Current(call[k])
  \/ listener.pc = "showing" /\ ~Current(listener)
Due ==
  ~raced =>
    /\ Late => Strict
    /\ \A k \in Calls : call[k].pc = "applying" /\ ~Current(call[k]) => Pending
    /\ ~Fits => Pending

Showing == LockHeld /\ KnowsOwn /\ Past /\ Due

LEMMA LockNames ==
  ASSUME Types
  PROVE  Free # Listener /\ Free \notin Calls /\ Listener \notin Calls
BY DEF Types, ConstantsAreSound, Free, Listener

LEMMA InitShowing == ConstantsAreSound /\ Init => Showing
<1> SUFFICES ASSUME ConstantsAreSound, Init PROVE Showing
  OBVIOUS
<1>1. call = [k \in Calls |-> Idle] /\ listener = Idle /\ lock = Free
  BY DEF Init
<1>2. \A k \in Calls : call[k] = Idle
  BY <1>1
<1>3. PICK who \in Account :
        /\ auth = [session |-> 1, who |-> who]
        /\ projection = [hydrated |-> who # Nobody, skip |-> FALSE,
                         session |-> IF who = Nobody THEN 0 ELSE 1]
        /\ shown = [who |-> who, subscription |-> 0, heard |-> 0, newest |-> 0]
  BY DEF Init
<1>4. LockHeld
  BY <1>1, <1>2, IdleFacts DEF LockHeld, Holding, ConstantsAreSound, Free, Listener
<1>5. KnowsOwn
  BY <1>1, <1>2, IdleFacts DEF KnowsOwn
<1>6. Past
  <2>1. projection.session \in {0, 1} /\ auth.session = 1
    BY <1>3
  <2>2. QED BY <1>1, <1>2, <2>1, IdleFacts DEF Past
<1>7. Fits
  BY <1>3 DEF Fits, Authenticated
<1>8. Due
  BY <1>1, <1>2, <1>7, IdleFacts DEF Due, Late
<1>9. QED BY <1>4, <1>5, <1>6, <1>8 DEF Showing

(* A step of one call that leaves the account signed in *)
LEMMA CallShowing ==
  ASSUME Types, Showing, NEW k \in Calls, Alone(k), listener' = listener,
         auth' = auth,
         call'[k].pc \in Holding <=> lock' = k,
         lock' \in {lock, k, Free}, lock = Free \/ lock = k \/ lock' = lock,
         call'[k].session <= auth.session, call'[k].previous <= auth.session,
         projection'.session <= auth.session,
         call'[k].pc \in {"apply", "applying", "show", "showing"} /\ Current(call[k])'
           => Authenticated /\ call'[k].who = auth.who
  PROVE  LockHeld' /\ KnowsOwn' /\ Past'
<1>1. ASSUME NEW j \in Calls, j # k
      PROVE  call'[j] = call[j]
  BY <1>1 DEF Alone
<1>2. LockHeld'
  <2>1. ASSUME NEW j \in Calls, j # k
        PROVE  call'[j].pc \in Holding <=> lock' = j
    <3>1. call[j].pc \in Holding <=> lock = j
      BY DEF Showing, LockHeld
    <3>2. lock' = j <=> lock = j
      BY <2>1, LockNames
    <3>3. QED BY <1>1, <2>1, <3>1, <3>2
  <2>2. lock' = Listener <=> lock = Listener
    BY LockNames
  <2>3. QED BY <2>1, <2>2 DEF LockHeld, Showing
<1>3. KnowsOwn'
  BY <1>1 DEF Showing, KnowsOwn, Current, Authenticated
<1>4. Past'
  BY <1>1 DEF Showing, Past
<1>5. QED BY <1>2, <1>3, <1>4

(* While the lock is free, nobody is about to show anything; who holds it is alone *)
LEMMA FreeLock ==
  ASSUME Types, Showing, lock = Free
  PROVE  (\A k \in Calls : call[k].pc \notin Holding) /\ listener.pc # "showing"
BY LockNames DEF Showing, LockHeld

LEMMA HolderAlone ==
  ASSUME Types, Showing, NEW k \in Calls, call[k].pc \in Holding
  PROVE  /\ lock = k /\ \A j \in Calls : j # k => call[j].pc \notin Holding
         /\ listener.pc # "showing"
BY LockNames DEF Showing, LockHeld

LEMMA NobodyDue ==
  ASSUME (\A k \in Calls : call'[k].pc \notin {"applying", "showing"}), listener'.pc # "showing",
         raced' \/ Fits' \/ Pending'
  PROVE  Due'
BY DEF Due, Late

(* Whoever puts it right still will *)
LEMMA StrictStays ==
  ASSUME NEW k \in Calls, Alone(k), auth' = auth, changed' = changed, listener' = listener,
         Resetting(k) => Resetting(k)', Strict
  PROVE  Strict'
<1>1. CASE Authenticated
  <2>1. PICK j \in Calls : Resetting(j)
    BY <1>1 DEF Strict
  <2>2. Resetting(j)'
    BY <2>1 DEF Alone, Resetting
  <2>3. QED BY <1>1, <2>2 DEF Strict, Authenticated
<1>2. CASE ~Authenticated
  BY <1>2 DEF Strict, Authenticated
<1>3. QED BY <1>1, <1>2

LEMMA PendingStays ==
  ASSUME NEW k \in Calls, Alone(k), auth' = auth, changed' = changed, listener' = listener,
         projection'.session = projection.session,
         Resetting(k) => Resetting(k)', Hydrating(k) => Hydrating(k)', Pending
  PROVE  Pending'
<1>1. CASE Strict
  BY <1>1, StrictStays DEF Pending
<1>2. CASE Authenticated /\ Notified
  BY <1>2 DEF Pending, Notified, Authenticated, Current
<1>3. ASSUME Authenticated, NEW j \in Calls, Hydrating(j)
      PROVE  Pending'
  <2>1. Hydrating(j)'
    BY <1>3 DEF Alone, Hydrating, Current
  <2>2. QED BY <1>3, <2>1 DEF Pending, Authenticated
<1>4. QED BY <1>1, <1>2, <1>3 DEF Pending

(* A step of one call that changes neither the account nor what is shown of it *)
LEMMA CallDue ==
  ASSUME Types, Showing, NEW k \in Calls, Alone(k), KeepService, auth' = auth,
         changed' = changed, projection'.session = projection.session,
         projection'.hydrated = projection.hydrated, shown'.who = shown.who,
         Resetting(k) => Resetting(k)', Hydrating(k) => Hydrating(k)',
         call'[k].pc \in {"applying", "showing"} => Current(call[k])'
  PROVE  Due'
<1>1. listener' = listener /\ raced' = raced
  BY DEF KeepService
<1>2. (Strict => Strict') /\ (Pending => Pending')
  BY <1>1, StrictStays, PendingStays
<1>3. Fits' <=> Fits
  BY DEF Fits, Authenticated
<1>4. ASSUME NEW j \in Calls, call'[j].pc \in {"applying", "showing"}, ~Current(call[j])'
      PROVE  call[j].pc = call'[j].pc /\ ~Current(call[j])
  <2>1. j # k
    BY <1>4
  <2>2. call'[j] = call[j]
    BY <2>1 DEF Alone
  <2>3. QED BY <1>4, <2>2 DEF Current
<1>5. Late' => Late
  BY <1>1, <1>4 DEF Late, Current
<1>6. QED BY <1>1, <1>2, <1>3, <1>4, <1>5 DEF Due, Showing

LEMMA StrollsShowing ==
  ASSUME Types, Showing, NEW k \in Calls, Strolls(k)
  PROVE  Showing'
<1>1. /\ Alone(k) /\ KeepService /\ listener' = listener /\ UNCHANGED Shared
      /\ call[k].pc \notin Holding \cup {"installed"} /\ call'[k].pc \notin Holding
      /\ call[k].pc = "hydrate" => ~Current(call[k])
      /\ Hydrating(k) => Hydrating(k)'
  BY DEF Strolls, KeepService
<1>2. lock # k
  BY <1>1 DEF Showing, LockHeld
<1>3. call'[k].session <= auth.session /\ call'[k].previous <= auth.session
      /\ projection'.session <= auth.session
  BY SharedFields DEF Strolls, Showing, Past, Types, Shared
<1>4. call'[k].pc \in {"apply", "applying", "show", "showing"}
        => Authenticated /\ call'[k].who = auth.who
  BY <1>1 DEF Strolls, Holding
<1>5. LockHeld' /\ KnowsOwn' /\ Past'
  BY <1>1, <1>2, <1>3, <1>4, CallShowing DEF Shared
<1>6. ~Resetting(k)
  BY <1>1 DEF Resetting, Current
<1>7. Due'
  BY <1>1, <1>6, CallDue DEF Shared, Holding
<1>8. QED BY <1>5, <1>7 DEF Showing

LEMMA TakesShowing ==
  ASSUME Types, Showing, NEW k \in Calls, Takes(k)
  PROVE  Showing'
<1>1. /\ Alone(k) /\ Keeps(k) /\ KeepService /\ listener' = listener
      /\ UNCHANGED <<auth, changed, projection, shown, state>>
      /\ lock = Free /\ lock' = k /\ call'[k].op = call[k].op
      /\ call[k].pc \in {"apply", "show", "undo"} /\ call'[k].pc \in Holding
      /\ call[k].pc = "show" <=> call'[k].pc = "showing"
      /\ call'[k].pc \in {"applying", "showing"} =>
           call[k].pc \in {"apply", "show"} /\ Current(call[k])
  BY DEF Takes, KeepService, Holding
<1>2. call[k].pc \notin Holding /\ lock # k
  BY <1>1, LockNames DEF Holding
<1>3. call'[k].session <= auth.session /\ call'[k].previous <= auth.session
      /\ projection'.session <= auth.session
  BY <1>1 DEF Keeps, Showing, Past
<1>4. call'[k].pc \in {"apply", "applying", "show", "showing"}
        => Authenticated /\ call'[k].who = auth.who
  BY <1>1 DEF Keeps, Showing, KnowsOwn, Holding
<1>5. LockHeld' /\ KnowsOwn' /\ Past'
  BY <1>1, <1>2, <1>3, <1>4, CallShowing
<1>6. ~Resetting(k)
  BY <1>1 DEF Resetting
<1>7. Hydrating(k) => Hydrating(k)'
  BY <1>1 DEF Hydrating, Holding, Keeps, Current
<1>8. call'[k].pc \in {"applying", "showing"} => Current(call[k])'
  BY <1>1 DEF Keeps, Current
<1>9. Due'
  BY <1>1, <1>6, <1>7, <1>8, CallDue
<1>10. QED BY <1>5, <1>9 DEF Showing

(* When a session ends, the listener will be told, and nobody knows the next one *)
LEMMA SignOutShowing ==
  ASSUME Types, Showing, NEW k \in Calls, Alone(k), listener' = listener, SignOut,
         call'[k].pc \notin Holding, lock' = IF lock = k THEN Free ELSE lock,
         projection'.session = projection.session,
         call'[k].session \in {0, call[k].session}, call'[k].previous \in {0, call[k].previous}
  PROVE  Showing'
<1>1. auth' \in Auths /\ changed' = TRUE /\ auth'.who = Nobody
      /\ auth'.session = auth.session + 1 /\ auth.session \in Nat
  BY SignOutFacts, SharedFields DEF Types
<1>2. Past' /\ (\A j \in Calls : ~Current(call[j])') /\ ~Current(listener)'
  <2>1. ASSUME NEW j \in Calls
        PROVE  /\ call'[j].session \in Nat /\ call'[j].previous \in Nat
               /\ call'[j].session <= auth.session /\ call'[j].previous <= auth.session
    BY <1>1, CallFields DEF Types, Showing, Past, Alone
  <2>2. listener.session \in Nat /\ listener.session <= auth.session
        /\ projection.session \in Nat /\ projection.session <= auth.session
    BY ListenerFields, SharedFields DEF Types, Showing, Past
  <2>3. QED BY <1>1, <2>1, <2>2 DEF Past, Current
<1>3. KnowsOwn'
  BY <1>2 DEF KnowsOwn
<1>4. LockHeld'
  <2>1. ASSUME NEW j \in Calls, j # k
        PROVE  call'[j].pc \in Holding <=> lock' = j
    BY <2>1, LockNames DEF Alone, Showing, LockHeld
  <2>2. lock' # k /\ (lock' = Listener <=> lock = Listener)
    BY LockNames
  <2>3. QED BY <2>1, <2>2 DEF LockHeld, Showing
<1>5. Strict' /\ Pending'
  BY <1>1 DEF Strict, Pending, Authenticated
<1>6. QED BY <1>2, <1>3, <1>4, <1>5 DEF Showing, Due

(* When another account signs in, whoever signed it in will reset what is shown *)
LEMMA InstallsShowing ==
  ASSUME Types, Showing, NEW k \in Calls, Installs(k)
  PROVE  Showing'
<1>1. /\ Alone(k) /\ Keeps(k) /\ listener' = listener /\ raced' = raced
      /\ UNCHANGED <<lock, projection, shown, state>>
      /\ call[k].pc = "installing" /\ call'[k].pc = "installed"
  BY DEF Installs, KeepService
<1>2. PICK who \in Accounts : SignIn(who)
  BY DEF Installs
<1>3. /\ auth' \in Auths /\ changed' = TRUE /\ auth'.who = who /\ who # Nobody
      /\ \/ auth'.session = auth.session /\ auth.who = who
         \/ auth'.session = auth.session + 1 /\ auth.who # who
  BY <1>2, SignInFacts DEF Types
<1>4. lock # k
  BY <1>1 DEF Showing, LockHeld, Holding
<1>5. call'[k].session = call[k].session /\ call'[k].previous = call[k].previous
  BY <1>1 DEF Keeps
<1>6. LockHeld'
  <2>1. ASSUME NEW j \in Calls
        PROVE  call'[j].pc \in Holding <=> lock' = j
    <3>1. CASE j = k
      BY <1>1, <1>4, <3>1 DEF Holding
    <3>2. CASE j # k
      BY <1>1, <3>2 DEF Alone, Showing, LockHeld
    <3>3. QED BY <3>1, <3>2
  <2>2. QED BY <1>1, <2>1 DEF LockHeld, Showing
<1>7. CASE auth'.session = auth.session /\ auth.who = who
  <2>1. auth' = auth
    BY <1>2, <1>7 DEF SignIn, Types, TypeOK
  <2>2. Authenticated /\ Authenticated'
    BY <1>3, <1>7, <2>1 DEF Authenticated
  <2>3. KnowsOwn'
    BY <1>1, <2>1 DEF Alone, Showing, KnowsOwn, Current, Authenticated
  <2>4. Past'
    BY <1>1, <1>5, <2>1 DEF Alone, Showing, Past
  <2>5. ASSUME NEW j \in Calls
        PROVE  (Resetting(j) => Resetting(j)') /\ (Hydrating(j) => Hydrating(j)')
    BY <1>1, <2>1 DEF Alone, Resetting, Hydrating, Current
  <2>6. Notified => Notified'
    BY <1>1, <1>3, <2>1 DEF Notified
  <2>7. (Strict => Strict') /\ (Pending => Pending')
    BY <2>2, <2>5, <2>6 DEF Strict, Pending
  <2>8. Fits' <=> Fits
    BY <1>1, <2>1 DEF Fits, Authenticated
  <2>9. ASSUME NEW j \in Calls, call'[j].pc \in {"applying", "showing"}, ~Current(call[j])'
        PROVE  call[j].pc = call'[j].pc /\ ~Current(call[j])
    BY <1>1, <2>1, <2>9 DEF Alone, Current
  <2>10. Late' => Late
    BY <1>1, <2>1, <2>9 DEF Late, Current
  <2>11. Due'
    BY <1>1, <2>7, <2>8, <2>9, <2>10 DEF Due, Showing
  <2>12. QED BY <1>6, <2>3, <2>4, <2>11 DEF Showing
<1>8. CASE auth'.session = auth.session + 1
  <2>1. Past' /\ (\A j \in Calls : ~Current(call[j])') /\ ~Current(listener)'
        /\ call'[k].previous # auth'.session
    <3>1. ASSUME NEW j \in Calls
          PROVE  /\ call'[j].session \in Nat /\ call'[j].previous \in Nat
                 /\ call'[j].session <= auth.session /\ call'[j].previous <= auth.session
      BY <1>1, <1>5, CallFields DEF Types, Showing, Past, Alone
    <3>2. listener.session \in Nat /\ listener.session <= auth.session /\ auth.session \in Nat
          /\ projection.session \in Nat /\ projection.session <= auth.session
      BY ListenerFields, SharedFields DEF Types, Showing, Past
    <3>3. QED BY <1>1, <1>8, <3>1, <3>2 DEF Past, Current
  <2>2. KnowsOwn'
    BY <2>1 DEF KnowsOwn
  <2>3. Resetting(k)'
    BY <1>1, <2>1 DEF Resetting
  <2>4. Strict' /\ Pending'
    BY <1>3, <2>3 DEF Strict, Pending, Authenticated
  <2>5. QED BY <1>6, <2>1, <2>2, <2>4 DEF Showing, Due
<1>9. QED BY <1>3, <1>7, <1>8

LEMMA EntersShowing ==
  ASSUME Types, Showing, NEW k \in Calls, Skip(k) \/ Installed(k)
  PROVE  Showing'
<1>1. /\ Alone(k) /\ KeepService /\ listener' = listener
      /\ UNCHANGED <<auth, changed, lock, shown, state>>
      /\ projection'.hydrated = projection.hydrated
      /\ projection'.session = projection.session
      /\ call[k].pc \in {"skip", "installed"} /\ call'[k].pc \in {"installing", "hydrate"}
  BY SkipFacts, InstalledFacts DEF Types, KeepService, Shared
<1>2. lock # k
  BY <1>1 DEF Showing, LockHeld, Holding
<1>3. call'[k].session <= auth.session /\ call'[k].previous <= auth.session
      /\ projection'.session <= auth.session
  BY <1>1, SkipFacts, InstalledFacts, SharedFields DEF Showing, Past, Types
<1>4. LockHeld' /\ KnowsOwn' /\ Past'
  BY <1>1, <1>2, <1>3, CallShowing DEF Holding
<1>5. Resetting(k) => Resetting(k)'
  BY <1>1, SkipFacts, InstalledFacts DEF Resetting, Types
<1>6. ~Hydrating(k)
  BY <1>1 DEF Hydrating
<1>7. Due'
  BY <1>1, <1>5, <1>6, CallDue
<1>8. QED BY <1>4, <1>7 DEF Showing

(* The account that is hydrated is shown in the end, or signed out *)
LEMMA HydrateShowing ==
  ASSUME Types, Showing, NEW k \in Calls, Hydrate(k)
  PROVE  Showing'
<1>1. /\ Alone(k) /\ Keeps(k) /\ listener' = listener /\ UNCHANGED <<auth, changed, lock>>
      /\ projection'.hydrated = FALSE /\ projection'.session = auth.session /\ lock = Free
      /\ raced' = raced /\ call'[k].op = call[k].op
      /\ call[k].pc = "hydrate" /\ call'[k].pc = "fetch" /\ Current(call[k])
      /\ call[k].previous # auth.session => shown'.who = Nobody
      /\ call[k].previous = auth.session => shown' = shown
  BY HydrateFacts, ResetFacts DEF Types, KeepService
<1>2. lock # k
  BY <1>1 DEF Showing, LockHeld, Holding
<1>3. call'[k].session <= auth.session /\ call'[k].previous <= auth.session
      /\ projection'.session <= auth.session
  BY <1>1, SharedFields DEF Keeps, Showing, Past, Types
<1>4. LockHeld' /\ KnowsOwn' /\ Past'
  BY <1>1, <1>2, <1>3, CallShowing DEF Holding
<1>5. (\A j \in Calls : call'[j].pc \notin {"applying", "showing"}) /\ listener'.pc # "showing"
  BY <1>1, FreeLock DEF Alone, Holding
<1>6. raced' \/ Fits' \/ Pending'
  <2>1. CASE call[k].previous # auth.session
    BY <1>1, <2>1 DEF Fits
  <2>2. CASE call[k].previous = auth.session /\ Authenticated
    <3>1. Hydrating(k)'
      BY <1>1 DEF Hydrating, Current, Keeps, Types, Named
    <3>2. QED BY <1>1, <2>2, <3>1 DEF Pending, Authenticated
  <2>3. CASE call[k].previous = auth.session /\ ~Authenticated
    <3>1. Fits => Fits'
      BY <1>1, <2>3 DEF Fits
    <3>2. Pending => Pending'
      BY <1>1, <2>3 DEF Pending, Strict, Authenticated
    <3>3. QED BY <1>1, <3>1, <3>2 DEF Showing, Due
  <2>4. QED BY <2>1, <2>2, <2>3
<1>7. QED BY <1>4, <1>5, <1>6, NobodyDue DEF Showing

(* The lock kept whoever puts it right from doing so too early *)
LEMMA ReleasesShowing ==
  ASSUME Types, Showing, NEW k \in Calls, Applied(k) \/ ShownMe(k)
  PROVE  Showing'
<1>1. /\ Alone(k) /\ listener' = listener /\ UNCHANGED <<auth, changed>> /\ raced' = raced
      /\ lock' = Free /\ call[k].pc \in {"applying", "showing"} /\ call'[k].pc = "done"
      /\ call'[k].session = 0 /\ call'[k].previous = 0 /\ shown'.who = call[k].who
      /\ projection'.session \in {projection.session, auth.session}
      /\ call[k].pc = "applying" => projection'.session = projection.session
  BY AppliedFacts, ShownMeFacts DEF Types, KeepService, Releases
<1>2. lock = k /\ (\A j \in Calls : j # k => call[j].pc \notin Holding)
      /\ listener.pc # "showing"
  BY <1>1, HolderAlone DEF Holding
<1>3. LockHeld' /\ KnowsOwn' /\ Past'
  <2>1. projection'.session <= auth.session /\ call'[k].session <= auth.session
        /\ call'[k].previous <= auth.session
    BY <1>1, SharedFields DEF Types, Showing, Past
  <2>2. lock' # k
    BY <1>1, LockNames
  <2>3. QED BY <1>1, <1>2, <2>1, <2>2, CallShowing DEF Holding
<1>4. ~Resetting(k)
  BY <1>1 DEF Resetting
<1>5. (\A j \in Calls : call'[j].pc \notin {"applying", "showing"}) /\ listener'.pc # "showing"
  BY <1>1, <1>2 DEF Alone, Holding
<1>6. raced' \/ Fits' \/ Pending'
  <2>1. CASE Current(call[k])
    <3>1. Authenticated /\ call[k].who = auth.who
      BY <1>1, <2>1 DEF Showing, KnowsOwn
    <3>2. QED BY <1>1, <3>1 DEF Fits, Authenticated
  <2>2. CASE call[k].pc = "applying" /\ ~Current(call[k])
    <3>1. raced \/ Pending
      BY <2>2 DEF Showing, Due
    <3>2. ~Hydrating(k)
      BY <2>2 DEF Hydrating
    <3>3. Pending => Pending'
      BY <1>1, <1>4, <2>2, <3>2, PendingStays
    <3>4. QED BY <1>1, <3>1, <3>3
  <2>3. CASE call[k].pc = "showing" /\ ~Current(call[k])
    <3>1. raced \/ Strict
      BY <2>3 DEF Showing, Due, Late
    <3>2. Strict => Strict'
      BY <1>1, <1>4, StrictStays
    <3>3. QED BY <1>1, <3>1, <3>2 DEF Pending
  <2>4. QED BY <1>1, <2>1, <2>2, <2>3
<1>7. QED BY <1>3, <1>5, <1>6, NobodyDue DEF Showing

LEMMA ClearShowing ==
  ASSUME Types, Showing, NEW k \in Calls, Clear(k)
  PROVE  Showing'
<1>1. /\ Alone(k) /\ listener' = listener /\ UNCHANGED <<auth, changed, lock>> /\ raced' = raced
      /\ lock = Free /\ call[k].pc = "clear" /\ call'[k].pc = "done"
      /\ call'[k].session = 0 /\ call'[k].previous = 0 /\ ClearProjection
      /\ projection'.session = projection.session
  BY ClearFacts, ClearedFacts DEF Types, KeepService
<1>2. lock # k
  BY <1>1 DEF Showing, LockHeld, Holding
<1>3. LockHeld' /\ KnowsOwn' /\ Past'
  <2>1. projection'.session <= auth.session /\ call'[k].session <= auth.session
        /\ call'[k].previous <= auth.session
    BY <1>1, SharedFields DEF Types, Showing, Past
  <2>2. QED BY <1>1, <1>2, <2>1, CallShowing DEF Holding
<1>4. (\A j \in Calls : call'[j].pc \notin {"applying", "showing"}) /\ listener'.pc # "showing"
  BY <1>1, FreeLock DEF Alone, Holding
<1>5. Pending => Pending'
  <2>1. ~Resetting(k) /\ ~Hydrating(k)
    BY <1>1 DEF Resetting, Hydrating
  <2>2. QED BY <1>1, <2>1, PendingStays
<1>6. Fits \/ ~Authenticated => Fits'
  BY <1>1, ClearedFacts, ResetFacts DEF Fits, Authenticated, Types
<1>7. raced' \/ Fits' \/ Pending'
  BY <1>1, <1>5, <1>6 DEF Showing, Due
<1>8. QED BY <1>3, <1>4, <1>7, NobodyDue DEF Showing

LEMMA RefreshedShowing ==
  ASSUME Types, Showing, NEW k \in Calls, Refreshed(k)
  PROVE  Showing'
<1>1. /\ Alone(k) /\ KeepService /\ listener' = listener
      /\ UNCHANGED <<auth, changed, lock, projection>>
      /\ call[k].pc = "refreshing" /\ call'[k].pc = "done"
      /\ call'[k].session = 0 /\ call'[k].previous = 0 /\ shown'.who = shown.who
  BY RefreshedFacts DEF Types, KeepService, Applies
<1>2. lock # k
  BY <1>1 DEF Showing, LockHeld, Holding
<1>3. LockHeld' /\ KnowsOwn' /\ Past'
  <2>1. projection'.session <= auth.session /\ call'[k].session <= auth.session
        /\ call'[k].previous <= auth.session
    BY <1>1, SharedFields DEF Types, Showing, Past
  <2>2. QED BY <1>1, <1>2, <2>1, CallShowing DEF Holding
<1>4. ~Resetting(k) /\ ~Hydrating(k)
  BY <1>1 DEF Resetting, Hydrating
<1>5. Due'
  BY <1>1, <1>4, CallDue
<1>6. QED BY <1>3, <1>5 DEF Showing

(* The listener: what the calls hold stays *)
LEMMA ListenerShowing ==
  ASSUME Types, Showing, UNCHANGED <<auth, call>>,
         \/ lock' = lock /\ lock # Listener
         \/ lock = Free /\ lock' = Listener
         \/ lock = Listener /\ lock' = Free,
         listener'.pc = "showing" <=> lock' = Listener,
         listener'.session <= auth.session, projection'.session <= auth.session,
         listener'.pc \in {"show", "showing"} /\ Current(listener)'
           => Authenticated /\ listener'.who = auth.who
  PROVE  LockHeld' /\ KnowsOwn' /\ Past'
<1>1. LockHeld'
  <2>1. \A k \in Calls : lock' = k <=> lock = k
    BY LockNames
  <2>2. QED BY <2>1 DEF LockHeld, Showing
<1>2. KnowsOwn' /\ Past'
  BY DEF Showing, KnowsOwn, Past, Current, Authenticated
<1>3. QED BY <1>1, <1>2

(* It wakes, and is answered *)
LEMMA NoticesShowing ==
  ASSUME Types, Showing, Notice \/ NoticeFetched
  PROVE  Showing'
<1>1. UNCHANGED <<auth, call, lock, projection, shown, state>> /\ raced' = raced
      /\ listener.pc \in {"idle", "fetch"}
  BY NoticeFacts, NoticeFetchedFacts DEF Types, ListenerSide, Notice, ListenerIdle
<1>2. /\ listener'.session <= auth.session /\ listener'.pc # "showing"
      /\ listener'.pc = "show" => Authenticated /\ listener'.who = auth.who
  <2>1. auth.session \in Nat /\ listener.session <= auth.session /\ 0 <= auth.session
    BY SharedFields DEF Types, Showing, Past
  <2>2. CASE Notice
    <3>1. listener'.session = auth.session
      BY <2>2, NoticeFacts DEF Types
    <3>2. listener'.pc \notin {"show", "showing"}
      BY <2>2, NoticeFacts DEF Types
    <3>3. QED BY <2>1, <3>1, <3>2
  <2>3. CASE NoticeFetched
    <3>1. listener'.session \in {0, listener.session}
      BY <2>3, NoticeFetchedFacts DEF Types
    <3>2. listener'.pc # "showing" /\
          (listener'.pc = "show" => Authenticated /\ listener'.who = auth.who)
      BY <2>3, NoticeFetchedFacts DEF Types
    <3>3. QED BY <2>1, <3>1, <3>2
  <2>4. QED BY <2>2, <2>3
<1>3. LockHeld' /\ KnowsOwn' /\ Past'
  <2>1. lock # Listener
    BY <1>1 DEF Showing, LockHeld
  <2>2. projection'.session <= auth.session
    BY <1>1 DEF Showing, Past
  <2>3. QED BY <1>1, <1>2, <2>1, <2>2, ListenerShowing
<1>4. (Strict => Strict') /\ (Pending => Pending')
  <2>1. CASE Authenticated
    <3>1. Strict' <=> Strict
      BY <1>1, <2>1 DEF Strict, Resetting, Authenticated
    <3>2. (\E k \in Calls : Hydrating(k)) => (\E k \in Calls : Hydrating(k))'
      BY <1>1 DEF Hydrating, Current
    <3>3. Notified => Notified'
      <4>1. CASE Notice
        BY <1>1, <2>1, <4>1, NoticeFacts DEF Notified, Current, Types
      <4>2. CASE NoticeFetched
        BY <1>1, <4>2, NoticeFetchedFacts DEF Notified, Types
      <4>3. QED BY <4>1, <4>2
    <3>4. Authenticated'
      BY <1>1, <2>1 DEF Authenticated
    <3>5. QED BY <3>1, <3>2, <3>3, <3>4 DEF Pending
  <2>2. CASE ~Authenticated
    <3>1. CASE Notice
      BY <1>1, <2>2, <3>1, NoticeFacts DEF Pending, Strict, Authenticated, Types
    <3>2. CASE NoticeFetched
      BY <1>1, <2>2, <3>2, NoticeFetchedFacts DEF Pending, Strict, Authenticated, Types
    <3>3. QED BY <3>1, <3>2
  <2>3. QED BY <2>1, <2>2
<1>5. Fits' <=> Fits
  BY <1>1 DEF Fits, Authenticated
<1>6. Late' => Late
  BY <1>1, <1>2 DEF Late, Current
<1>7. Due'
  BY <1>1, <1>4, <1>5, <1>6 DEF Showing, Due, Current
<1>8. QED BY <1>3, <1>7 DEF Showing

LEMMA NoticeOutShowing ==
  ASSUME Types, Showing, NoticeOut
  PROVE  Showing'
<1>1. UNCHANGED <<auth, call, lock, changed>> /\ lock = Free /\ listener' = Idle
      /\ ClearProjection /\ listener.pc = "out" /\ raced' = raced
      /\ projection'.session = projection.session
  BY NoticeOutFacts, ClearedFacts DEF Types, ListenerSide
<1>2. LockHeld' /\ KnowsOwn' /\ Past'
  <2>1. projection'.session <= auth.session /\ listener'.session <= auth.session
        /\ listener'.pc = "idle"
    BY <1>1, IdleFacts, SharedFields DEF Types, Showing, Past
  <2>2. QED BY <1>1, <2>1, LockNames, ListenerShowing
<1>3. (\A j \in Calls : call'[j].pc \notin {"applying", "showing"}) /\ listener'.pc # "showing"
  BY <1>1, FreeLock, IdleFacts DEF Holding
<1>4. CASE Authenticated
  <2>1. shown' = shown /\ projection' = projection /\ Authenticated'
    BY <1>1, <1>4, ClearedFacts DEF Types, Authenticated
  <2>2. Pending => Pending'
    <3>1. Strict' <=> Strict
      BY <1>1, <1>4 DEF Strict, Resetting, Authenticated
    <3>2. (\E k \in Calls : Hydrating(k)) => (\E k \in Calls : Hydrating(k))'
      BY <1>1 DEF Hydrating, Current
    <3>3. Notified => Notified'
      BY <1>1, <2>1 DEF Notified
    <3>4. QED BY <2>1, <3>1, <3>2, <3>3 DEF Pending
  <2>3. Fits' <=> Fits
    BY <1>1, <2>1 DEF Fits, Authenticated
  <2>4. raced' \/ Fits' \/ Pending'
    BY <1>1, <2>2, <2>3 DEF Showing, Due
  <2>5. QED BY <1>2, <1>3, <2>4, NobodyDue DEF Showing
<1>5. CASE ~Authenticated
  <2>1. Fits'
    BY <1>1, <1>5, ClearedFacts, ResetFacts DEF Fits, Authenticated, Types
  <2>2. QED BY <1>2, <1>3, <2>1, NobodyDue DEF Showing
<1>6. QED BY <1>4, <1>5

(* It resets a projection of another session *)
LEMMA NoticeInShowing ==
  ASSUME Types, Showing, NoticeIn
  PROVE  Showing'
<1>1. /\ UNCHANGED <<auth, call, lock, changed>> /\ lock = Free /\ listener.pc = "in"
      /\ listener'.pc \in {"idle", "fetch"} /\ listener'.session \in {0, listener.session}
      /\ raced' = raced
  BY NoticeInFacts DEF Types, ListenerSide
<1>2. \/ UNCHANGED <<projection, shown, state>> /\ ~Current(listener)
      \/ /\ projection.session = auth.session /\ projection'.session = auth.session
         /\ projection'.hydrated = projection.hydrated /\ UNCHANGED <<shown, state>>
      \/ /\ projection'.session = auth.session /\ projection'.hydrated = FALSE /\ Reset
  <2>1. \/ UNCHANGED <<projection, shown, state>>
        \/ /\ projection.session = auth.session /\ projection'.session = auth.session
           /\ projection'.hydrated = projection.hydrated /\ UNCHANGED <<shown, state>>
        \/ /\ projection'.session = auth.session /\ projection'.hydrated = FALSE /\ Reset
    BY NoticeInFacts DEF Types
  <2>2. Current(listener) => projection'.session = auth.session
    BY NoticeInFacts DEF Types
  <2>3. QED BY <2>1, <2>2
<1>3. LockHeld' /\ KnowsOwn' /\ Past'
  <2>1. projection'.session <= auth.session /\ listener'.session <= auth.session
    BY <1>1, <1>2, SharedFields DEF Types, Showing, Past
  <2>2. QED BY <1>1, <2>1, LockNames, ListenerShowing
<1>4. (\A j \in Calls : call'[j].pc \notin {"applying", "showing"}) /\ listener'.pc # "showing"
  BY <1>1, FreeLock DEF Holding
<1>5. CASE Reset /\ projection'.hydrated = FALSE
  <2>1. Fits'
    BY <1>5, ResetFacts DEF Fits
  <2>2. QED BY <1>3, <1>4, <2>1, NobodyDue DEF Showing
<1>6. CASE UNCHANGED <<shown, state>> /\ projection'.hydrated = projection.hydrated
           /\ projection'.session = projection.session
           /\ (~Current(listener) \/ projection.session = auth.session)
  <2>1. Fits' <=> Fits
    BY <1>1, <1>6 DEF Fits, Authenticated
  <2>2. Pending => Pending'
    <3>1. Strict => Strict'
      BY <1>1 DEF Strict, Resetting, Authenticated
    <3>2. (\E k \in Calls : Hydrating(k)) => (\E k \in Calls : Hydrating(k))'
      BY <1>1 DEF Hydrating, Current
    <3>3. Notified => Notified'
      BY <1>1, <1>6 DEF Notified
    <3>4. Authenticated' <=> Authenticated
      BY <1>1 DEF Authenticated
    <3>5. QED BY <3>1, <3>2, <3>3, <3>4 DEF Pending
  <2>3. raced' \/ Fits' \/ Pending'
    BY <1>1, <2>1, <2>2 DEF Showing, Due
  <2>4. QED BY <1>3, <1>4, <2>3, NobodyDue DEF Showing
<1>7. QED BY <1>2, <1>5, <1>6

(* Where the listener neither is told of a session nor of its end, all stays as it is *)
LEMMA ListenerPending ==
  ASSUME UNCHANGED <<auth, call, changed>>, listener.pc \notin {"in", "out"}
  PROVE  /\ Strict => Strict'
         /\ projection'.session = projection.session => (Pending => Pending')
<1>1. Strict => Strict'
  BY DEF Strict, Resetting, Authenticated
<1>2. (\E k \in Calls : Hydrating(k)) => (\E k \in Calls : Hydrating(k))'
  BY DEF Hydrating, Current
<1>3. projection'.session = projection.session => (Notified => Notified')
  BY DEF Notified
<1>4. Authenticated' <=> Authenticated
  BY DEF Authenticated
<1>5. QED BY <1>1, <1>2, <1>3, <1>4 DEF Pending

(* It takes the lock, in the session it was told of *)
LEMMA NoticeShowShowing ==
  ASSUME Types, Showing, NoticeShow
  PROVE  Showing'
<1>1. /\ UNCHANGED <<auth, call, changed, projection, shown>> /\ listener.pc = "show"
      /\ raced' = raced
      /\ \/ listener' = Idle /\ lock' = lock
         \/ /\ Current(listener) /\ lock = Free /\ lock' = Listener
            /\ listener'.pc = "showing" /\ listener'.session = listener.session
            /\ listener'.who = listener.who
  BY NoticeShowFacts DEF Types, ListenerSide
<1>2. lock # Listener
  BY <1>1 DEF Showing, LockHeld
<1>3. listener'.session <= auth.session /\ projection'.session <= auth.session
  BY <1>1, IdleFacts, SharedFields DEF Types, Showing, Past
<1>4. listener'.pc \in {"show", "showing"} =>
        /\ Current(listener)' /\ Authenticated /\ listener'.who = auth.who
        /\ lock' = Listener
  BY <1>1, IdleFacts DEF Current, Showing, KnowsOwn
<1>5. LockHeld' /\ KnowsOwn' /\ Past'
  BY <1>1, <1>2, <1>3, <1>4, IdleFacts, ListenerShowing
<1>6. (Strict => Strict') /\ (Pending => Pending')
  BY <1>1, ListenerPending
<1>7. Fits' <=> Fits
  BY <1>1 DEF Fits, Authenticated
<1>8. Late' => Late
  BY <1>1, <1>4 DEF Late, Current
<1>9. Due'
  BY <1>1, <1>6, <1>7, <1>8 DEF Showing, Due, Current
<1>10. QED BY <1>5, <1>9 DEF Showing

LEMMA NoticeShownShowing ==
  ASSUME Types, Showing, NoticeShown
  PROVE  Showing'
<1>1. /\ UNCHANGED <<auth, call, changed>> /\ lock' = Free /\ raced' = raced
      /\ listener.pc = "showing" /\ listener' = Idle
      /\ \/ ~Authenticated /\ UNCHANGED <<projection, shown>>
         \/ projection'.session = auth.session /\ shown'.who = listener.who
  BY NoticeShownFacts DEF Types, ListenerSide
<1>2. lock = Listener /\ \A j \in Calls : call[j].pc \notin Holding
  BY <1>1, LockNames DEF Showing, LockHeld
<1>3. LockHeld' /\ KnowsOwn' /\ Past'
  <2>1. listener'.session <= auth.session /\ projection'.session <= auth.session
        /\ listener'.pc = "idle"
    BY <1>1, IdleFacts, SharedFields DEF Types, Showing, Past
  <2>2. QED BY <1>1, <1>2, <2>1, LockNames, ListenerShowing
<1>4. (\A j \in Calls : call'[j].pc \notin {"applying", "showing"}) /\ listener'.pc # "showing"
  BY <1>1, <1>2, IdleFacts DEF Holding
<1>5. raced' \/ Fits' \/ Pending'
  <2>1. CASE ~Authenticated /\ UNCHANGED <<projection, shown>>
    <3>1. Fits' <=> Fits
      BY <1>1, <2>1 DEF Fits, Authenticated
    <3>2. Pending => Pending'
      BY <1>1, <2>1, ListenerPending
    <3>3. QED BY <1>1, <3>1, <3>2 DEF Showing, Due
  <2>2. CASE Current(listener) /\ shown'.who = listener.who
    <3>1. Authenticated /\ listener.who = auth.who
      BY <1>1, <2>2 DEF Showing, KnowsOwn
    <3>2. QED BY <1>1, <2>2, <3>1 DEF Fits, Authenticated
  <2>3. CASE ~Current(listener)
    <3>1. raced \/ Strict
      BY <1>1, <2>3 DEF Showing, Due, Late
    <3>2. Strict => Strict'
      BY <1>1, ListenerPending
    <3>3. QED BY <1>1, <3>1, <3>2 DEF Pending
  <2>4. QED BY <1>1, <2>1, <2>2, <2>3
<1>6. QED BY <1>3, <1>4, <1>5, NobodyDue DEF Showing

(* A renewal that names another wallet wakes the listener, which finds a projection of the *)
(* session before                                                                          *)
LEMMA RenewShowing ==
  ASSUME Types, Showing, Renew
  PROVE  Showing'
<1>1. /\ Authenticated /\ Authenticated' /\ changed' = TRUE
      /\ UNCHANGED <<lock, projection, call, listener, shown>>
      /\ raced => raced'
      /\ \/ auth' = auth /\ raced' = raced
         \/ /\ auth'.session = auth.session + 1
            /\ (\E k \in Calls : call[k].pc = "showing") \/ listener.pc = "showing" => raced'
  BY RenewFacts DEF Types, Authenticated
<1>2. LockHeld'
  BY <1>1 DEF Showing, LockHeld
<1>3. CASE auth' = auth /\ raced' = raced
  <2>1. KnowsOwn' /\ Past'
    BY <1>1, <1>3 DEF Showing, KnowsOwn, Past, Current
  <2>2. Strict => Strict'
    BY <1>1, <1>3 DEF Strict, Resetting
  <2>3. (\E k \in Calls : Hydrating(k)) => (\E k \in Calls : Hydrating(k))'
    BY <1>1, <1>3 DEF Hydrating, Current
  <2>4. Notified => Notified'
    BY <1>1, <1>3 DEF Notified
  <2>5. Pending => Pending'
    BY <1>1, <2>2, <2>3, <2>4 DEF Pending
  <2>6. (Fits' <=> Fits) /\ (Late' <=> Late)
    BY <1>1, <1>3 DEF Fits, Late, Current
  <2>7. Due'
    BY <1>1, <1>3, <2>2, <2>5, <2>6 DEF Showing, Due, Current
  <2>8. QED BY <1>2, <2>1, <2>7 DEF Showing
<1>4. CASE /\ auth'.session = auth.session + 1
           /\ (\E k \in Calls : call[k].pc = "showing") \/ listener.pc = "showing" => raced'
  <2>1. Past' /\ (\A j \in Calls : ~Current(call[j])') /\ ~Current(listener)'
        /\ projection'.session # auth'.session
    <3>1. ASSUME NEW j \in Calls
          PROVE  /\ call[j].session \in Nat /\ call[j].previous \in Nat
                 /\ call[j].session <= auth.session /\ call[j].previous <= auth.session
      BY CallFields DEF Types, Showing, Past
    <3>2. listener.session \in Nat /\ listener.session <= auth.session /\ auth.session \in Nat
          /\ projection.session \in Nat /\ projection.session <= auth.session
      BY ListenerFields, SharedFields DEF Types, Showing, Past
    <3>3. QED BY <1>1, <1>4, <3>1, <3>2 DEF Past, Current
  <2>2. KnowsOwn'
    BY <2>1 DEF KnowsOwn
  <2>3. Pending'
    BY <1>1, <2>1 DEF Pending, Notified
  <2>4. Late' => raced'
    BY <1>1, <1>4 DEF Late
  <2>5. QED BY <1>2, <2>1, <2>2, <2>3, <2>4 DEF Showing, Due
<1>5. QED BY <1>1, <1>3, <1>4

LEMMA RestShowing ==
  ASSUME Types, Showing, Entitlement \/ Entitled \/ UNCHANGED vars
  PROVE  Showing'
<1>1. /\ UNCHANGED <<auth, changed, lock, projection, call, listener, raced>>
      /\ shown'.who = shown.who
  BY EntitlementFacts, EntitledFacts DEF Types, Applies, vars
<1>2. /\ Strict' <=> Strict
      /\ Pending' <=> Pending
  BY <1>1 DEF Pending, Strict, Notified, Hydrating, Resetting, Current, Authenticated
<1>3. QED
  BY <1>1, <1>2 DEF Showing, LockHeld, KnowsOwn, Past, Due, Late, Fits, Current, Authenticated

LEMMA StepShowing == Types /\ Showing /\ [Next]_vars => Showing'
<1> SUFFICES ASSUME Types, Showing, [Next]_vars PROVE Showing'
  OBVIOUS
<1>1. ASSUME NEW k \in Calls, Leaves(k) \/ Rollback(k)
      PROVE  Showing'
  <2>1. CASE Leaves(k)
    <3>1. lock # k
      BY <2>1 DEF Leaves, Showing, LockHeld
    <3>2. QED BY <2>1, <3>1, SignOutShowing DEF Leaves, KeepService, Holding
  <2>2. CASE Rollback(k)
    <3>1. lock = k
      BY <2>2, RollbackFacts DEF Showing, LockHeld, Holding, Types
    <3>2. QED
      BY <2>2, <3>1, RollbackFacts, SignOutShowing DEF Releases, KeepService, Holding, Types
  <2>3. QED BY <1>1, <2>1, <2>2
<1>2. CASE \E k \in Calls : Strolls(k) \/ Takes(k) \/ Installs(k) \/ Skip(k) \/ Installed(k)
  BY <1>2, StrollsShowing, TakesShowing, InstallsShowing, EntersShowing
<1>3. CASE \E k \in Calls : Hydrate(k) \/ Applied(k) \/ ShownMe(k) \/ Clear(k) \/ Refreshed(k)
  BY <1>3, HydrateShowing, ReleasesShowing, ClearShowing, RefreshedShowing
<1>4. CASE Notice \/ NoticeOut \/ NoticeIn \/ NoticeFetched \/ NoticeShow \/ NoticeShown
  BY <1>4, NoticesShowing, NoticeOutShowing, NoticeInShowing, NoticeShowShowing,
     NoticeShownShowing
<1>5. CASE Renew \/ Entitlement \/ Entitled \/ UNCHANGED vars
  BY <1>5, RenewShowing, RestShowing
<1>6. QED BY <1>1, <1>2, <1>3, <1>4, <1>5, StepKinds

(* Once every call and the listener have ended, in whatever order and on       *)
(* however many threads, the account shown is the one signed in or nobody, and *)
(* a hydrated projection is that of a signed-in account, whichever calls and   *)
(* renewals replaced it, unless a renewal that named another wallet raced a    *)
(* task about to read the session under the lock (account/).                   *)
THEOREM SettledShows ==
  ASSUME ConstantsAreSound
  PROVE  Spec => []SettledShowsOwn
<1>1. Init => Types /\ Showing
  BY InitTypes, InitShowing
<1>2. Types /\ Showing /\ [Next]_vars => (Types /\ Showing)'
  BY StepTypes, StepShowing
<1>3. Types /\ Showing => SettledShowsOwn
  <2>1. ASSUME Types, Showing, Settled
        PROVE  ~Pending
    BY <2>1 DEF Settled, Pending, Strict, Notified, Hydrating, Resetting
  <2>2. QED BY <2>1 DEF Showing, Due, Fits, SettledShowsOwn
<1>4. QED BY <1>1, <1>2, <1>3, PTL DEF Spec

--------------------------------------------------------------------------------
(***************************************************************************)
(* One thread.  Whoever runs finds every other task waiting for the        *)
(* network: what it checked still holds where it acts on it.               *)
(***************************************************************************)
(* What a call knows between a check and what it checked for *)
KnowsStill(k) ==
  /\ call[k].pc \in {"clearing", "hydrate", "showing", "refreshing"} => Current(call[k])
  /\ call[k].pc = "rollback" => Current(call[k]) \/ ~Authenticated
  /\ call[k].pc = "refreshing" => call[k].read # 0
  /\ call[k].pc \in {"installing", "installed", "hydrate"} =>
       \A j \in Calls : j # k => call[j].session <= call[k].previous
Undisturbed ==
  OneThread => /\ \A k \in Calls : KnowsStill(k)
               /\ listener.pc = "showing" => Current(listener)

Moves(k) ==
  \/ Strolls(k) \/ Leaves(k) \/ Takes(k) \/ Skip(k) \/ Installs(k) \/ Installed(k)
  \/ Hydrate(k) \/ Applied(k) \/ ShownMe(k) \/ Rollback(k) \/ Clear(k) \/ Refreshed(k)

LEMMA MoverFacts ==
  ASSUME Types, NEW k \in Calls, Moves(k)
  PROVE  MayRun(k) /\ Alone(k) /\ KeepService
BY SkipFacts, InstalledFacts, HydrateFacts, AppliedFacts, ShownMeFacts, RollbackFacts, ClearFacts,
   RefreshedFacts DEF Moves, Strolls, Leaves, Takes, Installs, Releases, Types

LEMMA OthersWait ==
  ASSUME OneThread, NEW k, MayRun(k)
  PROVE  /\ \A j \in Calls : j # k => call[j].pc \in Awaiting
         /\ k # Listener => listener.pc \in Awaiting
BY DEF OneThread, MayRun

(* A task that waits knows nothing of the kind *)
LEMMA WaitingKnowsLittle ==
  ASSUME NEW k \in Calls, call'[k].pc \in Awaiting
  PROVE  KnowsStill(k)'
BY DEF Awaiting, KnowsStill

LEMMA InitUndisturbed == Init => Undisturbed
<1> SUFFICES ASSUME Init PROVE Undisturbed
  OBVIOUS
<1>1. listener = Idle /\ \A k \in Calls : call[k] = Idle
  BY DEF Init
<1>2. QED BY <1>1, IdleFacts DEF Undisturbed, KnowsStill

LEMMA MoverKnows ==
  ASSUME Types, Showing, Undisturbed, OneThread, NEW k \in Calls, Moves(k)
  PROVE  KnowsStill(k)'
<1>1. \A j \in Calls : j # k => call'[j] = call[j]
  BY MoverFacts DEF Alone
<1>2. KnowsStill(k) /\ TypeOK
  BY DEF Undisturbed, Types
<1>3. CASE Strolls(k)
  <2>1. auth' = auth /\ call'[k].pc \notin {"hydrate", "showing", "rollback", "installing", "installed"}
    BY <1>3 DEF Strolls, Shared, Holding
  <2>2. call'[k].pc = "clearing" => Current(call[k])'
    BY <1>3, <2>1 DEF Strolls, Current
  <2>3. call'[k].pc = "refreshing" => Current(call[k])' /\ call'[k].read # 0
    BY <1>3, <2>1 DEF Strolls, Current, Keeps
  <2>4. QED BY <2>1, <2>2, <2>3 DEF KnowsStill
<1>4. CASE Leaves(k)
  BY <1>4 DEF Leaves, KnowsStill
<1>5. CASE Takes(k)
  BY <1>5 DEF Takes, Keeps, KnowsStill, Current, Authenticated
<1>6. CASE Skip(k)
  <2>1. call'[k].pc = "installing" /\ call'[k].previous = auth.session
    BY <1>2, <1>6, SkipFacts
  <2>2. \A j \in Calls : j # k => call'[j].session <= call'[k].previous
    BY <1>1, <2>1 DEF Showing, Past
  <2>3. QED BY <2>1, <2>2 DEF KnowsStill
<1>7. CASE Installs(k)
  <2>1. call[k].pc = "installing" /\ call'[k].pc = "installed"
        /\ call'[k].previous = call[k].previous
    BY <1>7 DEF Installs, Keeps
  <2>2. QED BY <1>1, <1>2, <2>1 DEF KnowsStill
<1>8. CASE Installed(k)
  <2>1. call[k].pc = "installed" /\ call'[k].pc = "hydrate" /\ auth' = auth
        /\ call'[k].previous = call[k].previous /\ call'[k].session = auth.session
    BY <1>2, <1>8, InstalledFacts DEF Shared
  <2>2. QED BY <1>1, <1>2, <2>1 DEF KnowsStill, Current
<1>9. CASE Hydrate(k) \/ Applied(k) \/ ShownMe(k) \/ Rollback(k) \/ Clear(k) \/ Refreshed(k)
  <2>1. call'[k].pc \in {"fetch", "done"}
    BY <1>2, <1>9, HydrateFacts, AppliedFacts, ShownMeFacts, RollbackFacts, ClearFacts,
       RefreshedFacts DEF Releases
  <2>2. QED BY <2>1, WaitingKnowsLittle DEF Awaiting
<1>10. QED BY <1>3, <1>4, <1>5, <1>6, <1>7, <1>8, <1>9 DEF Moves

(* Steps that are no call's *)
Aside ==
  \/ Notice \/ NoticeOut \/ NoticeIn \/ NoticeFetched \/ NoticeShow \/ NoticeShown
  \/ Renew \/ Entitlement \/ Entitled \/ UNCHANGED vars

LEMMA AsideFacts ==
  ASSUME Types, Aside
  PROVE  UNCHANGED <<call, runtime>> /\ (auth' = auth \/ Renew)
BY NoticeFacts, NoticeOutFacts, NoticeInFacts, NoticeFetchedFacts, NoticeShowFacts,
   NoticeShownFacts, RenewFacts, EntitlementFacts, EntitledFacts
   DEF Aside, Types, ListenerSide, vars

LEMMA MovesOrAside ==
  ASSUME Types, [Next]_vars
  PROVE  (\E k \in Calls : Moves(k)) \/ Aside
BY StepKinds DEF Moves, Aside

LEMMA StepUndisturbed ==
  Types /\ Showing /\ Undisturbed /\ [Next]_vars => Undisturbed'
<1> SUFFICES ASSUME Types, Showing, Undisturbed, [Next]_vars, OneThread'
             PROVE  /\ \A i \in Calls : KnowsStill(i)'
                    /\ listener'.pc = "showing" => Current(listener)'
  BY DEF Undisturbed
<1>1. ASSUME NEW k \in Calls, Moves(k)
      PROVE  /\ \A i \in Calls : KnowsStill(i)'
             /\ listener'.pc = "showing" => Current(listener)'
  <2>1. MayRun(k) /\ Alone(k) /\ OneThread /\ listener' = listener
    BY <1>1, MoverFacts DEF KeepService, OneThread
  <2>2. listener.pc # "showing"
    <3>1. k # Listener
      BY LockNames
    <3>2. QED BY <2>1, <3>1, OthersWait DEF Awaiting
  <2>3. ASSUME NEW i \in Calls
        PROVE  KnowsStill(i)'
    <3>1. CASE i = k
      BY <1>1, <2>1, <3>1, MoverKnows
    <3>2. CASE i # k
      <4>1. call[i].pc \in Awaiting
        BY <2>1, <3>2, OthersWait
      <4>2. call'[i].pc \in Awaiting
        BY <2>1, <3>2, <4>1 DEF Alone
      <4>3. QED BY <4>2, WaitingKnowsLittle
    <3>3. QED BY <3>1, <3>2
  <2>4. QED BY <2>1, <2>2, <2>3
<1>2. CASE Renew
  <2>1. MayRun(Free) /\ call' = call /\ listener' = listener /\ OneThread
    BY <1>2, RenewFacts DEF Types, OneThread
  <2>2. listener.pc \in Awaiting /\ \A i \in Calls : call[i].pc \in Awaiting
    BY <2>1, LockNames, OthersWait
  <2>3. QED BY <2>1, <2>2, WaitingKnowsLittle DEF Awaiting
<1>3. CASE Aside /\ auth' = auth
  <2>1. UNCHANGED <<auth, call, runtime>>
    BY <1>3, AsideFacts
  <2>2. \A i \in Calls : KnowsStill(i)'
    BY <2>1 DEF Undisturbed, KnowsStill, OneThread, Current, Authenticated
  <2>3. listener'.pc = "showing" => Current(listener)'
    <3>1. CASE NoticeShow
      BY <2>1, <3>1, NoticeShowFacts, IdleFacts DEF Types, Current
    <3>2. CASE Aside /\ ~NoticeShow
      <4>1. listener' = listener \/ listener'.pc # "showing"
        BY <3>2, NoticeFacts, NoticeOutFacts, NoticeInFacts, NoticeFetchedFacts,
           NoticeShownFacts, RenewFacts, EntitlementFacts, EntitledFacts, IdleFacts
           DEF Aside, Types, vars
      <4>2. QED BY <2>1, <4>1 DEF Undisturbed, OneThread, Current
    <3>3. QED BY <1>3, <3>1, <3>2
  <2>4. QED BY <2>2, <2>3
<1>4. QED BY <1>1, <1>2, <1>3, AsideFacts, MovesOrAside

LEMMA AlwaysUndisturbed ==
  ConstantsAreSound /\ Spec => [](Types /\ Showing /\ Undisturbed)
<1>1. ConstantsAreSound /\ Init => Types /\ Showing /\ Undisturbed
  BY InitTypes, InitShowing, InitUndisturbed
<1>2. (Types /\ Showing /\ Undisturbed) /\ [Next]_vars => (Types /\ Showing /\ Undisturbed)'
  BY StepTypes, StepShowing, StepUndisturbed
<1>3. QED BY <1>1, <1>2, PTL DEF Spec

(* Which steps end authentication: those of a call that ends the session it    *)
(* compared, and the undoing of a hydration                                    *)
LEMMA WhoSignsOut ==
  ASSUME Types, Authenticated, auth'.who = Nobody, NEW k \in Calls, Moves(k)
  PROVE  Leaves(k) \/ Rollback(k)
<1>1. ~(auth' = auth)
  BY DEF Authenticated
<1>2. ~Installs(k)
  BY SignInFacts DEF Installs, Types
<1>3. QED
  BY <1>1, <1>2, SkipFacts, InstalledFacts, HydrateFacts, AppliedFacts, ShownMeFacts, ClearFacts,
     RefreshedFacts DEF Moves, Strolls, Takes, Shared, Types

(* On one thread a call ends nobody's session but its own: whatever answer is  *)
(* delayed, an account that signed in meanwhile is not signed out by it        *)
(* (logout, login_with_settings, rollback_failed_initial_hydration).           *)
THEOREM OnlyOwnEnds ==
  ASSUME ConstantsAreSound
  PROVE  Spec => OnlyOwnSignOut
<1>1. Types /\ Undisturbed /\ [Next]_vars => [runtime = "one_thread" => EndsOwnSession]_vars
  <2> SUFFICES ASSUME Types, Undisturbed, [Next]_vars, OneThread, Authenticated,
                      auth'.who = Nobody, NEW j \in Calls, call'[j] # call[j]
               PROVE  Current(call[j])
    BY DEF EndsOwnSession, OneThread
  <2>1. ~Aside
    BY AsideFacts
  <2>2. PICK k \in Calls : Moves(k)
    BY <2>1, MovesOrAside
  <2>3. j = k
    BY <2>2, MoverFacts DEF Alone
  <2>4. KnowsStill(k)
    BY DEF Undisturbed
  <2>5. CASE Leaves(k)
    BY <2>3, <2>4, <2>5 DEF Leaves, KnowsStill
  <2>6. CASE Rollback(k)
    BY <2>3, <2>4, <2>6, RollbackFacts DEF KnowsStill, Types
  <2>7. QED BY <2>2, <2>5, <2>6, WhoSignsOut
<1>2. QED BY <1>1, AlwaysUndisturbed, PTL DEF Spec, OnlyOwnSignOut
--------------------------------------------------------------------------------
(***************************************************************************)
(* The subscription.                                                       *)
(***************************************************************************)
(* Nothing is heard, or on its way, that the service does not have *)
Dated ==
  /\ shown.heard <= version
  /\ \A i \in DOMAIN events : events[i].version <= version

(* What was applied last of what states a version *)
Stated == state.last = shown.newest

(* A read that finds no write of the socket since it began has the newest that was heard:  *)
(* within a session whose projection is in place the count of writes never starts again    *)
Reading(k) ==
  call[k].pc \in {"read", "refreshing"} /\ Current(call[k]) /\ call[k].previous # 0
ReadsTrue(k) ==
  /\ projection.session = auth.session
  /\ call[k].read # 0 => Authenticated
  /\ Authenticated => call[k].writes <= state.writes
  /\ Authenticated /\ call[k].read # 0 /\ call[k].writes = state.writes
       => shown.heard <= call[k].read
Reads == OneThread => \A k \in Calls : Reading(k) => ReadsTrue(k)

Told == Dated /\ Stated /\ Reads

LEMMA InitTold == Init => Told
<1> SUFFICES ASSUME Init PROVE Told
  OBVIOUS
<1>1. state.last = 0 /\ version = 1 /\ events = <<>> /\ \A k \in Calls : call[k].pc = "idle"
  BY IdleFacts DEF Init, NoState
<1>2. shown.heard = 0 /\ shown.newest = 0
  BY DEF Init
<1>3. QED BY <1>1, <1>2 DEF Told, Dated, Stated, Reads, Reading

(* What a step does to the subscription: nothing, forgets it, or applies one *)
KeepsIt ==
  /\ state' = state /\ shown'.subscription = shown.subscription
  /\ shown'.heard = shown.heard /\ shown'.newest = shown.newest
Forgets == state'.last = 0 /\ shown'.subscription = 0 /\ shown'.heard = 0 /\ shown'.newest = 0

LEMMA MoverWrites ==
  ASSUME Types, NEW k \in Calls, Moves(k)
  PROVE  \/ KeepsIt
         \/ /\ Forgets
            /\ \/ auth' = auth /\ ~Authenticated /\ Clear(k)
               \/ auth' = auth /\ Hydrate(k) /\ call[k].previous # auth.session
               \/ auth' = auth /\ ShownMe(k) /\ ~Current(call[k])
               \/ Rollback(k)
         \/ /\ Refreshed(k) /\ Applies("rest", call[k].read, call[k].states)
            /\ ~Older("rest", call[k].states, call[k].writes)
<1>1. TypeOK
  BY DEF Types
<1>2. CASE Strolls(k) \/ Leaves(k) \/ Takes(k) \/ Skip(k) \/ Installs(k) \/ Installed(k)
  BY <1>1, <1>2, SkipFacts, InstalledFacts DEF Strolls, Leaves, Takes, Installs, Shared, KeepsIt
<1>3. CASE Hydrate(k)
  BY <1>1, <1>3, HydrateFacts, ResetFacts DEF KeepsIt, Forgets
<1>4. CASE Applied(k)
  BY <1>1, <1>4, AppliedFacts DEF KeepsIt
<1>5. CASE ShownMe(k)
  BY <1>1, <1>5, ShownMeFacts DEF KeepsIt, Forgets
<1>6. CASE Rollback(k)
  BY <1>1, <1>6, RollbackFacts, ResetFacts DEF Forgets
<1>7. CASE Clear(k)
  BY <1>1, <1>7, ClearFacts, ClearedFacts, ResetFacts DEF KeepsIt, Forgets
<1>8. CASE Refreshed(k)
  BY <1>1, <1>8, RefreshedFacts DEF KeepsIt
<1>9. QED BY <1>2, <1>3, <1>4, <1>5, <1>6, <1>7, <1>8 DEF Moves

LEMMA AsideWrites ==
  ASSUME Types, Aside
  PROVE  \/ KeepsIt
         \/ Forgets /\ ~Authenticated
         \/ Forgets /\ NoticeIn /\ projection.session # auth.session
         \/ Forgets /\ NoticeShown /\ ~Current(listener)
         \/ /\ Entitled /\ \E i \in DOMAIN events :
                 /\ Applies("socket", events[i].version, events[i].states)
                 /\ ~Older("socket", events[i].states, 0)
<1>1. TypeOK /\ ConstantsAreSound
  BY DEF Types
<1>2. CASE Notice \/ NoticeFetched \/ NoticeShow \/ Renew \/ Entitlement \/ UNCHANGED vars
  BY <1>1, <1>2, NoticeFacts, NoticeFetchedFacts, NoticeShowFacts, RenewFacts, EntitlementFacts
     DEF KeepsIt, vars
<1>3. CASE NoticeOut
  BY <1>1, <1>3, NoticeOutFacts, ClearedFacts, ResetFacts DEF KeepsIt, Forgets
<1>4. CASE NoticeIn
  BY <1>1, <1>4, NoticeInFacts, ResetFacts DEF KeepsIt, Forgets
<1>5. CASE NoticeShown
  BY <1>1, <1>5, NoticeShownFacts DEF KeepsIt, Forgets
<1>6. CASE Entitled
  BY <1>1, <1>6, EntitledFacts DEF KeepsIt
<1>7. QED BY <1>2, <1>3, <1>4, <1>5, <1>6 DEF Aside

(* The projection only ever becomes that of the session there is *)
LEMMA ProjectionMoves ==
  ASSUME Types, [Next]_vars
  PROVE  projection'.session \in {projection.session, auth.session}
<1>1. TypeOK /\ ConstantsAreSound
  BY DEF Types
<1>2. ASSUME NEW k \in Calls, Moves(k)
      PROVE  projection'.session \in {projection.session, auth.session}
  BY <1>1, <1>2, SkipFacts, InstalledFacts, HydrateFacts, AppliedFacts, ShownMeFacts,
     RollbackFacts, ClearFacts, ClearedFacts, RefreshedFacts
     DEF Moves, Strolls, Leaves, Takes, Installs, Shared
<1>3. CASE Aside
  BY <1>1, <1>3, NoticeFacts, NoticeOutFacts, ClearedFacts, NoticeInFacts, NoticeFetchedFacts,
     NoticeShowFacts, NoticeShownFacts, RenewFacts, EntitlementFacts, EntitledFacts
     DEF Aside, vars
<1>4. QED BY <1>2, <1>3, MovesOrAside

LEMMA EventFields ==
  ASSUME TypeOK, NEW i \in DOMAIN events
  PROVE  events[i].version \in Nat /\ events[i].states \in Nat
<1>1. events \in Seq(Events)
  BY TypesByParts
<1>2. events[i] \in Events
  BY <1>1
<1>3. QED BY <1>2 DEF Events

LEMMA StepDated ==
  ASSUME Types, Dated, [Next]_vars
  PROVE  Dated'
<1>1. /\ shown.heard \in Nat /\ version \in Nat /\ TypeOK
  BY SharedFields DEF Types, TypeOK
<1>2. \A i \in DOMAIN events : events[i].version \in Nat
  BY <1>1, EventFields
<1>3. ASSUME NEW k \in Calls, Moves(k)
      PROVE  Dated'
  <2>1. version' = version /\ events' = events
    BY <1>3, MoverFacts DEF KeepService
  <2>2. shown'.heard \in {0, shown.heard}
    BY <1>3, MoverWrites DEF KeepsIt, Forgets, Applies
  <2>3. QED BY <1>1, <2>1, <2>2 DEF Dated
<1>4. CASE Entitlement
  <2>1. version' = version + 1 /\ shown' = shown
    BY <1>1, <1>4, EntitlementFacts
  <2>2. ASSUME NEW i \in DOMAIN events'
        PROVE  events'[i].version <= version'
    <3>1. (i \in DOMAIN events /\ events'[i] = events[i]) \/ events'[i].version = version'
      BY <1>1, <1>4, EntitlementFacts
    <3>2. CASE i \in DOMAIN events /\ events'[i] = events[i]
      BY <1>1, <1>2, <2>1, <3>2 DEF Dated
    <3>3. CASE events'[i].version = version'
      BY <1>1, <2>1, <3>3
    <3>4. QED BY <3>1, <3>2, <3>3
  <2>3. QED BY <1>1, <2>1, <2>2 DEF Dated
<1>5. CASE Entitled
  <2>1. version' = version /\ \A i \in DOMAIN events' : \E j \in DOMAIN events : events'[i] = events[j]
    BY <1>1, <1>5, EntitledFacts
  <2>2. shown'.heard <= version
    BY <1>1, <1>5, EntitledFacts DEF Applies, Dated
  <2>3. QED BY <2>1, <2>2 DEF Dated
<1>6. CASE Aside /\ ~Entitlement /\ ~Entitled
  <2>1. version' = version /\ events' = events
    BY <1>1, <1>6, NoticeFacts, NoticeOutFacts, NoticeInFacts, NoticeFetchedFacts, NoticeShowFacts,
       NoticeShownFacts, RenewFacts DEF Aside, ListenerSide, Types, vars
  <2>2. shown'.heard \in {0, shown.heard}
    BY <1>6, AsideWrites DEF KeepsIt, Forgets
  <2>3. QED BY <1>1, <2>1, <2>2 DEF Dated
<1>7. QED BY <1>3, <1>4, <1>5, <1>6, MovesOrAside

LEMMA StepStated ==
  ASSUME Types, Stated, [Next]_vars
  PROVE  Stated' /\ (shown'.newest # 0 => shown'.newest >= shown.newest)
<1>1. TypeOK /\ shown.newest \in Nat /\ state.last \in Nat
  BY SharedFields DEF Types
<1>2. CASE KeepsIt \/ Forgets
  BY <1>1, <1>2 DEF KeepsIt, Forgets, Stated
<1>3. ASSUME NEW source, NEW read, NEW states \in Nat, NEW writes,
             Applies(source, read, states), ~Older(source, states, writes)
      PROVE  Stated' /\ (shown'.newest # 0 => shown'.newest >= shown.newest)
  BY <1>1, <1>3 DEF Applies, Older, Stated
<1>4. ASSUME NEW k \in Calls, Moves(k)
      PROVE  Stated' /\ (shown'.newest # 0 => shown'.newest >= shown.newest)
  BY <1>1, <1>2, <1>3, <1>4, CallFields, MoverWrites
<1>5. CASE Aside
  BY <1>1, <1>2, <1>3, <1>5, EventFields, AsideWrites
<1>6. QED BY <1>4, <1>5, MovesOrAside

(* No call is of a session that has just begun *)
LEMMA NewSession ==
  ASSUME Types, Showing, NEW k \in Calls, Alone(k), call'[k].session \in {0, call[k].session},
         auth'.session = auth.session + 1
  PROVE  \A i \in Calls : ~Current(call[i])'
<1>1. auth.session \in Nat
  BY SharedFields DEF Types
<1>2. ASSUME NEW i \in Calls
      PROVE  call'[i].session \in {0, call[i].session} /\ call[i].session <= auth.session
             /\ call[i].session \in Nat
  BY CallFields DEF Alone, Types, Showing, Past
<1>3. QED BY <1>1, <1>2 DEF Current

(* A step either keeps the account or begins a session *)
LEMMA MoverAuth ==
  ASSUME Types, Showing, NEW k \in Calls, Moves(k)
  PROVE  auth' = auth \/ \A i \in Calls : ~Current(call[i])'
<1>1. TypeOK /\ Alone(k)
  BY MoverFacts DEF Types
<1>2. CASE Leaves(k)
  <2>1. auth'.session = auth.session + 1 /\ call'[k].session \in {0, call[k].session}
    BY <1>1, <1>2, SignOutFacts DEF Leaves
  <2>2. QED BY <1>1, <2>1, NewSession
<1>3. CASE Rollback(k)
  <2>1. auth'.session = auth.session + 1 /\ call'[k].session \in {0, call[k].session}
    BY <1>1, <1>3, RollbackFacts, SignOutFacts DEF Releases
  <2>2. QED BY <1>1, <2>1, NewSession
<1>4. CASE Installs(k)
  <2>1. PICK who \in Accounts : SignIn(who)
    BY <1>4 DEF Installs
  <2>2. call'[k].session = call[k].session
    BY <1>4 DEF Installs, Keeps
  <2>3. CASE who = auth.who
    BY <1>1, <2>1, <2>3, SharedFields DEF SignIn
  <2>4. CASE who # auth.who
    <3>1. auth'.session = auth.session + 1
      BY <2>1, <2>4 DEF SignIn
    <3>2. QED BY <1>1, <2>2, <3>1, NewSession
  <2>5. QED BY <2>3, <2>4
<1>5. CASE ~(Leaves(k) \/ Rollback(k) \/ Installs(k))
  BY <1>1, <1>5, SkipFacts, InstalledFacts, HydrateFacts, AppliedFacts, ShownMeFacts, ClearFacts,
     RefreshedFacts DEF Moves, Strolls, Takes, Shared
<1>6. QED BY <1>2, <1>3, <1>4, <1>5

LEMMA AsideAuth ==
  ASSUME Types, Showing, Aside
  PROVE  auth' = auth \/ \A i \in Calls : ~Current(call[i])'
<1>1. CASE auth' = auth
  BY <1>1
<1>2. CASE Renew /\ ~(auth' = auth)
  <2>1. auth'.session = auth.session + 1 /\ call' = call
    BY <1>2, RenewFacts DEF Types
  <2>2. ASSUME NEW i \in Calls
        PROVE  ~Current(call[i])'
    <3>1. Alone(i) /\ call'[i].session = call[i].session
      BY <2>1 DEF Alone, Types, TypeOK
    <3>2. QED BY <2>1, <3>1, NewSession
  <2>3. QED BY <2>2
<1>3. QED BY <1>1, <1>2, AsideFacts

(* The call that reads: what it holds was so when it asked, and is compared when it is back *)
LEMMA ReaderReads ==
  ASSUME Types, Dated, OneThread, Reads, NEW k \in Calls, Strolls(k), Reading(k)'
  PROVE  ReadsTrue(k)'
<1>1. /\ UNCHANGED <<auth, projection, shown, state>> /\ call'[k].pc \in {"read", "refreshing"}
      /\ call'[k].previous # 0 /\ state.writes \in Nat /\ shown.heard <= version
  BY SharedFields DEF Strolls, Shared, Reading, Types, Dated
<1>2. CASE /\ call'[k].pc = "read" /\ call'[k].read = 0 /\ call'[k].writes = state.writes
           /\ projection.session = auth.session
  BY <1>1, <1>2 DEF ReadsTrue
<1>3. CASE /\ call'[k].pc = "read" /\ call'[k].read = version /\ Authenticated
           /\ call[k].pc = "read" /\ Current(call[k]) /\ call'[k].writes = call[k].writes
           /\ call'[k].previous = call[k].previous
  <2>1. ReadsTrue(k)
    BY <1>1, <1>3 DEF Reads, Reading
  <2>2. QED BY <1>1, <1>3, <2>1 DEF ReadsTrue, Authenticated
<1>4. CASE call[k].pc = "read" /\ Current(call[k]) /\ Keeps(k)
  <2>1. ReadsTrue(k)
    BY <1>1, <1>4 DEF Reads, Reading, Keeps
  <2>2. QED BY <1>1, <1>4, <2>1 DEF ReadsTrue, Authenticated, Keeps
<1>5. QED BY <1>1, <1>2, <1>3, <1>4 DEF Strolls

(* Nobody forgets the subscription of a session in which a call reads *)
LEMMA ReaderKept ==
  ASSUME Types, Showing, Undisturbed, OneThread, NEW k \in Calls, Moves(k), auth' = auth,
         Authenticated, NEW i \in Calls, i # k, Current(call[i])
  PROVE  KeepsIt \/ Applies("rest", call[k].read, call[k].states)
<1>1. TypeOK /\ KnowsStill(k)
  BY DEF Types, Undisturbed
<1>2. ~Rollback(k)
  <2>1. SUFFICES ASSUME Rollback(k) PROVE FALSE
    OBVIOUS
  <2>2. SignOut
    BY <1>1, <2>1, RollbackFacts
  <2>3. auth'.who = Nobody
    BY <1>1, <2>2, SignOutFacts
  <2>4. QED BY <2>3 DEF Authenticated
<1>3. ~(Hydrate(k) /\ call[k].previous # auth.session)
  <2>1. SUFFICES ASSUME Hydrate(k), call[k].previous # auth.session PROVE FALSE
    OBVIOUS
  <2>2. call[k].pc = "hydrate"
    BY <1>1, <2>1, HydrateFacts
  <2>3. call[i].session <= call[k].previous /\ call[k].previous <= auth.session
    BY <1>1, <2>2 DEF KnowsStill, Showing, Past
  <2>4. call[k].previous \in Nat /\ auth.session \in Nat /\ call[i].session = auth.session
    BY <1>1, CallFields, SharedFields DEF Current
  <2>5. QED BY <2>1, <2>3, <2>4
<1>4. ~(ShownMe(k) /\ ~Current(call[k]))
  BY <1>1, ShownMeFacts DEF KnowsStill
<1>5. QED BY <1>2, <1>3, <1>4, MoverWrites

LEMMA StepReads ==
  ASSUME Types, Showing, Undisturbed, Told, [Next]_vars
  PROVE  Reads'
<1> SUFFICES ASSUME OneThread', NEW i \in Calls, Reading(i)'
             PROVE  ReadsTrue(i)'
  BY DEF Reads
<1>1. TypeOK /\ Reads /\ Dated
  BY DEF Types, Told
<1>2. /\ state.writes \in Nat /\ call[i].writes \in Nat
      /\ call[i].read \in Nat /\ shown.heard \in Nat
  BY <1>1, SharedFields, CallFields
<1>3. ASSUME auth' = auth, call'[i] = call[i], OneThread
      PROVE  /\ ReadsTrue(i) /\ projection'.session = auth'.session
             /\ Current(call[i])
             /\ KeepsIt \/ ~Authenticated => ReadsTrue(i)'
  <2>1. Reading(i)
    BY <1>3 DEF Reading, Current
  <2>2. ReadsTrue(i)
    BY <1>1, <1>3, <2>1 DEF Reads
  <2>3. projection'.session = auth'.session
    BY <1>3, <2>2, ProjectionMoves DEF ReadsTrue
  <2>4. QED BY <1>3, <2>1, <2>2, <2>3 DEF Reading, ReadsTrue, KeepsIt, Authenticated
<1>4. ASSUME NEW k \in Calls, Moves(k)
      PROVE  ReadsTrue(i)'
  <2>1. OneThread /\ Alone(k) /\ MayRun(k)
    BY <1>4, MoverFacts DEF KeepService, OneThread
  <2>2. auth' = auth
    BY <1>4, MoverAuth DEF Reading
  <2>3. CASE i = k
    <3>1. Strolls(k)
      BY <1>1, <1>4, <2>3, SkipFacts, InstalledFacts, HydrateFacts, AppliedFacts, ShownMeFacts,
         RollbackFacts, ClearFacts, RefreshedFacts
         DEF Moves, Reading, Leaves, Takes, Installs, Releases
    <3>2. QED BY <1>1, <2>1, <2>3, <3>1, ReaderReads
  <2>4. CASE i # k
    <3>1. call'[i] = call[i]
      BY <2>1, <2>4 DEF Alone
    <3>2. /\ ReadsTrue(i) /\ projection'.session = auth'.session /\ Current(call[i])
          /\ KeepsIt \/ ~Authenticated => ReadsTrue(i)'
      BY <1>3, <2>1, <2>2, <3>1
    <3>3. CASE Applies("rest", call[k].read, call[k].states)
      <4>1. state'.writes = state.writes /\ shown'.heard = shown.heard
        BY <3>3 DEF Applies
      <4>2. QED BY <2>2, <3>1, <3>2, <4>1 DEF ReadsTrue, Authenticated
    <3>4. CASE Authenticated /\ ~Applies("rest", call[k].read, call[k].states)
      BY <1>4, <2>1, <2>2, <2>4, <3>2, <3>4, ReaderKept
    <3>5. QED BY <3>2, <3>3, <3>4
  <2>5. QED BY <2>3, <2>4
<1>5. CASE Aside
  <2>1. UNCHANGED <<auth, call>> /\ OneThread
    BY <1>5, AsideFacts, AsideAuth DEF OneThread, Reading
  <2>2. /\ ReadsTrue(i) /\ projection'.session = auth'.session
        /\ KeepsIt \/ ~Authenticated => ReadsTrue(i)'
    BY <1>3, <2>1
  <2>3. ~(NoticeIn /\ projection.session # auth.session)
    BY <2>2 DEF ReadsTrue
  <2>4. ~(NoticeShown /\ ~Current(listener))
    BY <2>1, NoticeShownFacts DEF Undisturbed, Types
  <2>5. ASSUME NEW n, NEW states, Applies("socket", n, states)
        PROVE  ReadsTrue(i)'
    <3>1. state'.writes = state.writes + 1
      BY <2>5 DEF Applies
    <3>2. QED BY <1>2, <2>1, <2>2, <3>1 DEF ReadsTrue, Authenticated
  <2>6. QED BY <1>5, <2>2, <2>3, <2>4, <2>5, AsideWrites
<1>6. QED BY <1>4, <1>5, MovesOrAside

LEMMA AlwaysTold ==
  ConstantsAreSound /\ Spec => [](Types /\ Undisturbed /\ Told)
<1>1. Init => Told
  BY InitTold
<1>2. Types /\ Showing /\ Undisturbed /\ Told /\ [Next]_vars => Told'
  <2> SUFFICES ASSUME Types, Showing, Undisturbed, Told, [Next]_vars PROVE Told'
    OBVIOUS
  <2>1. Dated' /\ Stated'
    BY StepDated, StepStated DEF Told
  <2>2. QED BY <2>1, StepReads DEF Told
<1>3. QED BY <1>1, <1>2, AlwaysUndisturbed, PTL DEF Spec

(* On one thread, an answer without a version never takes the subscription     *)
(* back to one older than the socket wrote while it was under way; and what     *)
(* states a version never comes after what stated a newer, whatever was written *)
(* between them without one (apply_subscription_projection, and the resets).    *)
THEOREM NeverOlder ==
  ASSUME ConstantsAreSound
  PROVE  Spec => SubscriptionNeverOlder
<1>1. Types /\ Undisturbed /\ Told /\ [Next]_vars => [runtime = "one_thread" => NeverBack]_vars
  <2> SUFFICES ASSUME Types, Undisturbed, Told, [Next]_vars, OneThread
               PROVE  NeverBack
    BY DEF OneThread
  <2>1. shown'.newest # 0 => shown'.newest >= shown.newest
    BY StepStated DEF Told
  <2>2. ASSUME NEW k \in Calls, Replaces(k)
        PROVE  shown'.subscription >= shown.heard
    <3>1. /\ call[k].pc = "refreshing" /\ call'[k].pc = "done" /\ call[k].previous # 0
          /\ call[k].states = 0 /\ ~(shown'.subscription = shown.subscription)
      BY <2>2 DEF Replaces
    <3>2. Moves(k)
      <4>1. ~Aside
        BY <3>1, AsideFacts
      <4>2. PICK j \in Calls : Moves(j)
        BY <4>1, MovesOrAside
      <4>3. j = k
        BY <3>1, <4>2, MoverFacts DEF Alone
      <4>4. QED BY <4>2, <4>3
    <3>3. ~Clear(k) /\ ~Hydrate(k) /\ ~ShownMe(k) /\ ~Rollback(k)
      BY <3>1 DEF Clear, Hydrate, ShownMe, Rollback, At
    <3>4. /\ Applies("rest", call[k].read, call[k].states)
          /\ ~Older("rest", call[k].states, call[k].writes)
      BY <3>1, <3>2, <3>3, MoverWrites DEF KeepsIt
    <3>5. Current(call[k]) /\ call[k].read # 0
      BY <3>1 DEF Undisturbed, KnowsStill
    <3>6. ReadsTrue(k)
      BY <3>1, <3>5 DEF Told, Reads, Reading
    <3>7. call[k].writes = state.writes
      BY <3>1, <3>4 DEF Older
    <3>8. shown.heard \in Nat /\ call[k].read \in Nat
      BY SharedFields, CallFields DEF Types
    <3>9. QED BY <3>4, <3>5, <3>6, <3>7, <3>8 DEF Applies, ReadsTrue
  <2>3. QED BY <2>1, <2>2 DEF NeverBack
<1>2. QED BY <1>1, AlwaysTold, PTL DEF Spec, SubscriptionNeverOlder
===============================================================================
