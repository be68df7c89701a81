---------------------------- MODULE AccountSession ----------------------------
(***************************************************************************)
(* The account a client shows: login, set_tokens, logout and me, the       *)
(* projection of the signed-in account they share with the listener of     *)
(* sign-ins, and the subscription that REST reads and socket events both    *)
(* write (src/src/account/).                                               *)
(*                                                                         *)
(* Credentials are what module AuthSession does, for tokens: an account, a *)
(* session that every change of the account replaces, by a sign-in or by a *)
(* renewal, and requests that only succeed in the session they started in. *)
(* Code between two awaits runs undisturbed when the runtime has one       *)
(* thread; with many, others run between the checks and the writes of such *)
(* a section.                                                              *)
(***************************************************************************)
EXTENDS Naturals, Sequences, FiniteSets, TLC

CONSTANTS
  Calls,          \* the calls a client makes, each of any operation
  Operations,     \* those that are made, of "login", "set_tokens", "me", "logout", "refresh"
  Accounts,       \* the accounts that sign in
  Nobody,         \* no account
  Runtimes,       \* what runs the tasks, of "one_thread", "many_threads"
  MaxSession,     \* bound: an account signs in while session is below it
  MaxVersion      \* bound: the subscription changes while version is below it

Free == "free"
Listener == "listener"

(* ASSUMEd by the module that instantiates this one *)
ConstantsAreSound ==
  /\ Nobody \notin Accounts /\ Free \notin Calls /\ Listener \notin Calls
  /\ Operations \subseteq {"login", "set_tokens", "me", "logout", "refresh"}
  /\ Runtimes \subseteq {"one_thread", "many_threads"}
  /\ MaxSession \in Nat /\ MaxVersion \in Nat

VARIABLES
  auth,        \* the signed-in account and its session
  changed,     \* AuthManager.updates was written since the listener looked
  lock,        \* who holds the lock of the projection
  projection,  \* AuthProjectionState
  shown,       \* CurrentAccount: the account it describes, its subscription, and (history)
               \* what the socket wrote last and the last version stated by what was written
  state,       \* SubscriptionProjectionState
  call,        \* the position of each call and what it holds
  listener,    \* the same of the listener of sign-ins
  runtime,     \* what runs the tasks
  version,     \* the subscription as the service has it
  events,      \* the subscriptions that are on their way on the socket
  raced        \* (history) a renewal named another wallet while someone who held the
               \* lock of the projection was about to read the session

vars == <<auth, changed, lock, projection, shown, state, call, listener, runtime,
          version, events, raced>>

Account == Accounts \cup {Nobody}
Idle == [op |-> "none", pc |-> "idle", session |-> 0, who |-> Nobody, previous |-> 0, read |-> 0,
         states |-> 0, writes |-> 0]
NoState == [last |-> 0, writes |-> 0]

(* A new client is signed out, or was given tokens and has hydrated its account *)
Init ==
  /\ \E who \in Account :
       /\ auth = [session |-> 1, who |-> who]
       /\ projection = [hydrated |-> who # Nobody, skip |-> FALSE,
                        session |-> IF who = Nobody THEN 0 ELSE 1]
       /\ shown = [who |-> who, subscription |-> 0, heard |-> 0, newest |-> 0]
  /\ changed = FALSE /\ lock = Free
  /\ state = NoState
  /\ call = [k \in Calls |-> Idle]
  /\ listener = Idle
  /\ runtime \in Runtimes
  /\ version = 1 /\ events = <<>> /\ raced = FALSE

Authenticated == auth.who # Nobody
At(k, position) == call[k].pc = position

(* Where a task waits for the network: with one thread, it runs on everywhere else, and *)
(* never finds the lock taken *)
Awaiting == {"idle", "done", "nonce", "fetch", "leave", "read"}
MayRun(me) ==
  \/ runtime = "many_threads"
  \/ /\ \A k \in Calls \ {me} : call[k].pc \in Awaiting
     /\ me # Listener => listener.pc \in Awaiting
Elsewhere == MayRun(Free)     \* a task that is none of these runs

Goto(k, position) == call' = [call EXCEPT ![k].pc = position]
Done(k) == call' = [call EXCEPT ![k] = [Idle EXCEPT !.pc = "done", !.op = call[k].op]]

--------------------------------------------------------------------------------
(***************************************************************************)
(* What the calls are made of.                                             *)
(***************************************************************************)
(* RequestSession.check *)
Current(c) == auth.session = c.session

(* AuthManager.replace of a token pair, and clear: the same account keeps its session *)
SignIn(who) ==
  /\ auth' = [who |-> who, session |-> IF who = auth.who THEN auth.session ELSE auth.session + 1]
  /\ changed' = TRUE

SignOut == auth' = [who |-> Nobody, session |-> auth.session + 1] /\ changed' = TRUE

(* reset_account_projection *)
Unknown(who) == [who |-> who, subscription |-> 0, heard |-> 0, newest |-> 0]
Reset == shown' = Unknown(Nobody) /\ state' = NoState

KeepShown == UNCHANGED <<shown, state>>
KeepService == UNCHANGED <<listener, runtime, version, events, raced>>
KeepAuth == UNCHANGED <<auth, changed>>

(* Fault: the lock is taken outside the guard of the session *)
TakeUnguarded(c) == lock = Free

(* Waiting for the lock inside RequestSession.run: the end of the session ends the wait *)
TakeGuarded(c) == lock = Free /\ Current(c)

(* apply_current_account *)
Show(who) == shown' = [shown EXCEPT !.who = who] /\ UNCHANGED state

(* The end of me, and of the listener: the session is read again, and the projection is of it *)
ShowNow(c) ==
  /\ IF Current(c) THEN Show(c.who) ELSE shown' = Unknown(c.who) /\ state' = NoState
  /\ projection' = [projection EXCEPT !.session = auth.session, !.hydrated = TRUE]

--------------------------------------------------------------------------------
(***************************************************************************)
(* login_with_settings, create_account and set_tokens_and_hydrate.         *)
(***************************************************************************)
Start(k) ==
  /\ At(k, "idle") /\ MayRun(k)
  /\ \E op \in Operations :
       /\ \E who \in IF op \in {"login", "set_tokens"} THEN Accounts ELSE {Nobody} :
            call' = [call EXCEPT ![k] = [Idle EXCEPT !.op = op, !.who = who,
                       !.session = auth.session, !.writes = state.writes,
                       !.previous = IF op = "refresh" /\ projection.session = auth.session
                                      THEN auth.session ELSE 0,
                       !.pc = CASE op = "login" -> "nonce" [] op = "set_tokens" -> "skip"
                                [] op = "me" -> "fetch" [] op = "logout" -> "leave"
                                [] op = "refresh" -> "read"]]
       /\ op \in {"login", "set_tokens"} => auth.session < MaxSession
  /\ UNCHANGED <<lock, projection>> /\ KeepAuth /\ KeepShown /\ KeepService

(* The nonce, the signature and the answer of the service *)
LoginAnswered(k) ==
  /\ At(k, "nonce") /\ Current(call[k]) /\ MayRun(k)
  /\ Goto(k, "skip") \/ Done(k)
  /\ UNCHANGED <<lock, projection>> /\ KeepAuth /\ KeepShown /\ KeepService

(* The session of the call ended while it waited *)
Superseded(k) ==
  /\ call[k].pc \in {"nonce", "hydrate", "apply", "read"} \/ (At(k, "skip") /\ call[k].op = "login")
     \/ (At(k, "fetch") /\ call[k].op = "me") \/ (At(k, "show") /\ call[k].op = "me")
  /\ ~Current(call[k]) /\ MayRun(k)
  /\ Done(k)
  /\ UNCHANGED <<lock, projection>> /\ KeepAuth /\ KeepShown /\ KeepService

(* The sign-in it announces is hydrated by the call: the listener need not *)
Skip(k) ==
  /\ At(k, "skip") /\ lock = Free /\ MayRun(k)
  /\ call[k].op = "login" => Current(call[k])
  /\ projection' = [projection EXCEPT !.skip = TRUE]
  /\ call' = [call EXCEPT ![k].pc = "installing", ![k].previous = auth.session]
  /\ UNCHANGED lock /\ KeepAuth /\ KeepShown /\ KeepService

(* The credentials are installed, or refused *)
Install(k) ==
  /\ At(k, "installing") /\ MayRun(k)
  /\ \/ /\ auth.session < MaxSession + 1
        /\ SignIn(call[k].who) /\ Goto(k, "installed")
     \/ Goto(k, "clear") /\ KeepAuth
  /\ UNCHANGED <<lock, projection>> /\ KeepShown /\ KeepService

(* hydrate_installed_authentication starts from the session it then finds *)
Installed(k) ==
  /\ At(k, "installed") /\ MayRun(k)
  /\ call' = [call EXCEPT ![k].pc = "hydrate", ![k].session = auth.session]
  /\ UNCHANGED <<lock, projection>> /\ KeepAuth /\ KeepShown /\ KeepService

Hydrate(k) ==
  /\ At(k, "hydrate") /\ TakeGuarded(call[k]) /\ MayRun(k)
  /\ projection' = [projection EXCEPT !.session = call[k].session, !.hydrated = FALSE]
  /\ IF call[k].session # call[k].previous THEN Reset ELSE KeepShown
  /\ Goto(k, "fetch")
  /\ UNCHANGED lock /\ KeepAuth /\ KeepService

(* fetch_current_account in the session of the call *)
Fetched(k) ==
  /\ At(k, "fetch") /\ Current(call[k]) /\ Authenticated /\ MayRun(k)
  /\ call' = [call EXCEPT ![k].who = auth.who,
                          ![k].pc = IF call[k].op = "me" THEN "show" ELSE "apply"]
  /\ UNCHANGED <<lock, projection>> /\ KeepAuth /\ KeepShown /\ KeepService

(* It fails: on the way, because the session ended, or with a 401 that ends it *)
FetchFails(k) ==
  /\ At(k, "fetch") /\ MayRun(k)
  /\ IF call[k].op = "me" THEN Done(k) ELSE Goto(k, "undo")
  /\ \/ KeepAuth
     \/ Current(call[k]) /\ Authenticated /\ SignOut
  /\ UNCHANGED <<lock, projection>> /\ KeepShown /\ KeepService

Apply(k) ==
  /\ At(k, "apply") /\ TakeGuarded(call[k]) /\ MayRun(k)
  /\ lock' = k /\ Goto(k, "applying")
  /\ UNCHANGED projection /\ KeepAuth /\ KeepShown /\ KeepService

Applied(k) ==
  /\ At(k, "applying") /\ MayRun(k)
  /\ Show(call[k].who)
  /\ projection' = [projection EXCEPT !.hydrated = TRUE]
  /\ lock' = Free /\ Done(k)
  /\ KeepAuth /\ KeepService

(* Fault: a hydration that failed signs out whoever is signed in *)
UndoAlways(k) ==
  /\ At(k, "undo") /\ lock = Free /\ MayRun(k)
  /\ lock' = k /\ Goto(k, "rollback")
  /\ UNCHANGED projection /\ KeepAuth /\ KeepShown /\ KeepService

(* A failed hydration is undone, unless another account signed in meanwhile *)
Undo(k) ==
  /\ At(k, "undo") /\ lock = Free /\ MayRun(k)
  /\ IF Current(call[k]) \/ ~Authenticated
       THEN lock' = k /\ Goto(k, "rollback")
       ELSE UNCHANGED lock /\ Done(k)
  /\ UNCHANGED projection /\ KeepAuth /\ KeepShown /\ KeepService

(* rollback_failed_initial_hydration *)
Rollback(k) ==
  /\ At(k, "rollback") /\ MayRun(k)
  /\ SignOut
  /\ projection' = [projection EXCEPT !.hydrated = FALSE, !.skip = FALSE]
  /\ Reset
  /\ lock' = Free /\ Done(k)
  /\ KeepService

--------------------------------------------------------------------------------
(***************************************************************************)
(* logout and me.                                                          *)
(***************************************************************************)
(* The service answers; the session is compared *)
Left(k) ==
  /\ At(k, "leave") /\ MayRun(k)
  /\ IF Current(call[k]) THEN Goto(k, "clearing") ELSE Done(k)
  /\ UNCHANGED <<lock, projection>> /\ KeepAuth /\ KeepShown /\ KeepService

(* A 401 has ended the session already; another failure leaves it *)
LeaveFails(k) ==
  /\ At(k, "leave") /\ MayRun(k)
  /\ \/ Current(call[k]) /\ Authenticated /\ SignOut /\ Goto(k, "clear")
     \/ Done(k) /\ KeepAuth
  /\ UNCHANGED <<lock, projection>> /\ KeepShown /\ KeepService

ClearAuth(k) ==
  /\ At(k, "clearing") /\ MayRun(k)
  /\ SignOut
  /\ Goto(k, "clear")
  /\ UNCHANGED <<lock, projection>> /\ KeepShown /\ KeepService

(* clear_deauthenticated_projection and handle_deauthenticated, under the lock *)
ClearProjection ==
  IF Authenticated THEN UNCHANGED projection /\ KeepShown
  ELSE /\ projection' = [projection EXCEPT !.hydrated = FALSE, !.skip = FALSE]
       /\ Reset

Clear(k) ==
  /\ At(k, "clear") /\ lock = Free /\ MayRun(k)
  /\ ClearProjection
  /\ Done(k)
  /\ UNCHANGED lock /\ KeepAuth /\ KeepService

(* me has its answer: the lock is taken in the session, then the session is read again *)
ShowMe(k) ==
  /\ At(k, "show") /\ TakeGuarded(call[k]) /\ MayRun(k)
  /\ lock' = k /\ Goto(k, "showing")
  /\ UNCHANGED projection /\ KeepAuth /\ KeepShown /\ KeepService

ShownMe(k) ==
  /\ At(k, "showing") /\ MayRun(k)
  /\ ShowNow(call[k])
  /\ lock' = Free /\ Done(k)
  /\ KeepAuth /\ KeepService

--------------------------------------------------------------------------------
(***************************************************************************)
(* The listener of sign-ins.                                               *)
(***************************************************************************)
ListenerIdle == listener.pc = "idle"
ListenerSide == UNCHANGED <<auth, call, runtime, version, events, raced>>

(* It sees only the latest of several changes *)
Notice ==
  /\ ListenerIdle /\ changed /\ MayRun(Listener)
  /\ changed' = FALSE
  /\ listener' = [Idle EXCEPT !.pc = IF Authenticated THEN "in" ELSE "out", !.session = auth.session]
  /\ UNCHANGED <<lock, projection, shown, state>> /\ ListenerSide

(* handle_deauthenticated *)
NoticeOut ==
  /\ listener.pc = "out" /\ lock = Free /\ MayRun(Listener)
  /\ ClearProjection
  /\ listener' = Idle
  /\ UNCHANGED <<changed, lock>> /\ ListenerSide

(* handle_authenticated, up to its request *)
NoticeIn ==
  /\ listener.pc = "in" /\ lock = Free /\ MayRun(Listener)
  /\ LET other == projection.session # listener.session
     IN IF ~Current(listener) THEN listener' = Idle /\ UNCHANGED projection /\ KeepShown
        ELSE /\ IF other THEN Reset ELSE KeepShown
             /\ projection' = [hydrated |-> projection.hydrated /\ ~other, skip |-> FALSE,
                               session |-> listener.session]
             /\ listener' = IF projection.skip \/ projection'.hydrated \/ ~Authenticated
                              THEN Idle ELSE [listener EXCEPT !.pc = "fetch"]
  /\ UNCHANGED <<changed, lock>> /\ ListenerSide

(* Its request is answered, fails, or ends with the session *)
NoticeFetched ==
  /\ listener.pc = "fetch" /\ MayRun(Listener)
  /\ \/ /\ Current(listener) /\ Authenticated
        /\ listener' = [listener EXCEPT !.pc = "show", !.who = auth.who]
     \/ listener' = Idle
  /\ UNCHANGED <<changed, lock, projection, shown, state>> /\ ListenerSide

NoticeShow ==
  /\ listener.pc = "show" /\ MayRun(Listener)
  /\ \/ /\ Current(listener) /\ lock = Free
        /\ lock' = Listener /\ listener' = [listener EXCEPT !.pc = "showing"]
     \/ ~Current(listener) /\ listener' = Idle /\ UNCHANGED lock
  /\ UNCHANGED <<changed, projection, shown, state>> /\ ListenerSide

(* It looks whether an account is signed in, which may leave right after that *)
NoticeShown ==
  /\ listener.pc = "showing" /\ MayRun(Listener)
  /\ ShowNow(listener) \/ (~Authenticated /\ UNCHANGED projection /\ KeepShown)
  /\ lock' = Free /\ listener' = Idle
  /\ UNCHANGED changed /\ ListenerSide

--------------------------------------------------------------------------------
(***************************************************************************)
(* The subscription: REST reads and the events of the socket.              *)
(***************************************************************************)
(* The subscription changes, and the socket of the account says so.  What is sent states a *)
(* version, or none (0)                                                                    *)
Entitlement ==
  /\ Authenticated /\ version < MaxVersion
  /\ version' = version + 1
  /\ \E states \in {0, version'} :
       events' = Append(events, [session |-> auth.session, version |-> version', states |-> states])
  /\ UNCHANGED <<lock, projection, call, listener, runtime, raced>> /\ KeepAuth /\ KeepShown

(* Fault: an answer without a version replaces what the socket wrote meanwhile *)
OlderIgnoringWrites(source, states, writes) == states # 0 /\ states < state.last

(* What apply_subscription_projection refuses: each answer by what it states itself *)
Older(source, states, writes) ==
  \/ states # 0 /\ states < state.last
  \/ source = "rest" /\ states = 0 /\ writes # state.writes

(* apply_subscription_projection *)
ApplySubscription(source, read, states, writes) ==
  IF Older(source, states, writes) THEN KeepShown
  ELSE /\ state' = [last |-> IF states = 0 THEN state.last ELSE states,
                    writes |-> IF source = "socket" THEN state.writes + 1 ELSE state.writes]
       /\ shown' = [shown EXCEPT !.subscription = read,
                                 !.heard = IF source = "socket" THEN read ELSE @,
                                 !.newest = IF states = 0 THEN @ ELSE states]

(* The socket's event of the current session is applied, any other is skipped *)
Entitled ==
  /\ events # <<>> /\ Elsewhere
  /\ events' = Tail(events)
  /\ LET event == Head(events)
     IN IF event.session # auth.session THEN KeepShown
        ELSE ApplySubscription("socket", event.version, event.states, 0)
  /\ UNCHANGED <<lock, projection, call, listener, runtime, version, raced>> /\ KeepAuth

(* refresh_subscription_projection: the service reads what it has *)
Read(k) ==
  /\ At(k, "read") /\ call[k].read = 0 /\ Current(call[k]) /\ Authenticated /\ MayRun(k)
  /\ \E states \in {0, version} : call' = [call EXCEPT ![k].read = version, ![k].states = states]
  /\ UNCHANGED <<lock, projection>> /\ KeepAuth /\ KeepShown /\ KeepService

(* The answer arrives in the session it was asked in, and is applied *)
Answered(k) ==
  /\ At(k, "read") /\ call[k].read # 0 /\ Current(call[k]) /\ MayRun(k)
  /\ Goto(k, "refreshing")
  /\ UNCHANGED <<lock, projection>> /\ KeepAuth /\ KeepShown /\ KeepService

Refreshed(k) ==
  /\ At(k, "refreshing") /\ MayRun(k)
  /\ ApplySubscription("rest", call[k].read, call[k].states, call[k].writes)
  /\ Done(k)
  /\ UNCHANGED <<lock, projection>> /\ KeepAuth /\ KeepService

--------------------------------------------------------------------------------
(* A request under way had to renew the tokens: the new ones may name another wallet, whose *)
(* session only the listener will be told of                                                *)
Renew ==
  /\ Authenticated /\ Elsewhere
  /\ \E who \in Accounts :
       /\ who # auth.who => auth.session < MaxSession
       /\ SignIn(who)
       /\ raced' = (raced \/ (who # auth.who /\ "showing" \in {call[k].pc : k \in Calls} \cup {listener.pc}))
  /\ UNCHANGED <<lock, projection, call, listener, runtime, version, events>> /\ KeepShown

CallStep(k) ==
  \/ LoginAnswered(k) \/ Superseded(k) \/ Skip(k) \/ Install(k) \/ Installed(k) \/ Hydrate(k)
  \/ Fetched(k) \/ FetchFails(k) \/ Apply(k) \/ Applied(k) \/ Undo(k) \/ Rollback(k)
  \/ Left(k) \/ LeaveFails(k) \/ ClearAuth(k) \/ Clear(k) \/ ShowMe(k) \/ ShownMe(k)
  \/ Read(k) \/ Answered(k) \/ Refreshed(k)
Listen == Notice \/ NoticeOut \/ NoticeIn \/ NoticeFetched \/ NoticeShow \/ NoticeShown
Next == Listen \/ Renew \/ Entitlement \/ Entitled \/ \E k \in Calls : Start(k) \/ CallStep(k)

Spec == Init /\ [][Next]_vars

--------------------------------------------------------------------------------
(***************************************************************************)
(* Properties.                                                             *)
(***************************************************************************)
Holdings == [op : Operations \cup {"none"},
             pc : Awaiting \cup {"skip", "installing", "installed", "hydrate", "apply", "applying",
                                 "undo", "rollback", "clearing", "clear", "show", "showing", "refreshing",
                                 "in", "out"},
             session : Nat, who : Account, previous : Nat, read : Nat, states : Nat, writes : Nat]

(* The types of the state *)
TypeOK ==
  /\ auth \in [who : Account, session : Nat] /\ changed \in BOOLEAN
  /\ lock \in Calls \cup {Free, Listener}
  /\ projection \in [hydrated : BOOLEAN, skip : BOOLEAN, session : Nat]
  /\ shown \in [who : Account, subscription : Nat, heard : Nat, newest : Nat]
  /\ state \in [last : Nat, writes : Nat]
  /\ call \in [Calls -> Holdings] /\ listener \in Holdings
  /\ runtime \in Runtimes /\ raced \in BOOLEAN
  /\ version \in Nat /\ events \in Seq([session : Nat, version : Nat, states : Nat])

(* On one thread, a call ends nobody's session but its own: whatever answer is delayed,   *)
(* an account that signed in meanwhile is not signed out by it (README.md, "A delayed     *)
(* response cannot sign out a newer account session").                                    *)
EndsOwnSession ==
  Authenticated /\ auth'.who = Nobody => \A k \in Calls : call'[k] # call[k] => Current(call[k])
OnlyOwnSignOut == [][runtime = "one_thread" => EndsOwnSession]_vars

Settled ==
  /\ \A k \in Calls : call[k].pc \in {"idle", "done"}
  /\ listener.pc = "idle" /\ ~changed

(* Once every call and the listener have ended, in whatever order, the account shown is   *)
(* the one signed in, or nobody's, and never one that has left: through sign-ins, failed  *)
(* hydrations and renewals that name another wallet, on one thread or many, unless such a *)
(* renewal raced a task that held the lock (see raced; it cannot on one thread).          *)
SettledShowsOwn ==
  Settled /\ ~raced =>
    /\ shown.who \in {auth.who, Nobody}
    /\ projection.hydrated => Authenticated /\ shown.who = auth.who

(* The answer of a refresh that states no version is applied; the refresh began when the  *)
(* projection was of its session, and not between a renewal and the listener's reset      *)
Replaces(k) ==
  /\ call[k].pc = "refreshing" /\ call'[k].pc = "done"
  /\ call[k].states = 0 /\ call[k].previous # 0
  /\ shown'.subscription # shown.subscription

(* On one thread, an answer without a version never takes the subscription back to one    *)
(* older than the socket wrote while it was under way; and what states a version, from    *)
(* REST or the socket, never comes after one that stated a newer, whatever was written    *)
(* between them without a version (apply_subscription_projection and the resets).         *)
NeverBack ==
  /\ \A k \in Calls : Replaces(k) => shown'.subscription >= shown.heard
  /\ shown'.newest # 0 => shown'.newest >= shown.newest
SubscriptionNeverOlder == [][runtime = "one_thread" => NeverBack]_vars

===============================================================================
