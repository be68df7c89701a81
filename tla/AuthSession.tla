------------------------------ MODULE AuthSession ------------------------------
(***************************************************************************)
(* The credentials of one client and the authenticated requests that use   *)
(* them: AuthManager and RequestSession (src/src/auth.rs), the             *)
(* authenticated sender of RestClient (src/src/transport/rest.rs) and the  *)
(* clearable cookie jar (src/src/transport/cookies.rs).                    *)
(*                                                                         *)
(* Operations run on several threads.  Every step below is what the code   *)
(* does between two points where another thread may act: an await, or the  *)
(* release of a lock.  A section under the write lock of AuthState is one  *)
(* step.  The user signs in, signs out and closes at any moment.           *)
(*                                                                         *)
(* A definition marked "Fault" is not part of the specification: put in    *)
(* the place of the definition after it, it must break a property.         *)
(***************************************************************************)
EXTENDS Naturals

CONSTANTS
  Workers,      \* the concurrent authenticated operations
  Accounts,     \* the wallets a token or a cookie may belong to
  NoAccount,    \* the absent identity (Option::None)
  Kinds,        \* the AuthKinds a client may be configured with
  MaxRevision   \* bound: the user, the clock and 401s act while revision is below it

ASSUME AuthAssumption ==
  /\ NoAccount \notin Accounts
  /\ Kinds \subseteq {"Token", "ApiKey", "Cookies"}
  /\ MaxRevision \in Nat

VARIABLES
  kind,         \* AuthInner.kind, fixed when the client is built
  credentials,  \* AuthState.credentials
  age,          \* which JWTs of the installed pair have expired, "valid" without a pair
  identity,     \* AuthState.identity
  session,      \* AuthState.version.session, also the value of the session watch
  revision,     \* AuthState.version.revision
  closed,       \* AuthInner.closed
  refreshLock,  \* which mutex refresh_lock holds, named by the session that made it
  generation,   \* CookieState.generation
  jar,          \* CookieState.jar: for each cookie, the generation it was earned in
  minted,       \* history: secrets (tokens, keys) issued so far
  op            \* the state of each operation

authVars == <<credentials, age, identity, session, revision, closed, refreshLock>>
cookieVars == <<generation, jar>>
vars == <<kind, authVars, cookieVars, minted, op>>

Identities == Accounts \cup {NoAccount}
Ages == {"valid", "stale", "dead"}   \* both unexpired, token expired, both expired
Versions == [session : Nat, revision : Nat]
Credentials == [kind : {"Empty", "ApiKey", "Tokens", "Cookies"},
                owner : Identities, secret : Nat]
Empty == [kind |-> "Empty", owner |-> NoAccount, secret |-> 0]
Version == [session |-> session, revision |-> revision]

(***************************************************************************)
(* What an operation holds in its local variables.  home is the session it *)
(* started in, lease the session of the RequestSession that guards its     *)
(* current await, prep the session headers() read first.                   *)
(***************************************************************************)
Stages == {"idle", "read", "renew", "lock", "locked", "expired", "refresh",
           "refreshing", "refreshed", "report", "attach", "cookies", "send",
           "sent", "response", "store", "storing", "body"}
Outcomes == {"none", "ok", "unauthorized", "failed", "refused", "dropped"}
Answers == {"none", "ok", "unauthorized", "failed", "malformed"}

Operations ==
  [pc : Stages, task : {"request", "login"}, home : Nat, lease : Nat, prep : Nat,
   lock : Nat, version : Versions, held : Credentials, heldIn : Nat,
   generation : Nat, cookies : SUBSET Nat, answer : Answers, fresh : Identities,
   earned : BOOLEAN, rejected : Nat, outcome : Outcomes]

Idle == [pc |-> "idle", task |-> "request", home |-> 0, lease |-> 0, prep |-> 0,
         lock |-> 0, version |-> [session |-> 0, revision |-> 0], held |-> Empty,
         heldIn |-> 0, generation |-> 0, cookies |-> {}, answer |-> "none",
         fresh |-> NoAccount, earned |-> FALSE, rejected |-> 0, outcome |-> "none"]

Init ==
  /\ kind \in Kinds
  /\ credentials = Empty
  /\ age = "valid"
  /\ identity = NoAccount
  /\ session = 0
  /\ revision = 0
  /\ closed = FALSE
  /\ refreshLock = 0
  /\ generation = 0
  /\ jar = {}
  /\ minted = 0
  /\ op = [w \in Workers |-> Idle]

--------------------------------------------------------------------------------
(* RequestSession.check for a session id *)
Live(id) == ~closed /\ session = id

(* Fault: the generation is taken back instead of advanced *)
ClearJarBackwards ==
  /\ generation' = generation - 1
  /\ jar' = {}

ClearJar ==
  /\ generation' = generation + 1
  /\ jar' = {}

(* Fault: a token pair always continues the session, whatever its wallet *)
SameSessionAnyWallet(new, id) ==
  new.kind = credentials.kind /\ new.kind = "Tokens"

(* Whether installing these credentials continues the installed session *)
SameSession(new, id) ==
  CASE new.kind = "ApiKey" /\ credentials.kind = "ApiKey" ->
         new.secret = credentials.secret
    [] new.kind = "Cookies" /\ credentials.kind = "Cookies" ->
         \/ id = NoAccount
         \/ identity = NoAccount
         \/ id = identity
    [] new.kind = "Tokens" /\ credentials.kind = "Tokens" ->
         IF id # NoAccount /\ identity # NoAccount
           THEN id = identity
           ELSE new.secret = credentials.secret
    [] OTHER -> FALSE

(* Fault: the same session is continued under the same revision *)
ReplaceUnversioned(new, newAge, id) ==
  /\ ~closed
  /\ credentials' = new
  /\ age' = newAge
  /\ closed' = closed
  /\ IF SameSession(new, id)
       THEN /\ identity' = IF id # NoAccount THEN id ELSE identity
            /\ UNCHANGED <<session, revision, refreshLock, cookieVars>>
       ELSE /\ identity' = id
            /\ revision' = revision + 1
            /\ session' = session + 1
            /\ refreshLock' = session + 1
            /\ IF new.kind = "Cookies" THEN UNCHANGED cookieVars ELSE ClearJar

Replace(new, newAge, id) ==
  /\ ~closed
  /\ credentials' = new
  /\ age' = newAge
  /\ revision' = revision + 1
  /\ closed' = closed
  /\ IF SameSession(new, id)
       THEN /\ identity' = IF id # NoAccount THEN id ELSE identity
            /\ UNCHANGED <<session, refreshLock, cookieVars>>
       ELSE /\ identity' = id
            /\ session' = session + 1
            /\ refreshLock' = session + 1
            /\ IF new.kind = "Cookies" THEN UNCHANGED cookieVars ELSE ClearJar

(* clear_if_version: sign out the session a rejected request belongs to *)
(* Fault: only the session is compared, not the revision *)
MatchesSessionOnly(version) == ~closed /\ version.session = session

Matches(version) == ~closed /\ version = Version

ClearIfVersion(version) ==
  IF Matches(version)
    THEN /\ ClearJar
         /\ credentials' = Empty
         /\ identity' = NoAccount
         /\ session' = session + 1
         /\ revision' = revision + 1
         /\ age' = "valid"
         /\ UNCHANGED <<closed, refreshLock>>
    ELSE UNCHANGED <<authVars, cookieVars>>

Become(w, o) == op' = [op EXCEPT ![w] = o]
Finish(w, outcome) == Become(w, [Idle EXCEPT !.outcome = outcome])
NoSharedChange == UNCHANGED <<authVars, cookieVars, minted>>

--------------------------------------------------------------------------------
(***************************************************************************)
(* The user and the clock.                                                 *)
(***************************************************************************)
MayAct == revision < MaxRevision

(* The same secret installed again, or one never seen before *)
Secrets(type) == {minted + 1} \cup
  (IF credentials.kind = type THEN {credentials.secret} ELSE {})
OwnerOf(secret, a) == IF secret = minted + 1 THEN a ELSE credentials.owner

(* authenticate_tokens: a pair whose token has already expired is renewed at once *)
AuthenticateTokens(w) ==
  /\ kind = "Token" /\ MayAct /\ op[w].pc = "idle"
  /\ \E secret \in Secrets("Tokens"), a \in Identities, newAge \in Ages :
       LET owner == OwnerOf(secret, a)
       IN /\ Replace([kind |-> "Tokens", owner |-> owner, secret |-> secret], newAge, owner)
          /\ minted' = IF secret = minted + 1 THEN secret ELSE minted
          /\ IF newAge = "valid"
               THEN op' = op
               ELSE Become(w, [Idle EXCEPT !.pc = "renew", !.task = "login"])

AuthenticateApiKey ==
  /\ kind = "ApiKey" /\ MayAct
  /\ \E secret \in Secrets("ApiKey"), a \in Accounts :
       /\ Replace([kind |-> "ApiKey", owner |-> OwnerOf(secret, a), secret |-> secret],
                  "valid", NoAccount)
       /\ minted' = IF secret = minted + 1 THEN secret ELSE minted
  /\ op' = op

AuthenticateCookies ==
  /\ kind = "Cookies" /\ MayAct
  /\ Replace([kind |-> "Cookies", owner |-> NoAccount, secret |-> 0], "valid", NoAccount)
  /\ UNCHANGED <<minted, op>>

(* The account endpoint told whose cookies these are *)
SetCookieIdentity(a) ==
  /\ kind = "Cookies" /\ MayAct /\ ~closed
  /\ identity' = a
  /\ IF identity # NoAccount /\ identity # a
       THEN session' = session + 1 /\ revision' = revision + 1
       ELSE UNCHANGED <<session, revision>>
  /\ UNCHANGED <<credentials, age, closed, refreshLock, cookieVars, minted, op>>

Clear ==
  /\ MayAct
  /\ Replace(Empty, "valid", NoAccount)
  /\ UNCHANGED <<minted, op>>

Close ==
  /\ ~closed
  /\ closed' = TRUE
  /\ ClearJar
  /\ credentials' = Empty
  /\ identity' = NoAccount
  /\ session' = session + 1
  /\ revision' = revision + 1
  /\ age' = "valid"
  /\ UNCHANGED <<refreshLock, minted, op>>

(* Time passes an expiry claim of the installed pair *)
Expire ==
  /\ MayAct /\ credentials.kind = "Tokens"
  /\ \/ age = "valid" /\ age' \in {"stale", "dead"}
     \/ age = "stale" /\ age' = "dead"
  /\ UNCHANGED <<credentials, identity, session, revision, closed, refreshLock,
                 cookieVars, minted, op>>

--------------------------------------------------------------------------------
(***************************************************************************)
(* headers() and renew_token(), inside the RequestSession guard of the     *)
(* sender: a guard looks at the session when its await resumes and when    *)
(* it completes, and nowhere else.                                         *)
(***************************************************************************)
Begin(w) ==
  /\ op[w].pc = "idle" /\ ~closed
  /\ Become(w, [Idle EXCEPT !.pc = "read", !.home = session, !.lease = session])
  /\ NoSharedChange

ReadState(w) ==
  /\ op[w].pc = "read"
  /\ Become(w, [op[w] EXCEPT !.prep = session,
       !.pc = IF credentials.kind = "Tokens" /\ age # "valid" THEN "renew" ELSE "attach"])
  /\ NoSharedChange

StartRenewal(w) ==
  /\ op[w].pc = "renew"
  /\ Become(w, [op[w] EXCEPT !.pc = "lock", !.lease = session, !.lock = refreshLock,
       !.home = IF op[w].task = "login" THEN session ELSE op[w].home])
  /\ NoSharedChange

(* Fault: the guard is dropped once the tokens are read *)
HoldsLockWhileReading(w) == op[w].pc = "locked"

HoldsLock(w) == op[w].pc \in {"locked", "expired", "refresh", "refreshing", "refreshed"}
(* Fault: a waiter counts as a holder *)
LockFreeOfWaiters(lock) == \A v \in Workers : op[v].pc = "lock" => op[v].lock # lock

LockFree(lock) == \A v \in Workers : HoldsLock(v) => op[v].lock # lock

AcquireLock(w) ==
  /\ op[w].pc = "lock" /\ LockFree(op[w].lock)
  /\ IF Live(op[w].lease)
       THEN Become(w, [op[w] EXCEPT !.pc = "locked"])
       ELSE Finish(w, "refused")
  /\ NoSharedChange

(* The lock is held: another holder may have renewed or replaced the pair *)
ReadTokens(w) ==
  /\ op[w].pc = "locked"
  /\ CASE credentials.kind # "Tokens" -> Finish(w, "failed")
       [] credentials.kind = "Tokens" /\ age = "valid" ->
            IF op[w].task = "login" THEN Finish(w, "ok")
                                    ELSE Become(w, [op[w] EXCEPT !.pc = "attach"])
       [] OTHER ->
            Become(w, [op[w] EXCEPT !.pc = IF age = "stale" THEN "refresh" ELSE "expired",
                                    !.version = Version, !.held = credentials])
  /\ NoSharedChange

DropExpired(w) ==
  /\ op[w].pc = "expired"
  /\ ClearIfVersion(op[w].version)
  /\ Become(w, [op[w] EXCEPT !.pc = "report", !.answer = "failed"])
  /\ UNCHANGED minted

PostRefresh(w) ==
  /\ op[w].pc = "refresh"
  /\ IF Live(op[w].lease)
       THEN Become(w, [op[w] EXCEPT !.pc = "refreshing"])
       ELSE Finish(w, "refused")
  /\ NoSharedChange

(* The exchange ends: both guards, the sender's and the renewal's, are checked *)
Guarded(w) == Live(op[w].lease) /\ Live(op[w].home)

AnswerRefresh(w) ==
  /\ op[w].pc = "refreshing"
  /\ IF Guarded(w)
       THEN \/ \E answer \in {"ok", "unauthorized", "failed", "malformed"}, a \in Identities :
                 /\ answer # "ok" => a = NoAccount
                 /\ Become(w, [op[w] EXCEPT !.pc = "refreshed", !.answer = answer, !.fresh = a])
            \/ Finish(w, "failed")               \* transport error: nothing is cleared
       ELSE Finish(w, "refused")
  /\ NoSharedChange

RefuseRefresh(w) ==
  /\ op[w].pc = "refreshed" /\ op[w].answer # "ok"
  /\ ClearIfVersion(op[w].version)
  /\ Become(w, [op[w] EXCEPT !.pc = "report", !.rejected =
       IF Matches(op[w].version) /\ op[w].answer = "unauthorized" THEN session + 1 ELSE 0])
  /\ UNCHANGED minted

InstallRefresh(w) ==
  /\ op[w].pc = "refreshed" /\ op[w].answer = "ok"
  /\ IF ~Matches(op[w].version)
       THEN /\ Become(w, [op[w] EXCEPT !.pc = "report", !.answer = "failed"])
            /\ UNCHANGED <<authVars, minted>>
       ELSE LET id == op[w].fresh
                moved == identity # NoAccount /\ id # NoAccount /\ identity # id
            IN /\ credentials' = [kind |-> "Tokens", owner |-> id, secret |-> minted + 1]
               /\ age' = "valid"
               /\ identity' = IF id # NoAccount THEN id ELSE identity
               /\ session' = IF moved THEN session + 1 ELSE session
               /\ refreshLock' = IF moved THEN session + 1 ELSE refreshLock
               /\ revision' = revision + 1
               /\ closed' = closed
               /\ minted' = minted + 1
               /\ IF op[w].task = "login"
                    THEN Finish(w, "ok")
                    ELSE Become(w, [op[w] EXCEPT !.pc = "attach", !.answer = "none"])
  /\ UNCHANGED cookieVars

(* A failed renewal leaves headers(): its own 401 is reported as such *)
Report(w) ==
  /\ op[w].pc = "report"
  /\ LET own == op[w].rejected # 0 /\ Live(op[w].rejected)
     IN Finish(w, CASE op[w].answer = "unauthorized"
                         /\ (own \/ Live(op[w].home) \/ op[w].task = "login") -> "unauthorized"
                    [] op[w].answer # "unauthorized"
                         /\ (Live(op[w].home) \/ op[w].task = "login") -> "failed"
                    [] OTHER -> "refused")
  /\ NoSharedChange

(* headers() reads the credentials the request will carry, and its guard ends *)
ReadCredentials(w) ==
  /\ op[w].pc = "attach"
  /\ IF Live(op[w].prep) /\ Live(op[w].home)
       THEN Become(w, [op[w] EXCEPT !.pc = "cookies", !.version = Version,
                                    !.held = credentials, !.heldIn = generation])
       ELSE Finish(w, "refused")
  /\ NoSharedChange

--------------------------------------------------------------------------------
(***************************************************************************)
(* send_authenticated() once it has its headers, and the response body.    *)
(***************************************************************************)
ReadCookies(w) ==
  /\ op[w].pc = "cookies"
  /\ Become(w, [op[w] EXCEPT !.pc = "send", !.generation = generation, !.cookies = jar])
  /\ NoSharedChange

(* Fault: the session is not checked between the cookies and the send *)
SendUnchecked(w) ==
  /\ op[w].pc = "send"
  /\ Become(w, [op[w] EXCEPT !.pc = "sent", !.lease = op[w].home])
  /\ NoSharedChange

Send(w) ==
  /\ op[w].pc = "send"
  /\ IF Live(op[w].home)
       THEN Become(w, [op[w] EXCEPT !.pc = "sent", !.lease = op[w].home])
       ELSE Finish(w, "refused")
  /\ NoSharedChange

(* The response headers arrive, or the exchange fails *)
Respond(w) ==
  /\ op[w].pc = "sent"
  /\ IF Live(op[w].home)
       THEN \/ \E answer \in {"ok", "unauthorized"}, earned \in BOOLEAN :
                 /\ answer = "unauthorized" => MayAct
                 /\ Become(w, [op[w] EXCEPT !.pc = "response", !.answer = answer,
                                            !.earned = earned])
            \/ Finish(w, "failed")
       ELSE Finish(w, "refused")
  /\ NoSharedChange

(* Fault: the body of the request's own 401 stays with the ended session *)
HandleStatusOldSession(w) ==
  /\ op[w].pc = "response"
  /\ IF op[w].answer = "unauthorized"
       THEN /\ ClearIfVersion(op[w].version)
            /\ Become(w, [op[w] EXCEPT !.pc = "store", !.rejected =
                 IF Matches(op[w].version) THEN session + 1 ELSE 0])
       ELSE /\ Become(w, [op[w] EXCEPT !.pc = "store"])
            /\ UNCHANGED <<authVars, cookieVars>>
  /\ UNCHANGED minted

(* A 401 signs out the version it was sent with, whose epoch then owns the body *)
HandleStatus(w) ==
  /\ op[w].pc = "response"
  /\ IF op[w].answer = "unauthorized"
       THEN /\ ClearIfVersion(op[w].version)
            /\ Become(w, IF Matches(op[w].version)
                           THEN [op[w] EXCEPT !.pc = "store", !.lease = session + 1,
                                              !.rejected = session + 1]
                           ELSE [op[w] EXCEPT !.pc = "store"])
       ELSE /\ Become(w, [op[w] EXCEPT !.pc = "store"])
            /\ UNCHANGED <<authVars, cookieVars>>
  /\ UNCHANGED minted

CheckResponse(w) ==
  /\ op[w].pc = "store"
  /\ IF Live(op[w].lease)
       THEN Become(w, [op[w] EXCEPT !.pc = "storing"])
       ELSE Finish(w, "refused")
  /\ NoSharedChange

(* Fault: the generation is not compared *)
StoreAnyCookies(w) ==
  /\ op[w].pc = "storing"
  /\ jar' = IF op[w].earned THEN jar \cup {op[w].heldIn} ELSE jar
  /\ Become(w, [op[w] EXCEPT !.pc = "body"])
  /\ UNCHANGED <<authVars, generation, minted>>

(* store_response: cookies of another generation are ignored *)
StoreCookies(w) ==
  /\ op[w].pc = "storing"
  /\ jar' = IF op[w].earned /\ op[w].generation = generation
              THEN jar \cup {op[w].heldIn} ELSE jar
  /\ Become(w, [op[w] EXCEPT !.pc = "body"])
  /\ UNCHANGED <<authVars, generation, minted>>

StatusOutcome(w) == IF op[w].answer = "unauthorized" THEN "unauthorized" ELSE "ok"

(* Fault: the body is read outside the guard *)
ReadBodyUnguarded(w) ==
  /\ op[w].pc = "body"
  /\ Finish(w, StatusOutcome(w)) \/ Finish(w, "failed")
  /\ NoSharedChange

(* process_response and the frames of stream_sse: guarded to the last byte *)
ReadBody(w) ==
  /\ op[w].pc = "body"
  /\ IF Live(op[w].lease)
       THEN Finish(w, StatusOutcome(w)) \/ Finish(w, "failed")
       ELSE Finish(w, "refused")
  /\ NoSharedChange

(* Awaiting: the guard's select sees the session end before the answer comes *)
Awaiting(w) == op[w].pc \in {"lock", "refreshing", "sent", "body"}

Abandon(w) ==
  /\ Awaiting(w)
  /\ ~Live(op[w].lease) \/ (op[w].pc \in {"lock", "refreshing"} /\ ~Live(op[w].home))
  /\ Finish(w, "refused")
  /\ NoSharedChange

(* The caller drops the future at an await *)
Drop(w) ==
  /\ Awaiting(w)
  /\ Finish(w, "dropped")
  /\ NoSharedChange

--------------------------------------------------------------------------------
Renewal(w) ==
  \/ StartRenewal(w) \/ AcquireLock(w) \/ ReadTokens(w) \/ DropExpired(w)
  \/ PostRefresh(w) \/ AnswerRefresh(w) \/ RefuseRefresh(w) \/ InstallRefresh(w)
  \/ Report(w)

Exchange(w) ==
  \/ ReadState(w) \/ ReadCredentials(w) \/ ReadCookies(w) \/ Send(w) \/ Respond(w)
  \/ HandleStatus(w) \/ CheckResponse(w) \/ StoreCookies(w) \/ ReadBody(w)

Step(w) == Renewal(w) \/ Exchange(w) \/ Abandon(w)

User ==
  \/ AuthenticateApiKey
  \/ AuthenticateCookies
  \/ \E a \in Accounts : SetCookieIdentity(a)
  \/ Clear
  \/ Close
  \/ Expire

Next ==
  /\ \/ User
     \/ \E w \in Workers : AuthenticateTokens(w) \/ Begin(w) \/ Step(w) \/ Drop(w)
  /\ UNCHANGED kind

(***************************************************************************)
(* A started operation is polled to its end: the executor runs ready tasks *)
(* and HttpClients gives every request a timeout.  The refresh mutex is    *)
(* first in, first out: a waiter is not overtaken forever.  The user and   *)
(* the clock owe nothing.                                                  *)
(***************************************************************************)
Fairness == \A w \in Workers :
  /\ WF_vars(Step(w) /\ UNCHANGED kind)
  /\ SF_vars(AcquireLock(w) /\ UNCHANGED kind)

Spec == Init /\ [][Next]_vars
FairSpec == Spec /\ Fairness

--------------------------------------------------------------------------------
(***************************************************************************)
(* Properties.                                                             *)
(***************************************************************************)
TypeOK ==
  /\ kind \in Kinds
  /\ credentials \in Credentials
  /\ age \in Ages
  /\ identity \in Identities
  /\ session \in Nat /\ revision \in Nat /\ refreshLock \in Nat
  /\ closed \in BOOLEAN
  /\ generation \in Nat /\ jar \in SUBSET Nat
  /\ minted \in Nat
  /\ op \in [Workers -> Operations]

(* A delayed answer (a 401, a failed or malformed renewal, a successful one)  *)
(* clears or replaces only the very credentials it was obtained with: it      *)
(* cannot sign out, or overwrite, what a login or another renewal has         *)
(* installed meanwhile (clear_if_version, the end of renew_token).            *)
OnlyOwnCredentials ==
  [][\A w \in Workers :
       op[w].pc # "idle" /\ op'[w] # op[w] /\ credentials' # credentials
         => op[w].held = credentials]_vars

(* Its inductive strengthening: a version is never reused for other          *)
(* credentials, so a version that still matches names the pair it was read   *)
(* with (every writer of AuthState.credentials advances the revision).       *)
VersionNamesCredentials ==
  /\ revision = 0 => credentials = Empty
  /\ \A w \in Workers :
       /\ op[w].version.revision <= revision
       /\ op[w].version = Version => op[w].held = credentials

(* Of the refresh exchanges whose session is still live there is at most one: *)
(* a refresh token, good for a single use, is not presented twice at once     *)
(* (refresh_lock, replaced together with the session).                        *)
OneLiveExchange ==
  \A v, w \in Workers :
    /\ op[v].pc = "refreshing" /\ op[w].pc = "refreshing"
    /\ Live(op[v].lease) /\ Live(op[w].lease)
    => v = w

(* A request leaves with a cookie jar of the same sign-in as its header: not  *)
(* the old account's token with the new account's cookies, nor the reverse    *)
(* (headers, request_header and the check between them and the send).         *)
NoMixedRequest ==
  \A w \in Workers : op[w].pc = "sent" =>
    /\ op[w].version.session = op[w].home
    /\ op[w].generation = op[w].heldIn
    /\ op[w].cookies \subseteq {op[w].heldIn}

(* The jar holds only cookies earned with credentials read since it was last  *)
(* cleared, however late the response that sets them (store_response).        *)
JarOfThisSignIn == jar \subseteq {generation}

(* One known wallet never takes the place of another inside a session: the    *)
(* work guarded by the session ends first (replace, set_cookie_identity and   *)
(* the identity change at the end of renew_token).                            *)
SwitchIsNewSession ==
  [][identity # NoAccount /\ identity' # NoAccount /\ identity' # identity
       => session' > session]_vars

(* A caller whose own 401 signed the session out is told so, unless a later   *)
(* session change supersedes it (record_matching_rejection and response_session). *)
OwnRejectionReported ==
  [][\A w \in Workers :
       op[w].rejected # 0 /\ op'[w].outcome = "refused" => ~Live(op[w].rejected)]_vars

(* A response handed over as a success was obtained with credentials of the   *)
(* session that is live when it is handed over.                               *)
SuccessIsCurrent ==
  [][\A w \in Workers :
       op[w].pc = "body" /\ op'[w].outcome = "ok" => Live(op[w].version.session)]_vars

(* Every operation ends: no waiter of the refresh mutex is forgotten, whatever *)
(* sessions come and go.                                                      *)
OperationsEnd == \A w \in Workers : op[w].pc # "idle" ~> op[w].pc = "idle"
================================================================================
