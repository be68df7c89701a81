------------------------------ MODULE ClientProofs ------------------------------
(***************************************************************************)
(* Proofs about AuthSession, for any set of operations and of wallets, any *)
(* kinds of authentication and no bound on the number of sign-ins; then,   *)
(* for the client of MCClient, the properties that are proved of its other *)
(* parts in AccountSessionProofs, UploadsProofs and VideoRequestProofs.    *)
(***************************************************************************)
EXTENDS MCClient, TLAPS


(***************************************************************************)
(* Type correctness.                                                       *)
(***************************************************************************)
LEMMA BecomeType ==
  ASSUME NEW w \in Workers, NEW o \in Operations,
         op \in [Workers -> Operations], Become(w, o)
  PROVE  op' \in [Workers -> Operations]
BY DEF Become

LEMMA IdleType == \A x \in Outcomes : [Idle EXCEPT !.outcome = x] \in Operations
BY DEF Idle, Operations, Versions, Credentials, Empty, Stages, Outcomes, Answers, Identities

LEMMA FinishType ==
  ASSUME NEW w \in Workers, NEW x \in Outcomes,
         op \in [Workers -> Operations], Finish(w, x)
  PROVE  op' \in [Workers -> Operations]
BY IdleType, BecomeType DEF Finish

(* The shared variables keep their types; op is left to each step *)
SharedType ==
  /\ credentials \in Credentials /\ age \in Ages /\ identity \in Identities
  /\ session \in Nat /\ revision \in Nat /\ refreshLock \in Nat /\ closed \in BOOLEAN
  /\ generation \in Nat /\ jar \in SUBSET Nat /\ minted \in Nat

LEMMA ReplaceType ==
  ASSUME SharedType, NEW c \in Credentials, NEW a \in Ages, NEW id \in Identities,
         Replace(c, a, id), minted' \in Nat
  PROVE  SharedType'
<1>1. credentials' = c /\ age' = a /\ revision' = revision + 1 /\ closed' = closed
  BY DEF Replace
<1>2. session' \in Nat /\ refreshLock' \in Nat /\ identity' \in Identities
  BY DEF Replace, SharedType
<1>3. \/ generation' = generation /\ jar' = jar
      \/ generation' = generation + 1 /\ jar' = {}
  BY DEF Replace, ClearJar, cookieVars
<1>4. generation' \in Nat /\ jar' \in SUBSET Nat
  <2>1. generation \in Nat /\ jar \in SUBSET Nat
    BY DEF SharedType
  <2>2. CASE generation' = generation /\ jar' = jar
    BY <2>1, <2>2
  <2>3. CASE generation' = generation + 1 /\ jar' = {}
    BY <2>1, <2>3
  <2>4. QED BY <1>3, <2>2, <2>3
<1>5. closed' \in BOOLEAN
  BY <1>1, Zenon DEF SharedType
<1>6. QED BY <1>1, <1>2, <1>4, <1>5 DEF SharedType

LEMMA ClearType ==
  ASSUME SharedType, NEW v, ClearIfVersion(v), UNCHANGED minted
  PROVE  SharedType'
<1>1. CASE Matches(v)
  BY <1>1 DEF SharedType, ClearIfVersion, ClearJar, Credentials, Empty, Ages, Identities
<1>2. CASE ~Matches(v)
  BY <1>2 DEF SharedType, ClearIfVersion, authVars, cookieVars
<1>3. QED BY <1>1, <1>2

LEMMA UserType == SharedType /\ User => SharedType' /\ op' = op
<1> SUFFICES ASSUME SharedType, User PROVE SharedType' /\ op' = op
  OBVIOUS
<1>1. CASE AuthenticateApiKey
  <2>1. PICK secret \in Secrets("ApiKey"), a \in Accounts :
          /\ Replace([kind |-> "ApiKey", owner |-> OwnerOf(secret, a), secret |-> secret],
                     "valid", NoAccount)
          /\ minted' = IF secret = minted + 1 THEN secret ELSE minted
    BY <1>1 DEF AuthenticateApiKey
  <2>2. secret \in Nat /\ OwnerOf(secret, a) \in Identities
    BY DEF Secrets, OwnerOf, SharedType, Credentials, Identities
  <2>3. [kind |-> "ApiKey", owner |-> OwnerOf(secret, a), secret |-> secret] \in Credentials
    BY <2>2 DEF Credentials
  <2>4. minted' \in Nat
    BY <2>1, <2>2 DEF SharedType
  <2>5. "valid" \in Ages /\ NoAccount \in Identities
    BY DEF Ages, Identities
  <2>6. QED BY <1>1, <2>1, <2>3, <2>4, <2>5, ReplaceType DEF AuthenticateApiKey
<1>2. CASE AuthenticateCookies
  <2>1. [kind |-> "Cookies", owner |-> NoAccount, secret |-> 0] \in Credentials
    BY DEF Credentials, Identities
  <2>2. QED BY <1>2, <2>1, ReplaceType DEF AuthenticateCookies, SharedType, Ages, Identities
<1>3. CASE \E a \in Accounts : SetCookieIdentity(a)
  BY <1>3 DEF SetCookieIdentity, SharedType, Identities, cookieVars
<1>4. CASE Clear
  <2>1. Empty \in Credentials
    BY DEF Empty, Credentials, Identities
  <2>2. QED BY <1>4, <2>1, ReplaceType DEF Clear, SharedType, Ages, Identities
<1>5. CASE Close
  BY <1>5 DEF Close, ClearJar, SharedType, Empty, Credentials, Ages, Identities
<1>6. CASE Expire
  BY <1>6 DEF Expire, SharedType, Ages, cookieVars
<1>7. QED BY <1>1, <1>2, <1>3, <1>4, <1>5, <1>6 DEF User

(* The steps that touch nothing shared *)
LEMMA QuietType == SharedType /\ NoSharedChange => SharedType'
BY DEF SharedType, NoSharedChange, authVars, cookieVars

(* A record update inside Operations, one lemma per group of fields *)
LEMMA StageType ==
  ASSUME NEW o \in Operations, NEW s \in Stages
  PROVE  [o EXCEPT !.pc = s] \in Operations
BY DEF Operations

LEMMA AuthenticateTokensType ==
  ASSUME SharedType, op \in [Workers -> Operations], NEW w \in Workers, AuthenticateTokens(w)
  PROVE  SharedType' /\ op' \in [Workers -> Operations]
<1>1. PICK secret \in Secrets("Tokens"), a \in Identities, newAge \in Ages :
        /\ Replace([kind |-> "Tokens", owner |-> OwnerOf(secret, a), secret |-> secret],
                   newAge, OwnerOf(secret, a))
        /\ minted' = IF secret = minted + 1 THEN secret ELSE minted
        /\ IF newAge = "valid"
             THEN op' = op
             ELSE Become(w, [Idle EXCEPT !.pc = "renew", !.task = "login"])
  BY DEF AuthenticateTokens
<1>2. secret \in Nat /\ OwnerOf(secret, a) \in Identities
  BY DEF Secrets, OwnerOf, SharedType, Credentials, Identities
<1>3. [kind |-> "Tokens", owner |-> OwnerOf(secret, a), secret |-> secret] \in Credentials
  BY <1>2 DEF Credentials
<1>4. minted' \in Nat
  BY <1>1, <1>2 DEF SharedType
<1>5. SharedType'
  BY <1>1, <1>2, <1>3, <1>4, ReplaceType
<1>6. [Idle EXCEPT !.pc = "renew", !.task = "login"] \in Operations
  BY DEF Idle, Operations, Versions, Credentials, Empty, Stages, Outcomes, Answers, Identities
<1>7. op' \in [Workers -> Operations]
  BY <1>1, <1>6, BecomeType
<1>8. QED BY <1>5, <1>7

LEMMA RenewalType ==
  ASSUME SharedType, op \in [Workers -> Operations], NEW w \in Workers, Renewal(w)
  PROVE  SharedType' /\ op' \in [Workers -> Operations]
<1> DEFINE o == op[w]
<1> DEFINE Goal == SharedType' /\ op' \in [Workers -> Operations]
<1>0. o \in Operations
  OBVIOUS
<1>x. \A x \in Outcomes : Finish(w, x) => op' \in [Workers -> Operations]
  BY FinishType
<1>y. {"ok", "unauthorized", "failed", "refused", "dropped"} \subseteq Outcomes
  BY DEF Outcomes
<1>1. CASE StartRenewal(w)
  <2>1. [o EXCEPT !.pc = "lock", !.lease = session, !.lock = refreshLock,
           !.home = IF o.task = "login" THEN session ELSE o.home] \in Operations
    BY <1>0 DEF Operations, Stages, SharedType
  <2>2. QED BY <1>1, <2>1, BecomeType, QuietType DEF StartRenewal
<1>2. CASE AcquireLock(w)
  <2>1. [o EXCEPT !.pc = "locked"] \in Operations
    BY <1>0, StageType DEF Stages
  <2>2. QED BY <1>2, <2>1, <1>x, <1>y, BecomeType, QuietType DEF AcquireLock
<1>3. CASE ReadTokens(w)
  <2>1. [o EXCEPT !.pc = "attach"] \in Operations
    BY <1>0, StageType DEF Stages
  <2>2. [o EXCEPT !.pc = IF age = "stale" THEN "refresh" ELSE "expired",
                  !.version = Version, !.held = credentials] \in Operations
    BY <1>0 DEF Operations, Stages, SharedType, Version, Versions
  <2>3. op' \in [Workers -> Operations]
    BY <1>3, <2>1, <2>2, <1>x, <1>y, BecomeType DEF ReadTokens
  <2>4. QED BY <1>3, <2>3, QuietType DEF ReadTokens
<1>4. CASE DropExpired(w)
  <2>1. [o EXCEPT !.pc = "report", !.answer = "failed"] \in Operations
    BY <1>0 DEF Operations, Stages, Answers
  <2>2. QED BY <1>4, <2>1, BecomeType, ClearType DEF DropExpired
<1>5. CASE PostRefresh(w)
  <2>1. [o EXCEPT !.pc = "refreshing"] \in Operations
    BY <1>0, StageType DEF Stages
  <2>2. QED BY <1>5, <2>1, <1>x, <1>y, BecomeType, QuietType DEF PostRefresh
<1>6. CASE AnswerRefresh(w)
  <2>1. \A answer \in {"ok", "unauthorized", "failed", "malformed"}, a \in Identities :
          [o EXCEPT !.pc = "refreshed", !.answer = answer, !.fresh = a] \in Operations
    BY <1>0 DEF Operations, Stages, Answers
  <2>2. op' \in [Workers -> Operations]
    BY <1>6, <2>1, <1>x, <1>y, BecomeType DEF AnswerRefresh
  <2>3. QED BY <1>6, <2>2, QuietType DEF AnswerRefresh
<1>7. CASE RefuseRefresh(w)
  <2>1. \A r \in Nat : [o EXCEPT !.pc = "report", !.rejected = r] \in Operations
    BY <1>0 DEF Operations, Stages
  <2>2. session + 1 \in Nat
    BY DEF SharedType
  <2>3. QED BY <1>7, <2>1, <2>2, BecomeType, ClearType DEF RefuseRefresh
<1>8. CASE InstallRefresh(w)
  <2>1. CASE ~Matches(o.version)
    <3>1. [o EXCEPT !.pc = "report", !.answer = "failed"] \in Operations
      BY <1>0 DEF Operations, Stages, Answers
    <3>2. Become(w, [o EXCEPT !.pc = "report", !.answer = "failed"])
      BY <1>8, <2>1 DEF InstallRefresh
    <3>3. SharedType'
      BY <1>8, <2>1 DEF InstallRefresh, SharedType, authVars, cookieVars
    <3>4. QED BY <3>1, <3>2, <3>3, BecomeType
  <2>2. CASE Matches(o.version)
    <3>1. [o EXCEPT !.pc = "attach", !.answer = "none"] \in Operations
      BY <1>0 DEF Operations, Stages, Answers
    <3>2. op' \in [Workers -> Operations]
      BY <1>8, <2>2, <3>1, <1>x, <1>y, BecomeType DEF InstallRefresh
    <3>3. o.fresh \in Identities
      BY <1>0 DEF Operations
    <3>4. credentials' \in Credentials /\ age' \in Ages /\ identity' \in Identities
      BY <1>8, <2>2, <3>3 DEF InstallRefresh, SharedType, Credentials, Ages
    <3>5. session' \in Nat /\ revision' \in Nat /\ refreshLock' \in Nat /\ minted' \in Nat
      BY <1>8, <2>2 DEF InstallRefresh, SharedType
    <3>6. closed' = closed /\ generation' = generation /\ jar' = jar
      BY <1>8, <2>2 DEF InstallRefresh, cookieVars
    <3>7. SharedType'
      BY <3>4, <3>5, <3>6 DEF SharedType
    <3>8. QED BY <3>2, <3>7
  <2>3. QED BY <2>1, <2>2
<1>9. CASE Report(w)
  BY <1>9, <1>x, <1>y, QuietType DEF Report
<1>10. QED BY <1>1, <1>2, <1>3, <1>4, <1>5, <1>6, <1>7, <1>8, <1>9 DEF Renewal

LEMMA ExchangeType ==
  ASSUME SharedType, op \in [Workers -> Operations], NEW w \in Workers, Exchange(w)
  PROVE  SharedType' /\ op' \in [Workers -> Operations]
<1> DEFINE o == op[w]
<1>0. o \in Operations
  OBVIOUS
<1>x. \A x \in Outcomes : Finish(w, x) => op' \in [Workers -> Operations]
  BY FinishType
<1>y. {"ok", "unauthorized", "failed", "refused", "dropped"} \subseteq Outcomes
  BY DEF Outcomes
<1>z. session \in Nat /\ session + 1 \in Nat /\ generation \in Nat /\ jar \in SUBSET Nat
  BY DEF SharedType
<1>1. CASE ReadState(w)
  <2>1. \A s \in Stages : [o EXCEPT !.prep = session, !.pc = s] \in Operations
    BY <1>0, <1>z DEF Operations
  <2>2. QED BY <1>1, <2>1, BecomeType, QuietType DEF ReadState, Stages
<1>2. CASE ReadCredentials(w)
  <2>1. [o EXCEPT !.pc = "cookies", !.version = Version, !.held = credentials,
                  !.heldIn = generation] \in Operations
    BY <1>0, <1>z DEF Operations, Stages, SharedType, Version, Versions
  <2>2. QED BY <1>2, <2>1, <1>x, <1>y, BecomeType, QuietType DEF ReadCredentials
<1>3. CASE ReadCookies(w)
  <2>1. [o EXCEPT !.pc = "send", !.generation = generation, !.cookies = jar] \in Operations
    BY <1>0, <1>z DEF Operations, Stages
  <2>2. QED BY <1>3, <2>1, BecomeType, QuietType DEF ReadCookies
<1>4. CASE Send(w)
  <2>1. [o EXCEPT !.pc = "sent", !.lease = o.home] \in Operations
    BY <1>0 DEF Operations, Stages
  <2>2. QED BY <1>4, <2>1, <1>x, <1>y, BecomeType, QuietType DEF Send
<1>5. CASE Respond(w)
  <2>1. \A answer \in {"ok", "unauthorized"}, earned \in BOOLEAN :
          [o EXCEPT !.pc = "response", !.answer = answer, !.earned = earned] \in Operations
    BY <1>0 DEF Operations, Stages, Answers
  <2>2. op' \in [Workers -> Operations]
    BY <1>5, <2>1, <1>x, <1>y, BecomeType DEF Respond
  <2>3. QED BY <1>5, <2>2, QuietType DEF Respond
<1>6. CASE HandleStatus(w)
  <2>1. [o EXCEPT !.pc = "store"] \in Operations
    BY <1>0, StageType DEF Stages
  <2>2. [o EXCEPT !.pc = "store", !.lease = session + 1, !.rejected = session + 1] \in Operations
    BY <1>0, <1>z DEF Operations, Stages
  <2>3. op' \in [Workers -> Operations]
    BY <1>6, <2>1, <2>2, BecomeType DEF HandleStatus
  <2>4. SharedType'
    <3>1. CASE ClearIfVersion(o.version)
      BY <1>6, <3>1, ClearType DEF HandleStatus
    <3>2. CASE UNCHANGED <<authVars, cookieVars, minted>>
      BY <3>2 DEF SharedType, authVars, cookieVars
    <3>3. QED BY <1>6, <3>1, <3>2 DEF HandleStatus
  <2>5. QED BY <2>3, <2>4
<1>7. CASE CheckResponse(w)
  <2>1. [o EXCEPT !.pc = "storing"] \in Operations
    BY <1>0, StageType DEF Stages
  <2>2. QED BY <1>7, <2>1, <1>x, <1>y, BecomeType, QuietType DEF CheckResponse
<1>8. CASE StoreCookies(w)
  <2>1. [o EXCEPT !.pc = "body"] \in Operations
    BY <1>0, StageType DEF Stages
  <2>0. o.heldIn \in Nat
    BY <1>0 DEF Operations
  <2>2. jar' \in SUBSET Nat
    BY <1>8, <1>z, <2>0 DEF StoreCookies
  <2>3. SharedType'
    BY <1>8, <2>2 DEF StoreCookies, SharedType, authVars
  <2>4. QED BY <1>8, <2>1, <2>3, BecomeType DEF StoreCookies
<1>9. CASE ReadBody(w)
  BY <1>9, <1>x, <1>y, QuietType DEF ReadBody, StatusOutcome
<1>10. QED BY <1>1, <1>2, <1>3, <1>4, <1>5, <1>6, <1>7, <1>8, <1>9 DEF Exchange

LEMMA TypeStep ==
  ASSUME TypeOK, [Next]_vars
  PROVE  TypeOK'
<1>0. SharedType /\ op \in [Workers -> Operations] /\ kind \in Kinds
  BY DEF TypeOK, SharedType
<1>1. SUFFICES SharedType' /\ op' \in [Workers -> Operations] /\ kind' = kind
  BY <1>0 DEF TypeOK, SharedType
<1>2. CASE UNCHANGED vars
  BY <1>0, <1>2 DEF vars, authVars, cookieVars, SharedType
<1>3. CASE User /\ UNCHANGED kind
  BY <1>0, <1>3, UserType
<1>4. ASSUME NEW w \in Workers, UNCHANGED kind,
             AuthenticateTokens(w) \/ Begin(w) \/ Step(w) \/ Drop(w)
      PROVE  SharedType' /\ op' \in [Workers -> Operations] /\ kind' = kind
  <2>1. CASE AuthenticateTokens(w)
    BY <1>0, <1>4, <2>1, AuthenticateTokensType
  <2>2. CASE Begin(w)
    <3>1. [Idle EXCEPT !.pc = "read", !.home = session, !.lease = session] \in Operations
      BY <1>0 DEF Idle, Operations, Versions, Credentials, Empty, Stages, Outcomes,
                  Answers, Identities, SharedType
    <3>2. QED BY <1>0, <1>4, <2>2, <3>1, BecomeType, QuietType DEF Begin
  <2>3. CASE Renewal(w)
    BY <1>0, <1>4, <2>3, RenewalType
  <2>4. CASE Exchange(w)
    BY <1>0, <1>4, <2>4, ExchangeType
  <2>5. CASE Abandon(w) \/ Drop(w)
    BY <1>0, <1>4, <2>5, FinishType, QuietType DEF Abandon, Drop, Outcomes
  <2>6. QED BY <1>4, <2>1, <2>2, <2>3, <2>4, <2>5 DEF Step
<1>5. QED BY <1>2, <1>3, <1>4 DEF Next

(* The credentials, the cookie jar and every operation keep their types *)
THEOREM TypeCorrect == Spec => []TypeOK
<1>1. Init => TypeOK
  <2>1. Idle \in Operations
    BY DEF Idle, Operations, Versions, Credentials, Empty, Stages, Outcomes, Answers, Identities
  <2>2. ASSUME Init PROVE op \in [Workers -> Operations]
    BY <2>1, <2>2 DEF Init
  <2>3. Empty \in Credentials /\ NoAccount \in Identities /\ "valid" \in Ages
    BY DEF Credentials, Empty, Ages, Identities
  <2>4. ASSUME Init PROVE closed \in BOOLEAN /\ jar \in SUBSET Nat /\ kind \in Kinds
    BY <2>4 DEF Init
  <2>5. ASSUME Init
        PROVE  session \in Nat /\ revision \in Nat /\ refreshLock \in Nat
               /\ generation \in Nat /\ minted \in Nat
    BY <2>5 DEF Init
  <2>6. ASSUME Init
        PROVE  credentials \in Credentials /\ identity \in Identities /\ age \in Ages
    BY <2>3, <2>6 DEF Init
  <2>7. QED BY <2>2, <2>4, <2>5, <2>6 DEF TypeOK
<1>2. TypeOK /\ [Next]_vars => TypeOK'
  BY TypeStep
<1>3. QED BY <1>1, <1>2, PTL DEF Spec

(***************************************************************************)
(* Only its own credentials.  The invariant VersionNamesCredentials keeps  *)
(* because every step advances the revision or leaves the version and the  *)
(* credentials alone, and because an operation takes its version together  *)
(* with the credentials.                                                   *)
(***************************************************************************)
Advance ==
  /\ revision' >= revision
  /\ revision' = revision => session' = session /\ credentials' = credentials

Taken(w) ==
  \/ op'[w].version = op[w].version /\ op'[w].held = op[w].held
  \/ op'[w].version = Idle.version /\ op'[w].held = Empty
  \/ op'[w].version = Version /\ op'[w].held = credentials /\ UNCHANGED authVars

(* Another operation's step leaves this one alone *)
LEMMA OthersKeep ==
  ASSUME op \in [Workers -> Operations], NEW w \in Workers, NEW o, Become(w, o)
  PROVE  op'[w] = o /\ \A v \in Workers \ {w} : op'[v] = op[v]
BY DEF Become

LEMMA FinishTaken ==
  ASSUME op \in [Workers -> Operations], NEW w \in Workers, NEW x, Finish(w, x)
  PROVE  \A v \in Workers : Taken(v)
<1>1. op'[w] = [Idle EXCEPT !.outcome = x] /\ \A v \in Workers \ {w} : op'[v] = op[v]
  BY OthersKeep DEF Finish
<1>2. op'[w].version = Idle.version /\ op'[w].held = Empty
  BY <1>1 DEF Idle
<1>3. QED BY <1>1, <1>2 DEF Taken

LEMMA QuietAdvance == SharedType /\ UNCHANGED authVars => Advance
BY DEF SharedType, authVars, Advance

LEMMA ReplaceAdvance ==
  ASSUME SharedType, NEW c, NEW a, NEW id, Replace(c, a, id)
  PROVE  Advance
BY DEF SharedType, Replace, Advance

LEMMA ClearAdvance ==
  ASSUME SharedType, NEW v, ClearIfVersion(v)
  PROVE  Advance
BY DEF SharedType, ClearIfVersion, Advance, authVars

LEMMA UserAdvance == SharedType /\ User => Advance
<1> SUFFICES ASSUME SharedType, User PROVE Advance
  OBVIOUS
<1>1. CASE AuthenticateApiKey
  BY <1>1, ReplaceAdvance DEF AuthenticateApiKey
<1>2. CASE AuthenticateCookies
  BY <1>2, ReplaceAdvance DEF AuthenticateCookies
<1>3. CASE \E a \in Accounts : SetCookieIdentity(a)
  BY <1>3 DEF SetCookieIdentity, SharedType, Advance
<1>4. CASE Clear
  BY <1>4, ReplaceAdvance DEF Clear
<1>5. CASE Close
  BY <1>5 DEF Close, SharedType, Advance
<1>6. CASE Expire
  BY <1>6 DEF Expire, SharedType, Advance
<1>7. QED BY <1>1, <1>2, <1>3, <1>4, <1>5, <1>6 DEF User

LEMMA RenewalOwn ==
  ASSUME SharedType, op \in [Workers -> Operations], NEW w \in Workers, Renewal(w)
  PROVE  Advance /\ \A v \in Workers : Taken(v)
<1> DEFINE o == op[w]
<1> DEFINE All == \A v \in Workers : Taken(v)
<1>x. \A x : Finish(w, x) => All
  BY FinishTaken
<1>y. \A p : Become(w, p) /\ p.version = o.version /\ p.held = o.held => All
  BY OthersKeep DEF Taken
<1>0. o \in Operations
  OBVIOUS
<1>1. CASE StartRenewal(w)
  BY <1>0, <1>1, <1>y, QuietAdvance DEF StartRenewal, NoSharedChange, Operations
<1>2. CASE AcquireLock(w)
  BY <1>0, <1>2, <1>x, <1>y, QuietAdvance DEF AcquireLock, NoSharedChange, Operations
<1>3. CASE ReadTokens(w)
  <2>1. UNCHANGED authVars
    BY <1>3 DEF ReadTokens, NoSharedChange
  <2>2. \A p : Become(w, p) /\ p.version = Version /\ p.held = credentials => All
    BY <2>1, OthersKeep DEF Taken
  <2>3. LET p == [o EXCEPT !.pc = IF age = "stale" THEN "refresh" ELSE "expired",
                           !.version = Version, !.held = credentials]
        IN p.version = Version /\ p.held = credentials
    BY <1>0 DEF Operations
  <2>4. LET p == [o EXCEPT !.pc = "attach"] IN p.version = o.version /\ p.held = o.held
    BY <1>0 DEF Operations
  <2>5. All
    BY <1>3, <2>2, <2>3, <2>4, <1>x, <1>y DEF ReadTokens
  <2>6. QED BY <2>1, <2>5, QuietAdvance
<1>4. CASE DropExpired(w)
  BY <1>0, <1>4, <1>y, ClearAdvance DEF DropExpired, Operations
<1>5. CASE PostRefresh(w)
  BY <1>0, <1>5, <1>x, <1>y, QuietAdvance DEF PostRefresh, NoSharedChange, Operations
<1>6. CASE AnswerRefresh(w)
  BY <1>0, <1>6, <1>x, <1>y, QuietAdvance DEF AnswerRefresh, NoSharedChange, Operations
<1>7. CASE RefuseRefresh(w)
  BY <1>0, <1>7, <1>y, ClearAdvance DEF RefuseRefresh, Operations
<1>8. CASE InstallRefresh(w)
  <2>1. Advance
    BY <1>8 DEF InstallRefresh, Advance, SharedType, authVars
  <2>2. LET p == [o EXCEPT !.pc = "report", !.answer = "failed"]
        IN p.version = o.version /\ p.held = o.held
    BY <1>0 DEF Operations
  <2>3. LET p == [o EXCEPT !.pc = "attach", !.answer = "none"]
        IN p.version = o.version /\ p.held = o.held
    BY <1>0 DEF Operations
  <2>4. All
    BY <1>8, <2>2, <2>3, <1>x, <1>y DEF InstallRefresh
  <2>5. QED BY <2>1, <2>4
<1>9. CASE Report(w)
  BY <1>9, <1>x, QuietAdvance DEF Report, NoSharedChange
<1>10. QED BY <1>1, <1>2, <1>3, <1>4, <1>5, <1>6, <1>7, <1>8, <1>9 DEF Renewal

LEMMA ExchangeOwn ==
  ASSUME SharedType, op \in [Workers -> Operations], NEW w \in Workers, Exchange(w)
  PROVE  Advance /\ \A v \in Workers : Taken(v)
<1> DEFINE o == op[w]
<1> DEFINE All == \A v \in Workers : Taken(v)
<1>x. \A x : Finish(w, x) => All
  BY FinishTaken
<1>y. \A p : Become(w, p) /\ p.version = o.version /\ p.held = o.held => All
  BY OthersKeep DEF Taken
<1>0. o \in Operations
  OBVIOUS
<1>1. CASE ReadState(w)
  BY <1>0, <1>1, <1>y, QuietAdvance DEF ReadState, NoSharedChange, Operations
<1>2. CASE ReadCredentials(w)
  <2>1. UNCHANGED authVars
    BY <1>2 DEF ReadCredentials, NoSharedChange
  <2>2. \A p : Become(w, p) /\ p.version = Version /\ p.held = credentials => All
    BY <2>1, OthersKeep DEF Taken
  <2>3. LET p == [o EXCEPT !.pc = "cookies", !.version = Version,
                           !.held = credentials, !.heldIn = generation]
        IN p.version = Version /\ p.held = credentials
    BY <1>0 DEF Operations
  <2>4. All
    BY <1>2, <2>2, <2>3, <1>x DEF ReadCredentials
  <2>5. QED BY <2>1, <2>4, QuietAdvance
<1>3. CASE ReadCookies(w)
  BY <1>0, <1>3, <1>y, QuietAdvance DEF ReadCookies, NoSharedChange, Operations
<1>4. CASE Send(w)
  BY <1>0, <1>4, <1>x, <1>y, QuietAdvance DEF Send, NoSharedChange, Operations
<1>5. CASE Respond(w)
  BY <1>0, <1>5, <1>x, <1>y, QuietAdvance DEF Respond, NoSharedChange, Operations
<1>6. CASE HandleStatus(w)
  <2>1. Advance
    BY <1>6, ClearAdvance, QuietAdvance DEF HandleStatus
  <2>2. All
    BY <1>0, <1>6, <1>y DEF HandleStatus, Operations
  <2>3. QED BY <2>1, <2>2
<1>7. CASE CheckResponse(w)
  BY <1>0, <1>7, <1>x, <1>y, QuietAdvance DEF CheckResponse, NoSharedChange, Operations
<1>8. CASE StoreCookies(w)
  BY <1>0, <1>8, <1>y, QuietAdvance DEF StoreCookies, Operations
<1>9. CASE ReadBody(w)
  BY <1>9, <1>x, QuietAdvance DEF ReadBody, NoSharedChange
<1>10. QED BY <1>1, <1>2, <1>3, <1>4, <1>5, <1>6, <1>7, <1>8, <1>9 DEF Exchange

LEMMA NextOwn ==
  ASSUME TypeOK, Next
  PROVE  Advance /\ \A v \in Workers : Taken(v)
<1>0. SharedType /\ op \in [Workers -> Operations]
  BY DEF TypeOK, SharedType
<1>1. CASE User
  <2>1. Advance /\ op' = op
    BY <1>0, <1>1, UserAdvance, UserType
  <2>2. QED BY <2>1 DEF Taken
<1>2. ASSUME NEW w \in Workers, AuthenticateTokens(w) \/ Begin(w) \/ Step(w) \/ Drop(w)
      PROVE  Advance /\ \A v \in Workers : Taken(v)
  <2>1. \A p : Become(w, p) /\ p.version = Idle.version /\ p.held = Empty
               => \A v \in Workers : Taken(v)
    BY <1>0, OthersKeep DEF Taken
  <2>2. CASE AuthenticateTokens(w)
    <3>1. Advance
      BY <1>0, <2>2, ReplaceAdvance DEF AuthenticateTokens
    <3>2. LET p == [Idle EXCEPT !.pc = "renew", !.task = "login"]
          IN p.version = Idle.version /\ p.held = Empty
      BY DEF Idle
    <3>3. op' = op \/ Become(w, [Idle EXCEPT !.pc = "renew", !.task = "login"])
      BY <2>2 DEF AuthenticateTokens
    <3>4. op' = op => \A v \in Workers : Taken(v)
      BY DEF Taken
    <3>5. QED BY <2>1, <3>1, <3>2, <3>3, <3>4
  <2>3. CASE Begin(w)
    <3>1. LET p == [Idle EXCEPT !.pc = "read", !.home = session, !.lease = session]
          IN p.version = Idle.version /\ p.held = Empty
      BY DEF Idle
    <3>2. QED BY <1>0, <2>1, <2>3, <3>1, QuietAdvance DEF Begin, NoSharedChange
  <2>4. CASE Renewal(w)
    BY <1>0, <2>4, RenewalOwn
  <2>5. CASE Exchange(w)
    BY <1>0, <2>5, ExchangeOwn
  <2>6. CASE Abandon(w) \/ Drop(w)
    BY <1>0, <2>6, FinishTaken, QuietAdvance DEF Abandon, Drop, NoSharedChange
  <2>7. QED BY <1>2, <2>2, <2>3, <2>4, <2>5, <2>6 DEF Step
<1>3. QED BY <1>1, <1>2 DEF Next

LEMMA OwnStep ==
  ASSUME TypeOK, VersionNamesCredentials, [Next]_vars
  PROVE  VersionNamesCredentials'
<1>0. revision \in Nat /\ op \in [Workers -> Operations]
  BY DEF TypeOK
<1>1. CASE UNCHANGED vars
  BY <1>1 DEF vars, authVars, VersionNamesCredentials, Version
<1>2. CASE Next
  <2>1. Advance /\ \A v \in Workers : Taken(v)
    BY <1>2, NextOwn
  <2>2. revision' \in Nat /\ revision' >= revision
    <3>1. TypeOK'
      BY TypeStep
    <3>2. QED BY <2>1, <3>1 DEF TypeOK, Advance
  <2>3. revision' = 0 => credentials' = Empty
    BY <1>0, <2>1, <2>2 DEF VersionNamesCredentials, Advance
  <2>4. ASSUME NEW v \in Workers
        PROVE  /\ op'[v].version.revision <= revision'
               /\ op'[v].version = Version' => op'[v].held = credentials'
    <3>0. op[v].version \in Versions /\ op[v].version.revision \in Nat
      BY <1>0 DEF Operations, Versions
    <3>v. Version'.revision = revision' /\ Version.revision = revision
      BY DEF Version
    <3>s. revision' = revision => Version' = Version /\ credentials' = credentials
      BY <2>1 DEF Advance, Version
    <3>1. CASE op'[v].version = op[v].version /\ op'[v].held = op[v].held
      <4>1. op[v].version.revision <= revision
        BY DEF VersionNamesCredentials
      <4>2. op[v].version = Version' => revision' = revision
        BY <1>0, <2>2, <3>0, <3>v, <4>1
      <4>3. QED BY <1>0, <2>2, <3>0, <3>1, <3>s, <4>1, <4>2 DEF VersionNamesCredentials
    <3>2. CASE op'[v].version = Idle.version /\ op'[v].held = Empty
      <4>1. Idle.version.revision = 0
        BY DEF Idle
      <4>2. QED BY <2>2, <2>3, <3>2, <3>v, <4>1
    <3>3. CASE op'[v].version = Version /\ op'[v].held = credentials /\ UNCHANGED authVars
      <4>1. revision' = revision
        BY <3>3 DEF authVars
      <4>2. QED BY <1>0, <3>3, <3>v, <3>s, <4>1
    <3>4. QED BY <2>1, <3>1, <3>2, <3>3 DEF Taken
  <2>5. QED BY <2>3, <2>4 DEF VersionNamesCredentials
<1>3. QED BY <1>1, <1>2

(* A version that still matches names the credentials it was read with *)
THEOREM VersionsAreFresh == Spec => []VersionNamesCredentials
<1>1. Init => VersionNamesCredentials
  BY DEF Init, VersionNamesCredentials, Idle, Version
<1>2. TypeOK /\ VersionNamesCredentials /\ [Next]_vars => VersionNamesCredentials'
  BY OwnStep
<1>3. QED BY <1>1, <1>2, TypeCorrect, PTL DEF Spec

(* The step of an operation that changes the credentials went through a version *)
(* that matched: the expired, refused or installed renewal, or the 401.          *)
LEMMA WritesMatch ==
  ASSUME TypeOK, Next, NEW w \in Workers,
         op[w].pc # "idle", op'[w] # op[w], credentials' # credentials
  PROVE  Matches(op[w].version)
<1>0. SharedType /\ op \in [Workers -> Operations]
  BY DEF TypeOK, SharedType
<1>1. CASE User
  BY <1>0, <1>1, UserType
<1>2. ASSUME NEW v \in Workers, AuthenticateTokens(v) \/ Begin(v) \/ Step(v) \/ Drop(v)
      PROVE  Matches(op[w].version)
  <2>1. \A o : Become(v, o) => v = w
    BY <1>0, OthersKeep
  <2>2. \A x : Finish(v, x) => v = w
    BY <2>1 DEF Finish
  <2>3. ~NoSharedChange
    BY DEF NoSharedChange, authVars
  <2>4. \A seen : ClearIfVersion(seen) => Matches(seen)
    BY DEF ClearIfVersion, authVars
  <2>5. CASE AuthenticateTokens(v)
    BY <2>1, <2>5 DEF AuthenticateTokens
  <2>6. CASE Begin(v)
    BY <2>3, <2>6 DEF Begin
  <2>7. CASE Renewal(v)
    <3>1. DropExpired(v) \/ RefuseRefresh(v) \/ InstallRefresh(v)
      BY <2>3, <2>7 DEF Renewal, StartRenewal, AcquireLock, ReadTokens, PostRefresh,
                        AnswerRefresh, Report
    <3>2. CASE DropExpired(v)
      BY <2>1, <2>4, <3>2 DEF DropExpired
    <3>3. CASE RefuseRefresh(v)
      BY <2>1, <2>4, <3>3 DEF RefuseRefresh
    <3>4. CASE InstallRefresh(v)
      BY <2>1, <2>2, <3>4 DEF InstallRefresh, authVars
    <3>5. QED BY <3>1, <3>2, <3>3, <3>4
  <2>8. CASE Exchange(v)
    <3>1. HandleStatus(v)
      BY <2>3, <2>8 DEF Exchange, ReadState, ReadCredentials, ReadCookies, Send, Respond,
                        CheckResponse, StoreCookies, ReadBody, authVars
    <3>2. QED BY <2>1, <2>4, <3>1 DEF HandleStatus, authVars
  <2>9. CASE Abandon(v) \/ Drop(v)
    BY <2>3, <2>9 DEF Abandon, Drop
  <2>10. QED BY <1>2, <2>5, <2>6, <2>7, <2>8, <2>9 DEF Step
<1>3. QED BY <1>1, <1>2 DEF Next

(* A delayed answer never signs out or overwrites credentials of a newer login *)
THEOREM StaleAnswersAreHarmless == Spec => OnlyOwnCredentials
<1> DEFINE Own == \A w \in Workers :
      op[w].pc # "idle" /\ op'[w] # op[w] /\ credentials' # credentials
        => op[w].held = credentials
<1>1. TypeOK /\ VersionNamesCredentials /\ [Next]_vars => [Own]_vars
  <2>1. ASSUME TypeOK, VersionNamesCredentials, Next PROVE Own
    BY <2>1, WritesMatch DEF Matches, VersionNamesCredentials
  <2>2. QED BY <2>1
<1>2. QED BY <1>1, TypeCorrect, VersionsAreFresh, PTL DEF Spec, OnlyOwnCredentials

--------------------------------------------------------------------------------
(***************************************************************************)
(* What the session guards of a request and the mutex of a renewal are     *)
(* for.  It rests on one inductive invariant, Guarding: what an operation  *)
(* at each stage knows of the session it started in, of the mutex it waits *)
(* for and of the cookies it carries.                                      *)
(***************************************************************************)

(***************************************************************************)
(* The session only advances, and whatever is replaced without it stays.   *)
(***************************************************************************)
Forward ==
  /\ session' >= session
  /\ session' = session => refreshLock' = refreshLock /\ generation' = generation

Emptied == (jar' = jar /\ generation' = generation) \/ jar' = {}

LEMMA QuietForward == SharedType /\ NoSharedChange => Forward /\ Emptied
BY DEF SharedType, NoSharedChange, authVars, cookieVars, Forward, Emptied

LEMMA ReplaceForward ==
  ASSUME SharedType, NEW c, NEW a, NEW id, Replace(c, a, id)
  PROVE  Forward /\ Emptied
BY DEF SharedType, Replace, ClearJar, cookieVars, Forward, Emptied

LEMMA ClearForward ==
  ASSUME SharedType, NEW v, ClearIfVersion(v)
  PROVE  Forward /\ Emptied
BY DEF SharedType, ClearIfVersion, ClearJar, authVars, cookieVars, Forward, Emptied

LEMMA UserForward == SharedType /\ User => Forward /\ Emptied
<1> SUFFICES ASSUME SharedType, User PROVE Forward /\ Emptied
  OBVIOUS
<1>1. CASE AuthenticateApiKey
  BY <1>1, ReplaceForward DEF AuthenticateApiKey
<1>2. CASE AuthenticateCookies
  BY <1>2, ReplaceForward DEF AuthenticateCookies
<1>3. CASE \E a \in Accounts : SetCookieIdentity(a)
  BY <1>3 DEF SetCookieIdentity, SharedType, Forward, Emptied, cookieVars
<1>4. CASE Clear
  BY <1>4, ReplaceForward DEF Clear
<1>5. CASE Close
  BY <1>5 DEF Close, ClearJar, SharedType, Forward, Emptied
<1>6. CASE Expire
  BY <1>6 DEF Expire, SharedType, Forward, Emptied, cookieVars
<1>7. QED BY <1>1, <1>2, <1>3, <1>4, <1>5, <1>6 DEF User

(***************************************************************************)
(* The invariant of one operation, given the session, the mutex and the    *)
(* generation of the jar.                                                  *)
(***************************************************************************)
Waiting == {"lock", "locked", "expired", "refresh", "refreshing", "refreshed"}
Prepared == {"cookies", "send"}
Answered == {"store", "storing", "body"}
Away == {"sent", "response"} \cup Answered

Guard(o, s, mutex, g) ==
  /\ o.home <= s /\ o.lease <= s
  /\ o.pc # "idle" => o.outcome = "none"
  /\ o.pc \in Waiting /\ o.lease = s => o.lock = mutex
  /\ o.pc \in Prepared \cup Away => o.version.session = o.home
  /\ o.pc \in Prepared /\ o.home = s => o.heldIn = g
  /\ o.pc = "send" /\ o.home = s => o.generation = o.heldIn /\ o.cookies \subseteq {o.heldIn}
  /\ o.pc \in Away => o.generation = o.heldIn /\ o.cookies \subseteq {o.heldIn}
  /\ o.pc \in {"sent", "response"} => o.lease = o.home
  /\ o.pc \in Answered => o.lease = IF o.rejected = 0 THEN o.home ELSE o.rejected
  /\ o.rejected # 0 => o.pc \in Answered \cup {"report"} /\ o.answer = "unauthorized"

(* Holding a mutex excludes every other holder of it *)
Exclusive ==
  \A v, w \in Workers :
    HoldsLock(v) /\ HoldsLock(w) /\ op[v].lock = op[w].lock => v = w

Guarding ==
  /\ \A w \in Workers : Guard(op[w], session, refreshLock, generation)
  /\ Exclusive
  /\ JarOfThisSignIn

(* The steps of others do not disturb it *)
LEMMA GuardStays ==
  ASSUME SharedType, SharedType', Forward, NEW o \in Operations,
         Guard(o, session, refreshLock, generation)
  PROVE  Guard(o, session', refreshLock', generation')
BY DEF SharedType, Forward, Guard, Operations, Waiting, Prepared, Away, Answered

(* An operation that ends, or begins *)
LEMMA GuardOfIdle ==
  \A x, mutex, g : \A s \in Nat : Guard([Idle EXCEPT !.outcome = x], s, mutex, g)
BY DEF Idle, Guard, Waiting, Prepared, Away, Answered

LEMMA FinishGuard ==
  ASSUME TypeOK, TypeOK', NEW w \in Workers, NEW x, Finish(w, x)
  PROVE  Guard(op'[w], session', refreshLock', generation')
<1>1. op'[w] = [Idle EXCEPT !.outcome = x]
  BY OthersKeep DEF Finish, TypeOK
<1>2. session' \in Nat
  BY DEF TypeOK
<1>3. QED BY <1>1, <1>2, GuardOfIdle

LEMMA RenewalGuard ==
  ASSUME TypeOK, TypeOK', Guarding, NEW w \in Workers, Renewal(w)
  PROVE  /\ Forward /\ Emptied
         /\ Guard(op'[w], session', refreshLock', generation')
<1> DEFINE o == op[w]
<1> DEFINE Kept == Guard(op'[w], session', refreshLock', generation')
<1>0. SharedType /\ SharedType' /\ o \in Operations /\ op \in [Workers -> Operations]
  BY DEF TypeOK, SharedType
<1>g. Guard(o, session, refreshLock, generation)
  BY DEF Guarding
<1>b. \A p : Become(w, p) => op'[w] = p
  BY <1>0, OthersKeep
<1>x. \A x : Finish(w, x) => Kept
  BY FinishGuard
<1>q. NoSharedChange => Forward /\ Emptied /\ UNCHANGED <<session, refreshLock, generation>>
  BY <1>0, QuietForward DEF NoSharedChange, authVars, cookieVars
<1>1. CASE StartRenewal(w)
  <2>1. op'[w] = [o EXCEPT !.pc = "lock", !.lease = session, !.lock = refreshLock,
                    !.home = IF o.task = "login" THEN session ELSE o.home]
    BY <1>1, <1>b DEF StartRenewal
  <2>2. o.pc = "renew" /\ NoSharedChange
    BY <1>1 DEF StartRenewal
  <2>3. Kept
    BY <1>0, <1>g, <1>q, <2>1, <2>2
       DEF Guard, Operations, Waiting, Prepared, Away, Answered, SharedType
  <2>4. QED BY <1>q, <2>2, <2>3
<1>2. CASE AcquireLock(w)
  <2>1. op'[w] = [o EXCEPT !.pc = "locked"] \/ Kept
    BY <1>2, <1>b, <1>x DEF AcquireLock
  <2>2. o.pc = "lock" /\ NoSharedChange
    BY <1>2 DEF AcquireLock
  <2>3. Kept
    BY <1>0, <1>g, <1>q, <2>1, <2>2
       DEF Guard, Operations, Waiting, Prepared, Away, Answered
  <2>4. QED BY <1>q, <2>2, <2>3
<1>3. CASE ReadTokens(w)
  <2>1. \/ Kept
        \/ op'[w] = [o EXCEPT !.pc = "attach"]
        \/ op'[w] = [o EXCEPT !.pc = IF age = "stale" THEN "refresh" ELSE "expired",
                              !.version = Version, !.held = credentials]
    BY <1>3, <1>b, <1>x DEF ReadTokens
  <2>2. o.pc = "locked" /\ NoSharedChange
    BY <1>3 DEF ReadTokens
  <2>3. ASSUME op'[w] = [o EXCEPT !.pc = "attach"] PROVE Kept
    BY <1>0, <1>g, <1>q, <2>2, <2>3
       DEF Guard, Operations, Waiting, Prepared, Away, Answered
  <2>4. ASSUME NEW s \in {"refresh", "expired"},
               op'[w] = [o EXCEPT !.pc = s, !.version = Version, !.held = credentials]
        PROVE  Kept
    BY <1>0, <1>g, <1>q, <2>2, <2>4
       DEF Guard, Operations, Waiting, Prepared, Away, Answered
  <2>5. QED BY <1>q, <2>1, <2>2, <2>3, <2>4
<1>4. CASE DropExpired(w)
  <2>1. op'[w] = [o EXCEPT !.pc = "report", !.answer = "failed"]
    BY <1>4, <1>b DEF DropExpired
  <2>2. o.pc = "expired" /\ Forward /\ Emptied
    BY <1>0, <1>4, ClearForward DEF DropExpired
  <2>3. Kept
    BY <1>0, <1>g, <2>1, <2>2
       DEF Guard, Operations, Waiting, Prepared, Away, Answered, SharedType, Forward
  <2>4. QED BY <2>2, <2>3
<1>5. CASE PostRefresh(w)
  <2>1. op'[w] = [o EXCEPT !.pc = "refreshing"] \/ Kept
    BY <1>5, <1>b, <1>x DEF PostRefresh
  <2>2. o.pc = "refresh" /\ NoSharedChange
    BY <1>5 DEF PostRefresh
  <2>3. Kept
    BY <1>0, <1>g, <1>q, <2>1, <2>2
       DEF Guard, Operations, Waiting, Prepared, Away, Answered
  <2>4. QED BY <1>q, <2>2, <2>3
<1>6. CASE AnswerRefresh(w)
  <2>1. \/ Kept
        \/ \E answer, a :
             op'[w] = [o EXCEPT !.pc = "refreshed", !.answer = answer, !.fresh = a]
    BY <1>6, <1>b, <1>x DEF AnswerRefresh
  <2>2. o.pc = "refreshing" /\ NoSharedChange
    BY <1>6 DEF AnswerRefresh
  <2>3. Kept
    BY <1>0, <1>g, <1>q, <2>1, <2>2
       DEF Guard, Operations, Waiting, Prepared, Away, Answered
  <2>4. QED BY <1>q, <2>2, <2>3
<1>7. CASE RefuseRefresh(w)
  <2>1. \E r : /\ op'[w] = [o EXCEPT !.pc = "report", !.rejected = r]
               /\ r # 0 => o.answer = "unauthorized"
    BY <1>7, <1>b DEF RefuseRefresh
  <2>2. o.pc = "refreshed" /\ Forward /\ Emptied
    BY <1>0, <1>7, ClearForward DEF RefuseRefresh
  <2>3. Kept
    BY <1>0, <1>g, <2>1, <2>2
       DEF Guard, Operations, Waiting, Prepared, Away, Answered, SharedType, Forward
  <2>4. QED BY <2>2, <2>3
<1>8. CASE InstallRefresh(w)
  <2>1. \/ Kept
        \/ op'[w] = [o EXCEPT !.pc = "attach", !.answer = "none"]
        \/ op'[w] = [o EXCEPT !.pc = "report", !.answer = "failed"]
    BY <1>8, <1>b, <1>x DEF InstallRefresh
  <2>2. o.pc = "refreshed" /\ UNCHANGED cookieVars
    BY <1>8 DEF InstallRefresh
  <2>3. Forward /\ Emptied
    BY <1>0, <1>8 DEF InstallRefresh, SharedType, Forward, Emptied, authVars, cookieVars
  <2>4. ASSUME op'[w] = [o EXCEPT !.pc = "attach", !.answer = "none"]
        PROVE  Kept
    BY <1>0, <1>g, <2>2, <2>3, <2>4
       DEF Guard, Operations, Waiting, Prepared, Away, Answered, SharedType, Forward
  <2>5. ASSUME op'[w] = [o EXCEPT !.pc = "report", !.answer = "failed"]
        PROVE  Kept
    BY <1>0, <1>g, <2>2, <2>3, <2>5
       DEF Guard, Operations, Waiting, Prepared, Away, Answered, SharedType, Forward
  <2>6. QED BY <2>1, <2>3, <2>4, <2>5
<1>9. CASE Report(w)
  BY <1>9, <1>x, <1>q DEF Report
<1>10. QED BY <1>1, <1>2, <1>3, <1>4, <1>5, <1>6, <1>7, <1>8, <1>9 DEF Renewal

LEMMA ExchangeGuard ==
  ASSUME TypeOK, TypeOK', Guarding, NEW w \in Workers, Exchange(w)
  PROVE  /\ Forward /\ (Emptied \/ StoreCookies(w))
         /\ Guard(op'[w], session', refreshLock', generation')
<1> DEFINE o == op[w]
<1> DEFINE Kept == Guard(op'[w], session', refreshLock', generation')
<1>0. SharedType /\ SharedType' /\ o \in Operations /\ op \in [Workers -> Operations]
  BY DEF TypeOK, SharedType
<1>g. Guard(o, session, refreshLock, generation)
  BY DEF Guarding
<1>b. \A p : Become(w, p) => op'[w] = p
  BY <1>0, OthersKeep
<1>x. \A x : Finish(w, x) => Kept
  BY FinishGuard
<1>q. NoSharedChange => Forward /\ Emptied /\ UNCHANGED <<session, refreshLock, generation>>
  BY <1>0, QuietForward DEF NoSharedChange, authVars, cookieVars
<1>1. CASE ReadState(w)
  <2>1. ASSUME NEW s \in {"renew", "attach"}, op'[w] = [o EXCEPT !.prep = session, !.pc = s],
               o.pc = "read", NoSharedChange
        PROVE  Kept
    BY <1>0, <1>g, <1>q, <2>1 DEF Guard, Operations, Waiting, Prepared, Away, Answered
  <2>2. o.pc = "read" /\ NoSharedChange
    BY <1>1 DEF ReadState
  <2>3. \E s \in {"renew", "attach"} : op'[w] = [o EXCEPT !.prep = session, !.pc = s]
    BY <1>1, <1>b DEF ReadState
  <2>4. QED BY <1>q, <2>1, <2>2, <2>3
<1>2. CASE ReadCredentials(w)
  <2>1. o.pc = "attach" /\ NoSharedChange
    BY <1>2 DEF ReadCredentials
  <2>2. \/ Kept
        \/ /\ op'[w] = [o EXCEPT !.pc = "cookies", !.version = Version, !.held = credentials,
                                 !.heldIn = generation]
           /\ o.home = session
    BY <1>2, <1>b, <1>x DEF ReadCredentials, Live
  <2>3. ASSUME op'[w] = [o EXCEPT !.pc = "cookies", !.version = Version, !.held = credentials,
                                  !.heldIn = generation],
               o.home = session
        PROVE  Kept
    <3>1. Version.session = session
      BY DEF Version
    <3>2. QED
      BY <1>0, <1>g, <1>q, <2>1, <2>3, <3>1
         DEF Guard, Operations, Waiting, Prepared, Away, Answered
  <2>4. QED BY <1>q, <2>1, <2>2, <2>3
<1>3. CASE ReadCookies(w)
  <2>1. o.pc = "cookies" /\ NoSharedChange
    BY <1>3 DEF ReadCookies
  <2>2. op'[w] = [o EXCEPT !.pc = "send", !.generation = generation, !.cookies = jar]
    BY <1>3, <1>b DEF ReadCookies
  <2>3. jar \subseteq {generation}
    BY DEF Guarding, JarOfThisSignIn
  <2>4. Kept
    BY <1>0, <1>g, <1>q, <2>1, <2>2, <2>3
       DEF Guard, Operations, Waiting, Prepared, Away, Answered
  <2>5. QED BY <1>q, <2>1, <2>4
<1>4. CASE Send(w)
  <2>1. o.pc = "send" /\ NoSharedChange
    BY <1>4 DEF Send
  <2>2. Kept \/ (op'[w] = [o EXCEPT !.pc = "sent", !.lease = o.home] /\ o.home = session)
    BY <1>4, <1>b, <1>x DEF Send, Live
  <2>3. Kept
    BY <1>0, <1>g, <1>q, <2>1, <2>2
       DEF Guard, Operations, Waiting, Prepared, Away, Answered
  <2>4. QED BY <1>q, <2>1, <2>3
<1>5. CASE Respond(w)
  <2>1. o.pc = "sent" /\ NoSharedChange
    BY <1>5 DEF Respond
  <2>2. \/ Kept
        \/ \E answer, earned :
             op'[w] = [o EXCEPT !.pc = "response", !.answer = answer, !.earned = earned]
    BY <1>5, <1>b, <1>x DEF Respond
  <2>3. Kept
    BY <1>0, <1>g, <1>q, <2>1, <2>2
       DEF Guard, Operations, Waiting, Prepared, Away, Answered
  <2>4. QED BY <1>q, <2>1, <2>3
<1>6. CASE HandleStatus(w)
  <2>1. o.pc = "response"
    BY <1>6 DEF HandleStatus
  <2>2. Forward /\ Emptied
    BY <1>0, <1>6, ClearForward DEF HandleStatus, SharedType, Forward, Emptied, authVars, cookieVars
  <2>3. \/ op'[w] = [o EXCEPT !.pc = "store"]
        \/ /\ op'[w] = [o EXCEPT !.pc = "store", !.lease = session + 1, !.rejected = session + 1]
           /\ o.answer = "unauthorized" /\ session' = session + 1
    BY <1>6, <1>b DEF HandleStatus, ClearIfVersion
  <2>4. ASSUME op'[w] = [o EXCEPT !.pc = "store"] PROVE Kept
    BY <1>0, <1>g, <2>1, <2>2, <2>4
       DEF Guard, Operations, Waiting, Prepared, Away, Answered, SharedType, Forward
  <2>5. ASSUME op'[w] = [o EXCEPT !.pc = "store", !.lease = session + 1, !.rejected = session + 1],
               o.answer = "unauthorized", session' = session + 1
        PROVE  Kept
    BY <1>0, <1>g, <2>1, <2>5
       DEF Guard, Operations, Waiting, Prepared, Away, Answered, SharedType
  <2>6. QED BY <2>2, <2>3, <2>4, <2>5
<1>7. CASE CheckResponse(w)
  <2>1. o.pc = "store" /\ NoSharedChange
    BY <1>7 DEF CheckResponse
  <2>2. Kept \/ op'[w] = [o EXCEPT !.pc = "storing"]
    BY <1>7, <1>b, <1>x DEF CheckResponse
  <2>3. Kept
    BY <1>0, <1>g, <1>q, <2>1, <2>2
       DEF Guard, Operations, Waiting, Prepared, Away, Answered
  <2>4. QED BY <1>q, <2>1, <2>3
<1>8. CASE StoreCookies(w)
  <2>1. o.pc = "storing" /\ UNCHANGED <<session, refreshLock, generation>>
    BY <1>8 DEF StoreCookies, authVars
  <2>2. op'[w] = [o EXCEPT !.pc = "body"]
    BY <1>8, <1>b DEF StoreCookies
  <2>3. Kept
    BY <1>0, <1>g, <2>1, <2>2
       DEF Guard, Operations, Waiting, Prepared, Away, Answered
  <2>4. Forward
    BY <1>0, <2>1 DEF Forward, SharedType
  <2>5. QED BY <1>8, <2>3, <2>4
<1>9. CASE ReadBody(w)
  BY <1>9, <1>x, <1>q DEF ReadBody
<1>10. QED BY <1>1, <1>2, <1>3, <1>4, <1>5, <1>6, <1>7, <1>8, <1>9 DEF Exchange

(* Only AcquireLock makes a holder of a mutex, and no holder changes its mutex *)
KeepsLock(v) == HoldsLock(v)' => HoldsLock(v) /\ op'[v].lock = op[v].lock

LEMMA BecomeKeeps ==
  ASSUME op \in [Workers -> Operations], NEW w \in Workers, NEW p, Become(w, p),
         \/ p.pc \notin {"locked", "expired", "refresh", "refreshing", "refreshed"}
         \/ HoldsLock(w) /\ p.lock = op[w].lock
  PROVE  \A v \in Workers : KeepsLock(v)
BY OthersKeep DEF KeepsLock, HoldsLock

LEMMA FinishKeeps ==
  ASSUME op \in [Workers -> Operations], NEW w \in Workers, NEW x, Finish(w, x)
  PROVE  \A v \in Workers : KeepsLock(v)
<1>1. [Idle EXCEPT !.outcome = x].pc = "idle"
  BY DEF Idle
<1>2. QED BY <1>1, BecomeKeeps DEF Finish

LEMMA RenewalKeeps ==
  ASSUME op \in [Workers -> Operations], NEW w \in Workers, Renewal(w), ~AcquireLock(w)
  PROVE  \A v \in Workers : KeepsLock(v)
<1> DEFINE o == op[w]
<1> DEFINE All == \A v \in Workers : KeepsLock(v)
<1>0. o \in Operations
  OBVIOUS
<1>x. \A x : Finish(w, x) => All
  BY FinishKeeps
<1>y. \A p : /\ Become(w, p)
             /\ \/ p.pc \notin {"locked", "expired", "refresh", "refreshing", "refreshed"}
                \/ HoldsLock(w) /\ p.lock = o.lock
             => All
  BY BecomeKeeps
<1>1. CASE StartRenewal(w)
  BY <1>0, <1>1, <1>y DEF StartRenewal, Operations
<1>2. CASE ReadTokens(w)
  <2>1. LET p == [o EXCEPT !.pc = IF age = "stale" THEN "refresh" ELSE "expired",
                           !.version = Version, !.held = credentials]
        IN p.lock = o.lock
    BY <1>0 DEF Operations
  <2>2. [o EXCEPT !.pc = "attach"].pc = "attach"
    BY <1>0 DEF Operations
  <2>3. HoldsLock(w)
    BY <1>2 DEF ReadTokens, HoldsLock
  <2>4. QED BY <1>2, <1>x, <1>y, <2>1, <2>2, <2>3 DEF ReadTokens
<1>3. CASE DropExpired(w)
  BY <1>0, <1>3, <1>y DEF DropExpired, Operations
<1>4. CASE PostRefresh(w)
  BY <1>0, <1>4, <1>x, <1>y DEF PostRefresh, Operations, HoldsLock
<1>5. CASE AnswerRefresh(w)
  BY <1>0, <1>5, <1>x, <1>y DEF AnswerRefresh, Operations, HoldsLock
<1>6. CASE RefuseRefresh(w)
  BY <1>0, <1>6, <1>y DEF RefuseRefresh, Operations
<1>7. CASE InstallRefresh(w)
  <2>1. [o EXCEPT !.pc = "report", !.answer = "failed"].pc = "report"
    BY <1>0 DEF Operations
  <2>2. [o EXCEPT !.pc = "attach", !.answer = "none"].pc = "attach"
    BY <1>0 DEF Operations
  <2>3. QED BY <1>7, <1>x, <1>y, <2>1, <2>2 DEF InstallRefresh
<1>8. CASE Report(w)
  BY <1>8, <1>x DEF Report
<1>9. QED BY <1>1, <1>2, <1>3, <1>4, <1>5, <1>6, <1>7, <1>8 DEF Renewal

LEMMA ExchangeKeeps ==
  ASSUME op \in [Workers -> Operations], NEW w \in Workers, Exchange(w)
  PROVE  \A v \in Workers : KeepsLock(v)
<1> DEFINE o == op[w]
<1> DEFINE All == \A v \in Workers : KeepsLock(v)
<1>0. o \in Operations
  OBVIOUS
<1>x. \A x : Finish(w, x) => All
  BY FinishKeeps
<1>y. \A p : /\ Become(w, p)
             /\ p.pc \notin {"locked", "expired", "refresh", "refreshing", "refreshed"}
             => All
  BY BecomeKeeps
<1>1. CASE ReadState(w)
  BY <1>0, <1>1, <1>y DEF ReadState, Operations
<1>2. CASE ReadCredentials(w)
  BY <1>0, <1>2, <1>x, <1>y DEF ReadCredentials, Operations
<1>3. CASE ReadCookies(w)
  BY <1>0, <1>3, <1>y DEF ReadCookies, Operations
<1>4. CASE Send(w)
  BY <1>0, <1>4, <1>x, <1>y DEF Send, Operations
<1>5. CASE Respond(w)
  BY <1>0, <1>5, <1>x, <1>y DEF Respond, Operations
<1>6. CASE HandleStatus(w)
  BY <1>0, <1>6, <1>y DEF HandleStatus, Operations
<1>7. CASE CheckResponse(w)
  BY <1>0, <1>7, <1>x, <1>y DEF CheckResponse, Operations
<1>8. CASE StoreCookies(w)
  BY <1>0, <1>8, <1>y DEF StoreCookies, Operations
<1>9. CASE ReadBody(w)
  BY <1>9, <1>x DEF ReadBody
<1>10. QED BY <1>1, <1>2, <1>3, <1>4, <1>5, <1>6, <1>7, <1>8, <1>9 DEF Exchange

(* A waiter acquires a mutex nobody holds *)
LEMMA AcquireExcludes ==
  ASSUME op \in [Workers -> Operations], NEW w \in Workers, AcquireLock(w), Exclusive
  PROVE  Exclusive'
<1>1. CASE Finish(w, "refused")
  BY <1>1, FinishKeeps DEF KeepsLock, Exclusive
<1>2. CASE Become(w, [op[w] EXCEPT !.pc = "locked"])
  <2>1. op'[w] = [op[w] EXCEPT !.pc = "locked"] /\ \A v \in Workers \ {w} : op'[v] = op[v]
    BY <1>2, OthersKeep
  <2>2. op'[w].lock = op[w].lock
    <3>1. op[w] \in Operations
      OBVIOUS
    <3>2. QED BY <2>1, <3>1 DEF Operations
  <2>3. \A v \in Workers : HoldsLock(v) => op[v].lock # op[w].lock
    BY DEF AcquireLock, LockFree
  <2>4. \A v \in Workers \ {w} : HoldsLock(v)' => HoldsLock(v) /\ op'[v].lock = op[v].lock
    BY <2>1 DEF HoldsLock
  <2>5. QED BY <2>2, <2>3, <2>4 DEF Exclusive
<1>3. QED BY <1>1, <1>2 DEF AcquireLock

LEMMA KeptExclusive ==
  ASSUME Exclusive, \A v \in Workers : KeepsLock(v)
  PROVE  Exclusive'
BY DEF Exclusive, KeepsLock

(* The jar only gets cookies of the operation that stores them *)
LEMMA StoreKeepsJar ==
  ASSUME Guarding, NEW w \in Workers, StoreCookies(w)
  PROVE  JarOfThisSignIn'
<1>1. op[w].pc = "storing" /\ jar \subseteq {generation} /\ generation' = generation
  BY DEF Guarding, JarOfThisSignIn, StoreCookies
<1>2. op[w].generation = op[w].heldIn
  BY <1>1 DEF Guarding, Guard, Away, Answered
<1>3. jar' \subseteq {generation}
  BY <1>1, <1>2 DEF StoreCookies
<1>4. QED BY <1>1, <1>3 DEF JarOfThisSignIn

(* One operation moves *)
LEMMA MoverGuard ==
  ASSUME TypeOK, TypeOK', Guarding, NEW w \in Workers,
         AuthenticateTokens(w) \/ Begin(w) \/ Step(w) \/ Drop(w)
  PROVE  /\ Forward /\ (Emptied \/ StoreCookies(w))
         /\ Guard(op'[w], session', refreshLock', generation')
         /\ \A v \in Workers \ {w} : op'[v] = op[v]
         /\ Exclusive'
<1>0. /\ SharedType /\ SharedType' /\ op[w] \in Operations
      /\ op \in [Workers -> Operations] /\ Exclusive
      /\ Guard(op[w], session, refreshLock, generation)
  BY DEF TypeOK, SharedType, Guarding
<1>b. \A p : Become(w, p) => op'[w] = p /\ \A v \in Workers \ {w} : op'[v] = op[v]
  BY <1>0, OthersKeep
<1>f. \A x : Finish(w, x) => /\ Guard(op'[w], session', refreshLock', generation')
                             /\ \A v \in Workers \ {w} : op'[v] = op[v]
                             /\ Exclusive'
  BY <1>0, <1>b, FinishGuard, FinishKeeps, KeptExclusive DEF Finish
<1>1. CASE AuthenticateTokens(w)
  <2>1. Forward /\ Emptied
    BY <1>0, <1>1, ReplaceForward DEF AuthenticateTokens
  <2>2. CASE op' = op
    <3>1. \A v \in Workers : KeepsLock(v)
      BY <2>2 DEF KeepsLock, HoldsLock
    <3>2. Guard(op[w], session', refreshLock', generation')
      BY <1>0, <2>1, GuardStays
    <3>3. QED BY <1>0, <2>1, <2>2, <3>1, <3>2, KeptExclusive
  <2>3. CASE Become(w, [Idle EXCEPT !.pc = "renew", !.task = "login"])
    <3>1. Guard([Idle EXCEPT !.pc = "renew", !.task = "login"], session', refreshLock', generation')
      BY <1>0 DEF Idle, Guard, Waiting, Prepared, Away, Answered, SharedType
    <3>2. [Idle EXCEPT !.pc = "renew", !.task = "login"].pc = "renew"
      BY DEF Idle
    <3>3. Exclusive'
      BY <1>0, <2>3, <3>2, BecomeKeeps, KeptExclusive
    <3>4. QED BY <1>b, <2>1, <2>3, <3>1, <3>3
  <2>4. QED BY <1>1, <2>2, <2>3 DEF AuthenticateTokens
<1>2. CASE Begin(w)
  <2>1. Forward /\ Emptied /\ session' = session
    BY <1>0, <1>2, QuietForward DEF Begin, NoSharedChange, authVars
  <2>2. Become(w, [Idle EXCEPT !.pc = "read", !.home = session, !.lease = session])
    BY <1>2 DEF Begin
  <2>3. Guard([Idle EXCEPT !.pc = "read", !.home = session, !.lease = session],
              session', refreshLock', generation')
    BY <1>0, <2>1 DEF Idle, Guard, Waiting, Prepared, Away, Answered, SharedType
  <2>4. [Idle EXCEPT !.pc = "read", !.home = session, !.lease = session].pc = "read"
    BY DEF Idle
  <2>5. Exclusive'
    BY <1>0, <2>2, <2>4, BecomeKeeps, KeptExclusive
  <2>6. QED BY <1>b, <2>1, <2>2, <2>3, <2>5
<1>3. CASE Renewal(w)
  <2>1. \A v \in Workers \ {w} : op'[v] = op[v]
    BY <1>3, <1>b DEF Renewal, StartRenewal, AcquireLock, ReadTokens, DropExpired, PostRefresh,
                      AnswerRefresh, RefuseRefresh, InstallRefresh, Report, Finish
  <2>2. Exclusive'
    BY <1>0, <1>3, RenewalKeeps, AcquireExcludes, KeptExclusive
  <2>3. QED BY <1>3, <2>1, <2>2, RenewalGuard
<1>4. CASE Exchange(w)
  <2>1. \A v \in Workers \ {w} : op'[v] = op[v]
    BY <1>4, <1>b DEF Exchange, ReadState, ReadCredentials, ReadCookies, Send, Respond,
                      HandleStatus, CheckResponse, StoreCookies, ReadBody, Finish
  <2>2. Exclusive'
    BY <1>0, <1>4, ExchangeKeeps, KeptExclusive
  <2>3. QED BY <1>4, <2>1, <2>2, ExchangeGuard
<1>5. CASE Abandon(w) \/ Drop(w)
  BY <1>0, <1>5, <1>f, QuietForward DEF Abandon, Drop
<1>6. QED BY <1>1, <1>2, <1>3, <1>4, <1>5 DEF Step

LEMMA GuardingStep ==
  ASSUME TypeOK, Guarding, [Next]_vars
  PROVE  Guarding'
<1>0. /\ TypeOK' /\ SharedType /\ SharedType' /\ op \in [Workers -> Operations]
      /\ \A v \in Workers : Guard(op[v], session, refreshLock, generation)
  BY TypeStep DEF TypeOK, SharedType, Guarding
<1>1. \A v \in Workers : Forward /\ op'[v] = op[v]
        => Guard(op'[v], session', refreshLock', generation')
  BY <1>0, GuardStays
<1>3. Emptied => JarOfThisSignIn'
  BY DEF Guarding, JarOfThisSignIn, Emptied
<1>4. CASE UNCHANGED vars
  BY <1>4 DEF vars, authVars, cookieVars, Guarding, Exclusive, HoldsLock, JarOfThisSignIn
<1>5. CASE User
  <2>1. Forward /\ Emptied /\ op' = op
    BY <1>0, <1>5, UserForward, UserType
  <2>2. \A v \in Workers : KeepsLock(v)
    BY <2>1 DEF KeepsLock, HoldsLock
  <2>3. Exclusive'
    BY <2>2, KeptExclusive DEF Guarding
  <2>4. QED BY <1>1, <1>3, <2>1, <2>3 DEF Guarding
<1>6. ASSUME NEW w \in Workers, AuthenticateTokens(w) \/ Begin(w) \/ Step(w) \/ Drop(w)
      PROVE  Guarding'
  <2>1. /\ Forward /\ (Emptied \/ StoreCookies(w))
        /\ Guard(op'[w], session', refreshLock', generation')
        /\ \A v \in Workers \ {w} : op'[v] = op[v]
        /\ Exclusive'
    BY <1>0, <1>6, MoverGuard
  <2>2. JarOfThisSignIn'
    BY <1>3, <2>1, StoreKeepsJar
  <2>3. \A v \in Workers : Guard(op'[v], session', refreshLock', generation')
    BY <1>1, <2>1
  <2>4. QED BY <2>1, <2>2, <2>3 DEF Guarding
<1>7. QED BY <1>4, <1>5, <1>6 DEF Next

LEMMA GuardingHolds == Spec => []Guarding
<1>1. Init => Guarding
  <2>1. \A g, mutex : Guard(Idle, 0, mutex, g)
    BY DEF Guard, Idle, Waiting, Prepared, Away, Answered
  <2>2. ASSUME Init PROVE Exclusive /\ JarOfThisSignIn
    <3>1. Idle.pc = "idle"
      BY DEF Idle
    <3>2. QED BY <2>2, <3>1 DEF Init, Exclusive, HoldsLock, JarOfThisSignIn
  <2>3. ASSUME Init, NEW w \in Workers PROVE Guard(op[w], session, refreshLock, generation)
    BY <2>1, <2>3 DEF Init
  <2>4. QED BY <2>2, <2>3 DEF Guarding
<1>2. TypeOK /\ Guarding /\ [Next]_vars => Guarding'
  BY GuardingStep
<1>3. QED BY <1>1, <1>2, TypeCorrect, PTL DEF Spec

(***************************************************************************)
(* What the invariant is for.                                              *)
(***************************************************************************)

(* The jar holds no cookie from before it was last cleared, however late it comes *)
THEOREM CookiesAreOfThisSignIn == Spec => []JarOfThisSignIn
BY GuardingHolds, PTL DEF Guarding

(* Header and cookies of a request on its way belong to one sign-in *)
THEOREM RequestsAreWhole == Spec => []NoMixedRequest
<1>1. Guarding => NoMixedRequest
  BY DEF Guarding, Guard, NoMixedRequest, Prepared, Away, Answered
<1>2. QED BY <1>1, GuardingHolds, PTL

(* A live session has at most one exchange of its refresh token under way *)
THEOREM ExchangesAreSingle == Spec => []OneLiveExchange
<1>1. Guarding => OneLiveExchange
  <2>1. SUFFICES ASSUME Guarding, NEW v \in Workers, NEW w \in Workers,
                        op[v].pc = "refreshing", op[w].pc = "refreshing",
                        Live(op[v].lease), Live(op[w].lease)
                 PROVE  v = w
    BY DEF OneLiveExchange
  <2>2. op[v].lock = refreshLock /\ op[w].lock = refreshLock
    BY <2>1 DEF Guarding, Guard, Waiting, Live
  <2>3. QED BY <2>1, <2>2 DEF Guarding, Exclusive, HoldsLock
<1>2. QED BY <1>1, GuardingHolds, PTL

(***************************************************************************)
(* How an operation ends.  What is not a step of its own leaves it alone,  *)
(* and of its own steps only some are possible where it stands.            *)
(***************************************************************************)
LEMMA OwnSteps ==
  ASSUME TypeOK, [Next]_vars, NEW w \in Workers, op'[w] # op[w],
         op[w].pc \in Answered \cup {"report"}
  PROVE  Report(w) \/ CheckResponse(w) \/ StoreCookies(w) \/ ReadBody(w) \/ Abandon(w) \/ Drop(w)
<1>0. op \in [Workers -> Operations] /\ SharedType
  BY DEF TypeOK, SharedType
<1>1. ~User /\ ~UNCHANGED vars
  BY <1>0, UserType DEF vars
<1>2. PICK v \in Workers : AuthenticateTokens(v) \/ Begin(v) \/ Step(v) \/ Drop(v)
  BY <1>1 DEF Next
<1>3. \A p : Become(v, p) => v = w
  BY <1>0, OthersKeep
<1>4. \A x : Finish(v, x) => v = w
  BY <1>3 DEF Finish
<1>5. v = w
  <2>1. CASE AuthenticateTokens(v) \/ Begin(v)
    BY <1>3, <2>1 DEF AuthenticateTokens, Begin
  <2>2. CASE Renewal(v)
    BY <1>3, <1>4, <2>2 DEF Renewal, StartRenewal, AcquireLock, ReadTokens, DropExpired,
                  PostRefresh, AnswerRefresh, RefuseRefresh, InstallRefresh, Report
  <2>3. CASE Exchange(v)
    BY <1>3, <1>4, <2>3 DEF Exchange, ReadState, ReadCredentials, ReadCookies, Send, Respond,
                  HandleStatus, CheckResponse, StoreCookies, ReadBody
  <2>4. CASE Abandon(v) \/ Drop(v)
    BY <1>4, <2>4 DEF Abandon, Drop
  <2>5. QED BY <1>2, <2>1, <2>2, <2>3, <2>4 DEF Step
<1>6. op[w].pc \in {"store", "storing", "body", "report"}
  BY DEF Answered
<1>7. ~AuthenticateTokens(w) \/ op' = op
  BY <1>6 DEF AuthenticateTokens
<1>8. ~Begin(w)
  BY <1>6 DEF Begin
<1>9. Renewal(w) => Report(w)
  BY <1>6 DEF Renewal, StartRenewal, AcquireLock, ReadTokens, DropExpired, PostRefresh,
              AnswerRefresh, RefuseRefresh, InstallRefresh
<1>10. Exchange(w) => CheckResponse(w) \/ StoreCookies(w) \/ ReadBody(w)
  BY <1>6 DEF Exchange, ReadState, ReadCredentials, ReadCookies, Send, Respond, HandleStatus
<1>11. QED BY <1>2, <1>5, <1>7, <1>8, <1>9, <1>10 DEF Step

LEMMA FinishOutcome ==
  ASSUME op \in [Workers -> Operations], NEW w \in Workers, NEW x, Finish(w, x)
  PROVE  op'[w].outcome = x
BY OthersKeep DEF Finish, Idle

LEMMA StoringGoesOn ==
  ASSUME op \in [Workers -> Operations], NEW w \in Workers, NEW s,
         Become(w, [op[w] EXCEPT !.pc = s])
  PROVE  op'[w].outcome = op[w].outcome
<1>1. op[w] \in Operations
  OBVIOUS
<1>2. QED BY <1>1, OthersKeep DEF Operations

(* A response handed over as a success comes from the session that is live then *)
THEOREM SuccessesAreCurrent == Spec => SuccessIsCurrent
<1> DEFINE Fresh == \A w \in Workers :
      op[w].pc = "body" /\ op'[w].outcome = "ok" => Live(op[w].version.session)
<1>1. TypeOK /\ Guarding /\ [Next]_vars => Fresh
  <2>1. SUFFICES ASSUME TypeOK, Guarding, [Next]_vars, NEW w \in Workers,
                        op[w].pc = "body", op'[w].outcome = "ok"
                 PROVE  Live(op[w].version.session)
    OBVIOUS
  <2>2. Guard(op[w], session, refreshLock, generation) /\ op \in [Workers -> Operations]
    BY <2>1 DEF Guarding, TypeOK
  <2>3. op'[w] # op[w]
    BY <2>1, <2>2 DEF Guard
  <2>4. \A x : Finish(w, x) => x = "ok"
    BY <2>1, <2>2, FinishOutcome
  <2>5. ReadBody(w)
    <3>1. Report(w) \/ CheckResponse(w) \/ StoreCookies(w) \/ ReadBody(w) \/ Abandon(w) \/ Drop(w)
      BY <2>1, <2>3, OwnSteps DEF Answered
    <3>2. QED BY <2>1, <2>4, <3>1 DEF Report, CheckResponse, StoreCookies, Abandon, Drop
  <2>6. Live(op[w].lease) /\ op[w].answer # "unauthorized"
    BY <2>4, <2>5 DEF ReadBody, StatusOutcome
  <2>7. op[w].lease = op[w].version.session
    BY <2>1, <2>2, <2>6 DEF Guard, Away, Answered
  <2>8. QED BY <2>6, <2>7
<1>2. QED BY <1>1, TypeCorrect, GuardingHolds, PTL DEF Spec, SuccessIsCurrent

(* The request whose own 401 signed the session out reports that 401 *)
THEOREM RejectionsAreReported == Spec => OwnRejectionReported
<1> DEFINE Told == \A w \in Workers :
      op[w].rejected # 0 /\ op'[w].outcome = "refused" => ~Live(op[w].rejected)
<1>1. TypeOK /\ Guarding /\ [Next]_vars => Told
  <2>1. SUFFICES ASSUME TypeOK, Guarding, [Next]_vars, NEW w \in Workers,
                        op[w].rejected # 0, op'[w].outcome = "refused"
                 PROVE  ~Live(op[w].rejected)
    OBVIOUS
  <2>2. Guard(op[w], session, refreshLock, generation) /\ op \in [Workers -> Operations]
    BY <2>1 DEF Guarding, TypeOK
  <2>3. op[w].pc \in Answered \cup {"report"} /\ op[w].answer = "unauthorized"
        /\ op[w].outcome = "none"
    BY <2>1, <2>2 DEF Guard, Answered
  <2>4. \A x : Finish(w, x) => x = "refused"
    BY <2>1, <2>2, FinishOutcome
  <2>5. \A s : ~Become(w, [op[w] EXCEPT !.pc = s])
    BY <2>1, <2>2, <2>3, StoringGoesOn
  <2>6. CASE Report(w)
    <3>1. Live(op[w].rejected) => Finish(w, "unauthorized")
      BY <2>1, <2>3, <2>6 DEF Report
    <3>2. QED BY <2>4, <3>1
  <2>7. CASE CheckResponse(w) \/ ReadBody(w) \/ Abandon(w)
    <3>1. op[w].pc \in Answered /\ ~Live(op[w].lease)
      BY <2>3, <2>4, <2>5, <2>7
         DEF CheckResponse, ReadBody, StatusOutcome, Abandon, Awaiting, Answered
    <3>2. QED BY <2>1, <2>2, <3>1 DEF Guard
  <2>8. QED BY <2>1, <2>3, <2>4, <2>5, <2>6, <2>7, OwnSteps DEF StoreCookies, Drop
<1>2. QED BY <1>1, TypeCorrect, GuardingHolds, PTL DEF Spec, OwnRejectionReported

(***************************************************************************)
(* A wallet never follows another inside a session.                        *)
(***************************************************************************)
NewWallet == identity # NoAccount /\ identity' # NoAccount /\ identity' # identity
Renewed == NewWallet => session' > session

LEMMA ReplaceRenews ==
  ASSUME SharedType, NEW c, NEW a, NEW id, Replace(c, a, id),
         c.kind \in {"Tokens", "Cookies"} \/ id = NoAccount
  PROVE  Renewed
<1>1. CASE SameSession(c, id)
  <2>1. identity' = IF id # NoAccount THEN id ELSE identity
    BY <1>1 DEF Replace
  <2>2. SUFFICES ASSUME NewWallet PROVE FALSE
    BY DEF Renewed
  <2>3. id # NoAccount /\ identity # NoAccount /\ id # identity
    BY <2>1, <2>2 DEF NewWallet
  <2>4. QED BY <1>1, <2>3 DEF SameSession
<1>2. CASE ~SameSession(c, id)
  BY <1>2 DEF Replace, SharedType, Renewed
<1>3. QED BY <1>1, <1>2

LEMMA RenewedStep ==
  ASSUME TypeOK, Next
  PROVE  Renewed
<1>0. SharedType /\ op \in [Workers -> Operations]
  BY DEF TypeOK, SharedType
<1>k. \A v : ClearIfVersion(v) => Renewed
  BY <1>0 DEF ClearIfVersion, authVars, SharedType, Renewed, NewWallet
<1>u. UNCHANGED identity => Renewed
  BY DEF Renewed, NewWallet
<1>1. CASE User
  <2>1. CASE AuthenticateApiKey
    BY <1>0, <2>1, ReplaceRenews DEF AuthenticateApiKey
  <2>2. CASE AuthenticateCookies
    BY <1>0, <2>2, ReplaceRenews DEF AuthenticateCookies
  <2>3. CASE \E a \in Accounts : SetCookieIdentity(a)
    BY <1>0, <2>3 DEF SetCookieIdentity, SharedType, Renewed, NewWallet
  <2>4. CASE Clear
    BY <1>0, <2>4, ReplaceRenews DEF Clear
  <2>5. CASE Close
    BY <1>0, <2>5 DEF Close, SharedType, Renewed
  <2>6. CASE Expire
    BY <1>u, <2>6 DEF Expire
  <2>7. QED BY <1>1, <2>1, <2>2, <2>3, <2>4, <2>5, <2>6 DEF User
<1>2. ASSUME NEW w \in Workers, AuthenticateTokens(w) PROVE Renewed
  <2>1. PICK secret \in Secrets("Tokens"), a \in Identities, newAge \in Ages :
          Replace([kind |-> "Tokens", owner |-> OwnerOf(secret, a), secret |-> secret],
                  newAge, OwnerOf(secret, a))
    BY <1>2 DEF AuthenticateTokens
  <2>2. [kind |-> "Tokens", owner |-> OwnerOf(secret, a), secret |-> secret].kind = "Tokens"
    OBVIOUS
  <2>3. QED BY <1>0, <2>1, <2>2, ReplaceRenews
<1>3. ASSUME NEW w \in Workers, Begin(w) \/ Step(w) \/ Drop(w) PROVE Renewed
  <2>1. NoSharedChange => UNCHANGED identity
    BY DEF NoSharedChange, authVars
  <2>2. CASE DropExpired(w) \/ RefuseRefresh(w)
    BY <1>k, <2>2 DEF DropExpired, RefuseRefresh
  <2>3. CASE HandleStatus(w)
    BY <1>k, <1>u, <2>3 DEF HandleStatus, authVars
  <2>4. CASE InstallRefresh(w)
    BY <1>0, <2>4 DEF InstallRefresh, authVars, SharedType, Renewed, NewWallet
  <2>5. CASE StoreCookies(w)
    BY <1>u, <2>5 DEF StoreCookies, authVars
  <2>6. CASE NoSharedChange
    BY <1>u, <2>1, <2>6
  <2>7. QED
    BY <1>3, <2>2, <2>3, <2>4, <2>5, <2>6
       DEF Begin, Step, Drop, Abandon, Renewal, Exchange, StartRenewal, AcquireLock, ReadTokens,
           PostRefresh, AnswerRefresh, Report, ReadState, ReadCredentials, ReadCookies, Send,
           Respond, CheckResponse, ReadBody
<1>4. QED BY <1>1, <1>2, <1>3 DEF Next

(* Work of one wallet's session never goes on under another wallet *)
THEOREM WalletsAreApart == Spec => SwitchIsNewSession
<1> DEFINE Apart == identity # NoAccount /\ identity' # NoAccount /\ identity' # identity
                      => session' > session
<1>1. TypeOK /\ [Next]_vars => [Apart]_vars
  BY RenewedStep DEF Renewed, NewWallet
<1>2. QED BY <1>1, TypeCorrect, PTL DEF Spec, SwitchIsNewSession

--------------------------------------------------------------------------------
(***************************************************************************)
(* The other parts of the client.  A behaviour of the client is one of     *)
(* each part, which takes a step of its own or none; the proofs of a part  *)
(* are made for every value of its constants, and so for these.            *)
(***************************************************************************)
Signing == INSTANCE AccountSessionProofs WITH
  Calls <- Workers, Nobody <- NoAccount,
  Operations <- {"login", "set_tokens", "me", "logout", "refresh"},
  Runtimes <- {"one_thread", "many_threads"}, MaxSession <- 2, MaxVersion <- 3, lock <- held

Moving == INSTANCE UploadsProofs WITH
  Creations <- Workers, Nobody <- Idler, AssetCount <- 2, Lanes <- 2, BusyTries <- 2,
  Transfers <- 2, MaxSession <- 2, session <- owner

Writing == INSTANCE VideoRequestProofs WITH
  MaxAssets <- 3,
  Lengths <- {Length(362, 6, 0), Length(124, 0, 24)}, Links <- {{}, {"video"}},
  Pins <- {<<122>>, <<140, 1>>}

LEMMA SigningConstants == Signing!ConstantsAreSound
BY ConstantsAreSound
   DEF Signing!ConstantsAreSound, Account!ConstantsAreSound, ConstantsAreSound, Signing!Free,
       Account!Free, Signing!Listener, Account!Listener

LEMMA MovingConstants == Moving!ConstantsAreSound
BY ConstantsAreSound
   DEF Moving!ConstantsAreSound, Media!ConstantsAreSound, ConstantsAreSound, Moving!Tasks,
       Media!Tasks

LEMMA WritingConstants == Writing!ConstantsAreSound
BY ConstantsAreSound
   DEF Writing!ConstantsAreSound, Video!ConstantsAreSound, ConstantsAreSound

(***************************************************************************)
(* AccountSession.                                                         *)
(***************************************************************************)
LEMMA ClientSigns == ClientSpec => Account!Spec
<1>1. ClientInit => Account!Init
  BY DEF ClientInit
<1>2. [ClientNext]_<<running, vars, account, media, video>> => [Account!Next]_(Account!vars)
  BY DEF ClientNext, Account!vars, account
<1>3. QED BY <1>1, <1>2, PTL DEF ClientSpec, Account!Spec

LEMMA SigningVariables == Account!vars = Signing!vars /\ (Account!vars)' = (Signing!vars)'
BY DEF Account!vars, Signing!vars

LEMMA SigningIsAccount == Account!Spec => Signing!Spec
<1>1. Account!Init => Signing!Init
  BY DEF Account!Init, Signing!Init, Account!Idle, Signing!Idle, Account!NoState, Signing!NoState,
     Account!Account, Signing!Account, Account!Free, Signing!Free
<1>2. [Account!Next]_(Account!vars) => [Signing!Next]_(Signing!vars)
  BY ZenonT(60)
  DEF Account!Free, Signing!Free, Account!Listener, Signing!Listener, Account!Elsewhere,
      Signing!Elsewhere, Account!Unknown, Signing!Unknown, Account!ShowNow, Signing!ShowNow,
      Account!NoticeShown, Signing!NoticeShown, Account!Renew, Signing!Renew, Account!vars, Signing!vars, Account!Account, Signing!Account,
      Account!Idle, Signing!Idle, Account!NoState, Signing!NoState, Account!Init, Signing!Init,
      Account!Authenticated, Signing!Authenticated, Account!At, Signing!At, Account!Awaiting,
      Signing!Awaiting, Account!MayRun, Signing!MayRun, Account!Goto, Signing!Goto, Account!Done,
      Signing!Done, Account!Current, Signing!Current, Account!SignIn, Signing!SignIn,
      Account!SignOut, Signing!SignOut, Account!Reset, Signing!Reset, Account!KeepShown,
      Signing!KeepShown, Account!KeepService, Signing!KeepService, Account!KeepAuth,
      Signing!KeepAuth, Account!TakeUnguarded, Signing!TakeUnguarded, Account!TakeGuarded,
      Signing!TakeGuarded, Account!Show, Signing!Show, Account!Start, Signing!Start,
      Account!LoginAnswered, Signing!LoginAnswered, Account!Superseded, Signing!Superseded,
      Account!Skip, Signing!Skip, Account!Install, Signing!Install, Account!Installed,
      Signing!Installed, Account!Hydrate, Signing!Hydrate, Account!Fetched, Signing!Fetched,
      Account!FetchFails, Signing!FetchFails, Account!Apply, Signing!Apply, Account!Applied,
      Signing!Applied, Account!UndoAlways, Signing!UndoAlways, Account!Undo, Signing!Undo,
      Account!Rollback, Signing!Rollback, Account!Left, Signing!Left, Account!LeaveFails,
      Signing!LeaveFails, Account!ClearAuth, Signing!ClearAuth, Account!ClearProjection,
      Signing!ClearProjection, Account!Clear, Signing!Clear, Account!ShowMe, Signing!ShowMe,
      Account!ShownMe, Signing!ShownMe, Account!ListenerIdle, Signing!ListenerIdle,
      Account!ListenerSide, Signing!ListenerSide, Account!Notice, Signing!Notice,
      Account!NoticeOut, Signing!NoticeOut, Account!NoticeIn, Signing!NoticeIn,
      Account!NoticeFetched, Signing!NoticeFetched, Account!NoticeShow, Signing!NoticeShow,
      Account!Entitlement, Signing!Entitlement, Account!OlderIgnoringWrites,
      Signing!OlderIgnoringWrites, Account!Older, Signing!Older, Account!ApplySubscription,
      Signing!ApplySubscription, Account!Entitled, Signing!Entitled, Account!Read, Signing!Read,
      Account!Answered, Signing!Answered, Account!Refreshed, Signing!Refreshed, Account!CallStep,
      Signing!CallStep, Account!Listen, Signing!Listen, Account!Next, Signing!Next
<1>3. QED BY <1>1, <1>2, PTL DEF Account!Spec, Signing!Spec

(* Once the calls and the listener of a client have ended, the account shown is the one   *)
(* signed in or nobody's, unless a renewal raced who held the lock (projection.rs).       *)
THEOREM ClientShowsOwn == ClientSpec => []SettledShowsOwn
<1>1. Signing!Spec => []Signing!SettledShowsOwn
  BY SigningConstants, Signing!SettledShows
<1>2. Signing!SettledShowsOwn => SettledShowsOwn
  BY DEF Signing!SettledShowsOwn, SettledShowsOwn, Account!SettledShowsOwn, Signing!Settled,
     Account!Settled, Signing!Authenticated, Account!Authenticated
<1>3. QED BY <1>1, <1>2, ClientSigns, SigningIsAccount, PTL

(* On one thread, no call of a client signs a newer account out (authentication.rs). *)
THEOREM ClientEndsOwn == ClientSpec => OnlyOwnSignOut
<1>1. Signing!Spec => Signing!OnlyOwnSignOut
  BY SigningConstants, Signing!OnlyOwnEnds
<1>2. [runtime = "one_thread" => Signing!EndsOwnSession]_(Signing!vars)
        => [runtime = "one_thread" => Account!EndsOwnSession]_(Account!vars)
  BY SigningVariables DEF Signing!EndsOwnSession, Account!EndsOwnSession, Signing!Authenticated,
     Account!Authenticated, Signing!Current, Account!Current
<1>3. QED
  BY <1>1, <1>2, ClientSigns, SigningIsAccount, PTL
  DEF OnlyOwnSignOut, Account!OnlyOwnSignOut, Signing!OnlyOwnSignOut

(* On one thread, a late answer without a version never takes the subscription of a       *)
(* client back behind the socket, nor what states a version behind a newer (projection.rs) *)
THEOREM ClientNeverOlder == ClientSpec => SubscriptionNeverOlder
<1>1. Signing!Spec => Signing!SubscriptionNeverOlder
  BY SigningConstants, Signing!NeverOlder
<1>2. [runtime = "one_thread" => Signing!NeverBack]_(Signing!vars)
        => [runtime = "one_thread" => Account!NeverBack]_(Account!vars)
  BY SigningVariables DEF Signing!NeverBack, Account!NeverBack, Signing!Replaces,
     Account!Replaces
<1>3. QED
  BY <1>1, <1>2, ClientSigns, SigningIsAccount, PTL
  DEF SubscriptionNeverOlder, Account!SubscriptionNeverOlder, Signing!SubscriptionNeverOlder

(***************************************************************************)
(* Uploads.                                                                *)
(***************************************************************************)
LEMMA ClientMoves == ClientSpec => Media!Spec
<1>1. ClientInit => Media!Init
  BY DEF ClientInit
<1>2. [ClientNext]_<<running, vars, account, media, video>> => [Media!Next]_(Media!vars)
  BY DEF ClientNext, Media!vars, media
<1>3. QED BY <1>1, <1>2, PTL DEF ClientSpec, Media!Spec

LEMMA MovingVariables == Media!vars = Moving!vars /\ (Media!vars)' = (Moving!vars)'
BY DEF Media!vars, Moving!vars

LEMMA MovingIsMedia == Media!Spec => Moving!Spec
<1>1. Media!Init => Moving!Init
  BY DEF Media!Init, Moving!Init, Media!Tasks, Moving!Tasks
<1>2. [Media!Next]_(Media!vars) => [Moving!Next]_(Moving!vars)
  BY ZenonT(60)
  DEF Media!Tasks, Moving!Tasks, Media!vars, Moving!vars, Media!Init, Moving!Init, Media!At,
      Moving!At, Media!Goto, Moving!Goto, Media!Over, Moving!Over, Media!Current, Moving!Current,
      Media!Runs, Moving!Runs, Media!Release, Moving!Release, Media!KeepHeld, Moving!KeepHeld,
      Media!KeepWorld, Moving!KeepWorld, Media!SwitchAccount, Moving!SwitchAccount, Media!Expire,
      Moving!Expire, Media!MakeRoom, Moving!MakeRoom, Media!Ended, Moving!Ended, Media!Fail,
      Moving!Fail, Media!Start, Moving!Start, Media!Prepared, Moving!Prepared, Media!ReadAsset,
      Moving!ReadAsset, Media!NextAsset, Moving!NextAsset, Media!Receive, Moving!Receive,
      Media!FallbackBound, Moving!FallbackBound, Media!Fallback, Moving!Fallback, Media!GetUrl,
      Moving!GetUrl, Media!Transfer, Moving!Transfer, Media!Track, Moving!Track,
      Media!RefreshedKeeping, Moving!RefreshedKeeping, Media!Refreshed, Moving!Refreshed,
      Media!Ask, Moving!Ask, Media!Learn, Moving!Learn, Media!Capabilities, Moving!Capabilities,
      Media!TakeLane, Moving!TakeLane, Media!Cooling, Moving!Cooling, Media!Busy, Moving!Busy,
      Media!Reserve, Moving!Reserve, Media!Full, Moving!Full, Media!Put, Moving!Put,
      Media!Finalize, Moving!Finalize, Media!Bind, Moving!Bind, Media!Step, Moving!Step,
      Media!Next, Moving!Next, Media!Cardinality, Moving!Cardinality
<1>3. QED BY <1>1, <1>2, PTL DEF Media!Spec, Moving!Spec

(* A client tracks a project once each of its assets is with the service (media.rs). *)
THEOREM ClientTracksWhole == ClientSpec => []TrackedIsWhole
<1>1. Moving!Spec => []Moving!TrackedIsWhole
  BY MovingConstants, Moving!TrackedProjectsAreWhole
<1>2. Moving!TrackedIsWhole => TrackedIsWhole
  BY DEF Moving!TrackedIsWhole, TrackedIsWhole, Media!TrackedIsWhole, Moving!At, Media!At
<1>3. QED BY <1>1, <1>2, ClientMoves, MovingIsMedia, PTL

(* A client holds no refusal of one account's library against the next (reusable.rs). *)
THEOREM ClientRefusesOwn == ClientSpec => OwnRefusalsOnly
<1> DEFINE Apart == \A t \in Workers :
      task[t].pc \in {"ask", "cooling"} /\ task'[t].pc \in {"url", "lane"} =>
        /\ cache'.blocked => cache'.refused = owner
        /\ ~cache'.blocked => cache'.learned = owner
<1>1. Moving!Spec => Moving!OwnRefusalsOnly
  BY MovingConstants, Moving!RefusalsAreOwn
<1>2. [Apart]_(Moving!vars) => [Apart]_(Media!vars)
  BY MovingVariables
<1>3. QED
  BY <1>1, <1>2, ClientMoves, MovingIsMedia, PTL
  DEF OwnRefusalsOnly, Media!OwnRefusalsOnly, Moving!OwnRefusalsOnly

(***************************************************************************)
(* VideoRequest: in the behaviours that run it; in the others it rests.    *)
(***************************************************************************)
LEMMA ClientWrites == ClientSpec /\ running = "video" => Video!Spec
<1>1. ClientInit /\ running = "video" => Video!Init
  BY DEF ClientInit
<1>2. [ClientNext]_<<running, vars, account, media, video>> => [Video!Next]_(Video!vars)
  BY DEF ClientNext, Video!vars, video
<1>3. QED BY <1>1, <1>2, PTL DEF ClientSpec, Video!Spec

LEMMA VideoRests == ClientSpec /\ ~(running = "video") => []VideoAtRest
<1>1. ClientInit /\ ~(running = "video") => VideoAtRest
  BY DEF ClientInit
<1>2. ~(running = "video") /\ VideoAtRest /\ [ClientNext]_<<running, vars, account, media, video>>
        => (~(running = "video") /\ VideoAtRest)'
  BY DEF ClientNext, VideoAtRest, video, Length
<1>3. QED BY <1>1, <1>2, PTL DEF ClientSpec

LEMMA WritingIsVideo == Video!Spec => Writing!Spec
<1>1. Video!Init => Writing!Init
  BY DEF Video!Init, Writing!Init, Video!Models, Writing!Models, Video!Of, Writing!Of,
         Video!External, Writing!External, Video!H3Reference, Writing!H3Reference, Video!H3,
         Writing!H3
<1>2. [Video!Next]_(Video!vars) => [Writing!Next]_(Writing!vars)
  <2>1. Video!AddAsset => Writing!AddAsset
    BY DEF Video!AddAsset, Writing!AddAsset, Video!Roles, Writing!Roles, Video!Plain,
           Writing!Plain
  <2>2. Video!PinKeyframes => Writing!PinKeyframes
    BY DEF Video!PinKeyframes, Writing!PinKeyframes, Video!Others, Writing!Others
  <2>3. Video!Prepare => Writing!Prepare
    BY ZenonT(60)
    DEF Video!H3, Writing!H3, Video!H3Reference, Writing!H3Reference, Video!H3Keyframes,
        Writing!H3Keyframes, Video!Round, Writing!Round, Video!VideoFrames, Writing!VideoFrames,
        Video!Durations, Writing!Durations, Video!Numbered, Writing!Numbered, Video!WireName,
        Writing!WireName, Video!Resized, Writing!Resized, Video!Number, Writing!Number,
        Video!Mark, Writing!Mark, Video!Marked, Writing!Marked, Video!Params, Writing!Params,
        Video!Given, Writing!Given, Video!Count, Writing!Count, Video!Slots, Writing!Slots,
        Video!Contiguous, Writing!Contiguous, Video!RolesFit, Writing!RolesFit, Video!Required,
        Writing!Required, Video!Optional, Writing!Optional, Video!Assets, Writing!Assets,
        Video!RequirementsMet, Writing!RequirementsMet, Video!Images, Writing!Images,
        Video!Videos, Writing!Videos, Video!Audios, Writing!Audios, Video!HappyhorseFits,
        Writing!HappyhorseFits, Video!HasFrames, Writing!HasFrames, Video!HasLoose,
        Writing!HasLoose, Video!Wan3Fits, Writing!Wan3Fits, Video!SeedanceFits,
        Writing!SeedanceFits, Video!H3ReferencesFit, Writing!H3ReferencesFit, Video!KeyframesFit,
        Writing!KeyframesFit, Video!LengthFits, Writing!LengthFits, Video!AssetsFit,
        Writing!AssetsFit, Video!Frames, Writing!Frames, Video!Indices, Writing!Indices,
        Video!PinsFit, Writing!PinsFit, Video!Announced, Writing!Announced, Video!Prepare,
        Writing!Prepare, Video!ToSet, Writing!ToSet, Video!Range, Writing!Range,
        Video!IsInjective, Writing!IsInjective, Video!Cardinality, Writing!Cardinality
  <2>4. Video!Upload => Writing!Upload
    BY DEF Video!Upload, Writing!Upload, Video!WireName, Writing!WireName, Video!H3Reference,
           Writing!H3Reference, Video!H3, Writing!H3
  <2>5. QED BY <2>1, <2>2, <2>3, <2>4 DEF Video!Next, Writing!Next, Video!vars, Writing!vars
<1>3. QED BY <1>1, <1>2, PTL DEF Video!Spec, Writing!Spec

(* Pinned keyframes lie inside the video that a client asks for (wire/video.rs). *)
THEOREM ClientPinsInside == ClientSpec => []PinsInside
<1>1. Writing!Spec => []Writing!PinsInside
  BY WritingConstants, Writing!PinsAreInside
<1>2. Writing!PinsInside => PinsInside
  BY DEF Writing!PinsInside, PinsInside, Video!PinsInside
<1>3. VideoAtRest => PinsInside
  <2>1. DOMAIN <<>> = {}
    OBVIOUS
  <2>2. QED BY <2>1 DEF VideoAtRest, PinsInside, Video!PinsInside
<1>4. QED BY <1>1, <1>2, <1>3, ClientWrites, VideoRests, WritingIsVideo, PTL

(* A worker finds every asset that a client's job request announces (wire/video.rs). *)
THEOREM ClientKeepsPromises == ClientSpec => []PromisedAreUploaded
<1>1. Writing!Spec => []Writing!PromisedAreUploaded
  BY WritingConstants, Writing!PromisesAreKept
<1>2. Writing!PromisedAreUploaded => PromisedAreUploaded
  BY DEF Writing!PromisedAreUploaded, PromisedAreUploaded, Video!PromisedAreUploaded,
     Writing!UploadOf, Video!UploadOf, Writing!ToSet, Video!ToSet
<1>3. VideoAtRest => PromisedAreUploaded
  BY DEF VideoAtRest, PromisedAreUploaded, Video!PromisedAreUploaded
<1>4. QED BY <1>1, <1>2, <1>3, ClientWrites, VideoRests, WritingIsVideo, PTL
================================================================================
