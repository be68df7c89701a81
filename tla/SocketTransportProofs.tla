-------------------------- MODULE SocketTransportProofs --------------------------
(***************************************************************************)
(* What the shared WebSocket promises, for any set of commands, channel    *)
(* capacity and number of account changes and failures.                    *)
(* The last part is about the wait of a tool call (ToolWait), the other    *)
(* part of the run of MCSocketTransport.                                   *)
(***************************************************************************)
EXTENDS MCSocketTransport, TLAPS, WellFoundedInduction

--------------------------------------------------------------------------------
(***************************************************************************)
(* Queues.  Induction over the length of a queue is the least element of   *)
(* the set of lengths that are not good.                                   *)
(***************************************************************************)
(* The least element of a set of natural numbers, and the induction it gives  *)
LEMMA LeastNatural ==
  ASSUME NEW T, T \subseteq Nat, T # {}
  PROVE  \E n \in T : \A m \in T : ~ (m < n)
<1>1. \E x \in T : \A y \in T : ~ (<<y, x>> \in OpToRel(<, Nat))
  BY NatLessThanWellFounded, WFMin
<1>2. QED BY <1>1 DEF OpToRel

LEMMA ByInduction ==
  ASSUME NEW S, 0 \in S, \A n \in Nat : n \in S => n + 1 \in S
  PROVE  Nat \subseteq S
<1>1. SUFFICES ASSUME Nat \ S # {} PROVE FALSE
  OBVIOUS
<1>2. PICK n \in Nat \ S : \A m \in Nat \ S : ~ (m < n)
  BY <1>1, LeastNatural
<1>3. n # 0 /\ n - 1 \in Nat /\ n - 1 < n
  BY <1>2
<1>4. n - 1 \in S
  BY <1>2, <1>3
<1>5. QED BY <1>2, <1>3, <1>4

(* A function that does what Kept says of the first n places of a queue *)
KeepsUpTo(f, queue, set, n) ==
  f = [i \in 0 .. n |->
        IF i = 0 THEN <<>>
        ELSE IF queue[i] \in set THEN Append(f[i - 1], queue[i]) ELSE f[i - 1]]

LEMMA KeepsExists ==
  ASSUME NEW queue, NEW set
  PROVE  \A n \in Nat : \E f : KeepsUpTo(f, queue, set, n)
<1> DEFINE S == {n \in Nat : \E f : KeepsUpTo(f, queue, set, n)}
<1>1. 0 \in S
  <2>1. KeepsUpTo([i \in 0 .. 0 |-> <<>>], queue, set, 0)
    BY DEF KeepsUpTo
  <2>2. QED BY <2>1
<1>2. ASSUME NEW n \in Nat, n \in S PROVE n + 1 \in S
  <2>1. PICK f : KeepsUpTo(f, queue, set, n)
    BY <1>2
  <2> DEFINE next == IF queue[n + 1] \in set THEN Append(f[n], queue[n + 1]) ELSE f[n]
             g == [i \in 0 .. n + 1 |-> IF i = n + 1 THEN next ELSE f[i]]
  <2>2. ASSUME NEW i \in 0 .. n + 1
        PROVE  g[i] = IF i = 0 THEN <<>>
                      ELSE IF queue[i] \in set THEN Append(g[i - 1], queue[i]) ELSE g[i - 1]
    <3>1. CASE i = n + 1
      <4>1. g[i] = next /\ i # 0 /\ i - 1 = n /\ n \in 0 .. n + 1 /\ n # n + 1
        BY <3>1
      <4>2. g[i - 1] = f[n]
        BY <4>1
      <4>3. QED BY <3>1, <4>1, <4>2
    <3>2. CASE i # n + 1
      <4>1. i \in 0 .. n /\ g[i] = f[i]
        BY <3>2
      <4>2. i # 0 => i - 1 \in 0 .. n + 1 /\ i - 1 # n + 1 /\ g[i - 1] = f[i - 1]
        BY <4>1
      <4>3. f[i] = IF i = 0 THEN <<>>
                   ELSE IF queue[i] \in set THEN Append(f[i - 1], queue[i]) ELSE f[i - 1]
        BY <2>1, <4>1 DEF KeepsUpTo
      <4>4. QED BY <4>1, <4>2, <4>3
    <3>3. QED BY <3>1, <3>2
  <2>3. KeepsUpTo(g, queue, set, n + 1)
    BY <2>2 DEF KeepsUpTo
  <2>4. QED BY <2>3
<1> HIDE DEF S
<1>3. Nat \subseteq S
  BY <1>1, <1>2, ByInduction
<1>4. QED BY <1>3 DEF S

LEMMA KeptIsLast ==
  ASSUME NEW queue \in Seq(Commands), NEW set
  PROVE  \E f : KeepsUpTo(f, queue, set, Len(queue)) /\ Kept(queue, set) = f[Len(queue)]
<1> DEFINE f == CHOOSE g : KeepsUpTo(g, queue, set, Len(queue))
<1>1. KeepsUpTo(f, queue, set, Len(queue))
  BY KeepsExists
<1>2. Kept(queue, set) = f[Len(queue)]
  BY DEF Kept, KeepsUpTo
<1>3. QED BY <1>1, <1>2

(* Every element of the second comes from the first, and in its order *)
InOrderOf(q, queue) ==
  \A i, j \in DOMAIN q : i < j =>
    \E a, b \in DOMAIN queue : a < b /\ queue[a] = q[i] /\ queue[b] = q[j]

(* The sequence q is what is left of the first n places of a queue *)
LeftOf(q, queue, set, n) ==
  /\ q \in Seq(Commands)
  /\ \A i \in DOMAIN q : \E a \in 1 .. n : queue[a] = q[i] /\ queue[a] \in set
  /\ \A a \in 1 .. n : queue[a] \in set => \E i \in DOMAIN q : q[i] = queue[a]
  /\ \A i, j \in DOMAIN q : i < j =>
       \E a, b \in 1 .. n : a < b /\ queue[a] = q[i] /\ queue[b] = q[j]

LEMMA LeftAppended ==
  ASSUME NEW queue, NEW set, NEW n \in Nat, NEW q, LeftOf(q, queue, set, n),
         queue[n + 1] \in Commands, queue[n + 1] \in set
  PROVE  LeftOf(Append(q, queue[n + 1]), queue, set, n + 1)
<1> DEFINE r == Append(q, queue[n + 1])
<1>1. PICK m : m = Len(q) + 1
  OBVIOUS
<1>2. q \in Seq(Commands)
  BY DEF LeftOf
<1>3. /\ r \in Seq(Commands) /\ DOMAIN r = 1 .. m /\ DOMAIN q = 1 .. m - 1 /\ m \in Nat \ {0}
      /\ r[m] = queue[n + 1] /\ \A i \in 1 .. m - 1 : r[i] = q[i]
  BY <1>1, <1>2
<1> HIDE DEF r
<1>4. \A i \in DOMAIN r : i = m \/ (i \in DOMAIN q /\ r[i] = q[i])
  BY <1>3
<1>5. m \in DOMAIN r /\ \A i \in DOMAIN q : i \in DOMAIN r
  BY <1>3
<1>6. n + 1 \in 1 .. n + 1 /\ \A a \in 1 .. n : a \in 1 .. n + 1 /\ a < n + 1
  OBVIOUS
<1>7. \A a \in 1 .. n + 1 : a = n + 1 \/ a \in 1 .. n
  OBVIOUS
<1>8. ASSUME NEW i \in DOMAIN r
      PROVE  \E a \in 1 .. n + 1 : queue[a] = r[i] /\ queue[a] \in set
  <2>1. CASE i = m
    BY <1>3, <1>6, <2>1
  <2>2. CASE i \in DOMAIN q /\ r[i] = q[i]
    BY <1>6, <2>2 DEF LeftOf
  <2>3. QED BY <1>4, <2>1, <2>2
<1>9. ASSUME NEW a \in 1 .. n + 1, queue[a] \in set
      PROVE  \E i \in DOMAIN r : r[i] = queue[a]
  <2>1. CASE a = n + 1
    BY <1>3, <1>5, <2>1
  <2>2. CASE a \in 1 .. n
    <3>1. PICK i \in DOMAIN q : q[i] = queue[a]
      BY <1>9, <2>2 DEF LeftOf
    <3>2. QED BY <1>3, <1>5, <3>1
  <2>3. QED BY <1>7, <2>1, <2>2
<1>10. ASSUME NEW i \in DOMAIN r, NEW j \in DOMAIN r, i < j
       PROVE  \E a, b \in 1 .. n + 1 : a < b /\ queue[a] = r[i] /\ queue[b] = r[j]
  <2>1. i \in DOMAIN q /\ r[i] = q[i]
    BY <1>3, <1>10
  <2>2. CASE j = m
    <3>1. PICK a \in 1 .. n : queue[a] = q[i]
      BY <2>1 DEF LeftOf
    <3>2. QED BY <1>3, <1>6, <2>1, <2>2, <3>1
  <2>3. CASE j \in DOMAIN q /\ r[j] = q[j]
    <3>1. PICK a \in 1 .. n, b \in 1 .. n : a < b /\ queue[a] = q[i] /\ queue[b] = q[j]
      BY <1>10, <2>1, <2>3 DEF LeftOf
    <3>2. QED BY <1>6, <2>1, <2>3, <3>1
  <2>4. QED BY <1>4, <2>2, <2>3
<1>11. LeftOf(r, queue, set, n + 1)
  BY <1>3, <1>8, <1>9, <1>10 DEF LeftOf
<1>12. QED BY <1>11 DEF r

(* Kept leaves exactly the commands of the set, in the order they had *)
LEMMA KeptFacts ==
  ASSUME NEW queue \in Seq(Commands), NEW set
  PROVE  /\ Kept(queue, set) \in Seq(Commands)
         /\ ToSet(Kept(queue, set)) = ToSet(queue) \cap set
         /\ InOrderOf(Kept(queue, set), queue)
<1>1. PICK f : KeepsUpTo(f, queue, set, Len(queue)) /\ Kept(queue, set) = f[Len(queue)]
  BY KeptIsLast
<1> DEFINE S == {n \in Nat : n <= Len(queue) => LeftOf(f[n], queue, set, n)}
<1>2. Len(queue) \in Nat /\ DOMAIN queue = 1 .. Len(queue)
  OBVIOUS
<1>3. 0 \in S
  <2>1. f[0] = <<>>
    BY <1>1, <1>2 DEF KeepsUpTo
  <2>2. LeftOf(<<>>, queue, set, 0)
    BY DEF LeftOf
  <2>3. QED BY <2>1, <2>2
<1>4. ASSUME NEW n \in Nat, n \in S PROVE n + 1 \in S
  <2> SUFFICES ASSUME n + 1 <= Len(queue) PROVE LeftOf(f[n + 1], queue, set, n + 1)
    OBVIOUS
  <2>1. LeftOf(f[n], queue, set, n)
    BY <1>2, <1>4
  <2>2. n + 1 \in DOMAIN queue /\ queue[n + 1] \in Commands
    BY <1>2
  <2>3. n + 1 \in 0 .. Len(queue) /\ n + 1 # 0 /\ (n + 1) - 1 = n
    BY <1>2
  <2>4. f[n + 1] = IF queue[n + 1] \in set THEN Append(f[n], queue[n + 1]) ELSE f[n]
    BY <1>1, <2>3 DEF KeepsUpTo
  <2>5. CASE queue[n + 1] \in set
    BY <2>1, <2>2, <2>4, <2>5, LeftAppended
  <2>6. CASE queue[n + 1] \notin set
    <3>1. \A a \in 1 .. n : a \in 1 .. n + 1
      OBVIOUS
    <3>2. \A a \in 1 .. n + 1 : a = n + 1 \/ a \in 1 .. n
      OBVIOUS
    <3>3. f[n + 1] = f[n]
      BY <2>4, <2>6
    <3>4. LeftOf(f[n], queue, set, n + 1)
      BY <2>1, <2>6, <3>1, <3>2 DEF LeftOf
    <3>5. QED BY <3>3, <3>4
  <2>7. QED BY <2>5, <2>6
<1> HIDE DEF S
<1>5. Len(queue) \in S
  BY <1>2, <1>3, <1>4, ByInduction
<1> DEFINE q == f[Len(queue)]
<1>6. LeftOf(q, queue, set, Len(queue))
  BY <1>2, <1>5 DEF S
<1> HIDE DEF q
<1>7. /\ q \in Seq(Commands)
      /\ \A i \in DOMAIN q : \E a \in DOMAIN queue : queue[a] = q[i] /\ queue[a] \in set
      /\ \A a \in DOMAIN queue : queue[a] \in set => \E i \in DOMAIN q : q[i] = queue[a]
      /\ InOrderOf(q, queue)
  <2>1. q \in Seq(Commands)
    BY <1>6 DEF LeftOf
  <2>2. \A i \in DOMAIN q : \E a \in DOMAIN queue : queue[a] = q[i] /\ queue[a] \in set
    BY <1>2, <1>6 DEF LeftOf
  <2>3. \A a \in DOMAIN queue : queue[a] \in set => \E i \in DOMAIN q : q[i] = queue[a]
    BY <1>2, <1>6 DEF LeftOf
  <2>4. InOrderOf(q, queue)
    <3>1. ASSUME NEW i \in DOMAIN q, NEW j \in DOMAIN q, i < j
          PROVE  \E a, b \in DOMAIN queue : a < b /\ queue[a] = q[i] /\ queue[b] = q[j]
      <4>1. PICK a \in 1 .. Len(queue), b \in 1 .. Len(queue) :
              a < b /\ queue[a] = q[i] /\ queue[b] = q[j]
        BY <1>6, <3>1 DEF LeftOf
      <4>2. a \in DOMAIN queue /\ b \in DOMAIN queue
        BY <1>2
      <4>3. QED BY <4>1, <4>2
    <3>2. QED BY <3>1 DEF InOrderOf
  <2>5. QED BY <2>1, <2>2, <2>3, <2>4
<1>8. ToSet(q) = ToSet(queue) \cap set
  <2>1. ASSUME NEW c PROVE c \in ToSet(q) <=> c \in ToSet(queue) /\ c \in set
    BY <1>7 DEF ToSet
  <2>2. QED BY <2>1
<1>9. QED BY <1>1, <1>7, <1>8 DEF q

--------------------------------------------------------------------------------
(***************************************************************************)
(* Types.                                                                  *)
(***************************************************************************)
(* The manager writes a command of its queue, never none *)
Holding == manager = "writing" => writing.command \in Commands

LEMMA AnsweredType ==
  ASSUME TypeOK, NEW set, NEW answer \in Answers, Answer(set, answer)
  PROVE  command' \in [Commands -> Calls]
<1>1. ASSUME NEW c \in Commands
      PROVE  [command[c] EXCEPT !.state = "done", !.answer = answer] \in Calls
  <2>1. command[c] \in Calls
    BY DEF TypeOK
  <2>2. QED BY <2>1 DEF Calls
<1>2. QED BY <1>1 DEF Answer, Answered, TypeOK

LEMMA StopType ==
  ASSUME TypeOK, Stop
  PROVE  /\ manager' \in Positions
         /\ channel' \in Seq(Commands) /\ pending' \in Seq(Commands)
         /\ writing' \in [command : Commands \cup {NoCommand}, left : BOOLEAN]
         /\ command' \in [Commands -> Calls]
<1>1. command' \in [Commands -> Calls]
  BY AnsweredType DEF Stop, Answers
<1>2. QED BY <1>1 DEF Stop, Positions

LEMMA TailType ==
  ASSUME NEW queue \in Seq(Commands), queue # <<>>
  PROVE  Head(queue) \in Commands /\ Tail(queue) \in Seq(Commands)
OBVIOUS

LEMMA AccountKeepsType == ASSUME TypeOK, Account PROVE TypeOK'
<1>1. ASSUME NEW n \in BOOLEAN, NEW i \in BOOLEAN, Authenticate(n, i) PROVE TypeOK'
  BY <1>1 DEF TypeOK, Authenticate, AccountSide, managerVars, queues, histories
<1>2. CASE SwitchAccount \/ SignOut \/ Renew
  BY <1>1, <1>2 DEF SwitchAccount, SignOut, Renew
<1>3. CASE CloseAccount
  BY <1>3 DEF TypeOK, CloseAccount, AccountSide, managerVars, queues, histories
<1>4. CASE CloseSocket
  BY <1>4 DEF TypeOK, CloseSocket, AccountSide, managerVars, queues, histories
<1>5. CASE Abort
  <2>1. flags' \in [connected : BOOLEAN, session : Nat, authenticated : BOOLEAN]
    BY <1>5 DEF Abort, Down, TypeOK
  <2>2. QED BY <1>5, <2>1 DEF TypeOK, Abort, queues, histories
<1>6. QED BY <1>2, <1>3, <1>4, <1>5 DEF Account

LEMMA CallersKeepType ==
  ASSUME TypeOK, Start \/ \E c \in Commands : Caller(c)
  PROVE  TypeOK'
<1> USE DEF CallerSide, authSide
<1>1. CASE Start
  BY <1>1 DEF TypeOK, Start, Positions
<1>2. ASSUME NEW c \in Commands, Submit(c) PROVE TypeOK'
  <2>1. PICK s \in 0 .. auth.session : command' = [command EXCEPT ![c] =
            CASE closed \/ manager = "done" ->
                   [command[c] EXCEPT !.state = "done", !.session = s, !.answer = "closed"]
              [] s # auth.session ->
                   [command[c] EXCEPT !.state = "done", !.session = s, !.answer = "stale"]
              [] ~auth.signedIn ->
                   [command[c] EXCEPT !.state = "done", !.session = s, !.answer = "unauth"]
              [] OTHER -> [command[c] EXCEPT !.state = "queueing", !.session = s]]
    BY <1>2 DEF Submit
  <2>2. s \in Nat /\ command[c] \in Calls
    BY DEF TypeOK
  <2>3. command' \in [Commands -> Calls]
    BY <2>1, <2>2 DEF TypeOK, Calls, Answers
  <2>4. QED BY <1>2, <2>3 DEF TypeOK, Submit, Positions
<1>3. ASSUME NEW c \in Commands, Enqueue(c) PROVE TypeOK'
  <2>1. command' \in [Commands -> Calls]
    <3>1. command' = [command EXCEPT ![c] = [command[c] EXCEPT !.state = "waiting"]]
      BY <1>3 DEF Enqueue
    <3>2. command[c] \in Calls
      BY DEF TypeOK
    <3>3. [command[c] EXCEPT !.state = "waiting"] \in Calls
      BY <3>2 DEF Calls
    <3>4. QED BY <3>1, <3>3 DEF TypeOK
  <2>2. QED BY <1>3, <2>1 DEF TypeOK, Enqueue
<1>4. ASSUME NEW c \in Commands, Expire(c) PROVE TypeOK'
  <2>1. command' \in [Commands -> Calls]
    <3>1. command' = [command EXCEPT ![c] = [command[c] EXCEPT !.expired = TRUE]]
      BY <1>4 DEF Expire
    <3>2. command[c] \in Calls
      BY DEF TypeOK
    <3>3. [command[c] EXCEPT !.expired = TRUE] \in Calls
      BY <3>2 DEF Calls
    <3>4. QED BY <3>1, <3>3 DEF TypeOK
  <2>2. QED BY <1>4, <2>1 DEF TypeOK, Expire
<1>5. ASSUME NEW c \in Commands, GiveUp(c) PROVE TypeOK'
  <2>1. command' = [command EXCEPT ![c] =
                      [command[c] EXCEPT !.state = "done", !.answer = "timeout"]]
    BY <1>5 DEF GiveUp, TypeOK
  <2>2. [command[c] EXCEPT !.state = "done", !.answer = "timeout"] \in Calls
    <3>1. command[c] \in Calls
      BY DEF TypeOK
    <3>2. QED BY <3>1 DEF Calls, Answers
  <2>3. command' \in [Commands -> Calls]
    BY <2>1, <2>2 DEF TypeOK
  <2>4. QED BY <1>5, <2>3 DEF TypeOK, GiveUp
<1>6. QED BY <1>1, <1>2, <1>3, <1>4, <1>5 DEF Caller

LEMMA OutsideKeepsType ==
  ASSUME TypeOK, Top \/ Wait \/ Connect \/ Publish \/ Backoff \/ Die
  PROVE  TypeOK'
<1> USE DEF ManagerSide, histories, queues, Goto
<1>1. CASE Top
  BY <1>1, StopType DEF TypeOK, Top, Positions, Endings
<1>2. CASE Wait
  <2>1. CASE WaitCancelled
    BY <1>2, <2>1, StopType DEF TypeOK, Wait, WaitCancelled
  <2>2. CASE WaitAuth
    BY <1>2, <2>2 DEF TypeOK, Wait, WaitAuth, Positions
  <2>3. CASE WaitCommand
    <3>1. Head(channel) \in Commands /\ Tail(channel) \in Seq(Commands)
      BY <2>3, TailType DEF WaitCommand, TypeOK
    <3>2. channel' \in Seq(Commands) /\ manager' \in Positions
      BY <2>3, <3>1 DEF WaitCommand, Positions
    <3>3. CASE auth.signedIn
      <4>1. pending' = Append(pending, Head(channel)) /\ suspended' = FALSE
        BY <2>3, <3>3 DEF WaitCommand
      <4>2. pending \in Seq(Commands)
        BY DEF TypeOK
      <4>3. pending' \in Seq(Commands)
        BY <3>1, <4>1, <4>2
      <4>4. QED BY <1>2, <2>3, <3>2, <3>3, <4>1, <4>3 DEF TypeOK, Wait, WaitCommand
    <3>4. CASE ~auth.signedIn
      <4>1. command' \in [Commands -> Calls]
        BY <2>3, <3>4, AnsweredType DEF WaitCommand, Answers
      <4>2. QED BY <1>2, <2>3, <3>2, <3>4, <4>1 DEF TypeOK, Wait, WaitCommand
    <3>5. QED BY <3>3, <3>4
  <2>4. QED BY <1>2, <2>1, <2>2, <2>3 DEF Wait
<1>3. CASE Connect
  <2>1. conn \in [session : Nat, revision : Nat, ending : Endings] /\ auth.revision \in Nat
    BY DEF TypeOK
  <2>2. ASSUME NEW r \in conn.revision .. auth.revision
        PROVE  [conn EXCEPT !.revision = r] \in [session : Nat, revision : Nat, ending : Endings]
    BY <2>1
  <2>3. conn' \in [session : Nat, revision : Nat, ending : Endings]
    BY <1>3, <2>1, <2>2 DEF Connect
  <2>4. QED BY <1>3, <2>3, StopType DEF TypeOK, Connect, Positions
<1>4. CASE Publish
  <2>1. CASE conn.session # auth.session
    BY <1>4, <2>1 DEF TypeOK, Publish, Positions
  <2>2. CASE conn.session = auth.session
    <3>1. flags' = [connected |-> TRUE, session |-> conn.session, authenticated |-> FALSE]
          /\ generation' = generation + 1 /\ legacyReady' = FALSE /\ manager' = "loop"
      BY <1>4, <2>2 DEF Publish
    <3>2. flags' \in [connected : BOOLEAN, session : Nat, authenticated : BOOLEAN]
          /\ generation' \in Nat
      BY <3>1 DEF TypeOK
    <3>3. QED BY <1>4, <3>1, <3>2 DEF TypeOK, Publish, Positions
  <2>3. QED BY <2>1, <2>2
<1>5. CASE Backoff
  BY <1>5, StopType DEF TypeOK, Backoff, Positions
<1>6. CASE Die
  BY <1>6, StopType DEF TypeOK, Die
<1>7. QED BY <1>1, <1>2, <1>3, <1>4, <1>5, <1>6

LEMMA EndType ==
  ASSUME TypeOK, NEW how \in Endings, End(how)
  PROVE  /\ manager' \in Positions
         /\ conn' \in [session : Nat, revision : Nat, ending : Endings]
BY DEF TypeOK, End, Goto, Positions

LEMMA ConnectionKeepsType ==
  ASSUME TypeOK, Holding, Loop \/ Flush \/ Written \/ WriteFailed \/ Select
  PROVE  TypeOK'
<1> USE DEF ConnectionSide, queues
<1>1. CASE Loop
  <2>1. CASE auth.session # conn.session /\ End("AuthChanged")
             /\ UNCHANGED <<pending, command, writing>>
    BY <1>1, <2>1, EndType DEF TypeOK, Loop, Endings
  <2>2. CASE Goto("select") /\ UNCHANGED <<conn, pending, command, writing>>
    BY <1>1, <2>2 DEF TypeOK, Loop, Goto, Positions
  <2>3. CASE pending # <<>> /\ pending' = Tail(pending) /\ UNCHANGED conn
    <3>1. Head(pending) \in Commands /\ pending' \in Seq(Commands)
      BY <2>3, TailType DEF TypeOK
    <3>2. \/ UNCHANGED <<manager, command, writing>>
          \/ \E answer \in Answers : Answer({Head(pending)}, answer)
                                      /\ UNCHANGED <<manager, writing>>
          \/ /\ Goto("writing") /\ writing' = [command |-> Head(pending), left |-> FALSE]
             /\ UNCHANGED command
      BY <1>1, <2>3 DEF Loop, Answers, TypeOK, End, Goto
    <3>3. manager' \in Positions
      BY <3>2 DEF TypeOK, Goto, Positions
    <3>4. writing' \in [command : Commands \cup {NoCommand}, left : BOOLEAN]
      <4>1. writing' = writing \/ writing' = [command |-> Head(pending), left |-> FALSE]
        BY <3>2
      <4>2. [command |-> Head(pending), left |-> FALSE]
              \in [command : Commands \cup {NoCommand}, left : BOOLEAN]
        BY <3>1
      <4>3. QED BY <4>1, <4>2 DEF TypeOK
    <3>5. command' \in [Commands -> Calls]
      BY <3>2, AnsweredType DEF TypeOK
    <3>6. QED BY <1>1, <2>3, <3>1, <3>3, <3>4, <3>5 DEF TypeOK, Loop
  <2>4. QED BY <1>1, <2>1, <2>2, <2>3 DEF Loop
<1>2. CASE Flush
  <2>1. [command |-> writing.command, session |-> conn.session,
                generation |-> generation] \in Frames
    BY <1>2 DEF Flush, TypeOK, Frames, Holding
  <2>2. wire' \in Seq(Frames)
    BY <1>2, <2>1 DEF Flush, TypeOK
  <2>3. writing' \in [command : Commands \cup {NoCommand}, left : BOOLEAN]
    BY <1>2 DEF Flush, TypeOK
  <2>4. QED BY <1>2, <2>2, <2>3 DEF TypeOK, Flush
<1>3. CASE Written
  <2> DEFINE c == writing.command
  <2>1. c \in Commands /\ command[c] \in Calls /\ generation \in Nat
    BY <1>3 DEF Written, Holding, TypeOK
  <2>2. [command[c] EXCEPT !.state = "done", !.answer = "ok", !.generation = generation] \in Calls
    BY <2>1 DEF Calls, Answers
  <2>3. command' = command \/ command' = [command EXCEPT ![c] =
          [command[c] EXCEPT !.state = "done", !.answer = "ok", !.generation = generation]]
    BY <1>3, <2>1 DEF Written, TypeOK
  <2>4. command' \in [Commands -> Calls]
    BY <2>1, <2>2, <2>3 DEF TypeOK
  <2>5. QED BY <1>3, <2>4 DEF TypeOK, Written, Goto, Positions
<1>4. CASE WriteFailed
  <2>1. command' \in [Commands -> Calls]
    BY <1>4, AnsweredType DEF WriteFailed, Answers
  <2>2. QED BY <1>4, <2>1, EndType DEF TypeOK, WriteFailed, Endings
<1>5. CASE Select
  <2>1. CASE SelectCommand
    BY <1>5, <2>1, TailType DEF TypeOK, Select, SelectCommand, Goto, Positions
  <2>2. CASE SelectFallback
    BY <1>5, <2>2 DEF TypeOK, Select, SelectFallback, Goto, Positions
  <2>3. CASE SelectAuthenticated
    BY <1>5, <2>3 DEF TypeOK, Select, SelectAuthenticated, Goto, Positions
  <2>4. CASE SelectEnd
    BY <1>5, <2>4, EndType DEF TypeOK, Select, SelectEnd, Endings
  <2>5. QED BY <1>5, <2>1, <2>2, <2>3, <2>4 DEF Select
<1>6. QED BY <1>1, <1>2, <1>3, <1>4, <1>5

--------------------------------------------------------------------------------
(***************************************************************************)
(* Connections and sessions.  The session of the connection in hand is the *)
(* account's or an older one; while it is the account's, the account is    *)
(* signed in, so nothing that closes the client finds it so.  The flags    *)
(* say "connected" of the connection in hand only, and of none once the    *)
(* task was aborted.                                                       *)
(***************************************************************************)
InHand == {"loop", "select", "writing", "ending"}

Connections ==
  /\ conn.session <= auth.session
  /\ closed => ~auth.signedIn /\ auth.session # 0
  /\ aborted => closed /\ ~flags.connected
  /\ flags.connected => manager \in InHand /\ flags.session = conn.session
  /\ manager \in InHand \cup {"connecting", "opened"} /\ conn.session = auth.session
       => auth.signedIn

LEMMA AccountKeepsConnections ==
  ASSUME TypeOK, Connections, Account
  PROVE  Connections'
<1>1. auth.session \in Nat /\ conn.session \in Nat
  BY DEF TypeOK
<1>2. ASSUME NEW n \in BOOLEAN, NEW i \in BOOLEAN, Authenticate(n, i), n \/ (auth.signedIn /\ i)
      PROVE  Connections'
  BY <1>1, <1>2 DEF Authenticate, AccountSide, managerVars, Connections
<1>3. CASE SwitchAccount \/ SignOut \/ Renew
  BY <1>2, <1>3 DEF SwitchAccount, SignOut, Renew
<1>4. CASE CloseAccount
  BY <1>1, <1>4 DEF CloseAccount, AccountSide, managerVars, Connections
<1>5. CASE CloseSocket
  BY <1>5 DEF CloseSocket, AccountSide, managerVars, Connections
<1>6. CASE Abort
  BY <1>6 DEF Abort, Down, Connections, TypeOK
<1>7. QED BY <1>3, <1>4, <1>5, <1>6 DEF Account

LEMMA CallersKeepConnections ==
  ASSUME Connections, Start \/ \E c \in Commands : Caller(c)
  PROVE  Connections'
<1>1. UNCHANGED <<authSide, conn, flags>>
  BY DEF Start, Caller, Submit, Enqueue, Expire, GiveUp, CallerSide
<1>2. manager' = manager \/ (manager = "unstarted" /\ manager' = "top")
  BY DEF Start, Caller, Submit, Enqueue, Expire, GiveUp
<1>3. QED BY <1>1, <1>2 DEF Connections, authSide, InHand

LEMMA OutsideKeepsConnections ==
  ASSUME TypeOK, Connections, Top \/ Wait \/ Connect \/ Publish \/ Backoff \/ Die \/ ClearAuth
  PROVE  Connections'
<1>1. auth.session \in Nat /\ conn.session \in Nat
  BY DEF TypeOK
<1> USE DEF ManagerSide, Goto, Stop, Connections, InHand
<1>2. CASE Top
  BY <1>1, <1>2 DEF Top
<1>3. CASE Wait
  BY <1>1, <1>3 DEF Wait, WaitCancelled, WaitAuth, WaitCommand
<1>4. CASE Connect
  <2>1. conn'.session = conn.session
    BY <1>4 DEF Connect, TypeOK
  <2>2. QED BY <1>1, <1>4, <2>1 DEF Connect
<1>5. CASE Publish
  BY <1>1, <1>5 DEF Publish
<1>6. CASE Backoff
  BY <1>1, <1>6 DEF Backoff
<1>7. CASE Die
  BY <1>1, <1>7 DEF Die
<1>8. CASE ClearAuth
  BY <1>1, <1>8 DEF ClearAuth
<1>9. QED BY <1>2, <1>3, <1>4, <1>5, <1>6, <1>7, <1>8

LEMMA InsideKeepsConnections ==
  ASSUME TypeOK, Connections, Loop \/ Flush \/ Written \/ WriteFailed \/ Select \/ Ending
  PROVE  Connections'
<1>1. CASE Loop \/ Flush \/ Written \/ WriteFailed \/ Select
  <2>1. UNCHANGED <<auth, closed, aborted>>
    BY <1>1 DEF Loop, Flush, Written, WriteFailed, Select, ConnectionSide
  <2>2. manager \in InHand /\ manager' \in InHand /\ conn'.session = conn.session
    BY <1>1 DEF Loop, Flush, Written, WriteFailed, Select, SelectCommand, SelectFallback,
                SelectAuthenticated, SelectEnd, End, Goto, InHand, TypeOK
  <2>3. flags'.connected = flags.connected /\ flags'.session = flags.session
    BY <1>1 DEF Loop, Flush, Written, WriteFailed, Select, SelectCommand, SelectFallback,
                SelectAuthenticated, SelectEnd, TypeOK
  <2>4. QED BY <2>1, <2>2, <2>3 DEF Connections
<1>2. CASE Ending
  <2>1. flags'.connected = FALSE
    BY <1>2 DEF Ending, Down, TypeOK
  <2>2. UNCHANGED <<auth, closed, aborted, conn>>
    BY <1>2 DEF Ending
  <2>3. manager' \in {"done", "top", "clearing", "backoff"}
    BY <1>2 DEF Ending, Stop, Goto
  <2>4. QED BY <2>1, <2>2, <2>3 DEF Connections, InHand
<1>3. QED BY <1>1, <1>2

(* The handlers of the end of a connection, and what they leave in the queues *)
LEMMA EndingKeepsType == ASSUME TypeOK, Ending \/ ClearAuth PROVE TypeOK'
<1>1. CASE ClearAuth
  <2>1. auth' \in [session : Nat, revision : Nat, signedIn : BOOLEAN] /\ unseen' \in BOOLEAN
    <3>1. CASE ~closed /\ auth.session = conn.session /\ auth.revision = conn.revision
      <4>1. auth.session + 1 \in Nat /\ auth.revision + 1 \in Nat
        BY DEF TypeOK
      <4>2. auth' = [session |-> auth.session + 1, revision |-> auth.revision + 1,
                     signedIn |-> FALSE] /\ unseen' = TRUE
        BY <1>1, <3>1 DEF ClearAuth
      <4>3. QED BY <4>1, <4>2
    <3>2. CASE ~(~closed /\ auth.session = conn.session /\ auth.revision = conn.revision)
      BY <1>1, <3>2 DEF ClearAuth, TypeOK
    <3>3. QED BY <3>1, <3>2
  <2>2. QED BY <1>1, <2>1 DEF ClearAuth, TypeOK, Goto, Positions, queues, histories
<1>2. CASE Ending
  <2>1. flags' \in [connected : BOOLEAN, session : Nat, authenticated : BOOLEAN]
    BY <1>2 DEF Ending, Down, TypeOK
  <2>2. \A queue \in Seq(Commands) : \A s : /\ OfSession(queue, s) \in Seq(Commands)
                                           /\ NotOfSession(queue, s) \in Seq(Commands)
    BY KeptFacts DEF OfSession, NotOfSession
  <2>3. channel \in Seq(Commands) /\ pending \in Seq(Commands)
        /\ pending \o channel \in Seq(Commands)
    BY DEF TypeOK
  <2>4. CASE Stop /\ UNCHANGED suspended
    BY <1>2, <2>1, <2>4, StopType DEF TypeOK, Ending, histories
  <2>5. CASE /\ pending' = OfSession(pending, auth.session)
             /\ Answer(ToSet(NotOfSession(pending, auth.session)), "closed")
             /\ Goto("top")
             /\ UNCHANGED <<suspended, channel, writing>>
    <3>1. command' \in [Commands -> Calls] /\ manager' \in Positions
      BY <2>5, AnsweredType DEF Answers, Goto, Positions
    <3>2. QED BY <1>2, <2>1, <2>2, <2>3, <2>5, <3>1 DEF TypeOK, Ending, histories
  <2>6. CASE /\ pending' = Retained(pending \o channel)
             /\ channel' = <<>>
             /\ Answer(ToSet(pending \o channel) \ ToSet(Retained(pending \o channel)), "closed")
             /\ suspended' = TRUE
             /\ Goto(IF conn.ending = "ClearAuth" THEN "clearing" ELSE "top")
             /\ UNCHANGED writing
    <3>1. command' \in [Commands -> Calls] /\ manager' \in Positions
      BY <2>6, AnsweredType DEF Answers, Goto, Positions
    <3>2. pending' = NotOfSession(pending \o channel, conn.session)
      BY <2>6 DEF Retained
    <3>3. pending' \in Seq(Commands)
      BY <2>2, <2>3, <3>2, Zenon
    <3>4. channel' \in Seq(Commands)
      BY <2>6
    <3>5. QED BY <1>2, <2>1, <2>6, <3>1, <3>3, <3>4 DEF TypeOK, Ending, histories
  <2>7. CASE /\ Goto(IF auth.signedIn THEN "backoff" ELSE "top")
             /\ UNCHANGED <<suspended, queues, command, writing>>
    BY <1>2, <2>1, <2>7 DEF TypeOK, Ending, Goto, Positions, queues, histories
  <2>8. QED BY <1>2, <2>4, <2>5, <2>6, <2>7 DEF Ending
<1>3. QED BY <1>1, <1>2

--------------------------------------------------------------------------------
(***************************************************************************)
(* What a step does to the calls: one caller makes a move, or the manager  *)
(* confirms the command it wrote, or it answers a set of them.             *)
(***************************************************************************)
Unanswered(c) == command[c].state \in {"queueing", "waiting"}

LEMMA AnswerFacts ==
  ASSUME TypeOK, NEW set, NEW answer \in Answers, Answer(set, answer), NEW c \in Commands
  PROVE  /\ ~(c \in set /\ Unanswered(c)) => command'[c] = command[c]
         /\ c \in set /\ Unanswered(c) =>
              /\ command'[c].state = "done" /\ command'[c].answer = answer
              /\ command'[c].session = command[c].session
              /\ command'[c].generation = command[c].generation
<1>1. command' = [d \in Commands |->
                    IF d \in set /\ command[d].state \in {"queueing", "waiting"}
                      THEN [command[d] EXCEPT !.state = "done", !.answer = answer]
                      ELSE command[d]]
  BY DEF Answer, Answered
<1>2. command[c] \in Calls
  BY DEF TypeOK
<1>3. QED BY <1>1, <1>2 DEF Unanswered, Calls

(* To whom the manager answers: to all when the task ends, to commands it     *)
(* takes out of its queues, or to the one whose write failed                  *)
ManagerAnswers(set, answer) ==
  /\ Answer(set, answer)
  /\ \/ answer = "closed" /\ manager' = "done" /\ (manager = "writing" => aborted)
     \/ /\ answer \in {"unauth", "expired", "stale", "closed"}
        /\ manager \in {"wait", "loop", "ending"} /\ manager' # "writing"
        /\ set \subseteq ToSet(channel) \cup ToSet(pending)
     \/ /\ answer = "transport" /\ manager = "writing" /\ manager' = "ending"
        /\ set = {writing.command}

LEMMA HeadIsIn ==
  ASSUME NEW queue \in Seq(Commands), queue # <<>>
  PROVE  Head(queue) \in ToSet(queue)
<1>1. 1 \in DOMAIN queue /\ Head(queue) = queue[1]
  OBVIOUS
<1>2. QED BY <1>1 DEF ToSet

LEMMA JoinedSet ==
  ASSUME NEW p \in Seq(Commands), NEW q \in Seq(Commands)
  PROVE  p \o q \in Seq(Commands) /\ ToSet(p \o q) \subseteq ToSet(p) \cup ToSet(q)
<1>1. ASSUME NEW i \in DOMAIN (p \o q)
      PROVE  (p \o q)[i] \in ToSet(p) \cup ToSet(q)
  <2>1. CASE i <= Len(p)
    <3>1. i \in DOMAIN p /\ (p \o q)[i] = p[i]
      BY <2>1
    <3>2. QED BY <3>1 DEF ToSet
  <2>2. CASE ~(i <= Len(p))
    <3>1. i - Len(p) \in DOMAIN q /\ (p \o q)[i] = q[i - Len(p)]
      BY <2>2
    <3>2. QED BY <3>1 DEF ToSet
  <2>3. QED BY <2>1, <2>2
<1>2. QED BY <1>1 DEF ToSet

CallMoves ==
  \/ UNCHANGED command
  \/ \E c \in Commands : Caller(c)
  \/ Written
  \/ \E set \in SUBSET Commands, answer \in Answers : ManagerAnswers(set, answer)

LEMMA StopAnswers ==
  ASSUME Stop, manager = "writing" => aborted
  PROVE  \E set \in SUBSET Commands, answer \in Answers : ManagerAnswers(set, answer)
<1>1. ManagerAnswers({c \in Commands : command[c].state \in {"queueing", "waiting"}}, "closed")
  BY DEF Stop, ManagerAnswers
<1>2. QED BY <1>1 DEF Answers

LEMMA NextCalls == ASSUME TypeOK, Holding, Next PROVE CallMoves
<1> USE DEF CallMoves
<1>1. CASE Account
  BY <1>1 DEF Account, SwitchAccount, SignOut, Renew, Authenticate, CloseAccount, CloseSocket,
              Abort, AccountSide
<1>2. CASE Start
  BY <1>2 DEF Start
<1>3. CASE Top \/ Connect \/ Publish \/ Backoff \/ Die
  BY <1>3, StopAnswers DEF Top, Connect, Publish, Backoff, Die
<1>4. CASE Wait
  <2>1. CASE WaitCommand /\ ~auth.signedIn
    <3>1. Head(channel) \in Commands /\ Head(channel) \in ToSet(channel)
      BY <2>1, HeadIsIn, TailType DEF WaitCommand, TypeOK
    <3>2. ManagerAnswers({Head(channel)}, "unauth")
      BY <1>4, <2>1, <3>1 DEF Wait, WaitCommand, ManagerAnswers, Goto
    <3>3. QED BY <3>1, <3>2 DEF Answers
  <2>2. QED BY <1>4, <2>1, StopAnswers DEF Wait, WaitCancelled, WaitAuth, WaitCommand
<1>5. CASE Loop
  <2>1. ASSUME NEW answer \in {"expired", "stale"}, pending # <<>>, UNCHANGED manager,
               Answer({Head(pending)}, answer)
        PROVE  CallMoves
    <3>1. Head(pending) \in Commands /\ Head(pending) \in ToSet(pending)
      BY <2>1, HeadIsIn, TailType DEF TypeOK
    <3>2. ManagerAnswers({Head(pending)}, answer)
      BY <1>5, <2>1, <3>1 DEF Loop, ManagerAnswers
    <3>3. QED BY <3>1, <3>2 DEF Answers
  <2>2. QED BY <1>5, <2>1 DEF Loop
<1>6. CASE WriteFailed
  <2>1. ManagerAnswers({writing.command}, "transport") /\ writing.command \in Commands
    BY <1>6 DEF WriteFailed, ManagerAnswers, Holding, End, Goto
  <2>2. QED BY <2>1 DEF Answers
<1>7. CASE Ending
  <2>1. CASE Stop
    BY <1>7, <2>1, StopAnswers DEF Ending
  <2>2. ASSUME NEW set \in SUBSET (ToSet(pending) \cup ToSet(channel)), Answer(set, "closed"),
               manager' # "writing"
        PROVE  CallMoves
    <3>1. ToSet(pending) \cup ToSet(channel) \subseteq Commands
      BY DEF ToSet, TypeOK
    <3>2. ManagerAnswers(set, "closed")
      BY <1>7, <2>2 DEF ManagerAnswers, Ending
    <3>3. QED BY <3>1, <3>2 DEF Answers
  <2>3. CASE /\ Answer(ToSet(NotOfSession(pending, auth.session)), "closed")
             /\ Goto("top")
    <3>1. ToSet(NotOfSession(pending, auth.session)) \subseteq ToSet(pending)
      BY KeptFacts DEF NotOfSession, TypeOK
    <3>2. QED BY <2>2, <2>3, <3>1 DEF Goto
  <2>4. CASE /\ Answer(ToSet(pending \o channel) \ ToSet(Retained(pending \o channel)), "closed")
             /\ Goto(IF conn.ending = "ClearAuth" THEN "clearing" ELSE "top")
    <3>1. ToSet(pending \o channel) \subseteq ToSet(pending) \cup ToSet(channel)
      BY JoinedSet DEF TypeOK
    <3>2. QED BY <2>2, <2>4, <3>1 DEF Goto
  <2>5. QED BY <1>7, <2>1, <2>3, <2>4 DEF Ending
<1>8. CASE Flush \/ Select \/ ClearAuth
  BY <1>8 DEF Flush, Select, ClearAuth
<1>9. QED BY <1>1, <1>2, <1>3, <1>4, <1>5, <1>6, <1>7, <1>8 DEF Next, Manager

(* A call keeps the session it was made for, is settled once, and is made once *)
CallsMade ==
  \A c \in Commands :
    /\ command[c].state = "new" => command[c].session = 0 /\ command[c].answer = "none"
    /\ Unanswered(c) => command[c].answer = "none"
    /\ command[c].state = "done" => command[c].answer # "none"

SameCall(c) ==
  /\ command'[c].session = command[c].session
  /\ command'[c].generation = command[c].generation

LEMMA SubmitFacts ==
  ASSUME TypeOK, NEW c \in Commands, Submit(c)
  PROVE  /\ \A d \in Commands \ {c} : command'[d] = command[d]
         /\ command[c].state = "new"
         /\ command'[c].answer \in {command[c].answer, "closed", "stale", "unauth"}
         /\ \/ command'[c].state = "queueing" /\ command'[c].answer = command[c].answer
            \/ command'[c].state = "done" /\ command'[c].answer \in {"closed", "stale", "unauth"}
<1>1. PICK s \in 0 .. auth.session : command' = [command EXCEPT ![c] =
          CASE closed \/ manager = "done" ->
                 [command[c] EXCEPT !.state = "done", !.session = s, !.answer = "closed"]
            [] s # auth.session ->
                 [command[c] EXCEPT !.state = "done", !.session = s, !.answer = "stale"]
            [] ~auth.signedIn ->
                 [command[c] EXCEPT !.state = "done", !.session = s, !.answer = "unauth"]
            [] OTHER -> [command[c] EXCEPT !.state = "queueing", !.session = s]]
  BY DEF Submit
<1>2. command \in [Commands -> Calls] /\ command[c] \in Calls
  BY DEF TypeOK
<1>3. command[c].state = "new"
  BY DEF Submit
<1>4. QED BY <1>1, <1>2, <1>3 DEF Calls

LEMMA CallerFacts ==
  ASSUME TypeOK, NEW c \in Commands, Enqueue(c) \/ Expire(c) \/ GiveUp(c)
  PROVE  /\ \A d \in Commands \ {c} : command'[d] = command[d]
         /\ Unanswered(c) /\ SameCall(c)
         /\ \/ Enqueue(c) /\ command'[c].state = "waiting" /\ command'[c].answer = command[c].answer
            \/ ~Enqueue(c) /\ command'[c].state = command[c].state
                           /\ command'[c].answer = command[c].answer
            \/ ~Enqueue(c) /\ command'[c].state = "done" /\ command'[c].answer = "timeout"
<1>1. command \in [Commands -> Calls] /\ command[c] \in Calls
  BY DEF TypeOK
<1>2. QED BY <1>1 DEF Enqueue, Expire, GiveUp, Unanswered, SameCall, Calls

LEMMA WrittenFacts ==
  ASSUME TypeOK, Holding, Written
  PROVE  /\ \A d \in Commands \ {writing.command} : command'[d] = command[d]
         /\ writing.command \in Commands
         /\ \/ command' = command /\ command[writing.command].state # "waiting"
            \/ /\ command[writing.command].state = "waiting"
               /\ command'[writing.command].state = "done"
               /\ command'[writing.command].answer = "ok"
               /\ command'[writing.command].session = command[writing.command].session
               /\ command'[writing.command].generation = generation
<1> DEFINE c == writing.command
<1>1. c \in Commands /\ command \in [Commands -> Calls] /\ command[c] \in Calls
  BY DEF TypeOK, Written, Holding
<1>2. QED BY <1>1 DEF Written, Calls

LEMMA CallsStayMade ==
  ASSUME TypeOK, Holding, CallsMade, CallMoves
  PROVE  /\ CallsMade'
         /\ \A c \in Commands : command[c].state # "new" =>
              /\ command'[c].session = command[c].session
              /\ command[c].state \in {"waiting", "done"} => command'[c].state \in {"waiting", "done"}
              /\ command[c].state = "done" => command'[c] = command[c]
<1> DEFINE Fine(c) ==
      /\ command'[c].state = "new" => command'[c].session = 0 /\ command'[c].answer = "none"
      /\ command'[c].state \in {"queueing", "waiting"} => command'[c].answer = "none"
      /\ command'[c].state = "done" => command'[c].answer # "none"
      /\ command[c].state # "new" =>
           /\ command'[c].session = command[c].session
           /\ command[c].state \in {"waiting", "done"} => command'[c].state \in {"waiting", "done"}
           /\ command[c].state = "done" => command'[c] = command[c]
<1> SUFFICES ASSUME NEW c \in Commands PROVE Fine(c)
  BY DEF CallsMade, Unanswered
<1>1. ASSUME command'[c] = command[c] PROVE Fine(c)
  BY <1>1 DEF CallsMade, Unanswered
<1>2. ASSUME Unanswered(c), command'[c].session = command[c].session,
             \/ command'[c].state = "done" /\ command'[c].answer # "none"
             \/ /\ command'[c].state \in {command[c].state, "waiting"}
                /\ command'[c].answer = command[c].answer
      PROVE  Fine(c)
  BY <1>2 DEF CallsMade, Unanswered
<1>3. ASSUME NEW d \in Commands, Submit(d) PROVE Fine(c)
  BY <1>1, <1>3, SubmitFacts DEF CallsMade
<1>4. ASSUME NEW d \in Commands, Enqueue(d) \/ Expire(d) \/ GiveUp(d) PROVE Fine(c)
  BY <1>1, <1>2, <1>4, CallerFacts DEF SameCall
<1>5. CASE Written
  BY <1>1, <1>2, <1>5, WrittenFacts DEF Unanswered
<1>6. ASSUME NEW set \in SUBSET Commands, NEW answer \in Answers, ManagerAnswers(set, answer)
      PROVE  Fine(c)
  <2>1. answer # "none" /\ Answer(set, answer)
    BY <1>6 DEF ManagerAnswers
  <2>2. command'[c] = command[c] \/ (Unanswered(c) /\ command'[c].state = "done"
          /\ command'[c].answer = answer /\ command'[c].session = command[c].session)
    <3>1. CASE c \in set /\ Unanswered(c)
      BY <2>1, <3>1, AnswerFacts
    <3>2. CASE ~(c \in set /\ Unanswered(c))
      BY <1>6, <2>1, <3>2, AnswerFacts
    <3>3. QED BY <3>1, <3>2
  <2>3. QED BY <1>1, <1>2, <2>1, <2>2
<1>7. QED BY <1>1, <1>3, <1>4, <1>5, <1>6 DEF CallMoves, Caller

--------------------------------------------------------------------------------
(***************************************************************************)
(* The line.  Every command that is on the wire, in the hands of the       *)
(* manager, in its queue or in the channel was taken by the channel once,  *)
(* and stands in this line in the order in which it was taken.  So no      *)
(* command is in two of these places, or twice in one.                     *)
(***************************************************************************)
Before(taken, c, d) == \E i, j \in DOMAIN taken : i < j /\ taken[i] = c /\ taken[j] = d
Ahead(taken, A, B) == \A a \in A, b \in B : Before(taken, a, b)
InTurn(taken, queue) == \A i, j \in DOMAIN queue : i < j => Before(taken, queue[i], queue[j])

Taken == ToSet(accepted)
Sent == {wire[i].command : i \in DOMAIN wire}
Held == IF manager = "writing" /\ ~writing.left THEN {writing.command} ELSE {}

Line ==
  /\ \A i, j \in DOMAIN accepted : accepted[i] = accepted[j] => i = j
  /\ \A i, j \in DOMAIN wire : i < j => Before(accepted, wire[i].command, wire[j].command)
  /\ InTurn(accepted, pending) /\ InTurn(accepted, channel)
  /\ Sent \cup Held \cup ToSet(pending) \cup ToSet(channel) \subseteq Taken
  /\ Ahead(accepted, Sent, Held)
  /\ Ahead(accepted, Sent \cup Held, ToSet(pending))
  /\ Ahead(accepted, Sent \cup Held \cup ToSet(pending), ToSet(channel))

(* Nothing that was taken was not called, or is still to be taken *)
TakenCalls == \A c \in Taken : c \in Commands /\ command[c].state \in {"waiting", "done"}

LEMMA NeverBeforeItself ==
  ASSUME TypeOK, Line, NEW c, NEW d, Before(accepted, c, d)
  PROVE  c # d /\ ~Before(accepted, d, c)
<1>1. DOMAIN accepted \subseteq Nat
  BY DEF TypeOK
<1>2. PICK i \in DOMAIN accepted, j \in DOMAIN accepted :
        i < j /\ accepted[i] = c /\ accepted[j] = d
  BY DEF Before
<1>3. \A k, l \in DOMAIN accepted : accepted[k] = accepted[l] => k = l
  BY DEF Line
<1>4. c # d
  BY <1>1, <1>2, <1>3
<1>5. ASSUME Before(accepted, d, c) PROVE FALSE
  <2>1. PICK k \in DOMAIN accepted, l \in DOMAIN accepted :
          k < l /\ accepted[k] = d /\ accepted[l] = c
    BY <1>5 DEF Before
  <2>2. k = j /\ l = i
    BY <1>2, <1>3, <2>1
  <2>3. QED BY <1>1, <1>2, <2>1, <2>2
<1>6. QED BY <1>4, <1>5

LEMMA SubQueue ==
  ASSUME NEW taken, NEW q, NEW queue, InOrderOf(q, queue), InTurn(taken, queue)
  PROVE  InTurn(taken, q)
BY DEF InOrderOf, InTurn

LEMMA TailFacts ==
  ASSUME NEW taken, NEW queue \in Seq(Commands), queue # <<>>
  PROVE  /\ InOrderOf(Tail(queue), queue)
         /\ ToSet(Tail(queue)) \subseteq ToSet(queue)
         /\ InTurn(taken, queue) => Ahead(taken, {Head(queue)}, ToSet(Tail(queue)))
<1>1. /\ Head(queue) = queue[1] /\ 1 \in DOMAIN queue /\ Len(queue) \in Nat
      /\ DOMAIN queue = 1 .. Len(queue) /\ DOMAIN Tail(queue) = 1 .. Len(queue) - 1
      /\ \A i \in 1 .. Len(queue) - 1 : Tail(queue)[i] = queue[i + 1]
  OBVIOUS
<1>2. ASSUME NEW i \in DOMAIN Tail(queue)
      PROVE  /\ i \in Nat /\ 1 < i + 1 /\ i + 1 \in DOMAIN queue
             /\ Tail(queue)[i] = queue[i + 1]
  BY <1>1
<1>3. ASSUME NEW i \in DOMAIN Tail(queue), NEW j \in DOMAIN Tail(queue), i < j
      PROVE  \E a, b \in DOMAIN queue :
               a < b /\ queue[a] = Tail(queue)[i] /\ queue[b] = Tail(queue)[j]
  <2>1. i + 1 < j + 1
    BY <1>2, <1>3
  <2>2. QED BY <1>2, <2>1
<1>4. InOrderOf(Tail(queue), queue)
  BY <1>3 DEF InOrderOf
<1>5. ToSet(Tail(queue)) \subseteq ToSet(queue)
  BY <1>2 DEF ToSet
<1>6. ASSUME NEW c \in ToSet(Tail(queue)), InTurn(taken, queue)
      PROVE  Before(taken, Head(queue), c)
  <2>1. PICK i \in DOMAIN Tail(queue) : c = Tail(queue)[i]
    BY DEF ToSet
  <2>2. QED BY <1>1, <1>2, <1>6, <2>1 DEF InTurn
<1>7. QED BY <1>4, <1>5, <1>6 DEF Ahead

LEMMA AppendFacts ==
  ASSUME NEW taken, NEW queue \in Seq(Commands), NEW c \in Commands
  PROVE  /\ ToSet(Append(queue, c)) = ToSet(queue) \cup {c}
         /\ InTurn(taken, queue) /\ Ahead(taken, ToSet(queue), {c}) => InTurn(taken, Append(queue, c))
<1> DEFINE q == Append(queue, c)
<1>1. PICK m : m = Len(queue) + 1
  OBVIOUS
<1>2. /\ DOMAIN q = 1 .. m /\ DOMAIN queue = 1 .. m - 1 /\ m \in Nat \ {0} /\ q[m] = c
      /\ \A i \in 1 .. m - 1 : q[i] = queue[i]
  BY <1>1
<1> HIDE DEF q
<1>3. /\ \A i \in DOMAIN q : (i = m /\ q[i] = c) \/ (i \in DOMAIN queue /\ q[i] = queue[i])
      /\ m \in DOMAIN q /\ \A i \in DOMAIN queue : i \in DOMAIN q /\ q[i] = queue[i]
  BY <1>2
<1>4. ToSet(q) = ToSet(queue) \cup {c}
  <2>1. ASSUME NEW d PROVE d \in ToSet(q) <=> d \in ToSet(queue) \/ d = c
    BY <1>2, <1>3 DEF ToSet
  <2>2. QED BY <2>1
<1>5. ASSUME InTurn(taken, queue), Ahead(taken, ToSet(queue), {c}),
             NEW i \in DOMAIN q, NEW j \in DOMAIN q, i < j
      PROVE  Before(taken, q[i], q[j])
  <2>1. i \in DOMAIN queue /\ q[i] = queue[i] /\ queue[i] \in ToSet(queue)
    BY <1>2, <1>5 DEF ToSet
  <2>2. CASE j = m
    BY <1>2, <1>5, <2>1, <2>2 DEF Ahead
  <2>3. CASE j # m
    BY <1>3, <1>5, <2>1, <2>3 DEF InTurn
  <2>4. QED BY <2>2, <2>3
<1>6. InTurn(taken, queue) /\ Ahead(taken, ToSet(queue), {c}) => InTurn(taken, q)
  BY <1>5 DEF InTurn
<1>7. QED BY <1>4, <1>6 DEF q

LEMMA JoinedTurn ==
  ASSUME NEW taken, NEW p \in Seq(Commands), NEW q \in Seq(Commands),
         InTurn(taken, p), InTurn(taken, q), Ahead(taken, ToSet(p), ToSet(q))
  PROVE  InTurn(taken, p \o q)
<1>1. PICK m, n : m = Len(p) /\ n = Len(q)
  OBVIOUS
<1>2. /\ m \in Nat /\ n \in Nat /\ DOMAIN p = 1 .. m /\ DOMAIN q = 1 .. n
      /\ DOMAIN (p \o q) = 1 .. m + n
      /\ \A i \in 1 .. m + n : i <= m => (p \o q)[i] = p[i]
      /\ \A i \in 1 .. m + n : ~(i <= m) => (p \o q)[i] = q[i - m]
  BY <1>1
<1>3. ASSUME NEW i \in DOMAIN (p \o q), NEW j \in DOMAIN (p \o q), i < j
      PROVE  Before(taken, (p \o q)[i], (p \o q)[j])
  <2>1. i \in Nat /\ j \in Nat /\ i \in 1 .. m + n /\ j \in 1 .. m + n
    BY <1>2
  <2>2. CASE j <= m
    <3>1. i \in DOMAIN p /\ j \in DOMAIN p /\ (p \o q)[i] = p[i] /\ (p \o q)[j] = p[j]
      BY <1>2, <1>3, <2>1, <2>2
    <3>2. QED BY <1>3, <3>1 DEF InTurn
  <2>3. CASE ~(j <= m) /\ i <= m
    <3>1. i \in DOMAIN p /\ j - m \in DOMAIN q /\ (p \o q)[i] = p[i] /\ (p \o q)[j] = q[j - m]
      BY <1>2, <2>1, <2>3
    <3>2. p[i] \in ToSet(p) /\ q[j - m] \in ToSet(q)
      BY <3>1 DEF ToSet
    <3>3. QED BY <3>1, <3>2 DEF Ahead
  <2>4. CASE ~(i <= m)
    <3>1. i - m \in DOMAIN q /\ j - m \in DOMAIN q /\ i - m < j - m
          /\ (p \o q)[i] = q[i - m] /\ (p \o q)[j] = q[j - m]
      BY <1>2, <1>3, <2>1, <2>4
    <3>2. QED BY <3>1 DEF InTurn
  <2>5. QED BY <1>3, <2>1, <2>2, <2>3, <2>4
<1>4. QED BY <1>3 DEF InTurn

(* What leaves the line, or moves up in its place, leaves the rest in order *)
LEMMA LineShrinks ==
  ASSUME Line, UNCHANGED <<accepted, wire>>, Held' \subseteq Held,
         InTurn(accepted', pending'), ToSet(pending') \subseteq ToSet(pending),
         InTurn(accepted', channel'), ToSet(channel') \subseteq ToSet(channel)
  PROVE  Line'
<1>1. \A c, d : Before(accepted', c, d) <=> Before(accepted, c, d)
  BY DEF Before
<1>2. Sent' = Sent /\ Taken' = Taken
  BY DEF Sent, Taken
<1>3. Ahead(accepted', Sent', Held')
  BY <1>1, <1>2 DEF Line, Ahead
<1>4. Ahead(accepted', Sent' \cup Held', ToSet(pending'))
  BY <1>1, <1>2 DEF Line, Ahead
<1>5. Ahead(accepted', Sent' \cup Held' \cup ToSet(pending'), ToSet(channel'))
  BY <1>1, <1>2 DEF Line, Ahead
<1>6. (Sent \cup Held \cup ToSet(pending) \cup ToSet(channel) \subseteq Taken)'
  BY <1>2 DEF Line
<1>7. (\A i, j \in DOMAIN wire : i < j => Before(accepted, wire[i].command, wire[j].command))'
  BY <1>1 DEF Line
<1>8. QED BY <1>3, <1>4, <1>5, <1>6, <1>7 DEF Line

LEMMA LineStays ==
  ASSUME Line, UNCHANGED <<accepted, wire, queues>>, Held' \subseteq Held
  PROVE  Line'
<1>1. UNCHANGED <<pending, channel>>
  BY DEF queues
<1>2. InTurn(accepted', pending') /\ InTurn(accepted', channel')
  BY <1>1 DEF Line, InTurn, Before
<1>3. QED BY <1>1, <1>2, LineShrinks

(* The channel takes a call that it never took before *)
LEMMA LineGrows ==
  ASSUME TypeOK, Line, NEW c \in Commands, c \notin Taken,
         accepted' = Append(accepted, c), channel' = Append(channel, c),
         UNCHANGED <<wire, pending, Held>>
  PROVE  Line' /\ Taken' = Taken \cup {c}
<1>1. PICK m : m = Len(accepted) + 1
  OBVIOUS
<1>2. accepted \in Seq(Commands) /\ channel \in Seq(Commands)
  BY DEF TypeOK
<1>3. /\ DOMAIN accepted' = 1 .. m /\ DOMAIN accepted = 1 .. m - 1 /\ m \in Nat \ {0}
      /\ accepted'[m] = c /\ \A i \in 1 .. m - 1 : accepted'[i] = accepted[i]
  BY <1>1, <1>2
<1>4. /\ \A i \in DOMAIN accepted' : i = m \/ (i \in DOMAIN accepted /\ accepted'[i] = accepted[i])
      /\ \A i \in DOMAIN accepted :
           i \in DOMAIN accepted' /\ accepted'[i] = accepted[i] /\ i < m
      /\ m \in DOMAIN accepted'
  BY <1>3
<1>5. Taken' = Taken \cup {c}
  BY <1>2, AppendFacts DEF Taken
<1>6. \A a, b : Before(accepted, a, b) => Before(accepted', a, b)
  BY <1>4 DEF Before
<1>7. \A a \in Taken : Before(accepted', a, c)
  BY <1>3, <1>4 DEF Before, Taken, ToSet
<1>8. \A i, j \in DOMAIN accepted' : accepted'[i] = accepted'[j] => i = j
  <2>1. \A i \in DOMAIN accepted : accepted[i] # c
    BY DEF Taken, ToSet
  <2>2. QED BY <1>3, <1>4, <2>1 DEF Line
<1>9. Sent' = Sent /\ Held' = Held /\ pending' = pending
  BY DEF Sent
<1>10. ToSet(channel') = ToSet(channel) \cup {c}
  BY <1>2, AppendFacts
<1>11. (\A i, j \in DOMAIN wire : i < j => Before(accepted, wire[i].command, wire[j].command))'
  BY <1>6 DEF Line
<1>12. InTurn(accepted', pending')
  BY <1>6 DEF Line, InTurn
<1>13. InTurn(accepted', channel')
  <2>1. InTurn(accepted', channel)
    BY <1>6 DEF Line, InTurn
  <2>2. Ahead(accepted', ToSet(channel), {c})
    BY <1>7 DEF Line, Ahead
  <2>3. QED BY <1>2, <2>1, <2>2, AppendFacts
<1>14. (Sent \cup Held \cup ToSet(pending) \cup ToSet(channel) \subseteq Taken)'
  BY <1>5, <1>9, <1>10 DEF Line
<1>15. Ahead(accepted', Sent', Held') /\ Ahead(accepted', Sent' \cup Held', ToSet(pending'))
  BY <1>6, <1>9 DEF Line, Ahead
<1>16. Ahead(accepted', Sent' \cup Held' \cup ToSet(pending'), ToSet(channel'))
  BY <1>6, <1>7, <1>9, <1>10 DEF Line, Ahead
<1>17. Line'
  BY <1>8, <1>11, <1>12, <1>13, <1>14, <1>15, <1>16 DEF Line
<1>18. QED BY <1>5, <1>17

(* The manager takes the head of the channel into its queue, or answers it *)
LEMMA LineMoves ==
  ASSUME TypeOK, Line, channel # <<>>, channel' = Tail(channel),
         pending' = Append(pending, Head(channel)) \/ pending' = pending,
         UNCHANGED <<accepted, wire, Held>>
  PROVE  Line'
<1> DEFINE c == Head(channel)
<1>1. channel \in Seq(Commands) /\ pending \in Seq(Commands)
  BY DEF TypeOK
<1>2. c \in Commands /\ c \in ToSet(channel)
  BY <1>1, TailType, HeadIsIn
<1>3. /\ InOrderOf(channel', channel) /\ ToSet(channel') \subseteq ToSet(channel)
      /\ \A d \in ToSet(channel') : Before(accepted, c, d)
  BY <1>1, TailFacts DEF Line, Ahead
<1>4. InTurn(accepted, channel')
  BY <1>3, SubQueue DEF Line
<1>5. Ahead(accepted, ToSet(pending), {c})
  BY <1>2 DEF Line, Ahead
<1>6. ToSet(pending') \subseteq ToSet(pending) \cup {c} /\ InTurn(accepted, pending')
  <2>1. /\ ToSet(Append(pending, c)) = ToSet(pending) \cup {c}
        /\ InTurn(accepted, pending) => InTurn(accepted, Append(pending, c))
    BY <1>1, <1>2, <1>5, AppendFacts
  <2>2. QED BY <2>1 DEF Line
<1>7. \A a, b : Before(accepted', a, b) <=> Before(accepted, a, b)
  BY DEF Before
<1>8. Sent' = Sent /\ Taken' = Taken /\ Held' = Held
  BY DEF Sent, Taken
<1>9. InTurn(accepted', channel') /\ InTurn(accepted', pending')
  BY <1>4, <1>6, <1>7 DEF InTurn
<1>10. Ahead(accepted', Sent' \cup Held', ToSet(pending'))
  BY <1>2, <1>6, <1>7, <1>8 DEF Line, Ahead
<1>11. Ahead(accepted', Sent' \cup Held' \cup ToSet(pending'), ToSet(channel'))
  BY <1>2, <1>3, <1>6, <1>7, <1>8 DEF Line, Ahead
<1>12. (Sent \cup Held \cup ToSet(pending) \cup ToSet(channel) \subseteq Taken)'
  BY <1>2, <1>3, <1>6, <1>8 DEF Line
<1>13. (\A i, j \in DOMAIN wire : i < j => Before(accepted, wire[i].command, wire[j].command))'
  BY <1>7 DEF Line
<1>14. Ahead(accepted', Sent', Held')
  BY <1>7, <1>8 DEF Line, Ahead
<1>15. QED BY <1>9, <1>10, <1>11, <1>12, <1>13, <1>14 DEF Line

(* The manager takes the head of its queue in hand, or drops it *)
LEMMA LinePops ==
  ASSUME TypeOK, Line, pending # <<>>, pending' = Tail(pending), Held = {},
         Held' \subseteq {Head(pending)}, UNCHANGED <<accepted, wire, channel>>
  PROVE  Line'
<1> DEFINE c == Head(pending)
<1>1. pending \in Seq(Commands)
  BY DEF TypeOK
<1>2. c \in ToSet(pending)
  BY <1>1, HeadIsIn
<1>3. /\ InOrderOf(pending', pending) /\ ToSet(pending') \subseteq ToSet(pending)
      /\ \A d \in ToSet(pending') : Before(accepted, c, d)
  BY <1>1, TailFacts DEF Line, Ahead
<1>4. InTurn(accepted, pending')
  BY <1>3, SubQueue DEF Line
<1>5. Sent' = Sent /\ Taken' = Taken /\ accepted' = accepted /\ channel' = channel
  BY DEF Sent, Taken
<1>6. Ahead(accepted, Sent, Held')
  BY <1>2 DEF Line, Ahead
<1>7. Ahead(accepted, Sent \cup Held', ToSet(pending'))
  BY <1>3 DEF Line, Ahead
<1>8. Ahead(accepted, Sent \cup Held' \cup ToSet(pending'), ToSet(channel))
  BY <1>2, <1>3 DEF Line, Ahead
<1>9. Sent \cup Held' \cup ToSet(pending') \cup ToSet(channel) \subseteq Taken
  BY <1>2, <1>3 DEF Line
<1>10. QED BY <1>4, <1>5, <1>6, <1>7, <1>8, <1>9 DEF Line

(* The frame of the command in hand leaves *)
LEMMA LineWrites ==
  ASSUME TypeOK, Line, NEW c \in Commands, Held = {c}, Held' = {},
         \E frame \in Frames : frame.command = c /\ wire' = Append(wire, frame),
         UNCHANGED <<accepted, queues>>
  PROVE  Line' /\ Sent' = Sent \cup {c}
<1> DEFINE m == Len(wire) + 1
<1>1. PICK frame \in Frames : frame.command = c /\ wire' = Append(wire, frame)
  OBVIOUS
<1>2. /\ DOMAIN wire' = 1 .. m /\ DOMAIN wire = 1 .. m - 1 /\ m \in Nat \ {0}
      /\ wire'[m].command = c /\ \A i \in 1 .. m - 1 : wire'[i] = wire[i]
  BY <1>1 DEF TypeOK
<1> HIDE DEF m
<1>3. /\ \A i \in DOMAIN wire' : i = m \/ (i \in DOMAIN wire /\ wire'[i] = wire[i])
      /\ m \in DOMAIN wire'
      /\ \A i \in DOMAIN wire : i \in DOMAIN wire' /\ wire'[i] = wire[i]
  BY <1>2
<1>4. Sent' = Sent \cup {c}
  <2>1. ASSUME NEW d PROVE d \in Sent' <=> d \in Sent \/ d = c
    BY <1>2, <1>3 DEF Sent
  <2>2. QED BY <2>1
<1>5. Taken' = Taken /\ accepted' = accepted /\ channel' = channel /\ pending' = pending
  BY DEF Taken, queues
<1>6. ASSUME NEW i \in DOMAIN wire', NEW j \in DOMAIN wire', i < j
      PROVE  Before(accepted, wire'[i].command, wire'[j].command)
  <2>1. i \in DOMAIN wire /\ wire'[i] = wire[i] /\ wire[i].command \in Sent
    BY <1>2, <1>6 DEF Sent
  <2>2. CASE j = m
    BY <1>2, <2>1, <2>2 DEF Line, Ahead
  <2>3. CASE j # m
    BY <1>3, <1>6, <2>1, <2>3 DEF Line
  <2>4. QED BY <2>2, <2>3
<1>7. Ahead(accepted, Sent', Held') /\ Ahead(accepted, Sent' \cup Held', ToSet(pending))
  BY <1>4 DEF Line, Ahead
<1>8. Ahead(accepted, Sent' \cup Held' \cup ToSet(pending), ToSet(channel))
  BY <1>4 DEF Line, Ahead
<1>9. Sent' \cup Held' \cup ToSet(pending) \cup ToSet(channel) \subseteq Taken
  BY <1>4 DEF Line
<1>10. QED BY <1>4, <1>5, <1>6, <1>7, <1>8, <1>9 DEF Line

(* The suspended connection of an account leaves the channel drained *)
LEMMA LineDrains ==
  ASSUME TypeOK, Line, NEW set, pending' = Kept(pending \o channel, set), channel' = <<>>,
         UNCHANGED <<accepted, wire, Held>>
  PROVE  Line'
<1>1. pending \in Seq(Commands) /\ channel \in Seq(Commands)
  BY DEF TypeOK
<1>2. Ahead(accepted, ToSet(pending), ToSet(channel))
  BY DEF Line, Ahead
<1>3. InTurn(accepted, pending \o channel) /\ pending \o channel \in Seq(Commands)
      /\ ToSet(pending \o channel) \subseteq ToSet(pending) \cup ToSet(channel)
  BY <1>1, <1>2, JoinedTurn, JoinedSet DEF Line
<1>4. InTurn(accepted, pending') /\ ToSet(pending') \subseteq ToSet(pending) \cup ToSet(channel)
  BY <1>3, KeptFacts, SubQueue
<1>5. ToSet(channel') = {} /\ InTurn(accepted, channel')
  BY DEF ToSet, InTurn
<1>6. Sent' = Sent /\ Taken' = Taken /\ Held' = Held /\ accepted' = accepted
  BY DEF Sent, Taken
<1>7. Ahead(accepted, Sent \cup Held, ToSet(pending'))
  BY <1>4 DEF Line, Ahead
<1>8. Ahead(accepted, Sent \cup Held \cup ToSet(pending'), ToSet(channel'))
  BY <1>5 DEF Ahead
<1>9. Sent \cup Held \cup ToSet(pending') \cup ToSet(channel') \subseteq Taken
  BY <1>4, <1>5 DEF Line
<1>10. QED BY <1>4, <1>5, <1>6, <1>7, <1>8, <1>9 DEF Line

(* The task stops: its queue and the channel are empty *)
LEMMA LineStops ==
  ASSUME Line, Stop, UNCHANGED <<accepted, wire>>
  PROVE  Line'
<1>1. ToSet(pending') = {} /\ ToSet(channel') = {} /\ Held' = {}
  BY DEF Stop, ToSet, Held
<1>2. InTurn(accepted', pending') /\ InTurn(accepted', channel')
  BY DEF Stop, InTurn
<1>3. QED BY <1>1, <1>2, LineShrinks

LEMMA NextLine ==
  ASSUME TypeOK, Holding, Line, TakenCalls, Next
  PROVE  /\ Line'
         /\ Taken' = Taken \/ \E c \in Commands : Enqueue(c) /\ Taken' = Taken \cup {c}
         /\ UNCHANGED wire \/ (Flush /\ Sent' = Sent \cup {writing.command})
<1> USE DEF queues, histories
<1>1. CASE Account \/ Start
  <2>1. /\ UNCHANGED <<accepted, wire, queues, writing>>
        /\ manager # "writing" => manager' # "writing"
    BY <1>1 DEF Account, SwitchAccount, SignOut, Renew, Authenticate, CloseAccount, CloseSocket,
              Abort, AccountSide, managerVars, Start, CallerSide
  <2>2. Held' \subseteq Held
    BY <2>1 DEF Held
  <2>3. QED BY <2>1, <2>2, LineStays DEF Taken
<1>2. ASSUME NEW c \in Commands, Submit(c) \/ Expire(c) \/ GiveUp(c)
      PROVE  Line' /\ UNCHANGED <<accepted, wire>>
  <2>1. /\ UNCHANGED <<accepted, wire, queues, writing>>
        /\ manager # "writing" => manager' # "writing"
    BY <1>2 DEF Submit, Expire, GiveUp, CallerSide
  <2>2. Held' \subseteq Held
    BY <2>1 DEF Held
  <2>3. QED BY <2>1, <2>2, LineStays
<1>3. ASSUME NEW c \in Commands, Enqueue(c)
      PROVE  Line' /\ UNCHANGED wire /\ Taken' = Taken \cup {c}
  <2>1. c \notin Taken
    BY <1>3 DEF Enqueue, TakenCalls
  <2>2. UNCHANGED <<wire, pending, Held>>
    BY <1>3 DEF Enqueue, CallerSide, Held
  <2>3. QED BY <1>3, <2>1, <2>2, LineGrows DEF Enqueue
<1>4. CASE Stop /\ UNCHANGED <<accepted, wire>>
  BY <1>4, LineStops DEF Taken
<1>5. CASE UNCHANGED <<accepted, wire, queues>> /\ Held' \subseteq Held
  BY <1>5, LineStays DEF Taken
<1>6. CASE Top \/ Connect \/ Publish \/ Backoff \/ Die
  BY <1>4, <1>5, <1>6 DEF Top, Connect, Publish, Backoff, Die, ManagerSide, Goto, Held
<1>7. CASE Wait
  <2>1. CASE WaitCommand
    <3>1. UNCHANGED <<accepted, wire, Held>>
      BY <1>7, <2>1 DEF Wait, WaitCommand, ManagerSide, Goto, Held
    <3>2. QED BY <2>1, <3>1, LineMoves DEF WaitCommand, Taken
  <2>2. QED BY <1>4, <1>5, <1>7, <2>1 DEF Wait, WaitCancelled, WaitAuth, ManagerSide, Goto, Held
<1>8. CASE Loop
  <2>1. CASE pending # <<>> /\ pending' = Tail(pending)
    <3>1. UNCHANGED <<accepted, wire, channel>> /\ Held = {}
      BY <1>8 DEF Loop, ConnectionSide, Held
    <3>2. Held' \subseteq {Head(pending)}
      BY <1>8, <2>1 DEF Loop, Held, Goto, End
    <3>3. QED BY <2>1, <3>1, <3>2, LinePops DEF Taken
  <2>2. CASE UNCHANGED pending
    <3>1. CASE pending # <<>> /\ pending' = Tail(pending)
      BY <2>1, <3>1
    <3>2. CASE ~(pending # <<>> /\ pending' = Tail(pending))
      <4>1. manager' # "writing" /\ UNCHANGED <<accepted, wire, channel>>
        BY <1>8, <3>2 DEF Loop, ConnectionSide, Goto, End
      <4>2. QED BY <1>5, <2>2, <4>1 DEF Held
    <3>3. QED BY <3>1, <3>2
  <2>3. QED BY <1>8, <2>1, <2>2 DEF Loop
<1>9. CASE Flush
  <2>1. writing.command \in Commands /\ Held = {writing.command}
    BY <1>9 DEF Flush, Holding, Held
  <2>2. Held' = {}
    BY <1>9 DEF Flush, Held, TypeOK
  <2>3. [command |-> writing.command, session |-> conn.session, generation |-> generation]
          \in Frames
    BY <2>1 DEF TypeOK, Frames
  <2>4. UNCHANGED <<accepted, queues>>
    BY <1>9 DEF Flush, ConnectionSide
  <2>5. \E frame \in Frames : frame.command = writing.command /\ wire' = Append(wire, frame)
    BY <1>9, <2>3 DEF Flush
  <2>6. QED BY <1>9, <2>1, <2>2, <2>4, <2>5, LineWrites DEF Taken
<1>10. CASE Written \/ WriteFailed
  BY <1>5, <1>10 DEF Written, WriteFailed, ConnectionSide, End, Goto, Held
<1>11. CASE Select
  <2>1. Held' = {} /\ Held = {} /\ UNCHANGED <<accepted, wire>>
    BY <1>11 DEF Select, SelectCommand, SelectFallback, SelectAuthenticated, SelectEnd, End, Goto,
                Held, ConnectionSide
  <2>2. CASE SelectCommand
    BY <2>1, <2>2, LineMoves DEF SelectCommand, Taken
  <2>3. QED BY <1>5, <1>11, <2>1, <2>2 DEF Select, SelectFallback, SelectAuthenticated, SelectEnd
<1>12. CASE Ending
  <2>1. Held = {} /\ UNCHANGED <<accepted, wire>>
    BY <1>12 DEF Ending, Held
  <2>2. CASE manager' = "top" /\ pending' = OfSession(pending, auth.session) /\ UNCHANGED channel
    <3>1. InTurn(accepted, pending') /\ ToSet(pending') \subseteq ToSet(pending)
      BY <2>2, KeptFacts, SubQueue DEF OfSession, Line, TypeOK
    <3>2. Held' = {} /\ accepted' = accepted /\ channel' = channel
      BY <2>1, <2>2 DEF Held
    <3>3. QED BY <2>1, <3>1, <3>2, LineShrinks DEF Line, Taken
  <2>3. CASE /\ manager' \in {"clearing", "top"} /\ channel' = <<>>
             /\ pending' = Retained(pending \o channel)
    <3>1. Held' = Held
      BY <2>1, <2>3 DEF Held
    <3>2. QED BY <2>1, <2>3, <3>1, LineDrains DEF Retained, NotOfSession, Taken
  <2>4. CASE manager' # "writing" /\ UNCHANGED queues
    BY <1>5, <2>1, <2>4 DEF Held
  <2>5. QED BY <1>4, <1>12, <2>1, <2>2, <2>3, <2>4 DEF Ending, Goto
<1>13. CASE ClearAuth
  BY <1>5, <1>13 DEF ClearAuth, Goto, Held
<1>14. QED BY <1>1, <1>2, <1>3, <1>6, <1>7, <1>8, <1>9, <1>10, <1>11, <1>12, <1>13
       DEF Next, Manager, Caller, Taken

--------------------------------------------------------------------------------
(***************************************************************************)
(* The command in hand, and what the answers and the frames say of each    *)
(* other.                                                                  *)
(***************************************************************************)
Hands ==
  manager = "writing" =>
    /\ writing.command \in Taken
    /\ command[writing.command].session = conn.session
    /\ command[writing.command].answer \in {"none", "timeout"}
    /\ writing.left => \E i \in FramesOf(writing.command) : wire[i].generation = generation

Receipts ==
  /\ OwnConnection
  /\ \A c \in Sent : command[c].state = "waiting" =>
       manager = "writing" /\ writing.left /\ writing.command = c
  /\ \A c \in Commands : command[c].answer = "ok" =>
       \E i \in FramesOf(c) : wire[i].generation = command[c].generation
  /\ \A c \in Sent : command[c].answer = "closed" => aborted

NextInHand ==
  \/ UNCHANGED <<manager, writing, conn, generation>>
  \/ Flush
  \/ Written
  \/ manager' \in {"done", "ending"} /\ command'[writing.command].state # "waiting"

LEMMA NextHands ==
  ASSUME TypeOK, Holding, Next
  PROVE  /\ manager = "writing" => NextInHand
         /\ manager # "writing" /\ manager' = "writing" =>
              /\ Loop /\ pending # <<>> /\ UNCHANGED command
              /\ writing' = [command |-> Head(pending), left |-> FALSE]
              /\ command[Head(pending)].state # "done"
              /\ command[Head(pending)].session = conn.session
         /\ aborted => aborted'
<1>1. aborted => aborted'
  BY DEF Next, Account, SwitchAccount, SignOut, Renew, Authenticate, CloseAccount, CloseSocket,
         Abort, AccountSide, Start, Caller, Submit, Enqueue, Expire, GiveUp, CallerSide, authSide,
         Manager, Top, Wait, Connect, Publish, Backoff, Loop, Flush, Written, Select, Ending,
         ClearAuth, WriteFailed, Die, ManagerSide, ConnectionSide
<1>2. CASE Account
  BY <1>1, <1>2 DEF Account, SwitchAccount, SignOut, Renew, Authenticate, CloseAccount,
                    CloseSocket, Abort, AccountSide, managerVars, NextInHand
<1>3. CASE Start \/ \E c \in Commands : Caller(c)
  BY <1>1, <1>3 DEF Start, Caller, Submit, Enqueue, Expire, GiveUp, CallerSide, NextInHand
<1>4. CASE Top \/ Wait \/ Connect \/ Publish \/ Backoff \/ Ending \/ ClearAuth \/ Select
  BY <1>1, <1>4 DEF Top, Wait, WaitCancelled, WaitAuth, WaitCommand, Connect, Publish, Backoff,
                    Ending, ClearAuth, Stop, Goto, Select, SelectCommand, SelectFallback,
                    SelectAuthenticated, SelectEnd, End
<1>5. CASE Loop
  BY <1>1, <1>5 DEF Loop, End, Goto, MayWrite
<1>6. CASE Flush \/ Written
  BY <1>1, <1>6 DEF Flush, Written, NextInHand
<1>7. CASE Die \/ WriteFailed
  <2>1. CASE manager = "writing"
    <3>1. "closed" \in Answers /\ "transport" \in Answers
      BY DEF Answers
    <3>2. writing.command \in Commands
      BY <2>1 DEF Holding
    <3>3. command'[writing.command].state # "waiting"
      <4>1. CASE Die
        <5>1. Answer({c \in Commands : command[c].state \in {"queueing", "waiting"}}, "closed")
          BY <4>1 DEF Die, Stop
        <5>2. QED BY <3>1, <3>2, <5>1, AnswerFacts DEF Unanswered
      <4>2. CASE WriteFailed
        <5>1. Answer({writing.command}, "transport")
          BY <4>2 DEF WriteFailed
        <5>2. QED BY <3>1, <3>2, <5>1, AnswerFacts DEF Unanswered
      <4>3. QED BY <1>7, <4>1, <4>2
    <3>4. manager' \in {"done", "ending"}
      BY <1>7 DEF Die, Stop, WriteFailed, End, Goto
    <3>5. QED BY <1>1, <2>1, <3>3, <3>4 DEF NextInHand
  <2>2. CASE manager # "writing"
    BY <1>1, <1>7, <2>2 DEF Die, Stop, WriteFailed
  <2>3. QED BY <2>1, <2>2
<1>8. QED BY <1>2, <1>3, <1>4, <1>5, <1>6, <1>7 DEF Next, Manager

IInv ==
  /\ TypeOK /\ Connections /\ CallsMade /\ Line /\ TakenCalls /\ Hands /\ Receipts

LEMMA HoldsCommands == ASSUME TakenCalls, Hands PROVE Holding
BY DEF TakenCalls, Hands, Holding

(* No command of a queue is on the wire *)
LEMMA QueuedIsNotSent ==
  ASSUME TypeOK, Line
  PROVE  (ToSet(channel) \cup ToSet(pending)) \cap Sent = {}
<1>1. \A c : ~Before(accepted, c, c)
  BY NeverBeforeItself
<1>2. QED BY <1>1 DEF Line, Ahead

LEMMA TakenCallsStay ==
  ASSUME IInv, Next
  PROVE  /\ TakenCalls'
         /\ \A c \in Taken : /\ c \in Commands /\ command[c].state \in {"waiting", "done"}
                             /\ command'[c].session = command[c].session
                             /\ command[c].state = "done" => command'[c] = command[c]
                             /\ command'[c].state \in {"waiting", "done"}
<1>1. CallMoves /\ Holding
  BY HoldsCommands, NextCalls DEF IInv
<1>2. ASSUME NEW c \in Taken
      PROVE  /\ c \in Commands /\ command[c].state \in {"waiting", "done"}
             /\ command'[c].session = command[c].session
             /\ command[c].state = "done" => command'[c] = command[c]
             /\ command'[c].state \in {"waiting", "done"}
  BY <1>1, CallsStayMade DEF IInv, TakenCalls
<1>3. TakenCalls'
  <2>1. CASE Taken' = Taken
    BY <1>2, <2>1 DEF TakenCalls
  <2>2. ASSUME NEW c \in Commands, Enqueue(c), Taken' = Taken \cup {c} PROVE TakenCalls'
    <3>1. command'[c].state = "waiting"
      BY <2>2 DEF Enqueue, IInv, TypeOK, Calls
    <3>2. QED BY <1>2, <2>2, <3>1 DEF TakenCalls
  <2>3. QED BY <1>1, <2>1, <2>2, NextLine DEF IInv
<1>4. QED BY <1>2, <1>3

(* How the answer of a command that is on the wire, or in hand, may change *)
LEMMA AnswersOfTaken ==
  ASSUME IInv, Next, NEW c \in Taken, command'[c].answer # command[c].answer
  PROVE  /\ command[c].state = "waiting" /\ command'[c].state = "done"
         /\ \/ command'[c].answer = "timeout"
            \/ /\ Written /\ c = writing.command /\ command'[c].answer = "ok"
               /\ command'[c].generation = generation
            \/ command'[c].answer = "transport" /\ manager' = "ending"
            \/ command'[c].answer = "closed" /\ manager' = "done" /\ (manager = "writing" => aborted)
            \/ /\ manager' # "writing" /\ c \in ToSet(channel) \cup ToSet(pending)
               /\ command'[c].answer \in {"unauth", "expired", "stale", "closed"}
<1>1. CallMoves /\ Holding
  BY HoldsCommands, NextCalls DEF IInv
<1>2. /\ c \in Commands /\ command[c].state = "waiting"
  BY TakenCallsStay
<1>3. ASSUME NEW d \in Commands, Submit(d) PROVE FALSE
  BY <1>2, <1>3, SubmitFacts DEF IInv
<1>4. ASSUME NEW d \in Commands, Enqueue(d) \/ Expire(d) \/ GiveUp(d)
      PROVE  command'[c].answer = "timeout" /\ command'[c].state = "done"
  BY <1>2, <1>4, CallerFacts DEF IInv
<1>5. CASE Written
  BY <1>1, <1>2, <1>5, WrittenFacts DEF IInv
<1>6. ASSUME NEW set \in SUBSET Commands, NEW answer \in Answers, ManagerAnswers(set, answer)
      PROVE  /\ command'[c].state = "done"
             /\ \/ command'[c].answer = "transport" /\ manager' = "ending"
                \/ command'[c].answer = "closed" /\ manager' = "done" /\ (manager = "writing" => aborted)
                \/ /\ manager' # "writing" /\ c \in ToSet(channel) \cup ToSet(pending)
                   /\ command'[c].answer \in {"unauth", "expired", "stale", "closed"}
  <2>1. c \in set /\ command'[c].state = "done" /\ command'[c].answer = answer
    BY <1>2, <1>6, AnswerFacts DEF ManagerAnswers, IInv
  <2>2. QED BY <1>6, <2>1 DEF ManagerAnswers
<1>7. QED BY <1>1, <1>2, <1>3, <1>4, <1>5, <1>6 DEF CallMoves, Caller

LEMMA HandsStay == ASSUME IInv, Next PROVE Hands'
<1> SUFFICES ASSUME manager' = "writing"
             PROVE  /\ writing'.command \in Taken'
                    /\ command'[writing'.command].session = conn'.session
                    /\ command'[writing'.command].answer \in {"none", "timeout"}
                    /\ writing'.left => \E i \in FramesOf(writing.command)' : wire'[i].generation = generation'
  BY DEF Hands
<1>1. Holding /\ TypeOK /\ Line
  BY HoldsCommands DEF IInv
<1>2. Taken \subseteq Taken' /\ (UNCHANGED wire \/ Flush)
  BY <1>1, NextLine DEF IInv
<1>3. CASE manager = "writing"
  <2> DEFINE c == writing.command
  <2>1. c \in Taken /\ command[c].session = conn.session /\ command[c].answer \in {"none", "timeout"}
    BY <1>3 DEF IInv, Hands
  <2>2. command'[c].session = command[c].session
    BY <2>1, TakenCallsStay
  <2>3. Flush \/ UNCHANGED <<writing, conn, generation>>
    BY <1>1, <1>3, NextHands DEF NextInHand, Written, Goto
  <2>4. writing'.command = c /\ conn' = conn /\ generation' = generation
    BY <2>3 DEF Flush, ConnectionSide, TypeOK, IInv
  <2>5. command'[c].answer \in {"none", "timeout"}
    <3>1. CASE command'[c].answer = command[c].answer
      BY <2>1, <3>1
    <3>2. CASE command'[c].answer # command[c].answer
      BY <2>1, <3>2, AnswersOfTaken DEF Written, Goto
    <3>3. QED BY <3>1, <3>2
  <2>6. CASE Flush
    <3>1. PICK m : m = Len(wire) + 1
      OBVIOUS
    <3>2. m \in DOMAIN wire' /\ wire'[m].command = c /\ wire'[m].generation = generation
      BY <2>6, <3>1 DEF Flush, IInv, TypeOK
    <3>3. QED BY <1>2, <2>1, <2>2, <2>4, <2>5, <3>2 DEF FramesOf
  <2>7. CASE ~Flush
    <3>1. UNCHANGED <<wire, writing>>
      BY <1>2, <2>3, <2>7
    <3>2. writing'.left => \E i \in FramesOf(c) : wire[i].generation = generation
      BY <1>3, <3>1 DEF IInv, Hands
    <3>3. QED BY <1>2, <2>1, <2>2, <2>4, <2>5, <3>1, <3>2 DEF FramesOf
  <2>8. QED BY <2>6, <2>7
<1>4. CASE manager # "writing"
  <2> DEFINE c == Head(pending)
  <2>1. /\ Loop /\ pending # <<>> /\ UNCHANGED command
        /\ writing' = [command |-> c, left |-> FALSE]
        /\ command[c].state # "done" /\ command[c].session = conn.session
    BY <1>1, <1>4, NextHands
  <2>2. c \in ToSet(pending)
    BY <1>1, <2>1, HeadIsIn DEF TypeOK
  <2>3. c \in Taken
    BY <1>1, <2>2 DEF Line
  <2>4. command[c].answer = "none"
    BY <2>1, <2>3, TakenCallsStay DEF IInv, CallsMade, Unanswered
  <2>5. conn'.session = conn.session
    BY <1>4, <2>1 DEF Loop, End, Goto
  <2>6. QED BY <1>2, <2>1, <2>3, <2>4, <2>5
<1>5. QED BY <1>3, <1>4

LEMMA ReceiptsStay == ASSUME IInv, Next PROVE Receipts'
<1>1. Holding /\ TypeOK /\ Line /\ Receipts /\ Sent \subseteq Taken
  BY HoldsCommands DEF IInv, Line
<1>2. UNCHANGED wire \/ (Flush /\ Sent' = Sent \cup {writing.command})
  BY <1>1, NextLine DEF IInv
<1>3. aborted => aborted'
  BY <1>1, NextHands
<1>4. CASE Flush
  <2> DEFINE c == writing.command
  <2>1. /\ manager = "writing" /\ manager' = "writing" /\ writing'.left /\ writing'.command = c
        /\ UNCHANGED command
    BY <1>4 DEF Flush, IInv, TypeOK
  <2>2. /\ c \in Taken /\ command[c].session = conn.session
        /\ command[c].answer \in {"none", "timeout"}
    BY <2>1 DEF IInv, Hands
  <2>3. PICK m : m = Len(wire) + 1
    OBVIOUS
  <2>4. /\ DOMAIN wire' = 1 .. m /\ DOMAIN wire = 1 .. m - 1 /\ m \in Nat \ {0}
        /\ wire'[m].command = c /\ wire'[m].session = conn.session
        /\ \A i \in 1 .. m - 1 : wire'[i] = wire[i]
    BY <1>4, <2>3 DEF Flush, IInv, TypeOK
  <2>5. /\ \A i \in DOMAIN wire' : i = m \/ (i \in DOMAIN wire /\ wire'[i] = wire[i])
        /\ \A i \in DOMAIN wire : i \in DOMAIN wire' /\ wire'[i] = wire[i]
    BY <2>4
  <2>6. OwnConnection'
    BY <1>1, <2>1, <2>2, <2>4, <2>5 DEF Receipts, OwnConnection
  <2>7. Sent' = Sent \cup {c}
    <3>1. ASSUME NEW d PROVE d \in Sent' <=> d \in Sent \/ d = c
      BY <2>4, <2>5 DEF Sent
    <3>2. QED BY <3>1
  <2>8. (\A d \in Sent : command[d].state = "waiting" =>
           manager = "writing" /\ writing.left /\ writing.command = d)'
    BY <1>1, <1>4, <2>1, <2>7 DEF Receipts, Flush
  <2>9. (\A d \in Commands : command[d].answer = "ok" =>
           \E i \in FramesOf(d) : wire[i].generation = command[d].generation)'
    BY <1>1, <2>1, <2>5 DEF Receipts, FramesOf
  <2>10. (\A d \in Sent : command[d].answer = "closed" => aborted)'
    BY <1>1, <1>3, <2>1, <2>2, <2>7 DEF Receipts
  <2>11. QED BY <2>6, <2>8, <2>9, <2>10 DEF Receipts
<1>5. CASE ~Flush
  <2>1. wire' = wire /\ Sent' = Sent
    BY <1>2, <1>5 DEF Sent
  <2>2. OwnConnection'
    <3>1. \A i \in DOMAIN wire : wire[i].command \in Taken
      BY <1>1 DEF Sent
    <3>2. QED BY <1>1, <2>1, <3>1, TakenCallsStay DEF Receipts, OwnConnection
  <2>3. ASSUME NEW c \in Sent, command'[c].state = "waiting"
        PROVE  manager' = "writing" /\ writing'.left /\ writing'.command = c
    <3>1. c \in Taken /\ command[c].state = "waiting"
      BY <1>1, <2>3, TakenCallsStay
    <3>2. manager = "writing" /\ writing.left /\ writing.command = c
      BY <1>1, <3>1 DEF Receipts
    <3>3. ~Written
      BY <1>1, <2>3, <3>1, <3>2, WrittenFacts
    <3>4. QED BY <1>1, <1>5, <2>3, <3>2, <3>3, NextHands DEF NextInHand
  <2>4. ASSUME NEW c \in Commands, command'[c].answer = "ok"
        PROVE  \E i \in FramesOf(c) : wire[i].generation = command'[c].generation
    <3>1. CASE command[c].answer = "ok"
      <4>1. command[c].state = "done"
        BY <1>1, <3>1 DEF IInv, CallsMade, TypeOK, Calls, Unanswered
      <4>2. command'[c] = command[c]
        BY <1>1, <4>1, NextCalls, CallsStayMade DEF IInv
      <4>3. QED BY <1>1, <3>1, <4>2 DEF Receipts
    <3>2. CASE command[c].answer # "ok"
      <4>1. CallMoves
        BY <1>1, NextCalls
      <4>2. ~(\E d \in Commands : Caller(d))
        BY <1>1, <2>4, <3>2, SubmitFacts, CallerFacts DEF Caller
      <4>3. ~(\E set \in SUBSET Commands, answer \in Answers : ManagerAnswers(set, answer))
        <5>1. SUFFICES ASSUME NEW set \in SUBSET Commands, NEW answer \in Answers,
                              ManagerAnswers(set, answer)
                       PROVE  FALSE
          OBVIOUS
        <5>2. answer # "ok" /\ Answer(set, answer)
          BY <5>1 DEF ManagerAnswers
        <5>3. command'[c] = command[c] \/ command'[c].answer = answer
          BY <1>1, <5>2, AnswerFacts
        <5>4. QED BY <2>4, <3>2, <5>2, <5>3
      <4>4. Written
        BY <2>4, <3>2, <4>1, <4>2, <4>3 DEF CallMoves
      <4>5. c = writing.command /\ command'[c].generation = generation
        BY <1>1, <2>4, <3>2, <4>4, WrittenFacts
      <4>6. QED BY <4>4, <4>5 DEF Written, IInv, Hands
    <3>3. QED BY <3>1, <3>2
  <2>5. ASSUME NEW c \in Sent, command'[c].answer = "closed" PROVE aborted'
    <3>1. CASE command[c].answer = "closed"
      BY <1>1, <1>3, <3>1 DEF Receipts
    <3>2. CASE command[c].answer # "closed"
      <4>1. c \in Taken /\ command[c].state = "waiting" /\ c \notin ToSet(channel) \cup ToSet(pending)
        BY <1>1, <2>5, <3>2, AnswersOfTaken, QueuedIsNotSent
      <4>2. manager = "writing"
        BY <1>1, <4>1 DEF Receipts
      <4>3. QED BY <1>3, <2>5, <3>2, <4>1, <4>2, AnswersOfTaken
    <3>3. QED BY <3>1, <3>2
  <2>6. QED BY <2>1, <2>2, <2>3, <2>4, <2>5 DEF Receipts, FramesOf
<1>6. QED BY <1>4, <1>5

LEMMA InitialInvariant == ASSUME Init PROVE IInv
<1>1. TypeOK
  <2>1. /\ auth \in [session : Nat, revision : Nat, signedIn : BOOLEAN]
        /\ conn \in [session : Nat, revision : Nat, ending : Endings]
        /\ flags \in [connected : BOOLEAN, session : Nat, authenticated : BOOLEAN]
    BY DEF Init, Endings
  <2>2. /\ writing \in [command : Commands \cup {NoCommand}, left : BOOLEAN]
        /\ manager \in Positions
    BY DEF Init, Positions
  <2>3. command \in [Commands -> Calls]
    <3>1. [state |-> "new", session |-> 0, expired |-> FALSE, answer |-> "none",
           generation |-> 0] \in Calls
      BY DEF Calls, Answers
    <3>2. QED BY <3>1 DEF Init
  <2>4. channel \in Seq(Commands) /\ pending \in Seq(Commands)
    BY DEF Init
  <2>5. wire \in Seq(Frames) /\ accepted \in Seq(Commands)
    BY DEF Init
  <2>6. /\ unseen \in BOOLEAN /\ closed \in BOOLEAN /\ cancelled \in BOOLEAN
        /\ aborted \in BOOLEAN /\ suspended \in BOOLEAN
        /\ generation \in Nat /\ legacyReady \in BOOLEAN
    BY DEF Init
  <2>7. QED BY <2>1, <2>2, <2>3, <2>4, <2>5, <2>6 DEF TypeOK
<1>2. Connections /\ CallsMade
  <2>1. Connections
    BY DEF Init, Connections, InHand
  <2>2. \A c \in Commands : command[c].state = "new" /\ command[c].session = 0 /\ command[c].answer = "none"
    BY DEF Init
  <2>3. QED BY <2>1, <2>2 DEF CallsMade, Unanswered
<1>3. Taken = {} /\ Sent = {} /\ Held = {} /\ ToSet(pending) = {} /\ ToSet(channel) = {}
  BY DEF Init, Taken, Sent, Held, ToSet
<1>4. Line /\ TakenCalls
  BY <1>3 DEF Init, Line, TakenCalls, InTurn, Ahead
<1>5. Hands /\ Receipts
  BY <1>3 DEF Init, Hands, Receipts, OwnConnection
<1>6. QED BY <1>1, <1>2, <1>4, <1>5 DEF IInv

LEMMA InvariantHolds == Spec => []IInv
<1>1. Init => IInv
  BY InitialInvariant
<1>2. IInv /\ [Next]_vars => IInv'
  <2> SUFFICES ASSUME IInv, [Next]_vars PROVE IInv'
    OBVIOUS
  <2>1. CASE UNCHANGED vars
    BY <2>1 DEF vars, authSide, managerVars, queues, histories, IInv, TypeOK, Connections,
                CallsMade, Unanswered, Line, TakenCalls, Taken, Sent, Held, Hands, Receipts,
                OwnConnection, FramesOf
  <2>2. CASE Next
    <3>1. Holding
      BY HoldsCommands DEF IInv
    <3>2. TypeOK'
      BY <2>2, <3>1, AccountKeepsType, CallersKeepType, OutsideKeepsType, ConnectionKeepsType,
         EndingKeepsType DEF Next, Manager, IInv
    <3>3. Connections'
      BY <2>2, AccountKeepsConnections, CallersKeepConnections, OutsideKeepsConnections,
         InsideKeepsConnections DEF Next, Manager, IInv
    <3>4. CallsMade'
      BY <2>2, <3>1, NextCalls, CallsStayMade DEF IInv
    <3>5. Line' /\ TakenCalls'
      BY <2>2, <3>1, NextLine, TakenCallsStay DEF IInv
    <3>6. QED BY <2>2, <3>2, <3>3, <3>4, <3>5, HandsStay, ReceiptsStay DEF IInv
  <2>3. QED BY <2>1, <2>2
<1>3. QED BY <1>1, <1>2, PTL DEF Spec

--------------------------------------------------------------------------------
(***************************************************************************)
(* The properties, for every set of commands and every bound.              *)
(***************************************************************************)
LEMMA FramesAreSent == \A c : FramesOf(c) # {} <=> c \in Sent
BY DEF FramesOf, Sent

LEMMA OneFrame ==
  ASSUME TypeOK, Line, NEW c, NEW i \in FramesOf(c), NEW j \in FramesOf(c)
  PROVE  i = j
<1>1. /\ i \in DOMAIN wire /\ j \in DOMAIN wire /\ i \in Nat /\ j \in Nat
      /\ wire[i].command = c /\ wire[j].command = c
  BY DEF FramesOf, TypeOK
<1>2. ~Before(accepted, c, c)
  BY NeverBeforeItself
<1>3. ~(i < j) /\ ~(j < i)
  BY <1>1, <1>2 DEF Line
<1>4. QED BY <1>1, <1>3

(* The socket's flags, its connection, its two queues, the command being      *)
(* written, the calls and the frames stay what socket.rs declares them to be, *)
(* however many accounts, connections and commands there are.                 *)
THEOREM SocketTypes == Spec => []TypeOK
<1>1. IInv => TypeOK
  BY DEF IInv
<1>2. QED BY <1>1, InvariantHolds, PTL

(* A command leaves only on a connection of the session it was made for: the  *)
(* session is compared before the write (MayWrite), and the account of the    *)
(* connection in hand does not change under the write.                        *)
THEOREM FramesGoToOwnAccount == Spec => []OwnConnection
<1>1. IInv => OwnConnection
  BY DEF IInv, Receipts
<1>2. QED BY <1>1, InvariantHolds, PTL

(* A command has one frame at most; "ok" names the connection it left on; and *)
(* of the commands answered "closed" only one that an abort interrupted in    *)
(* the write can have left (send_command, fail_pending, discard_stale).       *)
THEOREM ReceiptsHold == Spec => []ReceiptsAreTrue
<1>1. IInv => ReceiptsAreTrue
  <2> SUFFICES ASSUME IInv, NEW c \in Commands
               PROVE  /\ \A i, j \in FramesOf(c) : i = j
                      /\ command[c].answer = "ok" =>
                           \E i \in FramesOf(c) : wire[i].generation = command[c].generation
                      /\ command[c].answer = "closed" /\ FramesOf(c) # {} => aborted
    BY DEF ReceiptsAreTrue
  <2>1. \A i, j \in FramesOf(c) : i = j
    BY OneFrame DEF IInv
  <2>2. QED BY <2>1, FramesAreSent DEF IInv, Receipts
<1>2. QED BY <1>1, InvariantHolds, PTL

(* Commands leave in the order the channel took them, whatever queue they     *)
(* waited in and however often the connection or the account was replaced.    *)
THEOREM FramesLeaveInOrder == Spec => []InOrder
<1>1. ASSUME IInv, NEW c, NEW d, Before(accepted, c, d) PROVE Position(c) <= Position(d)
  <2>1. PICK a \in DOMAIN accepted, b \in DOMAIN accepted :
          a < b /\ accepted[a] = c /\ accepted[b] = d
    BY <1>1 DEF Before
  <2>2. \A k, l \in DOMAIN accepted : accepted[k] = accepted[l] => k = l
    BY <1>1 DEF IInv, Line
  <2>3. Position(c) = a
    BY <2>1, <2>2 DEF Position
  <2>4. Position(d) = b
    BY <2>1, <2>2 DEF Position
  <2>5. a \in Nat /\ b \in Nat
    BY <1>1 DEF IInv, TypeOK
  <2>6. QED BY <2>1, <2>3, <2>4, <2>5
<1>2. IInv => InOrder
  <2>1. SUFFICES ASSUME IInv, NEW i \in DOMAIN wire, NEW j \in DOMAIN wire, i < j
                 PROVE  Position(wire[i].command) <= Position(wire[j].command)
    BY DEF InOrder
  <2>2. Before(accepted, wire[i].command, wire[j].command)
    BY <2>1 DEF IInv, Line
  <2>3. QED BY <1>1, <2>1, <2>2
<1>3. QED BY <1>2, InvariantHolds, PTL

(* is_connected never speaks of a connection that is gone, or of one that was *)
(* opened for another account: the flags are taken back where it is left, and *)
(* the session they were published for is compared with the current one.      *)
THEOREM LiveConnectionsAreReported == Spec => []ReportedConnectionIsLive
<1>1. IInv => ReportedConnectionIsLive
  BY DEF IInv, Connections, InHand, ReportedConnectionIsLive, IsConnected
<1>2. QED BY <1>1, InvariantHolds, PTL

(* The end of one account's connection answers "closed" to no command of the  *)
(* account that was signed in meanwhile, wherever the command waits.          *)
THEOREM EndedConnectionsKeepCommands == Spec => NewAccountKeepsCommands
<1> DEFINE Keeps == \A c \in Commands :
       /\ manager = "ending" /\ conn.ending # "Closed"
       /\ command'[c].answer = "closed" /\ command[c].answer # "closed"
       => command[c].session # auth.session \/ command[c].session = conn.session
<1>1. IInv /\ [Next]_vars => Keeps
  <2> SUFFICES ASSUME IInv, [Next]_vars, NEW c \in Commands,
                      manager = "ending", conn.ending # "Closed",
                      command'[c].answer = "closed", command[c].answer # "closed"
               PROVE  command[c].session # auth.session \/ command[c].session = conn.session
    OBVIOUS
  <2>1. TypeOK /\ Connections /\ CallsMade /\ Next
    BY DEF IInv, vars
  <2>2. CASE Ending
    <3>1. pending \in Seq(Commands) /\ pending \o channel \in Seq(Commands)
      BY <2>1 DEF TypeOK
    <3>2. CASE Answer(ToSet(NotOfSession(pending, auth.session)), "closed")
      <4>1. "closed" \in Answers
        BY DEF Answers
      <4>2. c \in ToSet(NotOfSession(pending, auth.session))
        BY <2>1, <3>2, <4>1, AnswerFacts
      <4>3. QED BY <3>1, <4>2, KeptFacts DEF NotOfSession
    <3>3. CASE Answer(ToSet(pending \o channel) \ ToSet(Retained(pending \o channel)), "closed")
      <4>1. "closed" \in Answers
        BY DEF Answers
      <4>2. c \in ToSet(pending \o channel) /\ c \notin ToSet(Retained(pending \o channel))
        BY <2>1, <3>3, <4>1, AnswerFacts
      <4>3. QED BY <3>1, <4>2, KeptFacts DEF Retained, NotOfSession
    <3>4. command' # command
      OBVIOUS
    <3>5. QED BY <2>2, <3>2, <3>3, <3>4 DEF Ending
  <2>3. ASSUME NEW d \in Commands, Caller(d)
        PROVE  command[c].session # auth.session
    <3>1. c = d /\ Submit(d)
      BY <2>1, <2>3, SubmitFacts, CallerFacts DEF Caller
    <3>2. command[c].session = 0 /\ command[c].state = "new"
      BY <2>1, <3>1, SubmitFacts DEF CallsMade
    <3>3. closed
      <4>1. command'[c].answer = "closed" => closed \/ manager = "done"
        BY <2>1, <3>1 DEF Submit, TypeOK, Calls
      <4>2. QED BY <4>1
    <3>4. QED BY <2>1, <3>2, <3>3 DEF Connections
  <2>4. CASE ~Ending /\ ~\E d \in Commands : Caller(d)
    <3>1. command' = command
      BY <2>1, <2>4 DEF Next, Account, SwitchAccount, SignOut, Renew, Authenticate, CloseAccount,
         CloseSocket, Abort, AccountSide, Start, Manager, Top, Wait, Connect, Publish, Backoff,
         Loop, Flush, Written, Select, ClearAuth, WriteFailed, Die
    <3>2. QED BY <3>1
  <2>5. QED BY <2>2, <2>3, <2>4
<1>2. QED BY <1>1, InvariantHolds, PTL DEF Spec, NewAccountKeepsCommands


--------------------------------------------------------------------------------
(***************************************************************************)
(* The refinement of Delivery.  A command is delivered when a frame of it  *)
(* is on the wire; its phase is what its sender knows.                     *)
(***************************************************************************)
Wired(c) == FramesOf(c) # {}
PhaseOf(call, sent) ==
  CASE call.state = "new" -> "new"
    [] call.state \in {"queueing", "waiting"} -> "open"
    [] call.answer = "ok" -> "ok"
    [] call.answer \in {"stale", "unauth", "expired"} -> "refused"
    [] call.answer = "closed" /\ ~sent -> "refused"
    [] OTHER -> "uncertain"

(* The arms of PhaseOf exclude one another, since only a settled call is answered *)
LEMMA PhaseCases ==
  ASSUME NEW call \in Calls, NEW sent \in BOOLEAN, call.state # "done" => call.answer = "none"
  PROVE  /\ call.state = "new" => PhaseOf(call, sent) = "new"
         /\ call.state \in {"queueing", "waiting"} => PhaseOf(call, sent) = "open"
         /\ call.state = "done" =>
              /\ call.answer = "ok" => PhaseOf(call, sent) = "ok"
              /\ call.answer \in {"stale", "unauth", "expired"} => PhaseOf(call, sent) = "refused"
              /\ call.answer = "closed" =>
                   PhaseOf(call, sent) = IF sent THEN "uncertain" ELSE "refused"
              /\ call.answer \in {"none", "timeout", "transport"} =>
                   PhaseOf(call, sent) = "uncertain"
         /\ PhaseOf(call, sent) \in {"new", "open", "ok", "refused", "uncertain"}
<1>1. call.state \in {"new", "queueing", "waiting", "done"} /\ call.answer \in Answers
  BY DEF Calls
<1>2. CASE call.state = "new"
  BY <1>2 DEF PhaseOf
<1>3. CASE call.state \in {"queueing", "waiting"}
  BY <1>3 DEF PhaseOf
<1>4. CASE call.state = "done"
  BY <1>1, <1>4 DEF PhaseOf, Answers
<1>5. QED BY <1>1, <1>2, <1>3, <1>4

Settled(c) ==
  LET now  == PhaseOf(command[c], Wired(c))
      next == PhaseOf(command'[c], Wired(c))
  IN \/ next = now
     \/ now = "open" /\ Wired(c) /\ next = "ok"
     \/ now \in {"new", "open"} /\ ~Wired(c) /\ next = "refused"
     \/ now = "open" /\ next = "uncertain"

(* A step that writes no frame settles commands as Delivery allows, or leaves *)
(* them as they are, or one caller's command is accepted.                     *)
LEMMA QuietStep ==
  ASSUME IInv, IInv', Next, NEW c \in Commands, ~Flush,
         ~(Submit(c) /\ command'[c].state = "queueing")
  PROVE  Settled(c)
<1>1. CallMoves /\ TypeOK /\ TypeOK' /\ Line /\ Holding /\ CallsMade
  BY HoldsCommands, NextCalls DEF IInv
<1>2. /\ command[c] \in Calls
      /\ command[c].state # "done" => command[c].answer = "none"
      /\ Wired(c) \in BOOLEAN
  BY <1>1 DEF TypeOK, CallsMade, Unanswered, Calls, Wired
<1>3. command'[c] \in Calls /\ (command'[c].state # "done" => command'[c].answer = "none")
  <2>1. /\ command'[c] \in Calls
        /\ command'[c].state = "new" => command'[c].answer = "none"
        /\ command'[c].state \in {"queueing", "waiting"} => command'[c].answer = "none"
    BY DEF IInv, TypeOK, CallsMade, Unanswered
  <2>2. QED BY <2>1 DEF Calls
<1>4. ASSUME command'[c] = command[c] PROVE Settled(c)
  BY <1>4 DEF Settled
<1>5. CASE Submit(c)
  <2>1. /\ command[c].state = "new" /\ command'[c].state = "done"
        /\ command'[c].answer \in {"closed", "stale", "unauth"}
    BY <1>1, <1>5, SubmitFacts
  <2>2. ~Wired(c)
    BY <1>1, <2>1, FramesAreSent DEF Wired, Line, TakenCalls, IInv
  <2>3. PhaseOf(command[c], Wired(c)) = "new" /\ PhaseOf(command'[c], Wired(c)) = "refused"
    BY <1>2, <1>3, <2>1, <2>2, PhaseCases
  <2>4. QED BY <2>2, <2>3 DEF Settled
<1>6. ASSUME Unanswered(c),
             \/ Unanswered(c)'
             \/ command'[c].state = "done" /\ command'[c].answer \in {"timeout", "transport"}
             \/ command'[c].state = "done" /\ command'[c].answer = "ok" /\ Wired(c)
             \/ command'[c].state = "done" /\ command'[c].answer = "closed"
             \/ command'[c].state = "done" /\ command'[c].answer \in {"unauth", "expired", "stale"}
                /\ ~Wired(c)
      PROVE  Settled(c)
  <2>1. PhaseOf(command[c], Wired(c)) = "open"
    BY <1>2, <1>6, PhaseCases DEF Unanswered
  <2> DEFINE next == PhaseOf(command'[c], Wired(c))
  <2>2. \/ next \in {"open", "uncertain"}
        \/ next = "ok" /\ Wired(c)
        \/ next = "refused" /\ ~Wired(c)
    BY <1>2, <1>3, <1>6, PhaseCases DEF Unanswered
  <2>3. QED BY <2>1, <2>2 DEF Settled
<1>7. CASE Enqueue(c) \/ Expire(c) \/ GiveUp(c)
  BY <1>1, <1>6, <1>7, CallerFacts DEF Unanswered
<1>8. ASSUME NEW d \in Commands, d # c, Caller(d) PROVE command'[c] = command[c]
  BY <1>1, <1>8, SubmitFacts, CallerFacts DEF Caller
<1>9. CASE Written /\ command'[c] # command[c]
  <2>1. /\ c = writing.command /\ command[c].state = "waiting" /\ command'[c].state = "done"
        /\ command'[c].answer = "ok"
    BY <1>1, <1>9, WrittenFacts
  <2>2. Wired(c)
    BY <1>9, <2>1 DEF Written, IInv, Hands, Wired
  <2>3. QED BY <1>6, <2>1, <2>2 DEF Unanswered
<1>10. ASSUME NEW set \in SUBSET Commands, NEW answer \in Answers, ManagerAnswers(set, answer),
              command'[c] # command[c]
       PROVE  Settled(c)
  <2>1. /\ c \in set /\ Unanswered(c) /\ command'[c].state = "done"
        /\ command'[c].answer = answer
    BY <1>1, <1>10, AnswerFacts DEF ManagerAnswers
  <2>2. \/ answer \in {"closed", "transport"}
        \/ answer \in {"unauth", "expired", "stale"} /\ c \in ToSet(channel) \cup ToSet(pending)
    BY <1>10, <2>1 DEF ManagerAnswers
  <2>3. c \in ToSet(channel) \cup ToSet(pending) => ~Wired(c)
    BY <1>1, QueuedIsNotSent, FramesAreSent DEF Wired
  <2>4. QED BY <1>6, <2>1, <2>2, <2>3
<1>11. QED BY <1>1, <1>4, <1>5, <1>7, <1>8, <1>9, <1>10 DEF CallMoves, Caller

(* The write of a frame delivers a command that its sender still waits for or *)
(* has given up on, and that was not delivered before.                        *)
LEMMA FlushStep ==
  ASSUME IInv, Flush
  PROVE  \E d \in Commands :
           /\ ~Wired(d) /\ PhaseOf(command[d], Wired(d)) \in {"open", "uncertain"}
           /\ PhaseOf(command[d], TRUE) = PhaseOf(command[d], Wired(d))
           /\ \A c \in Commands : Wired(c)' <=> Wired(c) \/ c = d
<1> DEFINE d == writing.command
<1>1. TypeOK /\ Line /\ Holding /\ CallsMade /\ manager = "writing" /\ d \in Held
  BY HoldsCommands DEF IInv, Flush, Held
<1>2. /\ d \in Commands /\ command[d] \in Calls /\ command[d].answer \in {"none", "timeout"}
      /\ command[d].state \in {"waiting", "done"}
  BY <1>1, TakenCallsStay DEF IInv, Hands, TypeOK, TakenCalls
<1>3. command[d].state # "done" => command[d].answer = "none"
  BY <1>1, <1>2 DEF CallsMade, Unanswered
<1>4. ~Wired(d)
  <2>1. ~Before(accepted, d, d)
    BY <1>1, NeverBeforeItself
  <2>2. d \notin Sent
    BY <1>1, <2>1 DEF Line, Ahead
  <2>3. QED BY <2>2, FramesAreSent DEF Wired
<1>5. \A sent \in BOOLEAN : PhaseOf(command[d], sent) \in {"open", "uncertain"}
  BY <1>2, <1>3, PhaseCases
<1>6. PhaseOf(command[d], TRUE) = PhaseOf(command[d], FALSE)
  <2>1. CASE command[d].state = "waiting"
    BY <1>2, <1>3, <2>1, PhaseCases
  <2>2. CASE command[d].state = "done"
    BY <1>2, <1>3, <2>2, PhaseCases
  <2>3. QED BY <1>2, <2>1, <2>2
<1>7. \A c \in Commands : Wired(c)' <=> Wired(c) \/ c = d
  <2>1. PICK m : m = Len(wire) + 1
    OBVIOUS
  <2>2. /\ \A i \in DOMAIN wire' : i = m \/ (i \in DOMAIN wire /\ wire'[i] = wire[i])
        /\ \A i \in DOMAIN wire : i \in DOMAIN wire' /\ wire'[i] = wire[i]
        /\ m \in DOMAIN wire' /\ wire'[m].command = d
    <3>1. /\ DOMAIN wire' = 1 .. m /\ DOMAIN wire = 1 .. m - 1 /\ m \in Nat \ {0}
          /\ wire'[m].command = d /\ \A i \in 1 .. m - 1 : wire'[i] = wire[i]
      BY <1>1, <2>1 DEF Flush, TypeOK
    <3>2. QED BY <3>1
  <2>3. QED BY <2>2 DEF Wired, FramesOf
<1>8. Wired(d) = FALSE
  BY <1>4 DEF Wired
<1>9. QED BY <1>2, <1>4, <1>5, <1>6, <1>7, <1>8

(* A sender on the socket may rely on what module Delivery promises: whatever *)
(* connections and accounts come and go, a command reaches the peer at most   *)
(* once, and every answer it gets is true of what the peer received.          *)
THEOREM SocketDelivers == Spec => Delivers
<1> DEFINE phases == [c \in Commands |->
      CASE command[c].state = "new" -> "new"
        [] command[c].state \in {"queueing", "waiting"} -> "open"
        [] command[c].answer = "ok" -> "ok"
        [] command[c].answer \in {"stale", "unauth", "expired"} -> "refused"
        [] command[c].answer = "closed" /\ FramesOf(c) = {} -> "refused"
        [] OTHER -> "uncertain"]
<1> DEFINE sent == [c \in Commands |-> FramesOf(c) # {}]
<1>1. Init => Delivered!Init
  <2> SUFFICES ASSUME Init PROVE Delivered!Init
    OBVIOUS
  <2>1. IInv
    BY InitialInvariant
  <2>2. \A c \in Commands : FramesOf(c) = {} /\ PhaseOf(command[c], Wired(c)) = "new"
    <3>1. ASSUME NEW c \in Commands PROVE FramesOf(c) = {}
      BY DEF Init, FramesOf
    <3>2. ASSUME NEW c \in Commands
          PROVE  command[c] \in Calls /\ command[c].state = "new" /\ command[c].answer = "none"
      BY <2>1 DEF Init, IInv, TypeOK
    <3>3. QED BY <3>1, <3>2, PhaseCases DEF Wired
  <2>3. \A c \in Commands : phases[c] = PhaseOf(command[c], Wired(c))
    BY DEF PhaseOf, Wired
  <2>4. phases = [c \in Commands |-> "new"] /\ sent = [c \in Commands |-> FALSE]
    BY <2>2, <2>3
  <2>5. QED BY <2>4 DEF Delivered!Init
<1>2. ASSUME NEW c \in Commands
      PROVE  /\ phases[c] = PhaseOf(command[c], Wired(c)) /\ sent[c] = Wired(c)
             /\ phases'[c] = PhaseOf(command'[c], Wired(c)') /\ sent'[c] = Wired(c)'
  BY DEF PhaseOf, Wired
<1>3. /\ phases = [c \in Commands |-> phases[c]] /\ phases' = [c \in Commands |-> phases'[c]]
      /\ sent = [c \in Commands |-> sent[c]] /\ sent' = [c \in Commands |-> sent'[c]]
  OBVIOUS
<1>4. Delivered!Next <=> Delivered!Settle \/ \E c \in Commands : Delivered!Accept(c) \/ Delivered!Deliver(c)
  BY DEF Delivered!Next
<1>5. Delivered!Settle <=>
        /\ \E settled \in SUBSET Commands :
             /\ settled # {}
             /\ \A c \in Commands \ settled : phases'[c] = phases[c]
             /\ \A c \in settled :
                  \/ phases[c] = "open" /\ sent[c] /\ phases'[c] = "ok"
                  \/ phases[c] \in {"new", "open"} /\ ~sent[c] /\ phases'[c] = "refused"
                  \/ phases[c] = "open" /\ phases'[c] = "uncertain"
        /\ phases' \in [Commands -> Delivered!Phases]
        /\ UNCHANGED sent
  BY DEF Delivered!Settle
<1>6. ASSUME NEW c \in Commands
      PROVE  /\ Delivered!Accept(c) <=>
                  /\ phases[c] = "new"
                  /\ phases' = [phases EXCEPT ![c] = "open"]
                  /\ UNCHANGED sent
             /\ Delivered!Deliver(c) <=>
                  /\ phases[c] \in {"open", "uncertain"} /\ ~sent[c]
                  /\ sent' = [sent EXCEPT ![c] = TRUE]
                  /\ UNCHANGED phases
  BY DEF Delivered!Accept, Delivered!Deliver
<1>7. Delivered!vars = <<phases, sent>> /\ (Delivered!vars)' = <<phases', sent'>>
  BY DEF Delivered!vars
<1> HIDE DEF phases, sent
<1>8. IInv /\ IInv' /\ [Next]_vars => [Delivered!Next]_(Delivered!vars)
  <2> SUFFICES ASSUME IInv, IInv', [Next]_vars PROVE [Delivered!Next]_(Delivered!vars)
    OBVIOUS
  <2>1. CASE UNCHANGED vars
    <3>1. ASSUME NEW c \in Commands PROVE phases'[c] = phases[c] /\ sent'[c] = sent[c]
      <4>1. command' = command /\ wire' = wire
        BY <2>1 DEF vars, histories
      <4>2. Wired(c)' = Wired(c)
        BY <4>1 DEF Wired, FramesOf
      <4>3. QED BY <1>2, <4>1, <4>2
    <3>2. phases' = phases /\ sent' = sent
      BY <1>3, <3>1
    <3>3. QED BY <1>7, <3>2
  <2>2. CASE Flush
    <3>1. PICK d \in Commands :
            /\ ~Wired(d) /\ PhaseOf(command[d], Wired(d)) \in {"open", "uncertain"}
            /\ PhaseOf(command[d], TRUE) = PhaseOf(command[d], Wired(d))
            /\ \A c \in Commands : Wired(c)' <=> Wired(c) \/ c = d
      BY <2>2, FlushStep
    <3>2. command' = command
      BY <2>2 DEF Flush
    <3>3. Wired(d)' = TRUE /\ \A c \in Commands \ {d} : Wired(c)' = Wired(c)
      BY <3>1 DEF Wired
    <3>4. \A c \in Commands : phases'[c] = phases[c]
      BY <1>2, <3>1, <3>2, <3>3
    <3>5. phases' = phases
      BY <1>3, <3>4
    <3>6. sent'[d] = TRUE /\ \A c \in Commands \ {d} : sent'[c] = sent[c]
      BY <1>2, <3>3
    <3>7. sent' = [sent EXCEPT ![d] = TRUE]
      BY <1>3, <3>6
    <3>8. phases[d] \in {"open", "uncertain"} /\ ~sent[d]
      BY <1>2, <3>1
    <3>9. Delivered!Deliver(d)
      BY <1>6, <3>5, <3>7, <3>8
    <3>10. QED BY <1>4, <3>9
  <2>3. CASE \E d \in Commands : Submit(d) /\ command'[d].state = "queueing"
    <3>1. PICK d \in Commands : Submit(d) /\ command'[d].state = "queueing"
      BY <2>3
    <3>2. /\ command[d].state = "new" /\ \A c \in Commands \ {d} : command'[c] = command[c]
      BY <3>1, SubmitFacts DEF IInv
    <3>3. wire' = wire
      BY <3>1 DEF Submit, CallerSide
    <3>4. \A c \in Commands : Wired(c)' = Wired(c) /\ Wired(c) \in BOOLEAN
      BY <3>3 DEF Wired, FramesOf
    <3>5. phases[d] = "new" /\ phases'[d] = "open"
      <4>1. /\ command[d] \in Calls /\ command[d].answer = "none"
            /\ command'[d] \in Calls /\ command'[d].answer = "none"
        BY <3>1, <3>2 DEF IInv, TypeOK, CallsMade, Unanswered
      <4>2. PhaseOf(command[d], Wired(d)) = "new" /\ PhaseOf(command'[d], Wired(d)) = "open"
        BY <3>1, <3>2, <3>4, <4>1, PhaseCases
      <4>3. QED BY <1>2, <3>4, <4>2
    <3>6. \A c \in Commands \ {d} : phases'[c] = phases[c]
      BY <1>2, <3>2, <3>4
    <3>7. \A c \in Commands : sent'[c] = sent[c]
      BY <1>2, <3>4
    <3>8. phases' = [phases EXCEPT ![d] = "open"] /\ sent' = sent
      BY <1>3, <3>5, <3>6, <3>7
    <3>9. Delivered!Accept(d)
      BY <1>6, <3>5, <3>8
    <3>10. QED BY <1>4, <3>9
  <2>4. CASE Next /\ ~Flush /\ ~\E d \in Commands : Submit(d) /\ command'[d].state = "queueing"
    <3>1. wire' = wire
      BY <2>4, HoldsCommands, NextLine DEF IInv
    <3>2. \A c \in Commands : Wired(c)' = Wired(c) /\ Wired(c) \in BOOLEAN
      BY <3>1 DEF Wired, FramesOf
    <3>3. sent' = sent
      BY <1>2, <1>3, <3>2
    <3>4. ASSUME NEW c \in Commands
          PROVE  \/ phases'[c] = phases[c]
                 \/ phases[c] = "open" /\ sent[c] /\ phases'[c] = "ok"
                 \/ phases[c] \in {"new", "open"} /\ ~sent[c] /\ phases'[c] = "refused"
                 \/ phases[c] = "open" /\ phases'[c] = "uncertain"
      <4>1. Settled(c)
        BY <2>4, QuietStep
      <4>2. QED BY <1>2, <3>2, <4>1 DEF Settled
    <3>5. phases' \in [Commands -> Delivered!Phases]
      <4>1. ASSUME NEW c \in Commands PROVE phases'[c] \in Delivered!Phases
        <5>1. /\ command'[c] \in Calls /\ Wired(c)' \in BOOLEAN
              /\ command'[c].state # "done" => command'[c].answer = "none"
          <6>1. command'[c] \in Calls
            BY DEF IInv, TypeOK
          <6>2. command'[c].state # "done" => command'[c].answer = "none"
            BY <6>1 DEF IInv, CallsMade, Unanswered, Calls
          <6>3. QED BY <3>2, <6>1, <6>2
        <5>2. QED BY <1>2, <5>1, PhaseCases DEF Delivered!Phases
      <4>2. QED BY <1>3, <4>1
    <3> DEFINE settled == {c \in Commands : phases'[c] # phases[c]}
    <3>6. CASE settled = {}
      <4>1. phases' = phases
        BY <1>3, <3>6
      <4>2. QED BY <1>7, <3>3, <4>1
    <3>7. CASE settled # {}
      <4>1. /\ settled \in SUBSET Commands
            /\ \A c \in Commands \ settled : phases'[c] = phases[c]
            /\ \A c \in settled :
                 \/ phases[c] = "open" /\ sent[c] /\ phases'[c] = "ok"
                 \/ phases[c] \in {"new", "open"} /\ ~sent[c] /\ phases'[c] = "refused"
                 \/ phases[c] = "open" /\ phases'[c] = "uncertain"
        BY <3>4
      <4> HIDE DEF settled
      <4>2. Delivered!Settle
        BY <1>5, <3>3, <3>5, <3>7, <4>1
      <4>3. QED BY <1>4, <4>2
    <3>8. QED BY <3>6, <3>7
  <2>5. QED BY <2>1, <2>2, <2>3, <2>4
<1>9. QED BY <1>1, <1>8, InvariantHolds, PTL DEF Spec, Delivers, Delivered!Spec

(* What send_receipt_in_session answers is true and stays true: a refused     *)
(* command never reaches the peer later, a confirmed one has reached it.      *)
THEOREM AnswersStayTrue == Spec => []Delivered!AnswersAreTrue
<1> DEFINE phases == [c \in Commands |->
      CASE command[c].state = "new" -> "new"
        [] command[c].state \in {"queueing", "waiting"} -> "open"
        [] command[c].answer = "ok" -> "ok"
        [] command[c].answer \in {"stale", "unauth", "expired"} -> "refused"
        [] command[c].answer = "closed" /\ FramesOf(c) = {} -> "refused"
        [] OTHER -> "uncertain"]
<1> DEFINE sent == [c \in Commands |-> FramesOf(c) # {}]
<1> DEFINE True == Delivered!AnswersAreTrue
<1>1. True <=> \A c \in Commands : /\ phases[c] = "refused" => ~sent[c]
                                   /\ phases[c] = "ok" => sent[c]
  BY DEF Delivered!AnswersAreTrue
<1>2. True' <=> \A c \in Commands : /\ phases'[c] = "refused" => ~sent'[c]
                                    /\ phases'[c] = "ok" => sent'[c]
  BY DEF Delivered!AnswersAreTrue
<1>3. Delivered!Init => phases = [c \in Commands |-> "new"]
  BY DEF Delivered!Init
<1>4. Delivered!Next <=> Delivered!Settle \/ \E c \in Commands : Delivered!Accept(c) \/ Delivered!Deliver(c)
  BY DEF Delivered!Next
<1>5. Delivered!Settle =>
        /\ \E settled \in SUBSET Commands :
             /\ \A c \in Commands \ settled : phases'[c] = phases[c]
             /\ \A c \in settled :
                  \/ phases[c] = "open" /\ sent[c] /\ phases'[c] = "ok"
                  \/ phases[c] \in {"new", "open"} /\ ~sent[c] /\ phases'[c] = "refused"
                  \/ phases[c] = "open" /\ phases'[c] = "uncertain"
        /\ sent' = sent
  BY DEF Delivered!Settle
<1>6. ASSUME NEW c \in Commands
      PROVE  /\ Delivered!Accept(c) =>
                  phases' = [phases EXCEPT ![c] = "open"] /\ sent' = sent
             /\ Delivered!Deliver(c) =>
                  /\ phases[c] \in {"open", "uncertain"} /\ ~sent[c]
                  /\ sent' = [sent EXCEPT ![c] = TRUE] /\ phases' = phases
  BY DEF Delivered!Accept, Delivered!Deliver
<1>7. UNCHANGED Delivered!vars => phases' = phases /\ sent' = sent
  BY DEF Delivered!vars
<1>8. DOMAIN phases = Commands /\ DOMAIN sent = Commands
  OBVIOUS
<1> HIDE DEF phases, sent, True
<1>9. Delivered!Init => True
  BY <1>1, <1>3
<1>10. True /\ [Delivered!Next]_(Delivered!vars) => True'
  <2> SUFFICES ASSUME True, [Delivered!Next]_(Delivered!vars), NEW c \in Commands
               PROVE  /\ phases'[c] = "refused" => ~sent'[c]
                      /\ phases'[c] = "ok" => sent'[c]
    BY <1>2
  <2>1. (phases[c] = "refused" => ~sent[c]) /\ (phases[c] = "ok" => sent[c])
    BY <1>1
  <2>2. CASE UNCHANGED Delivered!vars
    BY <1>7, <2>1, <2>2
  <2>3. CASE Delivered!Settle
    <3>1. /\ sent' = sent
          /\ \/ phases'[c] = phases[c]
             \/ phases[c] = "open" /\ sent[c] /\ phases'[c] = "ok"
             \/ phases[c] \in {"new", "open"} /\ ~sent[c] /\ phases'[c] = "refused"
             \/ phases[c] = "open" /\ phases'[c] = "uncertain"
      BY <1>5, <2>3
    <3>2. QED BY <2>1, <3>1
  <2>4. ASSUME NEW d \in Commands, Delivered!Accept(d)
        PROVE  /\ phases'[c] = "refused" => ~sent'[c]
               /\ phases'[c] = "ok" => sent'[c]
    BY <1>6, <1>8, <2>1, <2>4
  <2>5. ASSUME NEW d \in Commands, Delivered!Deliver(d)
        PROVE  /\ phases'[c] = "refused" => ~sent'[c]
               /\ phases'[c] = "ok" => sent'[c]
    BY <1>6, <1>8, <2>1, <2>5
  <2>6. QED BY <1>4, <2>2, <2>3, <2>4, <2>5
<1>11. Delivered!Spec => []True
  BY <1>9, <1>10, PTL DEF Delivered!Spec
<1>12. QED BY <1>11, SocketDelivers, PTL DEF Delivers, True

--------------------------------------------------------------------------------
(***************************************************************************)
(* The wait of a tool call, for any results, queue time and budgets.  When *)
(* it sleeps it has seen the project as it is, or an event is on its way   *)
(* (Seen), and its window is as far as its history says (Counted).         *)
(*                                                                         *)
(* The types, and the soonest deadline.                                    *)
(***************************************************************************)
WaitAttempts == [status : {"unknown", "pending", "processing", "finished"},
                 armed : Nat \cup {Tool!Never}]
WaitRecords == [pc : {"creating", "watch", "look", "select", "overran", "starved", "ended"},
                watched : SUBSET Commands, deadline : (0 .. QueueTime) \cup {Tool!Never},
                processing : BOOLEAN, runtime : Nat \cup {Tool!Never}, timed : BOOLEAN]

(* The types of the state *)
ToolTypes ==
  /\ parent \in {"pending", "processing", "queued"} \cup Tool!Ended
  /\ jobs \in [Commands -> WaitAttempts]
  /\ hearing \subseteq Commands \cup {"project"} /\ streams \subseteq Commands \cup {"project"}
  /\ wait \in WaitRecords /\ (wait.pc # "creating" => wait.deadline # Tool!Never)
  /\ idle \in [any : 0 .. QueueTime, tick : 0 .. QueueTime]

LEMMA DeadlinesAreTicks ==
  ASSUME ToolTypes
  PROVE  Tool!Deadlines \subseteq Nat
BY DEF ToolTypes, WaitAttempts, Tool!Deadlines

LEMMA SoonestFacts ==
  ASSUME ToolTypes, Tool!Deadlines # {}
  PROVE  Tool!Soonest \in Tool!Deadlines /\ \A d \in Tool!Deadlines : Tool!Soonest <= d
<1>1. PICK d \in Tool!Deadlines : \A e \in Tool!Deadlines : ~ (e < d)
  BY DeadlinesAreTicks, LeastNatural
<1>2. \A e \in Tool!Deadlines : d <= e
  BY <1>1, DeadlinesAreTicks
<1>3. QED BY <1>2 DEF Tool!Soonest

LEMMA DeadlineType ==
  ASSUME ToolTypes
  PROVE  Tool!ProcessingDeadline \in Nat \cup {Tool!Never}
BY DeadlinesAreTicks, SoonestFacts DEF Tool!ProcessingDeadline

LEMMA LeftFacts ==
  ASSUME NEW t \in Nat \cup {Tool!Never}
  PROVE  /\ Tool!Left(t) \in Nat \cup {Tool!Never}
         /\ Tool!Left(t) = Tool!Never <=> t = Tool!Never
         /\ \A u \in Nat \cup {Tool!Never} :
              t # Tool!Never /\ t <= u => Tool!Left(t) <= Tool!Left(u)
BY DEF Tool!Left, Tool!Never

(* A tick brings the soonest deadline closer by one *)
LEMMA TickedDeadline ==
  ASSUME ToolTypes, ToolTypes', Tool!Tick
  PROVE  Tool!ProcessingDeadline' = Tool!Left(Tool!ProcessingDeadline)
<1>1. /\ parent' = parent
      /\ \A j \in Commands : /\ jobs'[j].status = jobs[j].status
                           /\ jobs'[j].armed = Tool!Left(jobs[j].armed)
  BY DEF Tool!Tick, ToolTypes, WaitAttempts
<1>2. \A j \in Commands : jobs[j].armed \in Nat \cup {Tool!Never}
  BY DEF ToolTypes, WaitAttempts
<1>3. Tool!Deadlines' = {Tool!Left(d) : d \in Tool!Deadlines}
  <2>1. ASSUME NEW d \in Tool!Deadlines'
        PROVE  d \in {Tool!Left(e) : e \in Tool!Deadlines}
    <3>1. PICK j \in Commands :
            jobs'[j].status = "processing" /\ d = jobs'[j].armed /\ d # Tool!Never
      BY <2>1 DEF Tool!Deadlines
    <3>2. jobs[j].armed \in Tool!Deadlines
      BY <1>1, <1>2, <3>1, LeftFacts DEF Tool!Deadlines
    <3>3. QED BY <1>1, <3>1, <3>2
  <2>2. ASSUME NEW d \in Tool!Deadlines
        PROVE  Tool!Left(d) \in Tool!Deadlines'
    <3>1. PICK j \in Commands :
            jobs[j].status = "processing" /\ d = jobs[j].armed /\ d # Tool!Never
      BY <2>2 DEF Tool!Deadlines
    <3>2. /\ jobs'[j].status = "processing" /\ jobs'[j].armed = Tool!Left(d)
          /\ Tool!Left(d) # Tool!Never
      BY <1>1, <1>2, <3>1, LeftFacts
    <3>3. QED BY <3>2 DEF Tool!Deadlines
  <2>3. QED BY <2>1, <2>2
<1>4. CASE Tool!Deadlines = {}
  BY <1>1, <1>3, <1>4 DEF Tool!ProcessingDeadline, Tool!Left
<1>5. CASE Tool!Deadlines # {}
  <2>1. /\ Tool!Soonest \in Nat /\ Tool!Soonest \in Tool!Deadlines
        /\ \A d \in Tool!Deadlines : d \in Nat /\ Tool!Soonest <= d
    BY <1>5, SoonestFacts, DeadlinesAreTicks
  <2>2. /\ Tool!Left(Tool!Soonest) \in Tool!Deadlines'
        /\ \A d \in Tool!Deadlines' : Tool!Left(Tool!Soonest) <= d
    <3>1. \A d \in Tool!Deadlines : Tool!Left(Tool!Soonest) <= Tool!Left(d)
      BY <2>1 DEF Tool!Left, Tool!Never
    <3>2. Tool!Left(Tool!Soonest) \in Tool!Deadlines'
      BY <1>3, <2>1
    <3>3. QED BY <1>3, <3>1, <3>2
  <2>3. Tool!Soonest' \in Tool!Deadlines' /\ \A d \in Tool!Deadlines' : Tool!Soonest' <= d
    <3>1. \E d \in Tool!Deadlines' : \A e \in Tool!Deadlines' : d <= e
      BY <2>2
    <3>2. QED BY <3>1 DEF Tool!Soonest
  <2>4. Tool!Soonest' = Tool!Left(Tool!Soonest)
    <3>1. Tool!Soonest' <= Tool!Left(Tool!Soonest) /\ Tool!Left(Tool!Soonest) <= Tool!Soonest'
      BY <2>2, <2>3
    <3>2. Tool!Left(Tool!Soonest) \in Int /\ Tool!Soonest' \in Int
      <4>1. \A d \in Tool!Deadlines : Tool!Left(d) \in Int
        BY <2>1 DEF Tool!Left
      <4>2. QED BY <1>3, <2>1, <2>3, <4>1
    <3>3. QED BY <3>1, <3>2
  <2>5. Tool!Deadlines' # {}
    BY <2>2
  <2>6. QED BY <1>1, <1>5, <2>4, <2>5 DEF Tool!ProcessingDeadline, Tool!Left
<1>6. QED BY <1>4, <1>5

--------------------------------------------------------------------------------
(***************************************************************************)
(* Types.                                                                  *)
(***************************************************************************)
LEMMA WaitFields ==
  ASSUME ToolTypes
  PROVE  /\ idle.any \in 0 .. QueueTime /\ idle.tick \in 0 .. QueueTime
         /\ idle = [any |-> idle.any, tick |-> idle.tick]
         /\ wait.deadline \in (0 .. QueueTime) \cup {Tool!Never}
         /\ wait.runtime \in Nat \cup {Tool!Never}
         /\ wait.pc # "creating" => wait.deadline \in 0 .. QueueTime
BY DEF ToolTypes, WaitRecords

LEMMA IdleType ==
  ASSUME NEW any \in 0 .. QueueTime, NEW tick \in 0 .. QueueTime,
         idle' = [any |-> any, tick |-> tick]
  PROVE  /\ idle' \in [any : 0 .. QueueTime, tick : 0 .. QueueTime]
         /\ idle'.any = any /\ idle'.tick = tick
OBVIOUS

(* What a step of the listener does to the wait *)
LEMMA ListeningFacts ==
  ASSUME Tool!ConstantsAreSound, ToolTypes, Tool!Listening
  PROVE  /\ UNCHANGED wait /\ wait.pc # "ended"
         /\ idle' \in [any : 0 .. QueueTime, tick : 0 .. QueueTime]
         /\ idle'.tick = idle.tick /\ idle'.any \in {0, idle.any}
         /\ Tool!ProcessingDeadline # Tool!Never => idle'.any = 0
<1>1. UNCHANGED wait /\ wait.pc # "ended"
  BY DEF Tool!Listening
<1>2. PICK any \in {0, idle.any} : /\ idle' = [any |-> any, tick |-> idle.tick]
                                   /\ Tool!ProcessingDeadline # Tool!Never => any = 0
  <2>1. CASE Tool!ProcessingDeadline = Tool!Never
    BY <2>1, WaitFields DEF Tool!Listening
  <2>2. CASE Tool!ProcessingDeadline # Tool!Never
    <3>1. idle' = [idle EXCEPT !.any = 0]
      BY <2>2 DEF Tool!Listening
    <3>2. idle' = [any |-> 0, tick |-> idle.tick]
      BY <3>1 DEF ToolTypes
    <3>3. QED BY <3>2
  <2>3. QED BY <2>1, <2>2
<1>3. any \in 0 .. QueueTime /\ idle.tick \in 0 .. QueueTime
  BY WaitFields DEF Tool!ConstantsAreSound
<1>4. QED BY <1>1, <1>2, <1>3, IdleType

(* Each event is one of the project, or is followed by one *)
LEMMA ListenFacts ==
  ASSUME Tool!ConstantsAreSound, ToolTypes, Tool!Listen
  PROVE  /\ ToolTypes' /\ Tool!Listening
         /\ "project" \in streams' \/ hearing' = {"project"}
<1>1. Tool!Listening
  BY DEF Tool!Listen, Tool!UpdateProject, Tool!Requeue, Tool!Conclude, Tool!Announce, Tool!UpdateJob,
         Tool!Retry, Tool!FinishJob
<1>2. /\ UNCHANGED wait /\ idle' \in [any : 0 .. QueueTime, tick : 0 .. QueueTime]
  BY <1>1, ListeningFacts
<1>3. \A stream \in Commands \cup {"project"} :
        Tool!EventOf(stream) => streams' \subseteq Commands \cup {"project"}
  BY DEF Tool!EventOf, ToolTypes
<1>4. Tool!EventOf("project") => "project" \in streams'
  BY DEF Tool!EventOf
<1>5. Tool!Never \in Nat \cup {Tool!Never} /\ Budgets \subseteq Nat
  BY DEF Tool!ConstantsAreSound
<1>6. \A j \in Commands : /\ jobs[j] \in WaitAttempts /\ jobs[j].armed \in Nat \cup {Tool!Never}
                      /\ jobs[j].status \in {"unknown", "pending", "processing", "finished"}
  BY DEF ToolTypes, WaitAttempts
<1>7. ASSUME parent' \in {"pending", "processing", "queued"} \cup Tool!Ended,
             jobs' \in [Commands -> WaitAttempts], hearing' \subseteq Commands \cup {"project"},
             streams' \subseteq Commands \cup {"project"}
      PROVE  ToolTypes'
  BY <1>2, <1>7 DEF ToolTypes
<1>8. CASE Tool!UpdateProject
  <2>1. parent' \in {parent, "processing"} /\ jobs' = jobs /\ hearing' = {}
        /\ Tool!EventOf("project")
    BY <1>8 DEF Tool!UpdateProject
  <2>2. QED BY <1>1, <1>3, <1>4, <1>7, <2>1 DEF ToolTypes
<1>9. CASE Tool!Requeue
  <2>1. parent' \in {parent, "queued"} /\ hearing' = hearing /\ Tool!EventOf("project")
        /\ jobs' = [j \in Commands |-> [jobs[j] EXCEPT !.armed = Tool!Never]]
    BY <1>9 DEF Tool!Requeue
  <2>2. jobs' \in [Commands -> WaitAttempts]
    BY <1>6, <2>1 DEF WaitAttempts
  <2>3. QED BY <1>1, <1>3, <1>4, <1>7, <2>1, <2>2 DEF ToolTypes
<1>10. CASE Tool!Conclude
  <2>1. parent' \in Tool!Ended /\ jobs' = jobs /\ hearing' = hearing /\ Tool!EventOf("project")
    BY <1>10 DEF Tool!Conclude
  <2>2. QED BY <1>1, <1>3, <1>4, <1>7, <2>1 DEF ToolTypes
<1>11. ASSUME NEW j \in Commands, Tool!Announce(j)
       PROVE  ToolTypes' /\ "project" \in streams'
  <2>1. parent' = parent /\ hearing' = {j} /\ Tool!EventOf("project")
        /\ jobs' = [jobs EXCEPT ![j].status = "pending"]
    BY <1>11 DEF Tool!Announce
  <2>2. jobs' \in [Commands -> WaitAttempts]
    BY <1>6, <2>1 DEF WaitAttempts, ToolTypes
  <2>3. QED BY <1>3, <1>4, <1>7, <2>1, <2>2 DEF ToolTypes
<1>12. ASSUME NEW j \in Commands, Tool!UpdateJob(j)
       PROVE  ToolTypes' /\ hearing' = {"project"}
  <2>1. parent' = parent /\ hearing' = {"project"} /\ Tool!EventOf(j)
    BY <1>12 DEF Tool!UpdateJob
  <2>2. PICK phase \in {"pending", "processing"}, budget \in Budgets :
          jobs' = [jobs EXCEPT ![j] = [status |-> phase,
                     armed |-> IF phase = "processing" /\ @.armed = Tool!Never THEN budget
                               ELSE @.armed]]
    BY <1>12 DEF Tool!UpdateJob
  <2>3. PICK new : new = [status |-> phase,
                     armed |-> IF phase = "processing" /\ jobs[j].armed = Tool!Never THEN budget
                               ELSE jobs[j].armed]
    OBVIOUS
  <2>4. new \in WaitAttempts
    BY <1>5, <1>6, <2>3 DEF WaitAttempts
  <2>5. jobs' = [jobs EXCEPT ![j] = new]
    BY <2>2, <2>3
  <2>6. jobs' \in [Commands -> WaitAttempts]
    BY <2>4, <2>5 DEF ToolTypes
  <2>7. QED BY <1>3, <1>7, <2>1, <2>6 DEF ToolTypes
<1>13. ASSUME NEW j \in Commands, Tool!Retry(j) \/ Tool!FinishJob(j)
       PROVE  ToolTypes' /\ "project" \in streams'
  <2>1. PICK status \in {"pending", "finished"} :
          jobs' = [jobs EXCEPT ![j] = [status |-> status, armed |-> Tool!Never]]
    BY <1>13 DEF Tool!Retry, Tool!FinishJob
  <2>2. parent' = parent /\ hearing' = hearing /\ Tool!EventOf("project")
    BY <1>13 DEF Tool!Retry, Tool!FinishJob
  <2>3. [status |-> status, armed |-> Tool!Never] \in WaitAttempts
    BY <1>5 DEF WaitAttempts
  <2>4. jobs' \in [Commands -> WaitAttempts]
    BY <2>1, <2>3 DEF ToolTypes
  <2>5. QED BY <1>3, <1>4, <1>7, <2>2, <2>4 DEF ToolTypes
<1>14. QED BY <1>1, <1>8, <1>9, <1>10, <1>11, <1>12, <1>13 DEF Tool!Listen

(* The steps of the wait that take no time *)
LEMMA WaitType ==
  ASSUME ToolTypes, wait' \in WaitRecords, wait'.deadline # Tool!Never,
         UNCHANGED <<parent, jobs, hearing>>,
         streams' \subseteq streams, idle' \in [any : 0 .. QueueTime, tick : 0 .. QueueTime]
  PROVE  ToolTypes'
BY DEF ToolTypes

LEMMA StartFacts ==
  ASSUME Tool!ConstantsAreSound, ToolTypes, Tool!Start
  PROVE  /\ ToolTypes' /\ wait'.pc = "watch" /\ wait'.deadline = QueueTime
         /\ idle'.any = 0 /\ idle'.tick = 0
<1>1. /\ wait' = [wait EXCEPT !.pc = "watch", !.deadline = QueueTime]
      /\ idle' = [any |-> 0, tick |-> 0] /\ streams' = {} /\ UNCHANGED <<parent, jobs, hearing>>
  BY DEF Tool!Start, Tool!Rest
<1>2. QueueTime \in 0 .. QueueTime /\ 0 \in 0 .. QueueTime /\ QueueTime # Tool!Never
  BY DEF Tool!ConstantsAreSound, Tool!Never
<1>3. wait' \in WaitRecords /\ wait'.pc = "watch" /\ wait'.deadline = QueueTime
  BY <1>1, <1>2 DEF ToolTypes, WaitRecords
<1>4. idle' \in [any : 0 .. QueueTime, tick : 0 .. QueueTime] /\ idle'.any = 0 /\ idle'.tick = 0
  BY <1>1, <1>2
<1>5. QED BY <1>1, <1>2, <1>3, <1>4, WaitType

LEMMA LookFacts ==
  ASSUME Tool!ConstantsAreSound, ToolTypes, Tool!Look
  PROVE  /\ ToolTypes' /\ UNCHANGED <<parent, jobs, hearing, streams, idle>>
         /\ wait.pc = "look" /\ wait'.pc = "select"
         /\ wait'.processing <=> Tool!ProcessingDeadline # Tool!Never
         /\ wait'.runtime = Tool!ProcessingDeadline
         /\ (wait'.timed <=> parent \notin Tool!Ended)
         /\ wait'.deadline = IF Tool!ProcessingDeadline = Tool!Never /\ wait.processing
                               THEN QueueTime ELSE wait.deadline
<1> DEFINE processing == Tool!ProcessingDeadline # Tool!Never
           timed == parent \notin Tool!Ended
           deadline == IF ~processing /\ wait.processing THEN QueueTime ELSE wait.deadline
<1>1. wait' = [wait EXCEPT !.processing = processing, !.deadline = deadline, !.pc = "select",
                           !.runtime = Tool!ProcessingDeadline, !.timed = timed]
  BY DEF Tool!Look, Tool!Observed
<1>2. wait.pc = "look" /\ UNCHANGED <<parent, jobs, hearing, streams, idle>>
  BY DEF Tool!Look, Tool!Rest
<1>3. /\ deadline \in 0 .. QueueTime /\ deadline # Tool!Never
      /\ Tool!ProcessingDeadline \in Nat \cup {Tool!Never}
  BY <1>2, WaitFields, DeadlineType DEF Tool!ConstantsAreSound, Tool!Never
<1>4. processing \in BOOLEAN /\ timed \in BOOLEAN
  OBVIOUS
<1>5. deadline = IF Tool!ProcessingDeadline = Tool!Never /\ wait.processing THEN QueueTime
                 ELSE wait.deadline
  OBVIOUS
<1>6. /\ processing <=> Tool!ProcessingDeadline # Tool!Never
      /\ (timed <=> parent \notin Tool!Ended)
  OBVIOUS
<1> HIDE DEF processing, timed, deadline
<1>7. /\ wait' \in WaitRecords /\ wait'.pc = "select" /\ wait'.runtime = Tool!ProcessingDeadline
      /\ wait'.deadline = deadline /\ wait'.processing = processing /\ wait'.timed = timed
  BY <1>1, <1>3, <1>4 DEF ToolTypes, WaitRecords
<1>8. ToolTypes'
  BY <1>2, <1>3, <1>7 DEF ToolTypes
<1>9. QED BY <1>2, <1>5, <1>6, <1>7, <1>8

LEMMA CallFacts ==
  ASSUME ToolTypes, Tool!Watch \/ Tool!Return \/ Tool!Timer \/ Tool!Event
  PROVE  /\ ToolTypes' /\ UNCHANGED <<parent, jobs, hearing, idle>>
         /\ wait.pc \in {"watch", "select"} /\ wait'.deadline = wait.deadline
         /\ wait'.processing = wait.processing
         /\ wait'.pc \in {"watch", "look", "ended", "overran", "starved"}
<1>1. /\ UNCHANGED <<parent, jobs, hearing, idle>> /\ streams' \subseteq streams
      /\ wait.pc \in {"watch", "select"}
  BY DEF Tool!Watch, Tool!Return, Tool!Timer, Tool!Event, Tool!Ending, Tool!Rest
<1>2. PICK pc \in {"watch", "look", "ended", "overran", "starved"}, watched \in SUBSET Commands :
        wait' = [wait EXCEPT !.pc = pc, !.watched = watched]
  <2>1. wait.watched \in SUBSET Commands /\ Tool!Known \in SUBSET Commands
    BY DEF ToolTypes, WaitRecords, Tool!Known
  <2>2. \A pc : [wait EXCEPT !.pc = pc] = [wait EXCEPT !.pc = pc, !.watched = wait.watched]
    BY DEF ToolTypes, WaitRecords
  <2>3. CASE Tool!Watch
    BY <2>1, <2>3 DEF Tool!Watch
  <2>4. CASE Tool!Return \/ Tool!Timer \/ Tool!Event
    <3>1. \E pc \in {"watch", "ended", "overran", "starved"} : wait' = [wait EXCEPT !.pc = pc]
      BY <2>4 DEF Tool!Return, Tool!Timer, Tool!Event, Tool!Ending
    <3>2. QED BY <2>1, <2>2, <3>1
  <2>5. QED BY <2>3, <2>4
<1>3. /\ wait' \in WaitRecords /\ wait'.pc = pc /\ wait'.deadline = wait.deadline
      /\ wait'.processing = wait.processing
  BY <1>2 DEF ToolTypes, WaitRecords
<1>4. wait'.deadline # Tool!Never
  BY <1>1, <1>3 DEF ToolTypes
<1>5. ToolTypes'
  BY <1>1, <1>3, <1>4, WaitType DEF ToolTypes
<1>6. QED BY <1>1, <1>3, <1>5

LEMMA CancelFacts ==
  ASSUME ToolTypes, Tool!Cancel
  PROVE  /\ ToolTypes' /\ wait'.pc = "ended" /\ wait.pc \in {"overran", "starved"}
<1>1. /\ wait.pc \in {"overran", "starved"} /\ wait' = [wait EXCEPT !.pc = "ended"]
      /\ UNCHANGED <<hearing, streams, idle>>
  BY DEF Tool!Cancel
<1>2. wait' \in WaitRecords /\ wait'.pc = "ended" /\ wait'.deadline = wait.deadline
  BY <1>1 DEF ToolTypes, WaitRecords
<1>3. /\ parent' \in {"pending", "processing", "queued"} \cup Tool!Ended
      /\ jobs' \in [Commands -> WaitAttempts]
  <2>1. CASE UNCHANGED <<parent, jobs>>
    BY <2>1 DEF ToolTypes
  <2>2. CASE /\ parent' = "failed"
             /\ jobs' = [j \in Commands |-> IF j \in Tool!Known
                            THEN [status |-> "finished", armed |-> Tool!Never] ELSE jobs[j]]
    BY <2>2 DEF ToolTypes, WaitAttempts, Tool!Ended
  <2>3. QED BY <2>1, <2>2 DEF Tool!Cancel
<1>4. QED BY <1>1, <1>2, <1>3 DEF ToolTypes

LEMMA LongerFacts ==
  ASSUME Tool!ConstantsAreSound, NEW ticks \in 0 .. QueueTime
  PROVE  /\ Tool!Longer(ticks) \in 0 .. QueueTime
         /\ Tool!ProcessingDeadline # Tool!Never => Tool!Longer(ticks) = 0
         /\ Tool!Longer(ticks) <= ticks + 1
         /\ Tool!ProcessingDeadline = Tool!Never =>
              Tool!Longer(ticks) = IF ticks = QueueTime THEN ticks ELSE ticks + 1
BY DEF Tool!Longer, Tool!ConstantsAreSound

LEMMA TickFacts ==
  ASSUME Tool!ConstantsAreSound, ToolTypes, Tool!Tick
  PROVE  /\ ToolTypes' /\ UNCHANGED <<parent, hearing, streams>> /\ Tool!Prompt
         /\ wait'.pc = wait.pc /\ wait'.timed = wait.timed /\ wait'.processing = wait.processing
         /\ wait'.deadline = Tool!Left(wait.deadline) /\ wait'.runtime = Tool!Left(wait.runtime)
         /\ idle'.any = Tool!Longer(idle.any) /\ idle'.tick = Tool!Longer(idle.tick)
<1>1. /\ jobs' = [j \in Commands |-> [jobs[j] EXCEPT !.armed = Tool!Left(@)]]
      /\ wait' = [wait EXCEPT !.deadline = Tool!Left(@), !.runtime = Tool!Left(@)]
      /\ idle' = [any |-> Tool!Longer(idle.any), tick |-> Tool!Longer(idle.tick)]
      /\ UNCHANGED <<parent, hearing, streams>> /\ Tool!Prompt /\ wait.pc = "select"
  BY DEF Tool!Tick, Tool!Prompt
<1>2. jobs' \in [Commands -> WaitAttempts]
  <2>1. ASSUME NEW j \in Commands
        PROVE  [jobs[j] EXCEPT !.armed = Tool!Left(@)] \in WaitAttempts
    <3>1. jobs[j] \in WaitAttempts /\ Tool!Left(jobs[j].armed) \in Nat \cup {Tool!Never}
      BY LeftFacts DEF ToolTypes, WaitAttempts
    <3>2. QED BY <3>1 DEF WaitAttempts
  <2>2. QED BY <1>1, <2>1
<1>3. /\ Tool!Left(wait.deadline) \in 0 .. QueueTime /\ Tool!Left(wait.deadline) # Tool!Never
      /\ Tool!Left(wait.runtime) \in Nat \cup {Tool!Never}
  BY <1>1, WaitFields, LeftFacts DEF Tool!Left, Tool!Never, Tool!ConstantsAreSound
<1>4. /\ wait' \in WaitRecords /\ wait'.pc = wait.pc /\ wait'.timed = wait.timed
      /\ wait'.processing = wait.processing
      /\ wait'.deadline = Tool!Left(wait.deadline) /\ wait'.runtime = Tool!Left(wait.runtime)
  BY <1>1, <1>3 DEF ToolTypes, WaitRecords
<1>5. Tool!Longer(idle.any) \in 0 .. QueueTime /\ Tool!Longer(idle.tick) \in 0 .. QueueTime
  BY WaitFields, LongerFacts
<1>6. /\ idle' \in [any : 0 .. QueueTime, tick : 0 .. QueueTime]
      /\ idle'.any = Tool!Longer(idle.any) /\ idle'.tick = Tool!Longer(idle.tick)
  BY <1>1, <1>5, IdleType
<1>7. ToolTypes'
  BY <1>1, <1>2, <1>3, <1>4, <1>6 DEF ToolTypes
<1>8. QED BY <1>1, <1>4, <1>6, <1>7

--------------------------------------------------------------------------------
(***************************************************************************)
(* The deadlines.                                                          *)
(***************************************************************************)
(* A call that sleeps has seen the project as it is, unless it is about to be told *)
Seen ==
  wait.pc = "select" =>
    /\ wait.processing <=> wait.runtime # Tool!Never
    /\ ~("project" \in streams) /\ ~(hearing = {"project"}) =>
         wait.runtime = Tool!ProcessingDeadline /\ (wait.timed <=> parent \notin Tool!Ended)

(* The queue window is at least as old as the time since an attempt was processed at all,  *)
(* and no older than the time since one was for a tick, unless one is processed: then the  *)
(* window starts again when the call sees the end of it                                    *)
Counted ==
  wait.pc \in {"watch", "look", "select"} =>
    /\ idle.any + wait.deadline <= QueueTime
    /\ ~wait.processing => QueueTime <= idle.tick + wait.deadline
    /\ wait.processing => idle.any = 0 \/ Tool!ProcessingDeadline # Tool!Never

Counting == ToolTypes /\ Seen /\ Counted

LEMMA CountingStep ==
  ASSUME Tool!ConstantsAreSound, Counting, [Tool!Next]_(Tool!vars)
  PROVE  Counting'
<1>1. ToolTypes /\ Seen /\ Counted /\ QueueTime \in Nat
  BY DEF Counting, Tool!ConstantsAreSound
<1>2. CASE Tool!Listen
  <2>1. ToolTypes' /\ Tool!Listening /\ ("project" \in streams' \/ hearing' = {"project"})
    BY <1>1, <1>2, ListenFacts
  <2>2. /\ UNCHANGED wait /\ idle'.tick = idle.tick /\ idle'.any \in {0, idle.any}
        /\ Tool!ProcessingDeadline # Tool!Never => idle'.any = 0
    BY <1>1, <2>1, ListeningFacts
  <2>3. Seen'
    BY <1>1, <2>1, <2>2 DEF Seen
  <2>4. Counted'
    <3> SUFFICES ASSUME wait.pc \in {"watch", "look", "select"}
                 PROVE  /\ idle'.any + wait.deadline <= QueueTime
                        /\ ~wait.processing => QueueTime <= idle'.tick + wait.deadline
                        /\ wait.processing => idle'.any = 0
      BY <2>2 DEF Counted
    <3>1. wait.deadline \in 0 .. QueueTime /\ idle.any \in 0 .. QueueTime
      BY <1>1, WaitFields
    <3>2. idle'.any + wait.deadline <= QueueTime
      BY <1>1, <2>2, <3>1 DEF Counted
    <3>3. QED BY <1>1, <2>2, <3>2 DEF Counted
  <2>5. QED BY <2>1, <2>3, <2>4 DEF Counting
<1>3. CASE Tool!Start
  <2>1. /\ ToolTypes' /\ wait'.pc = "watch" /\ wait'.deadline = QueueTime
        /\ idle'.any = 0 /\ idle'.tick = 0
    BY <1>1, <1>3, StartFacts
  <2>2. QED BY <1>1, <2>1 DEF Counting, Seen, Counted
<1>4. CASE Tool!Watch \/ Tool!Return \/ Tool!Timer \/ Tool!Event
  <2>1. /\ ToolTypes' /\ UNCHANGED <<parent, jobs, hearing, idle>>
        /\ wait.pc \in {"watch", "select"} /\ wait'.deadline = wait.deadline
        /\ wait'.processing = wait.processing /\ wait'.pc # "select"
    BY <1>1, <1>4, CallFacts
  <2>2. Tool!ProcessingDeadline' = Tool!ProcessingDeadline
    BY <2>1 DEF Tool!ProcessingDeadline, Tool!Soonest, Tool!Deadlines
  <2>3. QED BY <1>1, <2>1, <2>2 DEF Counting, Seen, Counted
<1>5. CASE Tool!Look
  <2>1. /\ ToolTypes' /\ UNCHANGED <<parent, jobs, hearing, streams, idle>>
        /\ wait.pc = "look" /\ wait'.pc = "select"
        /\ wait'.processing <=> Tool!ProcessingDeadline # Tool!Never
        /\ wait'.runtime = Tool!ProcessingDeadline
         /\ (wait'.timed <=> parent \notin Tool!Ended)
        /\ wait'.deadline = IF Tool!ProcessingDeadline = Tool!Never /\ wait.processing
                              THEN QueueTime ELSE wait.deadline
    BY <1>1, <1>5, LookFacts
  <2>2. Tool!ProcessingDeadline' = Tool!ProcessingDeadline
    BY <2>1 DEF Tool!ProcessingDeadline, Tool!Soonest, Tool!Deadlines
  <2>3. Seen'
    BY <2>1, <2>2 DEF Seen, Tool!Never
  <2>4. idle.any \in Nat /\ idle.tick \in Nat
    BY <1>1, WaitFields
  <2>5. Counted'
    BY <1>1, <2>1, <2>2, <2>4 DEF Counted
  <2>6. QED BY <2>1, <2>3, <2>5 DEF Counting
<1>6. CASE Tool!Cancel
  BY <1>1, <1>6, CancelFacts DEF Counting, Seen, Counted
<1>7. CASE Tool!Tick
  <2>1. /\ ToolTypes' /\ UNCHANGED <<parent, hearing, streams>> /\ Tool!Prompt
        /\ wait'.pc = wait.pc /\ wait'.timed = wait.timed /\ wait'.processing = wait.processing
        /\ wait'.deadline = Tool!Left(wait.deadline) /\ wait'.runtime = Tool!Left(wait.runtime)
        /\ idle'.any = Tool!Longer(idle.any) /\ idle'.tick = Tool!Longer(idle.tick)
    BY <1>1, <1>7, TickFacts
  <2>2. Tool!ProcessingDeadline' = Tool!Left(Tool!ProcessingDeadline)
    BY <1>1, <1>7, <2>1, TickedDeadline
  <2>3. wait.pc = "select" /\ hearing = {} /\ streams = {}
    BY <2>1 DEF Tool!Prompt
  <2>4. /\ wait.processing <=> wait.runtime # Tool!Never
        /\ wait.runtime = Tool!ProcessingDeadline /\ (wait.timed <=> parent \notin Tool!Ended)
    BY <1>1, <2>3 DEF Seen
  <2>5. Tool!Left(wait.runtime) = Tool!Never <=> wait.runtime = Tool!Never
    BY <1>1, WaitFields, LeftFacts
  <2>6. Seen'
    BY <2>1, <2>2, <2>4, <2>5 DEF Seen
  <2>7. /\ wait.deadline \in 0 .. QueueTime /\ idle.any \in 0 .. QueueTime
        /\ idle.tick \in 0 .. QueueTime
        /\ wait'.deadline = IF wait.deadline = 0 THEN 0 ELSE wait.deadline - 1
    BY <1>1, <2>1, <2>3, WaitFields DEF Tool!Left, Tool!Never
  <2>8. CASE Tool!ProcessingDeadline = Tool!Never
    <3>1. /\ idle'.any = IF idle.any = QueueTime THEN idle.any ELSE idle.any + 1
          /\ idle'.tick = IF idle.tick = QueueTime THEN idle.tick ELSE idle.tick + 1
      BY <2>1, <2>7, <2>8, LongerFacts
    <3>2. /\ idle.any + wait.deadline <= QueueTime /\ QueueTime <= idle.tick + wait.deadline
          /\ ~wait.processing
      BY <1>1, <2>3, <2>4, <2>8 DEF Counted
    <3>3. idle'.any + wait'.deadline <= QueueTime /\ QueueTime <= idle'.tick + wait'.deadline
      BY <1>1, <2>7, <3>1, <3>2
    <3>4. QED BY <2>1, <2>6, <3>2, <3>3 DEF Counting, Counted
  <2>9. CASE Tool!ProcessingDeadline # Tool!Never
    <3>1. idle'.any = 0 /\ wait.processing
      BY <2>1, <2>4, <2>7, <2>9, LongerFacts
    <3>2. 0 + wait'.deadline <= QueueTime
      BY <1>1, <2>7
    <3>3. QED BY <2>1, <2>6, <3>1, <3>2 DEF Counting, Counted
  <2>10. QED BY <2>8, <2>9
<1>8. CASE UNCHANGED Tool!vars
  <2>1. UNCHANGED <<parent, jobs, hearing, streams, wait, idle>>
    BY <1>8 DEF Tool!vars
  <2>2. Tool!ProcessingDeadline' = Tool!ProcessingDeadline
    BY <2>1 DEF Tool!ProcessingDeadline, Tool!Soonest, Tool!Deadlines
  <2>3. QED BY <1>1, <2>1, <2>2 DEF Counting, ToolTypes, Seen, Counted
<1>9. QED BY <1>2, <1>3, <1>4, <1>5, <1>6, <1>7, <1>8 DEF Tool!Next

(* What the call promises of a step *)
Allowed ==
  /\ wait' # wait /\ wait'.pc = wait.pc /\ parent \notin Tool!Ended =>
        IF Tool!ProcessingDeadline = Tool!Never THEN idle.any < QueueTime
        ELSE Tool!ProcessingDeadline # 0
  /\ wait'.pc # wait.pc =>
        /\ wait'.pc = "starved" => idle.tick = QueueTime /\ Tool!Unserved
        /\ wait'.pc = "overran" => Tool!Overrun

LEMMA AllowedStep ==
  ASSUME Tool!ConstantsAreSound, Counting, [Tool!Next]_(Tool!vars)
  PROVE  Allowed
<1>1. ToolTypes /\ Seen /\ Counted /\ QueueTime \in Nat
  BY DEF Counting, Tool!ConstantsAreSound
<1>2. CASE Tool!Listen \/ UNCHANGED Tool!vars
  <2>1. UNCHANGED wait
    BY <1>1, <1>2, ListenFacts, ListeningFacts DEF Tool!vars
  <2>2. QED BY <2>1 DEF Allowed
<1>3. CASE Tool!Start
  <2>1. wait.pc = "creating" /\ wait'.pc = "watch"
    BY <1>1, <1>3, StartFacts DEF Tool!Start
  <2>2. QED BY <2>1 DEF Allowed
<1>4. CASE Tool!Look
  <2>1. wait.pc = "look" /\ wait'.pc = "select"
    BY <1>1, <1>4, LookFacts
  <2>2. QED BY <2>1 DEF Allowed
<1>5. CASE Tool!Cancel
  <2>1. wait'.pc = "ended" /\ wait.pc \in {"overran", "starved"}
    BY <1>1, <1>5, CancelFacts
  <2>2. QED BY <2>1 DEF Allowed
<1>6. CASE Tool!Watch \/ Tool!Return \/ Tool!Event
  <2>1. /\ wait'.pc # wait.pc /\ wait'.pc \notin {"starved", "overran"}
    BY <1>1, <1>6 DEF Tool!Watch, Tool!Return, Tool!Event, Tool!Ending, ToolTypes, WaitRecords
  <2>2. QED BY <2>1 DEF Allowed
<1>7. CASE Tool!Timer
  <2>1. wait.pc = "select" /\ Tool!Due
    BY <1>7 DEF Tool!Timer
  <2>2. PICK pc : /\ wait' = [wait EXCEPT !.pc = pc]
                  /\ pc = IF wait.processing THEN IF Tool!Overrun THEN "overran" ELSE "watch"
                          ELSE IF Tool!Unserved THEN "starved" ELSE "watch"
    BY <1>7 DEF Tool!Timer, Tool!Ending
  <2>3. wait'.pc = pc
    BY <2>2 DEF ToolTypes, WaitRecords, Counting
  <2>4. ASSUME pc = "starved"
        PROVE  idle.tick = QueueTime /\ Tool!Unserved
    <3>1. ~wait.processing /\ Tool!Unserved
      BY <2>2, <2>4
    <3>2. wait.runtime = Tool!Never
      BY <1>1, <2>1, <3>1 DEF Seen
    <3>3. wait.deadline = 0
      BY <2>1, <3>2 DEF Tool!Due
    <3>4. QueueTime <= idle.tick + 0 /\ idle.tick \in 0 .. QueueTime
      BY <1>1, <2>1, <3>1, <3>3, WaitFields DEF Counted
    <3>5. QED BY <1>1, <3>1, <3>4
  <2>5. pc = "overran" => Tool!Overrun
    BY <2>2
  <2>6. wait'.pc # wait.pc
    BY <2>1, <2>2, <2>3
  <2>7. QED BY <2>3, <2>4, <2>5, <2>6 DEF Allowed
<1>8. CASE Tool!Tick
  <2>1. /\ wait'.pc = wait.pc /\ wait.pc = "select" /\ hearing = {} /\ streams = {} /\ ~Tool!Due
    BY <1>1, <1>8, TickFacts DEF Tool!Prompt
  <2>2. /\ wait.runtime = Tool!ProcessingDeadline /\ (wait.timed <=> parent \notin Tool!Ended)
        /\ wait.processing <=> wait.runtime # Tool!Never
    BY <1>1, <2>1 DEF Seen
  <2>3. ASSUME parent \notin Tool!Ended, Tool!ProcessingDeadline = Tool!Never
        PROVE  idle.any < QueueTime
    <3>1. wait.deadline # 0
      BY <2>1, <2>2, <2>3 DEF Tool!Due
    <3>2. wait.deadline \in 0 .. QueueTime /\ idle.any \in 0 .. QueueTime
      BY <1>1, <2>1, WaitFields
    <3>3. idle.any + wait.deadline <= QueueTime
      BY <1>1, <2>1 DEF Counted
    <3>4. QED BY <1>1, <3>1, <3>2, <3>3
  <2>4. ASSUME parent \notin Tool!Ended, Tool!ProcessingDeadline # Tool!Never
        PROVE  Tool!ProcessingDeadline # 0
    BY <2>1, <2>2, <2>4 DEF Tool!Due
  <2>5. QED BY <2>1, <2>3, <2>4 DEF Allowed
<1>9. QED BY <1>2, <1>3, <1>4, <1>5, <1>6, <1>7, <1>8 DEF Tool!Next

LEMMA InitCounting ==
  ASSUME Tool!ConstantsAreSound, Tool!Init
  PROVE  Counting
<1>1. 0 \in 0 .. QueueTime
  BY DEF Tool!ConstantsAreSound
<1>2. ToolTypes
  BY <1>1 DEF Tool!Init, ToolTypes, WaitAttempts, WaitRecords
<1>3. wait.pc = "creating"
  BY DEF Tool!Init
<1>4. QED BY <1>2, <1>3 DEF Counting, Seen, Counted

(* A behaviour of the run is one of each of the two parts, so what is proved of a part *)
(* alone holds in the run: they share no variable (MCSocketTransport)                  *)
LEMMA RunOfTheSocket == MCSpec => Spec
<1>1. MCInit => Init
  BY DEF MCInit
<1>2. [MCNext]_<<running, vars, toolVars>> => [Next]_vars
  BY DEF MCNext
<1>3. QED BY <1>1, <1>2, PTL DEF MCSpec, Spec

LEMMA RunOfTheTool == MCSpec => Tool!Spec
<1>1. MCInit => Tool!Init
  BY DEF MCInit
<1>2. [MCNext]_<<running, vars, toolVars>> => [Tool!Next]_(Tool!vars)
  BY DEF MCNext, toolVars, Tool!vars
<1>3. QED BY <1>1, <1>2, PTL DEF MCSpec, Tool!Spec

(* A chat tool call gives its project up no earlier than it promises and waits no longer  *)
(* (wait_for_tool_project, QueueWindow): it calls the queue time over only after a whole  *)
(* queue time in which no attempt was processed for a tick, and an attempt overrun only   *)
(* if that attempt's own budget is spent at that very moment; and while the project is    *)
(* not over, time passes without an end of the wait only if both still have ticks left    *)
THEOREM ToolWaits == MCSpec => WaitsAsAllowed
<1>1. Tool!Init => Counting
  BY ConstantsAreSound, InitCounting
<1>2. Counting /\ [Tool!Next]_(Tool!vars) => Counting'
  BY ConstantsAreSound, CountingStep
<1>3. Counting /\ [Tool!Next]_(Tool!vars) => Allowed
  BY ConstantsAreSound, AllowedStep
<1>4. Tool!Spec => Tool!WaitsAsAllowed
  BY <1>1, <1>2, <1>3, PTL DEF Tool!Spec, Tool!WaitsAsAllowed, Allowed
<1>5. QED BY <1>4, RunOfTheTool, PTL DEF WaitsAsAllowed
================================================================================
