---------------------------- MODULE SocketTransport ----------------------------
(***************************************************************************)
(* The shared WebSocket of a client: the senders, the bounded command      *)
(* channel, and the one manager task that connects, authenticates, writes, *)
(* reconnects, suspends and stops (src/src/transport/socket.rs and         *)
(* src/src/transport/socket/session.rs).                                   *)
(*                                                                         *)
(* The manager's program counter stands between the points where another   *)
(* thread may act.  Accounts change, the network fails and the clock       *)
(* passes deadlines at any moment.  The length of a backoff is abstracted  *)
(* to "some time", event emission and pings are left out.                  *)
(*                                                                         *)
(* A definition marked "Fault" is not part of the specification: put in    *)
(* the place of the definition after it, it must break a property.         *)
(***************************************************************************)
EXTENDS Integers, Sequences, SequencesExt

CONSTANTS
  Commands,       \* the calls of send_receipt_in_session, each made once
  NoCommand,      \* no command is being written
  Capacity,       \* the size of the command channel (256 in the code)
  MaxRevision,    \* bound: the account changes while its revision is below it
  MaxGeneration   \* bound: the peer and the network fail while generation is below it

ASSUME SocketAssumption ==
  /\ NoCommand \notin Commands
  /\ Capacity \in Nat \ {0}
  /\ MaxRevision \in Nat /\ MaxGeneration \in Nat

VARIABLES
  auth,         \* AuthManager as the socket sees it: session, revision, signedIn
  unseen,       \* the manager's auth watch holds a change it has not read
  closed,       \* SocketInner.closed
  cancelled,    \* SocketInner.cancel
  aborted,      \* the task handle was aborted
  manager,      \* the manager's position
  suspended,    \* the manager's local
  conn,         \* the connection in hand: session, revision, how it ended
  flags,        \* what is_connected and is_authenticated read: connected, session, authenticated
  generation,   \* SocketInner.generation
  legacyReady,  \* socket_session's local: the peer was silent for 10 s
  channel,      \* the command channel
  pending,      \* the manager's own queue
  writing,      \* the command being written, and whether its frame left
  command,      \* the state of each call
  wire,         \* history: the frames that left, in order
  accepted      \* history: the commands in the order the channel took them

authSide == <<auth, unseen, closed, cancelled, aborted>>
managerVars == <<manager, suspended, conn, flags, generation, legacyReady, writing>>
queues == <<channel, pending>>
histories == <<wire, accepted>>
vars == <<authSide, managerVars, queues, command, histories>>

Positions == {"unstarted", "top", "wait", "connecting", "opened", "loop", "select",
              "writing", "ending", "clearing", "backoff", "done"}
Endings == {"none", "Closed", "AuthChanged", "Suspend", "ClearAuth", "Reconnect"}
Answers == {"none", "ok", "stale", "unauth", "expired", "closed", "transport", "timeout"}
Calls == [state : {"new", "queueing", "waiting", "done"}, session : Nat,
          expired : BOOLEAN, answer : Answers, generation : Nat]
Frames == [command : Commands, session : Nat, generation : Nat]

Init ==
  /\ auth = [session |-> 0, revision |-> 0, signedIn |-> FALSE]
  /\ unseen = FALSE /\ closed = FALSE /\ cancelled = FALSE /\ aborted = FALSE
  /\ manager = "unstarted" /\ suspended = FALSE
  /\ conn = [session |-> 0, revision |-> 0, ending |-> "none"]
  /\ flags = [connected |-> FALSE, session |-> 0, authenticated |-> FALSE]
  /\ generation = 0 /\ legacyReady = FALSE
  /\ channel = <<>> /\ pending = <<>>
  /\ writing = [command |-> NoCommand, left |-> FALSE]
  /\ command = [c \in Commands |-> [state |-> "new", session |-> 0, expired |-> FALSE,
                                    answer |-> "none", generation |-> 0]]
  /\ wire = <<>> /\ accepted = <<>>

--------------------------------------------------------------------------------
(* Give every command of a set its answer; a caller that has left hears nothing *)
Answered(set, answer) ==
  [c \in Commands |->
    IF c \in set /\ command[c].state \in {"queueing", "waiting"}
      THEN [command[c] EXCEPT !.state = "done", !.answer = answer]
      ELSE command[c]]

Answer(set, answer) == command' = Answered(set, answer)

(* The task ends: its queue is failed or dropped, the channel closes on its senders *)
Stop ==
  /\ manager' = "done"
  /\ channel' = <<>> /\ pending' = <<>>
  /\ writing' = [command |-> NoCommand, left |-> FALSE]
  /\ Answer({c \in Commands : command[c].state \in {"queueing", "waiting"}}, "closed")

Goto(position) == manager' = position

(* Fault: only the authenticated flag is taken back *)
DownStillConnected == [flags EXCEPT !.authenticated = FALSE]

Down == [flags EXCEPT !.connected = FALSE, !.authenticated = FALSE]

(* The account changes on its own threads *)
AccountSide == UNCHANGED <<managerVars, queues, command, histories, aborted>>

(* replace, clear and the end of renew_token, as the watches of AuthManager tell them *)
Authenticate(newSession, signedIn) ==
  /\ ~closed /\ auth.revision < MaxRevision
  /\ auth' = [session |-> IF newSession THEN auth.session + 1 ELSE auth.session,
              revision |-> auth.revision + 1, signedIn |-> signedIn]
  /\ unseen' = (manager # "unstarted")
  /\ UNCHANGED <<closed, cancelled>>
  /\ AccountSide

SwitchAccount == Authenticate(TRUE, TRUE)
SignOut == auth.signedIn /\ Authenticate(TRUE, FALSE)
Renew == auth.signedIn /\ Authenticate(FALSE, TRUE)

(* ApiClient.close and abort: the credentials first, then the socket *)
CloseAccount ==
  /\ ~closed
  /\ auth' = [session |-> auth.session + 1, revision |-> auth.revision + 1,
              signedIn |-> FALSE]
  /\ unseen' = (manager # "unstarted")
  /\ closed' = TRUE
  /\ UNCHANGED cancelled
  /\ AccountSide

CloseSocket ==
  /\ closed /\ ~cancelled
  /\ cancelled' = TRUE
  /\ UNCHANGED <<auth, unseen, closed>>
  /\ AccountSide

Abort ==
  /\ closed /\ ~aborted
  /\ cancelled' = TRUE
  /\ aborted' = TRUE
  /\ flags' = Down
  /\ UNCHANGED <<auth, unseen, closed, manager, suspended, conn, generation, legacyReady,
                 writing, queues, command, histories>>

--------------------------------------------------------------------------------
(***************************************************************************)
(* The callers of send_receipt_in_session.                                 *)
(***************************************************************************)
CallerSide == UNCHANGED <<authSide, suspended, conn, flags, generation, legacyReady,
                          writing, pending, wire>>

(* start(): the task is spawned once, by the client or by the first sender *)
Start ==
  /\ manager = "unstarted" /\ ~closed
  /\ manager' = "top"
  /\ UNCHANGED <<channel, command, accepted>>
  /\ CallerSide

(* A call for a session the caller has seen *)
Submit(c) ==
  /\ command[c].state = "new"
  /\ \E session \in 0 .. auth.session :
       LET refuse(answer) == [command[c] EXCEPT !.state = "done", !.session = session,
                                                !.answer = answer]
       IN command' = [command EXCEPT ![c] =
            CASE closed \/ manager = "done" -> refuse("closed")
              [] session # auth.session -> refuse("stale")
              [] ~auth.signedIn -> refuse("unauth")
              [] OTHER -> [@ EXCEPT !.state = "queueing", !.session = session]]
  /\ manager' = IF manager = "unstarted" /\ ~closed THEN "top" ELSE manager
  /\ UNCHANGED <<channel, accepted>>
  /\ CallerSide

Enqueue(c) ==
  /\ command[c].state = "queueing" /\ Len(channel) < Capacity /\ manager # "done"
  /\ channel' = Append(channel, c)
  /\ accepted' = Append(accepted, c)
  /\ command' = [command EXCEPT ![c].state = "waiting"]
  /\ UNCHANGED manager
  /\ CallerSide

(* The clock passes the deadline of the call *)
Expire(c) ==
  /\ command[c].state \in {"queueing", "waiting"} /\ ~command[c].expired
  /\ command' = [command EXCEPT ![c].expired = TRUE]
  /\ UNCHANGED <<manager, channel, accepted>>
  /\ CallerSide

(* Its own timeout runs, or the future is dropped before it *)
GiveUp(c) ==
  /\ command[c].state \in {"queueing", "waiting"}
  /\ command' = [command EXCEPT ![c].state = "done", ![c].answer = "timeout"]
  /\ UNCHANGED <<manager, channel, accepted>>
  /\ CallerSide

--------------------------------------------------------------------------------
(***************************************************************************)
(* The manager outside a connection.                                       *)
(***************************************************************************)
ManagerSide == UNCHANGED <<auth, closed, cancelled, aborted, histories>>

Top ==
  /\ manager = "top"
  /\ IF cancelled
       THEN Stop /\ UNCHANGED <<conn, unseen, suspended>>
       ELSE /\ Goto(IF ~auth.signedIn \/ suspended THEN "wait" ELSE "connecting")
            /\ conn' = [session |-> auth.session, revision |-> auth.revision, ending |-> "none"]
            /\ UNCHANGED <<unseen, suspended, queues, command, writing>>
  /\ UNCHANGED <<flags, generation, legacyReady>>
  /\ ManagerSide

(* One of the ready branches of the select is taken *)
WaitCancelled ==
  /\ cancelled
  /\ Stop
  /\ UNCHANGED <<unseen, suspended>>

(* Fault: a new sign-in does not end the suspension *)
WaitAuthSuspended ==
  /\ unseen
  /\ unseen' = FALSE
  /\ Goto("top")
  /\ UNCHANGED <<suspended, queues, command, writing>>

WaitAuth ==
  /\ unseen
  /\ unseen' = FALSE
  /\ suspended' = (suspended /\ ~auth.signedIn)
  /\ Goto("top")
  /\ UNCHANGED <<queues, command, writing>>

WaitCommand ==
  /\ channel # <<>>
  /\ channel' = Tail(channel)
  /\ IF auth.signedIn
       THEN /\ pending' = Append(pending, Head(channel))
            /\ suspended' = FALSE
            /\ UNCHANGED command
       ELSE /\ Answer({Head(channel)}, "unauth")
            /\ UNCHANGED <<pending, suspended>>
  /\ Goto("top")
  /\ UNCHANGED <<unseen, writing>>

Wait ==
  /\ manager = "wait"
  /\ WaitCancelled \/ WaitAuth \/ WaitCommand
  /\ UNCHANGED <<conn, flags, generation, legacyReady>>
  /\ ManagerSide

(* connect_socket inside the guard of its session: opened, or failed and backed off *)
Connect ==
  /\ manager = "connecting"
  /\ IF cancelled
       THEN Stop /\ UNCHANGED conn
       ELSE /\ \/ /\ auth.session = conn.session
                  /\ Goto("opened")
                  /\ conn' \in {[conn EXCEPT !.revision = r] : r \in conn.revision .. auth.revision}
               \/ /\ auth.session # conn.session \/ generation < MaxGeneration
                  /\ Goto("backoff")
                  /\ UNCHANGED conn
            /\ UNCHANGED <<queues, command, writing>>
  /\ UNCHANGED <<unseen, suspended, flags, generation, legacyReady>>
  /\ ManagerSide

Publish ==
  /\ manager = "opened"
  /\ IF conn.session # auth.session
       THEN Goto("top") /\ UNCHANGED <<flags, generation, legacyReady>>
       ELSE /\ Goto("loop")
            /\ flags' = [connected |-> TRUE, session |-> conn.session, authenticated |-> FALSE]
            /\ generation' = generation + 1
            /\ legacyReady' = FALSE
  /\ UNCHANGED <<unseen, suspended, conn, queues, command, writing>>
  /\ ManagerSide

Backoff ==
  /\ manager = "backoff"
  /\ IF cancelled THEN Stop ELSE Goto("top") /\ UNCHANGED <<queues, command, writing>>
  /\ UNCHANGED <<unseen, suspended, conn, flags, generation, legacyReady>>
  /\ ManagerSide

(* An aborted task is dropped at an await *)
Die ==
  /\ aborted /\ manager \in {"wait", "connecting", "loop", "select", "writing", "backoff"}
  /\ Stop
  /\ UNCHANGED <<unseen, suspended, conn, flags, generation, legacyReady>>
  /\ ManagerSide

--------------------------------------------------------------------------------
(***************************************************************************)
(* socket_session: one open connection.                                    *)
(***************************************************************************)
ConnectionSide == UNCHANGED <<auth, closed, cancelled, aborted, unseen, suspended,
                              generation, accepted>>
End(how) == Goto("ending") /\ conn' = [conn EXCEPT !.ending = how]

Ready == flags.authenticated \/ legacyReady

(* Fault: the session of the command is not compared with the connection's *)
MayWriteAny(c) == TRUE

MayWrite(c) == command[c].session = conn.session

(* The session is compared again before every queued command; one popped in *)
(* vain goes back to the front of the queue.                                *)
Loop ==
  /\ manager = "loop"
  /\ \/ /\ auth.session # conn.session
        /\ End("AuthChanged")
        /\ UNCHANGED <<pending, command, writing>>
     \/ /\ auth.session = conn.session
        /\ ~Ready \/ pending = <<>>
        /\ Goto("select")
        /\ UNCHANGED <<conn, pending, command, writing>>
     \/ /\ auth.session = conn.session
        /\ Ready /\ pending # <<>>
        /\ pending' = Tail(pending)
        /\ UNCHANGED conn
        /\ LET c == Head(pending)
           IN \/ /\ command[c].state = "done"
                 /\ UNCHANGED <<manager, command, writing>>
              \/ /\ command[c].state # "done" /\ command[c].expired
                 /\ Answer({c}, "expired")
                 /\ UNCHANGED <<manager, writing>>
              \/ /\ command[c].state # "done" /\ ~command[c].expired
                 /\ IF MayWrite(c)
                      THEN /\ Goto("writing")
                           /\ writing' = [command |-> c, left |-> FALSE]
                           /\ UNCHANGED command
                      ELSE Answer({c}, "stale") /\ UNCHANGED <<manager, writing>>
  /\ UNCHANGED <<flags, legacyReady, channel, wire>>
  /\ ConnectionSide

(* The frame leaves; the writer, or its caller, may never learn of it *)
Flush ==
  /\ manager = "writing" /\ ~writing.left
  /\ writing' = [writing EXCEPT !.left = TRUE]
  /\ wire' = Append(wire, [command |-> writing.command, session |-> conn.session,
                           generation |-> generation])
  /\ UNCHANGED <<manager, conn, flags, legacyReady, queues, command>>
  /\ ConnectionSide

Written ==
  /\ manager = "writing" /\ writing.left
  /\ Goto("loop")
  /\ LET c == writing.command
     IN command' = IF command[c].state = "waiting"
                     THEN [command EXCEPT ![c].state = "done", ![c].answer = "ok",
                                          ![c].generation = generation]
                     ELSE command
  /\ writing' = [command |-> NoCommand, left |-> FALSE]
  /\ UNCHANGED <<conn, flags, legacyReady, queues, wire>>
  /\ ConnectionSide

(* Fault: a failed write is dropped like a command that was never written *)
WriteFailedDropped ==
  /\ manager = "writing" /\ generation < MaxGeneration
  /\ Answer({writing.command}, "closed")
  /\ writing' = [command |-> NoCommand, left |-> FALSE]
  /\ End("Reconnect")
  /\ UNCHANGED <<flags, legacyReady, queues, wire>>
  /\ ConnectionSide

(* Fault: a failed write is queued again, to be written on the next connection *)
WriteFailedReplayed ==
  /\ manager = "writing" /\ generation < MaxGeneration
  /\ pending' = <<writing.command>> \o pending
  /\ writing' = [command |-> NoCommand, left |-> FALSE]
  /\ End("Reconnect")
  /\ UNCHANGED <<flags, legacyReady, channel, command, wire>>
  /\ ConnectionSide

(* A failed write may have reached the peer: it is reported, never replayed *)
WriteFailed ==
  /\ manager = "writing" /\ generation < MaxGeneration
  /\ Answer({writing.command}, "transport")
  /\ writing' = [command |-> NoCommand, left |-> FALSE]
  /\ End("Reconnect")
  /\ UNCHANGED <<flags, legacyReady, queues, wire>>
  /\ ConnectionSide

(* The branches of the select; a session change also shows when a frame arrives *)
(* Fault: a new command goes before those that wait for the peer *)
SelectCommandFirst ==
  /\ channel # <<>>
  /\ channel' = Tail(channel)
  /\ pending' = <<Head(channel)>> \o pending
  /\ Goto("loop")
  /\ UNCHANGED <<conn, flags, legacyReady>>

SelectCommand ==
  /\ channel # <<>>
  /\ channel' = Tail(channel)
  /\ pending' = Append(pending, Head(channel))
  /\ Goto("loop")
  /\ UNCHANGED <<conn, flags, legacyReady>>

SelectFallback ==
  /\ ~legacyReady
  /\ legacyReady' = TRUE
  /\ Goto("loop")
  /\ UNCHANGED <<conn, flags, queues>>

SelectAuthenticated ==
  /\ auth.session = conn.session
  /\ flags' = [flags EXCEPT !.authenticated = TRUE]
  /\ Goto("loop")
  /\ UNCHANGED <<conn, legacyReady, queues>>

(* The close codes as disconnect_disposition sorts them, and transport losses *)
SelectEnd ==
  /\ \/ cancelled /\ End("Closed")
     \/ auth.session # conn.session /\ End("AuthChanged")
     \/ /\ auth.session = conn.session /\ generation < MaxGeneration
        /\ \E how \in {"Suspend", "ClearAuth", "Reconnect"} : End(how)
  /\ UNCHANGED <<flags, legacyReady, queues>>

Select ==
  /\ manager = "select"
  /\ SelectCommand \/ SelectFallback \/ SelectAuthenticated \/ SelectEnd
  /\ UNCHANGED <<command, writing, wire>>
  /\ ConnectionSide

--------------------------------------------------------------------------------
(***************************************************************************)
(* The end of a connection.                                                *)
(***************************************************************************)
(* What is left of a queue when only the commands of a set stay in it *)
Kept(queue, set) ==
  LET kept[i \in 0 .. Len(queue)] ==
        IF i = 0 THEN <<>>
        ELSE IF queue[i] \in set THEN Append(kept[i - 1], queue[i]) ELSE kept[i - 1]
  IN kept[Len(queue)]

OfSession(queue, session) == Kept(queue, {c \in Commands : command[c].session = session})
NotOfSession(queue, session) == Kept(queue, {c \in Commands : command[c].session # session})

(* Fault: every queued command is dropped with the closed account *)
RetainedNone(queue) == <<>>

(* fail_session: the channel is drained, what is left is not of the closed account *)
Retained(queue) == NotOfSession(queue, conn.session)

Ending ==
  /\ manager = "ending"
  /\ flags' = Down
  /\ \/ /\ conn.ending = "Closed"
        /\ Stop
        /\ UNCHANGED suspended
     \/ /\ conn.ending = "AuthChanged"
        /\ pending' = OfSession(pending, auth.session)
        /\ Answer(ToSet(NotOfSession(pending, auth.session)), "closed")
        /\ Goto("top")
        /\ UNCHANGED <<suspended, channel, writing>>
     \/ /\ conn.ending \in {"Suspend", "ClearAuth"}
        /\ pending' = Retained(pending \o channel)
        /\ channel' = <<>>
        /\ Answer(ToSet(pending \o channel) \ ToSet(Retained(pending \o channel)), "closed")
        /\ suspended' = TRUE
        /\ Goto(IF conn.ending = "ClearAuth" THEN "clearing" ELSE "top")
        /\ UNCHANGED writing
     \/ /\ conn.ending = "Reconnect"
        /\ Goto(IF auth.signedIn THEN "backoff" ELSE "top")
        /\ UNCHANGED <<suspended, queues, command, writing>>
  /\ UNCHANGED <<auth, closed, cancelled, aborted, unseen, conn, generation, legacyReady,
                 histories>>

(* clear_if_version: the refused account is signed out, unless it has moved on *)
ClearAuth ==
  /\ manager = "clearing"
  /\ Goto("top")
  /\ IF ~closed /\ auth.session = conn.session /\ auth.revision = conn.revision
       THEN /\ auth' = [session |-> auth.session + 1, revision |-> auth.revision + 1,
                        signedIn |-> FALSE]
            /\ unseen' = TRUE
       ELSE UNCHANGED <<auth, unseen>>
  /\ UNCHANGED <<closed, cancelled, aborted, suspended, conn, flags, generation, legacyReady,
                 writing, queues, command, histories>>

--------------------------------------------------------------------------------
Manager ==
  \/ Top \/ Wait \/ Connect \/ Publish \/ Backoff \/ Loop \/ Flush \/ Written
  \/ Select \/ Ending \/ ClearAuth

Caller(c) == Submit(c) \/ Enqueue(c) \/ Expire(c) \/ GiveUp(c)

Account == SwitchAccount \/ SignOut \/ Renew \/ CloseAccount \/ CloseSocket \/ Abort

Next ==
  \/ Account
  \/ Start
  \/ \E c \in Commands : Caller(c)
  \/ Manager
  \/ WriteFailed
  \/ Die

(***************************************************************************)
(* The manager task is polled, the network and the peer fail only finitely *)
(* often in a row, the fallback timer runs, and the select is fair to each *)
(* of its branches.  Callers, the account and the deadlines owe nothing.   *)
(***************************************************************************)
Fairness ==
  /\ WF_vars(Manager)
  /\ SF_vars(Connect /\ manager' = "opened")
  /\ SF_vars(manager = "select" /\ Select /\ SelectCommand)
  /\ SF_vars(manager = "select" /\ Select /\ SelectFallback)
  /\ \A c \in Commands : WF_vars(Enqueue(c))

Spec == Init /\ [][Next]_vars
FairSpec == Spec /\ Fairness

--------------------------------------------------------------------------------
(***************************************************************************)
(* Properties.                                                             *)
(***************************************************************************)
TypeOK ==
  /\ auth \in [session : Nat, revision : Nat, signedIn : BOOLEAN]
  /\ unseen \in BOOLEAN /\ closed \in BOOLEAN /\ cancelled \in BOOLEAN
  /\ aborted \in BOOLEAN
  /\ manager \in Positions /\ suspended \in BOOLEAN
  /\ conn \in [session : Nat, revision : Nat, ending : Endings]
  /\ flags \in [connected : BOOLEAN, session : Nat, authenticated : BOOLEAN]
  /\ generation \in Nat /\ legacyReady \in BOOLEAN
  /\ channel \in Seq(Commands) /\ pending \in Seq(Commands)
  /\ writing \in [command : Commands \cup {NoCommand}, left : BOOLEAN]
  /\ command \in [Commands -> Calls]
  /\ wire \in Seq(Frames) /\ accepted \in Seq(Commands)

(* Where the frames of a command stand on the wire *)
FramesOf(c) == {i \in DOMAIN wire : wire[i].command = c}

(* What a sender may rely on (module Delivery): at most one frame a command,   *)
(* whatever reconnects, and answers that are true.                             *)
Delivered == INSTANCE Delivery WITH
  delivered <- [c \in Commands |-> FramesOf(c) # {}],
  phase <- [c \in Commands |->
    CASE command[c].state = "new" -> "new"
      [] command[c].state \in {"queueing", "waiting"} -> "open"
      [] command[c].answer = "ok" -> "ok"
      [] command[c].answer \in {"stale", "unauth", "expired"} -> "refused"
      [] command[c].answer = "closed" /\ FramesOf(c) = {} -> "refused"
      [] OTHER -> "uncertain"]
Delivers == Delivered!Spec

(* A receipt names the connection that carried the one frame of the command;  *)
(* a command dropped unanswered has not left, unless the task was aborted in  *)
(* the middle of the write (send_command, fail_pending, discard_stale).       *)
ReceiptsAreTrue ==
  \A c \in Commands :
    /\ \A i, j \in FramesOf(c) : i = j
    /\ command[c].answer = "ok" =>
         \E i \in FramesOf(c) : wire[i].generation = command[c].generation
    /\ command[c].answer = "closed" /\ FramesOf(c) # {} => aborted

(* A command leaves only on a connection of the session it was made for: work  *)
(* of one account is never sent on another account's connection, however long *)
(* it waited in the two queues (send_command, discard_stale, fail_session).   *)
OwnConnection ==
  \A i \in DOMAIN wire : wire[i].session = command[wire[i].command].session

(* Commands leave in the order the channel took them, across reconnects and   *)
(* account changes (pending, push_front, the drain of fail_session).          *)
Position(c) == CHOOSE i \in DOMAIN accepted : accepted[i] = c
InOrder ==
  \A i, j \in DOMAIN wire :
    i < j => Position(wire[i].command) <= Position(wire[j].command)

(* The end of one account's connection drops no command of the account signed *)
(* in meanwhile: only the client's own end does (fail_session, discard_stale). *)
NewAccountKeepsCommands ==
  [][\A c \in Commands :
       /\ manager = "ending" /\ conn.ending # "Closed"
       /\ command'[c].answer = "closed" /\ command[c].answer # "closed"
       => command[c].session # auth.session \/ command[c].session = conn.session]_vars

(* is_connected and is_authenticated say yes only of a connection in hand that *)
(* was opened in the current session.                                         *)
IsConnected == flags.connected /\ flags.session = auth.session
IsAuthenticated == IsConnected /\ auth.signedIn /\ flags.authenticated
ReportedConnectionIsLive ==
  IsConnected => /\ manager \in {"loop", "select", "writing", "ending"}
                 /\ conn.session = auth.session

(* A command of the account that stays signed in is settled without the help  *)
(* of its deadline: neither a suspension nor a reconnect forgets it.          *)
CommandsAreServed ==
  \A c \in Commands :
    command[c].state \in {"queueing", "waiting"} /\ command[c].session = auth.session
      ~> command[c].state = "done" \/ command[c].session # auth.session
================================================================================
