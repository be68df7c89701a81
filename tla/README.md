# A TLA+ model of sogni-client-rs

`sogni-client-rs` is a client library for a media generation service: REST and
SSE requests, one shared WebSocket, projects made of jobs, chat streams. Most of
its code maps data to JSON and back. What is hard in it is everything that
happens *while something else happens*: a token renewed while the user signs in,
a request written while the connection dies, a project looked up while it is
being resent. This directory models that part. Paths below are relative to the
repository (`src/auth.rs` is the crate's file of that name).

## 1. Inventory

| Part | State | Operations | Meets | What makes it correct |
|---|---|---|---|---|
| Authentication (`auth.rs`) | credentials, identity, session and revision counters, closed, refresh mutex, two watches | `authenticate_*`, `set_cookie_identity`, `headers`, `renew_token`, `clear`, `clear_if_version`, `close`; `RequestSession` guards | everything that sends | a late answer touches only its own credentials; one live renewal; a new wallet is a new session; close is final |
| REST and cookies (`transport/rest.rs`, `cookies.rs`) | cookie jar and its generation | `send_authenticated`, `process_response`, `stream_sse` | authentication | header and cookies of one sign-in; no old cookie comes back; the body belongs to the session |
| WebSocket (`transport/socket*`) | command channel (256), manager task and its queue, connection flags and generation | `start`, `send_receipt_in_session`, `close`, `abort`; the manager | authentication (watch), event bus | at most one frame a command, true receipts, own account's connection, order, no forgotten command |
| Project creation (`projects/api/create.rs`) | tracked projects, recorded requests | `create_with_id_detailed` | WebSocket, submission recovery | one id, one admission |
| Submission recovery (`submission_recovery.rs`, `recovery.rs`, `session.rs`) | unadmitted, awaiting, sent_on, submitted_at, sync lock, recheck epoch | restart resend, absence resend, `sync`, `resolve_missing`, rechecks, retirement | REST, WebSocket, listener | never admitted twice, verdicts are true, an open project is settled, accounts do not mix |
| Event listener (`projects/events/`) | handled session | one task: dispatch, lag recovery, session watch | bus, projects | old events do nothing |
| Projects, jobs, attempts (`projects/project*`, `job*`) | job list, retired attempts, statuses, deadlines | events, `job_for_attempt`, `retry_job`, waits | listener, replay | finished stays finished; abandoned attempts are silent |
| Queue state (`projects/project/queue.rs`) | queue revision, reason, rows | lookups and live events | listener | a late lookup never wins over a newer event |
| Replay (`projects/recovery.rs`) | none | snapshot to project | recovery | a snapshot never takes a project back |
| Event bus (`event.rs`) | broadcast ring (1024), sequence | emit, receive, lag | all listeners | a gap is noticed |
| Chat streams (`chat/socket.rs`, `events*`) | active streams, recovery maps, epoch timer | `start_completion`, chunks, terminals, handshake verdicts | WebSocket, bus | exactly one terminal; a new stream is not failed by an old handshake; a silent stream ends |
| Account (`account/`) | projection, hydration flags, async mutex | login, `set_tokens`, logout, `me`, entitlement refresh, listener of sign-ins | authentication, socket events | one account's answer does not touch another's projection or sign-in; no older subscription |
| Reusable uploads (`projects/api/reusable.rs`) | availability cache, lanes | upload, bind, remove | REST, creations | what is cached of a library belongs to its account; a bound project is whole |
| Media upload (`projects/api/media.rs`, `transport/rest/media_upload.rs`) | one deadline | 3 attempts an asset | HTTP | every asset of a tracked project arrived |
| Video requests (`projects/request*`, `projects/validation/`, `projects/wire/video.rs`) | the request being built | `add_asset`, keyframes, preparation | creation, uploads | what the wire announces is what is uploaded; pins lie inside the video |
| Tool waits (`chat/tools/wait.rs`) | queue window, processing deadline | the wait of a tool call, giving up | projects and their listener | waits as long as allowed and no longer |
| Tool loop and hosted chat (`chat/auto_tools.rs`, `runs.rs`, `hosted.rs`) | rounds | rounds 1..32 | chat, tools | one call at a time: no question of order |
| Everything else (other request builders and wire formats, results, models, costs, LoRAs, workflows, worlds, wallet cryptography, codecs, errors) | none that outlives a call | JSON in, JSON out | REST | not a question of order: left to unit tests |

`PROJECT.json` lists these with their files and their status, and every hazard
with its line and the properties that watch it.

## 2. Modules

| Module | Models | Read with |
|---|---|---|
| `AuthSession` | `auth.rs`, `send_authenticated`, `cookies.rs` | `MCClient`, `MCAuthSession`, `ClientProofs` |
| `AccountSession` | `account/`: the account shown, over the promises of `AuthSession` | `MCClient`, `AccountSessionProofs`, `ClientProofs` |
| `Delivery` | what a sender on the socket may rely on (abstract) | `SocketTransport` |
| `SocketTransport` | `socket.rs`, `socket/session.rs`; implements `Delivery` | `MCSocketTransport`, `MCLiveness`, `SocketTransportProofs` |
| `VideoRequest` | what a video request announces and uploads | `MCClient`, `VideoRequestProofs`, `ClientProofs` |
| `Uploads` | `process_assets`, `reusable.rs`, `media_upload.rs` | `MCClient`, `UploadsProofs`, `ClientProofs` |
| `Submission` | `create.rs`, `submission_recovery.rs`, `recovery.rs`, `session.rs`, the project listener | `MCSubmission`, `MCLiveness`, `SubmissionProofs` |
| `ProjectJobs` | `project.rs`, `attempts.rs`, `queue.rs`, `job/runtime.rs`, the job events and `projects/recovery.rs` | `MCProjectJobs`, `ProjectJobsProofs` |
| `ToolWait` | `chat/tools/wait.rs` and the end of `execute_tool_call` | `MCSocketTransport`, `SocketTransportProofs` |
| `ChatStream` | `chat/socket.rs`, `chat/events.rs`, `transport_recovery.rs`, the bus | its own configurations, `ChatStreamProofs` |

A creation runs through three of them: `VideoRequest` prepares it, `Uploads` brings its
media to the service, `Submission` tracks and sends it. `ChatStream` and `Submission` see
of the socket what `SocketTransport` promises its callers; `AccountSession` sees of
AuthManager a session and an account.

The MC modules give the parameters their values. Some hold several parts that share no
state: a variable `running`, chosen in the initial state, says which part runs, while the
others rest as they started. The state space is the sum of the parts', not their product.
The scenarios of `MCSubmission` and `MCProjectJobs` (`scenario`) are restrictions of the
steps of the one module each extends: each behaviour is one of `Submission` or of
`ProjectJobs`, about which the proofs are. A module that is only
instantiated states what its parameters may be as `ConstantsAreSound`, and the MC
module assumes it for the values it chose.

Definitions under a comment "Fault" are not part of any specification. Each is a
plausible bug, written with the parameters of the definition that follows it, to
show that some property would notice it.

### AuthSession

`credentials`, `identity`, `session`, `revision`, `closed` and `refreshLock` are
the fields of `AuthState` and `AuthInner`; `generation` and `jar` those of the
cookie jar. A section under the write lock is one step, and so is whatever a task
does between two awaits. Each worker runs one operation at a time: a request
(`Begin`, `ReadState`, optionally a renewal, `ReadCredentials`, `ReadCookies`,
`Send`, `Respond`, `HandleStatus`, `CheckResponse`, `StoreCookies`, `ReadBody`) or
the renewal a sign-in with an expired token starts. `Live(id)` is
`RequestSession::check`; a guarded await looks at it when it resumes and when it
completes (`Abandon` is the select that sees the session end first, `Drop` the
caller that loses interest).

Secrets are numbers, a new one for each pair or key (`minted`); the owner of a
pair is the wallet its token names, or nobody for an opaque token. Expiry is an
age of the installed pair that the clock only increases. The cookies in the jar
are named by the generation they were earned in.

### SocketTransport and Delivery

`manager` is the position of the one manager task: `top`, `wait` (signed out or
suspended), `connecting`, `opened`, then inside `socket_session` `loop`, `select`,
`writing`, then `ending` (with `clearing` for the close codes that sign out) and
`backoff`. `auth` is what the socket sees of AuthManager, `unseen` its watch.
`channel` is the bounded command channel and `pending` the manager's own queue.
`Flush` and `Written` are apart because the frame may leave and its writer, or the
caller, never learn of it. `Delivery` says what that amounts to: a command is
delivered at most once; "ok" means it was, "refused" that it never will be,
"uncertain" nothing. The refinement maps the callers' answers to these three.

### Submission

One project id. `handle` is the Project each creation made and the position of
its call, `tracked` the entry of the projects map, `submission` the struct
`SubmissionRecovery` restricted to the id, `task` the restart task of a handle,
`pass` the recovery passes under way (a `sync`, with the reconciliation, or a
`resolve_missing` called by the application). `frames`, `service` and `inbox` are
the socket, the service and the event queue. `Undelivered` to `Resend` is
`resend_undelivered`; `AwaitRestart` to `FailTask` is `resubmit_if_restarting`.

### ProjectJobs

One tracked project and the two threads that change it. The listener hears one
event at a time: `HearAttempt` is `job_for_attempt` with `clear_job_queue`,
`UpdateJob` the `job.update` after it and `UpdateParent` the `project.update`; the
lock of the first is released before the second, which is where the recovery may
step in. The recovery reads the queue revision (`Ask`), gets its answer (`Look`) and
replays it: `BeginReplay`, then `SkipJob` or `ReplayClaim` and `ReplayUpdate` for each
job listed, then `StopReplay`, or `Settle` and `ReplayStatus`; `CancelJobs` is the end
of `cancel_project`. The revision itself is reduced to what the recovery asks of it:
`fresh` says that it is still the one read last. Every event that advances it makes
`fresh` false, every read makes it true.

A job is its attempt id, its index, its status and its deadline (`armed` is the
attempt the deadline was given to). `Heirs` are the jobs an unknown attempt may
continue. `waiter` is a caller of `wait_for_completion`, who looks when notified.

### ToolWait

The listener changes the project on one thread (`Announce` to `Conclude`; the handlers of
the job events, reduced to the status of a job and the deadline of its attempt); the tool
call waits on another. `Watch` subscribes to jobs it has not seen, `Look` reads the
processing deadline and lets `QueueWindow` observe it, then the select returns the
result (`Return`), hears the `Timer` and looks again, or hears an `Event`. A deadline is
the number of ticks left, so that time needs no bound; `Prompt` keeps a tick from
passing while a task of the client could run. `idle` counts the ticks since an attempt
was last processed: the property compares it with what the call allows.

### AccountSession

`auth` stands for AuthManager: the account, the session. `call` is the position of each
call of `login`, `set_tokens`, `me`, `logout` or the refresh of entitlements, `listener`
the task that hears of sign-ins, `lock` the mutex of the projection they all take.
`projection` and `shown` are `AuthProjectionState` and the account a reader sees,
`state` the `SubscriptionProjectionState`. `Renew` is a renewal inside any request: its pair may
name another wallet, and then a session begins that no call hydrates. Each answer about the
subscription states a version or none (`states`). With the runtime `"one_thread"` only a position in
`Awaiting` can be interleaved; with `"many_threads"` every position can.

### Uploads

`task` is one creation inside `process_assets`, or one explicit `upload`, at its position
between two awaits: `ask` to `capabilities` is `can_save`, then the lane, the calls of
`post_busy`, the transfers of `media_upload::put`, `Finalize` and `Bind`; `Fallback` is every
way to the upload for the project alone. `cache` is `Availability`, with the history
of the session each answer was learned in; `received` what the service holds.

### VideoRequest

The caller adds assets in any order and pins keyframes (`AddAsset`, `PinKeyframes`);
`Prepare` is the rest of `create_with_id_detailed` up to the uploads: the marks, the
validation of the model's family, the wire; `Upload` registers the assets under their
names. `WireName` is the name the wire announces, `registered` the names uploaded.
What goes through the assets one after the other (`Marked`, `Others`) is written as a
recursive function, which the provers can unfold, where a fold would do for TLC.

### ChatStream

`call` is one `start_completion`, `listener` the task that hears the bus and takes
the locks of the active streams and of the recovery maps one after the other, `timers`
the epochs whose 35 seconds run. `Judge` compares the handshake's list with
`recovery.sent`; `Expire` is a timer. `conn` and `jobs` are the connection, as
SocketTransport lets it be, and the peer. `out` is what the caller was given, in order.

## 3. Runs

Passing:

| Run | Instance | Shows |
|---|---|---|
| `MCClient` | four parts: `AuthSession` with 2 workers, 2 wallets, 3 kinds, `MaxRevision` 2; `AccountSession` with 2 calls, 2 accounts, renewals of either: all operations but the refresh on both runtimes, all but login with 3 versions of the subscription, stated or not, on one thread; `Uploads` with 2 creations of 2 assets and a save; `VideoRequest` with every model and 3 assets | `VersionNamesCredentials`, `OneLiveExchange`, `NoMixedRequest`, `JarOfThisSignIn`, `OnlyOwnCredentials`, `SwitchIsNewSession`, `OwnRejectionReported`, `SuccessIsCurrent`; `SettledShowsOwn`, `OnlyOwnSignOut`, `SubscriptionNeverOlder`; `TrackedIsWhole`, `OwnRefusalsOnly`; `PromisedAreUploaded`, `PinsInside` |
| `MCAuthLive` | 2 workers, 1 wallet, tokens, `MaxRevision` 1, with fairness | `OperationsEnd` |
| `MCSocketTransport` | the socket with 2 commands, a channel of 1, 2 account changes, 2 connections; a tool call that waits 2 ticks for 2 results whose attempts may take 3 | `ReceiptsAreTrue`, `OwnConnection`, `InOrder`, `ReportedConnectionIsLive`, `NewAccountKeepsCommands`, `Delivers` (refinement of `Delivery`); `WaitsAsAllowed` |
| `MCSubmission` | 1 creation, 2 passes, 3 connections; 2 creations of one id by 2 accounts with a pass, and with a third connection | `AdmittedOnce`, `LostIsTrue`, `OwnAccountWire`, `EndedAccountIsSilent` |
| `MCLiveness` | 1 command on the socket; 1 creation, 1 pass, 2 connections; with fairness | `CommandsAreServed`, `UndeliveredIsSettled` |
| `MCProjectJobs` | 2 renders, 3 attempts, frames with the index; 1 render of 2 attempts without the index, with 2 explanations and a cancellation, and with 1 lost connection | `OneHandle`, `TerminalIsTrue`, `QueueNeverOlder`, `ResultsAreCounted`, `DeadlineFixed`, `StaysFinished` |
| `MCChatStream` | 1 stream, 2 accounts, 2 connections, both kinds of peer and of close | `OneTerminal`, `NoLeftovers`, `MissingIsTrue`, `OwnEventsOnly` |
| `MCChatLive` | 1 stream, 1 account, 2 connections, both kinds of peer and of close, an overrun of the bus, with fairness | `StreamsEnd` |

Violations, each a disagreement between the code and its own words:

| Run | Property | What happens |
|---|---|---|
| `SubmissionRestart` | `RestartIsTrue` | The resend after a restart refusal fails after its frame left; the project is failed with "The server restarted before accepting this project", yet the service admits it |
| `ProjectInherits` | `NothingInherited` | The replay of a snapshot finds the job of attempt 1; the listener hears attempt 2 and resets the job for it; the replay then writes attempt 1's state into it |
| `SubmissionLate` | `AdmittedOnce` | The registry is read empty, the request is admitted, the connection is lost and restored before the pass goes on: the request is resent although the absence was read before the loss, and is admitted twice |
| `RequestSlots` | `NumberedAreAnnounced` | The numbered references 1, 3 and 2 of MiniMax H3 are added in this order: marking 2 cuts off the mark of 3, all three are uploaded, and the third is never announced |

`SubmissionLate` needs an answer or event slower than a reconnection (`Late`). The run
`MCSubmission` holds the same property with `Late = FALSE`: then answers in hand are used, and
events that arrived are heard, before the next connection authenticates and
before the grace ends. The two runs say together which timing the code relies on.

### Bounds

`MaxRevision` bounds what the user, the clock and 401s do: they act while the revision
is below it. Two are enough for a sign-in and, while a renewal or a request is
under way, another sign-in or sign-out before its late answer; renewals, what late
answers clear, and close are not bounded. Two workers are enough for a race of two renewals, and of a
renewal and a request. Two commands give every overtaking; a channel of one place
makes a sender wait. Three connections are a loss, a resend and a second loss.
Two passes race for one resend. The counters `session`, `generation`, `minted` are
bounded only through these.

`AccountSession`: calls and renewals (`Renew`) begin new sessions while `session` is below `MaxSession`;
two calls and the listener are every race of a late answer with a newer sign-in.
`MaxVersion` 3 gives two changes of the subscription: a versionless write between two stated
versions, and an answer read before and applied after a write.
`Uploads`: one account change, two assets (one may be saved, the next fall back), two
lanes for three tasks, 2 of the 5 tries of `post_busy` and 2 of the 3 transfers. `VideoRequest`: three
assets are what a numbered reference needs to be overtaken; the lengths and pins are
values at both sides of each rounding and edge. `ToolWait`: two jobs (one served, one
not), attempts that outlast the queue time. `ChatStream`: one stream, since streams meet
only in maps keyed by id; two connections are a loss and a handshake after it; a bus
of one event still lets each event wait while the account and the connection change.
`FirstPhases`, `MaxAttempts` and `MaxAssigned` bound the worker attempts of ProjectJobs:
with two renders one of them is reassigned.

`CHECK_DEADLOCK FALSE` stands in the configurations: a closed client, a finished
project or stream, or one whose bounded budget of changes is spent, has nothing left
to do. The two Submission violations check deadlock.

In ProjectJobs a second attempt is enough for every reassignment, and a second render
for two jobs that could be taken for one another and for a batch that fails in part.
`Quiet` keeps the service silent while an event or a snapshot is being applied (no await
happens there); the listener still interleaves with the replay through the event that
is on its way, so `MaxInbox` is the number of events heard during one replay. The runs
have no bound on recoveries. The frames of the scenarios differ because the two ways an
attempt finds its job do: by the index, or as the only one announced by a retry.

### Fairness

Of the client's own tasks, nothing else: ready tasks run, a request ends within
its timeout (`HttpClients`), the refresh mutex is first in, first out (strong
fairness of `AcquireLock`), the manager's select is not starved in one branch
(tokio picks among ready branches at random), connections succeed in the end. In
Submission the service settles frames, the recheck that is due starts a sync.
`Age`, `Reconnect` and `RecheckSync` are strongly fair: the first two are delayed by
the timing assumption `Prompt`, the last by the model's bound on passes, and none of
these can stop them for good in the code. In ChatStream the manager, the listener and
each call run on, timers end (`Expire`, `FailTaken`), and the peer settles the jobs it runs
(`Finish`); it owes no answer for a job it lost. The callers of this run stay with their streams
(`StayNext`): of one who leaves there is nothing to say. The user, the account, the network's
failures and the callers' deadlines owe nothing.

## 4. What is proved

`ClientProofs`, first part (any workers, accounts, kinds, any bound, from `AuthAssumption`):

* `TypeCorrect`: `Spec => []TypeOK`, one lemma for each group of actions.
* `VersionsAreFresh`: `Spec => []VersionNamesCredentials`. The invariant is
  inductive with `TypeOK`: every action that writes `credentials` advances
  `revision`, so an operation's version either is behind the current revision or
  was read with what is installed. Without it nothing would relate the pair an
  operation holds to the state its late answer meets.
* `StaleAnswersAreHarmless`: `Spec => OnlyOwnCredentials`. A step of an operation
  that changes the credentials does so behind `Matches(version)`, and by the
  invariant a version that matches names them.

Its second half proves the other six safety properties of AuthSession, under the
same assumption: `CookiesAreOfThisSignIn`, `RequestsAreWhole`, `ExchangesAreSingle`,
`SuccessesAreCurrent`, `RejectionsAreReported` and `WalletsAreApart`. They rest on one
inductive invariant, `Guarding`, of three parts. `Guard` says what an operation at each
stage knows: while its session lives, its version, its mutex and its cookies are of
it. `Exclusive` says that two holders of one mutex are one. `JarOfThisSignIn` needs both:
only an operation that still is of this sign-in stores its cookies. The argument for a
step is that the session only advances, and that `generation` and the mutex change only
with it (`Forward`), so that what an operation knows is kept or no longer asked for.

Its second part is about the client of `MCClient`, in which one part runs and the others
rest. Each property that the proofs below state of `AccountSession`, `Uploads` or
`VideoRequest` is carried over to the formula that TLC checks: `ClientShowsOwn`,
`ClientEndsOwn`, `ClientNeverOlder`, `ClientTracksWhole`, `ClientRefusesOwn`,
`ClientPinsInside`, `ClientKeepsPromises`. The argument is the same for each: a part that
runs takes the steps of its own specification, one that does not stays as it started, so
the client implements the specification of the part from a start in which it is running.

`AccountSessionProofs` (any calls, accounts, sign-ins, renewals and changes of the
subscription, from `ConstantsAreSound`) proves every property of AccountSession. What is shown
may well be wrong for a while: a second sign-in, or a renewal that names another wallet, lands
between the fetch and the showing of the first. So `SettledShowsOwn` is not inductive, and
`Showing` says when it may be. Its last part, `Due`: unless such a renewal has `raced` with a
task about to read the session under the lock, what is shown does not fit the session only
while somebody will put it right (`Pending`): a call that installed another account and has
not reset what is shown (`Resetting`), a call that hydrates its own session, the listener,
which will be told of a sign-out, or the listener woken while the projection is of a session
before (`Notified`, which is what puts a renewal right). The same holds of what a task is about
to show; one that has applied its answer to a session that is over and now claims the present
one needs somebody who resets (`Strict`), since the listener would find nothing to do. The
lock is why all this is preserved: whoever puts things right takes it, so no task inside it
shows an old account afterwards (`LockHeld`); an account that was fetched is the one signed in
as long as its session lasts (`KnowsOwn`), and the projection is never ahead of the session
(`Past`). This part holds on many threads too.

The other two properties are about one thread and rest on `Undisturbed`: whoever runs finds
all others waiting for the network, so what it compared still holds where it acts on it.
`OnlyOwnEnds` follows at once. `NeverOlder` rests on `Told`: nothing is heard that the service
does not have (`Dated`); the version that is kept is the newest stated, so whatever states one
is compared with it (`Stated`), an answer that overtakes a write without a version included;
and a read that began in the present session finds the projection of that session, and, if no
write of the socket was counted since, the newest that was heard (`Reads`). For the last, the
count must not start again within a session in which somebody reads: a reset is by a call that
began a session since, or by the listener, which finds the projection in place.

`UploadsProofs` (any creations, saves, assets, lanes and retries, from
`ConstantsAreSound`): `TrackedProjectsAreWhole` and `RefusalsAreOwn`. A step of a task
starts it, moves it, or takes it past the asset it just delivered (`Taken`), so whatever
precedes the asset in hand has been received in the creation's session (`Whole`). For
the cache, `Own`: what it holds was learned in the session it was last seen in, and a
creation past its question to the cache left it refreshed for its session. Without the
second part `Full`, which marks the cache without refreshing it, would not preserve
the first.

`VideoRequestProofs` (every model, any number of assets and keyframes, any lengths, from
`ConstantsAreSound`): `PinsAreInside` and `PromisesAreKept`. What the wire announces is read
from the parameters, what is uploaded from the assets, and the parameters are written by
marking every asset, one after the other and twice. So the lemmas say what a number of
marks leaves: whatever is marked comes from an asset (`ComesFrom`, kept by one mark in
`MarkSound`, by any number in `MarkedSound`, by induction on it). From `RolesFit`, which is
checked before anything is uploaded, an announced name then is the `WireName` of an asset
(`AnnouncedIsUploaded`); of the numbered ones only their number is announced, and slots are
contiguous (`SlotsAreUploaded`). A pin lies inside the video because `PinsFit` compares it
with the length that the wire states.

`SocketTransportProofs` (any commands, capacity, account changes and failures) proves
every safety property of the socket's run and the refinement of `Delivery`. Its invariant
`IInv` adds to `TypeOK`:

* `Connections`: what the manager's position says of the connection in hand; from it
  follows `LiveConnectionsAreReported`.
* `CallsMade` and `TakenCalls`: only commands that were called are queued anywhere.
* `Line`: the wire, the command in hand, the manager's queue and the channel are, in
  this order, parts of the order of acceptance without repetition. Only the four together
  are inductive: the manager moves commands from each to the one before, puts one back
  in front, and throws out those of one session in the middle. `FramesLeaveInOrder` is its
  first part.
* `Hands` and `Receipts`: the command in hand was written on this connection, under its
  own account, and a sender still waits only if its command is in hand or was
  never written. `ReceiptsHold` and `FramesGoToOwnAccount` follow.

`SocketDelivers` is `Spec => Delivers`, by one lemma for each kind of step: each is a step
of `Delivery` under the mapping or leaves what it maps to as it is. `Die` settles many
commands at once, which is why `Settle` takes a set. What remains of a queue after a
discard is defined by recursion on its length; its lemma uses the least length at which
it could be wrong. `AnswersStayTrue` is about `Delivery` itself: in the abstract
specification refused commands are never delivered and confirmed ones are.

`ChatStreamProofs` (any streams, peers and closes, any number of accounts, connections and
lags). `InvariantHolds` proves `IInv`: `Types`; `Ends`, what has ended is in no map and what
a handler holds has not; `Places`, in which map a stream may be at each position
of its call; `Begun`, nobody holds a stream that has not begun; `Hearsay`, whose session
an event waiting or in hand belongs to; `Handshakes`, what a handshake frame on its way, on
the bus or in hand does not list was written after it, or is not running. The last is the
argument for comparing sequence numbers in `transport_recovery.rs`. `StreamsEndOnce`,
`NothingIsLeft`, `HandshakesFailWhatIsGone` and `EventsStayInTheirAccount` follow.

`SubmissionProofs` (any creators, passes, sessions and connections, from
`ConstantsAreSound`) has two invariants. `AccountsHold`: each handle, task, pass, frame and
message belongs to a session that has begun, and what belongs to the current one is what
the shared struct is about (`Accounts`). It gives `SubmissionTypes`, `RequestsGoToOwnAccount`
and `EndedProjectsAreLeftAlone`, whatever the timing. `OnceHolds`, with the further
assumption `~Late` (the setting of `MCSubmission`; `SubmissionLate` shows that it is needed),
is about who may still make the service admit a request: the creation, the restart
task, one pass, or the one frame of it on the wire, and never two of them (`OneRequest`,
`ResentOnce`). For that it must say what every answer still in use proves: a refusal
event (`Told`), the receipt of a send (`Receipt`), a registry read as empty and a status
read as absent (`Looked`, `Quietness`). `RequestsAreAdmittedOnce` and `LostProjectsAreLost`
follow; so does, with `Untouched`, that an id is not admitted unless its creation was
tried.

`ProjectJobsProofs` (any media, attempts, explanations, losses and events on their way,
from `ConstantsAreSound`). The types say more than `TypeOK`: what each event and each
position of the two threads holds. `JobsMove` is what a step may do to the jobs: nothing,
one job renewed for the same attempt, one handed to another attempt while the old one is
retired, one added; each handler is shown to be one of these, and `OneHandleHolds`,
`DeadlinesHold` and `FinishHolds` follow. `QueueHolds` rests on `AnswerIsNew`: a recovery whose
revision is still `fresh` holds an explanation no older than what was heard since.
`EndIsTrue` and `ResultsHold` share one invariant, `Accounted`, of three parts. `Honest`: every
event on its way, event being applied and snapshot being replayed is true of the service, and
stays so, since a render that ended does not start again. `Produced`: a completed project has
a render that was produced, and no canceled job. `Blamed`: the listener also ends a project by
itself, and a caller is answered, when every job they know has ended and there are as many as
were requested. Jobs change hands and retried attempts have ids of their own, so this counts
something else than it decides. The invariant charges each job that completed or failed, and
the job such an event is being applied to, to a render of its own that ended the same way (a
map from those jobs into the renders, which changes with the steps). As many failed jobs as
renders requested then leave no render that did not fail. In the same way, when a caller is
answered there are as many finished jobs as renders, so the charge is one to one (`Whole`),
stays so because finished jobs no longer change (`WholeStays`), and the results returned are as
many as the renders that were produced.

The last part of `SocketTransportProofs` is `ToolWaits` (any results, queue time and budgets):
the call keeps its deadlines. A sleeping call has seen the project as it is, or an event that
will wake it is on its way or about to be sent (`Seen`): the listener changes jobs before it
sends, so neither alone is inductive. The age of its queue window lies between
the two histories of `idle` (`Counted`); it may exceed them only while an attempt is processed,
after which it starts again.

Every safety property, action property and refinement of a passing run is proved. Checked by
TLC only is all liveness, `OperationsEnd`, `CommandsAreServed`, `UndeliveredIsSettled` and
`StreamsEnd`, which is out of the prover's reach, as is ENABLED. The counters of `ChatStream`
are bounded by its `TypeOK`; the proof has no use for the bounds (`Types` says what it needs).

## 5. Abstractions

* AuthSession: a section under the lock of `AuthState` is atomic; the two watches
  change with it; JWT contents reduce to owner and age; retries are not modelled.
* SocketTransport: backoff lengths, pings, TLS, event payloads and subscriptions
  are left out; the reads of `is_authenticated` are one step; the 10 s of silence
  after which a legacy peer counts as ready may pass at any time.
* Submission: adjacent lock sections without an await are one step, which hides three
  windows (`create.rs:70-76`, `submission_recovery.rs:203-207`, `session.rs:9`). On one thread nothing
  comes between. Taken apart, the first lets two accounts that share an id and both
  resend break `OwnAccountWire`, the second breaks `AdmittedOnce` and `EndedAccountIsSilent`,
  the third retires a project of the newer session. `connected` means an authenticated socket. Assumed of the environment:
  frames are settled before the next connection authenticates and within
  the grace; a record exists before a project leaves the live registry; a project does
  not come and go between the two lookups of one pass; the four default lookups
  (`projects.rs:98-103`) outlast settlement, so a `resolve_missing` with a custom single attempt is not
  covered; the application does not reuse an id in one account
  while its creation runs or after its send failed (`README.md:246`). Result URLs,
  `recover_project`'s own insert and `list_projects_elsewhere` are left out. The
  cause recorded with a failure (`lost`, `unsent`, `restart`, ...) is history: the two
  kinds of loss have one text in the code.
* ProjectJobs: the account does not change (Submission has that); `job_for_attempt` and
  `clear_job_queue` are one step, and so are a `job.update` and what it emits, so that a
  result stored by one thread while the other is inside `job_for_attempt` is not shown
  (the reset would discard it). The fields of a job that only describe it (steps,
  worker, seed, media) go with its status. An explanation has a row for each waiting
  result and its age; a reason without rows is left out. Assumed of the service: a late
  frame belongs to an attempt of which something was heard before; the verdict is
  announced after the results; a render that ended is not started again. A late frame of
  an attempt never heard of would take the job from its successor: nothing in
  `job_for_attempt` can tell which of two unknown ids is older. `ResultsAreCounted` says how
  many results a caller is given, not under which attempt's id one stands: the replay of a
  snapshot can write attempt 1's id onto the job of attempt 2 (`ProjectInherits`).
* AccountSession: tokens only; the hydration of a client that is built with credentials,
  balances and the wallet calls are left out. A section that checks something under the lock
  and acts on it is one step, except where the session is read again (`ShowNow`). `OnlyOwnSignOut` and
  `SubscriptionNeverOlder` are stated for a runtime of one thread: with many, a logout (or
  the rollback after a failed hydration) that checked its session may clear an account
  signed in since (`authentication.rs:188`, `136`), and an answer compared with the socket's
  writes may be applied after a newer one (`projection.rs:177` drops the lock before the
  update). `SettledShowsOwn` is for both runtimes.
  Where the code does not keep what these properties say, they leave it out by name:
  * `raced`: on many threads, a renewal whose token names another wallet (`auth.rs:590-611`) may land
    between the guarded lock of `me` or of the listener and its read of the session
    (`authentication.rs:197-207`, `listeners.rs:131-144`). The old account is then shown as
    hydrated for the new session; the listener, told of the change, returns because it is hydrated
    (`listeners.rs:126`), and nobody puts it right.
  * a socket entitlement without a `subscription` object states no version
    (`projection.rs:23-28`, `42-44`); the answer of a refresh that states one and was read before is
    then compared with versions only (`159-164`) and applied, on one thread: the subscription
    goes back. `CHANGELOG.md:168-169` promises "Version-aware subscription projections that prevent stale
    REST responses from overwriting newer socket entitlement events". `SubscriptionNeverOlder` says what
    does hold: a refresh without a version does not undo what the socket wrote while it was under
    way, and stated versions never go back.
  * `previous`: a refresh that began after such a renewal and before the listener reset the
    projection for it: the reset starts the count of socket writes again (`authentication.rs:347-353`), so a
    count read before it may match by accident.
  Versions are assumed to follow the order of the changes. What is shown after a sign-in may
  also be nobody: the `skip` that was set for one sign-in may be consumed by the notice of
  another (`listeners.rs:122`), and a call that fails leaves the account unhydrated.
* Uploads: one thread; with many, the block of an old account's full library may
  land after the new account refreshed the cache. `list`, a binding by the caller, and the
  presigned forms are single calls and left out. An explicit upload is not dropped when
  the account changes, but looks at its session after each await.
* VideoRequest: the assets are of typed roles. `AssetRole::Custom`, which takes any name (a
  Custom "referenceAudio" of H3 r2v is uploaded as that and announced as `hasReferenceAudio1`),
  and parameters set without an asset (`param`, `from_value`) are left out, so
  `PromisedAreUploaded` says nothing of them. Seconds are whole; left out are scalar options (steps, guidance, size),
  the offset of an array of context images, `extendOutput`, packed references,
  reference durations, the limits a model sets on more than three references, and the
  wires of images, audio and 3D. "edit" stands for edit and extend.
* ToolWait: creating the project takes no queue time; what wakes
  `wait_for_completion` is in ProjectJobs; the checks of the session around the wait are
  those of AuthSession. Completed with results missing, a wait has no timer (the
  code leaves the end to `wait_for_completion`). An attempt that starts and ends between two
  looks need not open the window again: `idle.any` and `idle.tick` say how far apart
  the two readings may be.
* ChatStream: `sequence` counts handshakes only; removing a stream and forgetting its
  recovery entry at one end are one step; of `jobState` events only those that say a job
  lives matter; an overrun loses at least one waiting event; the wrap of the epoch is
  ignored, and a timer may end at any time. The handshake of a modern peer comes within the
  10 seconds after which a peer counts as legacy. Three limits of the code the properties leave out:
  a stream whose receipt is not handled yet when the loss of its connection is heard is given no
  timer (`transport_recovery.rs:102`); if the next peer lists no jobs, whose handshake is then
  skipped (`174-176`), or if the connection was switched (4015) and no other follows, and its job is
  gone, the stream waits for ever, although the comment at `115-116` says "Bound silence even when an
  older peer cannot report surviving job ids in its authentication frame". `StreamsEnd` excepts these
  streams (`LeftOut`) and no other; the listener reads the session once at each change, so a change
  and a return to a later session between two reads is one change, and `StreamsEnd` has one
  account; a terminal close heard late also fails a request made since on a new
  connection, which `MissingIsTrue` excepts (`closed`).
* Type invariants: those of AuthSession, AccountSession, Uploads, SocketTransport, ToolWait
  (`ToolTypes`), ChatStream (`Types`), Submission and ProjectJobs are proved; none is part of
  a run, whose time goes to the properties.

## 6. Not modelled, and what remains

The tool loop and hosted chat run one completion and its calls at a time and otherwise map
JSON; results, models, costs, LoRAs, workflows, worlds, wallet cryptography, errors and
codecs keep no state that outlives a call. Unit tests reach what can go wrong there.

What remains of the plan, in order:

1. ProjectJobs: the steps inside `job_for_attempt`, a failed lookup followed by another
   sync, `recover_project`; an abstract `JobOutcome` (a job ends once, as its last
   attempt did) that it implements.
2. The requests of images, audio and 3D beside those of videos.
3. Submission with its fused sections apart, for runtimes of many threads.
