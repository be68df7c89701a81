-------------------------------- MODULE Uploads --------------------------------
(***************************************************************************)
(* The media of a project on its way to the service, from the start of     *)
(* create_with_id_detailed to the moment its handle is tracked             *)
(* (src/src/projects/api/create.rs, media.rs): each asset is bound from    *)
(* the library of saved uploads (reusable.rs), or uploaded for the project *)
(* alone (transport/rest/media_upload.rs).  What is known of the library   *)
(* is cached for all the tasks of a client, whose account may change.      *)
(*                                                                         *)
(* An action runs from one await to the next, undisturbed: the runtime has *)
(* one thread.                                                             *)
(***************************************************************************)
EXTENDS Naturals, FiniteSets, TLC

CONSTANTS
  Creations,    \* the projects that are created
  Saves,        \* the explicit uploads to the library
  Nobody,       \* holds the lock of the cache when no task does
  AssetCount,   \* the assets of a project
  Lanes,        \* permits of ReusableInner.lanes
  BusyTries,    \* post_busy makes this many calls (5 in the code)
  Transfers,    \* media_upload::put makes this many (ATTEMPTS, 3 in the code)
  MaxSession    \* bound: the account changes while session is below it

Tasks == Creations \cup Saves

(* ASSUMEd by the module that instantiates this one *)
ConstantsAreSound ==
  /\ Creations \cap Saves = {} /\ Nobody \notin Tasks
  /\ {AssetCount, Lanes, BusyTries, Transfers} \subseteq Nat \ {0}
  /\ MaxSession \in Nat

VARIABLES
  session,   \* AuthManager's session
  cache,     \* Availability; history: the sessions it learned capability and blocked_until in
  lock,      \* who holds Availability
  lanes,     \* the tasks that hold a lane
  task,      \* each task: position, session, the asset in hand, calls made of one request
  received   \* history: what the service holds for a project, by binding or transfer

vars == <<session, cache, lock, lanes, task, received>>

Init ==
  /\ session = 1
  /\ cache = [seen |-> 1, capability |-> "unknown", learned |-> 1, blocked |-> FALSE, refused |-> 1]
  /\ lock = Nobody /\ lanes = {}
  /\ task = [t \in Tasks |-> [pc |-> "idle", session |-> 0, asset |-> 1, tries |-> 1]]
  /\ received = {}

At(t, position) == task[t].pc = position
Goto(t, position) == task' = [task EXCEPT ![t].pc = position, ![t].tries = 1]
Over == {"idle", "done", "failed", "tracked"}

(* RequestSession.check of a creation, assert_session of the library *)
Current(t) == task[t].session = session

(* A task moves on at a position: in its own session, or not at all *)
Runs(t, position) == At(t, position) /\ Current(t)

(* What a task holds is released with it *)
Release(t) ==
  /\ lanes' = lanes \ {t}
  /\ lock' = IF lock = t THEN Nobody ELSE lock

KeepHeld == UNCHANGED <<lock, lanes>>
KeepWorld == UNCHANGED <<session, received>>

--------------------------------------------------------------------------------
(***************************************************************************)
(* The account changes; an entry of the cache expires; remove makes room.  *)
(***************************************************************************)
SwitchAccount ==
  /\ session < MaxSession /\ session' = session + 1
  /\ UNCHANGED <<cache, lock, lanes, task, received>>

Expire ==
  /\ cache.capability # "unknown"
  /\ cache' = [cache EXCEPT !.capability = "unknown"]
  /\ UNCHANGED <<session, lock, lanes, task, received>>

(* The end of 15 minutes, or remove, which waits for the lock *)
MakeRoom ==
  /\ cache.blocked /\ lock = Nobody
  /\ cache' = [cache EXCEPT !.blocked = FALSE]
  /\ UNCHANGED <<session, lock, lanes, task, received>>

(* RequestSession.run drops the creation at once; a save notices after its next await *)
Ended(t) ==
  /\ task[t].pc \notin Over /\ ~Current(t)
  /\ Goto(t, "failed") /\ Release(t)
  /\ UNCHANGED cache /\ KeepWorld

(* An error of the step in hand is returned to the caller *)
Fail(t) == Goto(t, "failed") /\ Release(t)

--------------------------------------------------------------------------------
(***************************************************************************)
(* create_with_id_detailed and process_assets.                             *)
(***************************************************************************)
(* The creation keeps its session; a save first waits for a lane *)
Start(t) ==
  /\ At(t, "idle")
  /\ task' = [task EXCEPT ![t].session = session,
                          ![t].pc = IF t \in Creations THEN "prepare" ELSE "lane"]
  /\ KeepHeld /\ UNCHANGED cache /\ KeepWorld

(* prepare_submission reads the options of the model *)
Prepared(t) ==
  /\ Runs(t, "prepare")
  /\ (Goto(t, "read") /\ KeepHeld) \/ Fail(t)
  /\ UNCHANGED cache /\ KeepWorld

(* MediaSource.read_for_role, then the first conditions of try_bind *)
ReadAsset(t) ==
  /\ Runs(t, "read")
  /\ \/ Goto(t, IF t \in Saves THEN "reserve" ELSE "ask") /\ KeepHeld
     \/ t \in Creations /\ Goto(t, "url") /\ KeepHeld
     \/ Fail(t)
  /\ UNCHANGED cache /\ KeepWorld

(* The asset in hand is with the service: the next one, or the project is complete *)
NextAsset(t) ==
  task' = [task EXCEPT ![t].pc = IF task[t].asset = AssetCount THEN "track" ELSE "read",
                       ![t].asset = IF task[t].asset = AssetCount THEN @ ELSE @ + 1,
                       ![t].tries = 1]

Receive(t) == received' = received \cup {[project |-> t, asset |-> task[t].asset, session |-> session]}

(* Fault: a refusal of the library passes for a binding *)
FallbackBound(t) == NextAsset(t) /\ Release(t)

(* try_bind gives up, and the asset is uploaded for the project alone *)
Fallback(t) == Goto(t, "url") /\ Release(t)

(* upload_url, media_upload_url *)
GetUrl(t) ==
  /\ Runs(t, "url")
  /\ (Goto(t, "transfer") /\ KeepHeld) \/ Fail(t)
  /\ UNCHANGED cache /\ KeepWorld

(* media_upload::put: a transfer that may be retried is, while the deadline leaves time *)
Transfer(t) ==
  /\ Runs(t, "transfer")
  /\ \/ Receive(t) /\ NextAsset(t) /\ KeepHeld
     \/ UNCHANGED received /\ Fail(t)
     \/ /\ task[t].tries < Transfers /\ task' = [task EXCEPT ![t].tries = @ + 1]
        /\ UNCHANGED received /\ KeepHeld
  /\ UNCHANGED <<cache, session>>

(* The session is compared, again under the lock of the tracked projects *)
Track(t) ==
  /\ Runs(t, "track")
  /\ Goto(t, "tracked") /\ KeepHeld
  /\ UNCHANGED cache /\ KeepWorld

--------------------------------------------------------------------------------
(***************************************************************************)
(* ReusableUploads.                                                        *)
(***************************************************************************)
(* Fault: what was learned of another account stays *)
RefreshedKeeping == [cache EXCEPT !.seen = session]

(* refresh_session *)
Refreshed ==
  IF cache.seen = session THEN cache
  ELSE [cache EXCEPT !.seen = session, !.capability = "unknown", !.blocked = FALSE]

(* can_save: the lock is kept while the service is asked *)
Ask(t) ==
  /\ Runs(t, "ask") /\ lock = Nobody
  /\ cache' = Refreshed
  /\ \/ Refreshed.blocked /\ Fallback(t)
     \/ ~Refreshed.blocked /\ Refreshed.capability = "no" /\ Fallback(t)
     \/ ~Refreshed.blocked /\ Refreshed.capability = "yes" /\ Goto(t, "lane") /\ KeepHeld
     \/ /\ ~Refreshed.blocked /\ Refreshed.capability = "unknown"
        /\ Goto(t, "capabilities") /\ lock' = t /\ UNCHANGED lanes
  /\ KeepWorld

Learn(answer) == cache' = [cache EXCEPT !.capability = answer, !.learned = session]

Capabilities(t) ==
  /\ Runs(t, "capabilities")
  /\ \/ Learn("yes") /\ Goto(t, "lane") /\ lock' = Nobody /\ UNCHANGED lanes
     \/ Learn("no") /\ Fallback(t)
     \/ UNCHANGED cache /\ Fail(t)
  /\ KeepWorld

TakeLane(t) ==
  /\ Runs(t, "lane") /\ Cardinality(lanes) < Lanes
  /\ lanes' = lanes \cup {t}
  /\ Goto(t, IF t \in Saves THEN "read" ELSE "cooling")
  /\ UNCHANGED <<lock, cache>> /\ KeepWorld

(* blocked: another task may have been refused while this one waited *)
Cooling(t) ==
  /\ Runs(t, "cooling") /\ lock = Nobody
  /\ cache' = Refreshed
  /\ IF Refreshed.blocked THEN Fallback(t) ELSE (Goto(t, "reserve") /\ KeepHeld)
  /\ KeepWorld

(* post_busy: the asset is busy, and the call is made again *)
Busy(t) ==
  /\ t \in Tasks /\ task[t].pc \in {"reserve", "finalize", "bind"} /\ Current(t)
  /\ task[t].tries < BusyTries /\ task' = [task EXCEPT ![t].tries = @ + 1]
  /\ KeepHeld /\ UNCHANGED cache /\ KeepWorld

(* prepare: the service has the asset, wants its bytes, has no room, refuses or fails *)
Reserve(t) ==
  /\ Runs(t, "reserve")
  /\ \/ t \in Creations /\ Goto(t, "bind") /\ KeepHeld
     \/ t \in Saves /\ Goto(t, "done") /\ Release(t)
     \/ Goto(t, "put") /\ KeepHeld
     \/ t \in Creations /\ Goto(t, "full") /\ KeepHeld
     \/ t \in Creations /\ Fallback(t)
     \/ Fail(t)
  /\ UNCHANGED cache /\ KeepWorld

(* The refusal for lack of room is remembered, once the lock is free *)
Full(t) ==
  /\ Runs(t, "full") /\ lock = Nobody
  /\ cache' = [cache EXCEPT !.blocked = TRUE, !.refused = task[t].session]
  /\ Fallback(t)
  /\ KeepWorld

(* put_saved_asset: bytes that are there already are as good *)
Put(t) ==
  /\ Runs(t, "put")
  /\ (Goto(t, "finalize") /\ KeepHeld) \/ Fail(t)
  /\ UNCHANGED cache /\ KeepWorld

Finalize(t) ==
  /\ Runs(t, "finalize")
  /\ \/ t \in Creations /\ Goto(t, "bind") /\ KeepHeld
     \/ t \in Saves /\ Goto(t, "done") /\ Release(t)
     \/ Fail(t)
  /\ UNCHANGED cache /\ KeepWorld

(* bind_in_session *)
Bind(t) ==
  /\ Runs(t, "bind")
  /\ \/ Receive(t) /\ NextAsset(t) /\ Release(t)
     \/ UNCHANGED received /\ Fail(t)
  /\ UNCHANGED <<cache, session>>

--------------------------------------------------------------------------------
Step(t) ==
  \/ Start(t) \/ Ended(t) \/ Prepared(t) \/ ReadAsset(t) \/ GetUrl(t) \/ Transfer(t) \/ Track(t)
  \/ Ask(t) \/ Capabilities(t) \/ TakeLane(t) \/ Cooling(t) \/ Busy(t) \/ Reserve(t) \/ Full(t)
  \/ Put(t) \/ Finalize(t) \/ Bind(t)
Next == SwitchAccount \/ Expire \/ MakeRoom \/ \E t \in Tasks : Step(t)

Spec == Init /\ [][Next]_vars

--------------------------------------------------------------------------------
(***************************************************************************)
(* Properties.                                                             *)
(***************************************************************************)
(* A project whose handle is tracked, and whose request is sent next, has each of its     *)
(* assets with the service, through whichever way it took, under the account that sends   *)
(* the request (process_assets, try_bind and their fallbacks).                            *)
TrackedIsWhole ==
  \A t \in Creations : At(t, "tracked") =>
    \A asset \in 1 .. AssetCount :
      [project |-> t, asset |-> asset, session |-> task[t].session] \in received

(* No account is kept from its library by what the service said of another's: neither a   *)
(* capability nor a full library outlives its session, however late the answer (README,   *)
(* "account changes invalidate cached availability").                                     *)
OwnRefusalsOnly ==
  [][\A t \in Creations :
       task[t].pc \in {"ask", "cooling"} /\ task'[t].pc \in {"url", "lane"} =>
         /\ cache'.blocked => cache'.refused = session
         /\ ~cache'.blocked => cache'.learned = session]_vars
================================================================================
