-------------------------------- MODULE MCClient --------------------------------
(***************************************************************************)
(* AuthSession, AccountSession, Uploads and VideoRequest: parts of a       *)
(* client that share no state here, one of which runs in a behaviour while *)
(* the others rest as they start.  The workers are the calls of one and    *)
(* the creations of another: what is symmetric in one is in all.           *)
(* AccountSession runs in two ways: "account" has every call but refresh,  *)
(* on one thread or many; "subscription" has the subscription and every    *)
(* call but login, on the one thread it is promised something on.          *)
(***************************************************************************)
EXTENDS MCAuthSession, Sequences

CONSTANTS Saves, Idler

VARIABLES
  running,   \* the component that runs
  auth, changed, held, projection, shown, state, call, listener, runtime, version, events, raced,
  owner, cache, lock, lanes, task, received,
  model, request, stage, wire, registered

account == <<auth, changed, held, projection, shown, state, call, listener, runtime,
             version, events, raced>>
media == <<owner, cache, lock, lanes, task, received>>
video == <<model, request, stage, wire, registered>>

Account == INSTANCE AccountSession WITH
  Calls <- Workers, Nobody <- NoAccount,
  Operations <- {"login", "set_tokens", "me", "logout", "refresh"},
  Runtimes <- {"one_thread", "many_threads"}, MaxSession <- 2, MaxVersion <- 3, lock <- held

Media == INSTANCE Uploads WITH
  Creations <- Workers, Nobody <- Idler, AssetCount <- 2, Lanes <- 2, BusyTries <- 2,
  Transfers <- 2, MaxSession <- 2, session <- owner

(* A length in seconds that overrides one in frames, one in frames alone; pins inside a *)
(* video, and at the last frame of the first                                           *)
Length(frames, duration, fps) == [frames |-> frames, duration |-> duration, fps |-> fps]
Video == INSTANCE VideoRequest WITH
  MaxAssets <- 3,
  Lengths <- {Length(362, 6, 0), Length(124, 0, 24)}, Links <- {{}, {"video"}},
  Pins <- {<<122>>, <<140, 1>>}

ASSUME ConstantsAreSound ==
  Account!ConstantsAreSound /\ Media!ConstantsAreSound /\ Video!ConstantsAreSound

VideoAtRest ==
  /\ model = [family |-> "h3", workflow |-> "t2v", extends |-> FALSE]
  /\ request = [assets |-> <<>>, keyframes |-> <<>>, urls |-> {}, document |-> FALSE,
                task |-> "none", inpaint |-> FALSE, length |-> Length(0, 0, 0)]
  /\ stage = "building" /\ registered = <<>>
  /\ wire = [assets |-> {}, frames |-> 0, pins |-> <<>>]

ClientInit ==
  /\ running \in {"credentials", "account", "subscription", "media", "video"}
  /\ Init /\ (running = "credentials" \/ kind = "Token")
  /\ Account!Init
  /\ running = "account" \/ runtime = "one_thread"
  /\ running \in {"account", "subscription"} \/ auth.who = NoAccount
  /\ Media!Init
  /\ IF running = "video" THEN Video!Init ELSE VideoAtRest

ClientNext ==
  /\ \/ running = "credentials" /\ Next /\ UNCHANGED <<account, media, video>>
     \/ running = "account" /\ Account!Next /\ UNCHANGED <<version, vars, media, video>>
        /\ \A w \in Workers : call'[w].op # "refresh"
     \/ running = "subscription" /\ Account!Next /\ UNCHANGED <<vars, media, video>>
        /\ \A w \in Workers : call'[w].op # "login"
     \/ running = "media" /\ Media!Next /\ UNCHANGED <<vars, account, video>>
     \/ running = "video" /\ Video!Next /\ UNCHANGED <<vars, account, media>>
  /\ UNCHANGED running

ClientSpec == ClientInit /\ [][ClientNext]_<<running, vars, account, media, video>>

(* On one thread, no call signs a newer account out (authentication.rs) *)
OnlyOwnSignOut == Account!OnlyOwnSignOut

(* When all has settled, the account shown is the one signed in or nobody's, unless a *)
(* renewal raced who held the lock (authentication.rs, listeners.rs)                  *)
SettledShowsOwn == Account!SettledShowsOwn

(* A late answer without a version takes the subscription back behind no write of the *)
(* socket, and what states a version never behind a newer (projection.rs)             *)
SubscriptionNeverOlder == Account!SubscriptionNeverOlder

(* A project is tracked once each of its assets is with the service (media.rs) *)
TrackedIsWhole == Media!TrackedIsWhole

(* A refusal of one account's library is not held against the next (reusable.rs) *)
OwnRefusalsOnly == Media!OwnRefusalsOnly

(* A worker finds every asset its job request announces, of the typed roles (wire/video.rs) *)
PromisedAreUploaded == Video!PromisedAreUploaded

(* Pinned keyframes lie inside the video that is made (wire/video.rs) *)
PinsInside == Video!PinsInside

(* Every asset of a tracked project is announced, H3's numbered ones in any order *)
NumberedAreAnnounced == Video!NumberedAreAnnounced
================================================================================
