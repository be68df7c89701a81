------------------------------ MODULE VideoRequest ------------------------------
(***************************************************************************)
(* What the request of a video promises, and what is uploaded for it.  The *)
(* caller builds a request from a model, its parameters and its assets     *)
(* (src/src/projects/request/); create_with_id_detailed marks a parameter  *)
(* for each asset, validates the whole for the family of the model         *)
(* (projects/validation/), writes the job request that announces which     *)
(* assets to expect (projects/wire/video.rs) and then uploads each asset   *)
(* under its name (process_assets of projects/api/media.rs).               *)
(*                                                                         *)
(* A model is its family, its workflow and, of the text workflows of       *)
(* MiniMax H3, whether it extends a video (utils/models.rs).  A duration   *)
(* is a whole number of seconds.                                           *)
(***************************************************************************)
EXTENDS Integers, Sequences, SequencesExt, FiniteSets

CONSTANTS
  MaxAssets,   \* bound: the assets of a request
  Lengths,     \* the [frames, duration, fps] a caller gives, 0 for none
  Links,       \* the kinds of references a caller gives as links, of "image", "video", "audio"
  Pins         \* the lists of frame indices a caller gives to keyframes

(* ASSUMEd by the module that instantiates this one *)
ConstantsAreSound ==
  /\ MaxAssets \in Nat
  /\ \A length \in Lengths : {length.frames, length.duration, length.fps} \subseteq Nat
  /\ \A pins \in Pins : pins \in Seq(Nat)
  /\ \A links \in Links : links \subseteq {"image", "video", "audio"}

VARIABLES
  model,
  request,     \* ProjectRequest: the options, the keyframes and the assets in order
  stage,       \* "building", "refused", "uploading" or "tracked"
  wire,        \* what keyFrames/0 announces: its assets, frames and pinned frames
  registered   \* the names under which assets were uploaded, in order

vars == <<model, request, stage, wire, registered>>

--------------------------------------------------------------------------------
(***************************************************************************)
(* The models (utils/models.rs).                                           *)
(***************************************************************************)
Of(family, workflows) == [family : {family}, workflow : workflows, extends : {FALSE}]

Models ==
  Of("wan", {"t2v", "i2v", "s2v", "animate-move", "animate-replace"})
  \cup Of("ltx", {"t2v", "i2v", "a2v", "ia2v", "v2v"})
  \cup Of("seedance", {"none"}) \cup Of("seedance25", {"none"})
  \cup Of("happyhorse", {"t2v", "i2v", "r2v"})
  \cup Of("wan3", {"t2v"}) \cup Of("wan3 enhanced", {"t2v"})
  \cup Of("h3", {"t2v", "i2v", "flf2v", "r2v", "ia2v", "flfa2v", "a2v"})
  \cup [family : {"h3"}, workflow : {"t2v"}, extends : {TRUE}]
  \cup Of("upscale", {"upscale"})

H3 == model.family = "h3"
H3Reference == H3 /\ model.workflow = "r2v"
H3Keyframes == H3 /\ model.workflow \in {"i2v", "flf2v", "r2v", "ia2v", "flfa2v", "a2v"}
External == model.family \in {"seedance", "seedance25", "happyhorse", "wan3", "wan3 enhanced"}

(* floor(n / d + 1/2) *)
Round(n, d) == (2 * n + d) \div (2 * d)

(* calculate_video_frames, on the grid of the family *)
VideoFrames(duration, fps) ==
  CASE model.family = "upscale" -> duration * fps
    [] model.family = "wan" -> duration * 16 + 1
    [] H3 -> LET step == Round(duration * 24 - 124, 17)
             IN 124 + 17 * (IF step < 0 THEN 0 ELSE IF step > 14 THEN 14 ELSE step)
    [] model.family = "ltx" -> Round(duration * fps, 8) * 8 + 1
    [] OTHER -> duration * fps + 1

(* The durations of the family, rounded inward to whole seconds *)
Durations ==
  CASE model.family = "upscale" -> 1 .. 1000
    [] H3 -> 6 .. 15
    [] model.family \in {"wan3", "wan3 enhanced"} -> 2 .. 30
    [] model.family = "happyhorse" -> 3 .. 15
    [] model.family = "seedance25" -> 4 .. 30
    [] model.family = "seedance" -> 4 .. 15
    [] model.family = "ltx" \/ model.workflow \in {"animate-move", "animate-replace"} -> 1 .. 20
    [] OTHER -> 1 .. 10

--------------------------------------------------------------------------------
(***************************************************************************)
(* The roles of assets (projects/request.rs): those that have a type of    *)
(* their own in videos.  A Custom role takes any name, and a parameter can *)
(* be set without an asset: what such a caller announces is their matter.  *)
(***************************************************************************)
Plain(names) == [name : names, slot : {0}]
Roles ==
  Plain({"startingImage", "referenceImage", "referenceImageEnd", "referenceAudio",
         "referenceAudioIdentity", "referenceVideo", "referenceMask"})
  \cup [name : {"contextImage"}, slot : {1}] \cup [name : {"keyframeImage"}, slot : {1, 2}]
  \cup [name : {"referenceAudioSlot", "referenceVideoSlot"}, slot : 1 .. 3]

Numbered == {"referenceAudioSlot", "referenceVideoSlot"}

(* Fault: the names of the first H3 references are those of the other families *)
WireNamePlain(role) ==
  CASE role.name = "referenceAudioSlot" -> <<"referenceAudio", role.slot>>
    [] role.name = "referenceVideoSlot" -> <<"referenceVideo", role.slot>>
    [] role.name = "referenceAudioIdentity" -> <<"referenceAudio", 0>>
    [] OTHER -> <<role.name, role.slot>>

(* effective_asset_wire_name: a name and the number that follows it, or 0 *)
WireName(role) ==
  CASE role.name = "referenceAudioSlot" -> <<"referenceAudio", role.slot>>
    [] role.name = "referenceVideoSlot" -> <<"referenceVideo", role.slot>>
    [] H3Reference /\ role.name \in {"referenceAudio", "referenceVideo"} -> <<role.name, 1>>
    [] role.name = "referenceAudioIdentity" -> <<"referenceAudio", 0>>
    [] OTHER -> <<role.name, role.slot>>

(* Vec::resize and the entry set last *)
Resized(values, length) == [i \in 1 .. length |-> IF i <= Len(values) THEN values[i] ELSE FALSE]

(* set_numbered_asset_param: slot 1 is the single parameter, the others an array *)
Number(params, first, slot) ==
  IF slot = 1 THEN [params EXCEPT !.given = @ \cup {<<first, 0>>}]
  ELSE [params EXCEPT !.more[first] = [Resized(@, slot - 1) EXCEPT ![slot - 1] = TRUE]]

(* mark_asset_param *)
Mark(params, role) ==
  CASE role.name = "keyframeImage" ->
         [params EXCEPT !.keyframes =
           [i \in 1 .. (IF Len(@) < role.slot THEN role.slot ELSE Len(@)) |->
             LET entry == IF i <= Len(@) THEN @[i] ELSE [image |-> FALSE, index |-> 0]
             IN IF i = role.slot THEN [entry EXCEPT !.image = TRUE] ELSE entry]]
    [] role.name = "referenceAudioSlot" -> Number(params, "referenceAudio", role.slot)
    [] role.name = "referenceVideoSlot" -> Number(params, "referenceVideo", role.slot)
    [] OTHER -> [params EXCEPT !.given = @ \cup {<<role.name, role.slot>>}]

(* Every asset is marked, in the order they were added *)
Marked(params) ==
  LET marked[n \in 0 .. Len(request.assets)] ==
        IF n = 0 THEN params ELSE Mark(marked[n - 1], request.assets[n])
  IN marked[Len(request.assets)]

(* The parameters: every asset is marked as it is added, and by prepare_submission *)
Params ==
  Marked(Marked([given |-> {}, keyframes |-> request.keyframes,
                 more |-> [first \in {"referenceAudio", "referenceVideo"} |-> <<>>]]))

Given(params, name) == <<name, 0>> \in params.given
Count(test) == IF test THEN 1 ELSE 0

(* media_slot_count *)
Slots(params, first) ==
  Count(Given(params, first)) + Cardinality({i \in DOMAIN params.more[first] : params.more[first][i]})

--------------------------------------------------------------------------------
(***************************************************************************)
(* What is refused before anything is uploaded.                            *)
(***************************************************************************)
(* Of the slots of a kind, the first ones are given *)
Contiguous(name) ==
  LET first == IF name = "referenceAudioSlot" THEN "referenceAudio" ELSE "referenceVideo"
      slots == {role.slot : role \in {r \in ToSet(request.assets) : r.name = name}}
               \cup (IF H3Reference /\ [name |-> first, slot |-> 0] \in ToSet(request.assets)
                       THEN {1} ELSE {})
  IN \A slot \in slots : 1 .. slot \subseteq slots

(* validate_asset_roles *)
RolesFit ==
  /\ \A role \in ToSet(request.assets) :
       /\ role.name = "keyframeImage" => H3Keyframes
       /\ role.name \in Numbered => H3Reference
  /\ IsInjective([i \in DOMAIN request.assets |-> WireName(request.assets[i])])
  /\ \A name \in Numbered : Contiguous(name)

(* video_asset_requirements, for the families that have them *)
Required ==
  CASE model.workflow \in {"upscale", "v2v"} -> {"referenceVideo"}
    [] model.workflow = "flf2v" -> {"referenceImage", "referenceImageEnd"}
    [] model.workflow = "flfa2v" -> {"referenceImage", "referenceImageEnd", "referenceAudio"}
    [] model.workflow \in {"s2v", "ia2v"} -> {"referenceImage", "referenceAudio"}
    [] model.workflow = "a2v" -> {"referenceAudio"}
    [] model.workflow \in {"animate-move", "animate-replace"} -> {"referenceImage", "referenceVideo"}
    [] OTHER -> {}

Optional ==
  CASE H3Reference -> {"referenceImage", "referenceAudio", "referenceVideo"}
    [] model.workflow = "i2v" -> {"referenceImage", "referenceImageEnd"}
         \cup (IF H3 THEN {} ELSE {"referenceAudioIdentity"})
    [] model.workflow = "t2v" -> {"referenceAudioIdentity"}
         \cup (IF model.extends THEN {"referenceVideo"} ELSE {})
    [] model.workflow = "v2v" -> {"referenceImage", "referenceAudioIdentity", "referenceMask"}
    [] OTHER -> {}

Assets == {"referenceImage", "referenceImageEnd", "referenceAudio", "referenceAudioIdentity",
           "referenceVideo", "referenceMask"}

RequirementsMet(params) ==
  /\ model.workflow = "i2v" => Given(params, "referenceImage") \/ Given(params, "referenceImageEnd")
  /\ \A name \in Assets : /\ name \in Required => Given(params, name)
                          /\ name \notin Required \cup Optional => ~Given(params, name)

(* A family that counts its references: those given, and one for each kind of links *)
Images(params) ==
  Count(Given(params, "referenceImage")) + Count(Given(params, "referenceImageEnd"))
  + Count("image" \in request.urls)
Videos(params) == Count(Given(params, "referenceVideo")) + Count("video" \in request.urls)
Audios(params) ==
  Count(Given(params, "referenceAudio") \/ Given(params, "referenceAudioIdentity"))
  + Count("audio" \in request.urls)

HappyhorseFits(params) ==
  /\ Videos(params) = 0 /\ Audios(params) = 0 /\ ~Given(params, "referenceImageEnd")
  /\ Images(params) \in CASE model.workflow = "i2v" -> {1}
                           [] model.workflow = "r2v" -> 1 .. 9
                           [] OTHER -> {0}

HasFrames(params) == Given(params, "referenceImage") \/ Given(params, "referenceImageEnd")
HasLoose(params) ==
  request.urls # {} \/ Given(params, "referenceVideo") \/ Given(params, "referenceAudio")

(* validate_wan3_references *)
Wan3Fits(params) ==
  /\ model.family = "wan3 enhanced" => ~request.document
  /\ ~Given(params, "referenceAudioIdentity") /\ ~Given(params, "referenceMask")
  /\ model.family = "wan3" /\ Given(params, "referenceImageEnd") => Given(params, "referenceImage")
  /\ ~(HasFrames(params) /\ (HasLoose(params) \/ request.document))

(* validate_seedance_task; the limits are beyond the assets of a small request *)
SeedanceFits(params) ==
  /\ model.family # "seedance25" => request.task = "none"
  /\ model.family = "seedance25" =>
       /\ request.task = "none" => ~HasLoose(params)
       /\ request.task # "none" => ~HasFrames(params) /\ HasLoose(params)
       /\ request.task = "edit" => Videos(params) > 0
  /\ model.family = "seedance" /\ Audios(params) # 0 => Images(params) + Videos(params) # 0

(* validate_h3_references *)
H3ReferencesFit(params) ==
  LET images == Count(Given(params, "referenceImage"))
                + Cardinality({slot \in 1 .. 16 : <<"contextImage", slot>> \in params.given})
      videos == Slots(params, "referenceVideo")
      audios == Slots(params, "referenceAudio")
  IN /\ request.urls = {}
     /\ images <= 9 /\ videos <= 3 /\ audios <= 3 /\ images + videos + audios <= 12
     /\ images + videos > 0

(* validate_keyframes, validate_h3_params *)
KeyframesFit(params) ==
  params.keyframes # <<>> =>
    H3Keyframes /\ Len(params.keyframes) <= 8 /\ \A i \in DOMAIN params.keyframes : params.keyframes[i].image

LengthFits ==
  LET length == request.length
  IN /\ H3 => length.frames \in {0} \cup {124 + 17 * n : n \in 0 .. 14} /\ length.fps \in {0, 24}
     /\ model.family \in {"wan3", "wan3 enhanced"} => length.fps \in {0, 30}
     /\ model.family = "upscale" /\ length.frames = 0 /\ length.duration # 0 => length.fps # 0
     /\ length.duration \in {0} \cup Durations

(* validate_video_assets *)
AssetsFit(params) ==
  /\ KeyframesFit(params)
  /\ \A first \in DOMAIN params.more :
       params.more[first] # <<>> => H3Reference /\ \A i \in DOMAIN params.more[first] : params.more[first][i]
  /\ CASE model.family = "happyhorse" -> HappyhorseFits(params)
       [] model.family \in {"wan3", "wan3 enhanced"} -> Wan3Fits(params)
       [] model.family \in {"seedance", "seedance25"} -> SeedanceFits(params)
       [] H3Reference -> H3ReferencesFit(params) /\ RequirementsMet(params)
       [] OTHER -> request.urls = {} /\ ~request.document /\ RequirementsMet(params)

--------------------------------------------------------------------------------
(***************************************************************************)
(* build_video_keyframe.                                                   *)
(***************************************************************************)
(* The frames of the video: those its duration resolves to, or those given *)
Frames ==
  LET length == request.length
      fps == IF length.fps # 0 THEN length.fps
             ELSE IF model.family \in {"wan3", "wan3 enhanced"} THEN 30 ELSE 24
  IN IF length.duration # 0 /\ ~(model.family = "upscale" /\ length.frames # 0)
       THEN VideoFrames(length.duration, fps) ELSE length.frames

Indices(params) == [i \in DOMAIN params.keyframes |-> params.keyframes[i].index]

(* Fault: the frames that were given are compared, also when a duration overrides them *)
PinsFitGiven(params, frames) ==
  LET last == (IF request.length.frames # 0 THEN request.length.frames ELSE frames) - 2
  IN IsInjective(Indices(params)) /\ Range(Indices(params)) \subseteq 1 .. last

(* keyframe_indices: neither the first frame nor the last *)
PinsFit(params, frames) ==
  IsInjective(Indices(params)) /\ Range(Indices(params)) \subseteq 1 .. frames - 2

Announced(params) ==
  {<<name, 0>> : name \in {n \in {"referenceImage", "referenceImageEnd", "referenceAudioIdentity"} :
                            Given(params, n)}}
  \cup (IF Given(params, "referenceMask") /\ request.inpaint THEN {<<"referenceMask", 0>>} ELSE {})
  \cup (UNION {IF H3Reference THEN {<<first, slot>> : slot \in 1 .. Slots(params, first)}
               ELSE IF Given(params, first) THEN {<<first, 0>>} ELSE {}
               : first \in {"referenceAudio", "referenceVideo"}})
  \cup {given \in params.given : given[1] = "contextImage"}
  \cup {<<"keyframeImage", slot>> : slot \in DOMAIN params.keyframes}

--------------------------------------------------------------------------------
(***************************************************************************)
(* The caller builds a request; it is validated, and its assets uploaded.  *)
(***************************************************************************)
Init ==
  /\ model \in Models
  /\ \E urls \in Links, length \in Lengths, inpaint, document \in BOOLEAN,
        task \in {"none", "reference", "edit"} :
       /\ urls # {} => External \/ (H3Reference /\ length.duration = 0)
       /\ task # "none" => model.family = "seedance25"
       /\ document => model.family \in {"wan3", "wan3 enhanced"}
       /\ inpaint => model.workflow = "v2v"
       /\ request = [assets |-> <<>>, keyframes |-> <<>>, urls |-> urls, document |-> document,
                     task |-> task, inpaint |-> inpaint, length |-> length]
  /\ stage = "building"
  /\ wire = [assets |-> {}, frames |-> 0, pins |-> <<>>]
  /\ registered = <<>>

(* ProjectRequest::asset *)
AddAsset ==
  /\ stage = "building" /\ Len(request.assets) < MaxAssets
  /\ \E role \in Roles : request' = [request EXCEPT !.assets = Append(@, role)]
  /\ UNCHANGED <<model, stage, wire, registered>>

(* The assets that are no keyframes *)
Others ==
  LET others[n \in 0 .. Len(request.assets)] ==
        IF n = 0 THEN <<>>
        ELSE IF request.assets[n].name = "keyframeImage" THEN others[n - 1]
        ELSE Append(others[n - 1], request.assets[n])
  IN others[Len(request.assets)]

(* ProjectRequest::keyframes replaces those there are *)
PinKeyframes ==
  /\ stage = "building" /\ request.keyframes = <<>>
  /\ \E pins \in Pins :
       /\ Len(Others) + Len(pins) <= MaxAssets
       /\ request' = [request EXCEPT
            !.keyframes = [i \in DOMAIN pins |-> [image |-> TRUE, index |-> pins[i]]],
            !.assets = Others \o [i \in {n \in DOMAIN pins : n <= 8} |-> [name |-> "keyframeImage", slot |-> i]]]
  /\ UNCHANGED <<model, stage, wire, registered>>

(* prepare_submission; a request that is refused is gone, it was moved into the call *)
Prepare ==
  /\ stage = "building"
  /\ IF RolesFit /\ AssetsFit(Params) /\ LengthFits /\ PinsFit(Params, Frames)
       THEN /\ wire' = [assets |-> Announced(Params), frames |-> Frames, pins |-> Indices(Params)]
            /\ stage' = "uploading" /\ UNCHANGED request
       ELSE /\ stage' = "refused" /\ UNCHANGED wire
            /\ request' = [request EXCEPT !.assets = <<>>, !.keyframes = <<>>]
  /\ UNCHANGED <<model, registered>>

(* process_assets: the next asset is uploaded under its name, then the project is tracked *)
Upload ==
  /\ stage = "uploading"
  /\ IF Len(registered) < Len(request.assets)
       THEN registered' = Append(registered, WireName(request.assets[Len(registered) + 1]))
            /\ UNCHANGED stage
       ELSE stage' = "tracked" /\ UNCHANGED registered
  /\ UNCHANGED <<model, request, wire>>

Next == AddAsset \/ PinKeyframes \/ Prepare \/ Upload

Spec == Init /\ [][Next]_vars

--------------------------------------------------------------------------------
(***************************************************************************)
(* Properties.                                                             *)
(***************************************************************************)
(* The name an announced asset is looked for under: a voice's identity is an audio *)
UploadOf(announced) ==
  IF announced = <<"referenceAudioIdentity", 0>> THEN <<"referenceAudio", 0>> ELSE announced

(* A worker that reads a job request finds every asset it announces: the flags of the     *)
(* wire and the names of the uploads come from two walks over the assets, with the slots  *)
(* of MiniMax H3 counted in one and numbered in the other.  Of assets with typed roles.   *)
PromisedAreUploaded ==
  stage = "tracked" => \A announced \in wire.assets : UploadOf(announced) \in ToSet(registered)

(* A pinned keyframe lies strictly inside the video that is made, whether its length was  *)
(* given in frames, in seconds, or in both (keyframe_indices, calculate_video_frames).    *)
PinsInside == \A i \in DOMAIN wire.pins : 0 < wire.pins[i] /\ wire.pins[i] < wire.frames - 1

(* README.md:608 says "Adding an asset automatically enables its matching request flag":  *)
(* each numbered reference of a tracked project is announced on the wire.                 *)
NumberedAreAnnounced ==
  stage = "tracked" =>
    \A role \in ToSet(request.assets) : role.name \in Numbered => WireName(role) \in wire.assets
================================================================================
