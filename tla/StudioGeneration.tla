-------------------------- MODULE StudioGeneration --------------------------
(***************************************************************************)
(* What a paid operation of the studio asks of the account, sends to its   *)
(* provider, meters and debits (the launches of api/routes/products.py,    *)
(* the options and runs of api/services/imaging.py, the verbs of           *)
(* imaging/service.py).  The same price is computed twice, by the request  *)
(* that checks the balance and by the background run that debits it, and   *)
(* the same wish is translated for two engines: this module states what    *)
(* each side computes, the life of the asset is in ImagingAsset.           *)
(***************************************************************************)
EXTENDS Integers, Sequences, FiniteSets

Unset == "none"

CONSTANTS
  Words,         \* what is typed: prompts, instructions, dimensions, garments, colors
  Departments,   \* of the products in Tillin, and what cannot be read
  Wishes,        \* the model photos asked for
  Defaults,      \* the settings of the accounts
  FlatWishes     \* the flat lays asked for

VARIABLE studio  \* what the studio was asked

\* `x or y' over optional fields.
Or(x, y) == IF x # Unset THEN x ELSE y

-----------------------------------------------------------------------------
(* Prices *)

Resolutions == {"1k", "2k", "4k"}
Modes == {"fast", "balanced", "quality"}

\* RESOLUTION_CREDIT_UNITS
Units == [r \in Resolutions |-> CASE r = "1k" -> 1 [] r = "2k" -> 2 [] r = "4k" -> 4]

\* FASHN_CREDITS: credits of the provider for one image
FashnCredits ==
  [r \in Resolutions |->
     [m \in Modes |-> (CASE r = "1k" -> 0 [] r = "2k" -> 1 [] r = "4k" -> 2) +
                      (CASE m = "fast" -> 1 [] m = "balanced" -> 2 [] m = "quality" -> 3)]]

Kinds == {"normalize", "model_fashn", "model_photoroom", "swap", "recolor",
          "flat_photoroom", "flat_gpt", "ghost", "finalize"}

\* A launch: the fields of the request its price depends on. `removeBg' is that of
\* the normalisation, also where its asset is finalised later.
Launches ==
  {l \in [kind : Kinds, resolution : Resolutions, mode : Modes, images : 1..4,
          removeBg : BOOLEAN, face : BOOLEAN] :
     l.kind # "model_fashn" => l.images = 1}

PricedByResolution == {"recolor", "flat_photoroom", "flat_gpt", "ghost"}

\* require_credits of the launch, in units of its action.
AskedUnits(l) ==
  CASE l.kind = "model_fashn" -> l.images
    [] l.kind \in PricedByResolution -> Units[l.resolution]
    [] OTHER -> 1

\* The provider the image_asset row names, given at the launch: finalize_asset works
\* on the row of a normalisation and leaves it as it is.
RowProvider(l) ==
  CASE l.kind \in {"normalize", "finalize"} -> IF l.removeBg THEN "photoroom" ELSE "local"
    [] l.kind \in {"model_fashn", "swap", "recolor"} -> "fashn"
    [] l.kind = "flat_gpt" -> "openai"
    [] OTHER -> "photoroom"

-----------------------------------------------------------------------------
(* The run *)

\* FashnClient.wait: the statuses of the successive polls, the last one being
\* read past the deadline.
Wait(polls) ==
  LET settled == {i \in DOMAIN polls : polls[i] # "pending"}
  IN  IF settled = {} THEN "timed_out"
      ELSE polls[CHOOSE i \in settled : \A j \in settled : i <= j]

\* Images a settled call yields: FASHN answers with a list of its own, the
\* others with one image or an error.
Yields(l) == IF RowProvider(l) = "fashn" THEN 0..l.images ELSE {1}

\* Fault: the run forgets the resolution the launch was priced at.
DebitUnitsFlat(l, n) == IF l.kind \in {"normalize", "finalize"} THEN 1 ELSE n

\* consume_credits of the run: nothing for no image.
DebitUnits(l, n) ==
  CASE l.kind \in {"normalize", "finalize"} -> 1
    [] l.kind \in PricedByResolution -> n * Units[l.resolution]
    [] OTHER -> n

Metric(p, m, q) == {[provider |-> p, metric |-> m, quantity |-> q]}

\* generate_model_photo: the images asked for, whatever came back.
ModelUsage(l) == Metric("fashn", "credits", FashnCredits[l.resolution][l.mode] * l.images)

\* swap_model_photo: two credits, three more for a face.
SwapUsage(l) == Metric("fashn", "credits", 2 + IF l.face THEN 3 ELSE 0)

\* recolor_photo: one image in the balanced mode.
RecolorUsage(l) == Metric("fashn", "credits", FashnCredits[l.resolution]["balanced"])

\* _run_photoroom_edit: one call, one image.
EditUsage == Metric("photoroom", "images", 1)

\* generate_flat_photo_gpt: the tokens of the answer, or an image when it
\* carries none.
GptUsage(tokens) ==
  IF tokens.input = 0 /\ tokens.output = 0
  THEN Metric("openai", "images", 1)
  ELSE UNION {IF tokens[d] > 0 THEN Metric("openai", d, tokens[d]) ELSE {} :
                d \in {"input", "output"}}

\* record_usage of the run.
Usage(l, tokens) ==
  CASE l.kind = "normalize" -> IF l.removeBg THEN EditUsage ELSE {}
    [] l.kind = "model_fashn" -> ModelUsage(l)
    [] l.kind = "swap" -> SwapUsage(l)
    [] l.kind = "recolor" -> RecolorUsage(l)
    [] l.kind = "flat_gpt" -> GptUsage(tokens)
    [] OTHER -> EditUsage

NoTokens == [input |-> 0, output |-> 0]

\* The transaction of the run: a failure of any call rolls all of it back.
Run(l, polls, n, tokens, stored) ==
  IF (RowProvider(l) = "fashn" /\ Wait(polls) # "completed") \/ ~stored
  THEN [status |-> "failed", debit |-> 0, usage |-> {}, outputs |-> 0]
  ELSE [status |-> "completed", debit |-> DebitUnits(l, n),
        usage |-> Usage(l, tokens), outputs |-> n]

-----------------------------------------------------------------------------
(* One wish, two engines *)

\* PoseOption, PhotoroomPoseOption, ScenePresetOption: of the last two, any.
Poses == {"face", "back", "profile_left", "profile_right", "three_quarter_left", "three_quarter_right"}
Framings == {"full_body", "cropped_head"}
Scenes == {"studio", "lifestyle"}
Genders == {"auto", "female", "male"}

\* Fields of the request and of the account's settings a translation reads.
Requests ==
  [prompt : {Unset} \cup Words, gender : {Unset} \cup Genders,
   framing : {Unset} \cup Framings, scene : {Unset} \cup Scenes,
   pose : {Unset} \cup Poses, instructions : {Unset, ""} \cup Words,
   dimensions : {Unset} \cup Words,
   photoroomPose : {Unset, "seated"}, scenePreset : {Unset, "beach"}]

AccountDefaults ==
  [engine : {"fashn", "photoroom"}, gender : Genders, framing : Framings, scene : Scenes,
   pose : {Unset} \cup Poses, instructions : {Unset} \cup Words, scenePreset : {Unset, "beach"}]

\* The department of the product in Tillin, when it could be read.
DepartmentGender(d) ==
  CASE d = "homme" -> "male" [] d = "femme" -> "female" [] OTHER -> Unset

Engine(asked, s) == Or(asked, s.engine)

\* explicit choice > account default > department of the product
Gender(q, s, department) ==
  LET g == IF q.gender \in {Unset, "auto"} THEN s.gender ELSE q.gender
  IN  IF g = "auto" THEN DepartmentGender(department) ELSE g

Part(name, x) == IF x \in {Unset, ""} THEN {} ELSE {<<name, x>>}

\* An explicit empty text overrides the account's.
Instructions(q, s) == IF q.instructions # Unset THEN q.instructions ELSE s.instructions

\* build_generation_prompt, unless the request brings its own prompt.
FashnPrompt(q, s, g) ==
  IF q.prompt # Unset THEN {<<"prompt", q.prompt>>}
  ELSE {<<"scene", Or(q.scene, s.scene)>>, <<"framing", Or(q.framing, s.framing)>>}
       \cup Part("gender", g) \cup Part("pose", Or(q.pose, s.pose))
       \cup Part("dimensions", q.dimensions)
       \cup Part("instructions", Instructions(q, s))

PoseMap(p) ==
  CASE p = "face" -> "standing" [] p = "back" -> "back"
    [] p \in {"three_quarter_left", "three_quarter_right"} -> "34turn"
    [] OTHER -> Unset

SceneMap(s) == IF s = "studio" THEN "studio" ELSE "random"

\* to_virtual_model_service_options: presets first, the rest to the prompt.
VirtualModel(q, s, g) ==
  [prompt |-> Part("gender", g)
              \cup (IF Or(q.framing, s.framing) = "cropped_head"
                    THEN {<<"framing", "cropped_head">>} ELSE {})
              \cup Part("dimensions", q.dimensions)
              \cup Part("instructions", Instructions(q, s)),
   pose  |-> Or(q.photoroomPose, PoseMap(Or(q.pose, s.pose))),
   scene |-> Or(Or(q.scenePreset, s.scenePreset), SceneMap(Or(q.scene, s.scene)))]

\* generate_model_image: which run the launch schedules, and with what.
GenerateModel(asked, q, s, department, clients) ==
  LET e == Engine(asked, s)
      g == Gender(q, s, department)
  IN  IF e \notin clients THEN [engine |-> Unset, options |-> {}]
      ELSE [engine |-> e, options |-> IF e = "photoroom" THEN VirtualModel(q, s, g)
                                      ELSE FashnPrompt(q, s, g)]

-----------------------------------------------------------------------------
(* The flat lay, the ghost mannequin and the recolouring *)

FlatRequests ==
  [garment : {Unset, ""} \cup Words, color : {Unset} \cup Words, prompt : {Unset} \cup Words,
   background : Words, views : 0..4]

\* _flat_prompt: the label is pinned as soon as the garment is known.
FlatPrompt(q, verb) ==
  Part(verb, q.garment)
  \cup (IF q.garment \in {Unset, ""} THEN {} ELSE {<<"label", "plain">>})
  \cup Part("color", q.color) \cup Part("prompt", q.prompt)

FlatPhotoroom(q) ==
  [images |-> 1, prompt |-> FlatPrompt(q, "flat"), background |-> q.background]

\* The route keeps three other views; the verb four images in all.
FlatGpt(q) ==
  LET kept == IF q.views > 3 THEN 3 ELSE q.views IN
  [images |-> 1 + kept,
   prompt |-> FlatPrompt(q, "flat") \cup (IF kept > 0 THEN {<<"views", "same">>} ELSE {})
              \cup Part("background", q.background),
   background |-> q.background]

\* recolor_image, build_recolor_prompt: a colour, or else a reference image.
Recolor(color, reference, garment) ==
  IF color = Unset /\ ~reference THEN [refused |-> TRUE]
  ELSE [target |-> IF garment \in {Unset, ""} THEN Unset ELSE garment,
        from |-> IF color # Unset THEN "color" ELSE "reference", image |-> reference]

-----------------------------------------------------------------------------
ASSUME StudioAssumption ==
  /\ Unset \notin Words /\ "" \notin Words
  /\ Wishes \subseteq Requests /\ Defaults \subseteq AccountDefaults
  /\ FlatWishes \subseteq FlatRequests

StudioInit == studio = [asked |-> "nothing"]

\* A launch of any kind.
AskLaunch(l) == studio' = [asked |-> "launch", launch |-> l]

\* generate_model_image
AskModel(q, s, d) ==
  studio' = [asked |-> "model photo", request |-> q, defaults |-> s, department |-> d]

\* generate_flat_image
AskFlat(q) == studio' = [asked |-> "flat lay", request |-> q]

\* One thing is asked: what is sent and paid for it depends on nothing else.
StudioNext ==
  /\ studio.asked = "nothing"
  /\ \/ \E l \in Launches : AskLaunch(l)
     \/ \E q \in Wishes, s \in Defaults, d \in Departments : AskModel(q, s, d)
     \/ \E q \in FlatWishes : AskFlat(q)

StudioSpec == StudioInit /\ [][StudioNext]_studio

-----------------------------------------------------------------------------
(* Properties *)

\* A run debits what its launch checked the balance for: never more, and all
\* of it when the provider yields what was asked; and a run that fails, at the
\* provider, at a download or at the staging, debits and meters nothing
\* (require_credits in products.py, consume_credits in services/imaging.py).
DebitAsAsked(l) ==
  \A n \in Yields(l), stored \in BOOLEAN, end \in {"completed", "failed", "pending"} :
    LET r == Run(l, <<"pending", end>>, n, NoTokens, stored) IN
    /\ r.debit <= AskedUnits(l)
    /\ r.status = "completed" /\ n = l.images => r.debit = AskedUnits(l)
    /\ r.status = "failed" => r.debit = 0 /\ r.usage = {}

\* An image kept with its background, then finalised: Photoroom works on a row
\* that goes on naming no provider (products.py:380, finalize_asset).
FinalisedLocally(l) == l.kind = "finalize" /\ ~l.removeBg

\* What is metered is the consumption of the provider the asset names, and only a
\* normalisation that keeps the background meters nothing. A finalisation meters
\* Photoroom whatever its row names, which for the image above is nobody.
MetersItsProvider(l) ==
  \A t \in [input : 0..1, output : 0..1] :
    /\ \A u \in Usage(l, t) :
         /\ u.provider = (IF FinalisedLocally(l) THEN "photoroom" ELSE RowProvider(l))
         /\ u.quantity > 0
    /\ Usage(l, t) = {} <=> RowProvider(l) = "local" /\ ~FinalisedLocally(l)

\* The same wish reaches both engines: gender, dimensions, instructions and the
\* cropped head are in both prompts or in neither, the studio is the studio,
\* and a pose FASHN is told has its preset unless it is a strict profile, which
\* has none. A free prompt of the request is for FASHN alone.
EnginesAgree(q, s, department) ==
  LET g == Gender(q, s, department)
      told(e) == GenerateModel(e, q, s, department, {"fashn", "photoroom"}).options
      f == told("fashn")
      v == told("photoroom")
      Shared(parts) == {p \in parts : p[1] \in {"gender", "dimensions", "instructions"}
                                      \/ p = <<"framing", "cropped_head">>}
  IN  q.prompt = Unset =>
        /\ Shared(f) = Shared(v.prompt)
        /\ q.scenePreset = Unset /\ s.scenePreset = Unset => (v.scene = "studio" <=> <<"scene", "studio">> \in f)
        /\ q.photoroomPose = Unset =>
             (v.pose = Unset <=>
                \A p \in f : p[1] = "pose" => p[2] \in {"profile_left", "profile_right"})

\* The two engines of the flat lay are told the same of the garment, no launch
\* sends more than four views of it, and the recolouring of the same request
\* aims at that garment and at its color before any reference.
FlatEnginesAgree(q) ==
  /\ q.color # Unset =>
       LET r == Recolor(q.color, q.views > 0, q.garment) IN
       r.from = "color" /\ <<"color", q.color>> \in FlatPrompt(q, "flat")
       /\ (r.target = Unset <=> Part("flat", q.garment) = {})
  /\ FlatPhotoroom(q).prompt \subseteq FlatGpt(q).prompt
  /\ FlatGpt(q).background = FlatPhotoroom(q).background
  /\ FlatGpt(q).images <= 4

\* A studio operation debits what its launch asked the balance for, meters the provider
\* its row names (but the finalisation of an image kept with its background, which names
\* none), and its two engines are told the same wish.
StudioIsConsistent ==
  /\ studio.asked = "launch" => DebitAsAsked(studio.launch) /\ MetersItsProvider(studio.launch)
  /\ studio.asked = "model photo" =>
       EnginesAgree(studio.request, studio.defaults, studio.department)
  /\ studio.asked = "flat lay" => FlatEnginesAgree(studio.request)

=============================================================================
