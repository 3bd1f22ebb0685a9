--------------------------- MODULE SessionDocument ---------------------------
(* The session document and the edits the control service makes of it
   (crates/eiviz-control/src/session/mutate.rs, edit.rs, mod.rs, validate.rs).
   An edit works on a copy, the copy is canonicalized and validated, and the
   store takes it or keeps the old document.  A reload goes through the codec of
   the session file (file.rs) and takes the same way.

   Of the document the model keeps what refers to something else by id, the
   counters new ids come from, and where something stands that the codec does
   not give back: most of these are numbers for which it has no zero, and what
   has several of them has one here that is 0 when any is.  Lists keyed by id are
   functions; only layers, states and steps, where the order or an unset id
   matters, are sequences.                                                      *)
EXTENDS Integers, Sequences, FiniteSets, Functions

CONSTANTS
    FirstDoc,     \* the document of a session that was just loaded
    Parts,        \* of the document that refer to nothing, see IsDocument
    NewInputs,    \* inputs an edit may bring: [kind, target, heard, level]
    NewScenes,    \* scenes an edit may bring: [layers, states, steps]
    NewUnits,     \* units an edit may bring: [preview, program, onAir, gain]
    NewOutputs,   \* output lists of the settings: functions from ids to a unit or 0
    AnyId,        \* ids a client may choose itself
    MaxEdits      \* bound: accepted edits of a behaviour

\* shown: the width, the height and the opacity; flat: the keys without one of them.
Layers == [id : Nat, input : Nat, shown : {0, 1}]
States == [id : Nat, keys : SUBSET Nat, flat : SUBSET Nat]
Scenes == [layers : Seq(Layers), states : Seq(States), steps : Seq(Nat)]
\* "video" stands for the kinds with a picture of their own; level: of the tone.
Inputs == [kind : {"video", "mix", "audio"}, target : Nat, heard : SUBSET Nat, level : {0, 1}]
Units == [preview : Nat, program : Nat, onAir : SUBSET Nat, gain : {0, 1}]

\* odd: of the settings, the transitions, the presets, the stream encoders and what
\* the host keeps with the settings (the renderer and the last path), those with
\* something the codec does not give back.
IsDocument(d) ==
    /\ DOMAIN d = {"inputs", "scenes", "units", "overlays", "outputs", "selected", "listen", "next", "odd"}
    /\ d.inputs \in [DOMAIN d.inputs -> Inputs]
    /\ d.scenes \in [DOMAIN d.scenes -> Scenes]
    /\ d.units \in [DOMAIN d.units -> Units]
    /\ d.listen \in [kind : {"none", "unit", "input"}, id : Nat]
    /\ d.next \in [input : Nat, scene : Nat, unit : Nat, overlay : Nat]

VARIABLES
    doc,    \* SessionStore::document
    used,   \* history: ids that were ever in the document, by kind
    edits,
    edit    \* history: what the last edit was

docVars == <<doc, used, edits, edit>>

FirstInput == 10
MaxId(S, otherwise) == IF S = {} THEN otherwise ELSE CHOOSE n \in S : \A m \in S : m <= n
Larger(a, b) == IF a < b THEN b ELSE a
Put(f, id, x) == [i \in DOMAIN f \cup {id} |-> IF i = id THEN x ELSE f[i]]
Drop(f, id) == [i \in DOMAIN f \ {id} |-> f[i]]
IdsOf(list) == {list[k].id : k \in DOMAIN list}

-----------------------------------------------------------------------------
(* canonicalize *)

\* Mutant: every entry is numbered by its place in the list.
MutantNumbered(list) == [k \in DOMAIN list |-> [list[k] EXCEPT !.id = k]]

\* An entry with id 0, or with an id an earlier entry has, gets the next id after
\* the highest of the list as it was given.
Numbered(list) ==
    LET top    == MaxId(IdsOf(list), 0)
        Unset(k) == list[k].id = 0 \/ \E j \in 1..(k - 1) : list[j].id = list[k].id
        Nth(k) == Cardinality({j \in 1..k : Unset(j)})
    IN  [k \in DOMAIN list |-> IF Unset(k) THEN [list[k] EXCEPT !.id = top + Nth(k)] ELSE list[k]]

\* The entries of a list at some of its places, in their order.
Picked(list, places) ==
    LET Nth(n) == CHOOSE k \in places : Cardinality({j \in places : j <= k}) = n
    IN  [n \in 1..Cardinality(places) |-> list[Nth(n)]]

CanonicalScene(scene) ==
    LET layers == Numbered(scene.layers)
        states == Numbered(scene.states)
    IN  [layers |-> layers,
         states |-> [k \in DOMAIN states |->
                       [states[k] EXCEPT !.keys = @ \cap IdsOf(layers), !.flat = @ \cap IdsOf(layers)]],
         steps  |-> Picked(scene.steps, {k \in DOMAIN scene.steps : scene.steps[k] \in IdsOf(states)})]

ListenOk(d) ==
    \/ d.listen.kind = "unit" /\ d.listen.id \in DOMAIN d.units
    \/ d.listen.kind = "input" /\ d.listen.id \in DOMAIN d.inputs

Nobody == [kind |-> "none", id |-> 0]

CanonicalInput(input) ==
    IF input.kind = "mix" THEN [input EXCEPT !.heard = {}] ELSE [input EXCEPT !.target = 0]

CanonicalUnit(unit, overlays) == [unit EXCEPT !.onAir = @ \cap overlays]

Canonical(d) ==
    [d EXCEPT
        !.listen = IF ListenOk(d) THEN @ ELSE Nobody,
        !.inputs = [i \in DOMAIN @ |-> CanonicalInput(@[i])],
        !.scenes = [s \in DOMAIN @ |-> CanonicalScene(@[s])],
        !.next.overlay = Larger(@, MaxId(d.overlays, 0) + 1),
        !.units = [u \in DOMAIN @ |-> CanonicalUnit(@[u], d.overlays)]]

(* validate *)

\* Following the target of a mix input as if it were the id of another one
\* (detect_mix_cycles): an id it comes back to is refused.
MixEdges(d) == {i \in DOMAIN d.inputs : d.inputs[i].kind = "mix" /\ d.inputs[i].target # 0}
HasMixCycle(d) ==
    \E S \in SUBSET MixEdges(d) : S # {} /\ \A i \in S : d.inputs[i].target \in S

Valid(d) ==
    /\ DOMAIN d.scenes # {}
    /\ DOMAIN d.units # {}
    /\ 0 \notin DOMAIN d.inputs \cup DOMAIN d.scenes \cup DOMAIN d.units \cup DOMAIN d.outputs
    /\ \A u \in DOMAIN d.units : {d.units[u].preview, d.units[u].program} \subseteq {0} \cup DOMAIN d.scenes
    /\ \A s \in DOMAIN d.scenes : \A k \in DOMAIN d.scenes[s].layers :
          LET i == d.scenes[s].layers[k].input IN i \in DOMAIN d.inputs /\ d.inputs[i].kind # "audio"
    /\ \A i \in DOMAIN d.inputs : d.inputs[i].kind = "mix" => d.inputs[i].target \in DOMAIN d.units
    /\ ~HasMixCycle(d)
    /\ \A o \in DOMAIN d.outputs : d.outputs[o] \in {0} \cup DOMAIN d.units
    /\ \A s \in DOMAIN d.scenes :
          /\ \A k \in DOMAIN d.scenes[s].states :
                /\ d.scenes[s].states[k].id # 0
                /\ d.scenes[s].states[k].keys \subseteq IdsOf(d.scenes[s].layers)
          /\ \A k \in DOMAIN d.scenes[s].steps : d.scenes[s].steps[k] \in IdsOf(d.scenes[s].states)

\* The counters are above the ids there are.
Counted(d) ==
    /\ \A i \in DOMAIN d.inputs : i \in Nat /\ i < d.next.input
    /\ \A s \in DOMAIN d.scenes : s \in Nat /\ s < d.next.scene
    /\ \A u \in DOMAIN d.units : u \in Nat /\ u < d.next.unit
    /\ \A o \in d.overlays : o \in Nat /\ o < d.next.overlay

\* A document is loaded like one that was edited; its counters are as the service
\* keeps them.
ASSUME DocumentAssumption ==
    /\ IsDocument(FirstDoc) /\ Canonical(FirstDoc) = FirstDoc /\ Valid(FirstDoc)
    /\ FirstDoc.selected \in DOMAIN FirstDoc.units /\ Counted(FirstDoc)
    /\ NewInputs \subseteq Inputs /\ NewScenes \subseteq Scenes /\ NewUnits \subseteq Units
    /\ AnyId \subseteq Nat

-----------------------------------------------------------------------------
(* Edits *)

IdsIn(d) == [input |-> DOMAIN d.inputs, scene |-> DOMAIN d.scenes,
             unit |-> DOMAIN d.units, overlay |-> d.overlays]

\* The staged copy is taken when it validates; a refused edit changes nothing.
Commit(what, staged) ==
    /\ edits < MaxEdits
    /\ Valid(Canonical(staged))
    /\ doc' = Canonical(staged)
    /\ used' = [kind \in DOMAIN used |-> used[kind] \cup IdsIn(doc')[kind]]
    /\ edits' = edits + 1
    /\ edit' = what

\* allocate_*: the id is above the counter and above every id in use.
NextId(counter, inUse, first) == Larger(Larger(counter, MaxId(inUse, first - 1) + 1), first)

CreateInput(input) ==
    LET id == NextId(doc.next.input, DOMAIN doc.inputs, FirstInput)
    IN  Commit([op |-> "create", kind |-> "input", id |-> id],
               [doc EXCEPT !.inputs = Put(@, id, input), !.next.input = id + 1])

CreateScene(scene) ==
    LET id == NextId(doc.next.scene, DOMAIN doc.scenes, 1)
    IN  Commit([op |-> "create", kind |-> "scene", id |-> id],
               [doc EXCEPT !.scenes = Put(@, id, scene), !.next.scene = id + 1])

CreateUnit(unit) ==
    LET id == NextId(doc.next.unit, DOMAIN doc.units, 1)
    IN  Commit([op |-> "create", kind |-> "unit", id |-> id],
               [doc EXCEPT !.units = Put(@, id, unit), !.next.unit = id + 1])

Other(op) == [op |-> op, kind |-> "none", id |-> 0]

\* upsert_*: the client names the id; the counter stays above it.
Raised(counter, known, id) == IF known THEN counter ELSE Larger(counter, id + 1)

UpsertInput(id, input) ==
    Commit(Other("upsert"), [doc EXCEPT !.inputs = Put(@, id, input),
                                        !.next.input = Raised(@, id \in DOMAIN doc.inputs, id)])
UpsertScene(id, scene) ==
    Commit(Other("upsert"), [doc EXCEPT !.scenes = Put(@, id, scene),
                                        !.next.scene = Raised(@, id \in DOMAIN doc.scenes, id)])
UpsertUnit(id, unit) ==
    Commit(Other("upsert"), [doc EXCEPT !.units = Put(@, id, unit),
                                        !.next.unit = Raised(@, id \in DOMAIN doc.units, id)])

\* The layers that show the input go with it.
DeleteInput(id) ==
    LET Shown(layers) == Picked(layers, {k \in DOMAIN layers : layers[k].input # id})
        Kept(scene) == [scene EXCEPT !.layers = Shown(@)]
    IN  /\ id \in DOMAIN doc.inputs
        /\ Commit(Other("delete"), [doc EXCEPT !.inputs = Drop(@, id),
                                               !.scenes = [s \in DOMAIN @ |-> Kept(@[s])]])

\* A scene a unit refers to is kept: the copy does not validate.
DeleteScene(id) ==
    /\ id \in DOMAIN doc.scenes
    /\ Commit(Other("delete"), [doc EXCEPT !.scenes = Drop(@, id)])

\* Mutant: the unit that goes stays selected.
MutantDeleteUnit(id) ==
    /\ id \in DOMAIN doc.units
    /\ DOMAIN doc.units # {id}
    /\ Commit(Other("delete"), [doc EXCEPT !.units = Drop(@, id)])

\* The last unit is kept; the selection moves to the first of the others.
DeleteUnit(id) ==
    /\ id \in DOMAIN doc.units
    /\ \E first \in DOMAIN doc.units \ {id} :
          Commit(Other("delete"), [doc EXCEPT !.units = Drop(@, id),
                                              !.selected = IF @ = id THEN first ELSE @])

\* SetSceneLayers as eivizctl uses it: it sends back the list it read with one
\* layer added without an id, removed, or moved to the end.
SetSceneLayers(op, scene, layers) ==
    Commit(Other(op), [doc EXCEPT !.scenes[scene].layers = layers])

AddLayer(scene, input) ==
    SetSceneLayers("layer", scene,
        Append(doc.scenes[scene].layers, [id |-> 0, input |-> input, shown |-> 1]))
Without(layers, k) == Picked(layers, DOMAIN layers \ {k})
DeleteLayer(scene, k) == SetSceneLayers("layer", scene, Without(doc.scenes[scene].layers, k))
MoveLayer(scene, k) ==
    LET layers == doc.scenes[scene].layers
    IN  SetSceneLayers("layer", scene, Append(Without(layers, k), layers[k]))

\* The same with a list from a file, whose layers have no ids (Replace).
ReplaceLayers(scene, inputs) ==
    SetSceneLayers("replace", scene,
        [k \in DOMAIN inputs |-> [id |-> 0, input |-> inputs[k], shown |-> 1]])

\* A layer is faded or shrunk to nothing.
FadeLayer(scene, k) ==
    SetSceneLayers("fade", scene, [doc.scenes[scene].layers EXCEPT ![k].shown = 0])

\* Without an id the slot gets the next one.
UpsertOverlay(id) ==
    LET slot == IF id = 0 THEN Larger(doc.next.overlay, 1) ELSE id
    IN  Commit([op |-> IF id = 0 THEN "create" ELSE "upsert", kind |-> "overlay", id |-> slot],
               [doc EXCEPT !.overlays = @ \cup {slot},
                           !.next.overlay = IF id = 0 THEN slot + 1 ELSE Larger(@, slot + 1)])

WithoutOverlay(unit, id) == [unit EXCEPT !.onAir = @ \ {id}]
DeleteOverlay(id) ==
    /\ id \in doc.overlays
    /\ Commit(Other("delete"),
              [doc EXCEPT !.overlays = @ \ {id},
                          !.units = [u \in DOMAIN @ |-> WithoutOverlay(@[u], id)]])

SetSettings(outputs) == Commit(Other("settings"), [doc EXCEPT !.outputs = outputs])

\* The other settings, the transitions, a preset; a whole document that a client
\* publishes brings the host's settings too.
SetPart(part, odd) ==
    Commit(Other("part"), [doc EXCEPT !.odd = IF odd THEN @ \cup {part} ELSE @ \ {part}])

-----------------------------------------------------------------------------
(* Saving and loading: protobuf does not write a zero, and the decoder reads what
   is missing as its default.                                                   *)

NoZero(x) == IF x = 0 THEN 1 ELSE x

\* Mutant: a bus without a scene is read as one with the first scene.
MutantDecoded(d) ==
    [d EXCEPT !.units = [u \in DOMAIN @ |->
        [@[u] EXCEPT !.gain = NoZero(@), !.preview = NoZero(@), !.program = NoZero(@)]]]

DecodedLayer(layer) == [layer EXCEPT !.shown = NoZero(@)]
DecodedState(state) == [state EXCEPT !.flat = {}]
DecodedScene(scene) ==
    [scene EXCEPT !.layers = [k \in DOMAIN @ |-> DecodedLayer(@[k])],
                  !.states = [k \in DOMAIN @ |-> DecodedState(@[k])]]
DecodedInput(input) == [input EXCEPT !.level = NoZero(@)]
DecodedUnit(unit) == [unit EXCEPT !.gain = NoZero(@)]
Decoded(d) ==
    [d EXCEPT !.inputs = [i \in DOMAIN @ |-> DecodedInput(@[i])],
              !.scenes = [s \in DOMAIN @ |-> DecodedScene(@[s])],
              !.units = [u \in DOMAIN @ |-> DecodedUnit(@[u])],
              !.odd = {}]

Reload == Commit(Other("reload"), Decoded(Canonical(doc)))

-----------------------------------------------------------------------------
DocInit ==
    /\ doc = FirstDoc
    /\ used = IdsIn(FirstDoc)
    /\ edits = 0
    /\ edit = Other("load")

ScenesNow == DOMAIN doc.scenes
LayersNow(s) == DOMAIN doc.scenes[s].layers

DocNext ==
    \/ \E input \in NewInputs : CreateInput(input) \/ \E id \in AnyId : UpsertInput(id, input)
    \/ \E scene \in NewScenes : CreateScene(scene) \/ \E id \in AnyId : UpsertScene(id, scene)
    \/ \E unit \in NewUnits : CreateUnit(unit) \/ \E id \in AnyId : UpsertUnit(id, unit)
    \/ \E id \in DOMAIN doc.inputs : DeleteInput(id)
    \/ \E id \in DOMAIN doc.scenes : DeleteScene(id)
    \/ \E id \in DOMAIN doc.units : DeleteUnit(id)
    \/ \E s \in ScenesNow, i \in DOMAIN doc.inputs : AddLayer(s, i) \/ ReplaceLayers(s, <<i>>)
    \/ \E s \in ScenesNow : \E k \in LayersNow(s) : DeleteLayer(s, k) \/ MoveLayer(s, k) \/ FadeLayer(s, k)
    \/ \E id \in {0} \cup AnyId : UpsertOverlay(id)
    \/ \E id \in doc.overlays : DeleteOverlay(id)
    \/ \E outputs \in NewOutputs : SetSettings(outputs)
    \/ \E part \in Parts, odd \in BOOLEAN : SetPart(part, odd)
    \/ Reload

DocSpec == DocInit /\ [][DocNext]_docVars

-----------------------------------------------------------------------------
(* Properties *)

\* Whatever edits were accepted, the document needs no repair: the ids of a
\* scene's layers and of its states are set and unique, what a state moves and a
\* sequence plays is there, the selected unit and the headphone source exist, no
\* unit has an overlay on air that is gone, and canonicalizing it again changes
\* nothing (so every reader of the saved file sees the document the store has).
Unique(list) == 0 \notin IdsOf(list) /\ Cardinality(IdsOf(list)) = Len(list)

DocumentIsSound ==
    /\ \A s \in DOMAIN doc.scenes :
          LET scene == doc.scenes[s]
          IN  /\ Unique(scene.layers) /\ Unique(scene.states)
              /\ \A k \in DOMAIN scene.layers : scene.layers[k].input \in DOMAIN doc.inputs
              /\ \A k \in DOMAIN scene.states : scene.states[k].keys \subseteq IdsOf(scene.layers)
              /\ Range(scene.steps) \subseteq IdsOf(scene.states)
    /\ doc.selected \in DOMAIN doc.units
    /\ doc.listen = Nobody \/ ListenOk(doc)
    /\ \A u \in DOMAIN doc.units : doc.units[u].onAir \subseteq doc.overlays
    /\ Canonical(doc) = doc

\* An id the service hands out was never the id of anything of its kind, deleted
\* or not: the mixer's resources, the clients' references and the audio
\* assignments of inputs are all kept by id.
FreshIds == [][edit'.op = "create" => edit'.id \notin used[edit'.kind]]_docVars

\* What a state moves stays what it moved: after an edit that keeps a key of a
\* state the key is that of the same layer. Only a list without ids, which
\* renumbers the layers, and a client that writes the whole scene may change it.
LayerOf(scene, id) == CHOOSE l \in Range(scene.layers) : l.id = id

KeysFollowLayers ==
    [][edit'.op \notin {"replace", "upsert"} =>
          \A s \in DOMAIN doc.scenes \cap DOMAIN doc'.scenes :
             \A old \in Range(doc.scenes[s].states), new \in Range(doc'.scenes[s].states) :
                old.id = new.id =>
                   /\ new.keys \subseteq old.keys
                   /\ \A k \in new.keys : LayerOf(doc.scenes[s], k).input = LayerOf(doc'.scenes[s], k).input]_docVars

\* An id means one thing for good, wherever it is kept.
IdsKeepTheirMeaning == FreshIds /\ KeysFollowLayers

\* Saving and loading gives the document back.  Where it does not, something of it
\* was a zero that the codec has no word for, or the host's own; then all that refers
\* to anything is as it was, and what was loaded is given back from then on.
IsOdd(d) ==
    \/ d.odd # {}
    \/ \E i \in DOMAIN d.inputs : d.inputs[i].level = 0
    \/ \E u \in DOMAIN d.units : d.units[u].gain = 0
    \/ \E s \in DOMAIN d.scenes :
          \/ \E k \in DOMAIN d.scenes[s].layers : d.scenes[s].layers[k].shown = 0
          \/ \E k \in DOMAIN d.scenes[s].states : d.scenes[s].states[k].flat # {}

SceneRefs(scene) ==
    <<[k \in DOMAIN scene.layers |-> <<scene.layers[k].id, scene.layers[k].input>>],
      [k \in DOMAIN scene.states |-> <<scene.states[k].id, scene.states[k].keys>>],
      scene.steps>>
InputRefs(input) == <<input.kind, input.target, input.heard>>
UnitRefs(unit) == <<unit.preview, unit.program, unit.onAir>>

References(d) ==
    <<[i \in DOMAIN d.inputs |-> InputRefs(d.inputs[i])],
      [s \in DOMAIN d.scenes |-> SceneRefs(d.scenes[s])],
      [u \in DOMAIN d.units |-> UnitRefs(d.units[u])],
      d.overlays, d.outputs, d.selected, d.listen, d.next>>

ReloadKeepsDocument ==
    [][edit'.op = "reload" =>
          \/ doc' = doc
          \/ IsOdd(doc) /\ ~IsOdd(doc') /\ References(doc') = References(doc)]_docVars
=============================================================================
