------------------------------ MODULE MixingUnit ------------------------------
(***************************************************************************)
(* One mixing unit on the air (LiveUnit in mixer/src/lib.rs): its Preview  *)
(* and Program buses, the T-bar, AUTO transitions and the overlays on top. *)
(*                                                                         *)
(* Three parties change it: the commands of the control service, one at a  *)
(* time under the service's mutex; a publish, which holds that mutex but   *)
(* reads and writes the unit in separate sections of the mixer's lock; and *)
(* the render thread, whose tick fits between any two of them.             *)
(*                                                                         *)
(* The frame index is not kept.  A transition knows how many frames it has *)
(* left; a slower master rate sets the index back and gives it more        *)
(* (PlayoutCursor::set_rate).  Of a curve only its end is known, and that  *)
(* it may leave 0..1 on the way (a Bezier curve with such handles).        *)
(*                                                                         *)
(* The unit knows nothing of the document's overlays: its list and its     *)
(* fades are of the sources they show (merge_overlay, remove_overlay), so  *)
(* two overlays that show one source share a fade.                         *)
(***************************************************************************)
EXTENDS Integers, FiniteSets

CONSTANTS
    Sources,      \* the scenes a bus may show
    Overlays,     \* the overlays of the session
    Pictures,     \* the sources that overlays show
    Nothing,      \* no source
    Full,         \* the mix that shows the incoming picture alone (1.0)
    Overshoot,    \* how far a curve may leave 0..Full
    MaxDuration,  \* bound: frames of a transition
    MaxSkip,      \* bound: frames that one tick stands for (late ones are skipped)
    MaxBack       \* bound: frames that a slower master rate sets the index back

ASSUME ConstantsAssumption ==
    /\ Nothing \notin Sources
    /\ IsFiniteSet(Overlays)
    /\ Full \in Nat /\ Full >= 2
    /\ Overshoot \in Nat
    /\ MaxDuration \in Nat \ {0}
    /\ MaxSkip \in Nat \ {0}
    /\ MaxBack \in Nat

VARIABLES
    bus,         \* UnitState and frozen_preview
    auto,        \* the AUTO under way
    air,         \* overlays: how often a picture is in the unit's list
    fades,       \* overlay_autos
    slots,       \* overlays of the stored document: what one shows, and how faintly
    onAir,       \* overlays_on_air of the unit in the stored document
    publishing,  \* how far a publish has got, and what it read
    apart        \* pictures that the list and the document may disagree about

overlayVars == <<air, fades, slots, onAir, apart>>

vars == <<bus, auto, overlayVars, publishing>>

NoAuto == [on |-> FALSE]
Still == [on |-> FALSE]
NotPublishing == [at |-> "no"]

Mixes == (-Overshoot)..(Full + Overshoot)

\* An overlay of the document.  A faint one has an opacity of 0.001 or less.
Slots == [shows : Pictures, faint : BOOLEAN]

\* What the operator asks a take to bring: one of the buses or a source.
Requests == {"preview", "program"} \cup Sources

Init ==
    /\ \E p, q \in Sources :
          bus = [program |-> p, preview |-> q, mix |-> 0, keep |-> FALSE, frozen |-> Nothing]
    /\ auto = NoAuto
    /\ air = [p \in Pictures |-> 0]
    /\ fades = [p \in Pictures |-> Still]
    /\ slots \in [Overlays -> Slots]
    /\ onAir = {}
    /\ publishing = NotPublishing
    /\ apart = {}

-----------------------------------------------------------------------------
(* The buses                                                                *)

Locked(a) == a.on /\ a.locked

\* The incoming picture when no AUTO holds one.
Incoming(b) == IF b.frozen = Nothing THEN b.preview ELSE b.frozen

\* live_incoming: the picture that mix brings in.
LiveIncoming == IF Locked(auto) THEN auto.incoming ELSE Incoming(bus)

\* resolve_incoming
Resolve(request) ==
    CASE request = "preview" -> bus.preview
      [] request = "program" -> bus.program
      [] OTHER -> request

\* take_cut_to: the buses swap only if it is Preview that is taken.
TakeCutTo(b, swap, incoming) ==
    [b EXCEPT !.program = incoming,
              !.preview = IF swap /\ incoming = b.preview THEN b.program ELSE b.preview,
              !.mix = 0,
              !.frozen = Nothing]

\* The end of apply_unit_state: whether the incoming picture is held.
Freeze(b, a) ==
    IF Locked(a) \/ (b.mix > 0 /\ b.keep) THEN Incoming(b) ELSE Nothing

\* Mutant: a state that is written stops the AUTO, changed mix or not.
MutantApply(s) ==
    /\ s.mix \in 0..Full
    /\ LET held == auto.on /\ (s.keep \/ auto.locked)
           b == IF held THEN [bus EXCEPT !.preview = s.preview]
                ELSE [bus EXCEPT !.program = s.program, !.preview = s.preview,
                                 !.mix = s.mix, !.keep = s.keep]
       IN  /\ auto' = IF held THEN auto ELSE NoAuto
           /\ bus' = [b EXCEPT !.frozen = Freeze(b, auto')]

\* apply_unit_state, behind validate_unit_state: an AUTO that holds its picture
\* lets only Preview through; another one stops when the mix is moved.
Apply(s) ==
    /\ s.mix \in 0..Full
    /\ LET held == auto.on /\ (s.keep \/ auto.locked)
           b == IF held THEN [bus EXCEPT !.preview = s.preview]
                ELSE [bus EXCEPT !.program = s.program, !.preview = s.preview,
                                 !.mix = s.mix, !.keep = s.keep]
       IN  /\ auto' = IF held \/ s.mix = bus.mix THEN auto ELSE NoAuto
           /\ bus' = [b EXCEPT !.frozen = Freeze(b, auto')]

\* unit_update_state_inner: the state as it is but for some fields.
State == [program |-> bus.program, preview |-> bus.preview, mix |-> bus.mix, keep |-> bus.keep]

\* The service executes a command under its mutex.
Command == publishing = NotPublishing /\ UNCHANGED publishing

Preview(s) ==
    /\ Command
    /\ Apply([State EXCEPT !.preview = s])
    /\ UNCHANGED overlayVars

SetMix(m) ==
    /\ Command
    /\ Apply([State EXCEPT !.mix = m])
    /\ UNCHANGED overlayVars

\* unit_cut_inner
UnitCut(request, swap) ==
    /\ Command
    /\ LET incoming == IF request = "preview" THEN LiveIncoming ELSE Resolve(request)
       IN  bus' = TakeCutTo(bus, swap, incoming)
    /\ auto' = NoAuto
    /\ UNCHANGED overlayVars

\* unit_auto_inner: away from the picture that is nearer.
UnitAuto(request, swap, keep, duration) ==
    LET incoming == Resolve(request)
        locked == keep \/ request # "preview"
        held == IF locked THEN incoming ELSE Nothing
    IN  /\ Command
        /\ bus' = [bus EXCEPT !.keep = keep, !.frozen = held]
        /\ auto' = [on |-> TRUE, to |-> IF 2 * bus.mix < Full THEN Full ELSE 0,
                    left |-> duration, swap |-> swap, locked |-> locked, incoming |-> held]
        /\ UNCHANGED overlayVars

-----------------------------------------------------------------------------
(* Overlays                                                                 *)

Fade(lands, left) == [on |-> TRUE, lands |-> lands, left |-> left]

\* The pictures of some overlays of the document.
WantedBy(os) == {slots[o].shows : o \in os}

\* apply_overlay_auto stores the document before it asks the mixer.
StoreOnAir(o, to) == onAir' = IF to THEN onAir \cup {o} ELSE onAir \ {o}

\* apply_overlay_auto and overlay_auto_inner.  A fade in ends at the opacity of
\* its overlay, and counts as a fade out if that is faint.
OverlayAuto(o, to, duration) ==
    LET p == slots[o].shows
        lands == to /\ ~slots[o].faint
        stray == IF to THEN slots[o].faint ELSE p \in WantedBy(onAir \ {o})
    IN  /\ Command
        /\ StoreOnAir(o, to)
        /\ fades' = [fades EXCEPT ![p] = Fade(lands, duration)]
        /\ apart' = IF stray THEN apart \cup {p}
                    ELSE IF air[p] <= 1 THEN apart \ {p}
                    ELSE apart
        /\ UNCHANGED <<bus, auto, air, slots>>

\* The mixer refuses the AUTO (its curve, a number that is not finite): the
\* command fails and the document stays as it was stored.
OverlayRefused(o, to) ==
    /\ Command
    /\ StoreOnAir(o, to)
    /\ apart' = apart \cup {slots[o].shows}
    /\ UNCHANGED <<bus, auto, air, fades, slots>>

Fading == {p \in Pictures : fades[p].on}

\* merge_overlay and remove_overlay: both look for the first of that source.
Merged(count) == IF count = 0 THEN 1 ELSE count
Removed(count) == IF count = 0 THEN 0 ELSE count - 1

\* Mutant: an overlay that has faded out stays in the list.
MutantFadesStep(n) ==
    LET done == {p \in Fading : fades[p].left <= n}
    IN  /\ air' = [p \in Pictures |-> IF p \in Fading THEN Merged(air[p]) ELSE air[p]]
        /\ fades' = [p \in Pictures |->
                        IF p \in done THEN Still
                        ELSE IF p \in Fading THEN [fades[p] EXCEPT !.left = @ - n]
                        ELSE fades[p]]

\* The overlays of tick_unit_transitions: a fade puts its picture into the list
\* at every frame, and takes it out when it ends at nothing.
FadesStep(n) ==
    LET done == {p \in Fading : fades[p].left <= n}
    IN  /\ air' = [p \in Pictures |->
                      IF p \in done /\ ~fades[p].lands THEN Removed(air[p])
                      ELSE IF p \in Fading THEN Merged(air[p])
                      ELSE air[p]]
        /\ fades' = [p \in Pictures |->
                        IF p \in done THEN Still
                        ELSE IF p \in Fading THEN [fades[p] EXCEPT !.left = @ - n]
                        ELSE fades[p]]

-----------------------------------------------------------------------------
(* The render thread                                                        *)

\* Mutant: a transition that ends takes what is on Preview.
MutantAutoStep(n) ==
    IF ~auto.on THEN UNCHANGED <<bus, auto>>
    ELSE IF auto.left > n
    THEN /\ auto' = [auto EXCEPT !.left = @ - n]
         /\ \E m \in Mixes : bus' = [bus EXCEPT !.mix = m]
    ELSE /\ auto' = NoAuto
         /\ bus' = IF auto.to = Full THEN TakeCutTo(bus, auto.swap, bus.preview)
                   ELSE [bus EXCEPT !.mix = 0, !.frozen = Nothing]

\* The AUTO of tick_unit_transitions.  It is taken out of the unit before the
\* cut at its end, so the cut looks for the incoming picture without it.
AutoStep(n) ==
    IF ~auto.on THEN UNCHANGED <<bus, auto>>
    ELSE IF auto.left > n
    THEN /\ auto' = [auto EXCEPT !.left = @ - n]
         /\ \E m \in Mixes : bus' = [bus EXCEPT !.mix = m]
    ELSE /\ auto' = NoAuto
         /\ bus' = IF auto.to = Full THEN TakeCutTo(bus, auto.swap, Incoming(bus))
                   ELSE [bus EXCEPT !.mix = 0, !.frozen = Nothing]

\* One tick of render_loop, n frames after the last.
Advance(n) ==
    /\ AutoStep(n)
    /\ FadesStep(n)
    /\ UNCHANGED <<slots, onAir, publishing, apart>>

Tick == \E n \in 1..MaxSkip : Advance(n)

\* The first tick after the master rate was lowered.
SlowDown ==
    /\ \A p \in Fading : fades[p].left <= MaxDuration
    /\ auto.on => auto.left <= MaxDuration
    /\ \E n \in 1..MaxBack : Advance(-n)

-----------------------------------------------------------------------------
(* A publish                                                                *)

\* The overlays on the air give the same layers as before (on_air_layers).
SameLayers(new, list) ==
    \E was \in [list -> onAir] :
        /\ \A o, q \in list : was[o] = was[q] => o = q
        /\ \A q \in onAir : \E o \in list : was[o] = q
        /\ \A o \in list : slots[was[o]] = new[o]

\* The document is stored and the plan applied: SetUnitOverlays if the layers are
\* others, be it only in their order or place.
Publish(new, list, moved) ==
    /\ publishing = NotPublishing
    /\ publishing' = [at |-> "planned"]
    /\ slots' = new
    /\ onAir' = list
    /\ IF SameLayers(new, list) /\ ~moved THEN UNCHANGED <<air, apart>>
       ELSE /\ air' = [p \in Pictures |-> Cardinality({o \in list : new[o].shows = p})]
            /\ apart' = Fading
    /\ UNCHANGED <<bus, auto, fades>>

\* repair_live: the buses as they are now, but for those whose scene is gone
\* from the new document.
PlanRepair(gone) ==
    /\ publishing = [at |-> "planned"]
    /\ \E p, q \in Sources :
          /\ IF bus.program \in gone THEN p \notin gone ELSE p = bus.program
          /\ IF bus.preview \in gone THEN q \notin gone ELSE q = bus.preview
          /\ publishing' = IF bus.program \notin gone /\ bus.preview \notin gone THEN NotPublishing
                           ELSE [at |-> "repair", program |-> p, preview |-> q, gone |-> gone]
    /\ UNCHANGED <<bus, auto, overlayVars>>

\* SetLiveState writes both buses.  A mix that is not valid fails the publish.
Repair ==
    /\ publishing.at = "repair"
    /\ publishing' = NotPublishing
    /\ IF bus.mix \in 0..Full
       THEN Apply([State EXCEPT !.program = publishing.program, !.preview = publishing.preview])
       ELSE UNCHANGED <<bus, auto>>
    /\ UNCHANGED overlayVars

\* What the service does for one command.
Commands ==
    \/ \E s \in Sources : Preview(s)
    \/ \E m \in 0..Full : SetMix(m)
    \/ \E request \in Requests, swap \in BOOLEAN :
          \/ UnitCut(request, swap)
          \/ \E keep \in BOOLEAN, duration \in 1..MaxDuration : UnitAuto(request, swap, keep, duration)
    \/ \E o \in Overlays, to \in BOOLEAN, duration \in 1..MaxDuration : OverlayAuto(o, to, duration)

Render == Tick \/ SlowDown

Refusals == \E o \in Overlays, to \in BOOLEAN : OverlayRefused(o, to)

Repairs == (\E gone \in SUBSET Sources : PlanRepair(gone)) \/ Repair

Next ==
    \/ Commands
    \/ Refusals
    \/ Render
    \/ \E new \in [Overlays -> Slots], list \in SUBSET Overlays, moved \in BOOLEAN :
          Publish(new, list, moved)
    \/ Repairs

Spec == Init /\ [][Next]_vars

-----------------------------------------------------------------------------

Lefts == 1..(MaxDuration + MaxBack)

Buses == [program : Sources, preview : Sources, mix : Mixes, keep : BOOLEAN,
          frozen : Sources \cup {Nothing}]

Autos == [on : {TRUE}, to : {0, Full}, left : Lefts, swap : BOOLEAN, locked : BOOLEAN,
          incoming : Sources \cup {Nothing}]

Fades == [on : {TRUE}, lands : BOOLEAN, left : Lefts]

TypeOK ==
    /\ bus \in Buses
    /\ auto \in {NoAuto} \cup Autos
    /\ air \in [Pictures -> Nat]
    /\ fades \in [Pictures -> {Still} \cup Fades]
    /\ slots \in [Overlays -> Slots]
    /\ onAir \subseteq Overlays /\ apart \subseteq Pictures
    /\ publishing \in {NotPublishing, [at |-> "planned"]} \cup
                      [at : {"repair"}, program : Sources, preview : Sources, gone : SUBSET Sources]

\* The picture an AUTO holds is frozen in the unit as well: the cut at its end
\* finds it there.
HeldIsFrozen == Locked(auto) => auto.incoming \in Sources /\ bus.frozen = auto.incoming

\* When a transition ends on the other picture, Program becomes the picture that
\* was being mixed in, whatever was done to the buses meanwhile (take_cut): the
\* end of a transition is not a jump.
TakesWhatItShowed ==
    [][auto.on /\ ~auto'.on /\ bus'.mix = 0 /\ (Tick \/ SlowDown) /\ auto.to = Full
       => bus'.program = LiveIncoming]_vars

\* A transition stops with the mix at rest, unless the T-bar was moved; what is
\* put on Preview never stops it (the comment of unit_update_state_inner).
EndsAtRest ==
    [][auto.on /\ ~auto'.on => bus'.mix = 0 \/ \E m \in 0..Full : SetMix(m)]_vars

\* A picture that is held stays the incoming one whatever is put on Preview
\* (keep_preview, incoming_locked).
HeldAgainstPreview ==
    [][bus.frozen # Nothing /\ (\E s \in Sources : Preview(s)) => LiveIncoming' = LiveIncoming]_vars

\* A picture that is not fading is in the unit's list if and only if an overlay
\* shows it that the document says is on the air, whatever fades, edits and
\* publishes have brought it there or away (overlays_on_air, on_air_layers,
\* overlay_autos).  The exceptions are the code's: a list that is written while
\* the picture fades (SetUnitOverlays leaves the fade running); an AUTO that the
\* mixer refuses after the document was stored; an AUTO to a faint overlay; and
\* an AUTO away from a picture that another overlay on the air shows too.  They
\* last until the list is written, or until another AUTO of the picture ends.
OverlaysFollowDocument ==
    \A p \in Pictures \ apart : ~fades[p].on => (air[p] > 0 <=> p \in WantedBy(onAir))
=============================================================================
