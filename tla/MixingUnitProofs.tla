-------------------------- MODULE MixingUnitProofs --------------------------
(***************************************************************************)
(* What a mixing unit guarantees for any scenes, overlays, durations and   *)
(* late or early ticks.  Four facts carry the invariant: the picture that  *)
(* an AUTO holds is frozen in the unit too; nothing is frozen without an   *)
(* AUTO or the T-bar holding it; a fade of a picture that is not apart     *)
(* ends where the document says; and only two overlays on the air bring    *)
(* such a picture into the list twice, so one fade can take it out.        *)
(***************************************************************************)
EXTENDS VideoTrigger, FiniteSetTheorems, TLAPS

\* A unit that keeps its Preview has no AUTO that lets go of it.
KeepMeansLocked == auto.on /\ bus.keep => auto.locked

\* A picture is frozen for an AUTO that holds it, or for the T-bar.
FrozenForAReason ==
    bus.frozen # Nothing => Locked(auto) \/ (bus.keep /\ bus.mix > 0 /\ ~auto.on)

BusInv == HeldIsFrozen /\ KeepMeansLocked /\ FrozenForAReason

Wanted == WantedBy(onAir)

FadesAgree ==
    \A p \in Pictures \ apart : fades[p].on => (fades[p].lands <=> p \in Wanted)

\* A picture is in the list twice for two overlays that show it.
TwiceForTwo ==
    \A p \in Pictures \ apart : air[p] > 1 =>
        \E o, q \in onAir : o # q /\ slots[o].shows = p /\ slots[q].shows = p

OverlayInv == FadesAgree /\ OverlaysFollowDocument /\ TwiceForTwo

IInv == TypeOK /\ BusInv /\ OverlayInv

-----------------------------------------------------------------------------
(* The buses                                                                *)

LEMMA MixType == 0 \in Mixes /\ 0..Full \subseteq Mixes
BY ConstantsAssumption DEF ConstantsAssumption, Mixes

LEMMA IncomingType == ASSUME NEW b \in Buses PROVE Incoming(b) \in Sources
BY DEF Incoming, Buses

LEMMA TakeCutType ==
    ASSUME NEW b \in Buses, NEW swap \in BOOLEAN, NEW s \in Sources
    PROVE  LET c == TakeCutTo(b, swap, s)
           IN  c \in Buses /\ c.program = s /\ c.mix = 0 /\ c.frozen = Nothing
BY MixType DEF TakeCutTo, Buses

\* A state that differs from the unit's in its sources or its mix.
States == {s \in [program : Sources, preview : Sources, mix : Int, keep : BOOLEAN] :
              s.keep = bus.keep}

\* Writing a state keeps the types and what is known of the buses.
LEMMA ApplyStep ==
    ASSUME TypeOK, BusInv, NEW s \in States, Apply(s)
    PROVE  bus' \in Buses /\ auto' \in {NoAuto, auto} /\ BusInv'
<1> DEFINE held == auto.on /\ (s.keep \/ auto.locked)
           b == IF held THEN [bus EXCEPT !.preview = s.preview]
                ELSE [bus EXCEPT !.program = s.program, !.preview = s.preview,
                                 !.mix = s.mix, !.keep = s.keep]
<1>1. /\ s.program \in Sources /\ s.preview \in Sources /\ s.keep = bus.keep
      /\ s.mix \in Mixes
  BY MixType DEF States, Apply
<1>2. /\ auto' = IF held \/ s.mix = bus.mix THEN auto ELSE NoAuto
      /\ bus' = [b EXCEPT !.frozen = Freeze(b, auto')]
  BY DEF Apply
<1>3. b \in Buses /\ b.keep = bus.keep /\ b.frozen = bus.frozen
  BY <1>1 DEF TypeOK, Buses
<1>4. Incoming(b) \in Sources
  BY <1>3, IncomingType
<1>5. auto' \in {NoAuto, auto} /\ (Locked(auto) => auto' = auto)
  BY <1>2 DEF Locked
<1>6. /\ bus' \in Buses /\ bus'.keep = bus.keep /\ bus'.mix = b.mix
      /\ bus'.frozen = Freeze(b, auto')
  <2>1. Freeze(b, auto') \in Sources \cup {Nothing}
    BY <1>4 DEF Freeze
  <2> HIDE DEF b
  <2> QED BY <1>2, <1>3, <2>1 DEF Buses
<1>7. KeepMeansLocked'
  BY <1>5, <1>6 DEF BusInv, KeepMeansLocked, NoAuto
<1>8. HeldIsFrozen'
  <2> SUFFICES ASSUME Locked(auto') PROVE auto'.incoming \in Sources /\ bus'.frozen = auto'.incoming
    BY DEF HeldIsFrozen
  <2>1. auto' = auto /\ Locked(auto)
    BY <1>5 DEF Locked, NoAuto
  <2>2. auto.incoming \in Sources /\ bus.frozen = auto.incoming
    BY <2>1 DEF BusInv, HeldIsFrozen
  <2>3. bus.frozen # Nothing
    BY <2>2, ConstantsAssumption DEF ConstantsAssumption
  <2>4. Freeze(b, auto') = bus.frozen
    BY <2>1, <2>3, <1>3 DEF Freeze, Incoming
  <2> QED BY <1>6, <2>1, <2>2, <2>4
<1>9. FrozenForAReason'
  <2> SUFFICES ASSUME bus'.frozen # Nothing, ~Locked(auto')
               PROVE  bus'.keep /\ bus'.mix > 0 /\ ~auto'.on
    BY DEF FrozenForAReason
  <2>1. b.mix > 0 /\ b.keep
    BY <1>6 DEF Freeze
  <2>2. bus'.keep
    BY <2>1, <1>3, <1>6
  <2>3. ~auto'.on
    BY <2>2, <1>7 DEF KeepMeansLocked, Locked
  <2> QED BY <2>1, <2>2, <2>3, <1>6
<1> QED BY <1>5, <1>6, <1>7, <1>8, <1>9 DEF BusInv

\* So does the state with another Preview, another mix or both buses repaired.
LEMMA StateType == TypeOK => State \in States /\ bus.mix \in Int
BY ConstantsAssumption DEF TypeOK, State, States, Buses, Mixes, ConstantsAssumption

LEMMA ResolveType ==
    ASSUME TypeOK, NEW r \in Requests PROVE Resolve(r) \in Sources
BY DEF TypeOK, Resolve, Requests, Buses

LEMMA LiveIncomingType == TypeOK /\ HeldIsFrozen => LiveIncoming \in Sources
BY IncomingType DEF TypeOK, LiveIncoming, HeldIsFrozen

-----------------------------------------------------------------------------
(* A tick, n frames after the last one, or before it after a slow-down.     *)

\* A transition under way has its fields.
LEMMA AutoType == ASSUME TypeOK, auto.on PROVE auto \in Autos
BY DEF TypeOK, NoAuto

LEMMA AutoFields ==
    ASSUME NEW a \in Autos
    PROVE  a.left \in Lefts /\ a.swap \in BOOLEAN /\ a.locked \in BOOLEAN
BY DEF Autos

LEMMA FadeType == ASSUME TypeOK, NEW p \in Fading PROVE p \in Pictures /\ fades[p] \in Fades
BY DEF TypeOK, Fading, Still

LEMMA FadeFields == ASSUME NEW f \in Fades PROVE f.left \in Lefts /\ f.lands \in BOOLEAN
BY DEF Fades

\* No transition gets more frames than the bound.
Bounded(n) ==
    /\ n \in Int
    /\ auto.on => auto.left - n <= MaxDuration + MaxBack
    /\ \A p \in Fading : fades[p].left - n <= MaxDuration + MaxBack

LEMMA TickIsBounded ==
    ASSUME TypeOK, NEW n \in 1..MaxSkip PROVE Bounded(n)
<1>1. n \in Int /\ n > 0 /\ MaxDuration \in Nat /\ MaxBack \in Nat
  BY ConstantsAssumption DEF ConstantsAssumption
<1>2. auto.on => auto.left \in Lefts
  BY AutoType, AutoFields
<1>3. \A p \in Fading : fades[p].left \in Lefts
  BY FadeType, FadeFields
<1> QED BY <1>1, <1>2, <1>3 DEF Bounded, Lefts

LEMMA SlowDownIsBounded ==
    ASSUME TypeOK, SlowDown
    PROVE  \E n \in Int : Bounded(n) /\ Advance(n)
<1>1. PICK k \in 1..MaxBack : Advance(-k)
  BY DEF SlowDown
<1>2. k \in Int /\ k <= MaxBack /\ MaxDuration \in Nat /\ MaxBack \in Nat
  BY ConstantsAssumption DEF ConstantsAssumption
<1>3. auto.on => auto.left \in Int /\ auto.left <= MaxDuration
  <2>1. auto.on => auto.left \in Lefts
    BY AutoType, AutoFields
  <2> QED BY <2>1, <1>2 DEF Lefts, SlowDown
<1>4. \A p \in Fading : fades[p].left \in Int /\ fades[p].left <= MaxDuration
  <2>1. \A p \in Fading : fades[p].left \in Lefts
    BY FadeType, FadeFields
  <2> QED BY <2>1, <1>2 DEF Lefts, SlowDown
<1>5. Bounded(-k)
  BY <1>2, <1>3, <1>4 DEF Bounded
<1> QED BY <1>1, <1>2, <1>5

\* The AUTO runs on, lands, or goes back to rest.
LEMMA AutoStepKeeps ==
    ASSUME TypeOK, BusInv, NEW n \in Int, Bounded(n), AutoStep(n)
    PROVE  /\ bus' \in Buses /\ auto' \in {NoAuto} \cup Autos /\ BusInv'
           /\ ~auto.on => UNCHANGED <<bus, auto>>
           /\ auto.on /\ ~auto'.on =>
                 bus'.mix = 0 /\ (auto.to = Full => bus'.program = LiveIncoming)
<1>1. CASE ~auto.on
  BY <1>1 DEF AutoStep, TypeOK, BusInv, HeldIsFrozen, KeepMeansLocked, FrozenForAReason
<1>2. CASE auto.on /\ auto.left > n
  <2>1. auto \in Autos
    BY <1>2, AutoType
  <2>2. PICK m \in Mixes : bus' = [bus EXCEPT !.mix = m]
    BY <1>2 DEF AutoStep
  <2>3. auto' = [auto EXCEPT !.left = auto.left - n]
    BY <1>2 DEF AutoStep
  <2>4. auto.left - n \in Lefts
    <3>1. auto.left \in Int /\ auto.left - n <= MaxDuration + MaxBack
      BY <1>2, <2>1 DEF Autos, Lefts, Bounded
    <3>2. MaxDuration + MaxBack \in Int
      BY ConstantsAssumption DEF ConstantsAssumption
    <3> QED BY <1>2, <3>1, <3>2 DEF Lefts
  <2>5. auto' \in Autos /\ bus' \in Buses
    BY <2>1, <2>2, <2>3, <2>4 DEF Autos, Buses, TypeOK
  <2>6. /\ auto'.on /\ auto'.locked = auto.locked /\ auto'.incoming = auto.incoming
        /\ bus'.keep = bus.keep /\ bus'.frozen = bus.frozen
    BY <1>2, <2>1, <2>2, <2>3 DEF Autos, Buses, TypeOK
  <2>7. BusInv'
    BY <1>2, <2>6 DEF BusInv, HeldIsFrozen, KeepMeansLocked, FrozenForAReason, Locked
  <2> QED BY <1>2, <2>5, <2>6, <2>7
<1>3. CASE auto.on /\ ~(auto.left > n)
  <2>1. auto \in Autos /\ auto.swap \in BOOLEAN
    BY <1>3, AutoType, AutoFields
  <2>2. auto' = NoAuto /\ ~auto'.on
    BY <1>3 DEF AutoStep, NoAuto
  <2>3. bus \in Buses /\ Incoming(bus) \in Sources
    BY IncomingType DEF TypeOK
  <2>4. /\ bus' \in Buses /\ bus'.mix = 0 /\ bus'.frozen = Nothing
        /\ auto.to = Full => bus'.program = Incoming(bus)
    <3>1. CASE auto.to = Full
      <4>1. bus' = TakeCutTo(bus, auto.swap, Incoming(bus))
        BY <1>3, <3>1 DEF AutoStep
      <4> QED BY <3>1, <4>1, <2>1, <2>3, TakeCutType
    <3>2. CASE auto.to # Full
      <4>1. bus' = [bus EXCEPT !.mix = 0, !.frozen = Nothing]
        BY <1>3, <3>2 DEF AutoStep
      <4> QED BY <3>2, <4>1, <2>3, MixType DEF Buses
    <3> QED BY <3>1, <3>2
  <2>5. Incoming(bus) = LiveIncoming
    <3>1. CASE Locked(auto)
      <4>1. bus.frozen = auto.incoming /\ bus.frozen # Nothing
        BY <3>1, ConstantsAssumption DEF BusInv, HeldIsFrozen, ConstantsAssumption
      <4> QED BY <3>1, <4>1 DEF Incoming, LiveIncoming
    <3> QED BY <3>1 DEF LiveIncoming
  <2>6. BusInv'
    BY <2>2, <2>4 DEF BusInv, HeldIsFrozen, KeepMeansLocked, FrozenForAReason, Locked
  <2> QED BY <1>3, <2>2, <2>4, <2>5, <2>6
<1> QED BY <1>1, <1>2, <1>3

\* A picture that is not apart and that nothing wants is in the list once at most.
LEMMA OnceUnwanted ==
    ASSUME TypeOK, OverlayInv, NEW p \in Pictures \ apart, p \notin Wanted
    PROVE  air[p] \in {0, 1}
<1>1. ~(air[p] > 1)
  BY DEF OverlayInv, TwiceForTwo, Wanted, WantedBy
<1>2. air[p] \in Nat
  BY DEF TypeOK
<1> QED BY <1>1, <1>2

\* A fade that ends leaves its picture in the list or out of it.
LEMMA FadesStepKeeps ==
    ASSUME TypeOK, OverlayInv, NEW n \in Int, Bounded(n), FadesStep(n),
           UNCHANGED <<slots, onAir, apart>>
    PROVE  /\ air' \in [Pictures -> Nat] /\ fades' \in [Pictures -> {Still} \cup Fades]
           /\ OverlayInv'
<1> DEFINE done == {p \in Fading : fades[p].left <= n}
<1>1. /\ air' = [p \in Pictures |->
                     IF p \in done /\ ~fades[p].lands THEN Removed(air[p])
                     ELSE IF p \in Fading THEN Merged(air[p])
                     ELSE air[p]]
      /\ fades' = [p \in Pictures |->
                      IF p \in done THEN Still
                      ELSE IF p \in Fading THEN [fades[p] EXCEPT !.left = fades[p].left - n]
                      ELSE fades[p]]
  BY DEF FadesStep
<1>2. \A p \in Pictures : air[p] \in Nat
  BY DEF TypeOK
<1>3. ASSUME NEW p \in Fading \ done
      PROVE  LET f == [fades[p] EXCEPT !.left = fades[p].left - n]
             IN  f \in Fades /\ f.on /\ f.lands = fades[p].lands
  <2>1. fades[p] \in Fades /\ fades[p].left \in Int /\ fades[p].left > n
    <3>1. fades[p] \in Fades /\ fades[p].left \in Lefts
      BY <1>3, FadeType, FadeFields
    <3>2. ~(fades[p].left <= n)
      BY <1>3
    <3> QED BY <3>1, <3>2 DEF Lefts
  <2>2. fades[p].left - n \in Lefts
    <3>1. fades[p].left - n <= MaxDuration + MaxBack /\ MaxDuration + MaxBack \in Int
      BY <1>3, ConstantsAssumption DEF Bounded, ConstantsAssumption
    <3> QED BY <2>1, <3>1 DEF Lefts
  <2> QED BY <2>1, <2>2 DEF Fades
<1>4. ASSUME NEW p \in Pictures \ Fading PROVE ~fades[p].on /\ fades[p] \in {Still} \cup Fades
  BY DEF Fading, TypeOK
<1>5. air' \in [Pictures -> Nat]
  <2> SUFFICES ASSUME NEW p \in Pictures PROVE air'[p] \in Nat
    BY <1>1
  <2>1. Removed(air[p]) \in Nat /\ Merged(air[p]) \in Nat
    BY <1>2 DEF Removed, Merged
  <2> QED BY <1>1, <1>2, <2>1
<1>6. fades' \in [Pictures -> {Still} \cup Fades]
  <2> SUFFICES ASSUME NEW p \in Pictures PROVE fades'[p] \in {Still} \cup Fades
    BY <1>1
  <2> HIDE DEF done
  <2> QED BY <1>1, <1>3, <1>4
<1>7. Wanted' = Wanted
  BY DEF Wanted, WantedBy
<1>8. ASSUME NEW p \in Pictures \ apart
      PROVE  /\ fades'[p].on => (fades'[p].lands <=> p \in Wanted)
             /\ ~fades'[p].on => (air'[p] > 0 <=> p \in Wanted)
             /\ air'[p] > 1 => air[p] > 1
  <2>1. /\ fades[p].on => (fades[p].lands <=> p \in Wanted)
        /\ ~fades[p].on => (air[p] > 0 <=> p \in Wanted)
    BY <1>8 DEF OverlayInv, FadesAgree, OverlaysFollowDocument, Wanted
  <2>2. CASE p \in done
    <3>1. fades[p].on /\ p \in Fading /\ ~fades'[p].on
      BY <1>1, <2>2 DEF Fading, Still
    <3>2. CASE fades[p].lands
      <4>1. air'[p] = Merged(air[p])
        BY <1>1, <2>2, <3>1, <3>2
      <4> QED BY <1>2, <2>1, <3>1, <3>2, <4>1 DEF Merged
    <3>3. CASE ~fades[p].lands
      <4>1. air'[p] = Removed(air[p]) /\ p \notin Wanted
        BY <1>1, <2>1, <2>2, <3>1, <3>3
      <4>2. air[p] \in {0, 1}
        BY <4>1, OnceUnwanted
      <4> QED BY <3>1, <4>1, <4>2 DEF Removed
    <3> QED BY <3>2, <3>3
  <2>3. CASE p \in Fading \ done
    <3>1. fades'[p].on /\ fades'[p].lands = fades[p].lands /\ fades[p].on
      BY <1>1, <1>3, <2>3 DEF Fading
    <3>2. air'[p] = Merged(air[p])
      BY <1>1, <2>3
    <3> QED BY <1>2, <2>1, <3>1, <3>2 DEF Merged
  <2>4. CASE p \notin Fading
    <3>1. p \notin done /\ fades'[p] = fades[p] /\ ~fades[p].on /\ air'[p] = air[p]
      BY <1>1, <1>4, <2>4
    <3> QED BY <2>1, <3>1
  <2> QED BY <2>2, <2>3, <2>4
<1>9. TwiceForTwo'
  BY <1>8 DEF OverlayInv, TwiceForTwo
<1>10. FadesAgree' /\ OverlaysFollowDocument'
  BY <1>7, <1>8 DEF FadesAgree, OverlaysFollowDocument, Wanted
<1> QED BY <1>5, <1>6, <1>9, <1>10 DEF OverlayInv

LEMMA AdvanceKeeps ==
    ASSUME IInv, NEW n \in Int, Bounded(n), Advance(n)
    PROVE  /\ IInv'
           /\ auto.on /\ ~auto'.on =>
                 bus'.mix = 0 /\ (auto.to = Full => bus'.program = LiveIncoming)
<1>1. /\ TypeOK /\ BusInv /\ OverlayInv /\ AutoStep(n) /\ FadesStep(n)
      /\ UNCHANGED <<slots, onAir, publishing, apart>>
  BY DEF IInv, Advance
<1>2. /\ bus' \in Buses /\ auto' \in {NoAuto} \cup Autos /\ BusInv'
      /\ auto.on /\ ~auto'.on =>
            bus'.mix = 0 /\ (auto.to = Full => bus'.program = LiveIncoming)
  BY <1>1, AutoStepKeeps
<1>3. /\ air' \in [Pictures -> Nat] /\ fades' \in [Pictures -> {Still} \cup Fades]
      /\ OverlayInv'
  BY <1>1, FadesStepKeeps
<1>4. TypeOK'
  BY <1>1, <1>2, <1>3 DEF TypeOK
<1> QED BY <1>2, <1>3, <1>4 DEF IInv

-----------------------------------------------------------------------------
(* Every step                                                               *)

\* A step that touches no overlay keeps what is known of them.
LEMMA OverlaysStay ==
    ASSUME OverlayInv, UNCHANGED overlayVars PROVE OverlayInv'
BY DEF overlayVars, OverlayInv, FadesAgree, OverlaysFollowDocument, TwiceForTwo, Wanted, WantedBy

LEMMA BusesStay ==
    ASSUME BusInv, UNCHANGED <<bus, auto>> PROVE BusInv'
BY DEF BusInv, HeldIsFrozen, KeepMeansLocked, FrozenForAReason, Locked

\* A step of the commands or of a publish that writes a state.
LEMMA ApplyKeeps ==
    ASSUME IInv, NEW s \in States, Apply(s), UNCHANGED overlayVars,
           publishing' \in {publishing, NotPublishing}
    PROVE  IInv'
<1>1. TypeOK /\ BusInv /\ OverlayInv
  BY DEF IInv
<1>2. bus' \in Buses /\ auto' \in {NoAuto, auto} /\ BusInv'
  BY <1>1, ApplyStep
<1>3. OverlayInv'
  BY <1>1, OverlaysStay
<1>4. TypeOK'
  BY <1>1, <1>2 DEF TypeOK, overlayVars
<1> QED BY <1>2, <1>3, <1>4 DEF IInv

LEMMA CutKeeps ==
    ASSUME IInv, NEW r \in Requests, NEW swap \in BOOLEAN, UnitCut(r, swap)
    PROVE  IInv' /\ bus'.mix = 0
<1> DEFINE incoming == IF r = "preview" THEN LiveIncoming ELSE Resolve(r)
<1>1. TypeOK /\ BusInv /\ OverlayInv
  BY DEF IInv
<1>2. incoming \in Sources
  BY <1>1, LiveIncomingType, ResolveType DEF BusInv
<1>3. /\ bus' = TakeCutTo(bus, swap, incoming) /\ auto' = NoAuto
      /\ UNCHANGED <<overlayVars, publishing>>
  BY DEF UnitCut, Command
<1>4. bus' \in Buses /\ bus'.mix = 0 /\ bus'.frozen = Nothing
  <2> HIDE DEF incoming
  <2> QED BY <1>1, <1>2, <1>3, TakeCutType DEF TypeOK
<1>5. BusInv'
  BY <1>3, <1>4 DEF BusInv, HeldIsFrozen, KeepMeansLocked, FrozenForAReason, Locked, NoAuto
<1>6. OverlayInv'
  BY <1>1, <1>3, OverlaysStay
<1>7. TypeOK'
  BY <1>1, <1>3, <1>4 DEF TypeOK, overlayVars
<1> QED BY <1>4, <1>5, <1>6, <1>7 DEF IInv

LEMMA AutoKeeps ==
    ASSUME IInv, NEW r \in Requests, NEW swap \in BOOLEAN, NEW keep \in BOOLEAN,
           NEW d \in 1..MaxDuration, UnitAuto(r, swap, keep, d)
    PROVE  IInv' /\ auto'.on
<1> DEFINE incoming == Resolve(r)
           locked == keep \/ r # "preview"
           held == IF locked THEN incoming ELSE Nothing
           goal == IF 2 * bus.mix < Full THEN Full ELSE 0
<1>1. TypeOK /\ BusInv /\ OverlayInv /\ incoming \in Sources
  BY ResolveType DEF IInv
<1>2. /\ bus' = [bus EXCEPT !.keep = keep, !.frozen = held]
      /\ auto' = [on |-> TRUE, to |-> goal, left |-> d, swap |-> swap, locked |-> locked,
                  incoming |-> held]
      /\ UNCHANGED <<overlayVars, publishing>>
  BY DEF UnitAuto, Command
<1>3. held \in Sources \cup {Nothing} /\ locked \in BOOLEAN /\ goal \in {0, Full}
      /\ d \in Lefts
  <2>1. d \in Lefts
    BY ConstantsAssumption DEF ConstantsAssumption, Lefts
  <2> QED BY <1>1, <2>1
<1>4. /\ locked => held \in Sources
      /\ ~locked => held = Nothing /\ ~keep
  BY <1>1
<1>5. bus' \in Buses /\ bus'.keep = keep /\ bus'.frozen = held
  BY <1>1, <1>2, <1>3 DEF TypeOK, Buses
<1>6. auto' \in Autos /\ auto'.on /\ auto'.locked = locked /\ auto'.incoming = held
  BY <1>2, <1>3 DEF Autos
<1>7. BusInv'
  BY <1>4, <1>5, <1>6 DEF BusInv, HeldIsFrozen, KeepMeansLocked, FrozenForAReason, Locked
<1>8. OverlayInv'
  BY <1>1, <1>2, OverlaysStay
<1>9. TypeOK'
  BY <1>1, <1>2, <1>5, <1>6 DEF TypeOK, overlayVars
<1> QED BY <1>6, <1>7, <1>8, <1>9 DEF IInv

\* What the document wants after an overlay goes on or off.
LEMMA StoredWants ==
    ASSUME TypeOK, NEW o \in Overlays, NEW to \in BOOLEAN, StoreOnAir(o, to), slots' = slots
    PROVE  /\ onAir' \subseteq Overlays /\ slots[o].shows \in Pictures
           /\ \A p \in Pictures : p # slots[o].shows => (p \in Wanted' <=> p \in Wanted)
           /\ slots[o].shows \in Wanted' <=> to \/ slots[o].shows \in WantedBy(onAir \ {o})
<1>1. onAir' = IF to THEN onAir \cup {o} ELSE onAir \ {o}
  BY DEF StoreOnAir
<1>2. slots[o] \in Slots
  BY DEF TypeOK
<1> QED BY <1>1, <1>2 DEF Wanted, WantedBy, TypeOK, Slots

\* The pictures that an AUTO or its refusal is not about, with nothing done to them.
LEMMA OthersStay ==
    ASSUME TypeOK, OverlayInv, NEW o \in Overlays, NEW to \in BOOLEAN, StoreOnAir(o, to),
           slots' = slots, air' = air,
           NEW p \in Pictures \ apart, p # slots[o].shows, fades'[p] = fades[p]
    PROVE  /\ fades'[p].on => (fades'[p].lands <=> p \in Wanted')
           /\ ~fades'[p].on => (air'[p] > 0 <=> p \in Wanted')
           /\ air'[p] > 1 =>
                 \E b, q \in onAir' : b # q /\ slots'[b].shows = p /\ slots'[q].shows = p
<1>1. p \in Wanted' <=> p \in Wanted
  BY StoredWants
<1>2. \A b \in onAir : slots[b].shows = p => b \in onAir'
  BY DEF StoreOnAir
<1> QED BY <1>1, <1>2 DEF OverlayInv, FadesAgree, OverlaysFollowDocument, TwiceForTwo, Wanted

LEMMA OverlayAutoKeeps ==
    ASSUME IInv, NEW o \in Overlays, NEW to \in BOOLEAN, NEW d \in 1..MaxDuration,
           OverlayAuto(o, to, d)
    PROVE  IInv'
<1> DEFINE s == slots[o].shows
           lands == to /\ ~slots[o].faint
           stray == IF to THEN slots[o].faint ELSE s \in WantedBy(onAir \ {o})
<1>1. TypeOK /\ BusInv /\ OverlayInv
  BY DEF IInv
<1>2. /\ StoreOnAir(o, to)
      /\ fades' = [fades EXCEPT ![s] = Fade(lands, d)]
      /\ apart' = IF stray THEN apart \cup {s}
                  ELSE IF air[s] <= 1 THEN apart \ {s} ELSE apart
      /\ UNCHANGED <<bus, auto, air, slots, publishing>>
  BY DEF OverlayAuto, Command
<1>3. slots[o].faint \in BOOLEAN /\ lands \in BOOLEAN
  BY <1>1 DEF TypeOK, Slots
<1>4. /\ onAir' \subseteq Overlays /\ s \in Pictures
      /\ s \in Wanted' <=> to \/ s \in WantedBy(onAir \ {o})
  BY <1>1, <1>2, StoredWants
<1>5. Fade(lands, d) \in Fades /\ Fade(lands, d).on /\ Fade(lands, d).lands = lands
  BY <1>3, ConstantsAssumption DEF ConstantsAssumption, Fades, Fade, Lefts
<1>6. /\ fades' \in [Pictures -> {Still} \cup Fades] /\ fades'[s] = Fade(lands, d)
      /\ \A p \in Pictures : p # s => fades'[p] = fades[p]
  <2>1. fades \in [Pictures -> {Still} \cup Fades]
    BY <1>1 DEF TypeOK
  <2> HIDE DEF s, lands
  <2> QED BY <1>2, <1>4, <1>5, <2>1
<1>7. ASSUME NEW p \in Pictures \ apart'
      PROVE  /\ fades'[p].on => (fades'[p].lands <=> p \in Wanted')
             /\ ~fades'[p].on => (air'[p] > 0 <=> p \in Wanted')
             /\ air'[p] > 1 =>
                   \E b, q \in onAir' : b # q /\ slots'[b].shows = p /\ slots'[q].shows = p
  <2>1. CASE p = s
    <3>1. ~stray /\ (s \notin apart \/ air[s] <= 1)
      BY <1>2, <1>7, <2>1
    <3>2. fades'[s].on /\ (fades'[s].lands <=> s \in Wanted')
      BY <1>3, <1>4, <1>5, <1>6, <3>1
    <3>3. ASSUME air[s] > 1
          PROVE  \E b, q \in onAir' : b # q /\ slots[b].shows = s /\ slots[q].shows = s
      <4>1. s \notin apart
        <5>1. air[s] \in Nat
          BY <1>1, <1>4 DEF TypeOK
        <5> QED BY <3>1, <3>3, <5>1
      <4>2. PICK b \in onAir, q \in onAir : b # q /\ slots[b].shows = s /\ slots[q].shows = s
        BY <1>1, <1>4, <3>3, <4>1 DEF OverlayInv, TwiceForTwo
      <4>3. s \in WantedBy(onAir \ {o})
        BY <4>2 DEF WantedBy
      <4>4. to
        BY <3>1, <4>3
      <4> QED BY <1>2, <4>2, <4>4 DEF StoreOnAir
    <3> QED BY <1>2, <2>1, <3>2, <3>3
  <2>2. CASE p # s
    <3>1. p \in Pictures \ apart /\ fades'[p] = fades[p]
      BY <1>2, <1>6, <1>7, <2>2
    <3> QED BY <1>1, <1>2, <2>2, <3>1, OthersStay
  <2> QED BY <2>1, <2>2
<1>8. OverlayInv'
  BY <1>7 DEF OverlayInv, FadesAgree, OverlaysFollowDocument, TwiceForTwo, Wanted
<1>9. BusInv'
  BY <1>1, <1>2, BusesStay
<1>10. apart' \subseteq Pictures
  BY <1>1, <1>2, <1>4 DEF TypeOK
<1>11. TypeOK'
  BY <1>1, <1>2, <1>4, <1>6, <1>10 DEF TypeOK
<1> QED BY <1>8, <1>9, <1>11 DEF IInv

LEMMA RefusalKeeps ==
    ASSUME IInv, NEW o \in Overlays, NEW to \in BOOLEAN, OverlayRefused(o, to)
    PROVE  IInv'
<1>1. TypeOK /\ BusInv /\ OverlayInv
  BY DEF IInv
<1>2. /\ StoreOnAir(o, to) /\ apart' = apart \cup {slots[o].shows}
      /\ UNCHANGED <<bus, auto, air, fades, slots, publishing>>
  BY DEF OverlayRefused, Command
<1>3. onAir' \subseteq Overlays /\ slots[o].shows \in Pictures
  BY <1>1, <1>2, StoredWants
<1>4. ASSUME NEW p \in Pictures \ apart'
      PROVE  /\ fades'[p].on => (fades'[p].lands <=> p \in Wanted')
             /\ ~fades'[p].on => (air'[p] > 0 <=> p \in Wanted')
             /\ air'[p] > 1 =>
                   \E b, q \in onAir' : b # q /\ slots'[b].shows = p /\ slots'[q].shows = p
  <2>1. p \in Pictures \ apart /\ p # slots[o].shows /\ fades'[p] = fades[p]
    BY <1>2, <1>4
  <2> QED BY <1>1, <1>2, <2>1, OthersStay
<1>5. OverlayInv'
  BY <1>4 DEF OverlayInv, FadesAgree, OverlaysFollowDocument, TwiceForTwo, Wanted
<1>6. BusInv'
  BY <1>1, <1>2, BusesStay
<1>7. TypeOK'
  BY <1>1, <1>2, <1>3 DEF TypeOK
<1> QED BY <1>5, <1>6, <1>7 DEF IInv

\* A set of more than one overlay holds two.
LEMMA MoreThanOne ==
    ASSUME NEW S \in SUBSET Overlays
    PROVE  /\ Cardinality(S) \in Nat
           /\ Cardinality(S) > 0 <=> \E o \in S : TRUE
           /\ Cardinality(S) > 1 => \E o, q \in S : o # q
<1>1. IsFiniteSet(S)
  BY ConstantsAssumption, FS_Subset DEF ConstantsAssumption
<1>2. Cardinality(S) \in Nat /\ (Cardinality(S) = 0 <=> S = {})
  BY <1>1, FS_CardinalityType, FS_EmptySet
<1>3. ASSUME Cardinality(S) > 1 PROVE \E o, q \in S : o # q
  <2>1. PICK o \in S : TRUE
    BY <1>2, <1>3
  <2>2. S # {o}
    BY <1>3, FS_Singleton
  <2> QED BY <2>1, <2>2
<1> QED BY <1>2, <1>3

LEMMA PublishKeeps ==
    ASSUME IInv, NEW new \in [Overlays -> Slots], NEW list \in SUBSET Overlays,
           NEW moved \in BOOLEAN, Publish(new, list, moved)
    PROVE  IInv'
<1> DEFINE showing(p) == {o \in list : new[o].shows = p}
<1>1. TypeOK /\ BusInv /\ OverlayInv
  BY DEF IInv
<1>2. /\ publishing' = [at |-> "planned"] /\ slots' = new /\ onAir' = list
      /\ UNCHANGED <<bus, auto, fades>>
      /\ IF SameLayers(new, list) /\ ~moved THEN UNCHANGED <<air, apart>>
         ELSE /\ air' = [p \in Pictures |-> Cardinality(showing(p))]
              /\ apart' = Fading
  BY DEF Publish
<1>3. OverlayInv' /\ air' \in [Pictures -> Nat] /\ apart' \subseteq Pictures
  <2>1. CASE SameLayers(new, list) /\ ~moved
    <3>1. PICK was \in [list -> onAir] :
             /\ \A o, q \in list : was[o] = was[q] => o = q
             /\ \A q \in onAir : \E o \in list : was[o] = q
             /\ \A o \in list : slots[was[o]] = new[o]
      BY <2>1 DEF SameLayers
    <3>2. UNCHANGED <<air, apart, fades>>
      BY <1>2, <2>1
    <3>3. ASSUME NEW p \in Pictures PROVE p \in Wanted' <=> p \in Wanted
      <4>1. p \in Wanted' <=> \E o \in list : new[o].shows = p
        BY <1>2 DEF Wanted, WantedBy
      <4>2. p \in Wanted <=> \E q \in onAir : slots[q].shows = p
        BY DEF Wanted, WantedBy
      <4>3. (\E o \in list : new[o].shows = p) <=> \E q \in onAir : slots[q].shows = p
        BY <3>1
      <4> QED BY <4>1, <4>2, <4>3
    <3>4. FadesAgree' /\ OverlaysFollowDocument'
      BY <1>1, <3>2, <3>3 DEF OverlayInv, FadesAgree, OverlaysFollowDocument, Wanted
    <3>5. TwiceForTwo'
      <4> SUFFICES ASSUME NEW p \in Pictures \ apart, air[p] > 1
                   PROVE  \E o, q \in list : o # q /\ new[o].shows = p /\ new[q].shows = p
        BY <1>2, <3>2 DEF TwiceForTwo
      <4>1. PICK b \in onAir, q \in onAir : b # q /\ slots[b].shows = p /\ slots[q].shows = p
        BY <1>1 DEF OverlayInv, TwiceForTwo
      <4>2. PICK c \in list, r \in list : was[c] = b /\ was[r] = q
        BY <3>1
      <4>3. c # r /\ new[c] = slots[b] /\ new[r] = slots[q]
        BY <3>1, <4>1, <4>2
      <4> QED BY <4>1, <4>3
    <3> QED BY <1>1, <3>2, <3>4, <3>5 DEF OverlayInv, TypeOK
  <2>2. CASE ~(SameLayers(new, list) /\ ~moved)
    <3>1. air' = [p \in Pictures |-> Cardinality(showing(p))] /\ apart' = Fading
      BY <1>2, <2>2
    <3>2. ASSUME NEW p \in Pictures
          PROVE  /\ air'[p] \in Nat
                 /\ air'[p] > 0 <=> \E o \in list : new[o].shows = p
                 /\ air'[p] > 1 =>
                       \E o, q \in list : o # q /\ new[o].shows = p /\ new[q].shows = p
      <4>1. showing(p) \in SUBSET Overlays /\ air'[p] = Cardinality(showing(p))
        BY <3>1
      <4>2. /\ air'[p] \in Nat
            /\ air'[p] > 0 <=> \E o \in showing(p) : TRUE
            /\ air'[p] > 1 => \E o, q \in showing(p) : o # q
        <5> HIDE DEF showing
        <5> QED BY <4>1, MoreThanOne
      <4> QED BY <4>2
    <3>3. \A p \in Pictures \ apart' : ~fades'[p].on
      BY <1>2, <3>1 DEF Fading
    <3>4. \A p \in Pictures : p \in Wanted' <=> \E o \in list : new[o].shows = p
      BY <1>2 DEF Wanted, WantedBy
    <3>5. FadesAgree' /\ OverlaysFollowDocument'
      BY <3>2, <3>3, <3>4 DEF FadesAgree, OverlaysFollowDocument, Wanted
    <3>6. TwiceForTwo'
      BY <1>2, <3>2 DEF TwiceForTwo
    <3>7. air' \in [Pictures -> Nat]
      BY <3>1, <3>2
    <3> QED BY <3>1, <3>5, <3>6, <3>7 DEF OverlayInv, Fading
  <2> QED BY <2>1, <2>2
<1>4. BusInv'
  BY <1>1, <1>2, BusesStay
<1>5. TypeOK'
  BY <1>1, <1>2, <1>3 DEF TypeOK
<1> QED BY <1>3, <1>4, <1>5 DEF IInv

LEMMA PlanRepairKeeps ==
    ASSUME IInv, NEW gone \in SUBSET Sources, PlanRepair(gone) PROVE IInv'
<1>1. TypeOK /\ BusInv /\ OverlayInv
  BY DEF IInv
<1>2. UNCHANGED <<bus, auto, overlayVars>>
  BY DEF PlanRepair
<1>3. publishing' \in {NotPublishing} \cup
          [at : {"repair"}, program : Sources, preview : Sources, gone : SUBSET Sources]
  BY DEF PlanRepair
<1>4. TypeOK'
  BY <1>1, <1>2, <1>3 DEF TypeOK, overlayVars
<1>5. BusInv' /\ OverlayInv'
  BY <1>1, <1>2, BusesStay, OverlaysStay
<1> QED BY <1>4, <1>5 DEF IInv

\* What is written over the unit's own state.
LEMMA OwnState ==
    ASSUME TypeOK
    PROVE  /\ State \in [program : Sources, preview : Sources, mix : Int, keep : BOOLEAN]
           /\ State.keep = bus.keep /\ State.mix = bus.mix
BY StateType DEF State, States

LEMMA OtherPreview ==
    ASSUME TypeOK, NEW q \in Sources
    PROVE  LET s == [State EXCEPT !.preview = q]
           IN  s \in States /\ s.mix = bus.mix /\ s.keep = bus.keep
BY OwnState DEF States

LEMMA OtherMix ==
    ASSUME TypeOK, NEW m \in Int
    PROVE  [State EXCEPT !.mix = m] \in States
BY OwnState DEF States

LEMMA OtherBuses ==
    ASSUME TypeOK, NEW p \in Sources, NEW q \in Sources
    PROVE  LET s == [State EXCEPT !.program = p, !.preview = q]
           IN  s \in States /\ s.mix = bus.mix
BY OwnState DEF States

LEMMA SameMix == ASSUME NEW s, s.mix = bus.mix, Apply(s) PROVE auto' = auto
BY DEF Apply

LEMMA RepairKeeps == ASSUME IInv, Repair PROVE IInv' /\ auto' = auto
<1>1. TypeOK /\ BusInv /\ OverlayInv
  BY DEF IInv
<1>2. /\ publishing.at = "repair" /\ publishing' = NotPublishing
      /\ UNCHANGED overlayVars
  BY DEF Repair
<1>3. publishing.program \in Sources /\ publishing.preview \in Sources
  BY <1>1, <1>2 DEF TypeOK, NotPublishing
<1>4. CASE bus.mix \in 0..Full
  <2> DEFINE s == [State EXCEPT !.program = publishing.program, !.preview = publishing.preview]
  <2>1. Apply(s)
    BY <1>4 DEF Repair
  <2>2. s \in States /\ s.mix = bus.mix
    BY <1>1, <1>3, OtherBuses
  <2> HIDE DEF s
  <2> QED BY <1>2, <2>1, <2>2, ApplyKeeps, SameMix
<1>5. CASE bus.mix \notin 0..Full
  <2>1. UNCHANGED <<bus, auto>>
    BY <1>5 DEF Repair
  <2>2. TypeOK'
    BY <1>1, <1>2, <2>1 DEF TypeOK, overlayVars
  <2>3. BusInv' /\ OverlayInv'
    BY <1>1, <1>2, <2>1, BusesStay, OverlaysStay
  <2> QED BY <2>1, <2>2, <2>3 DEF IInv
<1> QED BY <1>4, <1>5

LEMMA PreviewKeeps ==
    ASSUME IInv, NEW q \in Sources, Preview(q)
    PROVE  IInv' /\ auto' = auto /\ (bus.frozen # Nothing => LiveIncoming' = LiveIncoming)
<1> DEFINE s == [State EXCEPT !.preview = q]
<1>1. TypeOK /\ BusInv
  BY DEF IInv
<1>2. Apply(s) /\ UNCHANGED <<overlayVars, publishing>>
  BY DEF Preview, Command
<1>3. s \in States /\ s.mix = bus.mix /\ s.keep = bus.keep
  BY <1>1, OtherPreview
<1>4. IInv' /\ auto' = auto
  <2> HIDE DEF s
  <2> QED BY <1>2, <1>3, ApplyKeeps, SameMix
<1>5. ASSUME bus.frozen # Nothing PROVE LiveIncoming' = LiveIncoming
  <2>1. CASE Locked(auto)
    BY <1>4, <2>1 DEF LiveIncoming
  <2>2. CASE ~Locked(auto)
    <3>1. bus.keep /\ bus.mix > 0 /\ ~auto.on
      BY <1>1, <1>5, <2>2 DEF BusInv, FrozenForAReason
    <3> DEFINE b == [bus EXCEPT !.program = s.program, !.preview = s.preview,
                               !.mix = s.mix, !.keep = s.keep]
    <3>2. bus' = [b EXCEPT !.frozen = Freeze(b, auto')]
      BY <1>2, <3>1 DEF Apply
    <3>3. b \in Buses /\ b.frozen = bus.frozen /\ b.mix = bus.mix /\ b.keep = bus.keep
      BY <1>1, <1>3 DEF TypeOK, Buses, States
    <3> HIDE DEF b
    <3>4. Freeze(b, auto') = bus.frozen
      BY <1>5, <3>1, <3>3 DEF Freeze, Incoming
    <3>5. bus'.frozen = bus.frozen
      BY <3>2, <3>3, <3>4 DEF Buses
    <3> QED BY <1>4, <1>5, <2>2, <3>5 DEF LiveIncoming, Incoming
  <2> QED BY <2>1, <2>2
<1> QED BY <1>4, <1>5

LEMMA SetMixKeeps == ASSUME IInv, NEW m \in 0..Full, SetMix(m) PROVE IInv'
<1> DEFINE s == [State EXCEPT !.mix = m]
<1>1. Apply(s) /\ UNCHANGED <<overlayVars, publishing>>
  BY DEF SetMix, Command
<1>2. m \in Int
  BY ConstantsAssumption DEF ConstantsAssumption
<1>3. s \in States
  BY <1>2, OtherMix DEF IInv
<1> HIDE DEF s
<1> QED BY <1>1, <1>3, ApplyKeeps

\* Where a transition that stopped has left the mix.
AtRest == auto.on /\ ~auto'.on => bus'.mix = 0 \/ \E m \in 0..Full : SetMix(m)

\* What Program shows when the transition was to end on the other picture.
Landed == auto.on /\ ~auto'.on /\ auto.to = Full => bus'.program = LiveIncoming

LEMMA TimePasses == ASSUME IInv, Tick \/ SlowDown PROVE IInv' /\ AtRest /\ Landed
<1>1. TypeOK
  BY DEF IInv
<1>2. CASE Tick
  <2>1. PICK n \in 1..MaxSkip : Advance(n)
    BY <1>2 DEF Tick
  <2>2. n \in Int /\ Bounded(n)
    BY <1>1, <2>1, TickIsBounded
  <2> QED BY <2>1, <2>2, AdvanceKeeps DEF AtRest, Landed
<1>3. CASE SlowDown
  <2>1. PICK n \in Int : Bounded(n) /\ Advance(n)
    BY <1>1, <1>3, SlowDownIsBounded
  <2> QED BY <2>1, AdvanceKeeps DEF AtRest, Landed
<1> QED BY <1>2, <1>3

LEMMA NextKeeps == ASSUME IInv, [Next]_vars PROVE IInv' /\ (AtRest \/ UNCHANGED vars)
<1>1. ASSUME NEW s \in Sources, Preview(s) PROVE IInv' /\ AtRest
  BY <1>1, PreviewKeeps DEF AtRest
<1>2. ASSUME NEW m \in 0..Full, SetMix(m) PROVE IInv' /\ AtRest
  BY <1>2, SetMixKeeps DEF AtRest
<1>3. ASSUME NEW r \in Requests, NEW swap \in BOOLEAN, UnitCut(r, swap) PROVE IInv' /\ AtRest
  BY <1>3, CutKeeps DEF AtRest
<1>4. ASSUME NEW r \in Requests, NEW swap \in BOOLEAN, NEW keep \in BOOLEAN,
             NEW d \in 1..MaxDuration, UnitAuto(r, swap, keep, d)
      PROVE  IInv' /\ AtRest
  BY <1>4, AutoKeeps DEF AtRest
<1>5. ASSUME NEW o \in Overlays, NEW to \in BOOLEAN, NEW d \in 1..MaxDuration,
             OverlayAuto(o, to, d)
      PROVE  IInv' /\ AtRest
  <2>1. auto' = auto
    BY <1>5 DEF OverlayAuto
  <2> QED BY <1>5, <2>1, OverlayAutoKeeps DEF AtRest
<1>6. CASE Tick \/ SlowDown
  BY <1>6, TimePasses
<1>7. ASSUME NEW new \in [Overlays -> Slots], NEW list \in SUBSET Overlays,
             NEW moved \in BOOLEAN, Publish(new, list, moved)
      PROVE  IInv' /\ AtRest
  <2>1. auto' = auto
    BY <1>7 DEF Publish
  <2> QED BY <1>7, <2>1, PublishKeeps DEF AtRest
<1>8. ASSUME NEW gone \in SUBSET Sources, PlanRepair(gone) PROVE IInv' /\ AtRest
  <2>1. auto' = auto
    BY <1>8 DEF PlanRepair
  <2> QED BY <1>8, <2>1, PlanRepairKeeps DEF AtRest
<1>9. CASE Repair
  BY <1>9, RepairKeeps DEF AtRest
<1>10. ASSUME NEW o \in Overlays, NEW to \in BOOLEAN, OverlayRefused(o, to)
       PROVE  IInv' /\ AtRest
  <2>1. auto' = auto
    BY <1>10 DEF OverlayRefused
  <2> QED BY <1>10, <2>1, RefusalKeeps DEF AtRest
<1>11. CASE UNCHANGED vars
  <2>1. TypeOK'
    BY <1>11 DEF IInv, TypeOK, vars, overlayVars
  <2>2. BusInv' /\ OverlayInv'
    BY <1>11, BusesStay, OverlaysStay DEF IInv, vars
  <2> QED BY <1>11, <2>1, <2>2 DEF IInv
<1> QED
  BY <1>1, <1>2, <1>3, <1>4, <1>5, <1>6, <1>7, <1>8, <1>9, <1>10, <1>11
     DEF Next, Commands, Refusals, Render, Repairs

LEMMA InitKeeps == Init => IInv
<1> SUFFICES ASSUME Init PROVE IInv
  OBVIOUS
<1>1. TypeOK
  BY MixType DEF Init, TypeOK, Buses
<1>2. BusInv
  BY DEF Init, BusInv, HeldIsFrozen, KeepMeansLocked, FrozenForAReason, Locked, NoAuto
<1>3. OverlayInv
  BY DEF Init, OverlayInv, FadesAgree, OverlaysFollowDocument, TwiceForTwo, Wanted, WantedBy,
         Still
<1> QED BY <1>1, <1>2, <1>3 DEF IInv

LEMMA Inductive == Spec => []IInv
BY InitKeeps, NextKeeps, PTL DEF Spec

-----------------------------------------------------------------------------

\* The types of a unit's state hold whatever its operators, a publish and the
\* render thread do (LiveUnit).
THEOREM TypeCorrect == Spec => []TypeOK
<1>1. IInv => TypeOK
  BY DEF IInv
<1> QED BY <1>1, Inductive, PTL

\* The picture that an AUTO holds is always frozen in the unit, where the cut at
\* its end looks for it (unit_auto_inner, apply_unit_state, take_cut).
THEOREM Held == Spec => []HeldIsFrozen
<1>1. IInv => HeldIsFrozen
  BY DEF IInv, BusInv
<1> QED BY <1>1, Inductive, PTL

\* A picture that is not fading is in the unit's list if and only if an overlay
\* that the document has on the air shows it, with the exceptions of
\* OverlaysFollowDocument, for any overlays, shared pictures, refusals and edits
\* (tick_unit_transitions, apply_overlay_auto, on_air_layers).
THEOREM OverlaysFollow == Spec => []OverlaysFollowDocument
<1>1. IInv => OverlaysFollowDocument
  BY DEF IInv, OverlayInv
<1> QED BY <1>1, Inductive, PTL

\* A transition that ends on the other picture takes the picture it was mixing
\* in (tick_unit_transitions, take_cut).
THEOREM Lands == Spec => TakesWhatItShowed
<1>1. IInv /\ [Next]_vars =>
        [auto.on /\ ~auto'.on /\ bus'.mix = 0 /\ (Tick \/ SlowDown) /\ auto.to = Full
         => bus'.program = LiveIncoming]_vars
  BY TimePasses DEF Landed
<1> QED BY <1>1, Inductive, PTL DEF Spec, TakesWhatItShowed

\* A transition stops with the mix at rest, unless the T-bar was moved
\* (unit_update_state_inner).
THEOREM StopsAtRest == Spec => EndsAtRest
<1>1. IInv /\ [Next]_vars =>
        [auto.on /\ ~auto'.on => bus'.mix = 0 \/ \E m \in 0..Full : SetMix(m)]_vars
  BY NextKeeps DEF AtRest
<1> QED BY <1>1, Inductive, PTL DEF Spec, EndsAtRest

\* Whatever is put on Preview, a held picture stays the incoming one
\* (keep_preview, incoming_locked).
THEOREM HoldsAgainstPreview == Spec => HeldAgainstPreview
<1>1. IInv /\ [Next]_vars =>
        [bus.frozen # Nothing /\ (\E s \in Sources : Preview(s))
         => LiveIncoming' = LiveIncoming]_vars
  BY PreviewKeeps
<1> QED BY <1>1, Inductive, PTL DEF Spec, HeldAgainstPreview

-----------------------------------------------------------------------------
(* A clip and its triggers                                                  *)

\* The transport of a clip that follows Program is as the last look left it.
TransportFollowsRoles ==
    FollowsProgram /\ ~astray => (playing <=> roles.program)

\* The last look saw what the unit shows, unless something has come since.
LookIsFresh ==
    ~looking /\ publishing = NotPublishing /\ ~unseen => roles = CollectRoles

Roles == [program : BOOLEAN, preview : BOOLEAN]

ClipInv ==
    /\ playing \in BOOLEAN /\ roles \in Roles
    /\ TransportFollowsRoles /\ LookIsFresh

LEMMA RolesType == CollectRoles \in Roles
BY DEF CollectRoles, Roles

\* What a look sees of a clip is what it shows, but for a picture held aside.
LEMMA SeenIsShown == ~HeldAside => (CollectRoles.program <=> Shown)
BY DEF HeldAside, CollectRoles, ReportedOnProgram, Shown, OnScreen

LEMMA LookKeeps == ASSUME ClipInv, TickVideo PROVE ClipInv'
<1>1. /\ roles' = CollectRoles /\ clip' = clip /\ UNCHANGED vars
      /\ looking' = FALSE
  BY DEF TickVideo
<1>2. CollectRoles' = CollectRoles
  BY <1>1 DEF CollectRoles, ReportedOnProgram, OnTop, vars, overlayVars
<1>3. playing' \in BOOLEAN /\ roles' \in Roles
  BY <1>1, RolesType DEF TickVideo, ClipInv
<1>4. TransportFollowsRoles'
  <2> DEFINE now == CollectRoles
             plays == Fires(clip.when.restart, now) \/ ShouldPlay(clip.when.play, now)
             pauses == Fires(clip.when.pause, now)
  <2> SUFFICES ASSUME FollowsProgram, ~astray' PROVE playing' <=> now.program
    BY <1>1 DEF TransportFollowsRoles, FollowsProgram
  <2>1. /\ playing' = (plays \/ (playing /\ ~pauses))
        /\ astray' = (astray /\ ~plays /\ ~pauses)
    BY DEF TickVideo
  <2>2. now.program \in BOOLEAN /\ roles.program \in BOOLEAN
    BY RolesType DEF ClipInv, Roles
  <2>3. plays <=> now.program /\ ~roles.program
    BY DEF FollowsProgram, Fires, ShouldPlay
  <2>4. pauses <=> ~now.program /\ roles.program
    BY DEF FollowsProgram, Fires
  <2>5. CASE astray
    BY <2>1, <2>2, <2>3, <2>4, <2>5
  <2>6. CASE ~astray
    <3>1. playing <=> roles.program
      BY <2>6 DEF ClipInv, TransportFollowsRoles
    <3> QED BY <2>1, <2>2, <2>3, <2>4, <3>1
  <2> QED BY <2>5, <2>6
<1>5. LookIsFresh'
  BY <1>1, <1>2 DEF LookIsFresh
<1> QED BY <1>3, <1>4, <1>5 DEF ClipInv

LEMMA ClipKept == ASSUME ClipInv, [VideoNext]_<<vars, videoVars>> PROVE ClipInv'
<1>1. CASE TickVideo
  BY <1>1, LookKeeps
<1>2. CASE Commanded
  BY <1>2 DEF Commanded, ClipInv, TransportFollowsRoles, LookIsFresh, FollowsProgram
<1>3. ASSUME NEW on \in BOOLEAN, PlayByHand(on) PROVE ClipInv'
  BY <1>3 DEF PlayByHand, ClipInv, TransportFollowsRoles, LookIsFresh
<1>4. CASE Rendered
  <2>1. publishing' = publishing
    BY <1>4 DEF Rendered, Render, Tick, SlowDown, Advance
  <2>2. UNCHANGED <<clip, playing, roles, looking, astray>>
    BY <1>4 DEF Rendered
  <2>3. TransportFollowsRoles'
    BY <2>2 DEF ClipInv, TransportFollowsRoles, FollowsProgram
  <2>4. unseen' <=> unseen \/ CollectRoles' # CollectRoles
    BY <1>4 DEF Rendered
  <2>5. LookIsFresh'
    BY <2>1, <2>2, <2>4 DEF ClipInv, LookIsFresh
  <2> QED BY <2>2, <2>3, <2>5 DEF ClipInv
<1>5. ASSUME NEW new \in [Overlays -> Slots], NEW list \in SUBSET Overlays,
             NEW moved \in BOOLEAN, NEW anew \in BOOLEAN, PublishClip(new, list, moved, anew)
      PROVE  ClipInv'
  <2>1. publishing' # NotPublishing
    BY <1>5 DEF PublishClip, Publish, NotPublishing
  <2>2. PICK place \in Places : clip' = [clip EXCEPT !.in = place]
    BY <1>5 DEF PublishClip
  <2>3. /\ roles' = roles
        /\ playing' = IF anew THEN StartsPlaying(clip.when) ELSE playing
        /\ astray' = (astray \/ anew)
    BY <1>5 DEF PublishClip
  <2>4. StartsPlaying(clip.when) \in BOOLEAN
    BY DEF StartsPlaying
  <2>5. playing' \in BOOLEAN
    BY <2>3, <2>4 DEF ClipInv
  <2>6. FollowsProgram' => FollowsProgram
    BY <2>2 DEF FollowsProgram
  <2>7. TransportFollowsRoles'
    BY <2>3, <2>6 DEF ClipInv, TransportFollowsRoles
  <2>8. LookIsFresh'
    BY <2>1 DEF LookIsFresh
  <2> QED BY <2>3, <2>5, <2>7, <2>8 DEF ClipInv
<1>6. CASE RepairClip
  <2>1. UNCHANGED <<clip, playing, roles, astray>>
    BY <1>6 DEF RepairClip
  <2>2. TransportFollowsRoles'
    BY <2>1 DEF ClipInv, TransportFollowsRoles, FollowsProgram
  <2>3. LookIsFresh'
    BY <1>6 DEF RepairClip, LookIsFresh
  <2> QED BY <2>1, <2>2, <2>3 DEF ClipInv
<1>7. CASE Refused
  <2>1. UNCHANGED <<bus, air, publishing, videoVars>>
    BY <1>7 DEF Refused, Refusals, OverlayRefused, Command
  <2> QED BY <2>1 DEF videoVars, ClipInv, TransportFollowsRoles, LookIsFresh, FollowsProgram,
                      CollectRoles, ReportedOnProgram, OnTop
<1>8. CASE UNCHANGED <<vars, videoVars>>
  BY <1>8 DEF vars, overlayVars, videoVars, ClipInv, TransportFollowsRoles, LookIsFresh,
              FollowsProgram, CollectRoles, ReportedOnProgram, OnTop
<1> QED BY <1>1, <1>2, <1>3, <1>4, <1>5, <1>6, <1>7, <1>8 DEF VideoNext

LEMMA ClipStarts == VideoInit => ClipInv
<1> SUFFICES ASSUME VideoInit PROVE ClipInv
  OBVIOUS
<1>1. playing = StartsPlaying(clip.when) /\ roles = NoRoles /\ looking
  BY DEF VideoInit
<1>2. StartsPlaying(clip.when) \in BOOLEAN
  BY DEF StartsPlaying
<1>3. FollowsProgram => ~StartsPlaying(clip.when)
  BY DEF FollowsProgram, StartsPlaying
<1>4. NoRoles \in Roles /\ ~NoRoles.program
  BY DEF NoRoles, Roles
<1> QED BY <1>1, <1>2, <1>3, <1>4 DEF ClipInv, TransportFollowsRoles, LookIsFresh

\* A clip that plays on Program and pauses off it plays if and only if Program
\* shows it, with the exceptions of PlaysWhereShown, for any scenes, overlays and
\* documents (video_trigger.rs).
THEOREM ClipFollows == VideoSpec => []PlaysWhereShown
<1>1. ClipInv => PlaysWhereShown
  BY SeenIsShown DEF ClipInv, TransportFollowsRoles, LookIsFresh, PlaysWhereShown
<1> QED BY <1>1, ClipStarts, ClipKept, PTL DEF VideoSpec
=============================================================================
