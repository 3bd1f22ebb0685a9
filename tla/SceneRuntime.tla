---------------------------- MODULE SceneRuntime ----------------------------
(* Playback of one scene in the mixer (mixer/src/anim/scene.rs) behind the C
   calls of mixer/src/lib.rs that drive it.

   A scene has a saved layout (`base`), a picture on screen (`shown`) and a
   runtime `rt` that moves layers and the camera between states.  The camera is
   kept here as one more part beside the layers: the code has a field of its
   own for the camera beside each map over layers (camera_owner beside owner,
   presented_camera beside presented) and treats both alike.

   A place is an integer; a layer's rectangle, crop and opacity move together.
   Curves are linear.  A clock is kept as the age of its move in frames, a hold
   as the frames that are left, so the absolute frame number is left out.  The
   record of the states arrived at and the takeover log are status only and are
   left out too.

   Every call and the tick of the render thread hold the `shared` lock from end
   to end.  A saved-layout edit is two calls, and anything may come between.   *)
EXTENDS Integers, Sequences, FiniteSets, Functions, SequencesExt

CONSTANTS
    Layers,        \* layer ids of the scene
    Camera,        \* the part that is not a layer
    Layouts,       \* layouts an edit may save: functions from layers to places
    Cameras,       \* cameras an edit may save
    StateSets,     \* state lists: functions from state ids to [to, enter]
    SequenceSets,  \* sequence lists: functions from sequence ids to steps
    ReturnFrames,  \* RETURN_FRAMES, the length of a return to the saved layout
    MaxCalls,      \* bound: calls of a behaviour
    MaxSkip,       \* bound: frames one tick may advance
    MaxBack        \* bound: frames a change of the master rate takes back

ASSUME CameraAssumption == Camera \notin Layers
ASSUME LayoutAssumption ==
    /\ \A l \in Layouts : DOMAIN l \subseteq Layers
    /\ \A ss \in StateSets : DOMAIN ss \subseteq Nat \ {0} /\ \A s \in DOMAIN ss : ss[s].enter \in Nat \ {0}
    /\ \A qs \in SequenceSets :
          DOMAIN qs \subseteq Nat \ {0} /\ \A q \in DOMAIN qs : \A i \in DOMAIN qs[q] : qs[q][i].frames \in Nat
ASSUME BoundAssumption ==
    ReturnFrames \in Nat \ {0} /\ MaxCalls \in Nat /\ MaxSkip \in Nat \ {0} /\ MaxBack \in Nat

Identity == 0      \* the camera of a scene nobody gave one

VARIABLES
    exists,     \* the scene is in `scenes`
    base,       \* saved layout and saved camera
    shown,      \* layers and camera the composer draws
    rt,         \* the SceneRuntime: states, sequences, moves, owner, presented, playing, dirty
    pending,    \* camera of an edit whose layers are already saved, in a set
    ticking,    \* a tick of the render thread holds the lock
    advancing,  \* sequences the running tick has yet to advance
    calls       \* calls so far

scene == <<exists, base, shown, pending>>
vars == <<exists, base, shown, pending, rt, ticking, advancing, calls>>

NoMap == [x \in {} |-> 0]
EmptyRuntime ==
    [states |-> NoMap, sequences |-> NoMap, moves |-> NoMap, owner |-> NoMap,
     presented |-> NoMap, playing |-> NoMap, nextMove |-> 1, dirty |-> FALSE]

Without(f, S) == [x \in DOMAIN f \ S |-> f[x]]
Over(f, g) == [x \in DOMAIN f \cup DOMAIN g |-> IF x \in DOMAIN f THEN f[x] ELSE g[x]]
LayersOf(f) == Without(f, {Camera})
With(layout, camera) == [p \in DOMAIN layout \cup {Camera} |->
                            IF p = Camera THEN camera ELSE layout[p]]

-----------------------------------------------------------------------------
(* Sampling *)

Finished(mv) == mv.age >= mv.frames

\* blend and lerp_camera along AnimClock::progress.
Blend(mv, p) ==
    IF Finished(mv) THEN mv.to[p]
    ELSE IF mv.age <= 0 THEN mv.from[p]
    ELSE mv.from[p] + ((mv.to[p] - mv.from[p]) * mv.age) \div mv.frames

\* Mutant: a part that has arrived falls back to the saved layout.
MutantSamplePart(r, b, p) ==
    IF p \in DOMAIN r.owner /\ r.owner[p] \in DOMAIN r.moves
    THEN Blend(r.moves[r.owner[p]], p)
    ELSE b[p]

SamplePart(r, b, p) ==
    IF p \in DOMAIN r.owner /\ r.owner[p] \in DOMAIN r.moves
    THEN Blend(r.moves[r.owner[p]], p)
    ELSE IF p \in DOMAIN r.presented THEN r.presented[p]
    ELSE b[p]

Sample(r, b) == [p \in DOMAIN b |-> SamplePart(r, b, p)]

-----------------------------------------------------------------------------
(* Moves *)

\* The parts P leave the moves that own them; a move that has none left goes,
\* and takes its sequence along.
Steal(r, P) ==
    LET Stolen(m) == {p \in P \cap DOMAIN r.owner : r.owner[p] = m}
        Emptied   == {m \in DOMAIN r.moves : Stolen(m) # {} /\ DOMAIN r.moves[m].from \subseteq Stolen(m)}
        Left(m)   == [r.moves[m] EXCEPT !.from = Without(@, Stolen(m)), !.to = Without(@, Stolen(m))]
    IN  [r EXCEPT
            !.owner = Without(@, P),
            !.moves = [m \in DOMAIN @ \ Emptied |-> Left(m)],
            !.playing = Without(@, {r.moves[m].seq : m \in Emptied})]

\* Mutant: the parts of a move that was cancelled stay owned.
MutantCancel(r, M) ==
    [r EXCEPT !.moves = Without(@, M),
              !.playing = Without(@, {r.moves[m].seq : m \in M \cap DOMAIN r.moves})]

\* The moves M end where they are.
Cancel(r, M) ==
    [r EXCEPT
        !.moves = Without(@, M),
        !.owner = Without(@, {p \in DOMAIN @ : @[p] \in M}),
        !.playing = Without(@, {r.moves[m].seq : m \in M \cap DOMAIN r.moves})]

\* The moves M arrive.
Complete(r, M) ==
    [r EXCEPT
        !.moves = Without(@, M),
        !.owner = Without(@, {p \in DOMAIN @ : @[p] \in M})]

\* A move starts from the sampled picture; a target the saved layout lost is skipped.
StartMove(r, b, state, seq, targets, frames) ==
    LET parts == DOMAIN targets \cap DOMAIN b
        id    == r.nextMove
        mv    == [state |-> state, seq |-> seq, frames |-> frames, age |-> 0,
                  from |-> [p \in parts |-> SamplePart(r, b, p)],
                  to   |-> [p \in parts |-> targets[p]]]
        r1    == Steal(r, parts)
    IN  IF parts = {} THEN r
        ELSE [r1 EXCEPT
                !.moves = [m \in DOMAIN @ \cup {id} |-> IF m = id THEN mv ELSE @[m]],
                !.owner = [p \in DOMAIN @ \cup parts |-> IF p \in parts THEN id ELSE @[p]],
                !.nextMove = id + 1,
                !.dirty = TRUE]

Targets(r, b, state) == IF state = 0 THEN b ELSE r.states[state].to
EnterFrames(r, state) == IF state = 0 THEN ReturnFrames ELSE r.states[state].enter

-----------------------------------------------------------------------------
(* Sequences *)

Playing(r, q, play) == [r EXCEPT !.playing = Over([x \in {q} |-> play], @)]

\* stop_sequence for each of Q that plays.
StopSequences(r, Q) ==
    LET stopped == Q \cap DOMAIN r.playing
        moving  == {q \in stopped : r.playing[q].phase = "moving"}
    IN  IF stopped = {} THEN r
        ELSE [Cancel([r EXCEPT !.playing = Without(@, stopped)], {r.playing[q].move : q \in moving})
                EXCEPT !.dirty = TRUE]

\* The step the sequence q is at starts its move. A step that moves nothing
\* leaves the phase at move 0, unless the newest move is already q's.
BeginStep(r, b, q) ==
    LET play  == r.playing[q]
        step  == r.sequences[q][play.index]
        known == /\ q \in DOMAIN r.sequences
                 /\ play.index \in DOMAIN r.sequences[q]
                 /\ step.state \in {0} \cup DOMAIN r.states
        frames == IF step.frames = 0 THEN EnterFrames(r, step.state) ELSE step.frames
        r1    == StartMove(Playing(r, q, [play EXCEPT !.phase = "moving", !.move = 0]),
                           b, step.state, q, Targets(r, b, step.state), frames)
        last  == CHOOSE m \in DOMAIN r1.moves : \A n \in DOMAIN r1.moves : n <= m
    IN  IF ~known THEN [r EXCEPT !.playing = Without(@, {q})]
        ELSE IF /\ r1.moves # NoMap
                /\ r1.moves[last].seq = q
                /\ q \in DOMAIN r1.playing
        THEN [r1 EXCEPT !.playing[q].move = last]
        ELSE r1

\* One turn of the loop of advance().
AdvanceOne(r, b, q) ==
    LET play == r.playing[q]
        hold == IF q \in DOMAIN r.sequences /\ play.index \in DOMAIN r.sequences[q]
                THEN r.sequences[q][play.index].hold ELSE 0
        next == play.index + play.dir
        busy == \/ play.phase = "moving" /\ play.move \in DOMAIN r.moves
                \/ play.phase = "holding" /\ play.left > 0
    IN  IF q \notin DOMAIN r.playing \/ busy THEN r
        ELSE IF play.phase = "moving" /\ hold > 0
        THEN [r EXCEPT !.playing[q] = [play EXCEPT !.phase = "holding", !.left = hold]]
        ELSE IF q \in DOMAIN r.sequences /\ next \in DOMAIN r.sequences[q]
        THEN BeginStep([r EXCEPT !.playing[q] = [play EXCEPT !.index = next]], b, q)
        ELSE [r EXCEPT !.playing = Without(@, {q})]

-----------------------------------------------------------------------------
(* Calls.  Each takes the lock, so none runs inside a tick. *)

Call == ~ticking /\ calls < MaxCalls /\ calls' = calls + 1 /\ UNCHANGED <<ticking, advancing>>

\* Mutant: where playback left the changed parts is kept.
MutantNoteEdit(r, changed) ==
    IF changed = {} THEN r ELSE [Steal(r, changed) EXCEPT !.dirty = TRUE]

\* note_base_edit and note_camera_edit: playback of the changed parts is dropped.
NoteEdit(r, changed) ==
    IF changed = {} THEN r
    ELSE [Steal(r, changed) EXCEPT !.presented = Without(@, changed), !.dirty = TRUE]

Untouched(r) == ~r.dirty /\ r.moves = NoMap /\ r.presented = NoMap

\* mixer_define_scene, the first half of an edit.
DefineScene(layout, camera) ==
    LET old     == LayersOf(base)
        changed == {l \in DOMAIN old \cup DOMAIN layout :
                        \/ l \notin DOMAIN old \/ l \notin DOMAIN layout
                        \/ old[l] # layout[l]}
        r       == IF exists THEN NoteEdit(rt, changed) ELSE rt
        b       == With(layout, base[Camera])
    IN  /\ Call
        /\ pending = {}
        /\ exists' = TRUE
        /\ base' = b
        /\ rt' = r
        /\ shown' = IF Untouched(r) THEN With(layout, shown[Camera]) ELSE Sample(r, b)
        /\ pending' = {camera}

\* mixer_scene_camera_define, the second half. It puts the saved camera on the
\* screen whether or not it changed.
DefineCamera ==
    \E camera \in pending :
        /\ ~ticking
        /\ pending' = {}
        /\ IF exists
           THEN /\ base' = [base EXCEPT ![Camera] = camera]
                /\ shown' = [shown EXCEPT ![Camera] = camera]
                /\ rt' = NoteEdit(rt, IF base[Camera] = camera THEN {} ELSE {Camera})
           ELSE UNCHANGED <<base, shown, rt>>
        /\ UNCHANGED <<exists, ticking, advancing, calls>>

DestroyScene ==
    /\ Call
    /\ exists
    /\ exists' = FALSE
    /\ base' = With(NoMap, Identity)
    /\ shown' = With(NoMap, Identity)
    /\ rt' = EmptyRuntime
    /\ UNCHANGED pending

\* A move to a state that is gone ends.
DefineStates(states) ==
    /\ Call
    /\ rt' = Cancel([rt EXCEPT !.states = states],
                    {m \in DOMAIN rt.moves : rt.moves[m].state \notin {0} \cup DOMAIN states})
    /\ UNCHANGED scene

\* A sequence that is gone stops.
DefineSequences(sequences) ==
    /\ Call
    /\ rt' = StopSequences([rt EXCEPT !.sequences = sequences], DOMAIN rt.playing \ DOMAIN sequences)
    /\ UNCHANGED scene

GoTo(state) ==
    /\ Call
    /\ exists
    /\ state \in {0} \cup DOMAIN rt.states
    /\ rt' = StartMove(rt, base, state, 0, Targets(rt, base, state), EnterFrames(rt, state))
    /\ UNCHANGED scene

PlaySequence(q, dir) ==
    /\ Call
    /\ exists
    /\ q \in DOMAIN rt.sequences
    /\ Len(rt.sequences[q]) >= 2
    /\ LET start == [index |-> IF dir = 1 THEN 1 ELSE Len(rt.sequences[q]), dir |-> dir,
                     phase |-> "holding", move |-> 0, left |-> 0]
       IN  rt' = BeginStep(Playing(StopSequences(rt, {q}), q, start), base, q)
    /\ UNCHANGED scene

StopPlaying(q) ==
    /\ Call
    /\ exists
    /\ q \in DOMAIN rt.playing
    /\ rt' = StopSequences(rt, {q})
    /\ UNCHANGED scene

\* mixer_scene_show_pose with the pose a host makes of a state and the saved layout.
ShowPose(state, withCamera) ==
    LET to   == rt.states[state].to
        pose == [l \in DOMAIN base \ {Camera} |-> Over(to, base)[l]]
        cam  == Over(to, base)[Camera]
        kept == [p \in {Camera} \cap DOMAIN rt.presented |-> rt.presented[p]]
        full == IF withCamera THEN With(pose, cam) ELSE pose
    IN  /\ Call
        /\ exists
        /\ state \in DOMAIN rt.states
        /\ shown' = Over(full, [p \in {Camera} |-> shown[p]])
        /\ rt' = [rt EXCEPT !.moves = NoMap, !.owner = NoMap, !.playing = NoMap,
                            !.presented = Over(full, kept), !.dirty = FALSE]
        /\ UNCHANGED <<exists, base, pending>>

-----------------------------------------------------------------------------
(* The tick of the render thread, which keeps the lock until TickEnd *)

\* Mutant: holds are not counted down.
MutantAged(r, d) == [r EXCEPT !.moves = [m \in DOMAIN @ |-> [r.moves[m] EXCEPT !.age = @ + d]]]

Aged(r, d) ==
    LET Older(m) == [r.moves[m] EXCEPT !.age = @ + d]
        Held(q)  == IF r.playing[q].phase = "holding" THEN [r.playing[q] EXCEPT !.left = @ - d] ELSE r.playing[q]
    IN  [r EXCEPT !.moves = [m \in DOMAIN @ |-> Older(m)], !.playing = [q \in DOMAIN @ |-> Held(q)]]

\* The picture is sampled and published, what is owned is kept as presented,
\* and the moves that are over arrive.  A change of the master rate may take the
\* frame number back; it is counted as a call.
TickBegin(d) ==
    LET r    == Aged(rt, d)
        s    == Sample(r, base)
        kept == [p \in DOMAIN s \cap DOMAIN r.owner |-> s[p]]
    IN  /\ ~ticking
        /\ exists
        /\ rt.moves # NoMap \/ rt.playing # NoMap \/ rt.dirty
        /\ IF d > 0 THEN UNCHANGED calls ELSE calls < MaxCalls /\ calls' = calls + 1
        /\ shown' = s
        /\ rt' = Complete([r EXCEPT !.presented = Over(kept, @)],
                          {m \in DOMAIN r.moves : Finished(r.moves[m])})
        /\ ticking' = TRUE
        /\ advancing' = DOMAIN r.playing
        /\ UNCHANGED <<exists, base, pending>>

\* advance() walks a HashMap: the sequences come in any order.
Advance(q) ==
    /\ ticking
    /\ q \in advancing
    /\ rt' = AdvanceOne(rt, base, q)
    /\ advancing' = advancing \ {q}
    /\ UNCHANGED <<scene, ticking, calls>>

TickEnd ==
    /\ ticking
    /\ advancing = {}
    /\ ticking' = FALSE
    /\ rt' = [rt EXCEPT !.dirty = rt.moves # NoMap \/ rt.playing # NoMap]
    /\ UNCHANGED <<scene, advancing, calls>>

-----------------------------------------------------------------------------
\* A scene a session load has just applied.
Init ==
    /\ exists = TRUE
    /\ \E l \in Layouts, c \in Cameras : base = With(l, c)
    /\ shown = base
    /\ pending = {}
    /\ \E ss \in StateSets, qs \in SequenceSets :
          rt = [EmptyRuntime EXCEPT !.states = ss, !.sequences = qs]
    /\ ticking = FALSE
    /\ advancing = {}
    /\ calls = 0

StateIds == UNION {DOMAIN ss : ss \in StateSets}
SequenceIds == UNION {DOMAIN qs : qs \in SequenceSets}

Tick == \E d \in 1..MaxSkip : TickBegin(d)

Next ==
    \/ \E l \in Layouts, c \in Cameras : DefineScene(l, c)
    \/ DefineCamera
    \/ DestroyScene
    \/ \E ss \in StateSets : DefineStates(ss)
    \/ \E qs \in SequenceSets : DefineSequences(qs)
    \/ \E s \in {0} \cup StateIds : GoTo(s)
    \/ \E q \in SequenceIds, dir \in {1, -1} : PlaySequence(q, dir)
    \/ \E q \in SequenceIds : StopPlaying(q)
    \/ \E s \in StateIds, withCamera \in BOOLEAN : ShowPose(s, withCamera)
    \/ Tick
    \/ \E d \in (-MaxBack)..0 : TickBegin(d)
    \/ \E q \in SequenceIds : Advance(q)
    \/ TickEnd

\* The render thread ticks at the master rate and a tick finishes its loop; the
\* caller of an edit goes on to its second half. Nobody is obliged to call.
Fairness ==
    /\ WF_vars(Tick)
    /\ WF_vars(\E q \in SequenceIds : Advance(q))
    /\ WF_vars(TickEnd)
    /\ WF_vars(DefineCamera)

Spec == Init /\ [][Next]_vars /\ Fairness

-----------------------------------------------------------------------------
(* Properties *)

\* A part has at most one owner and the owner is a move that knows the part:
\* owner[p] = m exactly when p is one of the parts the live move m moves, and no
\* move is left without a part (steal_layer, steal_camera and cancel_move keep
\* the map and the list of moves in step).
OwnersAgree ==
    /\ \A p \in DOMAIN rt.owner :
          rt.owner[p] \in DOMAIN rt.moves /\ p \in DOMAIN rt.moves[rt.owner[p]].from
    /\ \A m \in DOMAIN rt.moves :
          /\ DOMAIN rt.moves[m].from # {}
          /\ DOMAIN rt.moves[m].to = DOMAIN rt.moves[m].from
          /\ \A p \in DOMAIN rt.moves[m].from : p \in DOMAIN rt.owner /\ rt.owner[p] = m

\* No move outlives its sequence: a move that a sequence started is the one that
\* sequence waits for, whatever took layers from it, redefined its state or
\* stopped the sequence. (A move nobody waits for would go on after Stop.)
NoOrphanMove ==
    \A m \in DOMAIN rt.moves :
        LET q == rt.moves[m].seq
        IN  q # 0 => /\ q \in DOMAIN rt.playing
                     /\ rt.playing[q].phase = "moving"
                     /\ rt.playing[q].move = m

\* Every move is accounted for, by the parts it owns and by its sequence.
MovesAccountedFor == OwnersAgree /\ NoOrphanMove

\* "A move always interpolates from the values on screen" (scene.rs:3): each part
\* of a move that starts sets out from where the screen shows it, whatever ended
\* the part's last move. The exception is the camera after a saved-layout edit
\* put the saved camera on the screen without telling the runtime.
StartsOnScreen(m, p) == rt'.moves[m].from[p] = shown[p]
Started == DOMAIN rt'.moves \ DOMAIN rt.moves

MovesStartFromScreen ==
    [][\A m \in Started : \A p \in DOMAIN rt'.moves[m].from :
          StartsOnScreen(m, p) \/ (p = Camera /\ shown[p] = base[p])]_vars

\* The sentence as it stands, without the exception.
AlwaysFromScreen ==
    [][\A m \in Started : \A p \in DOMAIN rt'.moves[m].from : StartsOnScreen(m, p)]_vars

\* An edit of the saved layout shows at once on the layers it changes, even
\* when a move owned them, and leaves the picture of every other layer alone.
EditTouchesWhatChanged ==
    [][\A l \in (DOMAIN base \cap DOMAIN base') \ {Camera} : base' # base =>
          IF base'[l] = base[l] THEN shown'[l] = shown[l] ELSE shown'[l] = base'[l]]_vars

\* The scene comes to rest: when the calls end, every move arrives and every
\* sequence reaches its last step, none waits for a move that is gone.
ComesToRest == <>[](rt.moves = NoMap /\ rt.playing = NoMap /\ ~rt.dirty)
=============================================================================
