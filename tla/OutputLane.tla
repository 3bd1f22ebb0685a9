------------------------------ MODULE OutputLane ------------------------------
(* The way of a picture to one output id: the render thread draws it, a send
   worker sends it, and the C calls replace the worker while both run
   (mixer/src/output.rs, frame_hub.rs, readback.rs, the send ring of omt.rs, the
   render loop and output_add / output_remove of lib.rs).

   A worker is a lane, numbered in the order of their creation.  Two things are
   kept by output id and so pass from a lane to the next: the ring of textures
   of a GPU output and the readback of a CPU output.  A picture is its number in
   drawing order.  Sound has a queue of its own and is left out, and so are the
   presentation times, which the worker puts on whatever it sends.              *)
EXTENDS Integers, FiniteSets

CONSTANTS
    Ring,       \* SEND_SLOTS, textures of an output
    Buffers,    \* SLOTS, buffers of a readback
    MaxLanes,   \* bound: workers of a behaviour
    MaxDrawn,   \* bound: pictures of a behaviour
    MaxRings,   \* bound: rings of a behaviour
    MaxFaults   \* bound: failed sends, failed polls and joins that time out

ASSUME RingAssumption == Ring \in Nat \ {0} /\ Buffers \in Nat \ {0, 1}
ASSUME LaneBoundAssumption ==
    MaxLanes \in Nat /\ MaxDrawn \in Nat /\ MaxRings \in Nat \ {0} /\ MaxFaults \in Nat

Lanes == 1..MaxLanes
Kinds == {"gpu", "cpu"}
Textures == (1..MaxRings) \X (0..Ring - 1)
NoTexture == <<0, 0>>
NoPicture == [n |-> 0, tex |-> NoTexture]
Calling == [joins |-> 0, adds |-> FALSE, busy |-> FALSE]

VARIABLES
    live,    \* the lane in Shared::outputs, 0 when there is none
    lanes,   \* workers spawned so far
    kind,    \* what each lane is fed with
    call,    \* output_add or output_remove under way: the lane it joins
    asked,   \* lanes with Shutdown in their control channel
    snap,    \* the lane in the render thread's snapshot, 0 when there is none
    phase,   \* where the render thread is in its frame
    drawn,   \* pictures drawn so far
    ring,    \* number of the output's GpuSendRing, and where it looks first
    taken,   \* textures whose `busy` is set
    copied,  \* the GPU copy of the frame in progress
    rb,      \* the output's UnitReadback
    box,     \* video mailbox of each lane
    worker,  \* send_worker of each lane
    halted,  \* `stop` is set, or FATAL
    faults   \* faults so far

control == <<live, lanes, kind, call, asked>>
render == <<snap, phase, drawn, ring, copied, rb>>
laneVars == <<control, render, taken, box, worker, halted, faults>>

NewReadback ==
    [slots |-> [i \in 0..Buffers - 1 |-> [n |-> 0, pending |-> FALSE, waiting |-> FALSE]],
     write |-> 0, mapped |-> 0]
NewWorker == [at |-> "loop", hand |-> NoPicture, pending |-> NoTexture, cpu |-> 0, sent |-> 0]
NoWorker == [NewWorker EXCEPT !.at = "none"]

Fault == faults < MaxFaults /\ faults' = faults + 1

-----------------------------------------------------------------------------
(* The C calls, one at a time *)

\* The output leaves the map and its worker is asked to stop.
CallBegin(adds) ==
    /\ ~call.busy /\ ~halted
    /\ adds => lanes < MaxLanes
    /\ ~adds => live # 0
    /\ live' = 0
    /\ asked' = asked \cup ({live} \ {0})
    /\ call' = [joins |-> live, adds |-> adds, busy |-> TRUE]
    /\ UNCHANGED <<lanes, kind, render, taken, box, worker, halted, faults>>

\* join_timeout gives up after two seconds.
Gone == \A l \in {call.joins} \ {0} : worker[l].at = "ended"
Joined == (Gone /\ UNCHANGED faults) \/ (~Gone /\ Fault)

RemoveEnd ==
    /\ call.busy /\ ~call.adds
    /\ Joined
    /\ call' = Calling
    /\ UNCHANGED <<live, lanes, kind, asked, render, taken, box, worker, halted>>

\* The sender starts and a new worker goes in the map in one hold of the slot.
AddEnd(k) ==
    /\ call.busy /\ call.adds
    /\ Joined
    /\ lanes' = lanes + 1
    /\ live' = lanes + 1
    /\ kind' = [kind EXCEPT ![lanes + 1] = k]
    /\ worker' = [worker EXCEPT ![lanes + 1] = NewWorker]
    /\ call' = Calling
    /\ UNCHANGED <<asked, render, taken, box, halted>>

\* The sender does not start: the output stays away.
AddFails ==
    /\ call.busy /\ call.adds
    /\ Gone
    /\ Fault
    /\ call' = Calling
    /\ UNCHANGED <<live, lanes, kind, asked, render, taken, box, worker, halted>>

-----------------------------------------------------------------------------
(* The render thread *)

\* The frame's snapshot; what belongs to an output that is not in it goes.
Snapshot ==
    /\ phase = "idle" /\ ~halted
    /\ snap' = live
    /\ live = 0 /\ ring.used => ring.number < MaxRings
    /\ ring' = IF live = 0 /\ ring.used
               THEN [number |-> ring.number + 1, next |-> 0, used |-> FALSE] ELSE ring
    /\ rb' = IF live = 0 THEN NewReadback ELSE rb
    /\ phase' = IF live = 0 THEN "idle" ELSE "draw"
    /\ UNCHANGED <<drawn, copied, control, taken, box, worker, halted, faults>>

\* Nobody watches, or the source has no picture yet.
SkipDraw ==
    /\ phase = "draw"
    /\ phase' = "idle"
    /\ UNCHANGED <<snap, drawn, ring, copied, rb, control, taken, box, worker, halted, faults>>

Free == {i \in 0..Ring - 1 : <<ring.number, i>> \notin taken}
Offset(i) == (i - ring.next) % Ring

\* GpuSendStore::copy takes the first free texture from `next` on; a picture
\* that finds none is not sent.
DrawGpu ==
    /\ phase = "draw" /\ kind[snap] = "gpu" /\ drawn < MaxDrawn
    /\ drawn' = drawn + 1
    /\ IF Free = {}
       THEN ring' = [ring EXCEPT !.used = TRUE] /\ UNCHANGED <<taken, copied>>
       ELSE LET i == CHOOSE i \in Free : \A j \in Free : Offset(i) <= Offset(j)
            IN  /\ taken' = taken \cup {<<ring.number, i>>}
                /\ copied' = [n |-> drawn + 1, tex |-> <<ring.number, i>>]
                /\ ring' = [ring EXCEPT !.used = TRUE, !.next = (i + 1) % Ring]
    /\ phase' = "emit"
    /\ UNCHANGED <<snap, rb, control, box, worker, halted, faults>>

\* UnitReadback::copy_from
DrawCpu ==
    /\ phase = "draw" /\ kind[snap] = "cpu" /\ drawn < MaxDrawn
    /\ drawn' = drawn + 1
    /\ rb' = IF rb.slots[rb.write].waiting THEN rb
             ELSE [rb EXCEPT !.slots[rb.write].n = drawn + 1]
    /\ phase' = "emit"
    /\ UNCHANGED <<snap, ring, copied, control, taken, box, worker, halted, faults>>

\* Mutant: the texture of a picture that is dropped stays busy.
MutantPublish(l, picture) == box' = [box EXCEPT ![l] = picture] /\ UNCHANGED taken

\* VideoMailbox::publish: a picture nobody took is dropped and its texture freed.
Publish(l, picture) ==
    /\ box' = [box EXCEPT ![l] = picture]
    /\ taken' = taken \ {box[l].tex}

\* emit_gpu_encode sends to the lane of the snapshot, whatever became of it.
EmitGpu ==
    /\ phase = "emit" /\ kind[snap] = "gpu"
    /\ IF copied = NoPicture THEN UNCHANGED <<box, taken>> ELSE Publish(snap, copied)
    /\ copied' = NoPicture
    /\ phase' = "idle"
    /\ UNCHANGED <<snap, drawn, ring, rb, control, worker, faults, halted>>

\* Mutant: the buffers are written in turn, waiting for a map or not.
MutantAdvanced(done, lost) ==
    LET after == (rb.write + 1) % Buffers
        over  == done \cup lost
        back  == [i \in DOMAIN rb.slots |->
                    [rb.slots[i] EXCEPT !.pending = (@ \/ i = rb.write) /\ i \notin over,
                                        !.waiting = @ /\ i \notin over]]
        maps  == back[after].pending /\ ~back[after].waiting
    IN  [slots  |-> [back EXCEPT ![after].waiting = @ \/ maps],
         mapped |-> IF done = {} THEN rb.mapped
                    ELSE rb.slots[CHOOSE i \in done : \A j \in done : j <= i].n,
         write  |-> after]

\* UnitReadback::advance: `done` are the buffers whose map came back, `lost`
\* those it failed for; then the buffer after `write` is mapped in its turn.
Advanced(done, lost) ==
    LET after == (rb.write + 1) % Buffers
        over  == done \cup lost
        back  == [i \in DOMAIN rb.slots |->
                    [rb.slots[i] EXCEPT !.pending = (@ \/ i = rb.write) /\ i \notin over,
                                        !.waiting = @ /\ i \notin over]]
        maps  == back[after].pending /\ ~back[after].waiting
        slots == [back EXCEPT ![after].waiting = @ \/ maps]
    IN  [slots  |-> slots,
         mapped |-> IF done = {} THEN rb.mapped
                    ELSE rb.slots[CHOOSE i \in done : \A j \in done : j <= i].n,
         write  |-> IF slots[after].waiting THEN rb.write ELSE after]

\* emit_packed: the last picture that came back goes out, again if need be.
EmitCpu ==
    LET waiting == {i \in DOMAIN rb.slots : rb.slots[i].waiting}
    IN  /\ phase = "emit" /\ kind[snap] = "cpu"
        /\ \E done \in SUBSET waiting : \E lost \in SUBSET (waiting \ done) :
              LET r == Advanced(done, lost)
              IN  /\ IF lost = {} THEN UNCHANGED faults ELSE Fault
                  /\ rb' = r
                  /\ IF r.mapped = 0 THEN UNCHANGED <<box, taken>>
                     ELSE Publish(snap, [n |-> r.mapped, tex |-> NoTexture])
        /\ phase' = "idle"
        /\ UNCHANGED <<snap, drawn, ring, copied, control, worker, halted>>

-----------------------------------------------------------------------------
(* The send worker of a lane *)

\* The frame in the mailbox, or the last CPU frame again.
Take(l) ==
    LET w    == worker[l]
        next == IF box[l] # NoPicture THEN box[l] ELSE [n |-> w.cpu, tex |-> NoTexture]
    IN  /\ w.at = "loop" /\ l \notin asked
        /\ next # NoPicture
        /\ box' = [box EXCEPT ![l] = NoPicture]
        /\ worker' = [worker EXCEPT ![l] =
                        [w EXCEPT !.at = "sending", !.hand = next,
                                  !.cpu = IF next.tex = NoTexture THEN next.n ELSE @]]
        /\ UNCHANGED <<control, render, taken, faults, halted>>

\* send_video_texture gives the texture before it back and keeps this one for
\* the encoder; a CPU frame is sent by value.
Send(l) ==
    LET w == worker[l]
    IN  /\ w.at = "sending"
        /\ worker' = [worker EXCEPT ![l] =
                        [w EXCEPT !.at = "loop", !.hand = NoPicture, !.sent = w.hand.n,
                                  !.pending = IF w.hand.tex = NoTexture THEN @ ELSE w.hand.tex]]
        /\ taken' = IF w.hand.tex = NoTexture THEN taken ELSE taken \ {w.pending}
        /\ UNCHANGED <<control, render, box, faults, halted>>

\* The sender refuses the picture: both textures are free.
SendFails(l) ==
    LET w == worker[l]
    IN  /\ w.at = "sending"
        /\ Fault
        /\ worker' = [worker EXCEPT ![l] =
                        [w EXCEPT !.at = "loop", !.hand = NoPicture,
                                  !.pending = IF w.hand.tex = NoTexture THEN @ ELSE NoTexture]]
        /\ taken' = IF w.hand.tex = NoTexture THEN taken ELSE taken \ {w.hand.tex, w.pending}
        /\ UNCHANGED <<control, render, box, halted>>

\* A sender that panics takes the mixer down: the textures it had are freed, but
\* for the one the encoder still has.
SendPanics(l) ==
    LET w == worker[l]
    IN  /\ w.at = "sending"
        /\ Fault
        /\ halted' = TRUE
        /\ worker' = [worker EXCEPT ![l] = [w EXCEPT !.at = "loop", !.hand = NoPicture]]
        /\ taken' = taken \ {w.hand.tex}
        /\ UNCHANGED <<control, render, box>>

\* Shutdown, a mixer that stops, or a poll of the sender that fails, ends the loop. What is in the
\* mailbox is taken out for good.
LastTake(l) ==
    /\ worker[l].at = "loop"
    /\ IF l \in asked \/ halted THEN UNCHANGED faults ELSE Fault
    /\ box' = [box EXCEPT ![l] = NoPicture]
    /\ worker' = [worker EXCEPT ![l].at = "stopping", ![l].hand = box[l]]
    /\ UNCHANGED <<control, render, taken, halted>>

\* Mutant: the encoder is not flushed.
MutantStop(l) ==
    /\ worker[l].at = "stopping"
    /\ worker' = [worker EXCEPT ![l].at = "ended", ![l].hand = NoPicture]
    /\ taken' = taken \ {worker[l].hand.tex}
    /\ UNCHANGED <<control, render, box, faults, halted>>

\* stop_send_worker: the encoder is flushed and every texture given back.
Stop(l) ==
    LET w == worker[l]
    IN  /\ w.at = "stopping"
        /\ worker' = [worker EXCEPT ![l] =
                        [w EXCEPT !.at = "ended", !.hand = NoPicture, !.pending = NoTexture]]
        /\ taken' = taken \ {w.hand.tex, w.pending}
        /\ UNCHANGED <<control, render, box, faults, halted>>

\* mixer_destroy sets `stop` first of all.
Destroy ==
    /\ ~halted
    /\ halted' = TRUE
    /\ UNCHANGED <<control, render, taken, box, worker, faults>>

-----------------------------------------------------------------------------
LaneInit ==
    /\ live = 0 /\ lanes = 0
    /\ kind = [l \in Lanes |-> "gpu"]
    /\ call = Calling
    /\ asked = {}
    /\ snap = 0 /\ phase = "idle" /\ drawn = 0
    /\ ring = [number |-> 1, next |-> 0, used |-> FALSE]
    /\ taken = {}
    /\ copied = NoPicture
    /\ rb = NewReadback
    /\ box = [l \in Lanes |-> NoPicture]
    /\ worker = [l \in Lanes |-> NoWorker]
    /\ halted = FALSE
    /\ faults = 0

LaneNext ==
    \/ \E adds \in BOOLEAN : CallBegin(adds)
    \/ RemoveEnd
    \/ \E k \in Kinds : AddEnd(k)
    \/ AddFails
    \/ Snapshot \/ SkipDraw \/ DrawGpu \/ DrawCpu \/ EmitGpu \/ EmitCpu
    \/ \E l \in Lanes : Take(l) \/ Send(l) \/ SendFails(l) \/ SendPanics(l) \/ LastTake(l) \/ Stop(l)
    \/ Destroy

\* A worker that has not ended goes round its loop; it is due at every frame.
LaneFairness ==
    \A l \in Lanes :
        /\ WF_laneVars(Send(l))
        /\ WF_laneVars(box[l] # NoPicture /\ Take(l))
        /\ WF_laneVars((l \in asked \/ halted) /\ LastTake(l))
        /\ WF_laneVars(Stop(l))

LaneSpec == LaneInit /\ [][LaneNext]_laneVars /\ LaneFairness

-----------------------------------------------------------------------------
(* Properties *)

Holders(t) ==
    {<<"frame", 0>> : x \in {copied.tex} \cap {t}}
    \cup {<<"box", l>> : l \in {l \in Lanes : box[l].tex = t}}
    \cup {<<"hand", l>> : l \in {l \in Lanes : worker[l].hand.tex = t}}
    \cup {<<"pending", l>> : l \in {l \in Lanes : worker[l].pending = t}}

\* A texture of the send ring that is marked busy is in exactly one place - the
\* frame being drawn, a mailbox, a worker's hand or an encoder - and one that is
\* not is nowhere: no picture is drawn over one still being sent, and none is
\* dropped, refused, replaced or flushed without its texture coming free. It
\* holds across replaced workers and joins that time out, when two workers of
\* one output share the ring.
EachTextureHasOneHolder ==
    \A t \in Textures : Cardinality(Holders(t)) = IF t \in taken THEN 1 ELSE 0

\* What a worker sends is never older than what it sent before: the mailbox keeps
\* only the newest, the readback maps its buffers in the order they were drawn, and
\* a repeat is of the last picture.
SentInOrder ==
    [][\A l \in Lanes : worker'[l].sent >= worker[l].sent]_laneVars

\* A worker that is asked to stop ends, whatever it is at, and when the drawing is
\* over every texture comes back but the one the encoder of a running worker keeps
\* - and, after a worker was replaced, the one picture the render thread put in a
\* mailbox its worker had looked into for the last time.
Left(l) == {t \in Textures : t = box[l].tex /\ worker[l].at \in {"stopping", "ended"}}
Kept(l) == {t \in Textures : t = worker[l].pending /\ worker[l].at = "loop"}
TexturesComeBack ==
    <>[](/\ \A l \in asked : worker[l].at = "ended"
         /\ phase # "emit" => taken \subseteq UNION {Left(l) \cup Kept(l) : l \in Lanes})
=============================================================================
