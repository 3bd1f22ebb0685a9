------------------------------- MODULE VideoPump -------------------------------
(* Playback of a video file (mixer/src/media.rs): the pump thread that reads,
   decodes ahead and presents, and the host calls that play, pause, loop and
   seek it through four atomics.

   A frame is its presentation time, 0 .. Last, one unit per frame.  The clock is
   the time since clock_start and stops being counted when every frame is due.
   Two decoders are covered by `held`: Media Foundation returns a frame for each
   sample (held = 0), the Vulkan decoder may keep frames back until later samples
   or the end of the file (held > 0).  Where a seek lands is up to the reader: the
   pump takes it for the time asked for.  Sound, live captures, the layout of
   pictures and the failures that end the pump's thread are left out.            *)
EXTENDS Integers, Sequences

CONSTANTS
    Last,       \* presentation time of the last frame
    Ahead,      \* file_prefetch, frames decoded ahead
    MaxHeld,    \* frames a decoder may keep back
    Targets,    \* times a host may seek to
    MaxCalls,   \* bound: host calls
    MaxSpoiled   \* bound: samples that do not decode

ASSUME FileAssumption == Last \in Nat /\ Ahead \in Nat \ {0} /\ MaxHeld \in Nat
ASSUME TargetAssumption == Targets \subseteq Nat
ASSUME PumpBoundAssumption == MaxCalls \in Nat /\ MaxSpoiled \in Nat

Blank == -1    \* no picture in the upload store
NoTime == -1   \* clock_pts of a clock that is not set, seek_hns of no request

VARIABLES
    playing, looping, request, position,  \* the atomics; request is seek_hns
    late,       \* a seek whose second store is still to come, in a set
    pump,       \* the locals of run_loop
    shown,      \* the picture of the source in the upload store
    held,       \* frames the decoder keeps back
    calls, spoiled,
    landed,     \* the frame at which the reader was last put
    drift       \* since then: by how much that frame is before the time asked for,
                \* resumes, and whether a host's position came late

atomics == <<playing, looping, request, position>>
pumpVars == <<atomics, late, pump, shown, held, calls, spoiled, landed, drift>>

NoDrift == [missed |-> 0, resumes |-> 0, raced |-> FALSE]
StartClock(p) == [p EXCEPT !.clock = NoTime, !.elapsed = 0]

-----------------------------------------------------------------------------
(* Host calls, one at a time *)

HostCall == late = {} /\ calls < MaxCalls /\ calls' = calls + 1

SetPlaying(b) ==
    /\ HostCall
    /\ playing' = b
    /\ UNCHANGED <<looping, request, position, late, pump, shown, held, spoiled, landed, drift>>

SetLooping(b) ==
    /\ HostCall
    /\ looping' = b
    /\ UNCHANGED <<playing, request, position, late, pump, shown, held, spoiled, landed, drift>>

\* seek() stores the request, then the position.
Seek(t) ==
    /\ HostCall
    /\ request' = t
    /\ late' = {t}
    /\ UNCHANGED <<playing, looping, position, pump, shown, held, spoiled, landed, drift>>

SeekPosition ==
    \E t \in late :
        /\ position' = t
        /\ late' = {}
        /\ drift' = [drift EXCEPT !.raced = @ \/ request = NoTime]
        /\ UNCHANGED <<playing, looping, request, pump, shown, held, calls, spoiled, landed>>

-----------------------------------------------------------------------------
(* The pump: each turn of its loop looks at the request, at `playing`, presents
   what is due, and does one thing more *)

At(here, there) == pump.at = here /\ pump' = [pump EXCEPT !.at = there]

\* Where SetCurrentPosition may put the reader: at the frame asked for or one before
\* it, a key frame as a rule; or nowhere, as seek_to lets its error go.
Landings(t) == {n \in 0..(Last + 1) : n <= t \/ n = pump.head}

\* The reader is put at a frame, and the time asked for is taken for that frame's.
Moved(p, t, n) == [StartClock(p) EXCEPT !.head = n, !.base = t, !.inside = <<>>, !.tail = FALSE]

Put(t, n) ==
    /\ landed' = n
    /\ position' = t
    /\ drift' = [NoDrift EXCEPT !.missed = t - n]

NoSeek ==
    /\ request = NoTime
    /\ At("seek", "resume")
    /\ UNCHANGED <<atomics, late, shown, held, calls, spoiled, landed, drift>>

\* Mutant: the picture goes and a new one is not asked for.
MutantTakeSeek ==
    /\ pump.at = "seek"
    /\ request # NoTime
    /\ \E n \in Landings(request) :
           /\ pump' = [Moved(pump, request, n) EXCEPT !.at = "resume", !.queue = <<>>]
           /\ Put(request, n)
    /\ request' = NoTime
    /\ shown' = Blank
    /\ UNCHANGED <<playing, looping, late, held, calls, spoiled>>

\* The reader is flushed and moved, and the picture goes.
TakeSeek ==
    /\ pump.at = "seek"
    /\ request # NoTime
    /\ \E n \in Landings(request) :
           /\ pump' = [Moved(pump, request, n) EXCEPT !.at = "resume", !.queue = <<>>, !.need = TRUE]
           /\ Put(request, n)
    /\ request' = NoTime
    /\ shown' = Blank
    /\ UNCHANGED <<playing, looping, late, held, calls, spoiled>>

\* Playing again starts the clock anew from the position that is reported.
Resume ==
    /\ pump.at = "resume"
    /\ LET resumes == playing /\ ~pump.was
           p == [pump EXCEPT !.at = "present", !.play = playing, !.was = playing]
       IN  /\ pump' = IF resumes THEN [StartClock(p) EXCEPT !.base = position] ELSE p
           /\ drift' = IF resumes THEN [drift EXCEPT !.resumes = @ + 1] ELSE drift
    /\ UNCHANGED <<atomics, late, shown, held, calls, spoiled, landed>>

\* present_due_file takes frames from the front as long as the next one is due.
FrontDue(p) ==
    CHOOSE n \in 0..Len(p.queue) :
        /\ \A i \in 1..n : p.queue[i] - p.clock <= p.elapsed
        /\ n < Len(p.queue) => p.queue[n + 1] - p.clock > p.elapsed

\* present_due_file: every frame that is due, or with `force` the first one.
\* The clock starts at the first frame it meets.
Due(p, force) ==
    IF p.queue = <<>> \/ (~force /\ ~p.play) THEN <<>>
    ELSE IF force THEN <<p.queue[1]>>
    ELSE IF p.clock = NoTime THEN <<p.queue[1]>>
    ELSE SubSeq(p.queue, 1, FrontDue(p))

Presented(p, due) ==
    IF due = <<>> THEN p
    ELSE [p EXCEPT !.queue = SubSeq(@, Len(due) + 1, Len(@)),
                   !.clock = IF @ = NoTime THEN due[1] ELSE @,
                   !.elapsed = IF p.clock = NoTime THEN 0 ELSE @]

\* Where the playback says it is with the frame f.
Place(p, f) == p.base + (IF f > p.clock THEN f - p.clock ELSE 0)

Present ==
    /\ pump.at = "present"
    /\ LET due == Due(pump, pump.need)
           p   == Presented(pump, due)
           pic == IF due = <<>> THEN shown ELSE due[Len(due)]
       IN  /\ pump' = [p EXCEPT !.at = "act", !.need = pump.need /\ pic = Blank]
           /\ shown' = pic
           /\ position' = IF due = <<>> THEN position ELSE Place(p, pic)
    /\ UNCHANGED <<playing, looping, request, late, held, calls, spoiled, landed, drift>>

Act == pump.at = "act"
Idle == ~pump.play /\ ~pump.need
Full == Len(pump.queue) >= Ahead /\ ~pump.need
Reads == Act /\ ~Idle /\ ~pump.tail /\ ~Full

\* Paused, or waiting for a frame to be due.
Wait ==
    /\ Act
    /\ Idle \/ (IF pump.tail THEN pump.queue # <<>> ELSE Full)
    /\ At("act", "seek")
    /\ UNCHANGED <<atomics, late, shown, held, calls, spoiled, landed, drift>>

\* Mutant: the end of the file is the end of the picture.
MutantTailOver == Act /\ ~Idle /\ pump.tail

TailOver == Act /\ ~Idle /\ pump.tail /\ pump.queue = <<>>

\* The tail is out: stop, or start again without clearing the picture.
EndStops ==
    /\ TailOver
    /\ ~looping
    /\ pump' = [pump EXCEPT !.at = "seek", !.tail = FALSE]
    /\ playing' = FALSE
    /\ UNCHANGED <<looping, request, position, late, shown, held, calls, spoiled, landed, drift>>

\* Mutant: the file starts again, its time does not.
MutantRewind ==
    /\ TailOver
    /\ looping
    /\ \E n \in Landings(0) :
           /\ pump' = [Moved(pump, pump.base, n) EXCEPT !.at = "seek"]
           /\ Put(0, n)
    /\ UNCHANGED <<playing, looping, request, late, shown, held, calls, spoiled>>

Rewind ==
    /\ TailOver
    /\ looping
    /\ \E n \in Landings(0) :
           /\ pump' = [Moved(pump, 0, n) EXCEPT !.at = "seek"]
           /\ Put(0, n)
    /\ UNCHANGED <<playing, looping, request, late, shown, held, calls, spoiled>>

\* The end of the file; the decoder hands out what it kept.
ReadEnd ==
    /\ Reads
    /\ pump.head > Last
    /\ pump' = [pump EXCEPT !.at = "seek", !.tail = TRUE, !.queue = @ \o pump.inside, !.inside = <<>>]
    /\ UNCHANGED <<atomics, late, shown, held, calls, spoiled, landed, drift>>

\* A sample: the clock starts at the first one, the position moves to it, and a
\* picture that is wanted at once is presented at once.
ReadSample ==
    /\ Reads
    /\ pump.head <= Last
    /\ LET f    == pump.head
           all  == Append(pump.inside, f)
           out  == IF Len(all) > held THEN <<all[1]>> ELSE <<>>
           p    == [pump EXCEPT !.at = "seek", !.head = f + 1,
                                !.clock = IF @ = NoTime THEN f ELSE @,
                                !.elapsed = IF pump.clock = NoTime THEN 0 ELSE @,
                                !.queue = @ \o out,
                                !.inside = SubSeq(all, Len(out) + 1, Len(all))]
           due  == IF pump.need THEN Due(p, TRUE) ELSE <<>>
       IN  /\ pump' = [Presented(p, due) EXCEPT !.need = FALSE]
           /\ shown' = IF due = <<>> THEN shown ELSE due[1]
           /\ position' = Place(p, IF due = <<>> THEN f ELSE due[1])
    /\ UNCHANGED <<playing, looping, request, late, held, calls, spoiled, landed, drift>>

\* The sample does not decode: a picture that is wanted stays wanted.
ReadBadSample ==
    /\ Reads
    /\ pump.head <= Last
    /\ spoiled < MaxSpoiled
    /\ spoiled' = spoiled + 1
    /\ pump' = [pump EXCEPT !.at = "seek", !.head = @ + 1,
                            !.clock = IF @ = NoTime THEN pump.head ELSE @,
                            !.elapsed = IF pump.clock = NoTime THEN 0 ELSE @]
    /\ position' = Place(pump', pump.head)
    /\ UNCHANGED <<playing, looping, request, late, shown, held, calls, landed, drift>>

\* Time passes between two turns.
Tick ==
    /\ pump.at = "seek"
    /\ pump.elapsed <= Last
    /\ pump' = [pump EXCEPT !.elapsed = @ + 1]
    /\ UNCHANGED <<atomics, late, shown, held, calls, spoiled, landed, drift>>

-----------------------------------------------------------------------------
PumpInit ==
    /\ playing = TRUE /\ looping = TRUE
    /\ request = NoTime /\ position = 0
    /\ late = {}
    /\ pump = [at |-> "seek", play |-> FALSE, was |-> FALSE, need |-> TRUE, tail |-> FALSE,
               head |-> 0, queue |-> <<>>, inside |-> <<>>,
               clock |-> NoTime, base |-> 0, elapsed |-> 0]
    /\ shown = Blank
    /\ held \in 0..MaxHeld
    /\ calls = 0 /\ spoiled = 0
    /\ landed = 0
    /\ drift = NoDrift

Turn == NoSeek \/ TakeSeek \/ Resume \/ Present \/ Wait \/ EndStops \/ Rewind \/ ReadEnd \/ ReadSample

PumpNext ==
    \/ \E b \in BOOLEAN : SetPlaying(b) \/ SetLooping(b)
    \/ \E t \in Targets : Seek(t)
    \/ SeekPosition
    \/ NoSeek \/ TakeSeek \/ Resume \/ Present \/ Wait \/ EndStops \/ Rewind \/ ReadEnd \/ ReadSample
    \/ ReadBadSample
    \/ Tick

\* The pump keeps turning, time passes while it does, and a call that has begun
\* ends.
PumpFairness == WF_pumpVars(Turn) /\ SF_pumpVars(Tick) /\ WF_pumpVars(SeekPosition)

PumpSpec == PumpInit /\ [][PumpNext]_pumpVars /\ PumpFairness

-----------------------------------------------------------------------------
(* Properties *)

\* The picture goes back only at the end of a loop, from the last frame to the
\* first: frames come in order, the frames decoded ahead are not lost at the end
\* of the file, and a seek never shows a frame of before. A decoder that keeps all
\* of a short file back hands it out at once, and its first frames may be late.
TailPlaysOut ==
    [][(shown' # Blank /\ shown' < shown /\ spoiled = 0) =>
          shown = Last /\ (shown' = 0 \/ held > Last)]_pumpVars

\* The position a host reads is the picture's as far as the last seek or loop went
\* where it was asked to; what it missed stays in the position. Else it is ahead by
\* what is decoded ahead at most - and by as much again for every time the file was
\* resumed since, as each resume takes the position for the picture's. It says
\* nothing while the second store of a seek came after the pump's own.
PositionStaysNear ==
    (shown # Blank /\ late = {} /\ request = NoTime /\ ~drift.raced /\ spoiled = 0) =>
        /\ position - drift.missed <= shown + (Ahead + held) * (drift.resumes + 1)
        /\ position - drift.missed >= shown - drift.resumes \/ shown = Last

\* A paused file comes to rest: its thread goes back to sleeping turns and stops
\* reading. It does not when its reader was last put at the end of the file, or
\* before frames that do not decode.
PausedPumpRests ==
    <>[](playing \/ ~pump.need \/ landed + spoiled > Last)

\* A seek, paused or not, ends with a picture on the screen, unless the reader was
\* last put at the end of the file. A decoder that keeps frames back may leave the
\* source blank when it is paused.
NeverLeftBlank ==
    <>[](shown # Blank \/ spoiled > 0 \/ (held > 0 /\ ~playing) \/ landed > Last)
=============================================================================
