----------------------------- MODULE PlayoutClock -----------------------------
(* When frames are due: the cursor that counts the frames of a rate from the
   mixer's epoch, and the two threads that live by one (mixer/src/clock.rs, the
   loops of render.rs and output.rs, OutputPace of frame_hub.rs).

   The render thread takes the master rate under the mixer's mutex, sleeps until
   the cursor's next frame and stamps it.  A send worker takes the rate of its
   output from two atomics, asks at once whether a frame is due, and sleeps if
   none is.  Time is counted in ticks since the epoch.                        *)
EXTENDS Integers

CONSTANTS
    Ticks,  \* TICKS_PER_SEC
    Nums,   \* numerators of the rates that are set
    Dens,   \* their denominators
    MaxNow  \* bound: length of a behaviour, in ticks

\* Rate::new: neither number is zero, and a frame lasts at least a tick.
ASSUME RateAssumption ==
    /\ Ticks \in Nat \ {0} /\ Nums \subseteq Nat \ {0} /\ Dens \subseteq Nat \ {0}
    /\ \A n \in Nums, d \in Dens : n <= d * Ticks
ASSUME NowAssumption == MaxNow \in Nat

Rates == [num : Nums, den : Dens]
NotReading == [num |-> CHOOSE n \in Nums : TRUE, at |-> 0]

VARIABLES
    user,     \* the thread that has the cursor
    pace,     \* the rate in force, as the host or the render thread stored it
    storing,  \* OutputPace::store has stored num and not yet den
    seen,     \* what OutputPace::rate has loaded: num, and the time before it;
              \* nothing when it is not being read
    cursor,   \* PlayoutCursor
    now,
    stage,    \* where the thread is in its loop
    stamp,    \* the last presentation time given out, -1 when there is none
    changes   \* changes of the cursor's rate since, counted up to two

paceVars == <<user, pace, storing, seen, cursor, now, stage, stamp, changes>>

-----------------------------------------------------------------------------
(* Rates *)

Same(r, s) == r.num * s.den = s.num * r.den
Interval(r) == (r.den * Ticks) \div r.num
Pts(r, k) == (k * (r.den * Ticks)) \div r.num

\* The frame whose time it is at t: where frames_elapsed stops counting.
FramesElapsed(r, t) == CHOOSE k \in 0..t : Pts(r, k) <= t /\ t < Pts(r, k + 1)

Later(j, k) == IF j < k THEN k ELSE j

\* Mutant: the new rate starts at the wall's frame, whatever was sent.
MutantRateSet(r, t) == [rate |-> r, idx |-> FramesElapsed(r, t)]

\* PlayoutCursor::set_rate, at time t, to a rate that is another.
RateSet(r, t) ==
    LET past == Pts(cursor.rate, cursor.idx - 1)
        wall == FramesElapsed(r, t)
    IN [rate |-> r,
        idx |-> IF cursor.idx = 0 THEN wall ELSE Later(wall, past \div Interval(r) + 1)]

-----------------------------------------------------------------------------
(* The rate in force *)

StoreNum(r) ==
    /\ storing = FALSE
    /\ pace' = [pace EXCEPT !.num = r.num] /\ storing' = TRUE
    /\ UNCHANGED <<user, seen, cursor, now, stage, stamp, changes>>

StoreDen(r) ==
    /\ storing
    /\ pace' = [pace EXCEPT !.den = r.den] /\ storing' = FALSE
    /\ UNCHANGED <<user, seen, cursor, now, stage, stamp, changes>>

Passes ==
    /\ now < MaxNow /\ now' = now + 1
    /\ UNCHANGED <<user, pace, storing, seen, cursor, stage, stamp, changes>>

-----------------------------------------------------------------------------
(* The two loops *)

\* A worker reads the clock, then num, then den, whatever is stored between.
LoadNum ==
    /\ user = "send" /\ stage = "load"
    /\ seen' = [num |-> pace.num, at |-> now] /\ stage' = "rate"
    /\ UNCHANGED <<user, pace, storing, cursor, now, stamp, changes>>

SetRate(r, t) ==
    /\ stage = "rate"
    /\ IF Same(cursor.rate, r)
       THEN UNCHANGED <<cursor, changes>>
       ELSE cursor' = RateSet(r, t) /\ changes' = IF changes = 0 THEN 1 ELSE 2
    /\ stage' = IF user = "send" THEN "due" ELSE "sleep"
    /\ seen' = NotReading
    /\ UNCHANGED <<user, pace, storing, now, stamp>>

WorkerSetsRate == user = "send" /\ SetRate([num |-> seen.num, den |-> pace.den], seen.at)

\* The master rate is read under the mutex: it is never half stored.
RenderSetsRate == user = "render" /\ storing = FALSE /\ SetRate(pace, now)

\* Where a turn of the loop begins.
Top == IF user = "send" THEN "load" ELSE "rate"

\* The frame due asks about: late ones are skipped.
Slot == Later(FramesElapsed(cursor.rate, now), cursor.idx)

StampSlot ==
    /\ stage = "due" /\ Pts(cursor.rate, Slot) <= now
    /\ stamp' = Pts(cursor.rate, Slot)
    /\ cursor' = [cursor EXCEPT !.idx = Slot + 1]
    /\ changes' = 0 /\ stage' = Top
    /\ UNCHANGED <<user, pace, storing, seen, now>>

NothingDue ==
    /\ stage = "due" /\ now < Pts(cursor.rate, Slot)
    /\ cursor' = [cursor EXCEPT !.idx = Slot]
    /\ stage' = IF user = "send" THEN "sleep" ELSE Top
    /\ UNCHANGED <<user, pace, storing, seen, now, stamp, changes>>

\* sleep_until_deadline(next_deadline) ends.
WakeUp ==
    /\ stage = "sleep" /\ Pts(cursor.rate, cursor.idx) <= now
    /\ stage' = IF user = "send" THEN Top ELSE "due"
    /\ UNCHANGED <<user, pace, storing, seen, cursor, now, stamp, changes>>

PaceInit ==
    /\ user \in {"render", "send"}
    /\ pace \in Rates /\ storing = FALSE
    /\ cursor = [rate |-> pace, idx |-> 0]
    /\ now = 0 /\ stage = Top
    /\ seen = NotReading
    /\ stamp = -1 /\ changes = 0

PaceNext ==
    \/ \E r \in Rates : StoreNum(r) \/ StoreDen(r)
    \/ Passes
    \/ LoadNum \/ WorkerSetsRate \/ RenderSetsRate
    \/ StampSlot \/ NothingDue \/ WakeUp

PaceSpec == PaceInit /\ [][PaceNext]_paceVars

-----------------------------------------------------------------------------
(* Properties *)

\* Presentation times go up, through late frames and changes of rate, and after
\* one the next is in the future: frames that were missed are never sent in a
\* burst (PlayoutCursor::set_rate, due_with_skip). Only a worker that finds two
\* rates between two of its frames may step back: set_rate then goes by the slot
\* it waited for and no longer by the frame it sent.
StampsGoUp ==
    [][stamp' # stamp =>
       /\ stamp' > stamp \/ (user = "send" /\ changes = 2)
       /\ Pts(cursor'.rate, cursor'.idx) > now]_paceVars
=============================================================================
