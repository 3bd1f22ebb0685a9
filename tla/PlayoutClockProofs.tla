-------------------------- MODULE PlayoutClockProofs --------------------------
(* Proofs about the two things the render thread paces: that presentation times
   go up (PlayoutClock), for any rates, clock and order of steps, and that scene
   playback (SceneRuntime) loses no move, starts none from elsewhere than the
   screen and shows an edit at once, for any layouts, states and sequences.   *)
EXTENDS PlayoutClock, SceneRuntime, WellFoundedInduction, TLAPS

-----------------------------------------------------------------------------
(* Arithmetic *)

\* What a quotient is.
LEMMA Quotient ==
    ASSUME NEW a \in Nat, NEW n \in Nat \ {0}
    PROVE  a \div n \in Nat /\ (a \div n) * n <= a /\ a < (a \div n) * n + n
  OBVIOUS

LEMMA MulMono ==
    ASSUME NEW a \in Nat, NEW b \in Nat, NEW c \in Nat, a <= b
    PROVE  a * c <= b * c /\ a * c \in Nat /\ b * c \in Nat
  OBVIOUS

\* The greatest number whose product does not exceed a.
LEMMA QuotientIsGreatest ==
    ASSUME NEW a \in Nat, NEW n \in Nat \ {0}, NEW q \in Nat, q * n <= a
    PROVE  q <= a \div n
<1> DEFINE d == a \div n
<1>1. d \in Nat /\ a < d * n + n
  BY Quotient
<1> HIDE DEF d
<1>2. SUFFICES ASSUME d + 1 <= q PROVE FALSE
  BY <1>1 DEF d
<1>3. (d + 1) * n <= q * n
  BY <1>1, <1>2, MulMono
<1>4. (d + 1) * n = d * n + n
  BY <1>1
<1>5. d * n \in Nat /\ q * n \in Nat
  BY <1>1
<1>6. QED
  BY <1>1, <1>3, <1>4, <1>5

\* Of a set of numbers that is not empty one is the least.
LEMMA LeastOf ==
    ASSUME NEW T, T \subseteq Nat, T # {}
    PROVE  \E x \in T : \A y \in T : x <= y
<1> DEFINE R == OpToRel(<, Nat)
<1>1. \A x, y \in T : y < x => <<y, x>> \in R
  BY DEF OpToRel
<1>2. IsWellFoundedOn(R, Nat)
  BY NatLessThanWellFounded
<1> HIDE DEF R
<1>3. PICK x \in T : \A y \in T : ~ (<<y, x>> \in R)
  BY <1>2, WFMin
<1>4. \A y \in T : ~(y < x)
  BY <1>1, <1>3
<1>5. QED
  BY <1>4

-----------------------------------------------------------------------------
(* Rates *)

LEMMA RateParts ==
    ASSUME NEW r \in Rates
    PROVE  /\ r.num \in Nat \ {0} /\ r.den * Ticks \in Nat \ {0}
           /\ r.num <= r.den * Ticks
<1>1. /\ Ticks \in Nat \ {0} /\ r.num \in Nums /\ r.den \in Dens
      /\ r.num \in Nat \ {0} /\ r.den \in Nat \ {0} /\ r.num <= r.den * Ticks
  BY RateAssumption DEF Rates
<1>2. r.den * Ticks \in Nat \ {0}
  BY <1>1
<1>3. QED
  BY <1>1, <1>2

LEMMA PtsType ==
    ASSUME NEW r \in Rates, NEW k \in Nat
    PROVE  Pts(r, k) \in Nat
<1> DEFINE d == r.den * Ticks
<1>1. d \in Nat /\ r.num \in Nat \ {0}
  BY RateParts
<1> HIDE DEF d
<1>2. k * d \in Nat
  BY <1>1
<1>3. (k * d) \div r.num \in Nat
  BY <1>1, <1>2, Quotient
<1>4. QED
  BY <1>3 DEF Pts, d

\* A later frame is at a later time: a frame lasts at least a tick.
LEMMA PtsGrow ==
    ASSUME NEW r \in Rates, NEW j \in Nat, NEW k \in Nat, j < k
    PROVE  Pts(r, j) < Pts(r, k)
<1> DEFINE d == r.den * Ticks
           n == r.num
           q == (j * d) \div n
<1>1. d \in Nat /\ n \in Nat \ {0} /\ n <= d
  BY RateParts
<1> HIDE DEF d, n
<1>2. j * d \in Nat /\ k * d \in Nat /\ (j + 1) * d = j * d + d
  BY <1>1
<1>3. q \in Nat /\ q * n <= j * d
  BY <1>1, <1>2, Quotient
<1> HIDE DEF q
<1>4. (j + 1) * d <= k * d
  BY <1>1, MulMono
<1>5. (q + 1) * n = q * n + n /\ q * n \in Nat
  BY <1>1, <1>3
<1>6. (q + 1) * n <= k * d
  BY <1>1, <1>2, <1>3, <1>4, <1>5
<1>7. q + 1 <= (k * d) \div n
  BY <1>1, <1>2, <1>3, <1>6, QuotientIsGreatest
<1>8. (k * d) \div n \in Nat
  BY <1>1, <1>2, Quotient
<1>9. q < (k * d) \div n
  BY <1>3, <1>7, <1>8
<1>10. QED
  BY <1>9 DEF Pts, d, n, q

LEMMA PtsStart == ASSUME NEW r \in Rates PROVE Pts(r, 0) = 0
<1>1. r.den * Ticks \in Nat /\ r.num \in Nat \ {0}
  BY RateParts
<1>2. 0 * (r.den * Ticks) = 0
  BY <1>1
<1>3. 0 \div r.num = 0
  BY <1>1
<1>4. QED
  BY <1>2, <1>3 DEF Pts

\* Frames are a rounded period apart or more.
LEMMA PtsAbovePeriods ==
    ASSUME NEW r \in Rates, NEW k \in Nat
    PROVE  Interval(r) \in Nat \ {0} /\ k * Interval(r) <= Pts(r, k)
<1> DEFINE d == r.den * Ticks
           n == r.num
           i == d \div n
<1>1. d \in Nat /\ n \in Nat \ {0} /\ n <= d
  BY RateParts
<1> HIDE DEF d, n
<1>2. i \in Nat /\ i * n <= d
  BY <1>1, Quotient
<1>3. 1 <= i
  BY <1>1, QuotientIsGreatest
<1> HIDE DEF i
<1>4. i * n \in Nat
  BY <1>1, <1>2
<1>5. (i * n) * k <= d * k
  BY <1>1, <1>2, <1>4, MulMono
<1>6. (k * i) * n = (i * n) * k /\ d * k = k * d /\ k * i \in Nat /\ k * d \in Nat
  BY <1>1, <1>2
<1>7. k * i <= (k * d) \div n
  BY <1>1, <1>5, <1>6, QuotientIsGreatest
<1>8. QED
  BY <1>2, <1>3, <1>7 DEF Pts, Interval, d, n, i

\* The frame that set_rate goes on with is past the time it was given.
LEMMA SlotAfter ==
    ASSUME NEW r \in Rates, NEW p \in Nat
    PROVE  /\ p \div Interval(r) + 1 \in Nat
           /\ p < Pts(r, p \div Interval(r) + 1)
<1> DEFINE i == Interval(r)
           q == p \div i
<1>1. i \in Nat \ {0}
  BY PtsAbovePeriods
<1> HIDE DEF i
<1>2. q \in Nat /\ p < q * i + i
  BY <1>1, Quotient
<1> HIDE DEF q
<1>3. (q + 1) * i = q * i + i /\ q * i \in Nat
  BY <1>1, <1>2
<1>4. (q + 1) * i <= Pts(r, q + 1) /\ Pts(r, q + 1) \in Nat
  BY <1>2, PtsAbovePeriods, PtsType DEF i
<1>5. p < Pts(r, q + 1)
  BY <1>1, <1>2, <1>3, <1>4
<1>6. QED
  BY <1>2, <1>5 DEF i, q

\* A frame's number is at most its time.
LEMMA PtsAboveNumber ==
    ASSUME NEW r \in Rates, NEW k \in Nat
    PROVE  k <= Pts(r, k)
<1>1. Interval(r) \in Nat \ {0} /\ k * Interval(r) <= Pts(r, k) /\ Pts(r, k) \in Nat
  BY PtsAbovePeriods, PtsType
<1>2. 1 * k <= Interval(r) * k /\ Interval(r) * k \in Nat
  BY <1>1, MulMono
<1>3. Interval(r) * k = k * Interval(r)
  BY <1>1
<1>4. QED
  BY <1>1, <1>2, <1>3

\* frames_elapsed finds the frame whose time it is.
LEMMA Elapsed ==
    ASSUME NEW r \in Rates, NEW t \in Nat
    PROVE  /\ FramesElapsed(r, t) \in Nat
           /\ Pts(r, FramesElapsed(r, t)) <= t
           /\ t < Pts(r, FramesElapsed(r, t) + 1)
<1> DEFINE T == {k \in Nat : t < Pts(r, k + 1)}
<1>1. t \in T
  <2>1. t + 1 <= Pts(r, t + 1) /\ Pts(r, t + 1) \in Nat
    BY PtsAboveNumber, PtsType
  <2>2. QED
    BY <2>1
<1>2. T \subseteq Nat /\ T # {}
  BY <1>1
<1>3. PICK k \in T : \A j \in T : k <= j
  BY <1>2, LeastOf
<1>4. k \in Nat /\ t < Pts(r, k + 1) /\ Pts(r, k) \in Nat
  BY <1>3, PtsType
<1>5. Pts(r, k) <= t
  <2>1. CASE k = 0
    BY <2>1, PtsStart
  <2>2. CASE k # 0
    <3>1. k - 1 \in Nat /\ k - 1 \notin T /\ (k - 1) + 1 = k
      BY <1>3, <1>4, <2>2
    <3>2. ~(t < Pts(r, k))
      BY <3>1
    <3>3. QED
      BY <1>4, <3>2
  <2>3. QED
    BY <2>1, <2>2
<1>6. k \in 0..t
  BY <1>4, <1>5, PtsAboveNumber
<1>7. \E j \in 0..t : Pts(r, j) <= t /\ t < Pts(r, j + 1)
  BY <1>4, <1>5, <1>6
<1>8. QED
  BY <1>7 DEF FramesElapsed

-----------------------------------------------------------------------------
(* The cursor *)

PaceTypeOK ==
    /\ user \in {"render", "send"} /\ stage \in {"load", "rate", "due", "sleep"}
    /\ pace \in Rates
    /\ seen \in [num : Nums, at : Nat]
    /\ cursor \in [rate : Rates, idx : Nat]
    /\ now \in Nat /\ stamp \in Nat \cup {-1} /\ changes \in {0, 1, 2}

At(k) == Pts(cursor.rate, k)

\* Under the rate of the last frame the cursor is one past that frame.
NextOfStamp == changes = 0 /\ stamp # -1 => cursor.idx # 0 /\ stamp = At(cursor.idx - 1)

\* After one change of rate the cursor's frame is later than the last one.
PastStamp == changes = 1 => stamp < At(cursor.idx)

\* The render thread stamps a frame after each time it looks at the rate.
RenderInTurn ==
    user = "render" =>
        /\ stage # "load" /\ changes # 2
        /\ stage = "rate" => changes = 0
        /\ stage = "due" => At(cursor.idx) <= now

PaceInv == PaceTypeOK /\ NextOfStamp /\ PastStamp /\ RenderInTurn

\* The frame due asks about, if it is due, is the one whose time it is, and no
\* earlier than the cursor's.
LEMMA SlotFacts ==
    ASSUME PaceTypeOK
    PROVE  /\ Slot \in Nat /\ cursor.idx <= Slot
           /\ At(Slot) \in Nat /\ At(cursor.idx) <= At(Slot) /\ now < At(Slot + 1)
           /\ now < At(Slot) => Slot = cursor.idx
           /\ At(cursor.idx) <= now => At(Slot) <= now
<1> DEFINE e == FramesElapsed(cursor.rate, now)
<1>1. cursor.rate \in Rates /\ cursor.idx \in Nat /\ now \in Nat
  BY DEF PaceTypeOK
<1>2. e \in Nat /\ At(e) <= now /\ now < At(e + 1)
  BY <1>1, Elapsed DEF At
<1>3. Slot = IF e < cursor.idx THEN cursor.idx ELSE e
  BY DEF Slot, Later
<1> HIDE DEF e
<1>4. \A k \in Nat : At(k) \in Nat
  BY <1>1, PtsType DEF At
<1>5. \A j, k \in Nat : j < k => At(j) < At(k)
  BY <1>1, PtsGrow DEF At
<1>6. Slot \in Nat /\ cursor.idx <= Slot /\ e <= Slot
  BY <1>1, <1>2, <1>3
<1>7. At(cursor.idx) <= At(Slot)
  BY <1>1, <1>4, <1>5, <1>6
<1>8. now < At(Slot + 1)
  <2>1. e + 1 = Slot + 1 \/ e + 1 < Slot + 1
    BY <1>2, <1>6
  <2>2. At(e + 1) <= At(Slot + 1) /\ At(e + 1) \in Nat /\ At(Slot + 1) \in Nat
    BY <1>2, <1>4, <1>5, <1>6, <2>1
  <2>3. QED
    BY <1>1, <1>2, <2>2
<1>9. now < At(Slot) => Slot = cursor.idx
  <2>1. Slot = e \/ Slot = cursor.idx
    BY <1>3
  <2>2. At(e) \in Nat
    BY <1>2, <1>4
  <2>3. QED
    BY <1>1, <1>2, <2>1, <2>2
<1>10. At(cursor.idx) <= now => At(Slot) <= now
  BY <1>2, <1>3
<1>11. QED
  BY <1>4, <1>6, <1>7, <1>8, <1>9, <1>10

\* set_rate goes to a frame of the new rate, past the last one if the rate was
\* still that of the last one.
LEMMA RateSetFacts ==
    ASSUME PaceTypeOK, NextOfStamp, NEW r \in Rates, NEW t \in Nat
    PROVE  /\ RateSet(r, t) \in [rate : Rates, idx : Nat] /\ RateSet(r, t).rate = r
           /\ changes = 0 => stamp < Pts(r, RateSet(r, t).idx)
<1> DEFINE past == Pts(cursor.rate, cursor.idx - 1)
           wall == FramesElapsed(r, t)
           next == past \div Interval(r) + 1
           k == RateSet(r, t).idx
<1>1. cursor.rate \in Rates /\ cursor.idx \in Nat /\ stamp \in Nat \cup {-1}
  BY DEF PaceTypeOK
<1>2. wall \in Nat
  BY Elapsed
<1>3. RateSet(r, t) = [rate |-> r, idx |-> IF cursor.idx = 0 THEN wall
                                           ELSE IF wall < next THEN next ELSE wall]
  BY DEF RateSet, Later
<1>4. cursor.idx # 0 => past \in Nat /\ next \in Nat /\ past < Pts(r, next)
  <2> SUFFICES ASSUME cursor.idx # 0 PROVE past \in Nat /\ next \in Nat /\ past < Pts(r, next)
    OBVIOUS
  <2>1. cursor.idx - 1 \in Nat
    BY <1>1
  <2>2. past \in Nat
    BY <1>1, <2>1, PtsType
  <2> HIDE DEF past
  <2>3. QED
    BY <2>2, SlotAfter
<1> HIDE DEF wall, next
<1>5. k = (IF cursor.idx = 0 THEN wall ELSE IF wall < next THEN next ELSE wall) /\ k \in Nat
  BY <1>2, <1>3, <1>4
<1>6. RateSet(r, t) \in [rate : Rates, idx : Nat] /\ RateSet(r, t).rate = r
  BY <1>3, <1>5
<1> HIDE DEF k
<1>7. ASSUME changes = 0 PROVE stamp < Pts(r, k)
  <2>1. Pts(r, k) \in Nat
    BY <1>5, PtsType
  <2>2. CASE stamp = -1
    BY <2>1, <2>2
  <2>3. CASE stamp # -1
    <3>1. cursor.idx # 0 /\ stamp = past
      BY <1>7, <2>3 DEF NextOfStamp, At
    <3>2. next \in Nat /\ past \in Nat /\ past < Pts(r, next) /\ Pts(r, next) \in Nat
      BY <1>4, <3>1, PtsType
    <3>3. k = next \/ next < k
      BY <1>2, <1>5, <3>1, <3>2
    <3>4. Pts(r, next) <= Pts(r, k)
      BY <1>5, <2>1, <3>2, <3>3, PtsGrow
    <3>5. QED
      BY <2>1, <3>1, <3>2, <3>4
  <2>4. QED
    BY <2>2, <2>3
<1>8. QED
  BY <1>6, <1>7 DEF k

-----------------------------------------------------------------------------
(* Every step *)

LEMMA NotReadingType ==
    ASSUME pace \in Rates
    PROVE  NotReading \in [num : Nums, at : Nat]
<1>1. pace.num \in Nums
  BY DEF Rates
<1>2. (CHOOSE n \in Nums : TRUE) \in Nums
  BY <1>1
<1>3. QED
  BY <1>2 DEF NotReading

LEMMA PaceStart == PaceInit => PaceInv
<1> SUFFICES ASSUME PaceInit PROVE PaceInv
  OBVIOUS
<1>1. /\ user \in {"render", "send"} /\ pace \in Rates /\ cursor = [rate |-> pace, idx |-> 0]
      /\ now = 0 /\ stamp = -1 /\ changes = 0 /\ seen = NotReading
      /\ stage = IF user = "send" THEN "load" ELSE "rate"
  BY DEF PaceInit, Top
<1>2. PaceTypeOK
  BY <1>1, NotReadingType DEF PaceTypeOK, Rates
<1>3. NextOfStamp /\ PastStamp /\ RenderInTurn
  BY <1>1 DEF NextOfStamp, PastStamp, RenderInTurn
<1>4. QED
  BY <1>2, <1>3 DEF PaceInv

LEMMA SetRateStep ==
    ASSUME PaceInv, NEW r \in Rates, NEW t \in Nat, SetRate(r, t)
    PROVE  PaceInv'
<1> USE DEF PaceInv
<1>1. /\ stage = "rate" /\ UNCHANGED <<user, pace, now, stamp>>
      /\ seen' = NotReading /\ NotReading \in [num : Nums, at : Nat]
      /\ stage' = IF user = "send" THEN "due" ELSE "sleep"
  BY NotReadingType DEF SetRate, PaceTypeOK
<1>2. CASE UNCHANGED <<cursor, changes>>
  BY <1>1, <1>2 DEF PaceTypeOK, NextOfStamp, PastStamp, RenderInTurn, At
<1>3. CASE cursor' = RateSet(r, t) /\ changes' = IF changes = 0 THEN 1 ELSE 2
  <2>1. /\ RateSet(r, t) \in [rate : Rates, idx : Nat] /\ RateSet(r, t).rate = r
        /\ changes = 0 => stamp < Pts(r, RateSet(r, t).idx)
    BY RateSetFacts
  <2>2. PaceTypeOK'
    BY <1>1, <1>3, <2>1 DEF PaceTypeOK
  <2>3. NextOfStamp'
    BY <1>3 DEF NextOfStamp
  <2>4. PastStamp'
    BY <1>1, <1>3, <2>1 DEF PastStamp, At, PaceTypeOK
  <2>5. RenderInTurn'
    BY <1>1, <1>3 DEF RenderInTurn
  <2>6. QED
    BY <2>2, <2>3, <2>4, <2>5
<1>4. QED
  BY <1>2, <1>3 DEF SetRate

LEMMA StampStep ==
    ASSUME PaceInv, StampSlot
    PROVE  /\ PaceInv' /\ Pts(cursor'.rate, cursor'.idx) > now
           /\ stamp' > stamp \/ (user = "send" /\ changes = 2)
<1> USE DEF PaceInv
<1>1. /\ stage = "due" /\ stamp' = At(Slot) /\ cursor' = [cursor EXCEPT !.idx = Slot + 1]
      /\ changes' = 0 /\ UNCHANGED <<user, pace, seen, now>>
      /\ stage' = IF user = "send" THEN "load" ELSE "rate"
  BY DEF StampSlot, At, Top
<1>2. /\ Slot \in Nat /\ cursor.idx <= Slot
      /\ At(Slot) \in Nat /\ At(cursor.idx) <= At(Slot) /\ now < At(Slot + 1)
  BY SlotFacts
<1>3. cursor.rate \in Rates /\ cursor.idx \in Nat /\ now \in Nat /\ stamp \in Nat \cup {-1}
  BY DEF PaceTypeOK
<1>4. cursor' = [rate |-> cursor.rate, idx |-> Slot + 1]
  BY <1>1 DEF PaceTypeOK
<1>5. PaceTypeOK'
  BY <1>1, <1>2, <1>3, <1>4 DEF PaceTypeOK
<1>6. NextOfStamp'
  <2>1. cursor'.rate = cursor.rate /\ cursor'.idx = Slot + 1 /\ (Slot + 1) - 1 = Slot
    BY <1>2, <1>4
  <2>2. QED
    BY <1>1, <1>2, <2>1 DEF NextOfStamp, At
<1>7. PastStamp' /\ RenderInTurn'
  BY <1>1 DEF PastStamp, RenderInTurn
<1>8. Pts(cursor'.rate, cursor'.idx) > now
  <2>1. At(Slot + 1) \in Nat
    BY <1>2, <1>3, PtsType DEF At
  <2>2. QED
    BY <1>2, <1>3, <1>4, <2>1 DEF At
<1>9. stamp' > stamp \/ (user = "send" /\ changes = 2)
  <2>1. At(cursor.idx) \in Nat
    BY <1>3, PtsType DEF At
  <2>2. CASE changes = 0
    <3>1. CASE stamp = -1
      BY <1>1, <1>2, <3>1
    <3>2. CASE stamp # -1
      <4>1. cursor.idx - 1 \in Nat /\ stamp = At(cursor.idx - 1)
        BY <1>3, <2>2, <3>2 DEF NextOfStamp
      <4>2. At(cursor.idx - 1) < At(cursor.idx)
        BY <1>3, <4>1, PtsGrow DEF At
      <4>3. QED
        BY <1>1, <1>2, <1>3, <2>1, <4>1, <4>2
    <3>3. QED
      BY <3>1, <3>2
  <2>3. CASE changes = 1
    BY <1>1, <1>2, <1>3, <2>1, <2>3 DEF PastStamp
  <2>4. CASE changes = 2
    BY <2>4 DEF PaceTypeOK, RenderInTurn
  <2>5. QED
    BY <2>2, <2>3, <2>4 DEF PaceTypeOK
<1>10. QED
  BY <1>5, <1>6, <1>7, <1>8, <1>9

LEMMA NothingDueStep ==
    ASSUME PaceInv, NothingDue
    PROVE  PaceInv'
<1> USE DEF PaceInv
<1>1. /\ stage = "due" /\ now < At(Slot) /\ cursor' = [cursor EXCEPT !.idx = Slot]
      /\ UNCHANGED <<user, pace, seen, now, stamp, changes>>
      /\ stage' = IF user = "send" THEN "sleep" ELSE "rate"
  BY DEF NothingDue, At, Top
<1>2. /\ Slot \in Nat /\ At(Slot) \in Nat
      /\ now < At(Slot) => Slot = cursor.idx
      /\ At(cursor.idx) <= now => At(Slot) <= now
  BY SlotFacts
<1>3. now \in Nat
  BY DEF PaceTypeOK
<1>4. user = "send"
  BY <1>1, <1>2, <1>3 DEF RenderInTurn, PaceTypeOK
<1>5. cursor' = cursor
  BY <1>1, <1>2 DEF PaceTypeOK
<1>6. QED
  BY <1>1, <1>4, <1>5 DEF PaceTypeOK, NextOfStamp, PastStamp, RenderInTurn, At

LEMMA PaceStep ==
    ASSUME PaceInv, [PaceNext]_paceVars
    PROVE  /\ PaceInv'
           /\ stamp' # stamp =>
                 /\ stamp' > stamp \/ (user = "send" /\ changes = 2)
                 /\ Pts(cursor'.rate, cursor'.idx) > now
<1> DEFINE Good == stamp' # stamp =>
                      /\ stamp' > stamp \/ (user = "send" /\ changes = 2)
                      /\ Pts(cursor'.rate, cursor'.idx) > now
<1> USE DEF PaceInv
<1>1. CASE UNCHANGED paceVars
  BY <1>1 DEF paceVars, PaceTypeOK, NextOfStamp, PastStamp, RenderInTurn, At
<1>2. ASSUME NEW r \in Rates, StoreNum(r) \/ StoreDen(r) PROVE PaceInv' /\ Good
  <2>1. pace' \in Rates
    BY <1>2 DEF StoreNum, StoreDen, Rates, PaceTypeOK
  <2>2. UNCHANGED <<user, seen, cursor, now, stage, stamp, changes>>
    BY <1>2 DEF StoreNum, StoreDen
  <2>3. QED
    BY <2>1, <2>2 DEF PaceTypeOK, NextOfStamp, PastStamp, RenderInTurn, At
<1>3. CASE Passes
  <2>1. now' = now + 1 /\ UNCHANGED <<user, pace, seen, cursor, stage, stamp, changes>>
    BY <1>3 DEF Passes
  <2>2. PaceTypeOK'
    BY <2>1 DEF PaceTypeOK
  <2>3. RenderInTurn'
    <3>1. At(cursor.idx) \in Nat /\ now \in Nat
      BY PtsType DEF PaceTypeOK, At
    <3>2. QED
      BY <2>1, <3>1 DEF RenderInTurn, At
  <2>4. QED
    BY <2>1, <2>2, <2>3 DEF NextOfStamp, PastStamp, At
<1>4. CASE LoadNum
  <2>1. /\ user = "send" /\ seen' = [num |-> pace.num, at |-> now] /\ stage' = "rate"
        /\ UNCHANGED <<user, pace, cursor, now, stamp, changes>>
    BY <1>4 DEF LoadNum
  <2>2. PaceTypeOK'
    BY <2>1 DEF PaceTypeOK, Rates
  <2>3. QED
    BY <2>1, <2>2 DEF NextOfStamp, PastStamp, RenderInTurn, At
<1>5. CASE WorkerSetsRate
  <2>1. [num |-> seen.num, den |-> pace.den] \in Rates /\ seen.at \in Nat
    BY DEF PaceTypeOK, Rates
  <2>2. SetRate([num |-> seen.num, den |-> pace.den], seen.at)
    BY <1>5 DEF WorkerSetsRate
  <2>3. stamp' = stamp
    BY <2>2 DEF SetRate
  <2>4. QED
    BY <2>1, <2>2, <2>3, SetRateStep
<1>6. CASE RenderSetsRate
  <2>1. pace \in Rates /\ now \in Nat
    BY DEF PaceTypeOK
  <2>2. SetRate(pace, now) /\ stamp' = stamp
    BY <1>6 DEF RenderSetsRate, SetRate
  <2>3. QED
    BY <2>1, <2>2, SetRateStep
<1>7. CASE StampSlot
  BY <1>7, StampStep
<1>8. CASE NothingDue
  <2>1. stamp' = stamp
    BY <1>8 DEF NothingDue
  <2>2. QED
    BY <1>8, <2>1, NothingDueStep
<1>9. CASE WakeUp
  <2>1. /\ stage = "sleep" /\ At(cursor.idx) <= now
        /\ stage' = IF user = "send" THEN "load" ELSE "due"
        /\ UNCHANGED <<user, pace, seen, cursor, now, stamp, changes>>
    BY <1>9 DEF WakeUp, Top, At
  <2>2. QED
    BY <2>1 DEF PaceTypeOK, NextOfStamp, PastStamp, RenderInTurn, At
<1>10. QED
  BY <1>1, <1>2, <1>3, <1>4, <1>5, <1>6, <1>7, <1>8, <1>9 DEF PaceNext

-----------------------------------------------------------------------------
(* Theorems *)

\* The invariant of the cursor: between two frames it has not changed its rate
\* and stands behind the last, or has changed it once and stands past it
\* (PlayoutCursor::set_rate, due_with_skip).
THEOREM PaceInvariance == PaceSpec => []PaceInv
<1>1. PaceInv /\ [PaceNext]_paceVars => PaceInv'
  BY PaceStep
<1>2. QED
  BY PaceStart, <1>1, PTL DEF PaceSpec

\* Presentation times go up and never come in bursts, for any rates, unless a
\* worker met two changes of rate between two frames: StampsGoUp.
THEOREM StampsAscend == PaceSpec => StampsGoUp
<1>1. PaceInv /\ [PaceNext]_paceVars =>
        [stamp' # stamp =>
           /\ stamp' > stamp \/ (user = "send" /\ changes = 2)
           /\ Pts(cursor'.rate, cursor'.idx) > now]_paceVars
  BY PaceStep
<1>2. QED
  BY PaceInvariance, <1>1, PTL DEF PaceSpec, StampsGoUp

-----------------------------------------------------------------------------
(* Playback of a scene (SceneRuntime).  A step changes the runtime by a few
   operations on it; each has a lemma that says that it keeps the moves, their
   owners, the sequences and the presented places in order.                   *)

\* What the screen shows of a part that no move owns.
Fallback(r, b, p) == IF p \in DOMAIN r.presented THEN r.presented[p] ELSE b[p]

\* The fields of the records of the runtime.
RuntimeFields == {"states", "sequences", "moves", "owner", "presented", "playing", "nextMove", "dirty"}
MoveFields == {"state", "seq", "frames", "age", "from", "to"}
PlayFields == {"index", "dir", "phase", "move", "left"}

\* The lists of states and sequences are lists a session may have sent.
Stocked(r) ==
    /\ \A s \in DOMAIN r.states : r.states[s].enter \in Nat \ {0}
    /\ DOMAIN r.sequences \subseteq Nat \ {0}
    /\ \A q \in DOMAIN r.sequences : \A i \in DOMAIN r.sequences[q] : r.sequences[q][i].frames \in Nat

\* The moves and what plays are records of their kinds, and ids are numbers not yet given.
Formed(r) ==
    /\ DOMAIN r = RuntimeFields
    /\ r.nextMove \in Nat
    /\ \A m \in DOMAIN r.moves : m \in Nat /\ m < r.nextMove
    /\ \A m \in DOMAIN r.moves :
          /\ DOMAIN r.moves[m] = MoveFields
          /\ r.moves[m].seq \in Nat /\ r.moves[m].frames \in Nat \ {0} /\ r.moves[m].age \in Int
    /\ \A q \in DOMAIN r.playing : q \in Nat \ {0} /\ DOMAIN r.playing[q] = PlayFields

\* OwnersAgree of any runtime.
Agree(r) ==
    /\ \A p \in DOMAIN r.owner :
          r.owner[p] \in DOMAIN r.moves /\ p \in DOMAIN r.moves[r.owner[p]].from
    /\ \A m \in DOMAIN r.moves :
          /\ DOMAIN r.moves[m].from # {}
          /\ DOMAIN r.moves[m].to = DOMAIN r.moves[m].from
          /\ \A p \in DOMAIN r.moves[m].from : p \in DOMAIN r.owner /\ r.owner[p] = m

\* The sequence that started move m waits for it.
WaitsFor(r, m) ==
    r.moves[m].seq # 0 =>
        /\ r.moves[m].seq \in DOMAIN r.playing
        /\ r.playing[r.moves[m].seq].phase = "moving"
        /\ r.playing[r.moves[m].seq].move = m

\* NoOrphanMove of any runtime.
Waited(r) == \A m \in DOMAIN r.moves : WaitsFor(r, m)

\* What makes a takeover seamless: between two ticks, a part that is moving is
\* where it was last presented (or in the saved layout, if it never was).
Consistent(r, b) ==
    \A p \in DOMAIN r.owner : p \in DOMAIN b /\ Blend(r.moves[r.owner[p]], p) = Fallback(r, b, p)

\* Runtime r1 is r without some moves, some parts of moves and some sequences.
Loses(r, r1) ==
    /\ DOMAIN r1 = RuntimeFields
    /\ r1.presented = r.presented /\ r1.nextMove = r.nextMove
    /\ \A m \in DOMAIN r1.moves :
          /\ m \in DOMAIN r.moves
          /\ DOMAIN r1.moves[m] = MoveFields
          /\ r1.moves[m].seq = r.moves[m].seq /\ r1.moves[m].frames = r.moves[m].frames
          /\ r1.moves[m].age = r.moves[m].age
          /\ \A p \in DOMAIN r1.moves[m].from :
                r1.moves[m].from[p] = r.moves[m].from[p] /\ r1.moves[m].to[p] = r.moves[m].to[p]
    /\ \A p \in DOMAIN r1.owner : p \in DOMAIN r.owner /\ r1.owner[p] = r.owner[p]
    /\ \A q \in DOMAIN r1.playing : q \in DOMAIN r.playing /\ r1.playing[q] = r.playing[q]

\* Losing moves and parts leaves the rest where it was presented.
LEMMA LosesKeeps ==
    ASSUME NEW r, NEW r1, NEW b, Formed(r), Consistent(r, b), Loses(r, r1), Agree(r1)
    PROVE  Formed(r1) /\ Consistent(r1, b)
<1>1. Formed(r1)
  BY DEF Formed, Loses
<1>2. ASSUME NEW p \in DOMAIN r1.owner
      PROVE  p \in DOMAIN b /\ Blend(r1.moves[r1.owner[p]], p) = Fallback(r1, b, p)
  <2> DEFINE m == r.owner[p]
  <2>1. p \in DOMAIN r.owner /\ r1.owner[p] = m /\ m \in DOMAIN r1.moves /\ p \in DOMAIN r1.moves[m].from
    BY DEF Loses, Agree
  <2>2. p \in DOMAIN b /\ Blend(r.moves[m], p) = Fallback(r, b, p)
    BY <2>1 DEF Consistent
  <2> HIDE DEF m
  <2>3. /\ r1.moves[m].frames = r.moves[m].frames /\ r1.moves[m].age = r.moves[m].age
        /\ r1.moves[m].from[p] = r.moves[m].from[p] /\ r1.moves[m].to[p] = r.moves[m].to[p]
    BY <2>1 DEF Loses
  <2>4. Blend(r1.moves[m], p) = Blend(r.moves[m], p)
    BY <2>3 DEF Blend, Finished
  <2>5. Fallback(r1, b, p) = Fallback(r, b, p)
    BY DEF Loses, Fallback
  <2>6. QED
    BY <2>1, <2>2, <2>4, <2>5
<1>3. QED
  BY <1>1, <1>2 DEF Consistent

\* The parts of P that move m owns; the moves left without a part; what is left of
\* move m.
StolenOf(r, P, m) == {p \in P \cap DOMAIN r.owner : r.owner[p] = m}
EmptiedBy(r, P) ==
      {m \in DOMAIN r.moves : StolenOf(r, P, m) # {} /\ DOMAIN r.moves[m].from \subseteq StolenOf(r, P, m)}
LeftOf(r, P, m) == [r.moves[m] EXCEPT !.from = Without(r.moves[m].from, StolenOf(r, P, m)),
                                      !.to = Without(r.moves[m].to, StolenOf(r, P, m))]

\* The sequences of the moves M, and the parts they own.
SequencesOf(r, M) == {r.moves[m].seq : m \in M}
OwnedBy(r, M) == {p \in DOMAIN r.owner : r.owner[p] \in M}

\* steal_layer and steal_camera, field by field.
LEMMA StealFields ==
    ASSUME NEW r, NEW P, DOMAIN r = RuntimeFields
    PROVE  /\ DOMAIN Steal(r, P) = RuntimeFields
           /\ Steal(r, P).states = r.states /\ Steal(r, P).sequences = r.sequences
           /\ Steal(r, P).presented = r.presented /\ Steal(r, P).nextMove = r.nextMove
           /\ Steal(r, P).owner = Without(r.owner, P)
           /\ DOMAIN Steal(r, P).moves = DOMAIN r.moves \ EmptiedBy(r, P)
           /\ \A m \in DOMAIN Steal(r, P).moves : Steal(r, P).moves[m] = LeftOf(r, P, m)
           /\ Steal(r, P).playing = Without(r.playing, SequencesOf(r, EmptiedBy(r, P)))
<1>1. /\ DOMAIN Steal(r, P) = RuntimeFields
      /\ Steal(r, P).states = r.states /\ Steal(r, P).sequences = r.sequences
      /\ Steal(r, P).presented = r.presented /\ Steal(r, P).nextMove = r.nextMove
      /\ Steal(r, P).owner = Without(r.owner, P)
  BY DEF Steal, RuntimeFields
<1>2. Steal(r, P).moves = [m \in DOMAIN r.moves \ EmptiedBy(r, P) |-> LeftOf(r, P, m)]
  BY DEF Steal, RuntimeFields, StolenOf, EmptiedBy, LeftOf
<1>3. Steal(r, P).playing = Without(r.playing, SequencesOf(r, EmptiedBy(r, P)))
  BY DEF Steal, RuntimeFields, StolenOf, EmptiedBy, SequencesOf
<1>4. QED
  BY <1>1, <1>2, <1>3

\* cancel_move, field by field.
LEMMA CancelFields ==
    ASSUME NEW r, NEW M, DOMAIN r = RuntimeFields
    PROVE  /\ DOMAIN Cancel(r, M) = RuntimeFields
           /\ Cancel(r, M).states = r.states /\ Cancel(r, M).sequences = r.sequences
           /\ Cancel(r, M).presented = r.presented /\ Cancel(r, M).nextMove = r.nextMove
           /\ Cancel(r, M).moves = Without(r.moves, M)
           /\ Cancel(r, M).owner = Without(r.owner, OwnedBy(r, M))
           /\ Cancel(r, M).playing = Without(r.playing, SequencesOf(r, M \cap DOMAIN r.moves))
BY DEF Cancel, RuntimeFields, SequencesOf, OwnedBy

\* A move that lost parts, field by field.
LEMMA LeftFields ==
    ASSUME NEW r, NEW P, NEW m, DOMAIN r.moves[m] = MoveFields
    PROVE  /\ DOMAIN LeftOf(r, P, m) = MoveFields
           /\ LeftOf(r, P, m).seq = r.moves[m].seq /\ LeftOf(r, P, m).frames = r.moves[m].frames
           /\ LeftOf(r, P, m).age = r.moves[m].age
           /\ LeftOf(r, P, m).from = Without(r.moves[m].from, StolenOf(r, P, m))
           /\ LeftOf(r, P, m).to = Without(r.moves[m].to, StolenOf(r, P, m))
BY DEF LeftOf, MoveFields

\* The keys left in a map without some of its keys,
LEMMA WithoutDomain == ASSUME NEW f, NEW S PROVE DOMAIN Without(f, S) = DOMAIN f \ S
BY DEF Without

\* and the map left.
LEMMA WithoutParts ==
    ASSUME NEW f, NEW S
    PROVE  /\ \A p : p \in DOMAIN Without(f, S) <=> p \in DOMAIN f /\ p \notin S
           /\ \A p \in DOMAIN Without(f, S) : Without(f, S)[p] = f[p]
BY DEF Without

\* Taking parts from their moves keeps the runtime in order.
LEMMA StealKeeps ==
    ASSUME NEW r, NEW P, NEW b, Formed(r), Agree(r), Waited(r), Consistent(r, b)
    PROVE  /\ Loses(r, Steal(r, P)) /\ Formed(Steal(r, P)) /\ Agree(Steal(r, P))
           /\ Waited(Steal(r, P)) /\ Consistent(Steal(r, P), b)
           /\ Steal(r, P).owner = Without(r.owner, P)
<1> DEFINE s == Steal(r, P)
<1>0. DOMAIN r = RuntimeFields
  BY DEF Formed
<1>1. /\ DOMAIN s = RuntimeFields /\ s.presented = r.presented /\ s.nextMove = r.nextMove
      /\ s.owner = Without(r.owner, P)
      /\ DOMAIN s.moves = DOMAIN r.moves \ EmptiedBy(r, P)
      /\ \A m \in DOMAIN s.moves : s.moves[m] = LeftOf(r, P, m)
      /\ s.playing = Without(r.playing, SequencesOf(r, EmptiedBy(r, P)))
  BY <1>0, StealFields
<1> HIDE DEF s
<1>2. ASSUME NEW m \in DOMAIN s.moves
      PROVE  /\ m \in DOMAIN r.moves /\ m \notin EmptiedBy(r, P)
             /\ DOMAIN s.moves[m] = MoveFields
             /\ s.moves[m].seq = r.moves[m].seq /\ s.moves[m].frames = r.moves[m].frames
             /\ s.moves[m].age = r.moves[m].age
             /\ s.moves[m].from = Without(r.moves[m].from, StolenOf(r, P, m))
             /\ s.moves[m].to = Without(r.moves[m].to, StolenOf(r, P, m))
  <2>1. m \in DOMAIN r.moves /\ m \notin EmptiedBy(r, P) /\ s.moves[m] = LeftOf(r, P, m)
    BY <1>1
  <2>2. DOMAIN r.moves[m] = MoveFields
    BY <2>1 DEF Formed
  <2>3. QED
    BY <2>1, <2>2, LeftFields
<1>3. ASSUME NEW p \in DOMAIN s.owner PROVE p \in DOMAIN r.owner /\ p \notin P /\ s.owner[p] = r.owner[p]
  BY <1>1, WithoutParts
<1>4. ASSUME NEW q \in DOMAIN s.playing PROVE q \in DOMAIN r.playing /\ s.playing[q] = r.playing[q]
  BY <1>1, WithoutParts
<1>5. Loses(r, s)
  <2>1. ASSUME NEW m \in DOMAIN s.moves, NEW p \in DOMAIN s.moves[m].from
        PROVE  s.moves[m].from[p] = r.moves[m].from[p] /\ s.moves[m].to[p] = r.moves[m].to[p]
    <3>1. p \in DOMAIN r.moves[m].from /\ p \notin StolenOf(r, P, m) /\ m \in DOMAIN r.moves
      BY <1>2, WithoutParts
    <3>2. p \in DOMAIN r.moves[m].to
      BY <3>1 DEF Agree
    <3>3. p \in DOMAIN Without(r.moves[m].from, StolenOf(r, P, m)) /\ p \in DOMAIN Without(r.moves[m].to, StolenOf(r, P, m))
      BY <3>1, <3>2, WithoutParts
    <3>4. QED
      BY <1>2, <3>3, WithoutParts
  <2>2. QED
    BY <1>1, <1>2, <1>3, <1>4, <2>1 DEF Loses
<1>6. Agree(s)
  <2>1. ASSUME NEW p \in DOMAIN s.owner
        PROVE  s.owner[p] \in DOMAIN s.moves /\ p \in DOMAIN s.moves[s.owner[p]].from
    <3> DEFINE m == r.owner[p]
    <3>1. p \in DOMAIN r.owner /\ p \notin P /\ s.owner[p] = m
      BY <1>3
    <3>2. m \in DOMAIN r.moves /\ p \in DOMAIN r.moves[m].from
      BY <3>1 DEF Agree
    <3>3. p \notin StolenOf(r, P, m)
      BY <3>1 DEF StolenOf
    <3>4. m \in DOMAIN s.moves
      BY <1>1, <3>2, <3>3 DEF EmptiedBy
    <3>5. p \in DOMAIN s.moves[m].from
      BY <1>2, <3>2, <3>3, <3>4, WithoutParts
    <3>6. QED
      BY <3>1, <3>4, <3>5
  <2>2. ASSUME NEW m \in DOMAIN s.moves PROVE DOMAIN s.moves[m].from # {}
    <3>1. DOMAIN r.moves[m].from # {} /\ m \in DOMAIN r.moves /\ m \notin EmptiedBy(r, P)
      BY <1>2 DEF Agree
    <3>2. PICK p \in DOMAIN r.moves[m].from : p \notin StolenOf(r, P, m)
      BY <3>1 DEF EmptiedBy
    <3>3. QED
      BY <1>2, <3>2, WithoutParts
  <2>3. ASSUME NEW m \in DOMAIN s.moves PROVE DOMAIN s.moves[m].to = DOMAIN s.moves[m].from
    <3>1. DOMAIN r.moves[m].to = DOMAIN r.moves[m].from
      BY <1>2 DEF Agree
    <3>2. s.moves[m].to = Without(r.moves[m].to, StolenOf(r, P, m)) /\ s.moves[m].from = Without(r.moves[m].from, StolenOf(r, P, m))
      BY <1>2
    <3>3. DOMAIN s.moves[m].to = DOMAIN r.moves[m].to \ StolenOf(r, P, m) /\ DOMAIN s.moves[m].from = DOMAIN r.moves[m].from \ StolenOf(r, P, m)
      BY <3>2, WithoutDomain
    <3>4. QED
      BY <3>1, <3>3
  <2>4. ASSUME NEW m \in DOMAIN s.moves, NEW p \in DOMAIN s.moves[m].from
        PROVE  p \in DOMAIN s.owner /\ s.owner[p] = m
    <3>1. m \in DOMAIN r.moves /\ p \in DOMAIN r.moves[m].from /\ p \notin StolenOf(r, P, m)
      BY <1>2, WithoutParts
    <3>2. p \in DOMAIN r.owner /\ r.owner[p] = m
      BY <3>1 DEF Agree
    <3>3. p \notin P
      BY <3>1, <3>2 DEF StolenOf
    <3>4. p \in DOMAIN Without(r.owner, P)
      BY <3>2, <3>3, WithoutParts
    <3>5. QED
      BY <1>1, <3>2, <3>4, WithoutParts
  <2>5. QED
    BY <2>1, <2>2, <2>3, <2>4 DEF Agree
<1>7. Waited(s)
  <2>1. SUFFICES ASSUME NEW m \in DOMAIN s.moves, s.moves[m].seq # 0 PROVE WaitsFor(s, m)
    BY DEF Waited, WaitsFor
  <2> DEFINE q == r.moves[m].seq
  <2>2. m \in DOMAIN r.moves /\ m \notin EmptiedBy(r, P) /\ s.moves[m].seq = q /\ q # 0
    BY <1>2, <2>1
  <2>3. q \in DOMAIN r.playing /\ r.playing[q].phase = "moving" /\ r.playing[q].move = m
    BY <2>2 DEF Waited, WaitsFor
  <2>4. ASSUME NEW n \in EmptiedBy(r, P), r.moves[n].seq = q PROVE FALSE
    <3>1. n \in DOMAIN r.moves
      BY DEF EmptiedBy
    <3>2. r.playing[q].move = n
      BY <2>2, <2>4, <3>1 DEF Waited, WaitsFor
    <3>3. QED
      BY <2>2, <2>3, <3>2
  <2> HIDE DEF q
  <2>5. q \notin SequencesOf(r, EmptiedBy(r, P))
    BY <2>4 DEF SequencesOf
  <2>6. q \in DOMAIN s.playing /\ s.playing[q] = r.playing[q]
    BY <1>1, <2>3, <2>5, WithoutParts
  <2>7. QED
    BY <2>2, <2>3, <2>6 DEF WaitsFor
<1>8. QED
  BY <1>1, <1>5, <1>6, <1>7, LosesKeeps DEF s

\* So does ending moves where they are,
LEMMA CancelKeeps ==
    ASSUME NEW r, NEW M, NEW b, Formed(r), Agree(r), Waited(r), Consistent(r, b)
    PROVE  /\ Loses(r, Cancel(r, M)) /\ Formed(Cancel(r, M)) /\ Agree(Cancel(r, M))
           /\ Waited(Cancel(r, M)) /\ Consistent(Cancel(r, M), b)
<1> DEFINE s == Cancel(r, M)
<1>0. DOMAIN r = RuntimeFields
  BY DEF Formed
<1>1. /\ DOMAIN s = RuntimeFields /\ s.presented = r.presented /\ s.nextMove = r.nextMove
      /\ s.owner = Without(r.owner, OwnedBy(r, M))
      /\ s.moves = Without(r.moves, M)
      /\ s.playing = Without(r.playing, SequencesOf(r, M \cap DOMAIN r.moves))
  BY <1>0, CancelFields
<1> HIDE DEF s
<1>2. \A m : m \in DOMAIN s.moves <=> m \in DOMAIN r.moves /\ m \notin M
  BY <1>1, WithoutParts
<1>3. \A m \in DOMAIN s.moves : s.moves[m] = r.moves[m]
  BY <1>1, WithoutParts
<1>4. \A p : p \in DOMAIN s.owner <=> p \in DOMAIN r.owner /\ r.owner[p] \notin M
  BY <1>1, WithoutParts DEF OwnedBy
<1>5. \A p \in DOMAIN s.owner : s.owner[p] = r.owner[p]
  BY <1>1, WithoutParts
<1>6. \A q \in DOMAIN s.playing : q \in DOMAIN r.playing /\ s.playing[q] = r.playing[q]
  BY <1>1, WithoutParts
<1>7. Loses(r, s)
  BY <1>1, <1>2, <1>3, <1>4, <1>5, <1>6 DEF Loses, Formed
<1>8. Agree(s)
  BY <1>2, <1>3, <1>4, <1>5 DEF Agree
<1>9. Waited(s)
  <2>1. SUFFICES ASSUME NEW m \in DOMAIN s.moves, s.moves[m].seq # 0 PROVE WaitsFor(s, m)
    BY DEF Waited, WaitsFor
  <2> DEFINE q == r.moves[m].seq
  <2>2. m \in DOMAIN r.moves /\ m \notin M /\ s.moves[m].seq = q /\ q # 0
    BY <1>2, <1>3, <2>1
  <2>3. q \in DOMAIN r.playing /\ r.playing[q].phase = "moving" /\ r.playing[q].move = m
    BY <2>2 DEF Waited, WaitsFor
  <2>4. ASSUME NEW n \in M \cap DOMAIN r.moves, r.moves[n].seq = q PROVE FALSE
    <3>1. r.playing[q].move = n
      BY <2>2, <2>4 DEF Waited, WaitsFor
    <3>2. QED
      BY <2>2, <2>3, <3>1
  <2> HIDE DEF q
  <2>5. q \notin SequencesOf(r, M \cap DOMAIN r.moves)
    BY <2>4 DEF SequencesOf
  <2>6. q \in DOMAIN s.playing /\ s.playing[q] = r.playing[q]
    BY <1>1, <2>3, <2>5, WithoutParts
  <2>7. QED
    BY <2>2, <2>3, <2>6 DEF WaitsFor
<1>10. QED
  BY <1>7, <1>8, <1>9, LosesKeeps DEF s

\* What the arrival of moves leaves alone.
CompleteLoses(r, s) ==
    /\ DOMAIN s = RuntimeFields /\ s.presented = r.presented /\ s.nextMove = r.nextMove
    /\ s.states = r.states /\ s.sequences = r.sequences /\ s.playing = r.playing

\* Moves that arrive, or end where they are with their sequence told of it.
LEMMA CompleteKeeps ==
    ASSUME NEW r, NEW M, NEW b, Formed(r), Agree(r), Waited(r), Consistent(r, b)
    PROVE  /\ CompleteLoses(r, Complete(r, M))
           /\ Loses(r, Complete(r, M)) /\ Formed(Complete(r, M)) /\ Agree(Complete(r, M))
           /\ Waited(Complete(r, M)) /\ Consistent(Complete(r, M), b)
<1> DEFINE s == Complete(r, M)
<1>0. DOMAIN r = RuntimeFields
  BY DEF Formed
<1>1. /\ DOMAIN s = RuntimeFields /\ s.presented = r.presented /\ s.nextMove = r.nextMove
      /\ s.states = r.states /\ s.sequences = r.sequences
      /\ s.owner = Without(r.owner, OwnedBy(r, M))
      /\ s.moves = Without(r.moves, M)
      /\ s.playing = r.playing
  BY <1>0 DEF Complete, RuntimeFields, OwnedBy
<1> HIDE DEF s
<1>2. \A m : m \in DOMAIN s.moves <=> m \in DOMAIN r.moves /\ m \notin M
  BY <1>1, WithoutParts
<1>3. \A m \in DOMAIN s.moves : s.moves[m] = r.moves[m]
  BY <1>1, WithoutParts
<1>4. \A p : p \in DOMAIN s.owner <=> p \in DOMAIN r.owner /\ r.owner[p] \notin M
  BY <1>1, WithoutParts DEF OwnedBy
<1>5. \A p \in DOMAIN s.owner : s.owner[p] = r.owner[p]
  BY <1>1, WithoutParts
<1>7. Loses(r, s)
  BY <1>1, <1>2, <1>3, <1>4, <1>5 DEF Loses, Formed
<1>8. Agree(s)
  BY <1>2, <1>3, <1>4, <1>5 DEF Agree
<1>9. Waited(s)
  BY <1>1, <1>2, <1>3 DEF Waited, WaitsFor
<1>10. QED
  BY <1>1, <1>7, <1>8, <1>9, LosesKeeps DEF s, CompleteLoses

\* The parts a move to these targets moves.
PartsOf(targets, b) == DOMAIN targets \cap DOMAIN b

\* start_move, field by field.
LEMMA StartFields ==
    ASSUME NEW r, NEW b, NEW state, NEW seq, NEW targets, NEW frames, NEW s, NEW s1,
           s = StartMove(r, b, state, seq, targets, frames), s1 = Steal(r, PartsOf(targets, b)),
           DOMAIN s1 = RuntimeFields, PartsOf(targets, b) # {}
    PROVE  /\ DOMAIN s = RuntimeFields
           /\ s.states = s1.states /\ s.sequences = s1.sequences
           /\ s.presented = s1.presented /\ s.playing = s1.playing
           /\ s.nextMove = r.nextMove + 1
           /\ DOMAIN s.moves = DOMAIN s1.moves \cup {r.nextMove}
           /\ \A m \in DOMAIN s.moves : m # r.nextMove => s.moves[m] = s1.moves[m]
           /\ DOMAIN s.moves[r.nextMove] = MoveFields
           /\ s.moves[r.nextMove].seq = seq /\ s.moves[r.nextMove].frames = frames
           /\ s.moves[r.nextMove].age = 0
           /\ DOMAIN s.moves[r.nextMove].from = PartsOf(targets, b)
           /\ DOMAIN s.moves[r.nextMove].to = PartsOf(targets, b)
           /\ \A p \in PartsOf(targets, b) : s.moves[r.nextMove].from[p] = SamplePart(r, b, p)
           /\ DOMAIN s.owner = DOMAIN s1.owner \cup PartsOf(targets, b)
           /\ \A p \in DOMAIN s.owner : s.owner[p] = IF p \in PartsOf(targets, b) THEN r.nextMove ELSE s1.owner[p]
<1> DEFINE parts == PartsOf(targets, b)
           id == r.nextMove
           mv == [state |-> state, seq |-> seq, frames |-> frames, age |-> 0,
                  from |-> [p \in parts |-> SamplePart(r, b, p)],
                  to   |-> [p \in parts |-> targets[p]]]
<1>1. s = [s1 EXCEPT
              !.moves = [m \in DOMAIN s1.moves \cup {id} |-> IF m = id THEN mv ELSE s1.moves[m]],
              !.owner = [p \in DOMAIN s1.owner \cup parts |-> IF p \in parts THEN id ELSE s1.owner[p]],
              !.nextMove = id + 1,
              !.dirty = TRUE]
  BY DEF StartMove, PartsOf
<1>2. /\ DOMAIN mv = MoveFields /\ mv.seq = seq /\ mv.frames = frames /\ mv.age = 0
      /\ DOMAIN mv.from = parts /\ DOMAIN mv.to = parts
      /\ \A p \in parts : mv.from[p] = SamplePart(r, b, p)
  BY DEF MoveFields
<1> HIDE DEF mv, parts
<1>3. /\ DOMAIN s = RuntimeFields
      /\ s.states = s1.states /\ s.sequences = s1.sequences
      /\ s.presented = s1.presented /\ s.playing = s1.playing
      /\ s.nextMove = id + 1
      /\ s.moves = [m \in DOMAIN s1.moves \cup {id} |-> IF m = id THEN mv ELSE s1.moves[m]]
      /\ s.owner = [p \in DOMAIN s1.owner \cup parts |-> IF p \in parts THEN id ELSE s1.owner[p]]
  BY <1>1 DEF RuntimeFields
<1>4. s.moves[id] = mv
  BY <1>3
<1>5. QED
  BY <1>2, <1>3, <1>4 DEF parts

\* Each part of a move of s that r has not got sets out from where it is presented.
SetsOut(r, s, b) ==
    \A m \in DOMAIN s.moves : m \notin DOMAIN r.moves =>
        \A p \in DOMAIN s.moves[m].from : p \in DOMAIN b /\ s.moves[m].from[p] = Fallback(r, b, p)

\* The lists of states and sequences are the same.
SameStock(r, s) == s.states = r.states /\ s.sequences = r.sequences

\* Between two ticks, sampling a part gives the place it is presented at.
LEMMA SampleIsFallback ==
    ASSUME NEW r, NEW b, NEW p, Agree(r), Consistent(r, b)
    PROVE  SamplePart(r, b, p) = Fallback(r, b, p)
BY DEF Agree, Consistent, SamplePart, Fallback

\* A move starts and leaves runtime s (a name the provers need not open).
Starts(r, b, state, seq, targets, frames, s) == s = StartMove(r, b, state, seq, targets, frames)

\* The newest move of s is one of the sequence seq, or of none; the others are older
\* and their sequences wait for them.
Newest(r, s, seq) ==
    /\ r.nextMove \in DOMAIN s.moves /\ s.moves[r.nextMove].seq = seq
    /\ \A m \in DOMAIN s.moves : m # r.nextMove =>
          m < r.nextMove /\ m \in DOMAIN r.moves /\ s.moves[m].seq = r.moves[m].seq /\ WaitsFor(s, m)
    /\ \A q \in DOMAIN s.playing : q \in DOMAIN r.playing /\ s.playing[q] = r.playing[q]
    /\ seq \in DOMAIN r.playing /\ (\A m \in DOMAIN r.moves : r.moves[m].seq # seq) => seq \in DOMAIN s.playing

\* A move that starts takes its parts from the others and sets out from the screen;
\* all is in order but that its sequence does not wait for it yet.
LEMMA StartKeeps ==
    ASSUME NEW r, NEW b, NEW state, NEW seq \in Nat, NEW targets, NEW frames \in Nat \ {0}, NEW s,
           Starts(r, b, state, seq, targets, frames, s),
           Formed(r), Agree(r), Waited(r), Consistent(r, b), PartsOf(targets, b) # {}
    PROVE  /\ Formed(s) /\ Agree(s) /\ Consistent(s, b) /\ SetsOut(r, s, b) /\ SameStock(r, s)
           /\ s.presented = r.presented /\ Newest(r, s, seq)
<1> DEFINE parts == PartsOf(targets, b)
           s1 == Steal(r, parts)
           id == r.nextMove
<1>0. DOMAIN r = RuntimeFields
  BY DEF Formed
<1>1. /\ Loses(r, s1) /\ Formed(s1) /\ Agree(s1) /\ Waited(s1) /\ Consistent(s1, b)
      /\ s1.owner = Without(r.owner, parts)
  BY StealKeeps
<1>2. s1.states = r.states /\ s1.sequences = r.sequences /\ s1.presented = r.presented /\ DOMAIN s1 = RuntimeFields
      /\ s1.playing = Without(r.playing, SequencesOf(r, EmptiedBy(r, parts)))
      /\ s1.nextMove = id
  BY <1>0, <1>1, StealFields DEF Formed
<1>3. /\ DOMAIN s = RuntimeFields
      /\ s.states = s1.states /\ s.sequences = s1.sequences
      /\ s.presented = s1.presented /\ s.playing = s1.playing
      /\ s.nextMove = id + 1
      /\ DOMAIN s.moves = DOMAIN s1.moves \cup {id}
      /\ \A m \in DOMAIN s.moves : m # id => s.moves[m] = s1.moves[m]
      /\ DOMAIN s.moves[id] = MoveFields
      /\ s.moves[id].seq = seq /\ s.moves[id].frames = frames /\ s.moves[id].age = 0
      /\ DOMAIN s.moves[id].from = parts
      /\ DOMAIN s.moves[id].to = parts
      /\ \A p \in parts : s.moves[id].from[p] = SamplePart(r, b, p)
      /\ DOMAIN s.owner = DOMAIN s1.owner \cup parts
      /\ \A p \in DOMAIN s.owner : s.owner[p] = IF p \in parts THEN id ELSE s1.owner[p]
  BY <1>2, StartFields DEF Starts
<1>4. id \in Nat /\ \A m \in DOMAIN s1.moves : m \in Nat /\ m < id /\ m \in DOMAIN r.moves /\ s1.moves[m].seq = r.moves[m].seq
  BY <1>1, <1>2 DEF Formed, Loses
<1>5. \A p \in parts : p \in DOMAIN b /\ p \notin DOMAIN s1.owner
  BY <1>1, WithoutParts DEF PartsOf
<1> HIDE DEF s1, parts, id
<1>6. Formed(s)
  <2>1. \A m \in DOMAIN s.moves : m \in Nat /\ m < id + 1
    BY <1>3, <1>4
  <2>2. \A m \in DOMAIN s.moves : /\ DOMAIN s.moves[m] = MoveFields
                                  /\ s.moves[m].seq \in Nat /\ s.moves[m].frames \in Nat \ {0}
                                  /\ s.moves[m].age \in Int
    BY <1>1, <1>3 DEF Formed
  <2>3. \A q \in DOMAIN s.playing : q \in Nat \ {0} /\ DOMAIN s.playing[q] = PlayFields
    BY <1>1, <1>3 DEF Formed
  <2>4. QED
    BY <1>3, <1>4, <2>1, <2>2, <2>3 DEF Formed
<1>7. Agree(s)
  <2>1. ASSUME NEW p \in DOMAIN s.owner
        PROVE  s.owner[p] \in DOMAIN s.moves /\ p \in DOMAIN s.moves[s.owner[p]].from
    <3>1. CASE p \in parts
      BY <1>3, <3>1
    <3>2. CASE p \notin parts
      <4>1. p \in DOMAIN s1.owner /\ s.owner[p] = s1.owner[p]
        BY <1>3, <3>2
      <4>2. s1.owner[p] \in DOMAIN s1.moves /\ p \in DOMAIN s1.moves[s1.owner[p]].from
        BY <1>1, <4>1 DEF Agree
      <4>3. s1.owner[p] # id
        BY <1>4, <4>2
      <4>4. QED
        BY <1>3, <4>1, <4>2, <4>3
    <3>3. QED
      BY <3>1, <3>2
  <2>2. ASSUME NEW m \in DOMAIN s.moves
        PROVE  /\ DOMAIN s.moves[m].from # {}
               /\ DOMAIN s.moves[m].to = DOMAIN s.moves[m].from
               /\ \A p \in DOMAIN s.moves[m].from : p \in DOMAIN s.owner /\ s.owner[p] = m
    <3>1. CASE m = id
      BY <1>3, <3>1 DEF parts
    <3>2. CASE m # id
      <4>1. m \in DOMAIN s1.moves /\ s.moves[m] = s1.moves[m]
        BY <1>3, <3>2
      <4>2. QED
        BY <1>1, <1>3, <1>5, <4>1 DEF Agree
    <3>3. QED
      BY <3>1, <3>2
  <2>3. QED
    BY <2>1, <2>2 DEF Agree
<1>8. \A p : SamplePart(r, b, p) = Fallback(r, b, p) /\ Fallback(s, b, p) = Fallback(r, b, p) /\ Fallback(s1, b, p) = Fallback(r, b, p)
  BY <1>2, <1>3, SampleIsFallback DEF Fallback
<1>9. Consistent(s, b)
  <2>1. ASSUME NEW p \in DOMAIN s.owner
        PROVE  p \in DOMAIN b /\ Blend(s.moves[s.owner[p]], p) = Fallback(s, b, p)
    <3>1. CASE p \in parts
      <4>1. s.owner[p] = id /\ p \in DOMAIN b /\ s.moves[id].from[p] = Fallback(s, b, p)
        BY <1>3, <1>5, <1>8, <3>1
      <4>2. ~Finished(s.moves[id]) /\ s.moves[id].age <= 0
        BY <1>3 DEF Finished
      <4>3. QED
        BY <4>1, <4>2 DEF Blend
    <3>2. CASE p \notin parts
      <4>1. p \in DOMAIN s1.owner /\ s.owner[p] = s1.owner[p]
        BY <1>3, <3>2
      <4>2. s1.owner[p] \in DOMAIN s1.moves
        BY <1>1, <4>1 DEF Agree
      <4>3. s.moves[s1.owner[p]] = s1.moves[s1.owner[p]]
        BY <1>3, <1>4, <4>2
      <4>4. QED
        BY <1>1, <1>8, <4>1, <4>3 DEF Consistent
    <3>3. QED
      BY <3>1, <3>2
  <2>2. QED
    BY <2>1 DEF Consistent
<1>10. SetsOut(r, s, b)
  <2>1. ASSUME NEW m \in DOMAIN s.moves, m \notin DOMAIN r.moves PROVE m = id
    BY <1>3, <1>4, <2>1
  <2>2. QED
    BY <1>3, <1>5, <1>8, <2>1 DEF SetsOut
<1>11. ASSUME NEW m \in DOMAIN s.moves, m # id
       PROVE  m < id /\ m \in DOMAIN r.moves /\ s.moves[m].seq = r.moves[m].seq /\ WaitsFor(s, m)
  <2>1. m \in DOMAIN s1.moves /\ s.moves[m] = s1.moves[m]
    BY <1>3, <1>11
  <2>2. WaitsFor(s1, m)
    BY <1>1, <2>1 DEF Waited
  <2>3. WaitsFor(s, m)
    BY <1>3, <2>1, <2>2 DEF WaitsFor
  <2>4. QED
    BY <1>4, <2>1, <2>3
<1>12. \A q \in DOMAIN s.playing : q \in DOMAIN r.playing /\ s.playing[q] = r.playing[q]
  BY <1>2, <1>3, WithoutParts
<1>13. ASSUME seq \in DOMAIN r.playing, \A m \in DOMAIN r.moves : r.moves[m].seq # seq
       PROVE  seq \in DOMAIN s.playing
  <2>1. seq \notin SequencesOf(r, EmptiedBy(r, parts))
    BY <1>13 DEF SequencesOf, EmptiedBy
  <2>2. QED
    BY <1>2, <1>3, <1>13, <2>1, WithoutParts
<1>14. QED
  BY <1>2, <1>3, <1>6, <1>7, <1>9, <1>10, <1>11, <1>12, <1>13 DEF SameStock, Newest, id

\* Sequence q has no move.
NoMoveOf(r, q) == \A m \in DOMAIN r.moves : r.moves[m].seq # q

\* A sequence that has no move begins to play.
LEMMA PlayingKeeps ==
    ASSUME NEW r, NEW b, NEW q \in Nat \ {0}, NEW play, NEW s,
           s = Playing(r, q, play), DOMAIN play = PlayFields,
           Formed(r), Agree(r), Waited(r), Consistent(r, b), NoMoveOf(r, q)
    PROVE  /\ Formed(s) /\ Agree(s) /\ Waited(s) /\ Consistent(s, b) /\ NoMoveOf(s, q)
           /\ SameStock(r, s)
           /\ s.moves = r.moves /\ s.presented = r.presented /\ s.nextMove = r.nextMove
           /\ DOMAIN s.playing = DOMAIN r.playing \cup {q} /\ s.playing[q] = play
           /\ \A x \in DOMAIN r.playing : x # q => s.playing[x] = r.playing[x]
<1>1. /\ DOMAIN s = RuntimeFields /\ s.moves = r.moves /\ s.owner = r.owner
      /\ s.presented = r.presented /\ s.nextMove = r.nextMove
      /\ s.states = r.states /\ s.sequences = r.sequences
      /\ s.playing = Over([x \in {q} |-> play], r.playing)
  BY DEF Playing, RuntimeFields, Formed
<1>2. /\ DOMAIN s.playing = DOMAIN r.playing \cup {q} /\ s.playing[q] = play
      /\ \A x \in DOMAIN r.playing : x # q => s.playing[x] = r.playing[x]
  BY <1>1 DEF Over
<1>3. Formed(s)
  BY <1>1, <1>2 DEF Formed
<1>4. Agree(s) /\ NoMoveOf(s, q)
  BY <1>1 DEF Agree, NoMoveOf
<1>5. Waited(s)
  BY <1>1, <1>2 DEF Waited, WaitsFor, NoMoveOf
<1>6. Consistent(s, b)
  BY <1>1 DEF Consistent, Fallback
<1>7. QED
  BY <1>1, <1>2, <1>3, <1>4, <1>5, <1>6 DEF SameStock

\* What a step of a scene's runtime leaves as it should be.
Led(r, s, b) ==
    /\ Formed(s) /\ Agree(s) /\ Waited(s) /\ Consistent(s, b)
    /\ SetsOut(r, s, b) /\ SameStock(r, s) /\ s.presented = r.presented

\* begin_step: the newest move is the one just started, so the sequence waits for it.
LEMMA BeginKeeps ==
    ASSUME NEW r, NEW b, NEW q \in DOMAIN r.playing,
           Formed(r), Stocked(r), Agree(r), Waited(r), Consistent(r, b), NoMoveOf(r, q)
    PROVE  Led(r, BeginStep(r, b, q), b)
<1> DEFINE play == r.playing[q]
           known == /\ q \in DOMAIN r.sequences
                    /\ play.index \in DOMAIN r.sequences[q]
                    /\ r.sequences[q][play.index].state \in {0} \cup DOMAIN r.states
           z == BeginStep(r, b, q)
<1>0. q \in Nat \ {0} /\ DOMAIN play = PlayFields /\ DOMAIN r = RuntimeFields
  BY DEF Formed
<1>1. CASE ~known
  <2>1. z = [r EXCEPT !.playing = Without(r.playing, {q})]
    BY <1>1 DEF BeginStep
  <2> HIDE DEF z
  <2>2. /\ DOMAIN z = RuntimeFields /\ z.moves = r.moves /\ z.owner = r.owner
        /\ z.presented = r.presented /\ z.nextMove = r.nextMove
        /\ z.states = r.states /\ z.sequences = r.sequences /\ z.playing = Without(r.playing, {q})
    BY <1>0, <2>1 DEF RuntimeFields
  <2>3. \A x : x \in DOMAIN z.playing <=> x \in DOMAIN r.playing /\ x # q
    BY <2>2, WithoutParts
  <2>4. \A x \in DOMAIN z.playing : z.playing[x] = r.playing[x]
    BY <2>2, WithoutParts
  <2>5. Formed(z)
    BY <2>2, <2>3, <2>4 DEF Formed
  <2>6. Agree(z) /\ Consistent(z, b)
    BY <2>2 DEF Agree, Consistent, Fallback
  <2>7. Waited(z)
    <3>1. ASSUME NEW m \in DOMAIN z.moves PROVE WaitsFor(z, m)
      <4>1. WaitsFor(r, m) /\ r.moves[m].seq # q /\ z.moves[m].seq = r.moves[m].seq
        BY <2>2 DEF Waited, NoMoveOf
      <4>2. QED
        BY <2>3, <2>4, <4>1 DEF WaitsFor
    <3>2. QED
      BY <3>1 DEF Waited
  <2>8. QED
    BY <2>2, <2>5, <2>6, <2>7 DEF Led, SetsOut, SameStock, z
<1>2. CASE known
  <2> DEFINE step == r.sequences[q][play.index]
             frames == IF step.frames = 0 THEN EnterFrames(r, step.state) ELSE step.frames
             goes == [play EXCEPT !.phase = "moving", !.move = 0]
             r0 == Playing(r, q, goes)
             targets == Targets(r, b, step.state)
             s == StartMove(r0, b, step.state, q, targets, frames)
             last == CHOOSE m \in DOMAIN s.moves : \A n \in DOMAIN s.moves : n <= m
  <2>1. frames \in Nat \ {0}
    <3>1. step.frames \in Nat
      BY <1>2 DEF Stocked
    <3>2. EnterFrames(r, step.state) \in Nat \ {0}
      BY <1>2, BoundAssumption DEF Stocked, EnterFrames
    <3>3. QED
      BY <3>1, <3>2
  <2>2. z = IF s.moves # NoMap /\ s.moves[last].seq = q /\ q \in DOMAIN s.playing
            THEN [s EXCEPT !.playing[q].move = last] ELSE s
    <3>1. z = IF ~known THEN [r EXCEPT !.playing = Without(@, {q})]
              ELSE IF /\ s.moves # NoMap
                      /\ s.moves[last].seq = q
                      /\ q \in DOMAIN s.playing
              THEN [s EXCEPT !.playing[q].move = last]
              ELSE s
      BY Zenon DEF BeginStep
    <3> HIDE DEF z, s, last
    <3>2. QED
      BY <1>2, <3>1
  <2>3. DOMAIN goes = PlayFields /\ goes.phase = "moving"
    BY <1>0 DEF PlayFields
  <2> HIDE DEF goes
  <2>4. /\ Formed(r0) /\ Agree(r0) /\ Waited(r0) /\ Consistent(r0, b) /\ NoMoveOf(r0, q)
        /\ SameStock(r, r0)
        /\ r0.moves = r.moves /\ r0.presented = r.presented /\ r0.nextMove = r.nextMove
        /\ DOMAIN r0.playing = DOMAIN r.playing \cup {q} /\ r0.playing[q] = goes
    BY <1>0, <2>3, PlayingKeeps
  <2>5. \A p : Fallback(r0, b, p) = Fallback(r, b, p)
    BY <2>4 DEF Fallback
  <2>6. CASE PartsOf(targets, b) = {}
    <3>1. s = r0
      BY <2>6 DEF StartMove, PartsOf
    <3> HIDE DEF r0, s, last, z
    <3>2. CASE z = s
      <4>1. SetsOut(r, r0, b)
        BY <2>4 DEF SetsOut
      <4>2. QED
        BY <2>4, <3>1, <3>2, <4>1 DEF Led, z
    <3>3. CASE z # s
      <4>1. z = [r0 EXCEPT !.playing[q].move = last]
        BY <2>2, <3>1, <3>3
      <4>2. DOMAIN r0 = RuntimeFields
        BY <2>4 DEF Formed
      <4>3. /\ DOMAIN z = RuntimeFields /\ z.moves = r0.moves /\ z.owner = r0.owner
            /\ z.presented = r0.presented
            /\ z.nextMove = r0.nextMove /\ z.states = r0.states /\ z.sequences = r0.sequences
            /\ z.playing = [r0.playing EXCEPT ![q].move = last]
        BY <4>1, <4>2 DEF RuntimeFields
      <4>4. Formed(z)
        BY <2>4, <4>3 DEF Formed
      <4>5. Agree(z) /\ Consistent(z, b)
        BY <2>4, <4>3 DEF Agree, Consistent, Fallback
      <4>6. Waited(z)
        BY <2>4, <4>3 DEF Waited, WaitsFor, NoMoveOf
      <4>7. QED
        BY <2>4, <4>3, <4>4, <4>5, <4>6 DEF Led, SetsOut, SameStock, z
    <3>4. QED
      BY <3>2, <3>3
  <2>7. CASE PartsOf(targets, b) # {}
    <3> DEFINE id == r0.nextMove
    <3>0. s = StartMove(r0, b, step.state, q, targets, frames)
      OBVIOUS
    <3>a. q \in Nat
      BY <1>0
    <3> DEFINE state == step.state
    <3> HIDE DEF frames, targets, r0, s, state
    <3>b. Starts(r0, b, state, q, targets, frames, s)
      BY <3>0 DEF state, Starts
    <3>c. /\ Formed(s) /\ Agree(s) /\ Consistent(s, b) /\ SetsOut(r0, s, b) /\ SameStock(r0, s)
          /\ s.presented = r0.presented /\ Newest(r0, s, q)
      BY <2>1, <2>4, <2>7, <3>a, <3>b, StartKeeps
    <3>1. /\ Formed(s) /\ Agree(s) /\ Consistent(s, b) /\ SetsOut(r0, s, b) /\ SameStock(r0, s)
          /\ s.presented = r0.presented
          /\ id \in DOMAIN s.moves /\ s.moves[id].seq = q
          /\ \A m \in DOMAIN s.moves : m # id => m < id /\ m \in DOMAIN r0.moves /\ s.moves[m].seq = r0.moves[m].seq /\ WaitsFor(s, m)
          /\ \A x \in DOMAIN s.playing : x \in DOMAIN r0.playing /\ s.playing[x] = r0.playing[x]
          /\ q \in DOMAIN r0.playing /\ (\A m \in DOMAIN r0.moves : r0.moves[m].seq # q) => q \in DOMAIN s.playing
      BY <3>c DEF Newest
    <3> HIDE DEF z
    <3>2. q \in DOMAIN s.playing /\ s.playing[q] = goes
      BY <2>4, <3>1 DEF NoMoveOf
    <3>3. last = id
      <4>1. id \in Nat /\ \A m \in DOMAIN s.moves : m \in Nat /\ m <= id
        BY <2>4, <3>1 DEF Formed
      <4>2. \A m \in DOMAIN s.moves : (\A n \in DOMAIN s.moves : n <= m) => m = id
        BY <3>1, <4>1
      <4> HIDE DEF id
      <4>3. QED
        BY <3>1, <4>1, <4>2
    <3> HIDE DEF last, id
    <3>4. s.moves # NoMap
      BY <3>1 DEF NoMap
    <3>5. z = [s EXCEPT !.playing[q].move = id]
      BY <2>2, <3>1, <3>2, <3>3, <3>4
    <3>6. DOMAIN s = RuntimeFields
      BY <3>1 DEF Formed
    <3>7. /\ DOMAIN z = RuntimeFields /\ z.moves = s.moves /\ z.owner = s.owner
          /\ z.presented = s.presented
          /\ z.nextMove = s.nextMove /\ z.states = s.states /\ z.sequences = s.sequences
          /\ z.playing = [s.playing EXCEPT ![q].move = id]
      BY <3>5, <3>6 DEF RuntimeFields
    <3>8. Formed(z)
      BY <3>1, <3>7 DEF Formed
    <3>9. Agree(z) /\ Consistent(z, b)
      BY <3>1, <3>7 DEF Agree, Consistent, Fallback
    <3>10. Waited(z)
      <4>1. z.playing[q].phase = "moving" /\ z.playing[q].move = id
        BY <1>0, <2>3, <3>2, <3>7 DEF PlayFields
      <4>2. ASSUME NEW m \in DOMAIN z.moves PROVE WaitsFor(z, m)
        <5>1. CASE m = id
          BY <3>1, <3>2, <3>7, <4>1, <5>1 DEF WaitsFor
        <5>2. CASE m # id
          <6>1. WaitsFor(s, m) /\ s.moves[m].seq # q
            BY <2>4, <3>1, <3>7, <5>2 DEF NoMoveOf
          <6>2. QED
            BY <3>7, <6>1 DEF WaitsFor
        <5>3. QED
          BY <5>1, <5>2
      <4>3. QED
        BY <4>2 DEF Waited
    <3>11. SetsOut(r, z, b)
      BY <2>4, <2>5, <3>1, <3>7 DEF SetsOut
    <3>12. QED
      BY <2>4, <3>1, <3>7, <3>8, <3>9, <3>10, <3>11 DEF Led, SameStock, z
  <2>8. QED
    BY <2>6, <2>7
<1>3. QED
  BY <1>1, <1>2

\* The moves that the playing sequences of Q wait for.
StopsOf(r, Q) ==
      {r.playing[q].move : q \in {p \in Q \cap DOMAIN r.playing : r.playing[p].phase = "moving"}}

\* stop_sequence, field by field.
LEMMA StopFields ==
    ASSUME NEW r, NEW Q, DOMAIN r = RuntimeFields, Q \cap DOMAIN r.playing # {}
    PROVE  /\ DOMAIN StopSequences(r, Q) = RuntimeFields
           /\ StopSequences(r, Q).states = r.states /\ StopSequences(r, Q).sequences = r.sequences
           /\ StopSequences(r, Q).presented = r.presented
           /\ StopSequences(r, Q).nextMove = r.nextMove
           /\ StopSequences(r, Q).moves = Without(r.moves, StopsOf(r, Q))
           /\ StopSequences(r, Q).owner = Without(r.owner, OwnedBy(r, StopsOf(r, Q)))
           /\ StopSequences(r, Q).playing =
                 Without(Without(r.playing, Q \cap DOMAIN r.playing), SequencesOf(r, StopsOf(r, Q) \cap DOMAIN r.moves))
<1> DEFINE stopped == Q \cap DOMAIN r.playing
           M == StopsOf(r, Q)
           x == [r EXCEPT !.playing = Without(r.playing, stopped)]
           y == Cancel(x, M)
           z == StopSequences(r, Q)
<1>1. z = [y EXCEPT !.dirty = TRUE]
  BY DEF StopSequences, StopsOf
<1>2. /\ DOMAIN x = RuntimeFields /\ x.states = r.states /\ x.sequences = r.sequences
      /\ x.presented = r.presented
      /\ x.nextMove = r.nextMove /\ x.moves = r.moves /\ x.owner = r.owner
      /\ x.playing = Without(r.playing, stopped)
  BY DEF RuntimeFields
<1> HIDE DEF x, M, stopped
<1>3. /\ DOMAIN y = RuntimeFields
      /\ y.states = x.states /\ y.sequences = x.sequences
      /\ y.presented = x.presented /\ y.nextMove = x.nextMove
      /\ y.moves = Without(x.moves, M)
      /\ y.owner = Without(x.owner, OwnedBy(x, M))
      /\ y.playing = Without(x.playing, SequencesOf(x, M \cap DOMAIN x.moves))
  BY <1>2, CancelFields
<1>4. OwnedBy(x, M) = OwnedBy(r, M)
  BY <1>2 DEF OwnedBy
<1>5. SequencesOf(x, M \cap DOMAIN x.moves) = SequencesOf(r, M \cap DOMAIN r.moves)
  BY <1>2 DEF SequencesOf
<1> HIDE DEF y, z
<1>6. /\ DOMAIN z = RuntimeFields
      /\ z.states = y.states /\ z.sequences = y.sequences
      /\ z.presented = y.presented /\ z.nextMove = y.nextMove
      /\ z.moves = y.moves /\ z.owner = y.owner /\ z.playing = y.playing
  BY <1>1, <1>3 DEF RuntimeFields
<1>7. QED
  BY <1>2, <1>3, <1>4, <1>5, <1>6 DEF z, M, stopped

\* Sequences that stop take their moves along.
LEMMA StopKeeps ==
    ASSUME NEW r, NEW b, NEW Q, Formed(r), Agree(r), Waited(r), Consistent(r, b)
    PROVE  /\ Led(r, StopSequences(r, Q), b) /\ Loses(r, StopSequences(r, Q))
           /\ \A q \in Q : q # 0 => NoMoveOf(StopSequences(r, Q), q)
<1> DEFINE M == StopsOf(r, Q)
           s == StopSequences(r, Q)
<1>0. DOMAIN r = RuntimeFields
  BY DEF Formed
<1>1. CASE Q \cap DOMAIN r.playing = {}
  <2>1. s = r
    BY <1>1 DEF StopSequences
  <2>2. \A q \in Q : q # 0 => NoMoveOf(r, q)
    BY <1>1 DEF NoMoveOf, Waited, WaitsFor
  <2>3. Loses(r, r) /\ SetsOut(r, r, b) /\ SameStock(r, r)
    BY <1>0 DEF Loses, SetsOut, SameStock, Formed
  <2>4. QED
    BY <2>1, <2>2, <2>3 DEF Led
<1>2. CASE Q \cap DOMAIN r.playing # {}
  <2>1. /\ DOMAIN s = RuntimeFields
        /\ s.states = r.states /\ s.sequences = r.sequences
        /\ s.presented = r.presented /\ s.nextMove = r.nextMove
        /\ s.moves = Without(r.moves, M)
        /\ s.owner = Without(r.owner, OwnedBy(r, M))
        /\ s.playing =
              Without(Without(r.playing, Q \cap DOMAIN r.playing), SequencesOf(r, M \cap DOMAIN r.moves))
    BY <1>0, <1>2, StopFields
  <2>2. \A q \in Q \cap DOMAIN r.playing : r.playing[q].phase = "moving" => r.playing[q].move \in M
    BY DEF StopsOf
  <2> HIDE DEF s, M
  <2>3. \A m : m \in DOMAIN s.moves <=> m \in DOMAIN r.moves /\ m \notin M
    BY <2>1, WithoutParts
  <2>4. \A m \in DOMAIN s.moves : s.moves[m] = r.moves[m]
    BY <2>1, WithoutParts
  <2>5. \A p : p \in DOMAIN s.owner <=> p \in DOMAIN r.owner /\ r.owner[p] \notin M
    BY <2>1, WithoutParts DEF OwnedBy
  <2>6. \A p \in DOMAIN s.owner : s.owner[p] = r.owner[p]
    BY <2>1, WithoutParts
  <2>7. \A q : q \in DOMAIN s.playing <=> q \in DOMAIN r.playing /\ q \notin Q /\ q \notin SequencesOf(r, M \cap DOMAIN r.moves)
    BY <2>1, WithoutParts
  <2>8. \A q \in DOMAIN s.playing : s.playing[q] = r.playing[q]
    BY <2>1, WithoutParts
  <2>9. Loses(r, s)
    BY <2>1, <2>3, <2>4, <2>5, <2>6, <2>7, <2>8 DEF Loses, Formed
  <2>10. Agree(s)
    BY <2>3, <2>4, <2>5, <2>6 DEF Agree
  <2>11. ASSUME NEW m \in DOMAIN s.moves, s.moves[m].seq # 0
         PROVE  WaitsFor(s, m) /\ s.moves[m].seq \notin Q
    <3> DEFINE q == r.moves[m].seq
    <3>1. m \in DOMAIN r.moves /\ m \notin M /\ s.moves[m].seq = q /\ q # 0
      BY <2>3, <2>4, <2>11
    <3>2. q \in DOMAIN r.playing /\ r.playing[q].phase = "moving" /\ r.playing[q].move = m
      BY <3>1 DEF Waited, WaitsFor
    <3>3. q \notin Q
      BY <2>2, <3>1, <3>2
    <3>4. ASSUME NEW n \in M \cap DOMAIN r.moves, r.moves[n].seq = q PROVE FALSE
      <4>1. r.playing[q].move = n
        BY <3>1, <3>4 DEF Waited, WaitsFor
      <4>2. QED
        BY <3>1, <3>2, <4>1
    <3> HIDE DEF q
    <3>5. q \notin SequencesOf(r, M \cap DOMAIN r.moves)
      BY <3>4 DEF SequencesOf
    <3>6. QED
      BY <2>7, <2>8, <3>1, <3>2, <3>3, <3>5 DEF WaitsFor
  <2>12. Waited(s)
    BY <2>11 DEF Waited, WaitsFor
  <2>13. \A q \in Q : q # 0 => NoMoveOf(s, q)
    BY <2>11 DEF NoMoveOf
  <2>14. SetsOut(r, s, b)
    BY <2>3 DEF SetsOut
  <2>15. QED
    BY <2>1, <2>9, <2>10, <2>12, <2>13, <2>14, LosesKeeps DEF Led, SameStock, s
<1>3. QED
  BY <1>1, <1>2

\* A change of what a sequence that has no move is doing.
LEMMA PlayChanges ==
    ASSUME NEW r, NEW b, NEW q \in DOMAIN r.playing, NEW play, DOMAIN play = PlayFields,
           Formed(r), Agree(r), Waited(r), Consistent(r, b), NoMoveOf(r, q)
    PROVE  Led(r, [r EXCEPT !.playing[q] = play], b) /\ NoMoveOf([r EXCEPT !.playing[q] = play], q)
           /\ [r EXCEPT !.playing[q] = play].moves = r.moves
           /\ DOMAIN [r EXCEPT !.playing[q] = play].playing = DOMAIN r.playing
<1> DEFINE s == [r EXCEPT !.playing[q] = play]
<1>1. /\ DOMAIN s = RuntimeFields /\ s.moves = r.moves /\ s.owner = r.owner
      /\ s.presented = r.presented /\ s.nextMove = r.nextMove
      /\ s.states = r.states /\ s.sequences = r.sequences
      /\ s.playing = [r.playing EXCEPT ![q] = play]
  BY DEF RuntimeFields, Formed
<1> HIDE DEF s
<1>2. /\ DOMAIN s.playing = DOMAIN r.playing /\ s.playing[q] = play
      /\ \A x \in DOMAIN r.playing : x # q => s.playing[x] = r.playing[x]
  BY <1>1
<1>3. Formed(s)
  BY <1>1, <1>2 DEF Formed
<1>4. Agree(s) /\ NoMoveOf(s, q)
  BY <1>1 DEF Agree, NoMoveOf
<1>5. Waited(s)
  BY <1>1, <1>2 DEF Waited, WaitsFor, NoMoveOf
<1>6. Consistent(s, b) /\ SetsOut(r, s, b)
  BY <1>1 DEF Consistent, Fallback, SetsOut
<1>7. QED
  BY <1>1, <1>2, <1>3, <1>4, <1>5, <1>6 DEF SameStock, Led, s

\* A sequence that has no move is over.
LEMMA PlayEnds ==
    ASSUME NEW r, NEW b, NEW q, Formed(r), Agree(r), Waited(r), Consistent(r, b), NoMoveOf(r, q)
    PROVE  Led(r, [r EXCEPT !.playing = Without(r.playing, {q})], b)
<1> DEFINE z == [r EXCEPT !.playing = Without(r.playing, {q})]
<1>0. DOMAIN r = RuntimeFields
  BY DEF Formed
<1>2. /\ DOMAIN z = RuntimeFields /\ z.moves = r.moves /\ z.owner = r.owner
      /\ z.presented = r.presented /\ z.nextMove = r.nextMove
      /\ z.states = r.states /\ z.sequences = r.sequences /\ z.playing = Without(r.playing, {q})
  BY <1>0 DEF RuntimeFields
<1> HIDE DEF z
<1>3. \A x : x \in DOMAIN z.playing <=> x \in DOMAIN r.playing /\ x # q
  BY <1>2, WithoutParts
<1>4. \A x \in DOMAIN z.playing : z.playing[x] = r.playing[x]
  BY <1>2, WithoutParts
<1>5. Formed(z)
  BY <1>2, <1>3, <1>4 DEF Formed
<1>6. Agree(z) /\ Consistent(z, b)
  BY <1>2 DEF Agree, Consistent, Fallback
<1>7. ASSUME NEW m \in DOMAIN z.moves PROVE WaitsFor(z, m)
  <2>1. WaitsFor(r, m) /\ r.moves[m].seq # q /\ z.moves[m].seq = r.moves[m].seq
    BY <1>2 DEF Waited, NoMoveOf
  <2>2. QED
    BY <1>3, <1>4, <2>1 DEF WaitsFor
<1>8. QED
  BY <1>2, <1>5, <1>6, <1>7 DEF Led, SetsOut, SameStock, Waited, z

\* Steps follow one another.
LEMMA LedOn ==
    ASSUME NEW r, NEW s, NEW t, NEW b,
           Led(r, s, b), Led(s, t, b), \A m \in DOMAIN s.moves : m \in DOMAIN r.moves
    PROVE  Led(r, t, b)
BY DEF Led, SetsOut, SameStock, Fallback

\* One turn of the loop of advance().
LEMMA AdvanceKeeps ==
    ASSUME NEW r, NEW b, NEW q, Formed(r), Stocked(r), Agree(r), Waited(r), Consistent(r, b)
    PROVE  Led(r, AdvanceOne(r, b, q), b)
<1> DEFINE play == r.playing[q]
           hold == IF q \in DOMAIN r.sequences /\ play.index \in DOMAIN r.sequences[q]
                   THEN r.sequences[q][play.index].hold ELSE 0
           next == play.index + play.dir
           busy == \/ play.phase = "moving" /\ play.move \in DOMAIN r.moves
                   \/ play.phase = "holding" /\ play.left > 0
           s == AdvanceOne(r, b, q)
           held == [play EXCEPT !.phase = "holding", !.left = hold]
           moved == [play EXCEPT !.index = next]
<1>1. s = IF q \notin DOMAIN r.playing \/ busy THEN r
          ELSE IF play.phase = "moving" /\ hold > 0
          THEN [r EXCEPT !.playing[q] = held]
          ELSE IF q \in DOMAIN r.sequences /\ next \in DOMAIN r.sequences[q]
          THEN BeginStep([r EXCEPT !.playing[q] = moved], b, q)
          ELSE [r EXCEPT !.playing = Without(r.playing, {q})]
  BY DEF AdvanceOne
<1>2. CASE q \notin DOMAIN r.playing \/ busy
  <2>1. Led(r, r, b)
    BY DEF Led, SetsOut, SameStock
  <2>2. s = r
    BY <1>1, <1>2
  <2>3. QED
    BY <2>1, <2>2
<1>3. CASE q \in DOMAIN r.playing /\ ~busy
  <2>1. NoMoveOf(r, q)
    BY <1>3 DEF NoMoveOf, Waited, WaitsFor, Formed
  <2>2. DOMAIN play = PlayFields
    BY <1>3 DEF Formed
  <2>3. DOMAIN held = PlayFields /\ DOMAIN moved = PlayFields
    BY <2>2 DEF PlayFields
  <2> HIDE DEF held, moved, hold, next
  <2>4. CASE play.phase = "moving" /\ hold > 0
    <3>1. s = [r EXCEPT !.playing[q] = held]
      BY <1>1, <1>3, <2>4
    <3>2. QED
      BY <1>3, <2>1, <2>3, <3>1, PlayChanges
  <2>5. CASE ~(play.phase = "moving" /\ hold > 0) /\ q \in DOMAIN r.sequences /\ next \in DOMAIN r.sequences[q]
    <3> DEFINE t == [r EXCEPT !.playing[q] = moved]
    <3>1. s = BeginStep(t, b, q)
      BY <1>1, <1>3, <2>5
    <3>2. Led(r, t, b) /\ NoMoveOf(t, q) /\ t.moves = r.moves /\ DOMAIN t.playing = DOMAIN r.playing
      BY <1>3, <2>1, <2>3, PlayChanges
    <3> HIDE DEF t
    <3>3. Stocked(t)
      BY <3>2 DEF Led, SameStock, Stocked
    <3>4. Led(t, BeginStep(t, b, q), b)
      BY <1>3, <3>2, <3>3, BeginKeeps DEF Led
    <3>5. \A m \in DOMAIN t.moves : m \in DOMAIN r.moves
      BY <3>2
    <3>6. Led(r, BeginStep(t, b, q), b)
      BY <3>2, <3>4, <3>5, LedOn, Zenon
    <3>7. QED
      BY <3>1, <3>6
  <2>6. CASE ~(play.phase = "moving" /\ hold > 0) /\ ~(q \in DOMAIN r.sequences /\ next \in DOMAIN r.sequences[q])
    <3>1. s = [r EXCEPT !.playing = Without(r.playing, {q})]
      BY <1>1, <1>3, <2>6
    <3>2. Led(r, [r EXCEPT !.playing = Without(r.playing, {q})], b)
      BY <2>1, PlayEnds, Zenon
    <3>3. QED
      BY <3>1, <3>2
  <2>7. QED
    BY <2>4, <2>5, <2>6
<1>4. QED
  BY <1>2, <1>3

-----------------------------------------------------------------------------

\* The passing of d frames, field by field.
LEMMA AgedFields ==
    ASSUME NEW r, NEW d \in Int, NEW z, z = Aged(r, d), Formed(r)
    PROVE  /\ DOMAIN z = RuntimeFields /\ z.nextMove = r.nextMove /\ z.owner = r.owner
           /\ z.presented = r.presented
           /\ SameStock(r, z)
           /\ DOMAIN z.moves = DOMAIN r.moves
           /\ \A m \in DOMAIN r.moves :
                 /\ DOMAIN z.moves[m] = MoveFields /\ z.moves[m].seq = r.moves[m].seq
                 /\ z.moves[m].frames = r.moves[m].frames /\ z.moves[m].age = r.moves[m].age + d
                 /\ z.moves[m].from = r.moves[m].from /\ z.moves[m].to = r.moves[m].to
           /\ DOMAIN z.playing = DOMAIN r.playing
           /\ \A q \in DOMAIN r.playing :
                 /\ DOMAIN z.playing[q] = PlayFields
                 /\ z.playing[q].phase = r.playing[q].phase /\ z.playing[q].move = r.playing[q].move
<1> DEFINE Older(m) == [r.moves[m] EXCEPT !.age = r.moves[m].age + d]
           Held(q)  == IF r.playing[q].phase = "holding" THEN [r.playing[q] EXCEPT !.left = r.playing[q].left - d] ELSE r.playing[q]
<1>1. z =
      [r EXCEPT !.moves = [m \in DOMAIN r.moves |-> Older(m)], !.playing = [q \in DOMAIN r.playing |-> Held(q)]]
  BY DEF Aged
<1>2. ASSUME NEW m \in DOMAIN r.moves
      PROVE  /\ DOMAIN Older(m) = MoveFields /\ Older(m).seq = r.moves[m].seq
             /\ Older(m).frames = r.moves[m].frames /\ Older(m).age = r.moves[m].age + d
             /\ Older(m).from = r.moves[m].from /\ Older(m).to = r.moves[m].to
  <2>1. DOMAIN r.moves[m] = MoveFields
    BY DEF Formed
  <2>2. QED
    BY <2>1 DEF MoveFields
<1>3. ASSUME NEW q \in DOMAIN r.playing
      PROVE  DOMAIN Held(q) = PlayFields /\ Held(q).phase = r.playing[q].phase /\ Held(q).move = r.playing[q].move
  <2>1. DOMAIN r.playing[q] = PlayFields
    BY DEF Formed
  <2>2. QED
    BY <2>1 DEF PlayFields
<1> HIDE DEF Older, Held
<1>4. /\ DOMAIN z = RuntimeFields /\ z.nextMove = r.nextMove /\ z.owner = r.owner
      /\ z.presented = r.presented
      /\ z.states = r.states /\ z.sequences = r.sequences
      /\ z.moves = [m \in DOMAIN r.moves |-> Older(m)]
      /\ z.playing = [q \in DOMAIN r.playing |-> Held(q)]
  BY <1>1 DEF Formed, RuntimeFields
<1>5. QED
  BY <1>2, <1>3, <1>4 DEF SameStock

\* What a tick keeps as presented, and the moves that are over.
KeptOf(r, s) == [p \in DOMAIN s \cap DOMAIN r.owner |-> s[p]]
OverOf(r) == {m \in DOMAIN r.moves : Finished(r.moves[m])}

\* The first half of a tick: picture s is published and runtime z is left.
TickLeaves(r0, d, b, s, z) ==
    LET r == Aged(r0, d)
    IN  s = Sample(r, b) /\ z = Complete([r EXCEPT !.presented = Over(KeptOf(r, s), r.presented)], OverOf(r))

\* The runtime after the first half of a tick.
LEMMA TickKeeps ==
    ASSUME NEW rt0, NEW d \in Int, NEW b, NEW s, NEW z, TickLeaves(rt0, d, b, s, z),
           Formed(rt0), Agree(rt0), Waited(rt0), Consistent(rt0, b)
    PROVE  /\ Formed(z) /\ Agree(z) /\ Waited(z) /\ Consistent(z, b) /\ SameStock(rt0, z)
           /\ \A m \in DOMAIN z.moves : m \in DOMAIN rt0.moves
           /\ \A p \in DOMAIN b : s[p] = Fallback(z, b, p)
           /\ DOMAIN s = DOMAIN b
<1> DEFINE r == Aged(rt0, d)
<1>0. s = Sample(r, b) /\ z = Complete([r EXCEPT !.presented = Over(KeptOf(r, s), r.presented)], OverOf(r))
  BY DEF TickLeaves
<1> DEFINE x == [r EXCEPT !.presented = Over(KeptOf(r, s), r.presented)]
<1>1. /\ DOMAIN r = RuntimeFields /\ r.nextMove = rt0.nextMove /\ r.owner = rt0.owner
      /\ r.presented = rt0.presented
      /\ SameStock(rt0, r)
      /\ DOMAIN r.moves = DOMAIN rt0.moves
      /\ \A m \in DOMAIN rt0.moves :
            /\ DOMAIN r.moves[m] = MoveFields /\ r.moves[m].seq = rt0.moves[m].seq
            /\ r.moves[m].frames = rt0.moves[m].frames /\ r.moves[m].age = rt0.moves[m].age + d
            /\ r.moves[m].from = rt0.moves[m].from /\ r.moves[m].to = rt0.moves[m].to
      /\ DOMAIN r.playing = DOMAIN rt0.playing
      /\ \A q \in DOMAIN rt0.playing :
            /\ DOMAIN r.playing[q] = PlayFields
            /\ r.playing[q].phase = rt0.playing[q].phase /\ r.playing[q].move = rt0.playing[q].move
  BY AgedFields
<1> HIDE DEF r
<1>2. Formed(r)
  BY <1>1 DEF Formed
<1>3. Agree(r)
  BY <1>1 DEF Agree
<1>4. Waited(r)
  BY <1>1 DEF Waited, WaitsFor
<1>5. /\ DOMAIN x = RuntimeFields /\ x.nextMove = r.nextMove /\ x.owner = r.owner
      /\ x.moves = r.moves /\ x.playing = r.playing
      /\ x.states = r.states /\ x.sequences = r.sequences
      /\ x.presented = Over(KeptOf(r, s), r.presented)
  BY <1>1 DEF RuntimeFields
<1> HIDE DEF x
<1>6. DOMAIN s = DOMAIN b /\ \A p \in DOMAIN b : s[p] = SamplePart(r, b, p)
  BY <1>0 DEF Sample
<1>7. ASSUME NEW p \in DOMAIN b PROVE Fallback(x, b, p) = s[p]
  <2>1. CASE p \in DOMAIN r.owner
    BY <1>5, <1>6, <2>1 DEF Fallback, Over, KeptOf
  <2>2. CASE p \notin DOMAIN r.owner
    BY <1>5, <1>6, <2>2 DEF Fallback, Over, KeptOf, SamplePart
  <2>3. QED
    BY <2>1, <2>2
<1>8. Formed(x) /\ Agree(x) /\ Waited(x)
  <2>1. Formed(x)
    BY <1>2, <1>5 DEF Formed
  <2>2. Agree(x)
    BY <1>3, <1>5 DEF Agree
  <2>3. Waited(x)
    BY <1>4, <1>5 DEF Waited, WaitsFor
  <2>4. QED
    BY <2>1, <2>2, <2>3
<1>9. Consistent(x, b)
  <2>1. ASSUME NEW p \in DOMAIN x.owner
        PROVE  p \in DOMAIN b /\ Blend(x.moves[x.owner[p]], p) = Fallback(x, b, p)
    <3>1. p \in DOMAIN rt0.owner /\ p \in DOMAIN b
      BY <1>1, <1>5 DEF Consistent
    <3>2. p \in DOMAIN r.owner /\ r.owner[p] \in DOMAIN r.moves
      BY <1>3, <1>5 DEF Agree
    <3>3. SamplePart(r, b, p) = Blend(r.moves[r.owner[p]], p)
      BY <3>2 DEF SamplePart
    <3>4. QED
      BY <1>5, <1>6, <1>7, <3>1, <3>3
  <2>2. QED
    BY <2>1 DEF Consistent
<1>10. z = Complete(x, OverOf(r))
  BY <1>0 DEF x
<1>11. CompleteLoses(x, z) /\ Loses(x, z) /\ Formed(z) /\ Agree(z) /\ Waited(z) /\ Consistent(z, b)
  BY <1>8, <1>9, <1>10, CompleteKeeps
<1>12. \A p \in DOMAIN b : s[p] = Fallback(z, b, p)
  BY <1>7, <1>11 DEF CompleteLoses, Fallback
<1>13. SameStock(rt0, z)
  BY <1>1, <1>5, <1>11 DEF SameStock, CompleteLoses
<1>14. \A m \in DOMAIN z.moves : m \in DOMAIN rt0.moves
  BY <1>1, <1>5, <1>11 DEF Loses
<1>15. QED
  BY <1>6, <1>11, <1>12, <1>13, <1>14

\* An edit of the saved layout took the changed parts from their moves and dropped
\* where playback had left them.
Edited(r, z, b1, changed) ==
    /\ Formed(z) /\ Agree(z) /\ Waited(z) /\ Consistent(z, b1) /\ SameStock(r, z)
    /\ \A m \in DOMAIN z.moves : m \in DOMAIN r.moves
    /\ \A p : p \in changed => p \notin DOMAIN z.presented
    /\ \A p : p \notin changed =>
          /\ p \in DOMAIN z.presented <=> p \in DOMAIN r.presented
          /\ p \in DOMAIN z.presented => z.presented[p] = r.presented[p]

\* Layout b1 is b but for the changed parts.
SavesAs(b, b1, changed) == \A p \in DOMAIN b : p \notin changed => p \in DOMAIN b1 /\ b1[p] = b[p]

\* note_base_edit and note_camera_edit keep the runtime in order.
LEMMA EditKeeps ==
    ASSUME NEW r, NEW b, NEW b1, NEW changed,
           Formed(r), Agree(r), Waited(r), Consistent(r, b), SavesAs(b, b1, changed)
    PROVE  Edited(r, NoteEdit(r, changed), b1, changed)
<1> DEFINE z == NoteEdit(r, changed)
<1> DEFINE s == Steal(r, changed)
<1>0. DOMAIN r = RuntimeFields
  BY DEF Formed
<1>1. CASE changed = {}
  <2>1. z = r
    BY <1>1 DEF NoteEdit
  <2>2. Consistent(z, b1)
    BY <1>1, <2>1 DEF Consistent, Fallback, SavesAs
  <2>3. QED
    BY <1>1, <2>1, <2>2 DEF SameStock, Edited
<1>2. CASE changed # {}
  <2>1. z = [s EXCEPT !.presented = Without(s.presented, changed), !.dirty = TRUE]
    BY <1>2 DEF NoteEdit
  <2>2. /\ Loses(r, s) /\ Formed(s) /\ Agree(s) /\ Waited(s) /\ Consistent(s, b)
        /\ s.owner = Without(r.owner, changed)
    BY StealKeeps
  <2>3. s.states = r.states /\ s.sequences = r.sequences /\ s.presented = r.presented /\ DOMAIN s = RuntimeFields
    BY <1>0, StealFields
  <2> HIDE DEF s, z
  <2>4. /\ DOMAIN z = RuntimeFields /\ z.nextMove = s.nextMove /\ z.owner = s.owner
        /\ z.moves = s.moves /\ z.playing = s.playing
        /\ z.states = s.states /\ z.sequences = s.sequences
        /\ z.presented = Without(s.presented, changed)
    BY <2>1, <2>3 DEF RuntimeFields
  <2>5. Formed(z) /\ Agree(z) /\ Waited(z)
    BY <2>2, <2>4 DEF Formed, Agree, Waited, WaitsFor
  <2>6. SameStock(r, z) /\ \A m \in DOMAIN z.moves : m \in DOMAIN r.moves
    BY <2>2, <2>3, <2>4 DEF SameStock, Loses
  <2>7. /\ \A p : p \in changed => p \notin DOMAIN z.presented
        /\ \A p : p \notin changed =>
              /\ p \in DOMAIN z.presented <=> p \in DOMAIN r.presented
              /\ p \in DOMAIN z.presented => z.presented[p] = r.presented[p]
    BY <2>3, <2>4, WithoutParts
  <2>8. Consistent(z, b1)
    <3>1. ASSUME NEW p \in DOMAIN z.owner
          PROVE  p \in DOMAIN b1 /\ Blend(z.moves[z.owner[p]], p) = Fallback(z, b1, p)
      <4>1. p \in DOMAIN s.owner /\ p \notin changed
        BY <2>2, <2>4, WithoutParts
      <4>2. p \in DOMAIN b /\ Blend(s.moves[s.owner[p]], p) = Fallback(s, b, p)
        BY <2>2, <4>1 DEF Consistent
      <4>3. p \in DOMAIN b1 /\ b1[p] = b[p]
        BY <4>1, <4>2 DEF SavesAs
      <4>4. Fallback(z, b1, p) = Fallback(s, b, p)
        BY <2>3, <2>7, <4>1, <4>3 DEF Fallback
      <4>5. QED
        BY <2>4, <4>2, <4>3, <4>4
    <3>2. QED
      BY <3>1 DEF Consistent
  <2>9. QED
    BY <2>5, <2>6, <2>7, <2>8 DEF Edited, z
<1>3. QED
  BY <1>1, <1>2

-----------------------------------------------------------------------------

\* The screen shows each part where it is presented; the camera may be at its saved
\* place instead.
OnScreen ==
    /\ Camera \in DOMAIN base /\ DOMAIN shown = DOMAIN base
    /\ \A p \in DOMAIN base : shown[p] = Fallback(rt, base, p) \/ (p = Camera /\ shown[p] = base[p])

\* The inductive invariant of SceneRuntime.
SceneInv ==
    /\ Formed(rt) /\ Stocked(rt) /\ Agree(rt) /\ Waited(rt) /\ Consistent(rt, base)
    /\ OnScreen
    /\ ~exists => DOMAIN rt.owner = {} /\ DOMAIN rt.presented = {}
    /\ ticking => exists

\* Equal lists are as well stocked.
LEMMA StockKept == ASSUME NEW r, NEW s, Stocked(r), SameStock(r, s) PROVE Stocked(s)
BY DEF Stocked, SameStock

\* A step that leads the runtime on and leaves the picture alone.
LEMMA LedStep ==
    ASSUME SceneInv, exists, Led(rt, rt', base), UNCHANGED <<exists, base, shown>>, ticking' => ticking
    PROVE  SceneInv' /\ SetsOut(rt, rt', base)
<1>1. Formed(rt)' /\ Agree(rt)' /\ Waited(rt)' /\ Consistent(rt, base)' /\ Stocked(rt)'
  BY StockKept DEF Led, SceneInv
<1>2. OnScreen'
  <2>1. \A p : Fallback(rt', base, p) = Fallback(rt, base, p)
    BY DEF Led, Fallback
  <2>2. QED
    BY <2>1 DEF SceneInv, OnScreen
<1>3. QED
  BY <1>1, <1>2 DEF Led, SceneInv

\* GoTo.
LEMMA StepGoTo ==
    ASSUME SceneInv, NEW state, GoTo(state) PROVE SceneInv' /\ SetsOut(rt, rt', base)
<1> DEFINE targets == Targets(rt, base, state)
           frames == EnterFrames(rt, state)
<1>1. /\ Formed(rt) /\ Stocked(rt) /\ Agree(rt) /\ Waited(rt) /\ Consistent(rt, base) /\ exists
      /\ UNCHANGED <<exists, base, shown, ticking>> /\ state \in {0} \cup DOMAIN rt.states
  BY DEF SceneInv, GoTo, Call, scene
<1>2. rt' = StartMove(rt, base, state, 0, targets, frames)
  BY DEF GoTo
<1>3. frames \in Nat \ {0}
  BY <1>1, BoundAssumption DEF Stocked, EnterFrames
<1> HIDE DEF targets, frames
<1>4. CASE PartsOf(targets, base) = {}
  <2>1. rt' = rt
    BY <1>2, <1>4 DEF StartMove, PartsOf
  <2>2. Led(rt, rt', base)
    BY <1>1, <2>1 DEF Led, SetsOut, SameStock
  <2>3. QED
    BY <1>1, <2>2, LedStep
<1>5. CASE PartsOf(targets, base) # {}
  <2>1. Starts(rt, base, state, 0, targets, frames, rt')
    BY <1>2 DEF Starts
  <2>2. /\ Formed(rt') /\ Agree(rt') /\ Consistent(rt', base) /\ SetsOut(rt, rt', base)
        /\ SameStock(rt, rt')
        /\ rt'.presented = rt.presented /\ Newest(rt, rt', 0)
    BY <1>1, <1>3, <1>5, <2>1, StartKeeps
  <2>3. Waited(rt')
    BY <2>2 DEF Waited, WaitsFor, Newest
  <2>4. Led(rt, rt', base)
    BY <2>2, <2>3 DEF Led
  <2>5. QED
    BY <1>1, <2>4, LedStep
<1>6. QED
  BY <1>4, <1>5

\* PlaySequence.
LEMMA StepPlay ==
    ASSUME SceneInv, NEW q, NEW dir, PlaySequence(q, dir) PROVE SceneInv' /\ SetsOut(rt, rt', base)
<1> DEFINE start == [index |-> IF dir = 1 THEN 1 ELSE Len(rt.sequences[q]), dir |-> dir,
                     phase |-> "holding", move |-> 0, left |-> 0]
           r1 == StopSequences(rt, {q})
           r2 == Playing(r1, q, start)
<1>1. /\ Formed(rt) /\ Stocked(rt) /\ Agree(rt) /\ Waited(rt) /\ Consistent(rt, base) /\ exists
      /\ UNCHANGED <<exists, base, shown, ticking>> /\ q \in Nat \ {0}
  BY DEF SceneInv, PlaySequence, Call, scene, Stocked
<1>2. rt' = BeginStep(r2, base, q)
  BY DEF PlaySequence
<1>3. DOMAIN start = PlayFields
  BY DEF PlayFields
<1> HIDE DEF start
<1>4. Led(rt, r1, base) /\ Loses(rt, r1) /\ NoMoveOf(r1, q)
  BY <1>1, StopKeeps
<1> HIDE DEF r1
<1>5. /\ Formed(r2) /\ Agree(r2) /\ Waited(r2) /\ Consistent(r2, base) /\ NoMoveOf(r2, q)
      /\ SameStock(r1, r2)
      /\ r2.moves = r1.moves /\ r2.presented = r1.presented
      /\ q \in DOMAIN r2.playing
  BY <1>1, <1>3, <1>4, PlayingKeeps DEF Led
<1> HIDE DEF r2
<1>6. Led(rt, r2, base)
  BY <1>4, <1>5 DEF Led, SetsOut, SameStock, Fallback
<1>7. Stocked(r2)
  BY <1>1, <1>6, StockKept DEF Led
<1>8. Led(r2, rt', base)
  BY <1>2, <1>5, <1>7, BeginKeeps
<1>9. \A m \in DOMAIN r2.moves : m \in DOMAIN rt.moves
  BY <1>4, <1>5 DEF Loses
<1>10. Led(rt, rt', base)
  BY <1>6, <1>8, <1>9, LedOn
<1>11. QED
  BY <1>1, <1>10, LedStep

\* StopPlaying.
LEMMA StepStop ==
    ASSUME SceneInv, NEW q, StopPlaying(q) PROVE SceneInv' /\ SetsOut(rt, rt', base)
<1>1. Led(rt, rt', base)
  BY StopKeeps DEF SceneInv, StopPlaying
<1>2. QED
  BY <1>1, LedStep DEF StopPlaying, Call, scene

\* Advance.
LEMMA StepAdvance ==
    ASSUME SceneInv, NEW q, Advance(q) PROVE SceneInv' /\ SetsOut(rt, rt', base)
<1>1. Led(rt, rt', base)
  BY AdvanceKeeps DEF SceneInv, Advance
<1>2. QED
  BY <1>1, LedStep DEF Advance, scene, SceneInv

\* TickEnd.
LEMMA StepTickEnd ==
    ASSUME SceneInv, TickEnd PROVE SceneInv' /\ SetsOut(rt, rt', base)
<1>1. rt' = [rt EXCEPT !.dirty = rt.moves # NoMap \/ rt.playing # NoMap] /\ Formed(rt)
  BY DEF TickEnd, SceneInv
<1>2. /\ DOMAIN rt' = RuntimeFields /\ rt'.nextMove = rt.nextMove /\ rt'.owner = rt.owner
      /\ rt'.moves = rt.moves
      /\ rt'.playing = rt.playing /\ rt'.presented = rt.presented /\ rt'.states = rt.states
      /\ rt'.sequences = rt.sequences
  BY <1>1 DEF RuntimeFields, Formed
<1>3. Formed(rt') /\ Agree(rt') /\ Waited(rt') /\ Consistent(rt', base)
  BY <1>2 DEF SceneInv, Formed, Agree, Waited, WaitsFor, Consistent, Fallback
<1>4. Led(rt, rt', base)
  BY <1>2, <1>3 DEF Led, SetsOut, SameStock
<1>5. QED
  BY <1>4, LedStep DEF TickEnd, scene, SceneInv

-----------------------------------------------------------------------------
(* The steps that change the scene, and the theorems *)

\* What EditTouchesWhatChanged says of a step.
Touches ==
    \A l \in (DOMAIN base \cap DOMAIN base') \ {Camera} : base' # base =>
          IF base'[l] = base[l] THEN shown'[l] = shown[l] ELSE shown'[l] = base'[l]

\* What each step is proved to do.
StepLaw == SceneInv' /\ SetsOut(rt, rt', base) /\ Touches

\* A step of the runtime that leaves the picture alone.
LEMMA QuietStep ==
    ASSUME SceneInv, Formed(rt'), Stocked(rt'), Agree(rt'), Waited(rt'), Consistent(rt', base),
           rt'.presented = rt.presented, \A m \in DOMAIN rt'.moves : m \in DOMAIN rt.moves,
           \A p \in DOMAIN rt'.owner : p \in DOMAIN rt.owner,
           UNCHANGED <<exists, base, shown>>, ticking' => ticking
    PROVE  SceneInv' /\ SetsOut(rt, rt', base)
<1>1. OnScreen'
  <2>1. \A p : Fallback(rt', base, p) = Fallback(rt, base, p)
    BY DEF Fallback
  <2>2. QED
    BY <2>1 DEF SceneInv, OnScreen
<1>2. ~exists' => DOMAIN rt'.owner = {} /\ DOMAIN rt'.presented = {}
  BY DEF SceneInv
<1>3. QED
  BY <1>1, <1>2 DEF SceneInv, SetsOut

\* TickBegin, by any number of frames, back or forth.
LEMMA StepTickBegin ==
    ASSUME SceneInv, NEW d \in Int, TickBegin(d) PROVE SceneInv' /\ SetsOut(rt, rt', base)
<1>1. TickLeaves(rt, d, base, shown', rt')
  BY DEF TickBegin, TickLeaves, KeptOf, OverOf
<1>2. /\ Formed(rt) /\ Stocked(rt) /\ Agree(rt) /\ Waited(rt) /\ Consistent(rt, base) /\ exists
      /\ Camera \in DOMAIN base /\ UNCHANGED <<exists, base>>
  BY DEF SceneInv, OnScreen, TickBegin
<1>3. /\ Formed(rt') /\ Agree(rt') /\ Waited(rt') /\ Consistent(rt', base) /\ SameStock(rt, rt')
      /\ \A m \in DOMAIN rt'.moves : m \in DOMAIN rt.moves
      /\ \A p \in DOMAIN base : shown'[p] = Fallback(rt', base, p)
      /\ DOMAIN shown' = DOMAIN base
  BY <1>1, <1>2, TickKeeps
<1>4. OnScreen'
  BY <1>2, <1>3 DEF OnScreen
<1>5. Stocked(rt')
  BY <1>2, <1>3, StockKept
<1>6. QED
  BY <1>2, <1>3, <1>4, <1>5 DEF SceneInv, SetsOut

\* DefineStates, of a scene or of none.
LEMMA StepDefineStates ==
    ASSUME SceneInv, NEW states \in StateSets, DefineStates(states)
    PROVE  SceneInv' /\ SetsOut(rt, rt', base)
<1> DEFINE r == [rt EXCEPT !.states = states]
           gone == {m \in DOMAIN rt.moves : rt.moves[m].state \notin {0} \cup DOMAIN states}
<1>1. rt' = Cancel(r, gone) /\ UNCHANGED <<exists, base, shown, ticking>>
  BY DEF DefineStates, scene, Call
<1>2. /\ DOMAIN r = RuntimeFields /\ r.states = states /\ r.sequences = rt.sequences
      /\ r.presented = rt.presented
      /\ r.nextMove = rt.nextMove /\ r.moves = rt.moves /\ r.owner = rt.owner
      /\ r.playing = rt.playing
  BY DEF RuntimeFields, SceneInv, Formed
<1> HIDE DEF r, gone
<1>3. Formed(r) /\ Agree(r) /\ Waited(r) /\ Consistent(r, base)
  BY <1>2 DEF SceneInv, Formed, Agree, Waited, WaitsFor, Consistent, Fallback
<1>4. Loses(r, rt') /\ Formed(rt') /\ Agree(rt') /\ Waited(rt') /\ Consistent(rt', base)
  BY <1>1, <1>3, CancelKeeps
<1>5. rt'.states = states /\ rt'.sequences = rt.sequences
  BY <1>1, <1>2, CancelFields
<1>6. Stocked(rt')
  BY <1>5, LayoutAssumption DEF Stocked, SceneInv
<1>7. QED
  BY <1>1, <1>2, <1>4, <1>6, QuietStep DEF Loses

\* DefineSequences.
LEMMA StepDefineSequences ==
    ASSUME SceneInv, NEW sequences \in SequenceSets, DefineSequences(sequences)
    PROVE  SceneInv' /\ SetsOut(rt, rt', base)
<1> DEFINE r == [rt EXCEPT !.sequences = sequences]
           gone == DOMAIN rt.playing \ DOMAIN sequences
<1>1. rt' = StopSequences(r, gone) /\ UNCHANGED <<exists, base, shown, ticking>>
  BY DEF DefineSequences, scene, Call
<1>2. /\ DOMAIN r = RuntimeFields /\ r.states = rt.states /\ r.sequences = sequences
      /\ r.presented = rt.presented
      /\ r.nextMove = rt.nextMove /\ r.moves = rt.moves /\ r.owner = rt.owner
      /\ r.playing = rt.playing
  BY DEF RuntimeFields, SceneInv, Formed
<1> HIDE DEF r, gone
<1>3. Formed(r) /\ Agree(r) /\ Waited(r) /\ Consistent(r, base)
  BY <1>2 DEF SceneInv, Formed, Agree, Waited, WaitsFor, Consistent, Fallback
<1>4. Loses(r, rt') /\ Led(r, rt', base)
  BY <1>1, <1>3, StopKeeps
<1>5. rt'.states = rt.states /\ rt'.sequences = sequences
  BY <1>2, <1>4 DEF Led, SameStock
<1>6. Stocked(rt')
  BY <1>5, LayoutAssumption DEF Stocked, SceneInv
<1>7. QED
  BY <1>1, <1>2, <1>4, <1>6, QuietStep DEF Loses, Led

\* The first half of an edit: a layer that changed is shown where it is saved, every
\* other one where it was.
LEMMA StepDefineScene ==
    ASSUME SceneInv, NEW layout \in Layouts, NEW camera, DefineScene(layout, camera) PROVE StepLaw
<1> DEFINE old == LayersOf(base)
           changed == {l \in DOMAIN old \cup DOMAIN layout :
                          \/ l \notin DOMAIN old \/ l \notin DOMAIN layout
                          \/ old[l] # layout[l]}
           b == With(layout, base[Camera])
<1>1. /\ Formed(rt) /\ Stocked(rt) /\ Agree(rt) /\ Waited(rt) /\ Consistent(rt, base)
      /\ Camera \in DOMAIN base /\ DOMAIN shown = DOMAIN base
      /\ \A p \in DOMAIN base : shown[p] = Fallback(rt, base, p) \/ (p = Camera /\ shown[p] = base[p])
      /\ ~exists => DOMAIN rt.owner = {} /\ DOMAIN rt.presented = {}
  BY DEF SceneInv, OnScreen
<1>2. /\ exists' /\ base' = b
      /\ rt' = IF exists THEN NoteEdit(rt, changed) ELSE rt
      /\ shown' = IF Untouched(rt') THEN With(layout, shown[Camera]) ELSE Sample(rt', b)
  BY DEF DefineScene
<1>3. /\ DOMAIN b = DOMAIN layout \cup {Camera} /\ b[Camera] = base[Camera]
      /\ Camera \notin DOMAIN layout /\ \A l \in DOMAIN layout : b[l] = layout[l]
  BY LayoutAssumption, CameraAssumption DEF With
<1>4. Camera \notin changed /\ SavesAs(base, b, changed)
  <2>1. DOMAIN old = DOMAIN base \ {Camera} /\ \A l \in DOMAIN old : old[l] = base[l]
    BY DEF LayersOf, Without
  <2> HIDE DEF old, b
  <2>2. Camera \notin changed
    BY <1>3, <2>1
  <2>3. ASSUME NEW p \in DOMAIN base, p \notin changed PROVE p \in DOMAIN b /\ b[p] = base[p]
    <3>1. CASE p = Camera
      BY <1>3, <3>1
    <3>2. CASE p # Camera
      BY <1>3, <2>1, <2>3, <3>2
    <3>3. QED
      BY <3>1, <3>2
  <2>4. QED
    BY <2>2, <2>3 DEF SavesAs
<1>5. \A l \in DOMAIN base \cap DOMAIN b : l # Camera => (l \in changed <=> b[l] # base[l])
  <2>1. DOMAIN old = DOMAIN base \ {Camera} /\ \A l \in DOMAIN old : old[l] = base[l]
    BY DEF LayersOf, Without
  <2> HIDE DEF old, b
  <2>2. QED
    BY <1>3, <2>1
<1> HIDE DEF changed, b, old
<1>6. Edited(rt, rt', b, changed)
  <2>1. CASE exists
    BY <1>1, <1>2, <1>4, <2>1, EditKeeps
  <2>2. CASE ~exists
    BY <1>1, <1>2, <2>2 DEF Edited, Consistent, SameStock
  <2>3. QED
    BY <2>1, <2>2
<1>7. /\ Formed(rt') /\ Agree(rt') /\ Waited(rt') /\ Consistent(rt', b) /\ Stocked(rt')
      /\ \A m \in DOMAIN rt'.moves : m \in DOMAIN rt.moves
  BY <1>1, <1>6, StockKept DEF Edited
<1>8. DOMAIN shown' = DOMAIN b /\ \A p \in DOMAIN b : shown'[p] = Fallback(rt', b, p)
  <2>1. CASE Untouched(rt')
    <3>1. \A p : Fallback(rt', b, p) = b[p]
      BY <2>1 DEF Untouched, NoMap, Fallback
    <3>2. shown[Camera] = base[Camera]
      <4>1. Camera \notin DOMAIN rt'.presented
        BY <2>1 DEF Untouched, NoMap
      <4>2. Camera \notin DOMAIN rt.presented
        BY <1>4, <1>6, <4>1 DEF Edited
      <4>3. QED
        BY <1>1, <4>2 DEF Fallback
    <3>3. shown' = With(layout, base[Camera])
      BY <1>2, <2>1, <3>2
    <3>4. QED
      BY <3>1, <3>3 DEF b
  <2>2. CASE ~Untouched(rt')
    <3>1. shown' = Sample(rt', b)
      BY <1>2, <2>2
    <3>2. \A p : SamplePart(rt', b, p) = Fallback(rt', b, p)
      BY <1>7, SampleIsFallback
    <3>3. QED
      BY <3>1, <3>2 DEF Sample
  <2>3. QED
    BY <2>1, <2>2
<1>9. SceneInv'
  <2>1. OnScreen'
    BY <1>2, <1>3, <1>8 DEF OnScreen
  <2>2. QED
    BY <1>2, <1>7, <2>1 DEF SceneInv
<1>10. Touches
  <2>1. ASSUME NEW l \in (DOMAIN base \cap DOMAIN base') \ {Camera}
        PROVE  IF base'[l] = base[l] THEN shown'[l] = shown[l] ELSE shown'[l] = base'[l]
    <3>1. l \in DOMAIN base /\ l \in DOMAIN b /\ l # Camera /\ base' = b
      BY <1>2
    <3>2. shown'[l] = Fallback(rt', b, l) /\ shown[l] = Fallback(rt, base, l)
      BY <1>1, <1>8, <3>1
    <3>3. CASE b[l] = base[l]
      <4>1. l \notin changed
        BY <1>5, <3>1, <3>3
      <4>2. Fallback(rt', b, l) = Fallback(rt, base, l)
        BY <1>6, <3>3, <4>1 DEF Fallback, Edited
      <4>3. QED
        BY <3>1, <3>2, <3>3, <4>2
    <3>4. CASE b[l] # base[l]
      <4>1. l \in changed
        BY <1>5, <3>1, <3>4
      <4>2. Fallback(rt', b, l) = b[l]
        BY <1>6, <4>1 DEF Fallback, Edited
      <4>3. QED
        BY <3>1, <3>2, <3>4, <4>2
    <3>5. QED
      BY <3>3, <3>4
  <2>2. QED
    BY <2>1 DEF Touches
<1>11. QED
  BY <1>7, <1>9, <1>10 DEF SetsOut, StepLaw

\* The second half: the camera goes to its saved place on the screen, and only there
\* if it did not change.
LEMMA StepDefineCamera ==
    ASSUME SceneInv, DefineCamera PROVE StepLaw
<1>1. CASE ~exists
  <2>1. UNCHANGED <<exists, base, shown, rt, ticking>>
    BY <1>1 DEF DefineCamera
  <2>2. SceneInv'
    BY <2>1 DEF SceneInv, OnScreen
  <2>3. QED
    BY <2>1, <2>2 DEF SetsOut, StepLaw, Touches
<1>2. CASE exists
  <2>0. PICK camera \in pending :
           /\ base' = [base EXCEPT ![Camera] = camera]
           /\ shown' = [shown EXCEPT ![Camera] = camera]
           /\ rt' = NoteEdit(rt, IF base[Camera] = camera THEN {} ELSE {Camera})
           /\ UNCHANGED <<exists, ticking>>
    BY <1>2 DEF DefineCamera
  <2> DEFINE changed == IF base[Camera] = camera THEN {} ELSE {Camera}
             b == [base EXCEPT ![Camera] = camera]
  <2>1. /\ Formed(rt) /\ Stocked(rt) /\ Agree(rt) /\ Waited(rt) /\ Consistent(rt, base)
        /\ Camera \in DOMAIN base /\ DOMAIN shown = DOMAIN base
        /\ \A p \in DOMAIN base : shown[p] = Fallback(rt, base, p) \/ (p = Camera /\ shown[p] = base[p])
    BY DEF SceneInv, OnScreen
  <2>2. DOMAIN b = DOMAIN base /\ b[Camera] = camera /\ \A p \in DOMAIN base : p # Camera => b[p] = base[p] /\ p \notin changed
    BY <2>1
  <2>3. SavesAs(base, b, changed)
    BY <2>1, <2>2 DEF SavesAs
  <2>4. base' = b /\ rt' = NoteEdit(rt, changed)
    BY <2>0
  <2> HIDE DEF b, changed
  <2>5. Edited(rt, rt', b, changed)
    BY <2>1, <2>3, <2>4, EditKeeps
  <2>6. /\ Formed(rt') /\ Agree(rt') /\ Waited(rt') /\ Consistent(rt', b) /\ Stocked(rt')
        /\ \A m \in DOMAIN rt'.moves : m \in DOMAIN rt.moves
    BY <2>1, <2>5, StockKept DEF Edited
  <2>7. DOMAIN shown' = DOMAIN base /\ shown'[Camera] = camera /\ \A p \in DOMAIN base : p # Camera => shown'[p] = shown[p]
    BY <2>0, <2>1
  <2>8. OnScreen'
    <3>1. ASSUME NEW p \in DOMAIN base, p # Camera PROVE shown'[p] = Fallback(rt', b, p)
      <4>1. Fallback(rt', b, p) = Fallback(rt, base, p)
        BY <2>2, <2>5, <3>1 DEF Fallback, Edited
      <4>2. QED
        BY <2>1, <2>7, <3>1, <4>1
    <3>2. QED
      BY <2>1, <2>2, <2>4, <2>7, <3>1 DEF OnScreen
  <2>9. SceneInv'
    BY <1>2, <2>0, <2>4, <2>6, <2>8 DEF SceneInv
  <2>10. Touches
    BY <2>2, <2>4, <2>7 DEF Touches
  <2>11. QED
    BY <2>6, <2>9, <2>10 DEF SetsOut, StepLaw
<1>3. QED
  BY <1>1, <1>2

\* DestroyScene.
LEMMA StepDestroyScene ==
    ASSUME SceneInv, DestroyScene PROVE StepLaw
<1>1. ~exists' /\ base' = With(NoMap, Identity) /\ shown' = base' /\ rt' = EmptyRuntime /\ ~ticking'
  BY DEF DestroyScene, Call
<1>2. DOMAIN base' = {Camera}
  BY <1>1 DEF With, NoMap
<1>3. /\ DOMAIN rt' = RuntimeFields /\ rt'.nextMove = 1
      /\ rt'.states = NoMap /\ rt'.sequences = NoMap /\ rt'.moves = NoMap /\ rt'.owner = NoMap
      /\ rt'.presented = NoMap /\ rt'.playing = NoMap
  BY <1>1 DEF EmptyRuntime, RuntimeFields
<1>4. DOMAIN NoMap = {}
  BY DEF NoMap
<1>5. Formed(rt') /\ Stocked(rt') /\ Agree(rt') /\ Waited(rt') /\ Consistent(rt', base')
  BY <1>3, <1>4 DEF Formed, Stocked, Agree, Waited, Consistent
<1>6. OnScreen'
  BY <1>1, <1>2, <1>3, <1>4 DEF OnScreen, Fallback
<1>7. SceneInv'
  BY <1>1, <1>3, <1>4, <1>5, <1>6 DEF SceneInv
<1>8. QED
  BY <1>2, <1>3, <1>4, <1>7 DEF SetsOut, Touches, StepLaw

\* ShowPose: what is shown is kept as presented.
LEMMA StepShowPose ==
    ASSUME SceneInv, NEW state, NEW withCamera \in BOOLEAN, ShowPose(state, withCamera)
    PROVE  SceneInv' /\ SetsOut(rt, rt', base)
<1> DEFINE to == rt.states[state].to
           pose == [l \in DOMAIN base \ {Camera} |-> Over(to, base)[l]]
           cam == Over(to, base)[Camera]
           kept == [p \in {Camera} \cap DOMAIN rt.presented |-> rt.presented[p]]
           full == IF withCamera THEN With(pose, cam) ELSE pose
           presented == Over(full, kept)
<1>1. /\ shown' = Over(full, [p \in {Camera} |-> shown[p]])
      /\ rt' = [rt EXCEPT !.moves = NoMap, !.owner = NoMap, !.playing = NoMap,
                          !.presented = presented, !.dirty = FALSE]
      /\ UNCHANGED <<exists, base, ticking>> /\ exists
  BY DEF ShowPose, Call
<1>2. /\ Formed(rt) /\ Stocked(rt) /\ Camera \in DOMAIN base
      /\ shown[Camera] = Fallback(rt, base, Camera) \/ shown[Camera] = base[Camera]
  BY DEF SceneInv, OnScreen
<1>3. DOMAIN full = IF withCamera THEN DOMAIN base ELSE DOMAIN base \ {Camera}
  BY <1>2 DEF With
<1> HIDE DEF full
<1>4. DOMAIN kept = {Camera} \cap DOMAIN rt.presented /\ \A p \in DOMAIN kept : kept[p] = rt.presented[p]
  OBVIOUS
<1> HIDE DEF kept
<1>5. /\ DOMAIN presented = DOMAIN full \cup DOMAIN kept
      /\ \A p \in DOMAIN full : presented[p] = full[p]
      /\ \A p \in DOMAIN kept : p \notin DOMAIN full => presented[p] = kept[p]
  BY DEF Over
<1>6. /\ DOMAIN shown' = DOMAIN base
      /\ \A p \in DOMAIN full : shown'[p] = full[p]
      /\ Camera \notin DOMAIN full => shown'[Camera] = shown[Camera]
  BY <1>1, <1>2, <1>3 DEF Over
<1> HIDE DEF presented
<1>7. /\ DOMAIN rt' = RuntimeFields /\ rt'.nextMove = rt.nextMove
      /\ rt'.states = rt.states /\ rt'.sequences = rt.sequences /\ rt'.moves = NoMap
      /\ rt'.owner = NoMap
      /\ rt'.presented = presented /\ rt'.playing = NoMap
  BY <1>1, <1>2 DEF Formed, RuntimeFields
<1>8. DOMAIN NoMap = {}
  BY DEF NoMap
<1>9. Formed(rt') /\ Stocked(rt') /\ Agree(rt') /\ Waited(rt') /\ Consistent(rt', base)
  BY <1>2, <1>7, <1>8 DEF Formed, Stocked, Agree, Waited, Consistent
<1>10. OnScreen'
  <2>1. ASSUME NEW p \in DOMAIN base
        PROVE  shown'[p] = Fallback(rt', base, p) \/ (p = Camera /\ shown'[p] = base[p])
    <3>1. CASE p \in DOMAIN full
      BY <1>5, <1>6, <1>7, <3>1 DEF Fallback
    <3>2. CASE p \notin DOMAIN full
      <4>1. p = Camera
        BY <1>3, <3>2
      <4>2. Fallback(rt', base, p) = Fallback(rt, base, p)
        BY <1>4, <1>5, <1>7, <3>2, <4>1 DEF Fallback
      <4>3. QED
        BY <1>2, <1>6, <3>2, <4>1, <4>2
    <3>3. QED
      BY <3>1, <3>2
  <2>2. QED
    BY <1>1, <1>2, <1>6, <2>1 DEF OnScreen
<1>11. SceneInv'
  BY <1>1, <1>9, <1>10 DEF SceneInv
<1>12. QED
  BY <1>7, <1>8, <1>11 DEF SetsOut

\* Every step.
LEMMA SceneStep == SceneInv /\ [Next]_vars => StepLaw
<1> SUFFICES ASSUME SceneInv, [Next]_vars PROVE StepLaw
  OBVIOUS
<1> USE DEF StepLaw
<1>0. ASSUME base' = base PROVE Touches
  BY <1>0 DEF Touches
<1>1. ASSUME NEW l \in Layouts, NEW c \in Cameras, DefineScene(l, c) PROVE StepLaw
  BY <1>1, StepDefineScene
<1>2. CASE DefineCamera
  BY <1>2, StepDefineCamera
<1>3. CASE DestroyScene
  BY <1>3, StepDestroyScene
<1>4. ASSUME NEW ss \in StateSets, DefineStates(ss) PROVE StepLaw
  BY <1>0, <1>4, StepDefineStates DEF DefineStates, scene
<1>5. ASSUME NEW qs \in SequenceSets, DefineSequences(qs) PROVE StepLaw
  BY <1>0, <1>5, StepDefineSequences DEF DefineSequences, scene
<1>6. ASSUME NEW s, GoTo(s) PROVE StepLaw
  BY <1>0, <1>6, StepGoTo DEF GoTo, scene
<1>7. ASSUME NEW q, NEW dir, PlaySequence(q, dir) PROVE StepLaw
  BY <1>0, <1>7, StepPlay DEF PlaySequence, scene
<1>8. ASSUME NEW q, StopPlaying(q) PROVE StepLaw
  BY <1>0, <1>8, StepStop DEF StopPlaying, scene
<1>9. ASSUME NEW s, NEW withCamera \in BOOLEAN, ShowPose(s, withCamera) PROVE StepLaw
  BY <1>0, <1>9, StepShowPose DEF ShowPose
<1>10. ASSUME NEW d \in Int, TickBegin(d) PROVE StepLaw
  BY <1>0, <1>10, StepTickBegin DEF TickBegin
<1>11. ASSUME NEW q, Advance(q) PROVE StepLaw
  BY <1>0, <1>11, StepAdvance DEF Advance, scene
<1>12. CASE TickEnd
  BY <1>0, <1>12, StepTickEnd DEF TickEnd, scene
<1>13. CASE UNCHANGED vars
  <2>1. UNCHANGED <<exists, base, shown, rt, ticking>>
    BY <1>13 DEF vars
  <2>2. SceneInv'
    BY <2>1 DEF SceneInv, OnScreen
  <2>3. QED
    BY <1>0, <2>1, <2>2 DEF SetsOut
<1>14. CASE Tick
  <2>1. PICK d \in 1..MaxSkip : TickBegin(d)
    BY <1>14 DEF Tick
  <2>2. QED
    BY <1>10, <2>1
<1>15. ASSUME NEW d \in (-MaxBack)..0, TickBegin(d) PROVE StepLaw
  BY <1>10, <1>15
<1> HIDE DEF StepLaw
<1>16. QED
  BY <1>1, <1>2, <1>3, <1>4, <1>5, <1>6, <1>7, <1>8, <1>9, <1>11, <1>12, <1>13, <1>14, <1>15 DEF Next

\* The scene of a session load.
LEMMA SceneStarts == Init => SceneInv
<1> SUFFICES ASSUME Init PROVE SceneInv
  OBVIOUS
<1>1. PICK l \in Layouts, c \in Cameras : base = With(l, c)
  BY DEF Init
<1>2. PICK ss \in StateSets, qs \in SequenceSets : rt = [EmptyRuntime EXCEPT !.states = ss, !.sequences = qs]
  BY DEF Init
<1>3. /\ DOMAIN rt = RuntimeFields /\ rt.nextMove = 1
      /\ rt.states = ss /\ rt.sequences = qs /\ rt.moves = NoMap /\ rt.owner = NoMap
      /\ rt.presented = NoMap /\ rt.playing = NoMap
  BY <1>2 DEF EmptyRuntime, RuntimeFields
<1>4. DOMAIN NoMap = {}
  BY DEF NoMap
<1>5. Formed(rt) /\ Agree(rt) /\ Waited(rt) /\ Consistent(rt, base)
  BY <1>3, <1>4 DEF Formed, Agree, Waited, Consistent
<1>6. Stocked(rt)
  BY <1>3, LayoutAssumption DEF Stocked
<1>7. OnScreen
  BY <1>1, <1>3, <1>4 DEF OnScreen, Fallback, With, Init
<1>8. QED
  BY <1>5, <1>6, <1>7 DEF SceneInv, Init

\* Every move is accounted for: the map of owners (owner and camera_owner) and the
\* list of moves agree, and no move outlives the sequence that started it
\* (steal_layer, cancel_move, stop_sequence, begin_step in anim/scene.rs).
THEOREM MovesHaveOwners == Spec => []MovesAccountedFor
<1>1. SceneInv => MovesAccountedFor
  BY DEF SceneInv, Agree, Waited, WaitsFor, MovesAccountedFor, OwnersAgree, NoOrphanMove
<1>2. SceneInv /\ [Next]_vars => SceneInv'
  BY SceneStep DEF StepLaw
<1>3. QED
  BY <1>1, <1>2, SceneStarts, PTL DEF Spec

\* What MovesStartFromScreen says of a step.
StartsHere ==
    \A m \in Started : \A p \in DOMAIN rt'.moves[m].from :
        StartsOnScreen(m, p) \/ (p = Camera /\ shown[p] = base[p])

\* Whatever ended the last move of a part, its next move starts where the screen shows
\* it, but for a camera that an edit put in its saved place.
THEOREM MovesSetOut == Spec => MovesStartFromScreen
<1>1. SceneInv /\ [Next]_vars => SceneInv'
  BY SceneStep DEF StepLaw
<1>2. SceneInv /\ [Next]_vars => [StartsHere]_vars
  <2> SUFFICES ASSUME SceneInv, [Next]_vars PROVE StartsHere
    OBVIOUS
  <2>1. SetsOut(rt, rt', base) /\ OnScreen
    BY SceneStep DEF StepLaw, SceneInv
  <2>2. QED
    BY <2>1 DEF StartsHere, Started, StartsOnScreen, SetsOut, OnScreen
<1>3. QED
  BY <1>1, <1>2, SceneStarts, PTL DEF Spec, MovesStartFromScreen, StartsHere

\* An edit of the saved layout shows at once on the layers it changes and leaves the
\* others where they are, even when they are moving.
THEOREM EditsShow == Spec => EditTouchesWhatChanged
<1>1. SceneInv /\ [Next]_vars => SceneInv'
  BY SceneStep DEF StepLaw
<1>2. SceneInv /\ [Next]_vars => [Touches]_vars
  BY SceneStep DEF StepLaw
<1>3. QED
  BY <1>1, <1>2, SceneStarts, PTL DEF Spec, EditTouchesWhatChanged, Touches
=============================================================================
