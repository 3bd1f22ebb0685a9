----------------------------- MODULE MixerProofs -----------------------------
(* Proofs about the life of the mixer (MixerLifecycle), about the textures of an
   output (OutputLane) and about the playback of a file (VideoPump), for any
   number of threads, calls, workers, textures, pictures and faults, for a file of
   any length and any number of frames decoded ahead or kept back.             *)
EXTENDS MixerLifecycle, OutputLane, VideoPump, SequenceTheorems, FiniteSetTheorems, WellFoundedInduction, TLAPS

-----------------------------------------------------------------------------
(* The life of the mixer *)

\* The types the argument needs.
CycleTypeOK ==
    /\ slot \in [is : {"empty", "initializing", "running", "stopping"},
                 mixer : {Nothing} \cup (Callers \X Nat)]
    /\ at \in [Callers -> {"idle", "reserved", "starting", "started", "aborting", "stopping", "resetting"}]
    /\ uses \in [Callers -> Nat]
    /\ holds \in [Callers -> {Nothing} \cup (Callers \X Nat)]
    /\ robbed \subseteq Callers

Creating(d) == at[d] \in {"reserved", "starting", "started", "aborting"}

\* A reservation in the slot is of a create under way that nobody has robbed since
\* it reserved.
ReservedByOne == slot.is = "initializing" => \E d \in Callers \ robbed : Creating(d)

CycleInv == CycleTypeOK /\ ReservedByOne

LEMMA CycleTypes == CycleTypeOK /\ [CycleNext]_cycleVars => CycleTypeOK'
<1> SUFFICES ASSUME CycleTypeOK, [CycleNext]_cycleVars PROVE CycleTypeOK'
  OBVIOUS
<1> USE DEF CycleTypeOK, Is, Goes, Begins, Mine, Reserving
<1>1. ASSUME NEW c \in Callers, Reserve(c) \/ ReserveRefused(c) PROVE CycleTypeOK'
  BY <1>1 DEF Reserve, ReserveRefused
<1>2. ASSUME NEW c \in Callers, DestroyRunning(c) \/ DestroyReserved(c) \/ DestroyNothing(c) PROVE CycleTypeOK'
  BY <1>2 DEF DestroyRunning, DestroyReserved, DestroyNothing
<1>3. ASSUME NEW c \in Callers, Inside(c) PROVE CycleTypeOK'
  BY <1>3 DEF Inside, ResetForCreate, Start, StartFails, Commit, CommitRefused, Abort, DestroyEnds, ResetForDestroy
<1>4. ASSUME NEW m \in Callers \X Uses, RenderEnds(m) \/ RenderPanics(m) PROVE CycleTypeOK'
  BY <1>4 DEF RenderEnds, RenderPanics
<1>5. CASE UNCHANGED cycleVars
  BY <1>5 DEF cycleVars
<1>6. QED
  BY <1>1, <1>2, <1>3, <1>4, <1>5 DEF CycleNext

LEMMA ReservationStep == CycleInv /\ [CycleNext]_cycleVars => ReservedByOne'
<1> SUFFICES ASSUME CycleInv, [CycleNext]_cycleVars, slot'.is = "initializing"
             PROVE  \E d \in Callers \ robbed' : Creating(d)'
  BY DEF ReservedByOne
<1> USE DEF CycleInv, CycleTypeOK, Is, Creating
<1>1. CASE slot.is # "initializing"
  <2>1. PICK c \in Callers : Reserve(c)
    BY <1>1 DEF CycleNext, cycleVars, Inside, ReserveRefused, DestroyRunning, DestroyReserved,
         DestroyNothing, ResetForCreate, Start, StartFails, Commit, CommitRefused, Abort, DestroyEnds,
         ResetForDestroy, RenderEnds, RenderPanics
  <2>2. c \notin robbed' /\ at'[c] = "reserved"
    BY <2>1 DEF Reserve, Begins, Goes
  <2>3. QED
    BY <2>2
<1>2. CASE slot.is = "initializing"
  <2>1. PICK d \in Callers \ robbed : at[d] \in {"reserved", "starting", "started", "aborting"}
    BY <1>2 DEF ReservedByOne
  <2>2. ASSUME NEW c \in Callers, ReserveRefused(c) PROVE robbed' = robbed /\ at'[d] = at[d]
    BY <2>1, <2>2 DEF ReserveRefused, Begins, Goes
  <2>3. ASSUME NEW c \in Callers, ResetForCreate(c) \/ Start(c) \/ StartFails(c)
        PROVE  robbed' = robbed /\ at'[d] \in {"reserved", "starting", "started", "aborting"}
    BY <2>1, <2>3 DEF ResetForCreate, Start, StartFails, Goes
  <2>4. ASSUME NEW c \in Callers, ResetForDestroy(c) PROVE robbed' = robbed /\ at'[d] = at[d]
    BY <2>1, <2>4 DEF ResetForDestroy, Goes
  <2>5. ASSUME NEW m \in Callers \X Uses, RenderEnds(m) \/ RenderPanics(m)
        PROVE  robbed' = robbed /\ at'[d] = at[d]
    BY <2>5 DEF RenderEnds, RenderPanics
  <2>6. CASE UNCHANGED cycleVars
    BY <2>1, <2>6 DEF cycleVars
  <2>7. ASSUME NEW c \in Callers,
               Reserve(c) \/ DestroyRunning(c) \/ DestroyReserved(c) \/ DestroyNothing(c)
                 \/ Commit(c) \/ CommitRefused(c) \/ Abort(c) \/ DestroyEnds(c)
        PROVE  FALSE
    BY <1>2, <2>7 DEF Reserve, DestroyRunning, DestroyReserved, DestroyNothing, Commit, CommitRefused,
         Abort, DestroyEnds
  <2>8. QED
    BY <2>1, <2>2, <2>3, <2>4, <2>5, <2>6, <2>7 DEF CycleNext, Inside
<1>3. QED
  BY <1>1, <1>2

THEOREM CycleInvariance == CycleSpec => []CycleInv
<1>1. CycleInit => CycleInv
  BY DEF CycleInit, CycleInv, CycleTypeOK, ReservedByOne, Is
<1>2. CycleInv /\ [CycleNext]_cycleVars => CycleInv'
  BY CycleTypes, ReservationStep DEF CycleInv
<1>3. QED
  BY <1>1, <1>2, PTL DEF CycleSpec

\* A create that was robbed of its reservation leaves no mixer in the slot, unless
\* another create that is still under way has reserved it since.
THEOREM RobbedLeaveNothing == CycleSpec => RobbedCreatesLeaveNothing
<1>1. CycleInv /\ [CycleNext]_cycleVars =>
        \A c \in robbed : slot'.is = "running" /\ slot' # slot /\ slot'.mixer = Mine(c)
            => \E d \in Callers \ {c} : at[d] \in {"reserved", "starting", "started", "aborting"}
  <2> SUFFICES ASSUME CycleInv, [CycleNext]_cycleVars, NEW c \in robbed, slot'.is = "running", slot' # slot
               PROVE  \E d \in Callers \ {c} : at[d] \in {"reserved", "starting", "started", "aborting"}
    OBVIOUS
  <2>1. slot.is = "initializing"
    BY DEF CycleInv, CycleTypeOK, CycleNext, cycleVars, Is, Inside, Reserve, ReserveRefused, DestroyRunning,
       DestroyReserved, DestroyNothing, ResetForCreate, Start, StartFails, Commit, CommitRefused, Abort,
       DestroyEnds, ResetForDestroy, RenderEnds, RenderPanics
  <2>2. QED
    BY <2>1 DEF CycleInv, ReservedByOne, Creating
<1>2. QED
  BY <1>1, CycleInvariance, PTL DEF CycleSpec, RobbedCreatesLeaveNothing

-----------------------------------------------------------------------------
(* The textures of an output *)

B(l) == box[l].tex
H(l) == worker[l].hand.tex
P(l) == worker[l].pending
C == copied.tex

\* The records of workers; the numbers of pictures do not matter here.
IsWorker(w) == DOMAIN w = {"at", "hand", "pending", "cpu", "sent"}
StillTyped ==
    /\ DOMAIN box = Lanes /\ DOMAIN worker = Lanes
    /\ \A l \in Lanes : IsWorker(worker[l])

LaneTypeOK ==
    /\ StillTyped
    /\ taken \subseteq Textures
    /\ kind \in [Lanes -> Kinds]
    /\ ring \in [number : 1..MaxRings, next : 0..Ring - 1, used : BOOLEAN]
    /\ lanes \in 0..MaxLanes /\ live \in 0..lanes /\ snap \in 0..lanes
    /\ phase \in {"idle", "draw", "emit"}
    /\ call.busy /\ call.adds => lanes < MaxLanes

\* What a lane is fed with stays while a frame is drawn for it, a worker that is
\* not sending or stopping has no picture in hand, and one that is not there yet
\* has nothing at all.
FrameInOrder ==
    /\ phase # "idle" => snap \in Lanes
    /\ C # NoTexture => phase = "emit" /\ kind[snap] = "gpu"
    /\ \A l \in Lanes :
          /\ worker[l].at \notin {"sending", "stopping"} => H(l) = NoTexture
          /\ worker[l].at = "none" => P(l) = NoTexture
          /\ l > lanes => worker[l].at = "none"

\* No texture is in two places.
Apart ==
    /\ \A l, m \in Lanes : l # m =>
          /\ B(l) # NoTexture => B(l) # B(m)
          /\ H(l) # NoTexture => H(l) # H(m)
          /\ P(l) # NoTexture => P(l) # P(m)
    /\ \A l, m \in Lanes :
          /\ B(l) # NoTexture => B(l) # H(m) /\ B(l) # P(m)
          /\ H(l) # NoTexture => H(l) # P(m)
    /\ C # NoTexture => \A l \in Lanes : C # B(l) /\ C # H(l) /\ C # P(l)

\* A texture is marked where it is, and is somewhere when it is marked.
Marked ==
    /\ C # NoTexture => C \in taken
    /\ \A l \in Lanes :
          /\ B(l) # NoTexture => B(l) \in taken
          /\ H(l) # NoTexture => H(l) \in taken
          /\ P(l) # NoTexture => P(l) \in taken
    /\ \A t \in taken : t = C \/ \E l \in Lanes : t = B(l) \/ t = H(l) \/ t = P(l)

LaneInv == LaneTypeOK /\ FrameInOrder /\ Apart /\ Marked

LEMMA NoTextureIsNone == NoTexture \notin Textures
  BY RingAssumption DEF NoTexture, Textures

\* A worker's step moves its own textures only.
OthersStay(l) ==
    \A m \in Lanes : m # l => B(m)' = B(m) /\ H(m)' = H(m) /\ P(m)' = P(m) /\ worker'[m] = worker[m]

\* The steps of a worker, by what they do to its three places: it takes a picture
\* out of its mailbox, it gives its picture to the encoder or drops it, and
\* what is dropped is freed.
Takes(l) ==
    /\ H(l) = NoTexture
    /\ B(l)' = NoTexture /\ H(l)' = B(l) /\ P(l)' = P(l)
    /\ taken' = taken
Drops(l) ==
    /\ B(l)' = B(l) /\ H(l)' = NoTexture
    /\ \/ P(l)' = P(l) /\ taken' = taken \ {H(l)}
       \/ P(l)' = H(l) /\ taken' = taken \ {P(l)}
       \/ P(l)' = NoTexture /\ taken' = taken \ {H(l), P(l)}

LEMMA WorkerStep ==
    ASSUME LaneInv, NEW l \in Lanes, StillTyped', OthersStay(l), Takes(l) \/ Drops(l),
           worker'[l].at \notin {"sending", "stopping"} => H(l)' = NoTexture,
           worker'[l].at # "none", worker[l].at # "none",
           UNCHANGED <<control, render>>
    PROVE  LaneInv'
<1> USE NoTextureIsNone DEF LaneInv
<1>1. LaneTypeOK'
  BY DEF LaneTypeOK, Takes, Drops, control, render
<1>2. FrameInOrder'
  BY DEF FrameInOrder, OthersStay, control, render, C, H, P
<1>3. C' = C
  BY DEF C, render
<1>4. CASE Takes(l)
  <2>1. Apart'
    BY <1>3, <1>4 DEF Apart, Takes, OthersStay
  <2>2. Marked'
    BY <1>3, <1>4 DEF Marked, Takes, OthersStay
  <2>3. QED
    BY <1>1, <1>2, <2>1, <2>2
<1>5. CASE Drops(l)
  <2>1. Apart'
    BY <1>3, <1>5 DEF Apart, Drops, OthersStay
  <2>2. Marked'
    BY <1>3, <1>5 DEF Marked, Apart, Drops, OthersStay, LaneTypeOK
  <2>3. QED
    BY <1>1, <1>2, <2>1, <2>2
<1>6. QED
  BY <1>4, <1>5

\* A worker and its mailbox are replaced by others of their kind.
LEMMA LaneReplaced ==
    ASSUME LaneTypeOK, NEW l \in Lanes, DOMAIN box' = Lanes, DOMAIN worker' = Lanes,
           IsWorker(worker'[l]),
           \A m \in Lanes \ {l} : box'[m] = box[m] /\ worker'[m] = worker[m]
    PROVE  StillTyped' /\ OthersStay(l)
<1>1. \A m \in Lanes : IsWorker(worker'[m])
  BY DEF LaneTypeOK, StillTyped
<1>2. QED
  BY <1>1 DEF OthersStay, StillTyped, B, H, P

LEMMA TakeStep ==
    ASSUME LaneInv, NEW l \in Lanes, Take(l) \/ LastTake(l)
    PROVE  LaneInv'
<1>1. LaneTypeOK /\ IsWorker(worker[l])
  BY DEF LaneInv, LaneTypeOK, StillTyped
<1>2. box' = [box EXCEPT ![l] = NoPicture] /\ taken' = taken /\ UNCHANGED <<control, render>>
  BY DEF Take, LastTake
<1>3. worker[l].at = "loop"
  BY DEF Take, LastTake
<1>4. \E w : /\ worker' = [worker EXCEPT ![l] = w]
             /\ IsWorker(w) /\ w.at \in {"sending", "stopping"}
             /\ w.hand.tex = B(l) /\ w.pending = P(l)
  <2>1. CASE Take(l)
    <3> DEFINE next == IF box[l] # NoPicture THEN box[l] ELSE [n |-> worker[l].cpu, tex |-> NoTexture]
               c == IF next.tex = NoTexture THEN next.n ELSE worker[l].cpu
               w == [worker[l] EXCEPT !.at = "sending", !.hand = next, !.cpu = c]
    <3>1. next.tex = B(l)
      BY DEF NoPicture, B
    <3>2. worker' = [worker EXCEPT ![l] = w]
      BY <2>1 DEF Take
    <3>3. IsWorker(w) /\ w.at = "sending" /\ w.hand = next /\ w.pending = worker[l].pending
      <4> HIDE DEF next, c
      <4> QED
        BY <1>1 DEF IsWorker
    <3> HIDE DEF next, w
    <3>4. QED
      BY <3>1, <3>2, <3>3 DEF P
  <2>2. CASE LastTake(l)
    <3> DEFINE w == [worker[l] EXCEPT !.at = "stopping", !.hand = box[l]]
    <3>1. worker' = [worker EXCEPT ![l] = w]
      BY <2>2 DEF LastTake
    <3>2. IsWorker(w) /\ w.at = "stopping" /\ w.hand = box[l] /\ w.pending = worker[l].pending
      BY <1>1 DEF IsWorker
    <3> HIDE DEF w
    <3>3. QED
      BY <3>1, <3>2 DEF P, B
  <2>3. QED
    BY <2>1, <2>2
<1>5. PICK w : /\ worker' = [worker EXCEPT ![l] = w]
               /\ IsWorker(w) /\ w.at \in {"sending", "stopping"}
               /\ w.hand.tex = B(l) /\ w.pending = P(l)
  BY <1>4
<1>6. /\ StillTyped' /\ OthersStay(l)
      /\ B(l)' = NoPicture.tex /\ H(l)' = w.hand.tex /\ P(l)' = w.pending /\ worker'[l] = w
  <2>1. worker'[l] = w /\ box'[l] = NoPicture
    BY <1>1, <1>2, <1>5 DEF LaneTypeOK, StillTyped
  <2>2. /\ DOMAIN box' = Lanes /\ DOMAIN worker' = Lanes
        /\ \A m \in Lanes \ {l} : box'[m] = box[m] /\ worker'[m] = worker[m]
    BY <1>1, <1>2, <1>5 DEF LaneTypeOK, StillTyped
  <2>3. QED
    BY <1>1, <1>5, <2>1, <2>2, LaneReplaced DEF B, H, P
<1>7. H(l) = NoTexture
  BY <1>3 DEF LaneInv, FrameInOrder
<1>8. Takes(l)
  BY <1>2, <1>5, <1>6, <1>7 DEF Takes, NoPicture
<1>9. QED
  BY <1>2, <1>3, <1>5, <1>6, <1>8, WorkerStep

LEMMA DropStep ==
    ASSUME LaneInv, NEW l \in Lanes, Send(l) \/ SendFails(l) \/ SendPanics(l) \/ Stop(l)
    PROVE  LaneInv'
<1>1. LaneTypeOK /\ IsWorker(worker[l]) /\ taken \subseteq Textures
  BY DEF LaneInv, LaneTypeOK, StillTyped
<1>2. H(l) = NoTexture => taken = taken \ {H(l)}
  BY <1>1, NoTextureIsNone
<1>3. worker[l].at \in {"sending", "stopping"}
  BY DEF Send, SendFails, SendPanics, Stop
<1>4. box' = box /\ UNCHANGED <<control, render>>
  BY DEF Send, SendFails, SendPanics, Stop
<1>5. \E w : /\ worker' = [worker EXCEPT ![l] = w]
             /\ IsWorker(w) /\ w.at \in {"loop", "ended"} /\ w.hand = NoPicture
             /\ \/ w.pending = P(l) /\ taken' = taken \ {H(l)}
                \/ w.pending = H(l) /\ taken' = taken \ {P(l)}
                \/ w.pending = NoTexture /\ taken' = taken \ {H(l), P(l)}
  <2>1. CASE Send(l)
    <3> DEFINE p == IF worker[l].hand.tex = NoTexture THEN worker[l].pending ELSE worker[l].hand.tex
               w == [worker[l] EXCEPT !.at = "loop", !.hand = NoPicture, !.sent = worker[l].hand.n, !.pending = p]
    <3>1. worker' = [worker EXCEPT ![l] = w]
      BY <2>1 DEF Send
    <3>2. IsWorker(w) /\ w.at = "loop" /\ w.hand = NoPicture /\ w.pending = p
      BY <1>1 DEF IsWorker
    <3>3. taken' = IF H(l) = NoTexture THEN taken ELSE taken \ {P(l)}
      BY <2>1 DEF Send, H, P
    <3> HIDE DEF w
    <3>4. QED
      BY <1>2, <3>1, <3>2, <3>3 DEF P, H
  <2>2. CASE SendFails(l)
    <3> DEFINE p == IF worker[l].hand.tex = NoTexture THEN worker[l].pending ELSE NoTexture
               w == [worker[l] EXCEPT !.at = "loop", !.hand = NoPicture, !.pending = p]
    <3>1. worker' = [worker EXCEPT ![l] = w]
      BY <2>2 DEF SendFails
    <3>2. IsWorker(w) /\ w.at = "loop" /\ w.hand = NoPicture /\ w.pending = p
      BY <1>1 DEF IsWorker
    <3>3. taken' = IF H(l) = NoTexture THEN taken ELSE taken \ {H(l), P(l)}
      BY <2>2 DEF SendFails, H, P
    <3> HIDE DEF w
    <3>4. QED
      BY <1>2, <3>1, <3>2, <3>3 DEF P, H
  <2>3. CASE SendPanics(l)
    <3> DEFINE w == [worker[l] EXCEPT !.at = "loop", !.hand = NoPicture]
    <3>1. worker' = [worker EXCEPT ![l] = w] /\ taken' = taken \ {H(l)}
      BY <2>3 DEF SendPanics, H
    <3>2. IsWorker(w) /\ w.at = "loop" /\ w.hand = NoPicture /\ w.pending = P(l)
      BY <1>1 DEF IsWorker, P
    <3> HIDE DEF w
    <3>3. QED
      BY <3>1, <3>2
  <2>4. CASE Stop(l)
    <3> DEFINE w == [worker[l] EXCEPT !.at = "ended", !.hand = NoPicture, !.pending = NoTexture]
    <3>1. worker' = [worker EXCEPT ![l] = w] /\ taken' = taken \ {H(l), P(l)}
      BY <2>4 DEF Stop, H, P
    <3>2. IsWorker(w) /\ w.at = "ended" /\ w.hand = NoPicture /\ w.pending = NoTexture
      BY <1>1 DEF IsWorker
    <3> HIDE DEF w
    <3>3. QED
      BY <3>1, <3>2
  <2>5. QED
    BY <2>1, <2>2, <2>3, <2>4
<1>6. PICK w : /\ worker' = [worker EXCEPT ![l] = w]
               /\ IsWorker(w) /\ w.at \in {"loop", "ended"} /\ w.hand = NoPicture
               /\ \/ w.pending = P(l) /\ taken' = taken \ {H(l)}
                  \/ w.pending = H(l) /\ taken' = taken \ {P(l)}
                  \/ w.pending = NoTexture /\ taken' = taken \ {H(l), P(l)}
  BY <1>5
<1>7. /\ StillTyped' /\ OthersStay(l)
      /\ B(l)' = B(l) /\ H(l)' = w.hand.tex /\ P(l)' = w.pending /\ worker'[l] = w
  <2>1. worker'[l] = w
    BY <1>1, <1>6 DEF LaneTypeOK, StillTyped
  <2>2. /\ DOMAIN box' = Lanes /\ DOMAIN worker' = Lanes
        /\ \A m \in Lanes \ {l} : box'[m] = box[m] /\ worker'[m] = worker[m]
    BY <1>1, <1>4, <1>6 DEF LaneTypeOK, StillTyped
  <2>3. QED
    BY <1>1, <1>4, <1>6, <2>1, <2>2, LaneReplaced DEF B, H, P
<1>8. Drops(l)
  BY <1>6, <1>7 DEF Drops, NoPicture
<1>9. QED
  BY <1>3, <1>4, <1>6, <1>7, <1>8, WorkerStep DEF NoPicture

\* A finished picture goes to the lane of the snapshot, and the one it finds there
\* is freed.
LEMMA PublishStep ==
    ASSUME LaneInv, EmitGpu \/ EmitCpu
    PROVE  LaneInv'
<1> USE NoTextureIsNone DEF LaneInv
<1>1. snap \in Lanes /\ phase = "emit" /\ phase' = "idle"
  BY DEF EmitGpu, EmitCpu, FrameInOrder
<1>2. UNCHANGED <<worker, control, snap, ring>>
  BY DEF EmitGpu, EmitCpu
<1>3. C' = NoTexture
  BY <1>1 DEF EmitGpu, EmitCpu, FrameInOrder, C, NoPicture
<1>4. \/ UNCHANGED <<box, taken>> /\ C = NoTexture
      \/ \E picture : Publish(snap, picture) /\ picture.tex = C
  <2>1. CASE EmitGpu
    BY <2>1 DEF EmitGpu, C, NoPicture
  <2>2. CASE EmitCpu
    <3>1. C = NoTexture
      BY <2>2 DEF EmitCpu, FrameInOrder, Kinds
    <3>2. CASE UNCHANGED <<box, taken>>
      BY <3>1, <3>2
    <3>3. ASSUME NEW n, Publish(snap, [n |-> n, tex |-> NoTexture])
          PROVE  \E picture : Publish(snap, picture) /\ picture.tex = C
      <4> DEFINE picture == [n |-> n, tex |-> NoTexture]
      <4>1. picture.tex = C
        BY <3>1
      <4>2. Publish(snap, picture)
        BY <3>3
      <4> HIDE DEF picture
      <4>3. QED
        BY <4>1, <4>2
    <3>4. UNCHANGED <<box, taken>> \/ \E n : Publish(snap, [n |-> n, tex |-> NoTexture])
      BY <2>2 DEF EmitCpu
    <3>5. QED
      BY <3>2, <3>3, <3>4
  <2>3. QED
    BY <2>1, <2>2
<1>5. CASE UNCHANGED <<box, taken>> /\ C = NoTexture
  <2>1. LaneTypeOK' /\ FrameInOrder'
    BY <1>1, <1>2, <1>3, <1>5 DEF LaneTypeOK, StillTyped, FrameInOrder, control, H, P, C
  <2>2. \A l \in Lanes : B(l)' = B(l) /\ H(l)' = H(l) /\ P(l)' = P(l)
    BY <1>2, <1>5 DEF B, H, P
  <2>3. Apart' /\ Marked'
    BY <1>3, <1>5, <2>2 DEF Apart, Marked
  <2>4. QED
    BY <2>1, <2>3
<1>6. ASSUME NEW picture, Publish(snap, picture), picture.tex = C
      PROVE  LaneInv'
  <2>1. \A l \in Lanes : /\ B(l)' = IF l = snap THEN C ELSE B(l)
                         /\ H(l)' = H(l) /\ P(l)' = P(l)
    BY <1>1, <1>2, <1>6 DEF Publish, LaneTypeOK, StillTyped, B, H, P
  <2>2. taken' = taken \ {B(snap)}
    BY <1>6 DEF Publish, B
  <2>3. LaneTypeOK' /\ FrameInOrder'
    BY <1>1, <1>2, <1>3, <1>6, <2>2 DEF Publish, LaneTypeOK, StillTyped, FrameInOrder, control, H, P, C
  <2>4. Apart'
    BY <1>3, <2>1 DEF Apart
  <2>5. Marked'
    BY <1>1, <1>3, <2>1, <2>2 DEF Marked, Apart, LaneTypeOK
  <2>6. QED
    BY <2>3, <2>4, <2>5
<1>7. QED
  BY <1>4, <1>5, <1>6

\* Of a set of numbers that is not empty one is the least.
LEMMA LeastNumber ==
    ASSUME NEW T, T \subseteq Nat, T # {}
    PROVE  \E x \in T : \A y \in T : x <= y
<1> DEFINE R == OpToRel(<, Nat)
<1>1. \A x, y \in T : y < x => <<y, x>> \in R
  BY DEF OpToRel
<1>2. IsWellFoundedOn(R, Nat)
  BY NatLessThanWellFounded
<1> HIDE DEF R
<1>3. PICK x \in T : \A y \in T : ~ (<<y, x>> \in R)
  BY <1>2, WFMin
<1>4. \A y \in T : ~(y < x)
  BY <1>1, <1>3
<1>5. QED
  BY <1>4

\* copy finds the first free texture, if there is one.
LEMMA FirstFree ==
    ASSUME LaneTypeOK, Free # {}
    PROVE  (CHOOSE i \in Free : \A j \in Free : Offset(i) <= Offset(j)) \in Free
<1> DEFINE T == {Offset(j) : j \in Free}
<1>1. \A j \in Free : Offset(j) \in Nat
  BY RingAssumption DEF LaneTypeOK, Free, Offset
<1>2. T \subseteq Nat /\ T # {}
  BY <1>1
<1> HIDE DEF T
<1>3. PICK x \in T : \A y \in T : x <= y
  BY <1>2, LeastNumber
<1>4. \E i \in Free : \A j \in Free : Offset(i) <= Offset(j)
  BY <1>3 DEF T
<1>5. QED
  BY <1>4

\* The frame's copy takes a texture that is free, and so is nowhere.
LEMMA DrawStep ==
    ASSUME LaneInv, DrawGpu
    PROVE  LaneInv'
<1> USE NoTextureIsNone DEF LaneInv
<1>1. phase = "draw" /\ phase' = "emit" /\ kind[snap] = "gpu" /\ UNCHANGED <<snap, rb, control, box, worker>>
  BY DEF DrawGpu
<1>2. C = NoTexture
  BY <1>1 DEF FrameInOrder
<1>3. \A l \in Lanes : B(l)' = B(l) /\ H(l)' = H(l) /\ P(l)' = P(l)
  BY <1>1 DEF B, H, P
<1>4. CASE Free = {}
  <2>1. UNCHANGED <<taken, copied>> /\ ring' = [ring EXCEPT !.used = TRUE]
    BY <1>4 DEF DrawGpu
  <2>2. LaneTypeOK' /\ FrameInOrder'
    BY <1>1, <1>2, <2>1 DEF LaneTypeOK, StillTyped, FrameInOrder, control, H, P, C
  <2>3. Apart' /\ Marked'
    BY <1>3, <2>1 DEF Apart, Marked, C
  <2>4. QED
    BY <2>2, <2>3
<1>5. CASE Free # {}
  <2> DEFINE i == CHOOSE i \in Free : \A j \in Free : Offset(i) <= Offset(j)
             t == <<ring.number, i>>
  <2>1. /\ taken' = taken \cup {t}
        /\ copied' = [n |-> drawn + 1, tex |-> t]
        /\ ring' = [ring EXCEPT !.used = TRUE, !.next = (i + 1) % Ring]
    BY <1>5 DEF DrawGpu
  <2>2. i \in Free
    BY <1>5, FirstFree
  <2> HIDE DEF i
  <2>3. i \in 0..Ring - 1 /\ (i + 1) % Ring \in 0..Ring - 1
    BY <2>2, RingAssumption DEF Free
  <2>4. t \notin taken /\ t \in Textures
    BY <2>2, <2>3 DEF Free, Textures, LaneTypeOK
  <2>5. C' = t
    BY <2>1 DEF C
  <2> HIDE DEF t
  <2>6. LaneTypeOK'
    <3>1. ring' \in [number : 1..MaxRings, next : 0..Ring - 1, used : BOOLEAN]
      BY <2>1, <2>3 DEF LaneTypeOK
    <3>2. QED
      BY <1>1, <2>1, <2>4, <3>1 DEF LaneTypeOK, StillTyped, control
  <2>7. FrameInOrder'
    BY <1>1, <1>3 DEF FrameInOrder, control
  <2>8. Apart' /\ Marked'
    <3>1. \A l \in Lanes : B(l) # t /\ H(l) # t /\ P(l) # t
      BY <2>4 DEF Marked
    <3>2. Apart'
      BY <1>3, <2>5, <3>1 DEF Apart
    <3>3. Marked'
      <4>1. C' \in taken'
        BY <2>1, <2>5
      <4>2. \A l \in Lanes : /\ B(l)' # NoTexture => B(l)' \in taken'
                             /\ H(l)' # NoTexture => H(l)' \in taken'
                             /\ P(l)' # NoTexture => P(l)' \in taken'
        BY <1>3, <2>1 DEF Marked
      <4>3. \A x \in taken : x # C
        BY <1>2 DEF LaneTypeOK
      <4>4. \A x \in taken' : x = C' \/ \E l \in Lanes : x = B(l)' \/ x = H(l)' \/ x = P(l)'
        BY <1>3, <2>1, <2>5, <4>3 DEF Marked
      <4>5. QED
        BY <4>1, <4>2, <4>4 DEF Marked
    <3>4. QED
      BY <3>2, <3>3
  <2>9. QED
    BY <2>6, <2>7, <2>8
<1>6. QED
  BY <1>4, <1>5

\* The calls and the render thread otherwise leave the textures where they are.
LEMMA CallStep ==
    ASSUME LaneInv, (\E adds \in BOOLEAN : CallBegin(adds)) \/ RemoveEnd \/ AddFails
                      \/ Snapshot \/ SkipDraw \/ DrawCpu \/ Destroy \/ UNCHANGED laneVars
    PROVE  LaneInv'
<1> USE DEF LaneInv
<1>1. UNCHANGED <<box, taken, copied, worker, lanes, kind>>
  BY DEF CallBegin, RemoveEnd, AddFails, Snapshot, SkipDraw, DrawCpu, Destroy, laneVars, control, render
<1>2. Apart' /\ Marked'
  <2>1. box' = box /\ taken' = taken /\ copied' = copied /\ worker' = worker
    BY <1>1
  <2>2. \A l \in Lanes : B(l)' = B(l) /\ H(l)' = H(l) /\ P(l)' = P(l)
    BY <2>1 DEF B, H, P
  <2>3. QED
    BY <2>1, <2>2 DEF Apart, Marked, C
<1>3. LaneTypeOK'
  <2>1. UNCHANGED <<live, snap, phase, call, ring>> => LaneTypeOK'
    BY <1>1 DEF LaneTypeOK, StillTyped
  <2>2. ASSUME NEW adds \in BOOLEAN, CallBegin(adds) PROVE LaneTypeOK'
    BY <1>1, <2>2 DEF CallBegin, LaneTypeOK, StillTyped, render
  <2>3. CASE RemoveEnd \/ AddFails
    BY <1>1, <2>3 DEF RemoveEnd, AddFails, Calling, LaneTypeOK, StillTyped, render
  <2>4. CASE Snapshot
    <3>1. ring' \in [number : 1..MaxRings, next : 0..Ring - 1, used : BOOLEAN]
      <4>1. 0 \in 0..Ring - 1
        BY RingAssumption
      <4>2. CASE live = 0 /\ ring.used
        BY <2>4, <4>1, <4>2, LaneBoundAssumption DEF Snapshot, LaneTypeOK
      <4>3. CASE ~(live = 0 /\ ring.used)
        BY <2>4, <4>3 DEF Snapshot, LaneTypeOK
      <4>4. QED
        BY <4>2, <4>3
    <3>2. QED
      BY <1>1, <2>4, <3>1 DEF Snapshot, LaneTypeOK, StillTyped, control
  <2>5. CASE SkipDraw \/ DrawCpu
    BY <1>1, <2>5 DEF SkipDraw, DrawCpu, LaneTypeOK, StillTyped, control
  <2>6. CASE Destroy \/ UNCHANGED laneVars
    BY <2>1, <2>6 DEF Destroy, laneVars, control, render
  <2>7. QED
    BY <2>2, <2>3, <2>4, <2>5, <2>6
<1>4. FrameInOrder'
  <2>1. \A l \in Lanes : H(l)' = H(l) /\ P(l)' = P(l)
    BY <1>1 DEF H, P
  <2>2. C' = C
    BY <1>1 DEF C
  <2>3. UNCHANGED <<snap, phase>> => FrameInOrder'
    BY <1>1, <2>1, <2>2 DEF FrameInOrder
  <2>4. CASE Snapshot
    <3>1. live \in 0..lanes /\ lanes \in 0..MaxLanes /\ C = NoTexture
      BY <2>4 DEF LaneTypeOK, FrameInOrder, Snapshot
    <3>2. phase' # "idle" => snap' \in Lanes
      BY <2>4, <3>1, LaneBoundAssumption DEF Snapshot, Lanes
    <3>3. QED
      BY <1>1, <2>1, <2>2, <3>1, <3>2 DEF FrameInOrder
  <2>5. CASE SkipDraw \/ DrawCpu
    BY <1>1, <2>1, <2>2, <2>5 DEF FrameInOrder, SkipDraw, DrawCpu
  <2>6. (\E adds \in BOOLEAN : CallBegin(adds)) \/ RemoveEnd \/ AddFails \/ Destroy \/ UNCHANGED laneVars
          => UNCHANGED <<snap, phase>>
    BY DEF CallBegin, RemoveEnd, AddFails, Destroy, laneVars, render, control
  <2>7. QED
    BY <2>3, <2>4, <2>5, <2>6
<1>5. QED
  BY <1>2, <1>3, <1>4

LEMMA AddStep ==
    ASSUME LaneInv, NEW k \in Kinds, AddEnd(k)
    PROVE  LaneInv'
<1> USE DEF LaneInv
<1>1. lanes \in Nat /\ lanes < MaxLanes /\ lanes + 1 \in Lanes
  BY LaneBoundAssumption DEF AddEnd, LaneTypeOK, Lanes
<1>2. UNCHANGED <<box, taken, copied, snap, phase, ring>>
  BY DEF AddEnd, render
<1>3. /\ DOMAIN worker' = Lanes
      /\ \A l \in Lanes : worker'[l] = IF l = lanes + 1 THEN NewWorker ELSE worker[l]
  BY <1>1 DEF AddEnd, LaneTypeOK, StillTyped
<1>4. worker[lanes + 1].at = "none"
  BY <1>1 DEF FrameInOrder
<1>5. NewWorker.hand.tex = NoTexture /\ NewWorker.pending = NoTexture /\ NewWorker.at = "loop" /\ IsWorker(NewWorker)
  BY DEF NewWorker, NoPicture, IsWorker
<1>6. Apart' /\ Marked'
  <2>1. ASSUME NEW l \in Lanes PROVE B(l)' = B(l) /\ H(l)' = H(l) /\ P(l)' = P(l)
    <3>1. B(l)' = B(l)
      BY <1>2 DEF B
    <3>2. CASE l = lanes + 1
      <4>1. worker'[l] = NewWorker
        BY <1>3, <3>2
      <4>2. H(l) = NoTexture /\ P(l) = NoTexture
        BY <1>4, <3>2 DEF FrameInOrder
      <4>3. QED
        BY <1>5, <3>1, <4>1, <4>2 DEF H, P
    <3>3. CASE l # lanes + 1
      <4>1. worker'[l] = worker[l]
        BY <1>3, <3>3
      <4>2. QED
        BY <3>1, <4>1 DEF H, P
    <3>4. QED
      BY <3>2, <3>3
  <2>2. QED
    BY <1>2, <2>1 DEF Apart, Marked, C
<1>7. LaneTypeOK'
  <2>1. \A l \in Lanes : IsWorker(worker'[l])
    BY <1>3, <1>5 DEF LaneTypeOK, StillTyped
  <2>2. StillTyped'
    BY <1>2, <1>3, <2>1 DEF LaneTypeOK, StillTyped
  <2>3. lanes' = lanes + 1 /\ live' = lanes + 1 /\ ~call'.busy
    BY DEF AddEnd, Calling
  <2>4. kind' \in [Lanes -> Kinds]
    BY DEF AddEnd, LaneTypeOK
  <2>5. QED
    BY <1>1, <1>2, <2>2, <2>3, <2>4, LaneBoundAssumption DEF LaneTypeOK
<1>8. FrameInOrder'
  <2>1. \A l \in Lanes :
            /\ worker'[l].at \notin {"sending", "stopping"} => H(l)' = NoTexture
            /\ worker'[l].at = "none" => P(l)' = NoTexture
            /\ l > lanes' => worker'[l].at = "none"
    BY <1>1, <1>3, <1>5 DEF AddEnd, FrameInOrder, H, P, Lanes
  <2>2. C' # NoTexture => phase' = "emit" /\ kind'[snap'] = "gpu"
    <3>1. C # NoTexture => snap \in Lanes /\ snap # lanes + 1
      BY <1>1 DEF FrameInOrder, LaneTypeOK
    <3>2. snap \in Lanes /\ snap # lanes + 1 => kind'[snap] = kind[snap]
      BY DEF AddEnd, LaneTypeOK
    <3>3. QED
      BY <1>2, <3>1, <3>2 DEF FrameInOrder, C
  <2>3. QED
    BY <1>2, <2>1, <2>2 DEF FrameInOrder
<1>9. QED
  BY <1>6, <1>7, <1>8

THEOREM LaneInvariance == LaneSpec => []LaneInv
<1>1. LaneInit => LaneInv
  <2> SUFFICES ASSUME LaneInit PROVE LaneInv
    OBVIOUS
  <2>1. LaneTypeOK
    BY RingAssumption, LaneBoundAssumption
       DEF LaneInit, LaneTypeOK, StillTyped, IsWorker, NoWorker, NewWorker, Calling, Kinds
  <2>2. C = NoTexture /\ \A l \in Lanes : B(l) = NoTexture /\ H(l) = NoTexture /\ P(l) = NoTexture
    BY DEF LaneInit, NoWorker, NewWorker, NoPicture, C, B, H, P
  <2>3. \A l \in Lanes : worker[l].at = "none"
    BY DEF LaneInit, NoWorker, NewWorker
  <2>4. QED
    BY <2>1, <2>2, <2>3 DEF LaneInit, LaneInv, FrameInOrder, Apart, Marked
<1>2. LaneInv /\ [LaneNext]_laneVars => LaneInv'
  BY TakeStep, DropStep, PublishStep, DrawStep, CallStep, AddStep DEF LaneNext
<1>3. QED
  BY <1>1, <1>2, PTL DEF LaneSpec

\* A texture of an output's ring that is marked busy is in one place only, and one
\* that is not is in none: no picture is drawn over one that is still being sent,
\* and no way of dropping a picture keeps its texture.
THEOREM TexturesHaveOneHolder == LaneSpec => []EachTextureHasOneHolder
<1>1. ASSUME LaneInv PROVE EachTextureHasOneHolder
  <2> SUFFICES ASSUME NEW t \in Textures
               PROVE  Cardinality(Holders(t)) = IF t \in taken THEN 1 ELSE 0
    BY DEF EachTextureHasOneHolder
  <2> USE NoTextureIsNone, <1>1 DEF LaneInv
  <2>1. \A p : p \in Holders(t) <=>
           \/ p = <<"frame", 0>> /\ C = t
           \/ \E l \in Lanes : \/ p = <<"box", l>> /\ B(l) = t
                               \/ p = <<"hand", l>> /\ H(l) = t
                               \/ p = <<"pending", l>> /\ P(l) = t
    BY DEF Holders, C, B, H, P
  <2>2. CASE t \notin taken
    <3>1. Holders(t) = {}
      BY <2>1, <2>2 DEF Marked
    <3>2. QED
      BY <2>2, <3>1, FS_EmptySet
  <2>3. CASE t \in taken
    <3>1. \E p : p \in Holders(t)
      BY <2>1, <2>3 DEF Marked
    <3>2. \A p, q : p \in Holders(t) /\ q \in Holders(t) => p = q
      BY <2>1 DEF Apart
    <3>3. PICK p : Holders(t) = {p}
      BY <3>1, <3>2
    <3>4. QED
      BY <2>3, <3>3, FS_Singleton
  <2>4. QED
    BY <2>2, <2>3
<1>2. QED
  BY <1>1, LaneInvariance, PTL

-----------------------------------------------------------------------------
(* The order of the pictures of an output *)

Slots == 0..Buffers - 1
\* The buffer that advance maps after it wrote buffer i.
Following(i) == IF i = Buffers - 1 THEN 0 ELSE i + 1
\* Slot i was drawn before slot j when w is the one drawn last.
Before(w, i, j) == (i > w /\ (j > i \/ j < w)) \/ (i < j /\ j < w)

\* A picture x in the mailbox of a lane of kind k and its worker w.
Numbered(x, w) ==
    x.n \in Nat /\ w.cpu \in Nat /\ w.sent \in Nat /\ w.hand.n \in Nat
UpTo(x, w, n) == x.n <= n /\ w.cpu <= n /\ w.sent <= n /\ w.hand.n <= n
Follows(x, w, k) ==
    /\ w.at = "sending" => w.sent <= w.hand.n
    /\ x # NoPicture => /\ w.sent <= x.n /\ w.cpu <= x.n
                        /\ w.at = "sending" => w.hand.n <= x.n
                        /\ x.tex = NoTexture <=> k = "cpu"
    /\ k = "gpu" => w.cpu = 0 /\ (w.at = "sending" => w.hand.tex # NoTexture)
    /\ k = "cpu" => w.sent <= w.cpu /\ (w.at = "sending" => w.hand.n = w.cpu /\ w.hand.tex = NoTexture)
Fresh(x, w) == x = NoPicture /\ w.hand = NoPicture /\ w.cpu = 0 /\ w.sent = 0 /\ w.at # "sending"

\* The records of a readback; what is pending does not matter here.
IsReadback(r) ==
    /\ DOMAIN r = {"slots", "write", "mapped"}
    /\ r.write \in Slots /\ r.mapped \in Nat
    /\ DOMAIN r.slots = Slots
    /\ \A i \in Slots : DOMAIN r.slots[i] = {"n", "pending", "waiting"} /\ r.slots[i].n \in Nat

\* Only the buffer after the one written last may be waiting, and the buffers
\* hold pictures in the order they were drawn, none older than the one mapped last.
InTurn(r) ==
    /\ \A i \in Slots : r.slots[i].waiting => i = Following(r.write)
    /\ \A i \in Slots : i # r.write => r.mapped <= r.slots[i].n
    /\ \A i, j \in Slots : Before(r.write, i, j) => r.slots[i].n <= r.slots[j].n

\* What a lane holds was drawn; what the lane of the snapshot holds of a CPU output
\* is not newer than what the readback mapped last, which it may be sent next.
LaneOrder(l) ==
    /\ Numbered(box[l], worker[l])
    /\ Follows(box[l], worker[l], kind[l])
    /\ UpTo(box[l], worker[l], drawn)
    /\ kind[l] = "cpu" /\ l = snap => UpTo(box[l], worker[l], rb.mapped)

\* The readback holds pictures that were drawn, the one of this frame in its turn.
ReadbackOrder ==
    /\ IsReadback(rb) /\ InTurn(rb)
    /\ \A i \in Slots : rb.slots[i].n <= drawn
    /\ phase = "emit" /\ kind[snap] = "cpu" => rb.slots[rb.write].n = drawn

\* A lane that the render thread has no snapshot of yet has nothing, so the
\* readback may start again before it.
OrderInv ==
    /\ drawn \in Nat
    /\ ReadbackOrder
    /\ \A l \in Lanes : LaneOrder(l)
    /\ \A l \in Lanes : l > lanes \/ (l = live /\ l # snap) => Fresh(box[l], worker[l])
    /\ copied # NoPicture => copied.n = drawn /\ copied.tex # NoTexture

\* What every step keeps and shows.
NotOlder == \A l \in Lanes : worker'[l].sent >= worker[l].sent
OrderStep == OrderInv' /\ NotOlder

\* A step of the worker of lane l.
LEMMA WorkerOrder ==
    ASSUME OrderInv, NEW l \in Lanes,
           \A m \in Lanes : m # l => box'[m] = box[m] /\ worker'[m] = worker[m],
           UNCHANGED <<control, render>>,
           Numbered(box'[l], worker'[l]), Follows(box'[l], worker'[l], kind[l]),
           \A n \in Nat : UpTo(box[l], worker[l], n) => UpTo(box'[l], worker'[l], n),
           Fresh(box[l], worker[l]) => Fresh(box'[l], worker'[l]),
           worker'[l].sent >= worker[l].sent
    PROVE  OrderStep
<1>1. UNCHANGED <<live, lanes, kind, snap, phase, drawn, copied, rb>>
  BY DEF control, render
<1>2. ASSUME NEW m \in Lanes PROVE LaneOrder(m)'
  <2>1. LaneOrder(m)
    BY DEF OrderInv
  <2>2. CASE m = l
    <3>1. drawn \in Nat /\ rb.mapped \in Nat
      BY DEF OrderInv, ReadbackOrder, IsReadback
    <3>2. QED
      BY <1>1, <2>1, <2>2, <3>1 DEF LaneOrder
  <2>3. CASE m # l
    BY <1>1, <2>1, <2>3 DEF LaneOrder
  <2>4. QED
    BY <2>2, <2>3
<1>3. ReadbackOrder'
  BY <1>1 DEF OrderInv, ReadbackOrder
<1>4. \A m \in Lanes : m > lanes' \/ (m = live' /\ m # snap') => Fresh(box'[m], worker'[m])
  BY <1>1 DEF OrderInv
<1>5. OrderInv'
  BY <1>1, <1>2, <1>3, <1>4 DEF OrderInv
<1>6. \A m \in Lanes : worker[m].sent \in Nat
  BY DEF OrderInv, LaneOrder, Numbered
<1>7. NotOlder
  BY <1>6 DEF NotOlder
<1>8. QED
  BY <1>5, <1>7 DEF OrderStep

\* A picture taken is the newest the worker has had; a repeat is of its last one.
LEMMA TakeOrder ==
    ASSUME LaneInv, OrderInv, NEW l \in Lanes, Take(l)
    PROVE  OrderStep
<1> DEFINE next == IF box[l] # NoPicture THEN box[l] ELSE [n |-> worker[l].cpu, tex |-> NoTexture]
           c == IF next.tex = NoTexture THEN next.n ELSE worker[l].cpu
           w == [worker[l] EXCEPT !.at = "sending", !.hand = next, !.cpu = c]
<1>1. /\ next # NoPicture
      /\ box' = [box EXCEPT ![l] = NoPicture] /\ worker' = [worker EXCEPT ![l] = w]
      /\ UNCHANGED <<control, render>> /\ worker[l].at = "loop"
  BY DEF Take
<1>2. IsWorker(worker[l]) /\ kind[l] \in {"gpu", "cpu"}
  BY DEF LaneInv, LaneTypeOK, StillTyped, Kinds
<1>3. LaneOrder(l)
  BY DEF OrderInv
<1>4. /\ next.n \in Nat /\ worker[l].sent <= next.n /\ worker[l].cpu <= next.n
      /\ next.tex = NoTexture <=> kind[l] = "cpu"
      /\ \A n \in Nat : UpTo(box[l], worker[l], n) => next.n <= n
  <2>1. CASE box[l] # NoPicture
    BY <1>3, <2>1 DEF LaneOrder, Follows, Numbered, UpTo
  <2>2. CASE box[l] = NoPicture
    <3>1. next = [n |-> worker[l].cpu, tex |-> NoTexture] /\ worker[l].cpu # 0
      BY <1>1, <2>2 DEF NoPicture
    <3>2. kind[l] = "cpu"
      BY <1>2, <1>3, <3>1 DEF LaneOrder, Follows
    <3>3. QED
      BY <1>3, <3>1, <3>2 DEF LaneOrder, Follows, Numbered, UpTo
  <2>3. QED
    BY <2>1, <2>2
<1>5. ~Fresh(box[l], worker[l])
  BY <1>1 DEF Fresh, NoPicture
<1> HIDE DEF next
<1>6. /\ c \in Nat
      /\ kind[l] = "cpu" => c = next.n
      /\ kind[l] = "gpu" => c = worker[l].cpu
  BY <1>2, <1>3, <1>4 DEF LaneOrder, Numbered
<1> HIDE DEF c
<1>7. worker'[l] = w /\ box'[l] = NoPicture
      /\ \A m \in Lanes : m # l => box'[m] = box[m] /\ worker'[m] = worker[m]
  BY <1>1 DEF LaneInv, LaneTypeOK, StillTyped
<1>8. w.at = "sending" /\ w.hand = next /\ w.cpu = c /\ w.sent = worker[l].sent
  BY <1>2 DEF IsWorker
<1> HIDE DEF w
<1>9. NoPicture.n = 0
  BY DEF NoPicture
<1>10. Numbered(NoPicture, w)
  BY <1>3, <1>4, <1>6, <1>8, <1>9 DEF Numbered, LaneOrder
<1>11. Follows(NoPicture, w, kind[l])
  BY <1>2, <1>3, <1>4, <1>6, <1>8 DEF Follows, LaneOrder, Numbered
<1>12. \A n \in Nat : UpTo(box[l], worker[l], n) => UpTo(NoPicture, w, n)
  <2>1. c = next.n \/ c = worker[l].cpu
    BY <1>2, <1>6
  <2>2. QED
    BY <1>4, <1>8, <1>9, <2>1 DEF UpTo
<1>13. w.sent >= worker[l].sent
  BY <1>3, <1>8 DEF LaneOrder, Numbered
<1>14. QED
  BY <1>1, <1>5, <1>7, <1>10, <1>11, <1>12, <1>13, WorkerOrder

\* The picture in hand is sent or dropped; the last one of the mailbox is not sent.
LEMMA SendOrder ==
    ASSUME LaneInv, OrderInv, NEW l \in Lanes, Send(l) \/ SendFails(l) \/ SendPanics(l) \/ LastTake(l) \/ Stop(l)
    PROVE  OrderStep
<1>1. IsWorker(worker[l]) /\ DOMAIN box = Lanes
  BY DEF LaneInv, LaneTypeOK, StillTyped
<1>2. LaneOrder(l)
  BY DEF OrderInv
<1>3. NoPicture.n = 0
  BY DEF NoPicture
<1>4. /\ UNCHANGED <<control, render>>
      /\ box'[l] = box[l] \/ box'[l] = NoPicture
      /\ \A m \in Lanes : m # l => box'[m] = box[m]
  <2>1. CASE LastTake(l)
    BY <1>1, <2>1 DEF LastTake
  <2>2. CASE ~LastTake(l)
    BY <2>2 DEF Send, SendFails, SendPanics, Stop
  <2>3. QED
    BY <2>1, <2>2
<1>5. \E w : /\ worker' = [worker EXCEPT ![l] = w]
             /\ w.at # "sending" /\ w.cpu = worker[l].cpu
             /\ w.hand = NoPicture \/ w.hand = box[l]
             /\ w.sent = worker[l].sent \/ (worker[l].at = "sending" /\ w.sent = worker[l].hand.n)
  <2>1. CASE Send(l)
    <3> DEFINE p == IF worker[l].hand.tex = NoTexture THEN worker[l].pending ELSE worker[l].hand.tex
               w == [worker[l] EXCEPT !.at = "loop", !.hand = NoPicture, !.sent = worker[l].hand.n, !.pending = p]
    <3>1. worker' = [worker EXCEPT ![l] = w]
      BY <2>1 DEF Send
    <3>2. w.at = "loop" /\ w.hand = NoPicture /\ w.cpu = worker[l].cpu /\ w.sent = worker[l].hand.n
      BY <1>1 DEF IsWorker
    <3>3. worker[l].at = "sending"
      BY <2>1 DEF Send
    <3> HIDE DEF w
    <3>4. QED
      BY <3>1, <3>2, <3>3
  <2>2. CASE SendFails(l)
    <3> DEFINE p == IF worker[l].hand.tex = NoTexture THEN worker[l].pending ELSE NoTexture
               w == [worker[l] EXCEPT !.at = "loop", !.hand = NoPicture, !.pending = p]
    <3>1. worker' = [worker EXCEPT ![l] = w]
      BY <2>2 DEF SendFails
    <3>2. w.at = "loop" /\ w.hand = NoPicture /\ w.cpu = worker[l].cpu /\ w.sent = worker[l].sent
      BY <1>1 DEF IsWorker
    <3> HIDE DEF w
    <3>3. QED
      BY <3>1, <3>2
  <2>3. CASE SendPanics(l)
    <3> DEFINE w == [worker[l] EXCEPT !.at = "loop", !.hand = NoPicture]
    <3>1. worker' = [worker EXCEPT ![l] = w]
      BY <2>3 DEF SendPanics
    <3>2. w.at = "loop" /\ w.hand = NoPicture /\ w.cpu = worker[l].cpu /\ w.sent = worker[l].sent
      BY <1>1 DEF IsWorker
    <3> HIDE DEF w
    <3>3. QED
      BY <3>1, <3>2
  <2>4. CASE LastTake(l)
    <3> DEFINE w == [worker[l] EXCEPT !.at = "stopping", !.hand = box[l]]
    <3>1. worker' = [worker EXCEPT ![l] = w]
      BY <2>4 DEF LastTake
    <3>2. w.at = "stopping" /\ w.hand = box[l] /\ w.cpu = worker[l].cpu /\ w.sent = worker[l].sent
      BY <1>1 DEF IsWorker
    <3> HIDE DEF w
    <3>3. QED
      BY <3>1, <3>2
  <2>5. CASE Stop(l)
    <3> DEFINE w == [worker[l] EXCEPT !.at = "ended", !.hand = NoPicture, !.pending = NoTexture]
    <3>1. worker' = [worker EXCEPT ![l] = w]
      BY <2>5 DEF Stop
    <3>2. w.at = "ended" /\ w.hand = NoPicture /\ w.cpu = worker[l].cpu /\ w.sent = worker[l].sent
      BY <1>1 DEF IsWorker
    <3> HIDE DEF w
    <3>3. QED
      BY <3>1, <3>2
  <2>6. QED
    BY <2>1, <2>2, <2>3, <2>4, <2>5
<1>6. PICK w : /\ worker' = [worker EXCEPT ![l] = w]
               /\ w.at # "sending" /\ w.cpu = worker[l].cpu
               /\ w.hand = NoPicture \/ w.hand = box[l]
               /\ w.sent = worker[l].sent \/ (worker[l].at = "sending" /\ w.sent = worker[l].hand.n)
  BY <1>5
<1>7. worker'[l] = w /\ \A m \in Lanes : m # l => worker'[m] = worker[m]
  BY <1>6 DEF LaneInv, LaneTypeOK, StillTyped
<1>8. Numbered(box'[l], w) /\ w.sent >= worker[l].sent
  BY <1>2, <1>3, <1>4, <1>6 DEF LaneOrder, Numbered, Follows
<1>9. Follows(box'[l], w, kind[l])
  BY <1>2, <1>4, <1>6 DEF LaneOrder, Numbered, Follows
<1>10. \A n \in Nat : UpTo(box[l], worker[l], n) => UpTo(box'[l], w, n)
  BY <1>2, <1>3, <1>4, <1>6 DEF UpTo, LaneOrder, Numbered
<1>11. Fresh(box[l], worker[l]) => Fresh(box'[l], w)
  BY <1>4, <1>6 DEF Fresh
<1>12. QED
  BY <1>4, <1>7, <1>8, <1>9, <1>10, <1>11, WorkerOrder

\* A lane that is fresh is in order whatever it is fed with and whatever was drawn.
LEMMA FreshIsInOrder ==
    ASSUME NEW x, NEW w, NEW k, Fresh(x, w)
    PROVE  Numbered(x, w) /\ Follows(x, w, k) /\ \A n \in Nat : UpTo(x, w, n)
<1>1. NoPicture.n = 0
  BY DEF NoPicture
<1>2. QED
  BY <1>1 DEF Fresh, Numbered, Follows, UpTo

\* What was drawn stays drawn.
LEMMA GrowsUpTo ==
    ASSUME NEW x, NEW w, Numbered(x, w), NEW n \in Nat, NEW m \in Nat, n <= m, UpTo(x, w, n)
    PROVE  UpTo(x, w, m)
  BY DEF Numbered, UpTo

\* What a readback mapped last was drawn before what is in its buffers.
LEMMA MappedIsDrawn ==
    ASSUME OrderInv PROVE rb.mapped \in Nat /\ drawn \in Nat /\ rb.mapped <= drawn
<1> DEFINE f == Following(rb.write)
<1>1. f \in Slots /\ f # rb.write /\ rb.write \in Slots
  BY RingAssumption DEF OrderInv, ReadbackOrder, IsReadback, Following, Slots
<1>2. rb.mapped <= rb.slots[f].n /\ rb.slots[f].n <= drawn /\ rb.slots[f].n \in Nat
  BY <1>1 DEF OrderInv, ReadbackOrder, IsReadback, InTurn
<1>3. QED
  BY <1>2 DEF OrderInv, ReadbackOrder, IsReadback

\* The calls leave the pictures alone; a new lane begins with none.
LEMMA CallOrder ==
    ASSUME LaneInv, OrderInv, (\E adds \in BOOLEAN : CallBegin(adds)) \/ RemoveEnd \/ AddFails \/ Destroy
    PROVE  OrderStep
<1>1. UNCHANGED <<lanes, kind, snap, phase, drawn, copied, rb, box, worker>> /\ live' \in {0, live}
  BY DEF CallBegin, RemoveEnd, AddFails, Destroy, control, render
<1>2. ReadbackOrder' /\ \A l \in Lanes : LaneOrder(l)'
  BY <1>1 DEF OrderInv, ReadbackOrder, LaneOrder
<1>3. \A l \in Lanes : l # 0
  BY DEF Lanes
<1>4. OrderInv'
  BY <1>1, <1>2, <1>3 DEF OrderInv
<1>5. \A m \in Lanes : worker[m].sent \in Nat
  BY DEF OrderInv, LaneOrder, Numbered
<1>6. QED
  BY <1>1, <1>4, <1>5 DEF OrderStep, NotOlder

\* A new lane is beyond those there were and has nothing in its mailbox.
LEMMA AddOrder ==
    ASSUME LaneInv, OrderInv, NEW k \in Kinds, AddEnd(k)
    PROVE  OrderStep
<1> DEFINE l == lanes + 1
<1>1. l \in Lanes /\ snap # l /\ lanes \in Nat /\ (phase = "emit" => snap \in Lanes)
  BY LaneBoundAssumption DEF LaneInv, LaneTypeOK, FrameInOrder, AddEnd, Lanes
<1>2. /\ lanes' = l /\ live' = l
      /\ kind'[l] = k /\ \A m \in Lanes : m # l => kind'[m] = kind[m]
      /\ worker'[l] = NewWorker /\ \A m \in Lanes : m # l => worker'[m] = worker[m]
      /\ UNCHANGED <<snap, phase, drawn, copied, rb, box>>
  BY <1>1 DEF AddEnd, LaneInv, LaneTypeOK, StillTyped, render
<1> HIDE DEF l
<1>3. Fresh(box[l], worker[l])
  BY <1>1, <1>2 DEF OrderInv, AddEnd
<1>4. Fresh(box'[l], worker'[l])
  BY <1>2, <1>3 DEF Fresh, NewWorker
<1>5. drawn' \in Nat /\ rb'.mapped \in Nat
  BY <1>2, MappedIsDrawn
<1>6. ASSUME NEW m \in Lanes PROVE LaneOrder(m)'
  <2>1. CASE m = l
    BY <1>4, <1>5, <2>1, FreshIsInOrder DEF LaneOrder
  <2>2. CASE m # l
    BY <1>2, <2>2 DEF OrderInv, LaneOrder
  <2>3. QED
    BY <2>1, <2>2
<1>7. ReadbackOrder'
  BY <1>1, <1>2 DEF OrderInv, ReadbackOrder
<1>8. \A m \in Lanes : m > lanes' \/ (m = live' /\ m # snap') => Fresh(box'[m], worker'[m])
  <2>1. \A m \in Lanes : m > l => m > lanes /\ m # l
    BY <1>1 DEF l, Lanes
  <2>2. QED
    BY <1>2, <1>4, <2>1 DEF OrderInv
<1>9. OrderInv'
  BY <1>2, <1>6, <1>7, <1>8 DEF OrderInv
<1>10. worker'[l].sent = worker[l].sent /\ \A m \in Lanes : worker[m].sent \in Nat
  BY <1>3, <1>4 DEF OrderInv, LaneOrder, Numbered, Fresh
<1>11. NotOlder
  BY <1>2, <1>10 DEF NotOlder
<1>12. QED
  BY <1>9, <1>11 DEF OrderStep

\* A readback starts again only before a lane that has nothing.
LEMMA SnapshotOrder ==
    ASSUME LaneInv, OrderInv, Snapshot \/ SkipDraw
    PROVE  OrderStep
<1>1. UNCHANGED <<live, lanes, kind, drawn, copied, box, worker>> /\ phase' # "emit"
  BY DEF Snapshot, SkipDraw, control
<1>2. NotOlder
  BY <1>1 DEF NotOlder, OrderInv, LaneOrder, Numbered
<1>3. CASE SkipDraw
  BY <1>1, <1>2, <1>3 DEF SkipDraw, OrderStep, OrderInv, ReadbackOrder, LaneOrder
<1>4. CASE Snapshot
  <2>1. snap' = live /\ (live = 0 => rb' = NewReadback) /\ (live # 0 => rb' = rb)
    BY <1>4 DEF Snapshot
  <2>2. ReadbackOrder'
    <3>1. CASE live = 0
      <4>1. IsReadback(NewReadback) /\ NewReadback.mapped = 0
        BY RingAssumption DEF IsReadback, NewReadback, Slots
      <4>2. \A i \in Slots : NewReadback.slots[i].n = 0 /\ ~NewReadback.slots[i].waiting
        BY DEF NewReadback, Slots
      <4>3. InTurn(NewReadback)
        BY <4>1, <4>2 DEF InTurn
      <4>4. \A i \in Slots : NewReadback.slots[i].n <= drawn
        BY <4>2 DEF OrderInv
      <4>5. QED
        BY <1>1, <2>1, <3>1, <4>1, <4>3, <4>4 DEF ReadbackOrder
    <3>2. CASE live # 0
      BY <1>1, <2>1, <3>2 DEF OrderInv, ReadbackOrder
    <3>3. QED
      BY <3>1, <3>2
  <2>3. ASSUME NEW l \in Lanes PROVE LaneOrder(l)'
    <3>1. LaneOrder(l) /\ l # 0
      BY DEF OrderInv, Lanes
    <3>2. kind[l] = "cpu" /\ l = live => UpTo(box[l], worker[l], rb'.mapped)
      <4>1. CASE l = live /\ l = snap
        BY <2>1, <3>1, <4>1 DEF LaneOrder
      <4>2. CASE l = live /\ l # snap
        <5>1. Fresh(box[l], worker[l]) /\ rb'.mapped = rb.mapped /\ rb.mapped \in Nat
          BY <2>1, <3>1, <4>2, MappedIsDrawn DEF OrderInv
        <5>2. QED
          BY <5>1, FreshIsInOrder
      <4>3. QED
        BY <4>1, <4>2
    <3>3. QED
      BY <1>1, <2>1, <3>1, <3>2 DEF LaneOrder
  <2>4. OrderInv'
    BY <1>1, <2>1, <2>2, <2>3 DEF OrderInv
  <2>5. QED
    BY <1>2, <2>4 DEF OrderStep
<1>5. QED
  BY <1>3, <1>4

\* A picture is drawn into the buffer that is not waiting, with the next number.
LEMMA DrawOrder ==
    ASSUME LaneInv, OrderInv, DrawGpu \/ DrawCpu
    PROVE  OrderStep
<1>1. /\ UNCHANGED <<live, lanes, kind, snap, box, worker>>
      /\ drawn' = drawn + 1 /\ phase = "draw" /\ phase' = "emit"
  BY DEF DrawGpu, DrawCpu, control
<1>2. copied = NoPicture
  BY <1>1 DEF OrderInv, LaneInv, FrameInOrder, C
<1>3. drawn \in Nat /\ drawn' \in Nat /\ drawn <= drawn'
  BY <1>1 DEF OrderInv
<1>4. rb'.mapped = rb.mapped /\ ReadbackOrder'
  <2>1. CASE DrawGpu
    <3>1. rb' = rb /\ kind[snap] = "gpu"
      BY <2>1 DEF DrawGpu
    <3>2. \A i \in Slots : rb.slots[i].n <= drawn'
      BY <1>3 DEF OrderInv, ReadbackOrder, IsReadback
    <3>3. QED
      BY <1>1, <3>1, <3>2 DEF OrderInv, ReadbackOrder
  <2>2. CASE DrawCpu
    <3>1. IsReadback(rb) /\ InTurn(rb)
      BY DEF OrderInv, ReadbackOrder
    <3>2. rb.write \in Slots /\ ~rb.slots[rb.write].waiting
      BY <3>1, RingAssumption DEF IsReadback, InTurn, Following, Slots
    <3>3. rb' = [rb EXCEPT !.slots[rb.write].n = drawn + 1]
      BY <2>2, <3>2 DEF DrawCpu
    <3>4. /\ rb'.write = rb.write /\ rb'.mapped = rb.mapped
          /\ DOMAIN rb' = {"slots", "write", "mapped"} /\ DOMAIN rb'.slots = Slots
          /\ rb'.slots[rb.write] = [rb.slots[rb.write] EXCEPT !.n = drawn + 1]
          /\ \A i \in Slots : i # rb.write => rb'.slots[i] = rb.slots[i]
      BY <3>1, <3>2, <3>3 DEF IsReadback
    <3>5. /\ DOMAIN rb'.slots[rb.write] = {"n", "pending", "waiting"}
          /\ rb'.slots[rb.write].n = drawn'
          /\ rb'.slots[rb.write].waiting = rb.slots[rb.write].waiting
      BY <1>1, <3>1, <3>2, <3>4 DEF IsReadback
    <3>6. IsReadback(rb')
      BY <1>3, <3>1, <3>4, <3>5 DEF IsReadback
    <3>7. InTurn(rb')
      <4>1. \A i, j \in Slots : Before(rb.write, i, j) => i # rb.write /\ j # rb.write
        BY <3>2 DEF Before, Slots
      <4>2. QED
        BY <3>1, <3>2, <3>4, <3>5, <4>1 DEF InTurn
    <3>8. \A i \in Slots : rb'.slots[i].n <= drawn'
      BY <1>3, <3>1, <3>4, <3>5 DEF OrderInv, ReadbackOrder, IsReadback
    <3>9. QED
      BY <1>1, <3>4, <3>5, <3>6, <3>7, <3>8 DEF ReadbackOrder
  <2>3. QED
    BY <2>1, <2>2
<1>5. ASSUME NEW l \in Lanes PROVE LaneOrder(l)'
  <2>1. LaneOrder(l)
    BY DEF OrderInv
  <2>2. UpTo(box[l], worker[l], drawn')
    BY <1>3, <2>1, GrowsUpTo DEF LaneOrder
  <2>3. QED
    BY <1>1, <1>4, <2>1, <2>2 DEF LaneOrder
<1>6. copied' # NoPicture => copied'.n = drawn' /\ copied'.tex # NoTexture
  <2>1. CASE copied' = copied
    BY <1>2, <2>1
  <2>2. CASE copied' # copied
    <3> DEFINE i == CHOOSE i \in Free : \A j \in Free : Offset(i) <= Offset(j)
    <3>1. Free # {} /\ copied' = [n |-> drawn + 1, tex |-> <<ring.number, i>>]
      BY <2>2 DEF DrawGpu, DrawCpu
    <3>2. i \in Free /\ ring.number # 0
      BY <3>1, FirstFree DEF LaneInv, LaneTypeOK
    <3> HIDE DEF i
    <3>3. QED
      BY <1>1, <3>1, <3>2 DEF NoTexture
  <2>3. QED
    BY <2>1, <2>2
<1>7. OrderInv'
  BY <1>1, <1>3, <1>4, <1>5, <1>6 DEF OrderInv
<1>8. \A m \in Lanes : worker[m].sent \in Nat
  BY DEF OrderInv, LaneOrder, Numbered
<1>9. QED
  BY <1>1, <1>7, <1>8 DEF OrderStep, NotOlder

\* The render thread puts a picture in the mailbox of the lane of its snapshot.
LEMMA PublishOrder ==
    ASSUME LaneInv, OrderInv, NEW x, snap \in Lanes, x # NoPicture, x.n \in Nat, x.n <= drawn,
           x.tex = NoTexture <=> kind[snap] = "cpu",
           UpTo(box[snap], worker[snap], x.n),
           box' = [box EXCEPT ![snap] = x],
           ReadbackOrder', copied' = NoPicture \/ copied' = copied,
           rb'.mapped >= rb.mapped, rb'.mapped \in Nat, kind[snap] = "cpu" => rb'.mapped = x.n,
           UNCHANGED <<live, lanes, kind, snap, drawn, worker>>
    PROVE  OrderStep
<1>1. box'[snap] = x /\ \A m \in Lanes : m # snap => box'[m] = box[m]
  BY DEF LaneInv, LaneTypeOK, StillTyped
<1>2. ASSUME NEW l \in Lanes PROVE LaneOrder(l)'
  <2>1. LaneOrder(l) /\ drawn \in Nat
    BY DEF OrderInv
  <2>2. CASE l = snap
    <3>1. Numbered(x, worker[l])
      BY <2>1 DEF Numbered, LaneOrder
    <3>2. Follows(x, worker[l], kind[l])
      BY <2>1, <2>2 DEF Follows, UpTo, LaneOrder
    <3>3. UpTo(x, worker[l], x.n)
      BY <2>2 DEF UpTo
    <3>4. UpTo(x, worker[l], drawn)
      BY <2>1, <3>1, <3>3, GrowsUpTo
    <3>5. QED
      BY <1>1, <2>2, <3>1, <3>2, <3>3, <3>4 DEF LaneOrder
  <2>3. CASE l # snap
    BY <1>1, <2>1, <2>3 DEF LaneOrder
  <2>4. QED
    BY <2>2, <2>3
<1>3. \A l \in Lanes : l > lanes' \/ (l = live' /\ l # snap') => Fresh(box'[l], worker'[l])
  <2>1. snap <= lanes /\ snap \in Nat /\ lanes \in Nat
    BY DEF LaneInv, LaneTypeOK
  <2>2. QED
    BY <1>1, <2>1 DEF OrderInv
<1>4. OrderInv'
  BY <1>2, <1>3 DEF OrderInv
<1>5. \A m \in Lanes : worker[m].sent \in Nat
  BY DEF OrderInv, LaneOrder, Numbered
<1>6. QED
  BY <1>4, <1>5 DEF OrderStep, NotOlder

\* The GPU copy of the frame is the newest picture.
LEMMA EmitGpuOrder ==
    ASSUME LaneInv, OrderInv, EmitGpu
    PROVE  OrderStep
<1>1. /\ UNCHANGED <<snap, drawn, rb, live, lanes, kind, worker>>
      /\ copied' = NoPicture /\ phase' = "idle" /\ kind[snap] = "gpu" /\ snap \in Lanes
  BY DEF EmitGpu, control, LaneInv, FrameInOrder
<1>2. ReadbackOrder' /\ rb.mapped \in Nat /\ drawn \in Nat
  BY <1>1, MappedIsDrawn DEF OrderInv, ReadbackOrder
<1>3. CASE copied = NoPicture
  <2>1. box' = box
    BY <1>3 DEF EmitGpu
  <2>2. OrderInv'
    BY <1>1, <1>2, <2>1 DEF OrderInv, LaneOrder
  <2>3. \A m \in Lanes : worker[m].sent \in Nat
    BY DEF OrderInv, LaneOrder, Numbered
  <2>4. QED
    BY <1>1, <2>2, <2>3 DEF OrderStep, NotOlder
<1>4. CASE copied # NoPicture
  <2>1. box' = [box EXCEPT ![snap] = copied]
    BY <1>4 DEF EmitGpu, Publish
  <2>2. copied.n = drawn /\ copied.tex # NoTexture
    BY <1>4 DEF OrderInv
  <2>3. UpTo(box[snap], worker[snap], copied.n)
    BY <1>1, <2>2 DEF OrderInv, LaneOrder
  <2>4. copied.n \in Nat /\ copied.n <= drawn /\ rb'.mapped >= rb.mapped /\ rb'.mapped \in Nat
    BY <1>1, <1>2, <2>2
  <2>5. (copied.tex = NoTexture <=> kind[snap] = "cpu") /\ (kind[snap] = "cpu" => rb'.mapped = copied.n)
    BY <1>1, <2>2
  <2>6. QED
    BY <1>1, <1>2, <1>4, <2>1, <2>3, <2>4, <2>5, PublishOrder
<1>5. QED
  BY <1>3, <1>4

\* What one turn of the readback leaves: only the buffer after the one written may
\* have come back, and the buffers keep their numbers.
LEMMA Turned ==
    ASSUME OrderInv, phase = "emit", kind[snap] = "cpu",
           NEW done, NEW lost, done \cup lost \subseteq {i \in DOMAIN rb.slots : rb.slots[i].waiting},
           rb' = Advanced(done, lost)
    PROVE  /\ IsReadback(rb') /\ InTurn(rb')
           /\ \A i \in Slots : rb'.slots[i].n = rb.slots[i].n
           /\ rb.mapped <= rb'.mapped /\ rb'.mapped <= drawn
<1> DEFINE f == Following(rb.write)
           over == done \cup lost
           back == [i \in DOMAIN rb.slots |->
                      [rb.slots[i] EXCEPT !.pending = (@ \/ i = rb.write) /\ i \notin over,
                                          !.waiting = @ /\ i \notin over]]
           maps == back[f].pending /\ ~back[f].waiting
           slots == [back EXCEPT ![f].waiting = @ \/ maps]
           mapped == IF done = {} THEN rb.mapped ELSE rb.slots[CHOOSE i \in done : \A j \in done : j <= i].n
<1>1. IsReadback(rb) /\ InTurn(rb) /\ rb.slots[rb.write].n = drawn /\ drawn \in Nat
      /\ \A i \in Slots : rb.slots[i].n <= drawn
  BY DEF OrderInv, ReadbackOrder
<1>2. f \in Slots /\ rb.write \in Slots /\ f # rb.write /\ f = (rb.write + 1) % Buffers
  <2>1. rb.write \in 0..Buffers - 1 /\ Buffers \in Nat \ {0, 1}
    BY <1>1, RingAssumption DEF IsReadback, Slots
  <2>2. CASE rb.write = Buffers - 1
    BY <2>1, <2>2 DEF Following, Slots
  <2>3. CASE rb.write # Buffers - 1
    BY <2>1, <2>3 DEF Following, Slots
  <2>4. QED
    BY <2>2, <2>3
<1>3. \A i \in Slots : (i # rb.write => Before(rb.write, f, i) \/ i = f)
      /\ (~Before(f, rb.write, i))
      /\ \A j \in Slots : Before(f, i, j) /\ j # rb.write => Before(rb.write, i, j)
  BY <1>2, RingAssumption DEF Before, Following, Slots
<1>4. rb' = [slots |-> slots, mapped |-> mapped, write |-> IF slots[f].waiting THEN rb.write ELSE f]
  BY <1>2 DEF Advanced
<1>5. over \subseteq {f} /\ done \subseteq {f} /\ DOMAIN rb.slots = Slots
  BY <1>1 DEF IsReadback, InTurn
<1>6. \A i \in Slots : DOMAIN back[i] = {"n", "pending", "waiting"} /\ back[i].n = rb.slots[i].n
                       /\ (back[i].waiting => rb.slots[i].waiting)
                       /\ (i \in over => ~back[i].pending /\ ~back[i].waiting)
  BY <1>1, <1>5 DEF IsReadback
<1>7. DOMAIN back = Slots
  BY <1>5
<1> HIDE DEF back
<1>8. /\ DOMAIN slots = Slots
      /\ \A i \in Slots : i # f => slots[i] = back[i]
      /\ slots[f] = [back[f] EXCEPT !.waiting = @ \/ maps]
  BY <1>2, <1>7
<1> HIDE DEF slots
<1>9. \A i \in Slots : DOMAIN slots[i] = {"n", "pending", "waiting"} /\ slots[i].n = rb.slots[i].n
                       /\ (slots[i].waiting => i = f)
  <2>1. \A i \in Slots : back[i].waiting => i = f
    BY <1>1, <1>6 DEF InTurn
  <2>2. QED
    BY <1>2, <1>6, <1>8, <2>1
<1>10. f \in over => ~slots[f].waiting
  <2>1. slots[f].waiting => back[f].waiting \/ maps
    BY <1>2, <1>6, <1>8
  <2>2. QED
    BY <1>2, <1>6, <2>1
<1>11. mapped = rb.mapped \/ mapped = rb.slots[f].n
  <2>1. CASE done = {}
    BY <2>1
  <2>2. CASE done # {}
    <3>1. done = {f}
      BY <1>5, <2>2
    <3>2. (CHOOSE i \in done : \A j \in done : j <= i) = f
      BY <1>2, <3>1 DEF Slots
    <3>3. QED
      BY <2>2, <3>2
  <2>3. QED
    BY <2>1, <2>2
<1> HIDE DEF mapped
<1>12. rb.mapped <= rb.slots[f].n /\ rb.mapped \in Nat /\ \A i \in Slots : rb.slots[i].n \in Nat
  BY <1>1, <1>2 DEF IsReadback, InTurn
<1>13. \A i \in Slots : rb.slots[f].n <= rb.slots[i].n
  <2>1. \A i \in Slots : i # rb.write => rb.slots[f].n <= rb.slots[i].n
    BY <1>1, <1>2, <1>3, <1>12 DEF InTurn
  <2>2. QED
    BY <1>1, <1>2, <2>1
<1>14. mapped \in Nat /\ rb.mapped <= mapped /\ mapped <= rb.slots[f].n
  BY <1>2, <1>11, <1>12
<1> DEFINE next == IF slots[f].waiting THEN rb.write ELSE f
<1>15. DOMAIN rb' = {"slots", "write", "mapped"} /\ rb'.slots = slots /\ rb'.mapped = mapped /\ rb'.write = next
  BY <1>4
<1>16. IsReadback(rb')
  BY <1>2, <1>8, <1>9, <1>12, <1>14, <1>15 DEF IsReadback
<1>17. \A i \in Slots : mapped <= rb.slots[i].n
  BY <1>2, <1>12, <1>13, <1>14
<1>18. InTurn(rb')
  <2>1. CASE slots[f].waiting
    <3>1. next = rb.write
      BY <2>1
    <3>2. QED
      BY <1>1, <1>9, <1>15, <1>17, <3>1 DEF InTurn
  <2>2. CASE ~slots[f].waiting
    <3>1. next = f
      BY <2>2
    <3>2. \A i \in Slots : ~slots[i].waiting
      BY <1>9, <2>2
    <3>3. \A i, j \in Slots : Before(f, i, j) => rb.slots[i].n <= rb.slots[j].n
      <4>1. TAKE i, j \in Slots
      <4>2. HAVE Before(f, i, j)
      <4>3. CASE j = rb.write
        BY <1>1, <4>3
      <4>4. CASE j # rb.write
        BY <1>1, <1>3, <4>2, <4>4 DEF InTurn
      <4>5. QED
        BY <4>3, <4>4
    <3>4. QED
      BY <1>9, <1>15, <1>17, <3>1, <3>2, <3>3 DEF InTurn
  <2>3. QED
    BY <2>1, <2>2
<1>19. mapped <= drawn
  BY <1>1, <1>2, <1>12, <1>14
<1>20. QED
  BY <1>9, <1>14, <1>15, <1>16, <1>18, <1>19

\* The picture that came back is not older than what the lane has, and goes to its
\* mailbox, unless none came back yet.
LEMMA EmitCpuOrder ==
    ASSUME LaneInv, OrderInv, EmitCpu
    PROVE  OrderStep
<1>1. /\ UNCHANGED <<snap, drawn, copied, live, lanes, kind, worker>>
      /\ phase = "emit" /\ phase' = "idle" /\ kind[snap] = "cpu" /\ snap \in Lanes
  BY DEF EmitCpu, control, LaneInv, FrameInOrder
<1>2. PICK done, lost :
         /\ done \cup lost \subseteq {i \in DOMAIN rb.slots : rb.slots[i].waiting}
         /\ rb' = Advanced(done, lost)
         /\ IF rb'.mapped = 0 THEN UNCHANGED <<box, taken>>
            ELSE Publish(snap, [n |-> rb'.mapped, tex |-> NoTexture])
  BY DEF EmitCpu
<1>3. /\ IsReadback(rb') /\ InTurn(rb')
      /\ \A i \in Slots : rb'.slots[i].n = rb.slots[i].n
      /\ rb.mapped <= rb'.mapped /\ rb'.mapped <= drawn
  BY <1>1, <1>2, Turned
<1>4. rb'.mapped \in Nat /\ rb.mapped \in Nat /\ drawn \in Nat
  BY <1>3, MappedIsDrawn DEF IsReadback
<1>5. ReadbackOrder'
  BY <1>1, <1>3 DEF OrderInv, ReadbackOrder
<1>6. CASE rb'.mapped = 0
  <2>1. box' = box /\ rb'.mapped = rb.mapped
    BY <1>2, <1>3, <1>4, <1>6
  <2>2. OrderInv'
    BY <1>1, <1>5, <2>1 DEF OrderInv, LaneOrder
  <2>3. \A m \in Lanes : worker[m].sent \in Nat
    BY DEF OrderInv, LaneOrder, Numbered
  <2>4. QED
    BY <1>1, <2>2, <2>3 DEF OrderStep, NotOlder
<1>7. CASE rb'.mapped # 0
  <2> DEFINE x == [n |-> rb'.mapped, tex |-> NoTexture]
  <2>1. box' = [box EXCEPT ![snap] = x]
    BY <1>2, <1>7 DEF Publish
  <2>2. x.n = rb'.mapped /\ x.tex = NoTexture /\ x # NoPicture
    BY <1>7 DEF NoPicture
  <2> HIDE DEF x
  <2>3. UpTo(box[snap], worker[snap], x.n)
    <3>1. UpTo(box[snap], worker[snap], rb.mapped) /\ Numbered(box[snap], worker[snap])
      BY <1>1 DEF OrderInv, LaneOrder
    <3>2. QED
      BY <1>3, <1>4, <2>2, <3>1, GrowsUpTo
  <2>4. QED
    BY <1>1, <1>3, <1>4, <1>5, <2>1, <2>2, <2>3, PublishOrder
<1>8. QED
  BY <1>6, <1>7

\* Nothing is drawn at first.
LEMMA OrderStarts == LaneInit => OrderInv
<1> SUFFICES ASSUME LaneInit PROVE OrderInv
  OBVIOUS
<1> USE DEF LaneInit
<1>1. ReadbackOrder
  <2>1. IsReadback(NewReadback) /\ NewReadback.mapped = 0
    BY RingAssumption DEF IsReadback, NewReadback, Slots
  <2>2. \A i \in Slots : NewReadback.slots[i].n = 0 /\ ~NewReadback.slots[i].waiting
    BY DEF NewReadback, Slots
  <2>3. InTurn(NewReadback)
    BY <2>1, <2>2 DEF InTurn
  <2>4. QED
    BY <2>1, <2>2, <2>3 DEF ReadbackOrder
<1>2. \A l \in Lanes : Fresh(box[l], worker[l])
  <2>1. NoWorker.hand = NoPicture /\ NoWorker.cpu = 0 /\ NoWorker.sent = 0 /\ NoWorker.at = "none"
    BY DEF NoWorker, NewWorker
  <2>2. QED
    BY <2>1 DEF Fresh
<1>3. \A l \in Lanes : LaneOrder(l)
  <2>1. drawn \in Nat /\ rb.mapped \in Nat
    BY DEF NewReadback
  <2>2. QED
    BY <1>2, <2>1, FreshIsInOrder DEF LaneOrder
<1>4. QED
  BY <1>1, <1>2, <1>3 DEF OrderInv

\* What a worker sends is never older than what it sent before (SentInOrder), for
\* every number of textures, buffers, workers, pictures and faults: the mailbox
\* keeps the newest picture, a readback maps its buffers in the order they were
\* drawn, and the repeat of a CPU frame is of the last picture taken.
THEOREM WorkersSendInOrder == LaneSpec => SentInOrder
<1>1. LaneInv /\ OrderInv /\ [LaneNext]_laneVars => OrderInv' /\ [NotOlder]_laneVars
  <2> SUFFICES ASSUME LaneInv, OrderInv, [LaneNext]_laneVars PROVE OrderStep
    BY DEF OrderStep
  <2>1. CASE UNCHANGED laneVars
    <3>1. OrderInv'
      BY <2>1 DEF laneVars, control, render, OrderInv, ReadbackOrder, LaneOrder
    <3>2. NotOlder
      BY <2>1 DEF laneVars, NotOlder, OrderInv, LaneOrder, Numbered
    <3>3. QED
      BY <3>1, <3>2 DEF OrderStep
  <2>2. CASE LaneNext
    BY <2>2, CallOrder, AddOrder, SnapshotOrder, DrawOrder, EmitGpuOrder, EmitCpuOrder, TakeOrder, SendOrder
    DEF LaneNext
  <2>3. QED
    BY <2>1, <2>2
<1>2. NotOlder => \A l \in Lanes : worker'[l].sent >= worker[l].sent
  BY DEF NotOlder
<1>3. QED
  BY <1>1, <1>2, OrderStarts, LaneInvariance, PTL DEF LaneSpec, SentInOrder

-----------------------------------------------------------------------------
(* The playback of a file *)

\* The places of a turn, and the locals of run_loop.
Turns == {"seek", "resume", "present", "act"}
PumpStates ==
    [at : Turns, play : BOOLEAN, was : BOOLEAN, need : BOOLEAN, tail : BOOLEAN, head : Nat,
     queue : Seq(Nat), inside : Seq(Nat), clock : Nat \cup {NoTime}, base : Nat, elapsed : Nat]

\* The types the argument needs.
PumpTypes ==
    /\ playing \in BOOLEAN
    /\ request \in Nat \cup {NoTime} /\ position \in Nat
    /\ late \subseteq Nat
    /\ pump \in PumpStates
    /\ shown \in Nat \cup {Blank}
    /\ held \in Nat /\ spoiled \in Nat
    /\ drift \in [missed : Int, resumes : Nat, raced : BOOLEAN]

\* The frame that is presented next; those decoded and those kept back follow it.
First == pump.head - Len(pump.inside) - Len(pump.queue)

\* Frames are decoded and presented one after the other.
InOrder ==
    /\ First >= 0
    /\ \A i \in 1..Len(pump.queue) : pump.queue[i] = First + i - 1
    /\ \A i \in 1..Len(pump.inside) : pump.inside[i] = First + Len(pump.queue) + i - 1
    /\ shown # Blank => shown = First - 1 \/ (shown = Last /\ First = 0)

\* How many are decoded ahead and kept back, and where the file ends.
Bounds ==
    /\ Len(pump.inside) <= held
    /\ Len(pump.queue) + Len(pump.inside) <= Ahead + held
    /\ pump.head <= Last => Len(pump.queue) <= Ahead
    /\ pump.tail => Len(pump.inside) = 0 /\ pump.head > Last
    /\ pump.head <= Last + 1
    /\ pump.need => shown = Blank /\ Len(pump.queue) = 0 /\ Len(pump.inside) = 0
    /\ pump.at = "act" /\ pump.play /\ Len(pump.queue) > 0 => pump.clock # NoTime

\* A file that starts again has its first frame presented before its second is decoded.
OneAtATime ==
    (First = 0 /\ shown # Blank /\ held <= Last) =>
        Len(pump.queue) <= 1 /\ (pump.at = "act" /\ pump.play => Len(pump.queue) = 0)

\* What the reported position may be ahead after n resumes, with h frames kept back.
Slack(h, n) == (Ahead + h) * n

\* The position follows the frames, but for what the last seek missed and for what
\* each resume adds.
Timed ==
    LET n    == drift.resumes
        told == position - drift.missed
        base == pump.base - drift.missed
    IN  /\ told <= First - 1 + Slack(held, n + 1) /\ told >= First - 1 - n
        /\ base <= First - 1 + Slack(held, n + 1)
        /\ pump.clock # NoTime =>
              base - pump.clock <= Slack(held, n) /\ base - pump.clock >= 0 - n
        /\ pump.clock = NoTime => base <= First + Slack(held, n) /\ base >= First - n
        /\ pump.head <= Last /\ Len(pump.queue) = 0 =>
              /\ pump.clock = NoTime => base >= pump.head - n
              /\ pump.at # "act" \/ ~pump.play => told >= pump.head - 1 - n

\* No seek is on its way and no host's position came after the pump's own.
Undisturbed == request = NoTime /\ ~drift.raced

\* A step that leaves what is told of the position alone.
KeepsTold ==
    Undisturbed' =>
        /\ Undisturbed /\ position' = position
        /\ drift'.resumes = drift.resumes /\ drift'.missed = drift.missed

\* Once a sample was skipped nothing is said of the frames.
PumpInv ==
    /\ PumpTypes
    /\ spoiled = 0 => InOrder /\ Bounds /\ OneAtATime /\ (Undisturbed => Timed)

-----------------------------------------------------------------------------

\* A part of a list of numbers that begins at its front.
LEMMA Fronts ==
    ASSUME NEW q \in Seq(Nat), NEW k \in 0..Len(q)
    PROVE  /\ SubSeq(q, 1, k) \in Seq(Nat) /\ Len(SubSeq(q, 1, k)) = k
           /\ \A i \in 1..k : SubSeq(q, 1, k)[i] = q[i]
           /\ SubSeq(q, k + 1, Len(q)) \in Seq(Nat) /\ Len(SubSeq(q, k + 1, Len(q))) = Len(q) - k
           /\ \A i \in 1..(Len(q) - k) : SubSeq(q, k + 1, Len(q))[i] = q[i + k]
<1> DEFINE z == Len(q)
<1>1. z \in Nat /\ k \in Nat /\ k <= z
  OBVIOUS
<1>2. \A i \in 1..z : q[i] \in Nat
  OBVIOUS
<1>3. SubSeq(q, 1, k) \in Seq(Nat) /\ Len(SubSeq(q, 1, k)) = k /\ \A i \in 1..k : SubSeq(q, 1, k)[i] = q[i]
  BY <1>1, <1>2
<1>4. SubSeq(q, k + 1, z) \in Seq(Nat) /\ Len(SubSeq(q, k + 1, z)) = z - k
      /\ \A i \in 1..(z - k) : SubSeq(q, k + 1, z)[i] = q[i + k]
  BY <1>1, <1>2
<1>5. QED
  BY <1>3, <1>4

\* The frames taken from the front are due, and the next one is not.
LEMMA FrontIsDue ==
    ASSUME NEW p, p.queue \in Seq(Nat), p.clock \in Nat, p.elapsed \in Nat
    PROVE  /\ FrontDue(p) \in 0..Len(p.queue)
           /\ \A i \in 1..FrontDue(p) : p.queue[i] - p.clock <= p.elapsed
           /\ FrontDue(p) < Len(p.queue) => p.queue[FrontDue(p) + 1] - p.clock > p.elapsed
<1> DEFINE z == Len(p.queue)
           T == {i \in 0..z : i < z => p.queue[i + 1] - p.clock > p.elapsed}
           Cut(n) == /\ \A i \in 1..n : p.queue[i] - p.clock <= p.elapsed
                     /\ n < z => p.queue[n + 1] - p.clock > p.elapsed
<1>1. z \in Nat /\ \A i \in 1..z : p.queue[i] \in Nat
  OBVIOUS
<1>2. T \subseteq Nat /\ z \in T
  BY <1>1
<1>3. PICK n \in T : \A m \in T : n <= m
  BY <1>2, LeastNumber
<1>4. n \in 0..z /\ (n < z => p.queue[n + 1] - p.clock > p.elapsed)
  BY <1>3
<1>5. ASSUME NEW i \in 1..n PROVE p.queue[i] - p.clock <= p.elapsed
  <2>1. i - 1 \in 0..z /\ i - 1 < z /\ (i - 1) + 1 = i /\ ~(n <= i - 1) /\ i \in 1..z
    BY <1>1, <1>4
  <2>2. i - 1 \notin T
    BY <1>3, <2>1
  <2>3. ~(p.queue[i] - p.clock > p.elapsed)
    BY <2>1, <2>2
  <2> DEFINE x == p.queue[i]
  <2>4. x \in Nat
    BY <1>1, <2>1
  <2> HIDE DEF x
  <2>5. x - p.clock <= p.elapsed
    BY <2>3, <2>4 DEF x
  <2>6. QED
    BY <2>5 DEF x
<1>6. n \in 0..z /\ Cut(n)
  BY <1>4, <1>5
<1> HIDE DEF z
<1>7. FrontDue(p) = CHOOSE m \in 0..z : Cut(m)
  BY DEF FrontDue, z
<1> HIDE DEF Cut
<1>8. FrontDue(p) \in 0..z /\ Cut(FrontDue(p))
  BY <1>6, <1>7
<1>9. QED
  BY <1>8 DEF Cut, z

\* What a turn presents is the front of what is decoded.
LEMMA DueIsFront ==
    ASSUME NEW p \in PumpStates, NEW force \in BOOLEAN
    PROVE  \E k \in 0..Len(p.queue) :
              /\ Due(p, force) \in Seq(Nat) /\ Len(Due(p, force)) = k
              /\ \A i \in 1..k : Due(p, force)[i] = p.queue[i]
              /\ Due(p, force) = <<>> <=> k = 0
              /\ ~force /\ ~p.play => k = 0
              /\ p.clock = NoTime => k <= 1
              /\ p.play /\ ~force /\ Len(p.queue) > 0 /\ p.queue[1] <= p.clock => k >= 1
              /\ p.play /\ ~force /\ Len(p.queue) > 0 /\ p.clock = NoTime => k >= 1
<1> DEFINE z == Len(p.queue)
           d == Due(p, force)
<1>1. /\ p.queue \in Seq(Nat) /\ z \in Nat /\ p.elapsed \in Nat /\ p.clock \in Nat \cup {NoTime} /\ p.play \in BOOLEAN
      /\ \A i \in 1..z : p.queue[i] \in Nat
  BY DEF PumpStates
<1>2. p.queue = <<>> <=> z = 0
  BY <1>1, EmptySeq
<1>3. CASE z = 0 \/ (~force /\ ~p.play)
  <2>1. d = <<>>
    BY <1>2, <1>3 DEF Due
  <2>2. d \in Seq(Nat) /\ Len(d) = 0 /\ 0 \in 0..z
    BY <1>1, <2>1
  <2>3. QED
    BY <1>3, <2>1, <2>2
<1>4. CASE z > 0 /\ (force \/ p.play) /\ (force \/ p.clock = NoTime)
  <2>1. d = <<p.queue[1]>>
    BY <1>2, <1>4 DEF Due
  <2>2. d \in Seq(Nat) /\ Len(d) = 1 /\ d[1] = p.queue[1] /\ 1 \in 0..z /\ d # <<>>
    BY <1>1, <1>4, <2>1
  <2>3. \A i \in 1..1 : d[i] = p.queue[i]
    BY <2>2
  <2>4. QED
    BY <1>4, <2>2, <2>3
<1>5. CASE z > 0 /\ ~force /\ p.play /\ p.clock # NoTime
  <2> DEFINE k == FrontDue(p)
  <2>1. d = SubSeq(p.queue, 1, k)
    <3>1. p.queue # <<>> /\ ~force /\ p.play /\ p.clock # NoTime
      BY <1>1, <1>2, <1>5
    <3>2. QED
      BY Zenon, <3>1 DEF Due
  <2>2. p.clock \in Nat
    BY <1>1, <1>5
  <2>3. k \in 0..z /\ (k < z => p.queue[k + 1] - p.clock > p.elapsed)
    BY <1>1, <2>2, FrontIsDue
  <2> HIDE DEF k
  <2>4. d \in Seq(Nat) /\ Len(d) = k /\ \A i \in 1..k : d[i] = p.queue[i]
    BY <1>1, <2>1, <2>3, Fronts
  <2>5. d = <<>> <=> k = 0
    BY <2>4, EmptySeq
  <2>6. p.queue[1] <= p.clock => k >= 1
    <3>1. ASSUME k = 0, p.queue[1] <= p.clock PROVE FALSE
      <4>1. p.queue[1] - p.clock > p.elapsed /\ p.queue[1] \in Nat
        BY <1>1, <1>5, <2>3, <3>1
      <4>2. QED
        BY <1>1, <2>2, <3>1, <4>1
    <3>2. QED
      BY <2>3, <3>1
  <2> HIDE DEF d
  <2>7. QED
    BY <1>5, <2>3, <2>4, <2>5, <2>6 DEF d
<1>6. QED
  BY <1>1, <1>3, <1>4, <1>5

\* A sample goes through what the decoder keeps back: the first of it comes out.
LEMMA HandedOut ==
    ASSUME NEW q \in Seq(Nat), NEW b \in Seq(Nat), NEW f \in Nat, NEW n \in Int,
           f = n + Len(q) + Len(b)
    PROVE  /\ Append(b, f) \in Seq(Nat) /\ Len(Append(b, f)) = Len(b) + 1 /\ Append(b, f)[1] \in Nat
           /\ q \o <<Append(b, f)[1]>> \in Seq(Nat) /\ Len(q \o <<Append(b, f)[1]>>) = Len(q) + 1
           /\ SubSeq(Append(b, f), 2, Len(b) + 1) \in Seq(Nat)
           /\ Len(SubSeq(Append(b, f), 2, Len(b) + 1)) = Len(b)
           /\ (\A i \in 1..Len(q) : q[i] = n + i - 1) /\ (\A i \in 1..Len(b) : b[i] = n + Len(q) + i - 1) =>
                 /\ \A i \in 1..(Len(q) + 1) : (q \o <<Append(b, f)[1]>>)[i] = n + i - 1
                 /\ \A i \in 1..Len(b) : SubSeq(Append(b, f), 2, Len(b) + 1)[i] = n + (Len(q) + 1) + i - 1
                 /\ Append(b, f)[1] = n + Len(q)
<1> DEFINE x == Len(q)
           y == Len(b)
           all == Append(b, f)
           out == <<all[1]>>
           q2 == q \o out
           b2 == SubSeq(all, 2, y + 1)
<1>1. x \in Nat /\ y \in Nat /\ (\A i \in 1..x : q[i] \in Nat) /\ (\A i \in 1..y : b[i] \in Nat) /\ f = n + x + y
  OBVIOUS
<1>2. all \in Seq(Nat) /\ Len(all) = y + 1 /\ all[y + 1] = f /\ \A i \in 1..y : all[i] = b[i]
  OBVIOUS
<1> HIDE DEF x, y, all
<1>3. all[1] \in Nat
  BY <1>1, <1>2
<1>4. out \in Seq(Nat) /\ Len(out) = 1 /\ out[1] = all[1]
  BY <1>3
<1> HIDE DEF out
<1>5. q2 \in Seq(Nat) /\ Len(q2) = x + 1 /\ (\A i \in 1..x : q2[i] = q[i]) /\ q2[x + 1] = all[1]
  <2>1. q \in Seq(Nat) /\ out \in Seq(Nat)
    BY <1>4
  <2>2. /\ q \o out \in Seq(Nat) /\ Len(q \o out) = Len(q) + Len(out)
        /\ \A i \in 1..(Len(q) + Len(out)) : (q \o out)[i] = IF i <= Len(q) THEN q[i] ELSE out[i - Len(q)]
    BY ONLY <2>1, ConcatProperties
  <2> HIDE DEF q2
  <2>3. /\ q2 \in Seq(Nat) /\ Len(q2) = x + 1
        /\ \A i \in 1..(x + 1) : q2[i] = IF i <= x THEN q[i] ELSE out[i - x]
    BY <1>4, <2>2 DEF q2, x
  <2>4. \A i \in 1..x : q2[i] = q[i]
    BY <1>1, <2>3
  <2>5. q2[x + 1] = all[1]
    <3>1. x + 1 \in 1..(x + 1) /\ ~(x + 1 <= x) /\ (x + 1) - x = 1
      BY <1>1
    <3>2. q2[x + 1] = out[(x + 1) - x]
      BY <2>3, <3>1
    <3>3. QED
      BY <1>4, <3>1, <3>2
  <2>6. QED
    BY <2>3, <2>4, <2>5
<1>6. b2 \in Seq(Nat) /\ Len(b2) = y /\ \A i \in 1..y : b2[i] = all[i + 1]
  <2>1. 1 \in 0..Len(all) /\ b2 = SubSeq(all, 1 + 1, Len(all)) /\ Len(all) - 1 = y
    BY <1>1, <1>2
  <2>2. b2 \in Seq(Nat) /\ Len(b2) = Len(all) - 1 /\ \A i \in 1..(Len(all) - 1) : b2[i] = all[i + 1]
    BY <1>2, <2>1, Fronts
  <2>3. QED
    BY <2>1, <2>2
<1> HIDE DEF q2, b2
<1>7. ASSUME \A i \in 1..x : q[i] = n + i - 1, \A i \in 1..y : b[i] = n + x + i - 1
      PROVE  /\ \A i \in 1..(x + 1) : q2[i] = n + i - 1
             /\ \A i \in 1..y : b2[i] = n + (x + 1) + i - 1
             /\ all[1] = n + x
  <2>1. \A i \in 1..(y + 1) : all[i] = n + x + i - 1
    <3>1. ASSUME NEW i \in 1..(y + 1) PROVE all[i] = n + x + i - 1
      <4>1. CASE i = y + 1
        BY <1>1, <1>2, <4>1
      <4>2. CASE i # y + 1
        <5>1. i \in 1..y
          BY <1>1, <4>2
        <5>2. all[i] = b[i] /\ b[i] = n + x + i - 1
          BY <1>2, <1>7, <5>1
        <5>3. QED
          BY <5>2
      <4>3. QED
        BY <4>1, <4>2
    <3>2. QED
      BY <3>1
  <2>2. all[1] = n + x
    BY <1>1, <2>1
  <2>3. \A i \in 1..(x + 1) : q2[i] = n + i - 1
    <3>1. ASSUME NEW i \in 1..(x + 1) PROVE q2[i] = n + i - 1
      <4>1. CASE i = x + 1
        BY <1>1, <1>5, <2>2, <4>1
      <4>2. CASE i # x + 1
        <5>1. i \in 1..x
          BY <1>1, <4>2
        <5>2. q2[i] = q[i] /\ q[i] = n + i - 1
          BY <1>5, <1>7, <5>1
        <5>3. QED
          BY <5>2
      <4>3. QED
        BY <4>1, <4>2
    <3>2. QED
      BY <3>1
  <2>7. \A i \in 1..y : i + 1 \in 1..(y + 1)
    <3>1. y \in Nat
      BY <1>1
    <3>2. QED
      BY <3>1
  <2>4. \A i \in 1..y : i + 1 \in 1..(y + 1) /\ b2[i] = all[i + 1]
    BY <1>6, <2>7
  <2>5. \A i \in 1..y : b2[i] = n + (x + 1) + i - 1
    BY <1>1, <2>1, <2>4
  <2>6. QED
    BY <2>2, <2>3, <2>5
<1>8. QED
  BY <1>2, <1>3, <1>5, <1>6, <1>7 DEF x, y, all, out, q2, b2

\* A sample that is kept back itself.
LEMMA KeptBack ==
    ASSUME NEW q \in Seq(Nat), NEW b \in Seq(Nat), NEW f \in Nat, NEW n \in Int,
           f = n + Len(q) + Len(b)
    PROVE  /\ SubSeq(Append(b, f), 1, Len(b) + 1) \in Seq(Nat)
           /\ Len(SubSeq(Append(b, f), 1, Len(b) + 1)) = Len(b) + 1
           /\ (\A i \in 1..Len(b) : b[i] = n + Len(q) + i - 1) =>
                 \A i \in 1..(Len(b) + 1) : SubSeq(Append(b, f), 1, Len(b) + 1)[i] = n + Len(q) + i - 1
<1> DEFINE x == Len(q)
           y == Len(b)
           all == Append(b, f)
           b2 == SubSeq(all, 1, y + 1)
<1>1. x \in Nat /\ y \in Nat /\ (\A i \in 1..y : b[i] \in Nat) /\ f = n + x + y
  OBVIOUS
<1>2. all \in Seq(Nat) /\ Len(all) = y + 1 /\ all[y + 1] = f /\ \A i \in 1..y : all[i] = b[i]
  OBVIOUS
<1> HIDE DEF x, y, all
<1>3. b2 \in Seq(Nat) /\ Len(b2) = y + 1 /\ \A i \in 1..(y + 1) : b2[i] = all[i]
  <2>1. y + 1 \in 0..Len(all)
    BY <1>1, <1>2
  <2>2. QED
    BY <1>2, <2>1, Fronts
<1> HIDE DEF b2
<1>4. ASSUME \A i \in 1..y : b[i] = n + x + i - 1
      PROVE  \A i \in 1..(y + 1) : b2[i] = n + x + i - 1
  <2>1. ASSUME NEW i \in 1..(y + 1) PROVE b2[i] = n + x + i - 1
    <3>1. b2[i] = all[i]
      BY <1>3
    <3>2. CASE i = y + 1
      BY <1>1, <1>2, <3>1, <3>2
    <3>3. CASE i # y + 1
      <4>1. i \in 1..y
        BY <1>1, <3>3
      <4>2. all[i] = b[i] /\ b[i] = n + x + i - 1
        BY <1>2, <1>4, <4>1
      <4>3. QED
        BY <3>1, <4>2
    <3>4. QED
      BY <3>2, <3>3
  <2>2. QED
    BY <2>1
<1>5. QED
  BY <1>3, <1>4 DEF x, y, all, b2

\* Each resume adds what may be decoded ahead.
LEMMA SlackGrows ==
    ASSUME NEW h \in Nat, NEW n \in Nat
    PROVE  /\ Slack(h, n) \in Nat /\ Slack(h, n + 1) = Slack(h, n) + Ahead + h /\ Slack(h, 0) = 0
<1>1. Ahead \in Nat
  BY FileAssumption
<1>2. \A a \in Nat : a * n \in Nat /\ a * (n + 1) = a * n + a /\ a * 0 = 0
  OBVIOUS
<1>3. Ahead + h \in Nat
  BY <1>1
<1>4. QED
  BY <1>1, <1>2, <1>3 DEF Slack

\* What the variables are, in numbers.
LEMMA PumpNumbers ==
    ASSUME PumpTypes
    PROVE  /\ Ahead \in Nat /\ Ahead >= 1 /\ Last \in Nat /\ held \in Nat
           /\ pump.head \in Nat /\ pump.queue \in Seq(Nat) /\ pump.inside \in Seq(Nat)
           /\ Len(pump.queue) \in Nat /\ Len(pump.inside) \in Nat /\ First \in Int
           /\ First = pump.head - Len(pump.inside) - Len(pump.queue)
           /\ pump.clock \in Nat \cup {NoTime} /\ pump.base \in Nat /\ pump.elapsed \in Nat
           /\ position \in Nat /\ shown \in Int /\ pump.at \in Turns
           /\ pump.play \in BOOLEAN /\ pump.was \in BOOLEAN /\ pump.need \in BOOLEAN /\ pump.tail \in BOOLEAN
           /\ drift.resumes \in Nat /\ drift.raced \in BOOLEAN /\ drift.missed \in Int
           /\ Slack(held, drift.resumes) \in Nat
           /\ Slack(held, drift.resumes + 1) = Slack(held, drift.resumes) + Ahead + held
<1>1. Ahead \in Nat /\ Ahead >= 1 /\ Last \in Nat
  BY FileAssumption
<1>2. held \in Nat /\ position \in Nat /\ drift.resumes \in Nat /\ drift.raced \in BOOLEAN
      /\ drift.missed \in Int /\ shown \in Int
  BY DEF PumpTypes, Blank
<1>3. /\ pump.head \in Nat /\ pump.queue \in Seq(Nat) /\ pump.inside \in Seq(Nat)
      /\ pump.clock \in Nat \cup {NoTime} /\ pump.base \in Nat /\ pump.elapsed \in Nat
      /\ pump.play \in BOOLEAN /\ pump.was \in BOOLEAN /\ pump.need \in BOOLEAN /\ pump.tail \in BOOLEAN
      /\ pump.at \in Turns
  BY DEF PumpTypes, PumpStates
<1>4. Len(pump.queue) \in Nat /\ Len(pump.inside) \in Nat
  BY <1>3
<1>5. First \in Int
  BY <1>3, <1>4 DEF First
<1>6. QED
  BY <1>1, <1>2, <1>3, <1>4, <1>5, SlackGrows DEF First

\* A step that moves no frames and no clock.
LEMMA StillKeeps ==
    ASSUME PumpInv, PumpTypes', pump'.head = pump.head, pump'.queue = pump.queue, pump'.inside = pump.inside,
           pump'.clock = pump.clock, pump'.base = pump.base,
           pump'.need => pump.need, pump'.tail => pump.tail,
           \/ pump'.at = pump.at /\ pump'.play = pump.play
           \/ /\ pump'.at # "act"
              /\ pump.at # "act" \/ ~pump.play \/ Len(pump.queue) > 0 \/ pump.head > Last,
           shown' = shown, held' = held, spoiled' = spoiled,
           KeepsTold
    PROVE  PumpInv'
<1> SUFFICES ASSUME spoiled = 0 PROVE InOrder' /\ Bounds' /\ OneAtATime' /\ (Undisturbed' => Timed')
  BY DEF PumpInv
<1>1. InOrder /\ Bounds /\ OneAtATime /\ (Undisturbed => Timed) /\ PumpTypes
  BY DEF PumpInv
<1>2. First' = First
  BY DEF First
<1>3. InOrder' /\ Bounds'
  BY <1>1, <1>2 DEF InOrder, Bounds
<1>4. OneAtATime'
  BY <1>1, <1>2 DEF OneAtATime
<1>5. Undisturbed' => Timed'
  <2> SUFFICES ASSUME Undisturbed' PROVE Timed'
    OBVIOUS
  <2>1. Timed /\ position' = position /\ drift'.resumes = drift.resumes /\ drift'.missed = drift.missed
    BY <1>1 DEF KeepsTold
  <2>2. pump.head \in Nat /\ Last \in Nat /\ Len(pump.queue) \in Nat
    BY <1>1, PumpNumbers
  <2>3. QED
    BY <1>2, <2>1, <2>2 DEF Timed
<1>6. QED
  BY <1>3, <1>4, <1>5

\* The calls of the host.
LEMMA HostKeeps ==
    ASSUME PumpInv,
           \/ \E b \in BOOLEAN : SetPlaying(b) \/ SetLooping(b)
           \/ \E t \in Targets : Seek(t)
           \/ SeekPosition
    PROVE  PumpInv'
<1>1. PumpTypes
  BY DEF PumpInv
<1>2. /\ pump' = pump /\ shown' = shown /\ held' = held /\ spoiled' = spoiled
      /\ drift'.resumes = drift.resumes /\ drift'.missed = drift.missed
  BY <1>1 DEF PumpTypes, SetPlaying, SetLooping, Seek, SeekPosition
<1>3. PumpTypes'
  BY <1>1, TargetAssumption DEF PumpTypes, SetPlaying, SetLooping, Seek, SeekPosition
<1>4. Undisturbed' => Undisturbed /\ position' = position
  <2>1. CASE \E b \in BOOLEAN : SetPlaying(b) \/ SetLooping(b)
    BY <2>1 DEF Undisturbed, SetPlaying, SetLooping
  <2>2. CASE \E t \in Targets : Seek(t)
    BY <2>2, TargetAssumption DEF Undisturbed, Seek, NoTime
  <2>3. CASE SeekPosition
    BY <1>1, <2>3 DEF Undisturbed, SeekPosition, PumpTypes
  <2>4. QED
    BY <2>1, <2>2, <2>3
<1>5. QED
  BY <1>2, <1>3, <1>4, StillKeeps DEF KeepsTold

\* Time passes.
LEMMA TickKeeps == ASSUME PumpInv, Tick PROVE PumpInv'
<1>1. PumpTypes /\ pump \in PumpStates
  BY DEF PumpInv, PumpTypes
<1> DEFINE later == pump.elapsed + 1
<1>2. /\ pump' = [pump EXCEPT !.elapsed = later] /\ later \in Nat
      /\ UNCHANGED <<atomics, late, shown, held, calls, spoiled, landed, drift>>
  <2>1. pump.elapsed \in Nat
    BY <1>1, PumpNumbers
  <2>2. later \in Nat
    BY <2>1
  <2>3. pump' = [pump EXCEPT !.elapsed = @ + 1] /\ UNCHANGED <<atomics, late, shown, held, calls, spoiled, landed, drift>>
    BY DEF Tick
  <2>4. QED
    BY <2>2, <2>3
<1> HIDE DEF later
<1>3. /\ pump' \in PumpStates /\ pump'.head = pump.head /\ pump'.queue = pump.queue /\ pump'.inside = pump.inside
      /\ pump'.clock = pump.clock /\ pump'.base = pump.base /\ pump'.need = pump.need /\ pump'.tail = pump.tail
      /\ pump'.at = pump.at /\ pump'.play = pump.play
  BY <1>1, <1>2 DEF PumpStates
<1>4. PumpTypes'
  BY <1>1, <1>2, <1>3 DEF PumpTypes, atomics
<1>5. shown' = shown /\ held' = held /\ spoiled' = spoiled /\ KeepsTold
  BY <1>2 DEF KeepsTold, Undisturbed, atomics
<1>6. QED
  BY <1>3, <1>4, <1>5, StillKeeps

\* The pump waits, or stops at the end.
LEMMA WaitKeeps == ASSUME PumpInv, Wait \/ EndStops PROVE PumpInv'
<1>1. PumpTypes /\ pump \in PumpStates
  BY DEF PumpInv, PumpTypes
<1>2. /\ pump' = [pump EXCEPT !.at = "seek"] \/ pump' = [pump EXCEPT !.at = "seek", !.tail = FALSE]
      /\ UNCHANGED <<request, position, late, shown, held, spoiled, drift>> /\ playing' \in BOOLEAN
  <2>1. CASE Wait
    BY <1>1, <2>1 DEF Wait, At, atomics, PumpTypes
  <2>2. CASE EndStops
    BY <2>2 DEF EndStops
  <2>3. QED
    BY <2>1, <2>2
<1>3. /\ pump' \in PumpStates /\ pump'.head = pump.head /\ pump'.queue = pump.queue /\ pump'.inside = pump.inside
      /\ pump'.clock = pump.clock /\ pump'.base = pump.base /\ pump'.need = pump.need /\ (pump'.tail => pump.tail)
      /\ pump'.at = "seek"
  <2> HIDE DEF NoTime
  <2>1. CASE pump' = [pump EXCEPT !.at = "seek"]
    BY <1>1, <2>1 DEF PumpStates, Turns
  <2>2. CASE pump' = [pump EXCEPT !.at = "seek", !.tail = FALSE]
    BY <1>1, <2>2 DEF PumpStates, Turns
  <2>3. QED
    BY <1>2, <2>1, <2>2
<1>4. PumpTypes'
  BY <1>1, <1>2, <1>3 DEF PumpTypes
<1>5. CASE spoiled = 0
  <2>1. Bounds
    BY <1>5 DEF PumpInv
  <2>2. ~pump.play \/ Len(pump.queue) > 0 \/ pump.head > Last
    <3>1. CASE Wait
      <4>1. Idle \/ (IF pump.tail THEN pump.queue # <<>> ELSE Full)
        BY <3>1 DEF Wait
      <4>2. Len(pump.queue) \in Nat /\ Ahead >= 1 /\ Ahead \in Nat /\ pump.queue \in Seq(Nat)
        BY <1>1, PumpNumbers
      <4>3. pump.queue # <<>> => Len(pump.queue) > 0
        BY <4>2, EmptySeq
      <4>4. Full => Len(pump.queue) > 0
        BY <4>2 DEF Full
      <4>5. QED
        BY <4>1, <4>3, <4>4 DEF Idle
    <3>2. CASE EndStops
      BY <2>1, <3>2 DEF EndStops, TailOver, Bounds
    <3>3. QED
      BY <3>1, <3>2
  <2>3. shown' = shown /\ held' = held /\ spoiled' = spoiled /\ KeepsTold
    BY <1>2 DEF KeepsTold, Undisturbed
  <2>4. pump'.at # "act"
    BY <1>3
  <2>5. QED
    BY <1>3, <1>4, <2>2, <2>3, <2>4, StillKeeps
<1>6. CASE spoiled # 0
  BY <1>2, <1>4, <1>6 DEF PumpInv
<1>7. QED
  BY <1>5, <1>6

\* The clock that starts anew.
LEMMA ClockStarts ==
    ASSUME NEW p \in PumpStates
    PROVE  /\ StartClock(p) \in PumpStates /\ StartClock(p).at = p.at /\ StartClock(p).play = p.play
           /\ StartClock(p).was = p.was /\ StartClock(p).need = p.need /\ StartClock(p).tail = p.tail
           /\ StartClock(p).head = p.head /\ StartClock(p).queue = p.queue /\ StartClock(p).inside = p.inside
           /\ StartClock(p).clock = NoTime /\ StartClock(p).base = p.base /\ StartClock(p).elapsed = 0
<1> HIDE DEF NoTime
<1> QED
  BY DEF PumpStates, StartClock

\* Where the reader may land is in the file or at its end.
LEMMA LandsInFile ==
    ASSUME NEW t \in Nat, NEW n \in Landings(t)
    PROVE  n \in Nat /\ n <= Last + 1 /\ t - n \in Int
BY FileAssumption DEF Landings

\* The reader is put at n, for the time t.
LEMMA MovedPump ==
    ASSUME pump \in PumpStates, NEW m, NEW t \in Nat, NEW n \in Nat, m = Moved(pump, t, n)
    PROVE  /\ m \in PumpStates /\ m.head = n /\ m.base = t /\ m.inside = <<>> /\ m.tail = FALSE
           /\ m.clock = NoTime /\ m.queue = pump.queue /\ m.need = pump.need
<1> DEFINE s == StartClock(pump)
<1>1. s \in PumpStates /\ s.clock = NoTime /\ s.queue = pump.queue /\ s.need = pump.need
  BY ClockStarts
<1>2. m = [s EXCEPT !.head = n, !.base = t, !.inside = <<>>, !.tail = FALSE] /\ <<>> \in Seq(Nat)
  BY DEF Moved
<1> HIDE DEF s, NoTime
<1>3. QED
  BY <1>1, <1>2 DEF PumpStates

\* What is told of the position of a file that was just put at n for the time t.
LEMMA PutIsTimed ==
    ASSUME NEW t \in Nat, NEW n \in Nat, PumpTypes', Put(t, n), held' \in Nat,
           pump'.head = n, pump'.base = t, pump'.clock = NoTime, Len(pump'.queue) = 0, Len(pump'.inside) = 0
    PROVE  Timed'
<1>1. drift'.resumes = 0 /\ drift'.missed = t - n /\ position' = t
  BY DEF Put, NoDrift
<1>2. Slack(held', drift'.resumes) = 0 /\ Slack(held', drift'.resumes + 1) = Ahead + held'
  <2>1. Slack(held', 0) = 0 /\ Slack(held', 0 + 1) = 0 + Ahead + held'
    BY SlackGrows
  <2>2. QED
    BY <1>1, <2>1, FileAssumption
<1>3. First' = n
  <2>1. First' = n - 0 - 0
    BY DEF First
  <2>2. QED
    BY <2>1
<1>4. t - (t - n) = n
  OBVIOUS
<1>5. Ahead \in Nat /\ Ahead >= 1
  BY FileAssumption
<1>6. n <= n - 1 + (Ahead + held') /\ n >= n - 1 - 0 /\ n <= n + 0 /\ n >= n - 0
  <2> DEFINE h == held'
  <2>1. h \in Nat
    OBVIOUS
  <2> HIDE DEF h
  <2>2. n <= n - 1 + (Ahead + h) /\ n >= n - 1 - 0 /\ n <= n + 0 /\ n >= n - 0
    BY <1>5, <2>1
  <2>3. QED
    BY <2>2 DEF h
<1>7. QED
  BY <1>1, <1>2, <1>3, <1>4, <1>6 DEF Timed

\* There is no request.
LEMMA NoSeekKeeps == ASSUME PumpInv, NoSeek PROVE PumpInv'
<1>1. PumpTypes /\ pump \in PumpStates /\ pump.at = "seek"
  BY DEF PumpInv, PumpTypes, NoSeek, At
<1>2. pump' = [pump EXCEPT !.at = "resume"] /\ UNCHANGED <<atomics, late, shown, held, calls, spoiled, landed, drift>>
  BY DEF NoSeek, At
<1>3. /\ pump' \in PumpStates /\ pump'.head = pump.head /\ pump'.queue = pump.queue /\ pump'.inside = pump.inside
      /\ pump'.clock = pump.clock /\ pump'.base = pump.base /\ pump'.need = pump.need /\ pump'.tail = pump.tail
      /\ pump'.at # "act" /\ pump.at # "act"
  BY <1>1, <1>2 DEF PumpStates, Turns
<1>4. PumpTypes'
  BY <1>1, <1>2, <1>3 DEF PumpTypes, atomics
<1>5. shown' = shown /\ held' = held /\ spoiled' = spoiled /\ KeepsTold
  BY <1>2 DEF KeepsTold, Undisturbed, atomics
<1>6. QED
  BY <1>3, <1>4, <1>5, StillKeeps

\* The reader is moved.
LEMMA TakeSeekKeeps == ASSUME PumpInv, TakeSeek PROVE PumpInv'
<1>1. PumpTypes /\ pump \in PumpStates
  BY DEF PumpInv, PumpTypes
<1>2. PICK n \in Landings(request) :
         pump' = [Moved(pump, request, n) EXCEPT !.at = "resume", !.queue = <<>>, !.need = TRUE] /\ Put(request, n)
  BY DEF TakeSeek
<1>3. request # NoTime /\ request' = NoTime /\ shown' = Blank /\ UNCHANGED <<playing, late, held, spoiled>>
  BY DEF TakeSeek
<1>4. request \in Nat
  BY <1>1, <1>3 DEF PumpTypes
<1>5. n \in Nat /\ n <= Last + 1 /\ request - n \in Int
  BY <1>4, LandsInFile
<1>6. /\ pump' \in PumpStates /\ pump'.at = "resume" /\ pump'.head = n /\ pump'.queue = <<>> /\ pump'.inside = <<>>
      /\ pump'.base = request /\ pump'.need = TRUE /\ pump'.tail = FALSE /\ pump'.clock = NoTime
  <2> DEFINE p == Moved(pump, request, n)
  <2> HIDE DEF p
  <2>1. p \in PumpStates /\ p.head = n /\ p.base = request /\ p.inside = <<>> /\ p.tail = FALSE /\ p.clock = NoTime
    <3>1. p = Moved(pump, request, n)
      BY DEF p
    <3>2. QED
      BY <1>1, <1>4, <1>5, <3>1, MovedPump
  <2>2. pump' = [p EXCEPT !.at = "resume", !.queue = <<>>, !.need = TRUE] /\ <<>> \in Seq(Nat)
    BY <1>2 DEF p
  <2> HIDE DEF NoTime
  <2>3. QED
    BY <2>1, <2>2 DEF PumpStates, Turns
<1>7. position' = request /\ drift' \in [missed : Int, resumes : Nat, raced : BOOLEAN]
  BY <1>2, <1>5 DEF Put, NoDrift
<1>8. PumpTypes'
  BY <1>1, <1>3, <1>4, <1>6, <1>7 DEF PumpTypes
<1>9. Len(pump'.queue) = 0 /\ Len(pump'.inside) = 0
  BY <1>6
<1>10. Ahead \in Nat /\ Ahead >= 1 /\ held \in Nat /\ held' = held /\ Last \in Nat
  BY <1>1, <1>3, PumpNumbers
<1>11. First' = n
  BY <1>5, <1>6, <1>9 DEF First
<1>12. InOrder'
  BY <1>3, <1>5, <1>9, <1>11 DEF InOrder
<1>13. Bounds'
  BY <1>3, <1>5, <1>6, <1>9, <1>10 DEF Bounds
<1>14. OneAtATime'
  BY <1>3 DEF OneAtATime
<1>15. Timed'
  BY <1>2, <1>4, <1>5, <1>6, <1>8, <1>9, <1>10, PutIsTimed
<1>16. QED
  BY <1>8, <1>12, <1>13, <1>14, <1>15 DEF PumpInv

\* The file starts again, or its reader stays where it is, at the end.
LEMMA RewindKeeps == ASSUME PumpInv, Rewind PROVE PumpInv'
<1>1. PumpTypes /\ pump \in PumpStates
  BY DEF PumpInv, PumpTypes
<1>2. PICK n \in Landings(0) : pump' = [Moved(pump, 0, n) EXCEPT !.at = "seek"] /\ Put(0, n)
  BY DEF Rewind
<1>3. pump.tail /\ pump.queue = <<>> /\ UNCHANGED <<playing, request, late, shown, held, spoiled>>
  BY DEF Rewind, TailOver
<1>4. n \in Nat /\ n <= Last + 1 /\ 0 - n \in Int /\ (n = 0 \/ n = pump.head) /\ 0 \in Nat
  BY FileAssumption DEF Landings
<1>5. /\ pump' \in PumpStates /\ pump'.at = "seek" /\ pump'.head = n /\ pump'.queue = <<>> /\ pump'.inside = <<>>
      /\ pump'.base = 0 /\ pump'.need = pump.need /\ pump'.tail = FALSE /\ pump'.clock = NoTime
  <2> DEFINE p == Moved(pump, 0, n)
  <2> HIDE DEF p
  <2>1. /\ p \in PumpStates /\ p.head = n /\ p.base = 0 /\ p.inside = <<>> /\ p.tail = FALSE /\ p.clock = NoTime
        /\ p.queue = pump.queue /\ p.need = pump.need
    <3>1. p = Moved(pump, 0, n)
      BY DEF p
    <3>2. QED
      BY <1>1, <1>4, <3>1, MovedPump
  <2>2. pump' = [p EXCEPT !.at = "seek"]
    BY <1>2 DEF p
  <2> HIDE DEF NoTime
  <2>3. QED
    BY <1>3, <2>1, <2>2 DEF PumpStates, Turns
<1>6. position' = 0 /\ drift' \in [missed : Int, resumes : Nat, raced : BOOLEAN]
  BY <1>2, <1>4 DEF Put, NoDrift
<1>7. PumpTypes'
  BY <1>1, <1>3, <1>4, <1>5, <1>6 DEF PumpTypes
<1>8. CASE spoiled = 0
  <2>1. InOrder /\ Bounds
    BY <1>8 DEF PumpInv
  <2>2. Len(pump'.queue) = 0 /\ Len(pump'.inside) = 0 /\ Len(pump.queue) = 0
    BY <1>3, <1>5
  <2>3. First' = n
    BY <1>4, <1>5, <2>2 DEF First
  <2>4. Ahead \in Nat /\ Ahead >= 1 /\ held \in Nat /\ held' = held /\ Last \in Nat
    BY <1>1, <1>3, PumpNumbers
  <2>5. pump.head = Last + 1 /\ First = Last + 1
    <3>1. pump.head \in Nat /\ First = pump.head - Len(pump.inside) - Len(pump.queue) /\ Len(pump.inside) = 0
          /\ pump.head > Last /\ pump.head <= Last + 1
      BY <1>1, <1>3, <2>1, PumpNumbers DEF Bounds
    <3>2. QED
      BY <2>2, <2>4, <3>1
  <2>6. shown # Blank => shown = Last
    <3>1. shown # Blank => shown = First - 1 \/ shown = Last
      BY <2>1 DEF InOrder
    <3>2. QED
      BY <2>4, <2>5, <3>1
  <2>7. shown' # Blank => shown' = n - 1 \/ (shown' = Last /\ n = 0)
    <3>1. CASE n = 0
      BY <1>3, <2>6, <3>1
    <3>2. CASE n = Last + 1
      BY <1>3, <2>4, <2>6, <3>2
    <3>3. QED
      BY <1>4, <2>5, <3>1, <3>2
  <2>8. InOrder'
    BY <1>4, <2>2, <2>3, <2>7 DEF InOrder
  <2>9. Bounds'
    BY <1>3, <1>4, <1>5, <2>1, <2>2, <2>4 DEF Bounds
  <2>10. OneAtATime'
    BY <1>5, <2>2 DEF OneAtATime
  <2>11. Timed'
    BY <1>2, <1>4, <1>5, <1>7, <2>2, <2>4, PutIsTimed
  <2>12. QED
    BY <1>7, <2>8, <2>9, <2>10, <2>11 DEF PumpInv
<1>9. CASE spoiled # 0
  BY <1>3, <1>7, <1>9 DEF PumpInv
<1>10. QED
  BY <1>8, <1>9

\* The pump looks at `playing`; a file that is resumed takes the position for its picture's.
LEMMA ResumeKeeps == ASSUME PumpInv, Resume PROVE PumpInv'
<1> DEFINE p == [pump EXCEPT !.at = "present", !.play = playing, !.was = playing]
<1>1. PumpTypes /\ pump \in PumpStates /\ pump.at = "resume" /\ playing \in BOOLEAN
  BY DEF PumpInv, PumpTypes, Resume
<1>2. /\ pump' = IF playing /\ ~pump.was THEN [StartClock(p) EXCEPT !.base = position] ELSE p
      /\ drift' = IF playing /\ ~pump.was THEN [drift EXCEPT !.resumes = @ + 1] ELSE drift
      /\ UNCHANGED <<playing, request, position, late, shown, held, spoiled>>
  BY DEF Resume, atomics
<1>3. p \in PumpStates /\ p.at = "present" /\ p.play = playing /\ p.need = pump.need /\ p.tail = pump.tail
      /\ p.head = pump.head /\ p.queue = pump.queue /\ p.inside = pump.inside /\ p.clock = pump.clock /\ p.base = pump.base
  BY <1>1 DEF PumpStates, Turns
<1> HIDE DEF p
<1>4. CASE ~(playing /\ ~pump.was)
  <2>1. pump' = p /\ drift' = drift
    BY <1>2, <1>4
  <2>2. PumpTypes'
    BY <1>1, <1>2, <1>3, <2>1 DEF PumpTypes
  <2>3. shown' = shown /\ held' = held /\ spoiled' = spoiled /\ KeepsTold
    BY <1>2, <2>1 DEF KeepsTold, Undisturbed
  <2>4. pump'.at # "act" /\ pump.at # "act"
    BY <1>1, <1>3, <2>1
  <2>5. QED
    BY <1>3, <2>1, <2>2, <2>3, <2>4, StillKeeps
<1>5. CASE playing /\ ~pump.was
  <2>1. pump' = [StartClock(p) EXCEPT !.base = position] /\ drift' = [drift EXCEPT !.resumes = @ + 1]
    BY <1>2, <1>5
  <2>2. position \in Nat
    BY <1>1, PumpNumbers
  <2>3. /\ pump' \in PumpStates /\ pump'.at = "present" /\ pump'.need = pump.need /\ pump'.tail = pump.tail
        /\ pump'.head = pump.head /\ pump'.queue = pump.queue /\ pump'.inside = pump.inside
        /\ pump'.clock = NoTime /\ pump'.base = position
    <3> DEFINE s == StartClock(p)
    <3>1. s \in PumpStates /\ s.at = "present" /\ s.need = p.need /\ s.tail = p.tail
          /\ s.head = p.head /\ s.queue = p.queue /\ s.inside = p.inside /\ s.clock = NoTime
      BY <1>3, ClockStarts
    <3>2. pump' = [s EXCEPT !.base = position]
      BY <2>1
    <3> HIDE DEF s, NoTime
    <3>3. QED
      BY <1>3, <2>2, <3>1, <3>2 DEF PumpStates
  <2>4. drift.resumes \in Nat /\ drift \in [missed : Int, resumes : Nat, raced : BOOLEAN]
    BY <1>1 DEF PumpTypes
  <2>5. /\ drift'.resumes = drift.resumes + 1 /\ drift'.raced = drift.raced /\ drift'.missed = drift.missed
        /\ drift' \in [missed : Int, resumes : Nat, raced : BOOLEAN]
    BY <2>1, <2>4
  <2>6. PumpTypes'
    BY <1>1, <1>2, <2>3, <2>5 DEF PumpTypes
  <2>7. CASE spoiled = 0
    <3>1. InOrder /\ Bounds /\ OneAtATime /\ (Undisturbed => Timed)
      BY <2>7 DEF PumpInv
    <3>2. First' = First
      BY <2>3 DEF First
    <3>3. InOrder' /\ Bounds' /\ OneAtATime'
      <4>1. pump'.at # "act" /\ shown' = shown /\ held' = held
        BY <1>2, <2>3
      <4>2. InOrder'
        BY <2>3, <3>1, <3>2, <4>1 DEF InOrder
      <4>3. Bounds'
        BY <2>3, <3>1, <4>1 DEF Bounds
      <4>4. OneAtATime'
        BY <2>3, <3>1, <3>2, <4>1 DEF OneAtATime
      <4>5. QED
        BY <4>2, <4>3, <4>4
    <3>4. ASSUME Undisturbed' PROVE Timed'
      <4>1. Timed
        BY <1>2, <2>5, <3>1, <3>4 DEF Undisturbed
      <4> DEFINE n == drift.resumes
                 s1 == Slack(held, n + 1)
                 s2 == Slack(held, (n + 1) + 1)
                 told == position - drift.missed
      <4>2. s1 \in Nat /\ s2 = s1 + Ahead + held /\ Ahead \in Nat /\ Ahead >= 1 /\ held \in Nat /\ n \in Nat /\ n + 1 \in Nat
        <5>1. Ahead \in Nat /\ Ahead >= 1 /\ held \in Nat
          BY <1>1, PumpNumbers
        <5>2. n \in Nat
          BY <2>4
        <5> HIDE DEF n
        <5>3. n + 1 \in Nat
          BY <5>2
        <5>4. Slack(held, n + 1) \in Nat /\ Slack(held, (n + 1) + 1) = Slack(held, n + 1) + Ahead + held
          BY <5>1, <5>3, SlackGrows
        <5>5. QED
          BY <5>1, <5>2, <5>3, <5>4
      <4>3. told <= First - 1 + s1 /\ told >= First - 1 - n
            /\ (pump.head <= Last /\ Len(pump.queue) = 0 => told >= pump.head - 1 - n)
        BY <1>1, <4>1 DEF Timed
      <4>4. Slack(held', drift'.resumes) = s1 /\ Slack(held', drift'.resumes + 1) = s2
        BY <1>2, <2>5
      <4>5. First \in Int /\ pump.head \in Nat /\ position' = position /\ told \in Int
        <5>1. position \in Nat /\ drift.missed \in Int
          BY <1>1, PumpNumbers
        <5>2. told \in Int
          BY <5>1
        <5>3. QED
          BY <1>1, <1>2, <5>2, PumpNumbers
      <4> HIDE DEF s1, s2, told
      <4>6. /\ told <= First - 1 + s2 /\ told >= First - 1 - (n + 1)
            /\ told <= First + s1 /\ told >= First - (n + 1)
            /\ (pump.head <= Last /\ Len(pump.queue) = 0 => told >= pump.head - (n + 1) /\ told >= pump.head - 1 - (n + 1))
        <5>1. /\ told <= First - 1 + s2 /\ told >= First - 1 - (n + 1)
              /\ told <= First + s1 /\ told >= First - (n + 1)
          BY <4>2, <4>3, <4>5
        <5>2. pump.head <= Last /\ Len(pump.queue) = 0 => told >= pump.head - (n + 1) /\ told >= pump.head - 1 - (n + 1)
          <6>1. \A h \in Nat : told >= h - 1 - n => told >= h - (n + 1) /\ told >= h - 1 - (n + 1)
            BY <4>2, <4>5
          <6>2. QED
            BY <4>3, <4>5, <6>1
        <5>3. QED
          BY <5>1, <5>2
      <4>7. QED
        BY <2>3, <2>5, <3>2, <4>4, <4>5, <4>6 DEF Timed, told
    <3>5. QED
      BY <2>6, <3>3, <3>4 DEF PumpInv
  <2>8. CASE spoiled # 0
    BY <1>2, <2>6, <2>8 DEF PumpInv
  <2>9. QED
    BY <2>7, <2>8
<1>6. QED
  BY <1>4, <1>5

\* The end of the file.
LEMMA ReadEndKeeps == ASSUME PumpInv, ReadEnd PROVE PumpInv'
<1> DEFINE more == pump.queue \o pump.inside
<1>1. PumpTypes /\ pump \in PumpStates
  BY DEF PumpInv, PumpTypes
<1>2. /\ pump' = [pump EXCEPT !.at = "seek", !.tail = TRUE, !.queue = more, !.inside = <<>>]
      /\ Reads /\ pump.head > Last
      /\ UNCHANGED <<playing, request, position, late, shown, held, spoiled, drift>>
  BY DEF ReadEnd, atomics
<1>3. pump.queue \in Seq(Nat) /\ pump.inside \in Seq(Nat) /\ Len(pump.queue) \in Nat /\ Len(pump.inside) \in Nat
  BY <1>1, PumpNumbers
<1>4. /\ more \in Seq(Nat) /\ Len(more) = Len(pump.queue) + Len(pump.inside)
      /\ \A i \in 1..(Len(pump.queue) + Len(pump.inside)) :
            more[i] = IF i <= Len(pump.queue) THEN pump.queue[i] ELSE pump.inside[i - Len(pump.queue)]
  BY ONLY <1>3, ConcatProperties
<1> HIDE DEF more
<1>5. /\ pump' \in PumpStates /\ pump'.at = "seek" /\ pump'.play = pump.play /\ pump'.need = pump.need /\ pump'.tail = TRUE
      /\ pump'.head = pump.head /\ pump'.queue = more /\ pump'.inside = <<>> /\ pump'.clock = pump.clock
      /\ pump'.base = pump.base
  <2>1. <<>> \in Seq(Nat)
    OBVIOUS
  <2> HIDE DEF NoTime
  <2>2. QED
    BY <1>1, <1>2, <1>4, <2>1 DEF PumpStates, Turns
<1>6. PumpTypes'
  BY <1>1, <1>2, <1>5 DEF PumpTypes
<1>7. CASE spoiled = 0
  <2>1. InOrder /\ Bounds /\ OneAtATime /\ (Undisturbed => Timed)
    BY <1>7 DEF PumpInv
  <2> DEFINE a == Len(pump.queue)
             b == Len(pump.inside)
             h == pump.head
             f == First
  <2>2. a \in Nat /\ b \in Nat /\ h \in Nat /\ f \in Int /\ f = h - b - a /\ Last \in Nat /\ held \in Nat /\ Ahead \in Nat
    BY <1>1, PumpNumbers
  <2>3. Len(pump'.queue) = a + b /\ Len(pump'.inside) = 0 /\ pump'.head = h
    BY <1>4, <1>5
  <2>4. First' = f
    <3>1. First' = pump'.head - Len(pump'.inside) - Len(pump'.queue)
      BY DEF First
    <3> HIDE DEF a, b, h, f
    <3>2. First' = h - 0 - (a + b)
      BY <2>3, <3>1
    <3>3. QED
      BY <2>2, <3>2
  <2>5. InOrder'
    <3>1. /\ f >= 0 /\ (\A i \in 1..a : pump.queue[i] = f + i - 1) /\ (\A i \in 1..b : pump.inside[i] = f + a + i - 1)
          /\ (shown # Blank => shown = f - 1 \/ (shown = Last /\ f = 0))
      BY <2>1 DEF InOrder
    <3>2. \A i \in 1..(a + b) : more[i] = IF i <= a THEN pump.queue[i] ELSE pump.inside[i - a]
      BY <1>4
    <3> HIDE DEF a, b, h, f
    <3>3. ASSUME NEW i \in 1..(a + b) PROVE more[i] = f + i - 1
      <4>1. CASE i <= a
        <5>1. i \in 1..a
          BY <2>2, <4>1
        <5>2. QED
          BY <3>1, <3>2, <4>1, <5>1
      <4>2. CASE ~(i <= a)
        <5>1. i - a \in 1..b /\ f + a + (i - a) - 1 = f + i - 1
          BY <2>2, <4>2
        <5>2. more[i] = pump.inside[i - a] /\ pump.inside[i - a] = f + a + (i - a) - 1
          BY <3>1, <3>2, <4>2, <5>1
        <5>3. QED
          BY <5>1, <5>2
      <4>3. QED
        BY <4>1, <4>2
    <3>4. \A i \in 1..Len(pump'.inside) : FALSE
      BY <2>3
    <3>5. QED
      BY <1>2, <1>5, <2>3, <2>4, <3>1, <3>3, <3>4 DEF InOrder
  <2>6. Bounds'
    <3>1. /\ b <= held /\ a + b <= Ahead + held
          /\ h <= Last + 1
          /\ (pump.need => shown = Blank /\ a = 0 /\ b = 0)
      BY <2>1 DEF Bounds
    <3>2. h > Last /\ pump'.need = pump.need /\ shown' = shown /\ held' = held /\ pump'.at # "act"
      BY <1>2, <1>5
    <3> HIDE DEF a, b, h, f
    <3>3. /\ Len(pump'.inside) <= held' /\ Len(pump'.queue) + Len(pump'.inside) <= Ahead + held'
          /\ ~(pump'.head <= Last) /\ Len(pump'.inside) = 0 /\ pump'.head > Last
          /\ pump'.head <= Last + 1
          /\ (pump'.need => shown' = Blank /\ Len(pump'.queue) = 0 /\ Len(pump'.inside) = 0)
      BY <2>2, <2>3, <3>1, <3>2
    <3>4. QED
      BY <3>2, <3>3 DEF Bounds
  <2>7. OneAtATime'
    <3>1. ~(f = 0 /\ shown # Blank /\ held <= Last)
      <4>1. ASSUME f = 0, shown # Blank, held <= Last PROVE FALSE
        <5>1. ~pump.need /\ b <= held
          BY <2>1, <4>1 DEF Bounds
        <5>2. pump.play /\ pump.at = "act"
          BY <1>2, <5>1 DEF Reads, Idle, Act
        <5>3. a = 0
          BY <2>1, <4>1, <5>2 DEF OneAtATime
        <5>4. h > Last
          BY <1>2
        <5> HIDE DEF a, b, h, f
        <5>5. QED
          BY <2>2, <4>1, <5>1, <5>3, <5>4
      <4>2. QED
        BY <4>1
    <3>2. QED
      BY <1>2, <2>4, <3>1 DEF OneAtATime
  <2>8. ASSUME Undisturbed' PROVE Timed'
    <3>1. Timed
      BY <1>2, <2>1, <2>8 DEF Undisturbed
    <3>2. ~(pump'.head <= Last)
      BY <1>2, <2>2, <2>3
    <3>3. QED
      BY <1>2, <1>5, <2>4, <3>1, <3>2 DEF Timed
  <2>9. QED
    BY <1>6, <2>5, <2>6, <2>7, <2>8 DEF PumpInv
<1>8. CASE spoiled # 0
  BY <1>2, <1>6, <1>8 DEF PumpInv
<1>9. QED
  BY <1>7, <1>8

\* A sample that does not decode: what is said of the frames is only said without one.
LEMMA ReadBadSampleKeeps == ASSUME PumpInv, ReadBadSample PROVE PumpInv'
<1> DEFINE c == IF pump.clock = NoTime THEN pump.head ELSE pump.clock
           e == IF pump.clock = NoTime THEN 0 ELSE pump.elapsed
           h == pump.head + 1
<1>1. PumpTypes /\ pump \in PumpStates
  BY DEF PumpInv, PumpTypes
<1>2. /\ pump' = [pump EXCEPT !.at = "seek", !.head = @ + 1, !.clock = IF @ = NoTime THEN pump.head ELSE @,
                              !.elapsed = IF pump.clock = NoTime THEN 0 ELSE @]
      /\ position' = Place(pump', pump.head) /\ spoiled' = spoiled + 1
      /\ UNCHANGED <<playing, looping, request, late, shown, held, calls, landed, drift>>
  BY DEF ReadBadSample
<1>3. pump' = [pump EXCEPT !.at = "seek", !.head = h, !.clock = c, !.elapsed = e]
  BY <1>2
<1>4. pump.head \in Nat /\ pump.clock \in Nat \cup {NoTime} /\ pump.elapsed \in Nat /\ spoiled \in Nat
  BY <1>1, PumpNumbers DEF PumpTypes
<1>5. c \in Nat /\ e \in Nat /\ h \in Nat
  BY <1>4
<1> HIDE DEF c, e, h
<1>6. pump' \in PumpStates /\ pump'.base = pump.base /\ pump'.clock = c
  BY <1>1, <1>3, <1>5 DEF PumpStates, Turns
<1>7. position' \in Nat
  <2>1. pump'.base \in Nat /\ pump'.clock \in Nat
    BY <1>1, <1>5, <1>6, PumpNumbers
  <2>2. position' = pump'.base + (IF pump.head > pump'.clock THEN pump.head - pump'.clock ELSE 0)
    BY <1>2 DEF Place
  <2>3. QED
    BY <1>4, <2>1, <2>2
<1>8. spoiled' \in Nat /\ spoiled' # 0
  BY <1>2, <1>4
<1>9. QED
  BY <1>1, <1>2, <1>6, <1>7, <1>8 DEF PumpInv, PumpTypes

\* What is due is presented.
LEMMA PresentKeeps == ASSUME PumpInv, Present PROVE PumpInv'
<1> DEFINE due == Due(pump, pump.need)
           p   == Presented(pump, due)
           pic == IF due = <<>> THEN shown ELSE due[Len(due)]
           need2 == pump.need /\ pic = Blank
           a == Len(pump.queue)
           b == Len(pump.inside)
           f == First
<1>1. PumpTypes /\ pump \in PumpStates /\ pump.at = "present" /\ pump.need \in BOOLEAN
  BY PumpNumbers DEF PumpInv, PumpTypes, Present
<1>2. /\ pump' = [p EXCEPT !.at = "act", !.need = need2]
      /\ shown' = pic /\ position' = IF due = <<>> THEN position ELSE Place(p, pic)
      /\ UNCHANGED <<playing, request, late, held, spoiled, drift>>
  BY DEF Present
<1>3. PICK k \in 0..a :
         /\ due \in Seq(Nat) /\ Len(due) = k
         /\ \A i \in 1..k : due[i] = pump.queue[i]
         /\ due = <<>> <=> k = 0
         /\ ~pump.need /\ ~pump.play => k = 0
         /\ pump.clock = NoTime => k <= 1
         /\ pump.play /\ ~pump.need /\ a > 0 /\ pump.queue[1] <= pump.clock => k >= 1
         /\ pump.play /\ ~pump.need /\ a > 0 /\ pump.clock = NoTime => k >= 1
  BY <1>1, DueIsFront
<1>4. /\ a \in Nat /\ b \in Nat /\ f \in Int /\ f = pump.head - b - a /\ pump.head \in Nat
      /\ Last \in Nat /\ held \in Nat /\ Ahead \in Nat /\ Ahead >= 1
      /\ pump.clock \in Nat \cup {NoTime} /\ pump.elapsed \in Nat /\ pump.base \in Nat /\ position \in Nat
  BY <1>1, PumpNumbers
<1>8. pump.queue \in Seq(Nat) /\ \A i \in 1..a : pump.queue[i] \in Nat
  <2>1. pump.queue \in Seq(Nat)
    BY <1>1, PumpNumbers
  <2>2. QED
    BY <2>1
<1> HIDE DEF due, a, b, f
<1>5. CASE k = 0
  <2>1. due = <<>> /\ p = pump /\ pic = shown
    BY <1>3, <1>5 DEF Presented
  <2>2. /\ pump' \in PumpStates /\ pump'.at = "act" /\ pump'.play = pump.play /\ (pump'.need => pump.need)
        /\ pump'.tail = pump.tail
        /\ pump'.head = pump.head /\ pump'.queue = pump.queue /\ pump'.inside = pump.inside
        /\ pump'.clock = pump.clock /\ pump'.base = pump.base
    <3>1. need2 \in BOOLEAN /\ (need2 => pump.need) /\ pump' = [pump EXCEPT !.at = "act", !.need = need2]
      BY <1>1, <1>2, <2>1
    <3> HIDE DEF need2, NoTime
    <3>2. QED
      BY <1>1, <3>1 DEF PumpStates, Turns
  <2>3. shown' = shown /\ position' = position /\ First' = f
    BY <1>2, <2>1, <2>2 DEF First, f
  <2>4. PumpTypes'
    BY <1>1, <1>2, <2>2, <2>3 DEF PumpTypes
  <2>5. CASE spoiled = 0
    <3>1. InOrder /\ Bounds /\ OneAtATime /\ (Undisturbed => Timed)
      BY <2>5 DEF PumpInv
    <3>2. pump.play /\ a > 0 => pump.clock # NoTime /\ ~(pump.queue[1] <= pump.clock)
      <4>1. ~(pump.need /\ a > 0)
        BY <3>1, <1>4 DEF Bounds, a
      <4>2. QED
        BY <1>3, <1>5, <4>1
    <3>3. InOrder'
      BY <1>2, <2>2, <2>3, <3>1 DEF InOrder, f
    <3>4. Bounds'
      BY <1>2, <2>2, <2>3, <3>1, <3>2 DEF Bounds, a
    <3>5. OneAtATime'
      <4> SUFFICES ASSUME First' = 0, shown' # Blank, held' <= Last
                   PROVE  Len(pump.queue) <= 1 /\ (pump.play => Len(pump.queue) = 0)
        BY <2>2 DEF OneAtATime
      <4>1. First = 0 /\ shown # Blank /\ held <= Last
        BY <1>2, <2>3 DEF f
      <4>2. Len(pump.queue) <= 1
        BY <3>1, <4>1 DEF OneAtATime
      <4>3. ASSUME pump.play, a > 0 PROVE FALSE
        <5>1. 1 \in 1..a
          BY <1>4, <4>3
        <5>2. pump.queue[1] = First + 1 - 1
          BY <3>1, <5>1 DEF InOrder, a
        <5>3. pump.queue[1] = 0
          BY <4>1, <5>2
        <5>4. pump.clock \in Nat /\ ~(pump.queue[1] <= pump.clock)
          BY <1>4, <3>2, <4>3
        <5>5. QED
          BY <5>3, <5>4
      <4>4. QED
        BY <1>4, <4>2, <4>3 DEF a
    <3>6. ASSUME Undisturbed' PROVE Timed'
      <4>1. Timed
        BY <1>2, <3>1, <3>6 DEF Undisturbed
      <4>2. pump.at # "act"
        BY <1>1
      <4>3. QED
        BY <1>2, <2>2, <2>3, <4>1, <4>2 DEF Timed, f
    <3>7. QED
      BY <2>4, <3>3, <3>4, <3>5, <3>6 DEF PumpInv
  <2>6. CASE spoiled # 0
    BY <1>2, <2>4, <2>6 DEF PumpInv
  <2>7. QED
    BY <2>5, <2>6
<1>6. CASE k > 0
  <2> DEFINE rest == SubSeq(pump.queue, k + 1, Len(pump.queue))
             c == IF pump.clock = NoTime THEN pump.queue[1] ELSE pump.clock
             e == IF pump.clock = NoTime THEN 0 ELSE pump.elapsed
             x == pump.queue[k]
  <2>1. /\ due # <<>> /\ pic = x /\ due[1] = pump.queue[1] /\ x \in Nat /\ pump.queue[1] \in Nat /\ k \in 1..a /\ 1 \in 1..a
    <3>1. k \in 1..a /\ 1 \in 1..a /\ k \in 1..k /\ 1 \in 1..k
      BY <1>4, <1>6
    <3>2. QED
      BY <1>3, <1>4, <1>6, <1>8, <3>1
  <2>2. /\ rest \in Seq(Nat) /\ Len(rest) = a - k
        /\ \A i \in 1..(a - k) : rest[i] = pump.queue[i + k]
    BY <1>3, <1>8, Fronts DEF a
  <2>3. c \in Nat /\ e \in Nat
    BY <1>4, <2>1
  <2>4. p = [pump EXCEPT !.queue = rest, !.clock = c, !.elapsed = e]
    BY <1>3, <2>1 DEF Presented
  <2>5. need2 \in BOOLEAN /\ ~need2
    BY <1>1, <2>1 DEF Blank
  <2> HIDE DEF rest, c, e, need2, x, NoTime
  <2>6. p \in PumpStates /\ p.queue = rest /\ p.clock = c /\ p.base = pump.base /\ p.head = pump.head
        /\ p.inside = pump.inside /\ p.tail = pump.tail /\ p.play = pump.play
    BY <1>1, <2>2, <2>3, <2>4 DEF PumpStates
  <2>7. /\ shown' = x /\ position' = p.base + (IF x > p.clock THEN x - p.clock ELSE 0)
    BY <1>2, <2>1 DEF Place
  <2> HIDE DEF p
  <2>8. /\ pump' \in PumpStates /\ pump'.at = "act" /\ ~pump'.need /\ pump'.queue = rest /\ pump'.clock = c
        /\ pump'.base = pump.base /\ pump'.head = pump.head /\ pump'.inside = pump.inside /\ pump'.tail = pump.tail
        /\ pump'.play = pump.play
    BY <1>2, <2>5, <2>6 DEF PumpStates, Turns
  <2>9. position' = pump.base + (IF x > c THEN x - c ELSE 0) /\ position' \in Nat
    <3>1. position' = pump.base + (IF x > c THEN x - c ELSE 0)
      BY <2>6, <2>7
    <3>2. QED
      BY <1>4, <2>1, <2>3, <3>1
  <2>10. PumpTypes'
    BY <1>1, <1>2, <2>1, <2>7, <2>8, <2>9 DEF PumpTypes
  <2>11. First' = f + k /\ k \in Nat /\ k <= a
    <3>1. First' = pump'.head - Len(pump'.inside) - Len(pump'.queue)
      BY DEF First
    <3>2. First' = pump.head - b - (a - k)
      BY <2>2, <2>8, <3>1 DEF b
    <3>3. QED
      BY <1>4, <2>1, <3>2
  <2>12. CASE spoiled = 0
    <3>1. InOrder /\ Bounds /\ OneAtATime /\ (Undisturbed => Timed)
      BY <2>12 DEF PumpInv
    <3>2. /\ f >= 0 /\ (\A i \in 1..a : pump.queue[i] = f + i - 1)
          /\ \A i \in 1..b : pump.inside[i] = f + a + i - 1
      BY <3>1 DEF InOrder, f, a, b
    <3>3. x = f + k - 1 /\ pump.queue[1] = f
      <4>1. x = f + k - 1 /\ pump.queue[1] = f + 1 - 1
        BY <2>1, <3>2 DEF x
      <4>2. QED
        BY <1>4, <4>1
    <3>4. InOrder'
      <4>1. \A i \in 1..(a - k) : rest[i] = (f + k) + i - 1
        <5>1. ASSUME NEW i \in 1..(a - k) PROVE rest[i] = (f + k) + i - 1
          <6>1. i + k \in 1..a /\ f + (i + k) - 1 = (f + k) + i - 1
            BY <1>4, <2>11
          <6>2. rest[i] = pump.queue[i + k] /\ pump.queue[i + k] = f + (i + k) - 1
            BY <2>2, <3>2, <6>1
          <6>3. QED
            BY <6>1, <6>2
        <5>2. QED
          BY <5>1
      <4>2. \A i \in 1..b : pump.inside[i] = (f + k) + (a - k) + i - 1
        <5>1. \A i \in 1..b : f + a + i - 1 = (f + k) + (a - k) + i - 1
          BY <1>4, <2>11
        <5>2. QED
          BY <3>2, <5>1
      <4>3. f + k >= 0 /\ x = (f + k) - 1
        <5>1. f >= 0 /\ f \in Int /\ k \in Nat /\ x = f + k - 1
          BY <1>4, <2>11, <3>2, <3>3
        <5>2. QED
          BY <5>1
      <4>4. Len(pump'.queue) = a - k /\ Len(pump'.inside) = b
        BY <2>2, <2>8 DEF b
      <4>5. QED
        BY <2>7, <2>8, <2>11, <4>1, <4>2, <4>3, <4>4 DEF InOrder
    <3>5. Bounds'
      <4>1. /\ b <= held /\ a + b <= Ahead + held /\ (pump.head <= Last => a <= Ahead)
            /\ (pump.tail => b = 0 /\ pump.head > Last) /\ pump.head <= Last + 1
        BY <3>1 DEF Bounds, a, b
      <4>2. Len(pump'.queue) = a - k /\ Len(pump'.inside) = b /\ held' = held /\ c # NoTime
        BY <1>2, <2>2, <2>3, <2>8 DEF b, NoTime
      <4>3. /\ b <= held /\ (a - k) + b <= Ahead + held /\ (pump.head <= Last => a - k <= Ahead)
            /\ pump.head <= Last + 1
        BY <1>4, <1>6, <2>11, <4>1
      <4>4. QED
        BY <2>8, <4>1, <4>2, <4>3 DEF Bounds
    <3>6. OneAtATime'
      <4>1. First' # 0
        BY <1>4, <1>6, <2>11, <3>2
      <4>2. QED
        BY <4>1 DEF OneAtATime
    <3>7. ASSUME Undisturbed' PROVE Timed'
      <4>1. Timed
        BY <1>2, <3>1, <3>7 DEF Undisturbed
      <4> DEFINE n == drift.resumes
                 s0 == Slack(held, n)
                 s1 == Slack(held, n + 1)
                 base == pump.base - drift.missed
                 told == position' - drift.missed
                 clock == pump.clock
      <4>0. drift.missed \in Int /\ pump.base \in Nat /\ clock \in Nat \cup {NoTime}
        BY <1>1, PumpNumbers
      <4>2. n \in Nat /\ s0 \in Nat /\ s1 = s0 + Ahead + held
        BY <1>1, PumpNumbers
      <4>3. /\ base <= f - 1 + s1
            /\ clock # NoTime => base - clock <= s0 /\ base - clock >= 0 - n
            /\ clock = NoTime => base <= f + s0 /\ base >= f - n
        BY <4>1 DEF Timed, f
      <4>4. Slack(held', drift'.resumes) = s0 /\ Slack(held', drift'.resumes + 1) = s1 /\ drift'.resumes = n
            /\ drift'.missed = drift.missed
        BY <1>2
      <4>5. base \in Int /\ clock \in Nat \cup {NoTime} /\ c = IF clock = NoTime THEN f ELSE clock
        BY <4>0, <1>4, <3>3 DEF c
      <4>6. /\ told = base + (IF x > c THEN x - c ELSE 0) /\ told \in Int
            /\ pump'.base - drift.missed = base /\ pump'.clock = c
        <5> DEFINE on == IF x > c THEN x - c ELSE 0
        <5>1. x \in Int /\ c \in Int
          BY <1>4, <1>6, <2>3, <2>11, <3>3, <4>5
        <5>2. on \in Int
          BY <5>1
        <5>3. position' = pump.base + on /\ pump'.base = pump.base /\ pump'.clock = c
          BY <2>8, <2>9
        <5> HIDE DEF on
        <5>4. told = base + on /\ told \in Int
          BY <4>0, <5>2, <5>3
        <5>5. QED
          BY <5>3, <5>4 DEF on
      <4>7. clock = NoTime => k = 1
        BY <1>3, <1>6
      <4> HIDE DEF n, s0, s1, base, told, clock
      <4>8. /\ base - c <= s0 /\ base - c >= 0 - n
            /\ base <= (f + k) - 1 + s1
        <5>1. f \in Int /\ k \in Nat /\ k >= 1 /\ held \in Nat /\ Ahead \in Nat
          BY <1>4, <1>6, <2>11
        <5>2. base <= (f + k) - 1 + s1
          BY <4>2, <4>3, <4>5, <5>1
        <5>3. CASE clock = NoTime
          <6>1. c = f /\ base <= f + s0 /\ base >= f - n
            BY <4>3, <4>5, <5>3
          <6>2. QED
            BY <4>2, <4>5, <5>1, <5>2, <6>1
        <5>4. CASE clock # NoTime
          <6>1. c = clock /\ base - clock <= s0 /\ base - clock >= 0 - n
            BY <4>3, <4>5, <5>4
          <6>2. QED
            BY <5>2, <6>1
        <5>5. QED
          BY <5>3, <5>4
      <4>9. told <= (f + k) - 1 + s1 /\ told >= (f + k) - 1 - n
        <5>1. f \in Int /\ k \in Nat /\ k >= 1 /\ held \in Nat /\ Ahead \in Nat /\ c \in Nat /\ x = f + k - 1
          BY <1>4, <1>6, <2>3, <2>11, <3>3
        <5>2. CASE x > c
          <6>1. told = base + (x - c)
            BY <4>6, <5>2
          <6>2. QED
            BY <4>2, <4>5, <4>8, <5>1, <6>1
        <5>3. CASE ~(x > c)
          <6>1. told = base + 0
            BY <4>6, <5>3
          <6>2. QED
            BY <4>2, <4>5, <4>8, <5>1, <5>3, <6>1
        <5>4. QED
          BY <5>2, <5>3
      <4>10. c # NoTime /\ pump'.at = "act"
        BY <2>3, <2>8 DEF NoTime
      <4>11. pump'.play
        <5>1. pump.need => a = 0
          BY <3>1 DEF Bounds, a
        <5>2. a # 0
          BY <1>4, <1>6, <2>11
        <5>3. QED
          BY <1>1, <1>3, <1>6, <2>8, <5>1, <5>2
      <4>12. QED
        BY <2>11, <4>4, <4>6, <4>8, <4>9, <4>10, <4>11 DEF Timed, told
    <3>8. QED
      BY <2>10, <3>4, <3>5, <3>6, <3>7 DEF PumpInv
  <2>13. CASE spoiled # 0
    BY <1>2, <2>10, <2>13 DEF PumpInv
  <2>14. QED
    BY <2>12, <2>13
<1>7. QED
  BY <1>3, <1>4, <1>5, <1>6

\* A sample: what comes out of the decoder is decoded, and presented at once when a
\* picture is wanted.
LEMMA ReadSampleKeeps == ASSUME PumpInv, ReadSample PROVE PumpInv'
<1> DEFINE f == pump.head
           all == Append(pump.inside, f)
           out == IF Len(all) > held THEN <<all[1]>> ELSE <<>>
           q2 == pump.queue \o out
           b2 == SubSeq(all, Len(out) + 1, Len(all))
           c == IF pump.clock = NoTime THEN f ELSE pump.clock
           e == IF pump.clock = NoTime THEN 0 ELSE pump.elapsed
           p == [pump EXCEPT !.at = "seek", !.head = f + 1, !.clock = c, !.elapsed = e, !.queue = q2, !.inside = b2]
           due == IF pump.need THEN Due(p, TRUE) ELSE <<>>
           a == Len(pump.queue)
           b == Len(pump.inside)
           first == First
<1>1. PumpTypes /\ pump \in PumpStates /\ pump.need \in BOOLEAN
  BY PumpNumbers DEF PumpInv, PumpTypes
<1>2. /\ pump' = [Presented(p, due) EXCEPT !.need = FALSE]
      /\ shown' = IF due = <<>> THEN shown ELSE due[1]
      /\ position' = Place(p, IF due = <<>> THEN f ELSE due[1])
      /\ Reads /\ pump.head <= Last
      /\ UNCHANGED <<playing, request, late, held, spoiled, drift>>
  BY DEF ReadSample
<1>3. /\ a \in Nat /\ b \in Nat /\ first \in Int /\ f = first + a + b /\ f \in Nat
      /\ Last \in Nat /\ held \in Nat /\ Ahead \in Nat /\ Ahead >= 1
      /\ pump.clock \in Nat \cup {NoTime} /\ pump.elapsed \in Nat /\ pump.base \in Nat /\ position \in Nat
      /\ pump.play \in BOOLEAN
  <2>1. /\ a \in Nat /\ b \in Nat /\ first \in Int /\ first = f - b - a /\ f \in Nat
        /\ Last \in Nat /\ held \in Nat /\ Ahead \in Nat /\ Ahead >= 1
        /\ pump.clock \in Nat \cup {NoTime} /\ pump.elapsed \in Nat /\ pump.base \in Nat /\ position \in Nat
        /\ pump.play \in BOOLEAN
    BY <1>1, PumpNumbers
  <2> HIDE DEF f, a, b, first
  <2>2. f = first + a + b
    BY <2>1
  <2>3. QED
    BY <2>1, <2>2
<1>4. pump.queue \in Seq(Nat) /\ pump.inside \in Seq(Nat)
  BY <1>1, PumpNumbers
<1>5. c \in Nat /\ e \in Nat
  BY <1>3
<1>6. Len(all) = b + 1
  BY <1>3, <1>4
<1> HIDE DEF f, c, e, a, b, first
<1>7. /\ q2 \in Seq(Nat) /\ b2 \in Seq(Nat)
      /\ b + 1 > held => Len(q2) = a + 1 /\ Len(b2) = b
      /\ ~(b + 1 > held) => Len(q2) = a /\ Len(b2) = b + 1
      /\ spoiled = 0 /\ PumpInv => (\A i \in 1..Len(q2) : q2[i] = first + i - 1)
                        /\ (\A i \in 1..Len(b2) : b2[i] = first + Len(q2) + i - 1)
  <2>1. spoiled = 0 /\ PumpInv => (\A i \in 1..a : pump.queue[i] = first + i - 1)
                           /\ (\A i \in 1..b : pump.inside[i] = first + a + i - 1)
    BY DEF PumpInv, InOrder, first, a, b
  <2>2. f = first + Len(pump.queue) + Len(pump.inside)
    BY <1>3 DEF a, b
  <2>3. CASE b + 1 > held
    <3>1. out = <<all[1]>>
      BY <1>6, <2>3
    <3>2. Len(out) = 1
      BY <3>1
    <3> HIDE DEF out, all
    <3>3. q2 = pump.queue \o <<all[1]>> /\ b2 = SubSeq(all, 1 + 1, b + 1) /\ 1 + 1 = 2
      BY <1>6, <3>1, <3>2
    <3>4. q2 = pump.queue \o <<Append(pump.inside, f)[1]>> /\ b2 = SubSeq(Append(pump.inside, f), 2, Len(pump.inside) + 1)
      BY <3>3 DEF b, all
    <3> HIDE DEF q2, b2
    <3>5. f \in Nat /\ first \in Int
      BY <1>3
    <3> DEFINE qq == pump.queue
               bb == pump.inside
               q3 == qq \o <<Append(bb, f)[1]>>
               b3 == SubSeq(Append(bb, f), 2, Len(bb) + 1)
    <3>12. qq \in Seq(Nat) /\ bb \in Seq(Nat) /\ f = first + Len(qq) + Len(bb)
      BY <1>4, <2>2
    <3>10. q2 = q3 /\ b2 = b3
      BY <3>4
    <3> HIDE DEF qq, bb
    <3>9. /\ q3 \in Seq(Nat) /\ Len(q3) = Len(qq) + 1 /\ b3 \in Seq(Nat) /\ Len(b3) = Len(bb)
      BY <3>5, <3>12, HandedOut, SMTT(60)
    <3>11. (\A i \in 1..Len(qq) : qq[i] = first + i - 1)
             /\ (\A i \in 1..Len(bb) : bb[i] = first + Len(qq) + i - 1) =>
             /\ \A i \in 1..(Len(qq) + 1) : q3[i] = first + i - 1
             /\ \A i \in 1..Len(bb) : b3[i] = first + (Len(qq) + 1) + i - 1
             /\ Append(bb, f)[1] = first + Len(qq)
      <4>1. ASSUME \A i \in 1..Len(qq) : qq[i] = first + i - 1, \A i \in 1..Len(bb) : bb[i] = first + Len(qq) + i - 1
            PROVE  /\ \A i \in 1..(Len(qq) + 1) : q3[i] = first + i - 1
                   /\ \A i \in 1..Len(bb) : b3[i] = first + (Len(qq) + 1) + i - 1
                   /\ Append(bb, f)[1] = first + Len(qq)
        <5>1. \A i \in 1..(Len(qq) + 1) : q3[i] = first + i - 1
          BY <3>5, <3>12, <4>1, HandedOut, SMTT(60)
        <5>2. \A i \in 1..Len(bb) : b3[i] = first + (Len(qq) + 1) + i - 1
          BY <3>5, <3>12, <4>1, HandedOut, SMTT(60)
        <5>3. Append(bb, f)[1] = first + Len(qq)
          BY <3>5, <3>12, <4>1, HandedOut, SMTT(60)
        <5>4. QED
          BY <5>1, <5>2, <5>3
      <4>2. QED
        BY <4>1
    <3> HIDE DEF q3, b3
    <3>6. /\ q2 \in Seq(Nat) /\ Len(q2) = Len(pump.queue) + 1 /\ b2 \in Seq(Nat) /\ Len(b2) = Len(pump.inside)
          /\ (\A i \in 1..Len(pump.queue) : pump.queue[i] = first + i - 1)
             /\ (\A i \in 1..Len(pump.inside) : pump.inside[i] = first + Len(pump.queue) + i - 1) =>
                /\ \A i \in 1..(Len(pump.queue) + 1) : q2[i] = first + i - 1
                /\ \A i \in 1..Len(pump.inside) : b2[i] = first + (Len(pump.queue) + 1) + i - 1
      BY ONLY <3>9, <3>10, <3>11 DEF qq, bb
    <3>7. /\ q2 \in Seq(Nat) /\ Len(q2) = a + 1 /\ b2 \in Seq(Nat) /\ Len(b2) = b
          /\ spoiled = 0 /\ PumpInv => (\A i \in 1..(a + 1) : q2[i] = first + i - 1)
                /\ \A i \in 1..b : b2[i] = first + (a + 1) + i - 1
      BY <2>1, <3>6 DEF a, b
    <3>8. QED
      BY <2>3, <3>7
  <2>4. CASE ~(b + 1 > held)
    <3>1. out = <<>>
      BY <1>6, <2>4
    <3>2. Len(out) = 0
      BY <3>1
    <3>3. q2 = pump.queue
      BY <1>4, <3>1, ConcatEmptySeq
    <3>4. b2 = SubSeq(all, 1, b + 1)
      BY <1>6, <3>2
    <3> HIDE DEF q2, b2, out, all
    <3> DEFINE qq == pump.queue
               bb == pump.inside
               b3 == SubSeq(Append(bb, f), 1, Len(bb) + 1)
    <3>5. f \in Nat /\ first \in Int /\ qq \in Seq(Nat) /\ bb \in Seq(Nat) /\ f = first + Len(qq) + Len(bb) /\ b2 = b3
      BY <1>3, <1>4, <2>2, <3>4 DEF all, b
    <3> HIDE DEF qq, bb
    <3>10. b3 \in Seq(Nat) /\ Len(b3) = Len(bb) + 1
      BY <3>5, KeptBack, SMTT(60)
    <3>11. ASSUME \A i \in 1..Len(bb) : bb[i] = first + Len(qq) + i - 1
           PROVE  \A i \in 1..(Len(bb) + 1) : b3[i] = first + Len(qq) + i - 1
      BY <3>5, <3>11, KeptBack, SMTT(60)
    <3> HIDE DEF b3
    <3>6. /\ b2 \in Seq(Nat) /\ Len(b2) = Len(pump.inside) + 1
          /\ (\A i \in 1..Len(pump.inside) : pump.inside[i] = first + Len(pump.queue) + i - 1) =>
                \A i \in 1..(Len(pump.inside) + 1) : b2[i] = first + Len(pump.queue) + i - 1
      BY <3>5, <3>10, <3>11 DEF qq, bb
    <3>7. Len(q2) = a /\ Len(b2) = b + 1
      BY <3>3, <3>6 DEF a, b
    <3>8. spoiled = 0 /\ PumpInv => \A i \in 1..(b + 1) : b2[i] = first + a + i - 1
      BY <2>1, <3>6 DEF a, b
    <3>9. QED
      BY <1>4, <2>1, <2>4, <3>3, <3>6, <3>7, <3>8
  <2>5. QED
    BY <2>3, <2>4
<1> HIDE DEF all, out, q2, b2, NoTime
<1>8. p \in PumpStates /\ p.at = "seek" /\ p.head = f + 1 /\ p.clock = c /\ p.queue = q2 /\ p.inside = b2
      /\ p.base = pump.base /\ p.tail = pump.tail /\ p.play = pump.play
  <2>1. f + 1 \in Nat
    BY <1>3
  <2>2. QED
    BY <1>1, <1>5, <1>7, <2>1 DEF PumpStates, Turns
<1>9. c # NoTime
  BY <1>5 DEF NoTime
<1>10. due = IF pump.need /\ Len(q2) > 0 THEN <<q2[1]>> ELSE <<>>
  <2>1. q2 = <<>> <=> ~(Len(q2) > 0)
    <3>1. q2 \in Seq(Nat) /\ Len(q2) \in Nat
      BY <1>7
    <3>2. QED
      BY <3>1, EmptySeq
  <2>2. Due(p, TRUE) = IF q2 = <<>> THEN <<>> ELSE <<q2[1]>>
    BY <1>8 DEF Due
  <2> HIDE DEF p
  <2>3. QED
    BY <2>1, <2>2
<1>11. Len(q2) \in Nat /\ (Len(q2) > 0 => 1 \in 1..Len(q2) /\ q2[1] \in Nat)
  BY <1>7
<1>13. \/ b + 1 > held /\ Len(q2) = a + 1 /\ Len(b2) = b
       \/ ~(b + 1 > held) /\ Len(q2) = a /\ Len(b2) = b + 1
  BY <1>7
<1> DEFINE m == Len(q2)
           m2 == Len(b2)
<1>14. m \in Nat /\ m2 \in Nat /\ (m = a \/ m = a + 1) /\ (f + 1) - m2 - m = first
  <2>1. (m = a + 1 /\ m2 = b) \/ (m = a /\ m2 = b + 1)
    BY <1>13
  <2> HIDE DEF m, m2
  <2>2. QED
    BY <1>3, <2>1
<1> HIDE DEF m, m2
<1> HIDE DEF p, due
\* No picture is presented at once.
<1>12. CASE ~(pump.need /\ Len(q2) > 0)
  <2>1. due = <<>> /\ Presented(p, due) = p
    BY <1>10, <1>12 DEF Presented
  <2>2. pump' = [p EXCEPT !.need = FALSE] /\ shown' = shown /\ position' = Place(p, f)
    BY <1>2, <2>1
  <2>3. /\ pump' \in PumpStates /\ pump'.at = "seek" /\ ~pump'.need /\ pump'.head = f + 1 /\ pump'.clock = c
        /\ pump'.queue = q2 /\ pump'.inside = b2 /\ pump'.base = pump.base /\ pump'.tail = pump.tail
        /\ pump'.play = pump.play
    BY <1>8, <2>2 DEF PumpStates
  <2>4. position' = pump.base + (IF f > c THEN f - c ELSE 0) /\ position' \in Nat
    <3>1. position' = pump.base + (IF f > c THEN f - c ELSE 0)
      BY <1>8, <2>2 DEF Place
    <3>2. QED
      BY <1>3, <1>5, <3>1
  <2>5. PumpTypes'
    BY <1>1, <1>2, <2>2, <2>3, <2>4 DEF PumpTypes
  <2>6. Len(pump'.queue) = Len(q2) /\ Len(pump'.inside) = Len(b2) /\ Len(b2) \in Nat
    BY <1>7, <2>3
  <2>7. First' = first
    <3>1. First' = (f + 1) - m2 - m
      BY <2>3, <2>6 DEF First, m, m2
    <3>2. QED
      BY <1>14, <3>1
  <2>8. CASE spoiled = 0
    <3>1. InOrder /\ Bounds /\ OneAtATime /\ (Undisturbed => Timed)
      BY <2>8 DEF PumpInv
    <3>2. /\ b <= held /\ a + b <= Ahead + held /\ (f <= Last => a <= Ahead)
          /\ (pump.need => shown = Blank /\ a = 0 /\ b = 0)
          /\ (pump.play /\ a > 0 => pump.clock # NoTime)
      <4>1. pump.at = "act"
        BY <1>2 DEF Reads, Act
      <4>2. QED
        BY <3>1, <4>1 DEF Bounds, a, b, f
    <3>3. pump.need \/ (pump.play /\ a < Ahead)
      <4>1. ~Idle /\ ~Full
        BY <1>2 DEF Reads
      <4>2. QED
        BY <1>1, <1>3, <4>1 DEF Idle, Full, a
    <3>4. ~pump.tail /\ f <= Last /\ pump.at = "act"
      BY <1>2 DEF Reads, Act, f
    <3>5. InOrder'
      <4>1. /\ \A i \in 1..Len(q2) : q2[i] = first + i - 1
            /\ \A i \in 1..Len(b2) : b2[i] = first + Len(q2) + i - 1
        BY <1>7, <2>8
      <4>2. first >= 0 /\ (shown # Blank => shown = first - 1 \/ (shown = Last /\ first = 0))
        BY <3>1 DEF InOrder, first
      <4>3. QED
        BY <2>2, <2>3, <2>6, <2>7, <4>1, <4>2 DEF InOrder
    <3>6. Bounds'
      <4>1. Len(b2) <= held /\ Len(q2) + Len(b2) <= Ahead + held /\ Len(q2) <= Ahead
        <5>1. CASE b + 1 > held
          <6>1. Len(q2) = a + 1 /\ Len(b2) = b
            BY <1>7, <5>1
          <6>2. ~pump.need
            BY <1>3, <1>12, <6>1
          <6>3. QED
            BY <1>3, <3>2, <3>3, <6>1, <6>2
        <5>2. CASE ~(b + 1 > held)
          <6>1. Len(q2) = a /\ Len(b2) = b + 1
            BY <1>7, <5>2
          <6>2. QED
            BY <1>3, <3>2, <3>3, <3>4, <5>2, <6>1
        <5>3. QED
          BY <5>1, <5>2
      <4>2. f + 1 <= Last + 1
        BY <1>3, <3>4
      <4>3. held' = held /\ ~pump'.tail /\ pump'.at # "act"
        BY <1>2, <2>3, <3>4
      <4>4. QED
        BY <2>3, <2>6, <4>1, <4>2, <4>3 DEF Bounds
    <3>7. OneAtATime'
      <4> SUFFICES ASSUME First' = 0, shown' # Blank, held' <= Last PROVE Len(q2) <= 1
        BY <2>3 DEF OneAtATime
      <4>1. ~pump.need
        BY <2>2, <3>2
      <4>2. a = 0
        BY <1>2, <2>2, <2>7, <3>1, <3>3, <3>4, <4>1 DEF OneAtATime, a, first
      <4>3. m <= 1
        BY <1>14, <4>2
      <4>4. QED
        BY <4>3 DEF m
    <3>8. ASSUME Undisturbed' PROVE Timed'
      <4>1. Timed
        BY <1>2, <3>1, <3>8 DEF Undisturbed
      <4> DEFINE n == drift.resumes
                 s0 == Slack(held, n)
                 s1 == Slack(held, n + 1)
                 base == pump.base - drift.missed
                 told == position' - drift.missed
                 clock == pump.clock
      <4>0. drift.missed \in Int /\ pump.base \in Nat /\ clock \in Nat \cup {NoTime}
        BY <1>1, PumpNumbers
      <4>2. n \in Nat /\ s0 \in Nat /\ s1 = s0 + Ahead + held
        BY <1>1, PumpNumbers
      <4>3. /\ base <= first - 1 + s1
            /\ clock # NoTime => base - clock <= s0 /\ base - clock >= 0 - n
            /\ clock = NoTime => base <= first + s0 /\ base >= first - n
            /\ f <= Last /\ a = 0 /\ clock = NoTime => base >= f - n
        BY <4>1 DEF Timed, first, f, a
      <4>4. Slack(held', drift'.resumes) = s0 /\ Slack(held', drift'.resumes + 1) = s1 /\ drift'.resumes = n
            /\ drift'.missed = drift.missed
        BY <1>2
      <4>5. base \in Int /\ clock \in Nat \cup {NoTime} /\ c = IF clock = NoTime THEN f ELSE clock
        BY <4>0, <1>3 DEF c
      <4>6. /\ told = base + (IF f > c THEN f - c ELSE 0) /\ told \in Int
            /\ pump'.base - drift.missed = base /\ pump'.clock = c
        <5> DEFINE on == IF f > c THEN f - c ELSE 0
        <5>1. f \in Int /\ c \in Int
          BY <1>3, <3>4, <4>5
        <5>2. on \in Int
          BY <5>1
        <5>3. position' = pump.base + on /\ pump'.base = pump.base /\ pump'.clock = c
          BY <2>3, <2>4
        <5> HIDE DEF on
        <5>4. told = base + on /\ told \in Int
          BY <4>0, <5>2, <5>3
        <5>5. QED
          BY <5>3, <5>4 DEF on
      <4>7. clock = NoTime => a = 0
        BY <1>3, <3>2, <3>3
      <4> HIDE DEF n, s0, s1, base, told, clock
      <4>8. base - c <= s0 /\ base - c >= 0 - n
        <5>1. CASE clock = NoTime
          <6>1. c = f /\ base <= first + s0 /\ base >= f - n /\ first <= f
            BY <1>3, <3>4, <4>3, <4>5, <4>7, <5>1
          <6>2. QED
            BY <1>3, <4>2, <4>5, <6>1
        <5>2. CASE clock # NoTime
          BY <4>3, <4>5, <5>2
        <5>3. QED
          BY <5>1, <5>2
      <4>9. told <= first - 1 + s1 /\ told >= f - n /\ f >= first
        <5>1. a + b <= Ahead + held - 1
          BY <1>3, <3>2, <3>3
        <5>2. CASE f > c
          <6>1. told = base + (f - c)
            BY <4>6, <5>2
          <6>2. QED
            BY <1>3, <1>5, <4>2, <4>5, <4>8, <5>1, <6>1
        <5>3. CASE ~(f > c)
          <6>1. told = base + 0
            BY <4>6, <5>3
          <6>2. QED
            BY <1>3, <1>5, <4>2, <4>3, <4>5, <4>8, <5>3, <6>1
        <5>4. QED
          BY <5>2, <5>3
      <4>10. told >= first - 1 - n /\ told >= (f + 1) - 1 - n
        BY <1>3, <4>2, <4>6, <4>9
      <4>11. QED
        BY <1>9, <2>3, <2>7, <4>3, <4>4, <4>6, <4>8, <4>9, <4>10 DEF Timed, told
    <3>9. QED
      BY <2>5, <3>5, <3>6, <3>7, <3>8 DEF PumpInv
  <2>9. CASE spoiled # 0
    BY <1>2, <2>5, <2>9 DEF PumpInv
  <2>10. QED
    BY <2>8, <2>9
\* The picture that is wanted is presented at once.
<1>15. CASE pump.need /\ Len(q2) > 0
  <2> DEFINE rest == SubSeq(q2, 1 + 1, Len(q2))
             x == q2[1]
  <2>1. due = <<x>> /\ due # <<>> /\ Len(due) = 1 /\ due[1] = x /\ x \in Nat
    BY <1>10, <1>11, <1>15
  <2>2. /\ rest \in Seq(Nat) /\ Len(rest) = m - 1
    <3>1. 1 \in 0..Len(q2) /\ q2 \in Seq(Nat)
      BY <1>7, <1>11, <1>15
    <3>2. QED
      BY <3>1, Fronts DEF m
  <2>3. Presented(p, due) = [p EXCEPT !.queue = rest, !.clock = c, !.elapsed = p.elapsed]
    <3>1. p.clock # NoTime /\ p.clock = c /\ p.queue = q2
      BY <1>8, <1>9
    <3> HIDE DEF x
    <3>2. QED
      BY <2>1, <3>1 DEF Presented
  <2> HIDE DEF rest, x
  <2>4. p.elapsed \in Nat
    BY <1>8 DEF PumpStates
  <2>5. /\ pump' = [[p EXCEPT !.queue = rest, !.clock = c, !.elapsed = p.elapsed] EXCEPT !.need = FALSE]
        /\ shown' = x /\ position' = Place(p, x)
    BY <1>2, <2>1, <2>3
  <2>6. /\ pump' \in PumpStates /\ pump'.at = "seek" /\ ~pump'.need /\ pump'.head = f + 1 /\ pump'.clock = c
        /\ pump'.queue = rest /\ pump'.inside = b2 /\ pump'.base = pump.base /\ pump'.tail = pump.tail
        /\ pump'.play = pump.play
    BY <1>5, <1>8, <2>2, <2>4, <2>5 DEF PumpStates
  <2>7. position' = pump.base + (IF x > c THEN x - c ELSE 0) /\ position' \in Nat
    <3>1. position' = pump.base + (IF x > c THEN x - c ELSE 0)
      BY <1>8, <2>5 DEF Place
    <3>2. QED
      BY <1>3, <1>5, <2>1, <3>1
  <2>8. PumpTypes'
    BY <1>1, <1>2, <2>1, <2>5, <2>6, <2>7 DEF PumpTypes
  <2>9. CASE spoiled = 0
    <3>1. InOrder /\ Bounds /\ OneAtATime /\ (Undisturbed => Timed)
      BY <2>9 DEF PumpInv
    <3>2. a = 0 /\ b = 0
      BY <1>15, <3>1 DEF Bounds, a, b
    <3>3. m = 1 /\ m2 = 0
      <4>1. (m = a + 1 /\ m2 = b) \/ (m = a /\ m2 = b + 1)
        BY <1>13 DEF m, m2
      <4>2. m > 0
        BY <1>15 DEF m
      <4>3. QED
        BY <1>3, <3>2, <4>1, <4>2
    <3>4. f = first /\ first >= 0 /\ x = first
      <4>1. f = first
        BY <1>3, <3>2
      <4>2. q2[1] = first + 1 - 1
        <5>1. 1 \in 1..Len(q2)
          BY <1>11, <1>15
        <5>2. \A i \in 1..Len(q2) : q2[i] = first + i - 1
          BY <1>7, <2>9
        <5>3. QED
          BY <5>1, <5>2
      <4>3. QED
        BY <1>3, <4>1, <4>2 DEF x
    <3>5. Len(pump'.queue) = 0 /\ Len(pump'.inside) = 0 /\ First' = first + 1
      <4>1. Len(pump'.queue) = 0 /\ Len(pump'.inside) = 0
        BY <2>2, <2>6, <3>3 DEF m2
      <4>2. First' = (f + 1) - 0 - 0
        BY <2>6, <4>1 DEF First
      <4>3. QED
        BY <1>3, <3>4, <4>1, <4>2
    <3>6. ~pump'.tail /\ f <= Last /\ pump'.at # "act" /\ held' = held
      BY <1>2, <2>6 DEF Reads, f
    <3>7. InOrder'
      <4>1. first + 1 >= 0 /\ x = (first + 1) - 1
        BY <1>3, <3>4
      <4>2. /\ \A i \in 1..Len(pump'.queue) : FALSE
            /\ \A i \in 1..Len(pump'.inside) : FALSE
        BY <3>5
      <4>3. QED
        BY <2>5, <3>5, <4>1, <4>2 DEF InOrder
    <3>8. Bounds'
      <4>1. f + 1 <= Last + 1 /\ 0 <= held /\ 0 + 0 <= Ahead + held /\ 0 <= Ahead /\ ~(0 > 0)
        BY <1>3, <3>6
      <4>2. QED
        BY <2>6, <3>5, <3>6, <4>1 DEF Bounds
    <3>9. OneAtATime'
      <4>1. First' # 0
        BY <1>3, <3>4, <3>5
      <4>2. QED
        BY <4>1 DEF OneAtATime
    <3>10. ASSUME Undisturbed' PROVE Timed'
      <4>1. Timed
        BY <1>2, <3>1, <3>10 DEF Undisturbed
      <4> DEFINE n == drift.resumes
                 s0 == Slack(held, n)
                 s1 == Slack(held, n + 1)
                 base == pump.base - drift.missed
                 told == position' - drift.missed
                 clock == pump.clock
      <4>0. drift.missed \in Int /\ pump.base \in Nat /\ clock \in Nat \cup {NoTime}
        BY <1>1, PumpNumbers
      <4>2. n \in Nat /\ s0 \in Nat /\ s1 = s0 + Ahead + held
        BY <1>1, PumpNumbers
      <4>3. /\ base <= first - 1 + s1
            /\ clock # NoTime => base - clock <= s0 /\ base - clock >= 0 - n
            /\ clock = NoTime => base <= first + s0 /\ base >= first - n
        BY <4>1 DEF Timed, first
      <4>4. Slack(held', drift'.resumes) = s0 /\ Slack(held', drift'.resumes + 1) = s1 /\ drift'.resumes = n
            /\ drift'.missed = drift.missed
        BY <1>2
      <4>5. base \in Int /\ clock \in Nat \cup {NoTime} /\ c = IF clock = NoTime THEN first ELSE clock
        BY <4>0, <1>3, <3>4 DEF c
      <4>6. /\ told = base + (IF first > c THEN first - c ELSE 0) /\ told \in Int
            /\ pump'.base - drift.missed = base /\ pump'.clock = c
        <5> DEFINE on == IF first > c THEN first - c ELSE 0
        <5>1. first \in Int /\ c \in Int
          BY <1>3, <3>4, <4>5
        <5>2. on \in Int
          BY <5>1
        <5>3. position' = pump.base + on /\ pump'.base = pump.base /\ pump'.clock = c
          BY <2>6, <2>7, <3>4
        <5> HIDE DEF on
        <5>4. told = base + on /\ told \in Int
          BY <4>0, <5>2, <5>3
        <5>5. QED
          BY <5>3, <5>4 DEF on
      <4>7. base - c <= s0 /\ base - c >= 0 - n
        <5>1. CASE clock = NoTime
          BY <1>3, <4>2, <4>3, <4>5, <5>1
        <5>2. CASE clock # NoTime
          BY <4>3, <4>5, <5>2
        <5>3. QED
          BY <5>1, <5>2
      <4>8. /\ told <= (first + 1) - 1 + s1 /\ told >= (first + 1) - 1 - n
            /\ told >= (f + 1) - 1 - n /\ base <= (first + 1) - 1 + s1
        <5>1. CASE first > c
          <6>1. told = base + (first - c)
            BY <4>6, <5>1
          <6>2. QED
            BY <1>3, <1>5, <3>4, <4>2, <4>3, <4>5, <4>7, <6>1
        <5>2. CASE ~(first > c)
          <6>1. told = base + 0
            BY <4>6, <5>2
          <6>2. QED
            BY <1>3, <1>5, <3>4, <4>2, <4>3, <4>5, <4>7, <5>2, <6>1
        <5>3. QED
          BY <5>1, <5>2
      <4>9. QED
        BY <1>9, <2>6, <3>5, <4>4, <4>6, <4>7, <4>8 DEF Timed, told
    <3>11. QED
      BY <2>8, <3>7, <3>8, <3>9, <3>10 DEF PumpInv
  <2>10. CASE spoiled # 0
    BY <1>2, <2>8, <2>10 DEF PumpInv
  <2>11. QED
    BY <2>9, <2>10
<1>16. QED
  BY <1>12, <1>15

\* A file that is opened.
LEMMA PumpStarts == ASSUME PumpInit PROVE PumpInv
<1> DEFINE s == [at |-> "seek", play |-> FALSE, was |-> FALSE, need |-> TRUE, tail |-> FALSE,
                 head |-> 0, queue |-> <<>>, inside |-> <<>>,
                 clock |-> NoTime, base |-> 0, elapsed |-> 0]
<1>1. /\ pump = s /\ playing = TRUE /\ request = NoTime /\ position = 0 /\ late = {} /\ shown = Blank
      /\ held \in 0..MaxHeld /\ spoiled = 0 /\ drift = [missed |-> 0, resumes |-> 0, raced |-> FALSE]
  BY DEF PumpInit, NoDrift
<1>2. MaxHeld \in Nat /\ Last \in Nat /\ Ahead \in Nat
  BY FileAssumption
<1>3. held \in Nat
  BY <1>1, <1>2
<1>4. <<>> \in Seq(Nat) /\ Len(<<>>) = 0
  OBVIOUS
<1>5. s \in PumpStates
  BY <1>4 DEF PumpStates, Turns
<1>6. PumpTypes
  BY <1>1, <1>3, <1>5 DEF PumpTypes
<1>7. /\ pump.at = "seek" /\ pump.head = 0 /\ Len(pump.queue) = 0 /\ Len(pump.inside) = 0 /\ ~pump.tail
      /\ pump.clock = NoTime /\ pump.base = 0 /\ pump.queue = <<>> /\ pump.inside = <<>>
  BY <1>1, <1>4
<1>8. First = 0
  <2>1. First = 0 - 0 - 0
    BY <1>7 DEF First
  <2>2. QED
    BY <2>1
<1>9. InOrder
  BY <1>1, <1>7, <1>8 DEF InOrder
<1>10. Bounds
  <2>1. 0 <= held /\ 0 + 0 <= Ahead + held /\ 0 <= Ahead /\ 0 <= Last + 1 /\ ~(0 > 0)
    BY <1>2, <1>3
  <2>2. QED
    BY <1>1, <1>7, <2>1 DEF Bounds
<1>11. OneAtATime
  BY <1>1 DEF OneAtATime
<1>12. Timed
  <2> DEFINE s0 == Slack(held, 0)
             s1 == Slack(held, 0 + 1)
  <2>1. s0 \in Nat /\ s1 = s0 + Ahead + held /\ Ahead >= 1
    BY <1>3, SlackGrows, FileAssumption
  <2>2. drift.resumes = 0
    BY <1>1
  <2> HIDE DEF s0, s1
  <2>3. 0 <= 0 - 1 + s1 /\ 0 >= 0 - 1 - 0 /\ 0 <= 0 + s0 /\ 0 >= 0 - 0
    BY <1>2, <1>3, <2>1
  <2>4. QED
    BY <1>1, <1>7, <1>8, <2>2, <2>3 DEF Timed, s0, s1
<1>13. QED
  BY <1>6, <1>9, <1>10, <1>11, <1>12 DEF PumpInv

\* Every step keeps the invariant.
LEMMA PumpKeeps == ASSUME PumpInv, [PumpNext]_pumpVars PROVE PumpInv'
<1>1. CASE PumpNext
  <2>1. PumpInv
    OBVIOUS
  <2>2. CASE \/ \E b \in BOOLEAN : SetPlaying(b) \/ SetLooping(b)
             \/ \E t \in Targets : Seek(t)
             \/ SeekPosition
    BY <2>1, <2>2, HostKeeps
  <2>3. CASE NoSeek \/ TakeSeek
    BY <2>1, <2>3, NoSeekKeeps, TakeSeekKeeps
  <2>4. CASE Resume
    BY <2>1, <2>4, ResumeKeeps
  <2>5. CASE Present
    BY <2>1, <2>5, PresentKeeps
  <2>6. CASE Wait \/ EndStops
    BY <2>1, <2>6, WaitKeeps
  <2>7. CASE Rewind
    BY <2>1, <2>7, RewindKeeps
  <2>8. CASE ReadEnd
    BY <2>1, <2>8, ReadEndKeeps
  <2>9. CASE ReadSample
    BY <2>1, <2>9, ReadSampleKeeps
  <2>10. CASE ReadBadSample
    BY <2>1, <2>10, ReadBadSampleKeeps
  <2>11. CASE Tick
    BY <2>1, <2>11, TickKeeps
  <2>12. QED
    BY <1>1, <2>2, <2>3, <2>4, <2>5, <2>6, <2>7, <2>8, <2>9, <2>10, <2>11 DEF PumpNext
<1>2. CASE UNCHANGED pumpVars
  <2>1. /\ UNCHANGED <<playing, looping, request, position>>
        /\ UNCHANGED <<late, pump, shown, held, calls, spoiled, landed, drift>>
    BY <1>2 DEF pumpVars, atomics
  <2>2. First' = First
    BY <2>1 DEF First
  <2>3. PumpTypes' <=> PumpTypes
    BY <2>1 DEF PumpTypes
  <2>4. InOrder' <=> InOrder
    BY <2>1, <2>2 DEF InOrder
  <2>5. Bounds' <=> Bounds
    BY <2>1 DEF Bounds
  <2>6. OneAtATime' <=> OneAtATime
    BY <2>1, <2>2 DEF OneAtATime
  <2>7. Undisturbed' <=> Undisturbed
    BY <2>1 DEF Undisturbed
  <2>8. Timed' <=> Timed
    BY <2>1, <2>2 DEF Timed
  <2>9. QED
    BY <2>1, <2>3, <2>4, <2>5, <2>6, <2>7, <2>8 DEF PumpInv
<1>3. QED
  BY <1>1, <1>2

\* What the invariant says of the position a host reads.
LEMMA PumpIsNear == ASSUME PumpInv PROVE PositionStaysNear
<1> DEFINE n == drift.resumes
           told == position - drift.missed
           s1 == Slack(held, n + 1)
<1> SUFFICES ASSUME shown # Blank, request = NoTime, ~drift.raced, spoiled = 0
             PROVE  told <= shown + (Ahead + held) * (n + 1) /\ (told >= shown - n \/ shown = Last)
  BY DEF PositionStaysNear
<1>1. PumpTypes /\ InOrder /\ Timed
  BY DEF PumpInv, Undisturbed
<1>2. s1 = (Ahead + held) * (n + 1)
  BY DEF Slack
<1>3. /\ s1 \in Nat /\ n \in Nat /\ told \in Int /\ shown \in Int /\ First \in Int /\ Last \in Nat
  <2>1. /\ n \in Nat /\ position \in Nat /\ drift.missed \in Int /\ shown \in Int /\ First \in Int
        /\ Last \in Nat /\ held \in Nat
    BY <1>1, PumpNumbers
  <2> HIDE DEF n
  <2>2. n + 1 \in Nat /\ told \in Int
    BY <2>1
  <2>3. QED
    BY <2>1, <2>2, SlackGrows
<1>4. told <= First - 1 + s1 /\ told >= First - 1 - n
  BY <1>1 DEF Timed
<1>5. shown = First - 1 \/ (shown = Last /\ First = 0)
  BY <1>1 DEF InOrder
<1> HIDE DEF n, s1, told
<1>6. told <= shown + s1 /\ (told >= shown - n \/ shown = Last)
  BY <1>3, <1>4, <1>5
<1>7. QED
  BY <1>2, <1>6

\* The position a host reads is the picture's but for what the last seek or loop
\* missed, wherever it landed: else it is ahead by what is decoded ahead at most, and
\* by as much again for every resume since.
THEOREM PositionIsNear == PumpSpec => []PositionStaysNear
<1>1. PumpInit => PumpInv
  BY PumpStarts
<1>2. PumpInv /\ [PumpNext]_pumpVars => PumpInv'
  BY PumpKeeps
<1>3. PumpInv => PositionStaysNear
  BY PumpIsNear
<1>4. QED
  BY <1>1, <1>2, <1>3, PTL DEF PumpSpec

\* What a turn presents comes from what is decoded.
LEMMA PresentShows ==
    ASSUME PumpTypes, Present
    PROVE  shown' = shown \/ \E k \in 1..Len(pump.queue) : shown' = pump.queue[k]
<1> DEFINE due == Due(pump, pump.need)
<1>1. pump \in PumpStates /\ pump.need \in BOOLEAN /\ Len(pump.queue) \in Nat
  BY PumpNumbers DEF PumpTypes
<1>2. shown' = IF due = <<>> THEN shown ELSE due[Len(due)]
  BY DEF Present
<1>3. PICK k \in 0..Len(pump.queue) :
         Len(due) = k /\ (\A i \in 1..k : due[i] = pump.queue[i]) /\ (due = <<>> <=> k = 0)
  BY <1>1, DueIsFront
<1> HIDE DEF due
<1>4. CASE k = 0
  BY <1>2, <1>3, <1>4
<1>5. CASE k # 0
  <2>1. k \in 1..k /\ k \in 1..Len(pump.queue)
    BY <1>1, <1>5
  <2>2. shown' = pump.queue[k]
    BY <1>2, <1>3, <1>5, <2>1
  <2>3. QED
    BY <2>1, <2>2
<1>6. QED
  BY <1>4, <1>5

\* A picture before the one on the screen is only shown by Present.
LEMMA TailStep ==
    ASSUME PumpInv, [PumpNext]_pumpVars, shown' # Blank, shown' < shown, spoiled = 0
    PROVE  shown = Last /\ (shown' = 0 \/ held > Last)
<1>1. PumpInv'
  BY PumpKeeps
<1>2. PumpTypes /\ InOrder /\ Bounds /\ OneAtATime /\ PumpTypes'
  BY <1>1 DEF PumpInv
<1>3. shown \in Int /\ shown' \in Nat /\ shown # shown'
  <2>1. shown \in Int /\ shown' \in Nat
    BY <1>2 DEF PumpTypes, Blank
  <2>2. QED
    BY <2>1
<1>4. TakeSeek \/ Present \/ ReadSample
  <2>1. CASE \/ \E b \in BOOLEAN : SetPlaying(b) \/ SetLooping(b)
             \/ \E t \in Targets : Seek(t)
             \/ SeekPosition
    BY <1>3, <2>1 DEF SetPlaying, SetLooping, Seek, SeekPosition
  <2>2. CASE NoSeek \/ Resume \/ Wait \/ EndStops \/ Rewind \/ ReadEnd \/ ReadBadSample \/ Tick
    BY <1>3, <2>2 DEF NoSeek, Resume, Wait, EndStops, Rewind, ReadEnd, ReadBadSample, Tick
  <2>3. CASE UNCHANGED pumpVars
    BY <1>3, <2>3 DEF pumpVars
  <2>4. QED
    BY <2>1, <2>2, <2>3 DEF PumpNext
<1>5. ~TakeSeek
  <2>1. TakeSeek => shown' = shown \/ shown' = Blank
    BY DEF TakeSeek
  <2>2. QED
    BY <1>3, <2>1
<1>6. ~ReadSample
  <2>1. ReadSample => pump.need \/ shown' = shown
    BY DEF ReadSample
  <2>2. pump.need => shown = Blank
    BY <1>2 DEF Bounds
  <2>3. QED
    BY <1>3, <2>1, <2>2 DEF Blank
<1>7. PICK k \in 1..Len(pump.queue) : shown' = pump.queue[k]
  BY <1>2, <1>3, <1>4, <1>5, <1>6, PresentShows
<1> DEFINE a == Len(pump.queue)
<1>8. a \in Nat /\ First \in Int /\ Last \in Nat /\ held \in Nat
  BY <1>2, PumpNumbers
<1>9. shown' = First + k - 1 /\ First >= 0 /\ k \in 1..a
  BY <1>2, <1>7 DEF InOrder
<1>10. shown # Blank => shown = First - 1 \/ (shown = Last /\ First = 0)
  BY <1>2 DEF InOrder
<1>11. shown # Blank /\ First = 0 /\ held <= Last => a <= 1
  BY <1>2 DEF OneAtATime
<1> HIDE DEF a
<1>12. shown # Blank
  BY <1>3 DEF Blank
<1>13. shown = Last /\ First = 0
  BY <1>3, <1>8, <1>9, <1>10, <1>12
<1>14. held <= Last => shown' = 0
  BY <1>8, <1>9, <1>11, <1>12, <1>13
<1>15. QED
  BY <1>8, <1>13, <1>14

\* The picture goes back only from the last frame to the first: nothing that was
\* decoded ahead is lost at the end of a file, and no frame of before a seek is shown.
THEOREM TailIsOut == PumpSpec => TailPlaysOut
<1>1. PumpInit => PumpInv
  BY PumpStarts
<1>2. PumpInv /\ [PumpNext]_pumpVars => PumpInv'
  BY PumpKeeps
<1>3. PumpInv /\ [PumpNext]_pumpVars =>
        [(shown' # Blank /\ shown' < shown /\ spoiled = 0) =>
            shown = Last /\ (shown' = 0 \/ held > Last)]_pumpVars
  BY TailStep
<1>4. QED
  BY <1>1, <1>2, <1>3, PTL DEF PumpSpec, TailPlaysOut
=============================================================================
