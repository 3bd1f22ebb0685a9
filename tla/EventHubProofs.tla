-------------------------- MODULE EventHubProofs ---------------------------
(***************************************************************************)
(* The event ring is a window of consecutive numbers, and the service and  *)
(* its connections implement the promise of module EventFeed, for any      *)
(* capacity and any number of connections; and the clients that follow the *)
(* service through it (module ControlSync) have what they were told of.    *)
(* And what a client sends: the mix calls of a remote host (MixCoalesce),  *)
(* for any sets of units, host threads and tasks and any number of calls.  *)
(***************************************************************************)
EXTENDS ControlSync, MixCoalesce, SequenceTheorems, FiniteSetTheorems, WellFoundedInduction, TLAPS

(***************************************************************************)
(* What after() returns, given that the ring is a window: the numbers from *)
(* the first one the gap leaves up to the newest, and a gap that is        *)
(* smaller than what the reader was owed.                                  *)
(***************************************************************************)
LEMMA AfterIsSuffix ==
    ASSUME IInv, NEW a \in Nat, Newer(a) # {}
    PROVE  /\ a < next - 1
           /\ ring # <<>>
           /\ ring[Len(ring)] = next - 1
           /\ Missed(a) \in Nat
           /\ Missed(a) <= next - 1 - a - 1
           /\ Newer(a) = (a + Missed(a) + 1)..(next - 1)
<1> USE DEF IInv, TypeOK, RingIsWindow
<1>1. PICK j \in 1..Len(ring) : ring[j] > a
  BY DEF Newer
<1>2. /\ Len(ring) \in Nat /\ Len(ring) >= 1 /\ ring # <<>>
      /\ 1 \in 1..Len(ring) /\ Len(ring) \in 1..Len(ring)
  BY <1>1
<1>3. ring[1] = dropped + 1 /\ ring[Len(ring)] = next - 1
  BY <1>2
<1>4. a < next - 1
  BY <1>1
<1>5. Missed(a) = IF a < dropped THEN dropped - a ELSE 0
  BY <1>2, <1>3 DEF Missed
<1>6. Missed(a) \in Nat /\ Missed(a) <= next - 1 - a - 1
  BY <1>2, <1>4, <1>5
<1>7. ASSUME NEW n \in Newer(a) PROVE n \in (a + Missed(a) + 1)..(next - 1)
  <2>1. PICK i \in 1..Len(ring) : n = ring[i] /\ ring[i] > a
    BY DEF Newer
  <2>2. n = dropped + i
    BY <2>1
  <2> QED BY <1>5, <2>1, <2>2
<1>8. ASSUME NEW n \in (a + Missed(a) + 1)..(next - 1) PROVE n \in Newer(a)
  <2>1. n > dropped /\ n > a /\ n <= dropped + Len(ring) /\ n \in Int
    BY <1>5, <1>6
  <2>2. n - dropped \in 1..Len(ring)
    BY <2>1, <1>2
  <2>3. ring[n - dropped] = dropped + (n - dropped)
    BY ONLY <2>2, RingIsWindow DEF RingIsWindow
  <2>4. ring[n - dropped] = n
    BY <2>1, <2>3
  <2> QED BY <2>1, <2>2, <2>4 DEF Newer
<1> QED BY <1>2, <1>3, <1>4, <1>6, <1>7, <1>8

\* Serving a connection leaves it well typed.
LEMMA FeedUpdate ==
    ASSUME NEW f \in Feeds, NEW g \in SUBSET Nat, NEW m \in Nat, NEW u \in Nat
    PROVE  [f EXCEPT !.got = g, !.missed = m, !.upTo = u] \in Feeds
BY DEF Feeds

(***************************************************************************)
(* The window is an invariant of every step: a publish moves it by one, a  *)
(* drain, a subscription and the end of a connection leave it alone.       *)
(***************************************************************************)
LEMMA Inductive == IInv /\ [Next]_vars => IInv'
<1> SUFFICES ASSUME IInv, [Next]_vars PROVE IInv'
  OBVIOUS
<1> USE ConstantsAssumption DEF ConstantsAssumption, IInv, TypeOK
<1>1. CASE Publish
  <2>1. CASE Len(ring) >= Capacity
    <3>1. ring' = Append(Tail(ring), next) /\ dropped' = dropped + 1 /\ next' = next + 1
      BY <1>1, <2>1 DEF Publish
    <3>2. Len(ring) = Capacity /\ ring # <<>>
      BY <2>1 DEF RingIsWindow
    <3>3. Tail(ring) \in Seq(Nat) /\ Len(Tail(ring)) = Len(ring) - 1
      BY <3>2
    <3>4. \A i \in 1..Len(Tail(ring)) : Tail(ring)[i] = dropped + 1 + i
      BY <3>2, <3>3 DEF RingIsWindow
    <3>5. ring' \in Seq(Nat) /\ Len(ring') = Len(ring)
      BY <3>1, <3>3
    <3>6. \A i \in 1..Len(ring') : ring'[i] = dropped' + i
      <4> TAKE i \in 1..Len(ring')
      <4>0. Len(ring') = Len(Tail(ring)) + 1 /\ i \in Nat
        BY <3>3, <3>5
      <4>1. CASE i = Len(ring')
        <5>1. ring'[i] = next
          BY <3>1, <3>3, <4>0, <4>1
        <5>2. next = dropped + Len(ring) + 1
          BY <3>2 DEF RingIsWindow
        <5> QED BY <3>1, <3>2, <3>5, <4>1, <5>1, <5>2
      <4>2. CASE i # Len(ring')
        <5>1. i \in 1..Len(Tail(ring))
          BY <4>0, <4>2
        <5>2. ring'[i] = Tail(ring)[i]
          BY <3>1, <3>3, <5>1
        <5> QED BY <3>1, <3>4, <5>1, <5>2
      <4> QED BY <4>1, <4>2
    <3> QED BY <1>1, <3>1, <3>2, <3>5, <3>6 DEF RingIsWindow, Publish
  <2>2. CASE Len(ring) < Capacity
    <3>1. ring' = Append(ring, next) /\ dropped' = dropped /\ next' = next + 1
      BY <1>1, <2>2 DEF Publish
    <3>2. ring' \in Seq(Nat) /\ Len(ring') = Len(ring) + 1
      BY <3>1
    <3>3. \A i \in 1..Len(ring') : ring'[i] = dropped' + i
      <4> TAKE i \in 1..Len(ring')
      <4>1. CASE i = Len(ring) + 1
        BY <3>1, <4>1 DEF RingIsWindow
      <4>2. CASE i \in 1..Len(ring)
        <5>1. ring'[i] = ring[i]
          BY <3>1, <4>2
        <5> QED BY <3>1, <4>2, <5>1 DEF RingIsWindow
      <4> QED BY <3>2, <4>1, <4>2
    <3> QED BY <1>1, <2>2, <3>1, <3>2, <3>3 DEF RingIsWindow, Publish
  <2> QED BY <2>1, <2>2
<1>2. ASSUME NEW c \in Subscribers, NEW a \in 0..MaxSeq, Subscribe(c, a) PROVE IInv'
  BY <1>2 DEF Subscribe, RingIsWindow, Feeds
<1>3. ASSUME NEW c \in Subscribers, Drain(c) PROVE IInv'
  <2> DEFINE a == feed[c].upTo
  <2>1. feed[c] \in Feeds /\ a \in Nat /\ Newer(a) # {}
    BY <1>3 DEF Drain, Feeds
  <2>2. Missed(a) \in Nat /\ ring[Len(ring)] \in Nat
    BY <2>1, AfterIsSuffix
  <2>3. Newer(a) = (a + Missed(a) + 1)..(next - 1)
    BY <2>1, AfterIsSuffix
  <2>4. feed[c].got \cup Newer(a) \in SUBSET Nat /\ feed[c].missed + Missed(a) \in Nat
    <3>1. Newer(a) \subseteq Nat
      BY <2>1, <2>2, <2>3
    <3>2. feed[c].got \subseteq Nat /\ feed[c].missed \in Nat
      BY <2>1 DEF Feeds
    <3> QED BY <2>2, <3>1, <3>2
  <2> DEFINE served == [feed[c] EXCEPT !.got = feed[c].got \cup Newer(a),
                                       !.missed = feed[c].missed + Missed(a),
                                       !.upTo = ring[Len(ring)]]
  <2>5. served \in Feeds /\ feed' = [feed EXCEPT ![c] = served]
    <3>1. feed[c] \in Feeds /\ feed[c].got \cup Newer(a) \in SUBSET Nat
          /\ feed[c].missed + Missed(a) \in Nat /\ ring[Len(ring)] \in Nat
      BY <2>1, <2>2, <2>4
    <3>2. served \in Feeds
      BY ONLY <3>1, FeedUpdate
    <3>3. feed' = [feed EXCEPT ![c] = served]
      BY <1>3 DEF Drain
    <3> QED BY <3>2, <3>3
  <2>6. feed' \in [Subscribers -> Feeds]
    BY <2>5
  <2> QED BY <1>3, <2>6 DEF Drain, RingIsWindow
<1>4. ASSUME NEW c \in Subscribers, Disconnect(c) PROVE IInv'
  BY <1>4 DEF Disconnect, RingIsWindow, Feeds, Off
<1>5. CASE UNCHANGED vars
  BY <1>5 DEF vars, RingIsWindow
<1> QED BY <1>1, <1>2, <1>3, <1>4, <1>5 DEF Next

(***************************************************************************)
(* TypeCorrect and Window: the type invariant and the shape of the ring    *)
(* (publish) hold in every state of every execution.                       *)
(***************************************************************************)
LEMMA Initially == Init => IInv
BY ConstantsAssumption DEF Init, IInv, TypeOK, RingIsWindow, Off, Feeds, ConstantsAssumption

LEMMA Invariant == Spec => []IInv
BY Initially, Inductive, PTL DEF Spec

THEOREM TypeCorrect == Spec => []TypeOK
BY Invariant, PTL DEF IInv

THEOREM Window == Spec => []RingIsWindow
BY Invariant, PTL DEF IInv

(***************************************************************************)
(* The service implements the promise: a publish, a subscription, a drain  *)
(* and a disconnection are steps of module EventFeed.                      *)
(***************************************************************************)
LEMMA StepImplements == IInv /\ [Next]_vars => [Promise!Next]_(Promise!vars)
<1> SUFFICES ASSUME IInv, [Next]_vars PROVE [Promise!Next]_(Promise!vars)
  OBVIOUS
<1> USE DEF IInv, TypeOK, Promise!vars
<1>1. CASE Publish
  BY <1>1 DEF Publish, Promise!Next, Promise!Publish
<1>2. ASSUME NEW c \in Subscribers, NEW a \in 0..MaxSeq, Subscribe(c, a)
      PROVE Promise!Next
  BY <1>2 DEF Subscribe, Promise!Next, Promise!Subscribe, Promise!Fresh
<1>3. ASSUME NEW c \in Subscribers, Drain(c) PROVE Promise!Next
  <2> DEFINE a == feed[c].upTo
  <2>1. feed[c].on /\ a \in Nat /\ Newer(a) # {}
    BY <1>3 DEF Drain, Feeds
  <2>2. /\ a < next - 1
        /\ ring[Len(ring)] = next - 1
        /\ Missed(a) \in Nat
        /\ Missed(a) <= next - 1 - a - 1
        /\ Newer(a) = (a + Missed(a) + 1)..(next - 1)
    BY <2>1, AfterIsSuffix
  <2>3. Missed(a) \in 0..((next - 1) - a - 1) /\ (next - 1) - a > 0
    BY <2>1, <2>2
  <2>4. feed' = [feed EXCEPT ![c] =
                   [feed[c] EXCEPT !.got = feed[c].got \cup (a + Missed(a) + 1)..(next - 1),
                             !.missed = feed[c].missed + Missed(a),
                             !.upTo = next - 1]]
    BY <1>3, <2>2 DEF Drain, Feeds
  <2>5. next' = next
    BY <1>3 DEF Drain
  <2>6. Promise!Serve(c)
    BY <2>1, <2>3, <2>4, <2>5 DEF Promise!Serve
  <2> QED BY <2>6 DEF Promise!Next
<1>4. ASSUME NEW c \in Subscribers, Disconnect(c) PROVE Promise!Next
  BY <1>4 DEF Disconnect, Promise!Next, Promise!Leave, Off, Promise!Off
<1>5. CASE UNCHANGED vars
  BY <1>5 DEF vars
<1> QED BY <1>1, <1>2, <1>3, <1>4, <1>5 DEF Next

THEOREM Implements == Spec => KeepsPromise
<1>1. Init => Promise!Init
  BY DEF Init, Promise!Init, Off, Promise!Off
<1> QED BY <1>1, Invariant, StepImplements, PTL DEF Spec, KeepsPromise, Promise!Spec

-----------------------------------------------------------------------------
(* What a client holds of the session, and what is on its way to it *)

Messages == [kind : {"event", "lag", "snapshot", "status", "error"}, rev : Nat, seq : Nat]

IsReply(m) == m.kind \notin {"event", "lag"}

Replies == {m \in Messages : IsReply(m)}

Calls ==
    {NoCall}
    \cup [at : {"sent"}, kind : Kinds, after : 0..MaxSeq]
    \cup [at : {"ran"}, kind : {"save", "subscribe", "read"}]
    \cup [at : {"answered"}, sub : BOOLEAN]
    \cup [at : {"replied"}, reply : Replies, passed : BOOLEAN]

Views == [document : Nat, documentRevision : Nat, sequence : Nat, last : Nat, lag : BOOLEAN]

SyncTypeOK ==
    /\ revision \in Nat
    /\ says \in Seq(Nat)
    /\ inbox \in [Subscribers -> Seq(Messages)]
    /\ call \in [Subscribers -> Calls]
    /\ view \in [Subscribers -> Views]
    /\ up \in [Subscribers -> BOOLEAN]
    /\ overtaken \in [Subscribers -> BOOLEAN]

\* A message that replaces the document or shows a lag.
Decides(m) == m.kind \in {"snapshot", "lag"} \/ (m.kind = "event" /\ m.rev # 0)

Marks(q) == {i \in 1..Len(q) : Decides(q[i])}

\* A revision that is not before any document that the events s tell of up to u.
Covers(s, rev, u) == \A n \in 1..Len(s) : n <= u => s[n] <= rev

\* A message after which a client is up to date with the event u, or shows a lag.
Settles(s, m, u) == m.kind = "lag" \/ Covers(s, m.rev, u)

\* The last message to decide does that.
BringsUpTo(s, q, u) ==
    \E i \in Marks(q) : (\A j \in Marks(q) : j <= i) /\ Settles(s, q[i], u)

\* Taking the first message off the inbox moves the others up.
LEMMA MarksOfTail ==
    ASSUME NEW q \in Seq(Messages), q # <<>>
    PROVE  /\ Tail(q) \in Seq(Messages) /\ Head(q) \in Messages /\ Head(q) = q[1]
           /\ Len(q) \in Nat /\ Len(q) > 0 /\ Len(Tail(q)) = Len(q) - 1
           /\ \A i \in 1..Len(Tail(q)) : Tail(q)[i] = q[i + 1]
           /\ \A i \in 1..Len(Tail(q)) : i \in Marks(Tail(q)) <=> i + 1 \in Marks(q)
           /\ 1 \in Marks(q) <=> Decides(Head(q))
<1>1. /\ Tail(q) \in Seq(Messages) /\ Head(q) \in Messages /\ Head(q) = q[1]
      /\ Len(q) \in Nat /\ Len(q) > 0 /\ Len(Tail(q)) = Len(q) - 1
      /\ \A i \in 1..Len(Tail(q)) : Tail(q)[i] = q[i + 1]
  BY HeadTailProperties
<1>2. \A i \in 1..Len(Tail(q)) : i \in Marks(Tail(q)) <=> i + 1 \in Marks(q)
  BY <1>1 DEF Marks
<1>3. QED
  BY <1>1, <1>2 DEF Marks

\* What is left when a message has been read decides, or the message was the last
\* one to decide.
LEMMA ReadingOn ==
    ASSUME NEW q \in Seq(Messages), q # <<>>, NEW s, NEW u, BringsUpTo(s, q, u)
    PROVE  \/ BringsUpTo(s, Tail(q), u)
           \/ Marks(Tail(q)) = {} /\ Decides(Head(q)) /\ Settles(s, Head(q), u)
<1>1. PICK i \in Marks(q) : (\A j \in Marks(q) : j <= i) /\ Settles(s, q[i], u)
  BY DEF BringsUpTo
<1>2. i \in 1..Len(q) /\ Len(q) \in Nat
  BY <1>1 DEF Marks
<1>3. CASE i = 1
  <2>1. \A j \in 1..Len(Tail(q)) : j \notin Marks(Tail(q))
    BY <1>1, <1>2, <1>3, MarksOfTail
  <2>2. QED
    BY <1>1, <1>3, <2>1, MarksOfTail DEF Marks
<1>4. CASE i # 1
  <2>1. i - 1 \in 1..Len(Tail(q)) /\ (i - 1) + 1 = i
    BY <1>2, <1>4, MarksOfTail
  <2>2. i - 1 \in Marks(Tail(q)) /\ Tail(q)[i - 1] = q[i]
    BY <1>1, <2>1, MarksOfTail
  <2>3. ASSUME NEW j \in Marks(Tail(q)) PROVE j <= i - 1
    <3>1. j \in 1..Len(Tail(q))
      BY <2>3 DEF Marks
    <3>2. j + 1 \in Marks(q)
      BY <2>3, <3>1, MarksOfTail
    <3>3. j + 1 <= i
      BY <1>1, <3>2
    <3>4. QED
      BY <1>2, <3>1, <3>3, MarksOfTail
  <2>4. QED
    BY <1>1, <2>2, <2>3 DEF BringsUpTo
<1>5. QED
  BY <1>3, <1>4

\* Where no message decides, none does after the first is read.
LEMMA ReadingUndecided ==
    ASSUME NEW q \in Seq(Messages), q # <<>>, Marks(q) = {}
    PROVE  Marks(Tail(q)) = {} /\ ~Decides(Head(q))
<1>1. \A j \in 1..Len(Tail(q)) : j \notin Marks(Tail(q))
  BY MarksOfTail
<1>2. QED
  BY <1>1, MarksOfTail DEF Marks

\* Sending appends.
LEMMA MarksOfConcat ==
    ASSUME NEW q \in Seq(Messages), NEW b \in Seq(Messages)
    PROVE  /\ q \o b \in Seq(Messages)
           /\ Len(q) \in Nat /\ Len(b) \in Nat /\ Len(q \o b) = Len(q) + Len(b)
           /\ \A i \in 1..Len(q) : (q \o b)[i] = q[i] /\ (i \in Marks(q \o b) <=> i \in Marks(q))
           /\ \A i \in 1..Len(b) : /\ (q \o b)[Len(q) + i] = b[i]
                                   /\ Len(q) + i \in Marks(q \o b) <=> i \in Marks(b)
           /\ \A i \in Marks(q \o b) :
                 i \in Marks(q) \/ (i - Len(q) \in Marks(b) /\ i - Len(q) \in 1..Len(b))
<1>1. /\ q \o b \in Seq(Messages)
      /\ Len(q) \in Nat /\ Len(b) \in Nat /\ Len(q \o b) = Len(q) + Len(b)
      /\ \A i \in 1..Len(q) : (q \o b)[i] = q[i]
      /\ \A i \in 1..Len(b) : (q \o b)[Len(q) + i] = b[i]
  BY ConcatProperties
<1>2. \A i \in 1..Len(q) : i \in Marks(q \o b) <=> i \in Marks(q)
  BY <1>1 DEF Marks
<1>3. \A i \in 1..Len(b) : Len(q) + i \in Marks(q \o b) <=> i \in Marks(b)
  BY <1>1 DEF Marks
<1>4. ASSUME NEW i \in Marks(q \o b)
      PROVE  i \in Marks(q) \/ (i - Len(q) \in Marks(b) /\ i - Len(q) \in 1..Len(b))
  <2>1. i \in 1..(Len(q) + Len(b))
    BY <1>1 DEF Marks
  <2>2. CASE i <= Len(q)
    BY <1>2, <2>1, <2>2
  <2>3. CASE i > Len(q)
    <3>1. i - Len(q) \in 1..Len(b) /\ Len(q) + (i - Len(q)) = i
      BY <1>1, <2>1, <2>3
    <3>2. QED
      BY <1>3, <3>1
  <2>4. QED
    BY <1>1, <2>1, <2>2, <2>3
<1>5. QED
  BY <1>1, <1>2, <1>3, <1>4

\* Messages that decide come last; messages that do not decide change nothing.
LEMMA SendingDecides ==
    ASSUME NEW q \in Seq(Messages), NEW b \in Seq(Messages), NEW s, NEW u,
           BringsUpTo(s, b, u)
    PROVE  BringsUpTo(s, q \o b, u)
<1>1. PICK i \in Marks(b) : (\A j \in Marks(b) : j <= i) /\ Settles(s, b[i], u)
  BY DEF BringsUpTo
<1>2. i \in 1..Len(b) /\ Len(b) \in Nat /\ Len(q) \in Nat
  BY <1>1 DEF Marks
<1>3. Len(q) + i \in Marks(q \o b) /\ (q \o b)[Len(q) + i] = b[i]
  BY <1>2, <1>1, MarksOfConcat
<1>4. ASSUME NEW j \in Marks(q \o b) PROVE j <= Len(q) + i
  <2>1. j \in Marks(q) \/ (j - Len(q) \in Marks(b) /\ j - Len(q) \in 1..Len(b))
    BY MarksOfConcat
  <2>2. CASE j \in Marks(q)
    BY <1>2, <2>2 DEF Marks
  <2>3. CASE j - Len(q) \in Marks(b)
    <3>1. j \in Int
      BY MarksOfConcat DEF Marks
    <3>2. j - Len(q) <= i
      BY <1>1, <2>3
    <3>3. QED
      BY <1>2, <3>1, <3>2
  <2>4. QED
    BY <2>1, <2>2, <2>3
<1>5. QED
  BY <1>1, <1>3, <1>4 DEF BringsUpTo

LEMMA SendingUndecided ==
    ASSUME NEW q \in Seq(Messages), NEW b \in Seq(Messages), Marks(b) = {}
    PROVE  /\ \A s, u : BringsUpTo(s, q, u) => BringsUpTo(s, q \o b, u)
           /\ Marks(q) = {} => Marks(q \o b) = {}
<1>1. Marks(q \o b) = Marks(q)
  <2>1. ASSUME NEW i \in Marks(q) PROVE i \in Marks(q \o b)
    BY MarksOfConcat DEF Marks
  <2>2. \A i \in Marks(q \o b) : i \in Marks(q)
    BY MarksOfConcat
  <2>3. QED
    BY <2>1, <2>2
<1>2. ASSUME NEW i \in Marks(q) PROVE (q \o b)[i] = q[i]
  BY MarksOfConcat DEF Marks
<1>3. QED
  BY <1>1, <1>2 DEF BringsUpTo

\* An event yet to come is about a document after those told of before it.
LEMMA CoversLater ==
    ASSUME NEW s \in Seq(Nat), NEW r \in Nat, NEW u \in Nat, u <= Len(s)
    PROVE  /\ \A rev : Covers(s, rev, u) => Covers(Append(s, r), rev, u)
           /\ \A q : BringsUpTo(s, q, u) => BringsUpTo(Append(s, r), q, u)
<1>1. ASSUME NEW rev, Covers(s, rev, u) PROVE Covers(Append(s, r), rev, u)
  <2>1. SUFFICES ASSUME NEW n \in 1..Len(Append(s, r)), n <= u PROVE Append(s, r)[n] <= rev
    BY DEF Covers
  <2>2. n \in 1..Len(s) /\ Append(s, r)[n] = s[n]
    BY <2>1
  <2>3. QED
    BY <1>1, <2>1, <2>2 DEF Covers
<1>2. QED
  BY <1>1 DEF BringsUpTo, Settles

\* Of a set of numbers up to a bound one is the greatest.
LEMMA Greatest ==
    ASSUME NEW T, NEW b \in Nat, T \subseteq 0..b, T # {}
    PROVE  \E x \in T : \A y \in T : y <= x
<1> DEFINE R == OpToRel(<, Nat)
           Above == {x \in 0..b : \A y \in T : y <= x}
<1>1. \A x, y \in Above : y < x => <<y, x>> \in R
  BY DEF OpToRel
<1>2. IsWellFoundedOn(R, Nat)
  BY NatLessThanWellFounded
<1>3. Above \subseteq Nat /\ b \in Above
  OBVIOUS
<1> HIDE DEF R
<1>4. PICK x \in Above : \A y \in Above : ~ (<<y, x>> \in R)
  <2> HIDE DEF Above
  <2> QED BY <1>2, <1>3, WFMin
<1>5. \A y \in Above : ~(y < x)
  BY <1>1, <1>4
<1>6. CASE x \in T
  BY <1>6
<1>7. CASE x \notin T
  <2>1. PICK t \in T : TRUE
    OBVIOUS
  <2>2. \A y \in T : y < x
    BY <1>7
  <2>3. x - 1 \in Above
    BY <2>1, <2>2
  <2>4. QED
    BY <1>5, <2>3
<1>8. QED
  BY <1>6, <1>7

\* Events tell of documents in the order of their revisions.
SaysInOrder ==
    /\ Len(says) = next - 1
    /\ \A i \in 1..Len(says) : says[i] <= revision
    /\ \A i, j \in 1..Len(says) : i <= j /\ says[j] # 0 => says[i] <= says[j]

\* The events of a batch: those after d, of which the ring has all.
EventsAfter(d) ==
    [i \in 1..(next - 1 - d) |-> [kind |-> "event", rev |-> says[d + i], seq |-> d + i]]

\* The last of these events that tells of a document tells of the newest.
LEMMA EventsDecide ==
    ASSUME IInv, says \in Seq(Nat), SaysInOrder, NEW d \in Nat, d < next - 1
    PROVE  /\ EventsAfter(d) \in Seq(Messages)
           /\ \A i \in 1..Len(EventsAfter(d)) :
                 EventsAfter(d)[i].kind = "event" /\ EventsAfter(d)[i].seq < next
           /\ \/ BringsUpTo(says, EventsAfter(d), next - 1)
              \/ /\ Marks(EventsAfter(d)) = {}
                 /\ \A n \in 1..Len(says) : n > d => says[n] = 0
<1> DEFINE ev == EventsAfter(d)
           m == next - 1 - d
<1>1. next \in Nat /\ Len(says) = next - 1 /\ m \in Nat
  BY DEF IInv, TypeOK, SaysInOrder
<1>2. \A i \in 1..m : d + i \in 1..Len(says) /\ says[d + i] \in Nat
  BY <1>1
<1>3. ev \in Seq(Messages) /\ Len(ev) = m
  BY <1>1, <1>2 DEF EventsAfter, Messages
<1>4. \A i \in 1..m : ev[i] = [kind |-> "event", rev |-> says[d + i], seq |-> d + i]
  BY DEF EventsAfter
<1>0. ev = EventsAfter(d)
  OBVIOUS
<1> HIDE DEF ev
<1>5. \A i \in 1..m : i \in Marks(ev) <=> says[d + i] # 0
  BY <1>3, <1>4 DEF Marks, Decides
<1>9. \A i \in 1..Len(ev) : ev[i].kind = "event" /\ ev[i].seq < next
  <2>1. ASSUME NEW i \in 1..m PROVE ev[i].kind = "event" /\ ev[i].seq < next
    <3>1. ev[i] = [kind |-> "event", rev |-> says[d + i], seq |-> d + i]
      BY <1>4
    <3>2. d + i < next
      BY <1>1
    <3>3. QED
      BY <3>1, <3>2
  <2>2. QED
    BY <1>3, <2>1
<1>6. CASE Marks(ev) = {}
  <2>1. ASSUME NEW n \in 1..Len(says), n > d PROVE says[n] = 0
    <3>1. n - d \in 1..m /\ d + (n - d) = n
      BY <1>1, <2>1
    <3>2. QED
      BY <1>5, <1>6, <3>1
  <2>2. QED
    BY <1>0, <1>3, <1>6, <1>9, <2>1
<1>7. CASE Marks(ev) # {}
  <2>1. Marks(ev) \subseteq 0..m
    BY <1>1, <1>3 DEF Marks
  <2>2. PICK i \in Marks(ev) : \A j \in Marks(ev) : j <= i
    BY <1>1, <1>7, <2>1, Greatest
  <2>3. i \in 1..m
    BY <1>3, <2>2 DEF Marks
  <2>4. ev[i].rev = says[d + i] /\ says[d + i] # 0
    <3>1. ev[i] = [kind |-> "event", rev |-> says[d + i], seq |-> d + i]
      BY <1>4, <2>3
    <3>2. says[d + i] # 0
      BY <1>5, <2>2, <2>3
    <3>3. QED
      BY <3>1, <3>2
  <2>5. ASSUME NEW n \in 1..Len(says) PROVE says[n] <= says[d + i]
    <3>1. CASE n <= d + i
      BY <1>2, <2>3, <2>4, <3>1 DEF SaysInOrder
    <3>2. CASE n > d + i
      <4>1. n - d \in 1..m /\ d + (n - d) = n /\ ~(n - d <= i)
        BY <1>1, <2>3, <3>2
      <4>2. says[n] = 0
        BY <1>5, <2>2, <4>1
      <4>3. QED
        BY <1>2, <2>3, <4>2
    <3>3. QED
      BY <1>1, <2>3, <3>1, <3>2
  <2>6. BringsUpTo(says, ev, next - 1)
    BY <2>2, <2>4, <2>5 DEF BringsUpTo, Settles, Covers
  <2>7. QED
    BY <1>0, <1>3, <1>9, <2>6
<1>8. QED
  BY <1>6, <1>7

\* What the tick sends has the client up to date with the newest event, or
\* none of the events it had not been sent tells of a document.
LEMMA BatchBrings ==
    ASSUME IInv, says \in Seq(Nat), SaysInOrder, NEW a \in Nat, Newer(a) # {}
    PROVE  /\ Batch(a) \in Seq(Messages)
           /\ \A i \in 1..Len(Batch(a)) :
                 Batch(a)[i].kind \in {"event", "lag"} /\ Batch(a)[i].seq < next
           /\ \/ BringsUpTo(says, Batch(a), next - 1)
              \/ /\ Marks(Batch(a)) = {}
                 /\ \A n \in 1..Len(says) : n > a => says[n] = 0
<1> DEFINE d == IF a < dropped THEN dropped ELSE a
           k == d - dropped
           newer == SubSeq(ring, Cardinality({i \in 1..Len(ring) : ring[i] <= a}) + 1, Len(ring))
           lag == IF Missed(a) = 0 THEN <<>> ELSE <<[kind |-> "lag", rev |-> 0, seq |-> a]>>
           ev == EventsAfter(d)
<1>1. /\ next \in Nat /\ dropped \in Nat /\ Len(ring) \in Nat /\ dropped + Len(ring) = next - 1
      /\ \A i \in 1..Len(ring) : ring[i] = dropped + i
  BY DEF IInv, TypeOK, RingIsWindow
<1>2. a < next - 1 /\ Len(ring) > 0
  BY AfterIsSuffix, <1>1
<1>3. d \in Nat /\ d < next - 1 /\ a <= d /\ k \in Nat /\ k < Len(ring) /\ d = dropped + k
  BY <1>1, <1>2
<1>4. {i \in 1..Len(ring) : ring[i] <= a} = 1..k
  BY <1>1, <1>3
<1>5. Cardinality(1..k) = k
  BY <1>3, FS_Interval
<1>6. newer = SubSeq(ring, k + 1, Len(ring))
  BY <1>4, <1>5
<1>7. /\ Len(newer) = next - 1 - d
      /\ \A i \in 1..(next - 1 - d) : newer[i] = d + i
  <2>1. \A i \in (k + 1)..Len(ring) : ring[i] \in Nat
    BY <1>1, <1>3
  <2>2. Len(SubSeq(ring, k + 1, Len(ring))) = Len(ring) - (k + 1) + 1
        /\ \A i \in 1..(Len(ring) - (k + 1) + 1) :
              SubSeq(ring, k + 1, Len(ring))[i] = ring[k + 1 + i - 1]
    <3>1. k + 1 \in Int /\ Len(ring) \in Int /\ k + 1 <= Len(ring)
      BY <1>1, <1>3
    <3> DEFINE first == k + 1
               last == Len(ring)
    <3>2. first \in Int /\ last \in Int /\ first <= last /\ \A i \in first..last : ring[i] \in Nat
      BY <2>1, <3>1
    <3> HIDE DEF first, last
    <3>3. /\ Len(SubSeq(ring, first, last)) = last - first + 1
          /\ \A i \in 1..(last - first + 1) : SubSeq(ring, first, last)[i] = ring[first + i - 1]
      BY <3>2, SubSeqProperties
    <3>4. QED
      BY <3>3 DEF first, last
  <2>3. Len(ring) - (k + 1) + 1 = next - 1 - d
    BY <1>1, <1>3
  <2>4. ASSUME NEW i \in 1..(next - 1 - d) PROVE newer[i] = d + i
    <3>1. k + i \in 1..Len(ring) /\ k + 1 + i - 1 = k + i /\ dropped + (k + i) = d + i
      BY <1>1, <1>3
    <3>2. newer[i] = ring[k + i]
      BY <1>6, <2>2, <2>3, <2>4, <3>1
    <3>3. QED
      BY <1>1, <3>1, <3>2
  <2>5. QED
    BY <1>6, <2>2, <2>3, <2>4
<1> HIDE DEF newer
<1>8. [i \in 1..Len(newer) |-> [kind |-> "event", rev |-> says[newer[i]], seq |-> newer[i]]] = ev
  BY <1>7 DEF EventsAfter
<1>9. Batch(a) = lag \o ev
  BY <1>8 DEF Batch, newer
<1>10. /\ ev \in Seq(Messages)
       /\ \A i \in 1..Len(ev) : ev[i].kind = "event" /\ ev[i].seq < next
       /\ \/ BringsUpTo(says, ev, next - 1)
          \/ Marks(ev) = {} /\ \A n \in 1..Len(says) : n > d => says[n] = 0
  BY <1>3, EventsDecide
<1> HIDE DEF ev
<1>11. CASE Missed(a) = 0
  <2>1. Batch(a) = ev
    BY <1>9, <1>10, <1>11, ConcatEmptySeq
  <2>2. d = a
    BY <1>1, <1>2, <1>11 DEF Missed
  <2>3. QED
    BY <1>10, <2>1, <2>2
<1>12. CASE Missed(a) # 0
  <2> DEFINE m == [kind |-> "lag", rev |-> 0, seq |-> a]
  <2>1. lag = <<m>> /\ m \in Messages /\ m.kind = "lag" /\ m.seq < next
    BY <1>1, <1>2, <1>12 DEF Messages
  <2> HIDE DEF m
  <2>2. lag \in Seq(Messages) /\ Len(lag) = 1 /\ lag[1] = m
    BY <2>1
  <2>3. Marks(lag) = {1}
    BY <2>1, <2>2 DEF Marks, Decides
  <2> HIDE DEF lag
  <2>4. BringsUpTo(says, lag, next - 1)
    BY <2>1, <2>2, <2>3 DEF BringsUpTo, Settles
  <2>5. BringsUpTo(says, Batch(a), next - 1)
    <3>1. CASE BringsUpTo(says, ev, next - 1)
      BY <1>9, <1>10, <2>2, <3>1, SendingDecides
    <3>2. CASE Marks(ev) = {}
      BY <1>9, <1>10, <2>2, <2>4, <3>2, SendingUndecided
    <3>3. QED
      BY <1>10, <3>1, <3>2
  <2>6. ASSUME NEW i \in 1..Len(Batch(a))
        PROVE  Batch(a)[i].kind \in {"event", "lag"} /\ Batch(a)[i].seq < next
    <3>1. /\ Len(ev) \in Nat /\ Len(Batch(a)) = 1 + Len(ev) /\ Batch(a)[1] = lag[1]
          /\ \A j \in 1..Len(ev) : Batch(a)[1 + j] = ev[j]
      <4>1. 1 \in 1..Len(lag) /\ ev \in Seq(Messages)
        BY <1>10, <2>2
      <4>2. /\ Len(ev) \in Nat /\ Len(lag \o ev) = Len(lag) + Len(ev)
            /\ \A j \in 1..Len(lag) : (lag \o ev)[j] = lag[j]
            /\ \A j \in 1..Len(ev) : (lag \o ev)[Len(lag) + j] = ev[j]
        BY <2>2, <4>1, MarksOfConcat
      <4>3. QED
        BY <1>9, <2>2, <4>1, <4>2
    <3>2. i = 1 \/ (i - 1 \in 1..Len(ev) /\ 1 + (i - 1) = i)
      BY <3>1
    <3>3. QED
      BY <1>10, <2>1, <2>2, <3>1, <3>2
  <2>7. Batch(a) \in Seq(Messages)
    BY <1>9, <1>10, <2>2, MarksOfConcat
  <2>8. QED
    BY <2>5, <2>6, <2>7
<1>13. QED
  BY <1>11, <1>12

\* A client has no number of an event that is yet to come.
Behind(c) ==
    /\ feed[c].upTo < next
    /\ view[c].sequence < next
    /\ \A i \in 1..Len(inbox[c]) : inbox[c][i].seq < next

AsksBehind(c) ==
    /\ call[c].at = "sent" => call[c].after < next
    /\ call[c].at = "replied" => call[c].reply.seq < next

\* The answer to its call is the only reply in its inbox.
OneAnswer(c) ==
    /\ \A i, j \in 1..Len(inbox[c]) : IsReply(inbox[c][i]) /\ IsReply(inbox[c][j]) => i = j
    /\ \A i \in 1..Len(inbox[c]) : IsReply(inbox[c][i]) => call[c].at = "answered"

\* Without a connection there is no feed and nothing to wait for.
OffIsOff(c) == ~up[c] => ~feed[c].on /\ call[c].at \in {"idle", "replied"}

Subscribing(c) == call[c].at = "ran" /\ call[c].kind = "subscribe"

\* What a subscriber has been sent brings it up to date, or it already is.
UpToDate(c) ==
    \/ BringsUpTo(says, inbox[c], feed[c].upTo)
    \/ /\ Marks(inbox[c]) = {}
       /\ view[c].lag \/ overtaken[c] \/ Covers(says, view[c].documentRevision, feed[c].upTo)

PipeHonest(c) == feed[c].on => Subscribing(c) \/ UpToDate(c)

\* A task that wakes up in time finds in the view what it is to put there.
ReplyInView(c) ==
    call[c].at = "replied" /\ ~call[c].passed /\ call[c].reply.kind = "snapshot" =>
        view[c].documentRevision = call[c].reply.rev /\ ~view[c].lag

InStep(c) ==
    /\ view[c].document = view[c].documentRevision
    /\ Behind(c) /\ AsksBehind(c) /\ OneAnswer(c) /\ OffIsOff(c) /\ PipeHonest(c) /\ ReplyInView(c)

SyncInv == IInv /\ SyncTypeOK /\ SaysInOrder /\ \A c \in Subscribers : InStep(c)

\* What a step does to the service: nothing, or an event or a document more.
ServiceMoves ==
    /\ [Next]_vars
    /\ revision' \in Nat /\ revision <= revision'
    /\ \/ says' = says /\ next' = next
       \/ next' = next + 1 /\ \E r \in Nat : says' = Append(says, r) /\ r \in {0, revision'}

\* What a step leaves of a client: all, or all but its call.
KeepsState(c) ==
    /\ feed'[c] = feed[c] /\ inbox'[c] = inbox[c]
    /\ view'[c] = view[c] /\ up'[c] = up[c] /\ overtaken'[c] = overtaken[c]

LeavesAlone(c) == KeepsState(c) /\ call'[c] = call[c]

\* What the record of a call holds, by how far the call is.
LEMMA CallTypes ==
    ASSUME NEW k \in Calls
    PROVE  /\ k.at \in {"idle", "sent", "ran", "answered", "replied"}
           /\ k.at = "idle" => k = NoCall
           /\ k.at = "sent" => k.kind \in Kinds /\ k.after \in 0..MaxSeq
           /\ k.at = "ran" => k.kind \in {"save", "subscribe", "read"}
           /\ k.at = "answered" => k.sub \in BOOLEAN
           /\ k.at = "replied" => k.reply \in Messages /\ IsReply(k.reply) /\ k.passed \in BOOLEAN
<1>1. CASE k = NoCall
  BY <1>1 DEF NoCall
<1>2. CASE k \in [at : {"sent"}, kind : Kinds, after : 0..MaxSeq]
  BY <1>2
<1>3. CASE k \in [at : {"ran"}, kind : {"save", "subscribe", "read"}]
  BY <1>3
<1>4. CASE k \in [at : {"answered"}, sub : BOOLEAN]
  BY <1>4
<1>5. CASE k \in [at : {"replied"}, reply : Replies, passed : BOOLEAN]
  BY <1>5 DEF Replies
<1>6. QED
  BY <1>1, <1>2, <1>3, <1>4, <1>5 DEF Calls

LEMMA MessageTypes ==
    ASSUME NEW m \in Messages
    PROVE  /\ m.kind \in {"event", "lag", "snapshot", "status", "error"}
           /\ m.rev \in Nat /\ m.seq \in Nat
BY DEF Messages

\* The service's own step keeps its events in order.
LEMMA OrderKept ==
    ASSUME IInv, SyncTypeOK, SaysInOrder, ServiceMoves
    PROVE  IInv' /\ says' \in Seq(Nat) /\ SaysInOrder'
<1>1. IInv'
  BY Inductive DEF ServiceMoves
<1>2. CASE says' = says /\ next' = next
  <2>1. \A i \in 1..Len(says) : says[i] \in Nat /\ says[i] <= revision'
    BY DEF SyncTypeOK, SaysInOrder, ServiceMoves
  <2>2. QED
    BY <1>1, <1>2, <2>1 DEF SaysInOrder, SyncTypeOK
<1>3. ASSUME NEW r \in Nat, says' = Append(says, r), r \in {0, revision'}, next' = next + 1
      PROVE  says' \in Seq(Nat) /\ SaysInOrder'
  <2>1. /\ says \in Seq(Nat) /\ Len(says) \in Nat /\ Len(says) = next - 1 /\ next \in Nat
        /\ revision \in Nat /\ revision' \in Nat /\ revision <= revision'
    BY DEF IInv, TypeOK, SyncTypeOK, SaysInOrder, ServiceMoves
  <2>2. /\ says' \in Seq(Nat) /\ Len(says') = Len(says) + 1 /\ says'[Len(says) + 1] = r
        /\ \A i \in 1..Len(says) : says'[i] = says[i] /\ says[i] \in Nat
    BY <1>3, <2>1
  <2>3. \A i \in 1..Len(says') : i \in 1..Len(says) \/ i = Len(says) + 1
    BY <2>1, <2>2
  <2>4. \A i \in 1..Len(says) : says[i] <= revision'
    BY <2>1, <2>2 DEF SaysInOrder
  <2>5. \A i \in 1..Len(says') : says'[i] <= revision'
    BY <1>3, <2>1, <2>2, <2>3, <2>4
  <2>6. ASSUME NEW i \in 1..Len(says'), NEW j \in 1..Len(says'), i <= j, says'[j] # 0
        PROVE  says'[i] <= says'[j]
    <3>1. CASE j = Len(says) + 1
      BY <1>3, <2>2, <2>5, <2>6, <3>1
    <3>2. CASE j \in 1..Len(says)
      <4>1. i \in 1..Len(says)
        BY <2>1, <2>2, <2>6, <3>2
      <4>2. QED
        BY <2>2, <2>6, <3>2, <4>1 DEF SaysInOrder
    <3>3. QED
      BY <2>3, <3>1, <3>2
  <2>7. QED
    BY <1>3, <2>1, <2>2, <2>5, <2>6 DEF SaysInOrder
<1>4. QED
  BY <1>1, <1>2, <1>3 DEF ServiceMoves

LEMMA NumbersGrow ==
    ASSUME SyncInv, ServiceMoves
    PROVE  next \in Nat /\ next' \in Nat /\ next <= next' /\ Len(says) = next - 1
BY DEF SyncInv, ServiceMoves, IInv, TypeOK, SaysInOrder

\* The numbers a client has.
LEMMA ClientNumbers ==
    ASSUME SyncInv, NEW c \in Subscribers
    PROVE  /\ feed[c] \in Feeds /\ feed[c].upTo \in Nat
           /\ view[c] \in Views /\ view[c].sequence \in Nat /\ view[c].documentRevision \in Nat
           /\ inbox[c] \in Seq(Messages)
           /\ \A i \in 1..Len(inbox[c]) : inbox[c][i] \in Messages /\ inbox[c][i].seq \in Nat
           /\ call[c] \in Calls
           /\ call[c].at = "sent" => call[c].after \in Nat
           /\ call[c].at = "replied" => call[c].reply \in Messages /\ IsReply(call[c].reply) /\ call[c].reply.seq \in Nat
<1>1. SyncTypeOK /\ feed \in [Subscribers -> Feeds]
  BY DEF SyncInv, IInv, TypeOK
<1>2. feed[c].upTo \in Nat /\ view[c].sequence \in Nat /\ view[c].documentRevision \in Nat
      /\ feed[c] \in Feeds /\ view[c] \in Views
  BY <1>1 DEF SyncTypeOK, Feeds, Views
<1>3. inbox[c] \in Seq(Messages) /\ call[c] \in Calls
  BY <1>1 DEF SyncTypeOK
<1>4. \A i \in 1..Len(inbox[c]) : inbox[c][i] \in Messages
  BY <1>3
<1>5. QED
  BY <1>2, <1>3, <1>4, CallTypes, MessageTypes, ConstantsAssumption DEF ConstantsAssumption

\* What happens at the service leaves a client as up to date as it was.
LEMMA StillUpToDate ==
    ASSUME SyncInv, ServiceMoves, NEW c \in Subscribers, KeepsState(c)
    PROVE  Behind(c)' /\ (view[c].document = view[c].documentRevision)' /\ (UpToDate(c) => UpToDate(c)')
<1>1. InStep(c) /\ SyncTypeOK
  BY DEF SyncInv
<1>2. Behind(c)' /\ (view[c].document = view[c].documentRevision)'
  BY <1>1, NumbersGrow, ClientNumbers DEF InStep, Behind, KeepsState
<1>3. feed[c].upTo <= Len(says)
  BY <1>1, NumbersGrow, ClientNumbers DEF InStep, Behind
<1>4. /\ \A rev : Covers(says, rev, feed[c].upTo) => Covers(says', rev, feed[c].upTo)
      /\ \A q : BringsUpTo(says, q, feed[c].upTo) => BringsUpTo(says', q, feed[c].upTo)
  BY <1>1, <1>3, ClientNumbers, CoversLater DEF ServiceMoves, SyncTypeOK
<1>5. QED
  BY <1>2, <1>4 DEF UpToDate, KeepsState

\* A client that has no part in a step stays in step.
LEMMA Bystander ==
    ASSUME SyncInv, ServiceMoves, NEW c \in Subscribers, LeavesAlone(c)
    PROVE  InStep(c)'
<1>1. InStep(c) /\ KeepsState(c)
  BY DEF SyncInv, LeavesAlone
<1>2. AsksBehind(c)'
  BY <1>1, NumbersGrow, ClientNumbers DEF InStep, AsksBehind, LeavesAlone
<1>3. OneAnswer(c)' /\ OffIsOff(c)' /\ ReplyInView(c)'
  BY <1>1 DEF InStep, OneAnswer, OffIsOff, ReplyInView, LeavesAlone, KeepsState
<1>4. PipeHonest(c)'
  <2>1. feed[c].on => Subscribing(c) \/ UpToDate(c)'
    BY <1>1, StillUpToDate DEF InStep, PipeHonest
  <2>2. Subscribing(c) => Subscribing(c)'
    BY DEF Subscribing, LeavesAlone
  <2>3. QED
    BY <2>1, <2>2 DEF PipeHonest, LeavesAlone, KeepsState
<1>5. QED
  BY <1>1, <1>2, <1>3, <1>4, StillUpToDate DEF InStep

\* An event or a document more is a step of the service.
LEMMA Publishing ==
    ASSUME SyncInv, PublishDocument \/ PublishOther \/ PublishNothing
    PROVE  ServiceMoves /\ feed' = feed
<1>1. revision \in Nat /\ IInv
  BY DEF SyncInv, SyncTypeOK
<1>2. CASE PublishDocument
  BY <1>1, <1>2 DEF PublishDocument, Publish, Next, ServiceMoves
<1>3. CASE PublishOther
  BY <1>1, <1>3 DEF PublishOther, Publish, Next, ServiceMoves
<1>4. CASE PublishNothing
  BY <1>1, <1>4 DEF PublishNothing, vars, ServiceMoves
<1>5. QED
  BY <1>2, <1>3, <1>4

LEMMA NothingPublished ==
    ASSUME SyncInv, UNCHANGED <<revision, says, next>>, [Next]_vars
    PROVE  ServiceMoves
BY DEF SyncInv, SyncTypeOK, ServiceMoves

\* A step that concerns one client keeps the invariant if it keeps that client's.
LEMMA OneClient ==
    ASSUME SyncInv, ServiceMoves, SyncTypeOK', NEW c \in Subscribers, InStep(c)',
           \A d \in Subscribers : d # c => LeavesAlone(d)
    PROVE  SyncInv'
<1>1. IInv' /\ SaysInOrder'
  BY OrderKept DEF SyncInv
<1>2. \A d \in Subscribers : d # c => InStep(d)'
  BY Bystander
<1>3. QED
  BY <1>1, <1>2 DEF SyncInv

(* One lemma per action of SyncNext *)

LEMMA OthersKeep == SyncInv /\ OthersAct => SyncInv'
<1> SUFFICES ASSUME SyncInv, OthersAct PROVE SyncInv'
  OBVIOUS
<1>1. ServiceMoves /\ feed' = feed
  BY Publishing DEF OthersAct
<1>2. \A c \in Subscribers : LeavesAlone(c)
  BY <1>1 DEF OthersAct, LeavesAlone, KeepsState
<1>3. IInv' /\ SaysInOrder' /\ says' \in Seq(Nat)
  BY <1>1, OrderKept DEF SyncInv
<1>4. SyncTypeOK'
  BY <1>1, <1>3 DEF OthersAct, SyncInv, SyncTypeOK, ServiceMoves
<1>5. \A c \in Subscribers : InStep(c)'
  BY <1>1, <1>2, Bystander
<1>6. QED
  BY <1>3, <1>4, <1>5 DEF SyncInv

LEMMA CallKeeps ==
    ASSUME SyncInv, NEW c \in Subscribers, NEW kind \in Kinds, NEW after \in 0..MaxSeq,
           Call(c, kind, after)
    PROVE  SyncInv'
<1>1. ServiceMoves /\ feed' = feed /\ says' = says /\ next' = next
  BY NothingPublished DEF Call, vars
<1>2. call[c].at = "idle" /\ up[c] /\ InStep(c)
  BY DEF Call, SyncInv
<1>3. call'[c] = [at |-> "sent", kind |-> kind, after |-> after] /\ call' \in [Subscribers -> Calls]
  BY DEF Call, SyncInv, SyncTypeOK, Calls
<1>4. SyncTypeOK' /\ \A d \in Subscribers : d # c => LeavesAlone(d)
  BY <1>1, <1>3 DEF Call, SyncInv, SyncTypeOK, LeavesAlone, KeepsState
<1>5. KeepsState(c)
  BY <1>1 DEF Call, KeepsState
<1>6. AsksBehind(c)'
  <2>1. after < next
    BY <1>1, <1>2, NumbersGrow, ClientNumbers DEF Call, InStep, Behind, SyncInv, IInv, TypeOK
  <2>2. QED
    BY <1>1, <1>3, <2>1 DEF AsksBehind
<1>7. OneAnswer(c)' /\ OffIsOff(c)' /\ ReplyInView(c)'
  BY <1>2, <1>3, <1>5 DEF InStep, OneAnswer, OffIsOff, ReplyInView, KeepsState
<1>8. PipeHonest(c)'
  BY <1>1, <1>2, <1>5, StillUpToDate DEF InStep, PipeHonest, Subscribing, KeepsState
<1>9. InStep(c)'
  BY <1>1, <1>5, <1>6, <1>7, <1>8, StillUpToDate DEF InStep
<1>10. QED
  BY <1>1, <1>4, <1>9, OneClient

LEMMA RunKeeps ==
    ASSUME SyncInv, NEW c \in Subscribers, Run(c)
    PROVE  SyncInv'
<1>1. /\ call[c].at = "sent" /\ InStep(c) /\ call[c].kind \in Kinds /\ call[c].after \in 0..MaxSeq
      /\ up[c]
  BY ClientNumbers, CallTypes DEF Run, SyncInv, InStep, OffIsOff
<1>2. call'[c] = [at |-> "ran", kind |-> Answered(call[c].kind)] /\ call' \in [Subscribers -> Calls]
  <2>1. [at |-> "ran", kind |-> Answered(call[c].kind)] \in Calls
    BY DEF Answered, Calls
  <2>2. QED
    BY <2>1 DEF Run, SyncInv, SyncTypeOK
<1>3. \A d \in Subscribers : d # c => call'[d] = call[d]
  BY DEF Run, SyncInv, SyncTypeOK
<1>4. AsksBehind(c)' /\ ReplyInView(c)'
  BY <1>2 DEF AsksBehind, ReplyInView
<1>5. OneAnswer(c)'
  BY <1>1, <1>2 DEF InStep, OneAnswer, Run
<1>6. OffIsOff(c)'
  BY <1>1 DEF OffIsOff, Run
<1>7. CASE call[c].kind = "subscribe"
  <2>1. Subscribe(c, call[c].after) /\ UNCHANGED <<revision, says, next>>
    BY <1>1, <1>7 DEF Run, Subscribe
  <2>2. ServiceMoves
    BY <1>1, <2>1, NothingPublished DEF Next
  <2>3. /\ feed'[c].on /\ feed'[c].upTo = call[c].after
        /\ \A d \in Subscribers : d # c => feed'[d] = feed[d]
    BY <2>1, ClientNumbers DEF Subscribe, SyncInv, IInv, TypeOK
  <2>4. Behind(c)'
    BY <1>1, <2>1, <2>3 DEF InStep, Behind, AsksBehind, Run
  <2>5. PipeHonest(c)'
    BY <1>2, <1>7 DEF PipeHonest, Subscribing, Answered
  <2>6. InStep(c)'
    BY <1>1, <1>4, <1>5, <1>6, <2>4, <2>5 DEF InStep, Run
  <2>7. SyncTypeOK' /\ \A d \in Subscribers : d # c => LeavesAlone(d)
    BY <1>2, <1>3, <2>1, <2>3 DEF Run, SyncInv, SyncTypeOK, LeavesAlone, KeepsState
  <2>8. QED
    BY <2>2, <2>6, <2>7, OneClient
<1>8. CASE call[c].kind # "subscribe"
  <2>1. ServiceMoves /\ feed' = feed
    <3>1. CASE call[c].kind \in {"live", "edit"}
      BY <1>8, <3>1, Publishing DEF Run
    <3>2. CASE call[c].kind \notin {"live", "edit"}
      BY <1>8, <3>2, NothingPublished DEF Run, vars
    <3>3. QED
      BY <3>1, <3>2
  <2>2. KeepsState(c) /\ \A d \in Subscribers : d # c => LeavesAlone(d)
    BY <1>3, <2>1 DEF Run, KeepsState, LeavesAlone
  <2>3. PipeHonest(c)'
    BY <1>1, <2>1, <2>2, StillUpToDate DEF InStep, PipeHonest, Subscribing, KeepsState
  <2>4. InStep(c)'
    BY <1>4, <1>5, <1>6, <2>1, <2>2, <2>3, StillUpToDate DEF InStep
  <2>5. SyncTypeOK'
    <3>1. says' \in Seq(Nat)
      BY <2>1, OrderKept DEF SyncInv
    <3>2. QED
      BY <1>2, <2>1, <3>1 DEF Run, SyncInv, SyncTypeOK, ServiceMoves
  <2>6. QED
    BY <2>1, <2>2, <2>4, <2>5, OneClient
<1>9. QED
  BY <1>7, <1>8

\* Messages at the end of the inbox that decide nothing leave a client up to date.
LEMMA SendingOn ==
    ASSUME SyncInv, NEW c \in Subscribers, NEW b \in Seq(Messages), Marks(b) = {}, UpToDate(c),
           feed'[c] = feed[c], says' = says, view'[c] = view[c], overtaken'[c] = overtaken[c],
           inbox'[c] = inbox[c] \o b
    PROVE  UpToDate(c)'
<1>1. inbox[c] \in Seq(Messages)
  BY ClientNumbers
<1>2. /\ \A s, u : BringsUpTo(s, inbox[c], u) => BringsUpTo(s, inbox[c] \o b, u)
      /\ Marks(inbox[c]) = {} => Marks(inbox[c] \o b) = {}
  BY <1>1, SendingUndecided
<1>3. CASE BringsUpTo(says, inbox[c], feed[c].upTo)
  BY <1>2, <1>3 DEF UpToDate
<1>4. CASE Marks(inbox[c]) = {}
  BY <1>2, <1>3, <1>4 DEF UpToDate
<1>5. QED
  BY <1>3, <1>4 DEF UpToDate

\* The reply to a call: the answer or a refusal.
LEMMA Replying ==
    ASSUME SyncInv, NEW c \in Subscribers, NEW m \in Messages, NEW sub \in BOOLEAN,
           IsReply(m), m.seq < next, call[c].at \in {"sent", "ran"},
           m.kind = "snapshot" => m.rev = revision,
           Subscribing(c) => m.kind = "snapshot",
           Send(c, <<m>>), call' = [call EXCEPT ![c] = Waiting(sub)],
           UNCHANGED <<vars, revision, says, view, up, follows, overtaken>>
    PROVE  SyncInv'
<1> DEFINE b == <<m>>
           q == inbox[c]
<1>1. /\ ServiceMoves /\ feed' = feed /\ says' = says /\ next' = next /\ view' = view
      /\ overtaken' = overtaken /\ up' = up
  BY NothingPublished DEF vars
<1>2. q \in Seq(Messages) /\ b \in Seq(Messages) /\ Len(b) = 1 /\ b[1] = m
      /\ call[c] \in Calls /\ InStep(c)
  BY ClientNumbers DEF SyncInv
<1>3. inbox'[c] = q \o b /\ \A d \in Subscribers : d # c => inbox'[d] = inbox[d]
  BY DEF Send, SyncInv, SyncTypeOK
<1>4. q \o b \in Seq(Messages)
  BY <1>2, MarksOfConcat
<1>5. call'[c] = [at |-> "answered", sub |-> sub] /\ call' \in [Subscribers -> Calls]
      /\ \A d \in Subscribers : d # c => call'[d] = call[d]
  BY DEF SyncInv, SyncTypeOK, Calls, Waiting
<1>6. SyncTypeOK'
  BY <1>1, <1>2, <1>4, <1>5 DEF Send, SyncInv, SyncTypeOK
<1>7. \A d \in Subscribers : d # c => LeavesAlone(d)
  BY <1>1, <1>3, <1>5 DEF LeavesAlone, KeepsState
<1> HIDE DEF b
<1>8. /\ Len(q) \in Nat /\ Len(q \o b) = Len(q) + 1 /\ (q \o b)[Len(q) + 1] = m
      /\ \A i \in 1..Len(q) : (q \o b)[i] = q[i]
  <2>1. /\ Len(q) \in Nat /\ Len(q \o b) = Len(q) + Len(b)
        /\ \A i \in 1..Len(q) : (q \o b)[i] = q[i]
        /\ \A i \in 1..Len(b) : (q \o b)[Len(q) + i] = b[i]
    BY <1>2, MarksOfConcat
  <2>2. 1 \in 1..Len(b)
    BY <1>2
  <2>3. QED
    BY <1>2, <2>1, <2>2
<1>9. \A i \in 1..Len(q \o b) : i \in 1..Len(q) \/ i = Len(q) + 1
  BY <1>8
<1>10. Behind(c)' /\ AsksBehind(c)' /\ OffIsOff(c)' /\ ReplyInView(c)'
  <2>1. \A i \in 1..Len(q \o b) : (q \o b)[i].seq < next
    BY <1>2, <1>8, <1>9 DEF InStep, Behind
  <2>2. up[c]
    BY <1>2 DEF InStep, OffIsOff
  <2>3. QED
    BY <1>1, <1>2, <1>3, <1>5, <2>1, <2>2 DEF Behind, AsksBehind, OffIsOff, ReplyInView, InStep
<1>11. OneAnswer(c)'
  <2>1. \A i \in 1..Len(q) : ~IsReply(q[i])
    BY <1>2 DEF InStep, OneAnswer
  <2>2. QED
    BY <1>3, <1>5, <1>8, <1>9, <2>1 DEF OneAnswer
<1>12. PipeHonest(c)'
  <2>1. CASE m.kind = "snapshot"
    <3>1. Marks(b) = {1}
      BY <1>2, <2>1 DEF Marks, Decides
    <3>2. Settles(says, b[1], feed[c].upTo)
      BY <1>2, <2>1 DEF Settles, Covers, SyncInv, SaysInOrder
    <3>3. BringsUpTo(says, b, feed[c].upTo)
      BY <3>1, <3>2 DEF BringsUpTo
    <3>4. BringsUpTo(says, q \o b, feed[c].upTo)
      BY <1>2, <3>3, SendingDecides
    <3>5. QED
      BY <1>1, <1>3, <3>4 DEF PipeHonest, UpToDate
  <2>2. CASE m.kind # "snapshot"
    <3>1. Marks(b) = {}
      BY <1>2, <2>2 DEF Marks, Decides, IsReply
    <3>2. feed[c].on => UpToDate(c)
      BY <1>2, <2>2 DEF InStep, PipeHonest
    <3>3. feed[c].on => UpToDate(c)'
      BY <1>1, <1>2, <1>3, <3>1, <3>2, SendingOn
    <3>4. QED
      BY <1>1, <3>3 DEF PipeHonest
  <2>3. QED
    BY <2>1, <2>2
<1>13. InStep(c)'
  BY <1>1, <1>2, <1>10, <1>11, <1>12 DEF InStep
<1>14. QED
  BY <1>1, <1>6, <1>7, <1>13, OneClient

LEMMA RefuseKeeps ==
    ASSUME SyncInv, NEW c \in Subscribers, Refuse(c)
    PROVE  SyncInv'
<1>1. Refusal \in Messages /\ IsReply(Refusal) /\ Refusal.seq < next /\ Refusal.kind = "error"
  BY DEF Refusal, Messages, IsReply, SyncInv, IInv, TypeOK
<1>2. QED
  BY <1>1, Replying DEF Refuse, Subscribing

LEMMA AnswerKeeps ==
    ASSUME SyncInv, NEW c \in Subscribers, Answer(c)
    PROVE  SyncInv'
<1> DEFINE m == IF call[c].kind = "save" THEN StatusReply ELSE SnapshotReply
<1>1. next \in Nat \ {0} /\ revision \in Nat
  BY DEF SyncInv, IInv, TypeOK, SyncTypeOK
<1>2. StatusReply \in Messages /\ SnapshotReply \in Messages
  BY <1>1 DEF StatusReply, SnapshotReply, Messages
<1>3. m \in Messages /\ IsReply(m) /\ m.seq < next
      /\ (m.kind = "snapshot" => m.rev = revision) /\ (Subscribing(c) => m.kind = "snapshot")
  BY <1>1, <1>2 DEF StatusReply, SnapshotReply, IsReply, Subscribing
<1>4. Send(c, <<m>>) /\ call' = [call EXCEPT ![c] = Waiting(call[c].kind = "subscribe")]
      /\ call[c].at = "ran" /\ UNCHANGED <<vars, revision, says, view, up, follows, overtaken>>
  BY DEF Answer
<1> HIDE DEF m
<1>5. (call[c].kind = "subscribe") \in BOOLEAN
  OBVIOUS
<1>6. QED
  BY <1>3, <1>4, <1>5, Replying

LEMMA TickKeeps ==
    ASSUME SyncInv, NEW c \in Subscribers, Tick(c)
    PROVE  SyncInv'
<1> DEFINE a == feed[c].upTo
           q == inbox[c]
           b == Batch(a)
<1>1. /\ Drain(c) /\ Newer(a) # {} /\ feed[c].on /\ IInv /\ SaysInOrder /\ InStep(c) /\ call[c].at # "ran"
      /\ says \in Seq(Nat)
  BY DEF Tick, Drain, SyncInv, SyncTypeOK
<1>2. UNCHANGED <<revision, says, next, call, view, up, overtaken>> /\ Send(c, b)
  BY <1>1 DEF Tick, Drain
<1>3. ServiceMoves
  BY <1>1, <1>2, NothingPublished DEF Next
<1>4. q \in Seq(Messages) /\ a \in Nat /\ feed[c] \in Feeds /\ feed \in [Subscribers -> Feeds]
      /\ next \in Nat /\ Len(says) = next - 1
  BY <1>3, ClientNumbers, NumbersGrow DEF SyncInv, IInv, TypeOK
<1>5. /\ b \in Seq(Messages)
      /\ \A i \in 1..Len(b) : b[i].kind \in {"event", "lag"} /\ b[i].seq < next
      /\ \/ BringsUpTo(says, b, next - 1)
         \/ Marks(b) = {} /\ \A n \in 1..Len(says) : n > a => says[n] = 0
  BY <1>1, <1>4, BatchBrings
<1>6. feed'[c].upTo = next - 1 /\ \A d \in Subscribers : d # c => feed'[d] = feed[d]
  BY <1>1, <1>4, AfterIsSuffix DEF Drain, Feeds
<1> HIDE DEF b
<1>7. inbox'[c] = q \o b /\ \A d \in Subscribers : d # c => inbox'[d] = inbox[d]
  BY <1>2 DEF Send, SyncInv, SyncTypeOK
<1>8. /\ Len(q) \in Nat /\ Len(b) \in Nat /\ Len(q \o b) = Len(q) + Len(b) /\ q \o b \in Seq(Messages)
      /\ \A i \in 1..Len(q) : (q \o b)[i] = q[i]
      /\ \A i \in 1..Len(b) : (q \o b)[Len(q) + i] = b[i]
  BY <1>4, <1>5, MarksOfConcat
<1>9. \A i \in 1..Len(q \o b) :
         i \in 1..Len(q) \/ (i - Len(q) \in 1..Len(b) /\ Len(q) + (i - Len(q)) = i)
  BY <1>8
<1>10. SyncTypeOK'
  BY <1>2, <1>8 DEF Send, SyncInv, SyncTypeOK
<1>11. \A d \in Subscribers : d # c => LeavesAlone(d)
  BY <1>2, <1>6, <1>7 DEF LeavesAlone, KeepsState
<1>12. \A i \in 1..Len(q \o b) :
          /\ (q \o b)[i].seq < next
          /\ IsReply((q \o b)[i]) => i \in 1..Len(q) /\ IsReply(q[i])
  <2>1. \A i \in 1..Len(b) : ~IsReply(b[i]) /\ b[i].seq < next
    BY <1>5 DEF IsReply
  <2>2. \A i \in 1..Len(q) : q[i].seq < next
    BY <1>1 DEF InStep, Behind
  <2>3. QED
    BY <1>8, <1>9, <2>1, <2>2
<1>13. Behind(c)' /\ AsksBehind(c)' /\ OneAnswer(c)' /\ ReplyInView(c)'
  <2>1. Behind(c)'
    BY <1>1, <1>2, <1>4, <1>6, <1>7, <1>12 DEF InStep, Behind
  <2>2. AsksBehind(c)' /\ ReplyInView(c)'
    BY <1>1, <1>2 DEF InStep, AsksBehind, ReplyInView
  <2>3. \A i \in 1..Len(q \o b) : IsReply((q \o b)[i]) => i \in 1..Len(q) /\ IsReply(q[i])
    BY <1>12
  <2>4. OneAnswer(c)
    BY <1>1 DEF InStep
  <2>5. OneAnswer(c)'
    BY <1>2, <1>7, <2>3, <2>4 DEF OneAnswer
  <2>6. QED
    BY <2>1, <2>2, <2>5
<1>14. OffIsOff(c)'
  BY <1>1, <1>2 DEF InStep, OffIsOff
<1>15. UpToDate(c)'
  <2>1. CASE BringsUpTo(says, b, next - 1)
    BY <1>2, <1>4, <1>5, <1>6, <1>7, <2>1, SendingDecides DEF UpToDate
  <2>2. CASE Marks(b) = {} /\ \A n \in 1..Len(says) : n > a => says[n] = 0
    <3>1. \A rev \in Nat : Covers(says, rev, a) => Covers(says, rev, next - 1)
      BY <1>4, <2>2 DEF Covers
    <3>2. UpToDate(c)
      BY <1>1 DEF InStep, PipeHonest, Subscribing
    <3>3. CASE BringsUpTo(says, q, a)
      <4>1. PICK i \in Marks(q) : (\A j \in Marks(q) : j <= i) /\ Settles(says, q[i], a)
        BY <3>3 DEF BringsUpTo
      <4>2. q[i].rev \in Nat
        BY <1>4, <4>1, MessageTypes DEF Marks
      <4>3. BringsUpTo(says, q, next - 1)
        BY <3>1, <4>1, <4>2 DEF BringsUpTo, Settles
      <4>4. QED
        BY <1>2, <1>4, <1>5, <1>6, <1>7, <2>2, <4>3, SendingUndecided DEF UpToDate
    <3>4. CASE /\ Marks(q) = {}
               /\ view[c].lag \/ overtaken[c] \/ Covers(says, view[c].documentRevision, a)
      <4>1. Marks(q \o b) = {}
        BY <1>4, <1>5, <2>2, <3>4, SendingUndecided
      <4>2. view[c].documentRevision \in Nat
        BY ClientNumbers
      <4>3. QED
        BY <1>2, <1>6, <1>7, <3>1, <3>4, <4>1, <4>2 DEF UpToDate
    <3>5. QED
      BY <3>2, <3>3, <3>4 DEF UpToDate
  <2>3. QED
    BY <1>5, <2>1, <2>2
<1>16. InStep(c)'
  BY <1>1, <1>2, <1>13, <1>14, <1>15 DEF InStep, PipeHonest
<1>17. QED
  BY <1>3, <1>10, <1>11, <1>16, OneClient

\* The larger of two numbers is one of them.
LEMMA GreaterOfTwo ==
    ASSUME NEW a \in Nat, NEW b \in Nat
    PROVE  Max({a, b}) \in {a, b}
<1>1. \E x \in {a, b} : \A y \in {a, b} : x >= y
  OBVIOUS
<1>2. QED
  BY <1>1 DEF Max

\* What applying an event changes of a view.
LEMMA EventApplied ==
    ASSUME NEW v \in Views, NEW m \in Messages
    PROVE  /\ AfterEvent(v, m) \in Views
           /\ AfterEvent(v, m).sequence \in {v.sequence, m.seq}
           /\ v.document = v.documentRevision =>
                 AfterEvent(v, m).document = AfterEvent(v, m).documentRevision
           /\ AfterEvent(v, m).documentRevision = IF m.rev = 0 THEN v.documentRevision ELSE m.rev
           /\ v.lag \/ m.kind = "lag" => AfterEvent(v, m).lag
<1> DEFINE gap == v.last # 0 /\ m.seq > v.last + 1
           lag == v.lag \/ gap \/ m.kind = "lag"
           seen == [v EXCEPT !.lag = lag, !.last = Max({v.last, m.seq}),
                             !.sequence = Max({v.sequence, m.seq})]
<1>1. /\ v.document \in Nat /\ v.documentRevision \in Nat /\ v.sequence \in Nat /\ v.last \in Nat
      /\ v.lag \in BOOLEAN /\ m.rev \in Nat /\ m.seq \in Nat
  BY MessageTypes DEF Views
<1>2. Max({v.last, m.seq}) \in Nat /\ Max({v.sequence, m.seq}) \in {v.sequence, m.seq}
  BY <1>1, GreaterOfTwo
<1>3. lag \in BOOLEAN
  OBVIOUS
<1>4. AfterEvent(v, m) = IF m.rev = 0 THEN seen
                         ELSE [seen EXCEPT !.document = m.rev, !.documentRevision = m.rev]
  BY DEF AfterEvent
<1> HIDE DEF lag
<1>5. /\ seen \in Views /\ seen.sequence \in {v.sequence, m.seq} /\ seen.document = v.document
      /\ seen.documentRevision = v.documentRevision /\ seen.lag = lag
  BY <1>1, <1>2, <1>3 DEF Views
<1> HIDE DEF seen
<1>6. /\ AfterEvent(v, m) \in Views /\ AfterEvent(v, m).sequence = seen.sequence
      /\ AfterEvent(v, m).lag = lag
      /\ AfterEvent(v, m).documentRevision = IF m.rev = 0 THEN v.documentRevision ELSE m.rev
      /\ AfterEvent(v, m).document = IF m.rev = 0 THEN v.document ELSE m.rev
  BY <1>1, <1>4, <1>5 DEF Views
<1>7. v.lag \/ m.kind = "lag" => lag
  BY DEF lag
<1>8. QED
  BY <1>5, <1>6, <1>7

\* What applying a reply changes of it.
LEMMA ReplyApplied ==
    ASSUME NEW v \in Views, NEW m \in Messages, IsReply(m)
    PROVE  /\ AfterReply(v, m) \in Views
           /\ AfterReply(v, m).sequence \in {v.sequence, m.seq}
           /\ v.document = v.documentRevision =>
                 AfterReply(v, m).document = AfterReply(v, m).documentRevision
           /\ AfterReply(v, m).documentRevision =
                 IF m.kind = "snapshot" THEN m.rev ELSE v.documentRevision
           /\ AfterReply(v, m).lag = (IF m.kind = "snapshot" THEN FALSE ELSE v.lag)
<1>1. m.kind \in {"snapshot", "status", "error"} /\ m.rev \in Nat /\ m.seq \in Nat
  BY MessageTypes DEF IsReply
<1>2. CASE m.kind = "error"
  BY <1>2 DEF AfterReply
<1>3. CASE m.kind = "status"
  BY <1>1, <1>3 DEF AfterReply, Views
<1>4. CASE m.kind = "snapshot"
  BY <1>1, <1>4 DEF AfterReply, Views
<1>5. QED
  BY <1>1, <1>2, <1>3, <1>4

\* The worker takes the first message of the inbox.
LEMMA Reading ==
    ASSUME SyncInv, NEW c \in Subscribers, inbox[c] # <<>>,
           inbox' = [inbox EXCEPT ![c] = Tail(@)]
    PROVE  /\ inbox'[c] = Tail(inbox[c]) /\ \A d \in Subscribers : d # c => inbox'[d] = inbox[d]
           /\ inbox' \in [Subscribers -> Seq(Messages)]
           /\ Head(inbox[c]) \in Messages /\ Head(inbox[c]).seq < next
           /\ \A i \in 1..Len(Tail(inbox[c])) : Tail(inbox[c])[i].seq < next
           /\ IsReply(Head(inbox[c])) =>
                 /\ call[c].at = "answered"
                 /\ \A i \in 1..Len(Tail(inbox[c])) : ~IsReply(Tail(inbox[c])[i])
           /\ \A i, j \in 1..Len(Tail(inbox[c])) :
                 IsReply(Tail(inbox[c])[i]) /\ IsReply(Tail(inbox[c])[j]) => i = j
           /\ \A i \in 1..Len(Tail(inbox[c])) : IsReply(Tail(inbox[c])[i]) => call[c].at = "answered"
<1> DEFINE q == inbox[c]
           t == Tail(q)
<1>1. q \in Seq(Messages) /\ inbox \in [Subscribers -> Seq(Messages)] /\ Behind(c) /\ OneAnswer(c)
  BY ClientNumbers DEF SyncInv, SyncTypeOK, InStep
<1>2. /\ t \in Seq(Messages) /\ Head(q) \in Messages /\ Head(q) = q[1]
      /\ Len(q) \in Nat /\ Len(q) > 0 /\ Len(t) = Len(q) - 1
      /\ \A i \in 1..Len(t) : t[i] = q[i + 1]
  BY <1>1, MarksOfTail
<1>3. inbox'[c] = t /\ (\A d \in Subscribers : d # c => inbox'[d] = inbox[d])
      /\ inbox' \in [Subscribers -> Seq(Messages)]
  BY <1>1, <1>2
<1>4. 1 \in 1..Len(q) /\ \A i \in 1..Len(t) : i + 1 \in 1..Len(q) /\ i + 1 # 1 /\ i \in Int
  BY <1>2
<1>5. \A i \in 1..Len(q) : q[i].seq < next
  BY <1>1 DEF Behind
<1>6. /\ \A i, j \in 1..Len(q) : IsReply(q[i]) /\ IsReply(q[j]) => i = j
      /\ \A i \in 1..Len(q) : IsReply(q[i]) => call[c].at = "answered"
  BY <1>1 DEF OneAnswer
<1> HIDE DEF t
<1>7. ASSUME NEW i \in 1..Len(t), NEW j \in 1..Len(t), IsReply(t[i]), IsReply(t[j]) PROVE i = j
  <2>1. i + 1 = j + 1
    BY <1>2, <1>4, <1>6, <1>7
  <2>2. QED
    BY <1>4, <2>1
<1>8. QED
  BY <1>2, <1>3, <1>4, <1>5, <1>6, <1>7 DEF t

LEMMA ReceiveEventKeeps ==
    ASSUME SyncInv, NEW c \in Subscribers, ReceiveEvent(c)
    PROVE  SyncInv'
<1> DEFINE q == inbox[c]
           m == Head(q)
<1>1. /\ q # <<>> /\ m.kind \in {"event", "lag"} /\ inbox' = [inbox EXCEPT ![c] = Tail(@)]
      /\ UNCHANGED <<revision, says, next, feed, up>> /\ UNCHANGED vars
  BY DEF ReceiveEvent, vars
<1>2. ServiceMoves /\ InStep(c) /\ SyncTypeOK /\ q \in Seq(Messages)
  BY <1>1, NothingPublished, ClientNumbers DEF SyncInv
<1>3. m \in Messages /\ m.seq < next /\ inbox'[c] = Tail(q)
  BY <1>1, Reading
<1>4. /\ view'[c] = AfterEvent(view[c], m) /\ overtaken'[c] = (overtaken[c] /\ m.rev = 0)
      /\ \A d \in Subscribers : d # c => view'[d] = view[d] /\ overtaken'[d] = overtaken[d]
  BY <1>2 DEF ReceiveEvent, SyncTypeOK
<1>5. view' \in [Subscribers -> Views] /\ overtaken' \in [Subscribers -> BOOLEAN]
  <2>1. AfterEvent(view[c], m) \in Views
    BY <1>3, ClientNumbers, EventApplied
  <2>2. view' = [view EXCEPT ![c] = AfterEvent(@, m)] /\ overtaken' = [overtaken EXCEPT ![c] = @ /\ m.rev = 0]
    BY DEF ReceiveEvent
  <2>3. QED
    BY <1>2, <2>1, <2>2 DEF SyncTypeOK
<1>6. /\ call' \in [Subscribers -> Calls] /\ \A d \in Subscribers : d # c => call'[d] = call[d]
      /\ call'[c].at = call[c].at
      /\ call[c].at # "replied" => call'[c] = call[c]
      /\ call[c].at = "replied" => call'[c].passed /\ call'[c].reply = call[c].reply
  <2>1. CASE call[c].at # "replied"
    BY <1>2, <2>1 DEF ReceiveEvent, SyncTypeOK
  <2>2. CASE call[c].at = "replied"
    <3>1. call[c] \in [at : {"replied"}, reply : Replies, passed : BOOLEAN]
      BY <1>2, <2>2 DEF SyncTypeOK, Calls, NoCall
    <3>2. [call[c] EXCEPT !.passed = TRUE] \in [at : {"replied"}, reply : Replies, passed : BOOLEAN]
      BY <3>1
    <3>3. call' = [call EXCEPT ![c] = [call[c] EXCEPT !.passed = TRUE]]
      BY <2>2 DEF ReceiveEvent
    <3>4. [call[c] EXCEPT !.passed = TRUE] \in Calls
      BY <3>2 DEF Calls
    <3>5. call'[c] = [call[c] EXCEPT !.passed = TRUE] /\ call' \in [Subscribers -> Calls]
          /\ \A d \in Subscribers : d # c => call'[d] = call[d]
      BY <1>2, <3>3, <3>4 DEF SyncTypeOK
    <3>6. QED
      BY <2>2, <3>1, <3>5
  <2>3. QED
    BY <2>1, <2>2
<1>7. SyncTypeOK'
  BY <1>1, <1>2, <1>5, <1>6, Reading DEF SyncTypeOK
<1>8. \A d \in Subscribers : d # c => LeavesAlone(d)
  BY <1>1, <1>4, <1>6, Reading DEF LeavesAlone, KeepsState
<1>9. /\ view'[c].sequence \in {view[c].sequence, m.seq}
      /\ view'[c].document = view'[c].documentRevision
      /\ view'[c].documentRevision = IF m.rev = 0 THEN view[c].documentRevision ELSE m.rev
      /\ view[c].lag \/ m.kind = "lag" => view'[c].lag
  BY <1>2, <1>3, <1>4, ClientNumbers, EventApplied DEF InStep
<1>10. Behind(c)'
  BY <1>1, <1>2, <1>3, <1>9, Reading DEF InStep, Behind
<1>11. AsksBehind(c)' /\ OffIsOff(c)' /\ ReplyInView(c)'
  BY <1>1, <1>2, <1>6 DEF InStep, AsksBehind, OffIsOff, ReplyInView
<1>12. OneAnswer(c)'
  BY <1>1, <1>3, <1>6, Reading DEF OneAnswer
<1>13. UpToDate(c) => UpToDate(c)'
  <2>1. CASE BringsUpTo(says, q, feed[c].upTo)
    <3>1. CASE BringsUpTo(says, Tail(q), feed[c].upTo)
      BY <1>1, <1>3, <3>1 DEF UpToDate
    <3>2. CASE Marks(Tail(q)) = {} /\ Decides(m) /\ Settles(says, m, feed[c].upTo)
      BY <1>1, <1>3, <1>9, <3>2 DEF UpToDate, Decides, Settles
    <3>3. QED
      BY <1>1, <1>2, <2>1, <3>1, <3>2, ReadingOn
  <2>2. CASE /\ Marks(q) = {}
             /\ view[c].lag \/ overtaken[c] \/ Covers(says, view[c].documentRevision, feed[c].upTo)
    <3>1. Marks(Tail(q)) = {} /\ ~Decides(m)
      BY <1>1, <1>2, <2>2, ReadingUndecided
    <3>2. m.rev = 0
      BY <1>1, <3>1 DEF Decides
    <3>3. QED
      BY <1>1, <1>3, <1>4, <1>9, <2>2, <3>1, <3>2 DEF UpToDate
  <2>3. QED
    BY <2>1, <2>2 DEF UpToDate
<1>14. PipeHonest(c)'
  BY <1>1, <1>2, <1>6, <1>13, CallTypes DEF InStep, PipeHonest, Subscribing
<1>15. InStep(c)'
  BY <1>9, <1>10, <1>11, <1>12, <1>14 DEF InStep
<1>16. QED
  BY <1>2, <1>7, <1>8, <1>15, OneClient

LEMMA ReceiveReplyKeeps ==
    ASSUME SyncInv, NEW c \in Subscribers, ReceiveReply(c)
    PROVE  SyncInv'
<1> DEFINE q == inbox[c]
           m == Head(q)
<1>1. /\ q # <<>> /\ IsReply(m) /\ inbox' = [inbox EXCEPT ![c] = Tail(@)]
      /\ UNCHANGED <<revision, says, next, feed, up>> /\ UNCHANGED vars
  BY DEF ReceiveReply, vars, IsReply
<1>2. ServiceMoves /\ InStep(c) /\ SyncTypeOK /\ q \in Seq(Messages)
  BY <1>1, NothingPublished, ClientNumbers DEF SyncInv
<1>3. m \in Messages /\ m.seq < next /\ inbox'[c] = Tail(q) /\ call[c].at = "answered"
  BY <1>1, Reading
<1>4. /\ view'[c] = AfterReply(view[c], m) /\ overtaken'[c] = (overtaken[c] /\ m.kind # "snapshot")
      /\ call'[c] = [at |-> "replied", reply |-> m, passed |-> FALSE]
      /\ \A d \in Subscribers :
            d # c => view'[d] = view[d] /\ overtaken'[d] = overtaken[d] /\ call'[d] = call[d]
  BY <1>2 DEF ReceiveReply, SyncTypeOK
<1>5. /\ view' \in [Subscribers -> Views] /\ overtaken' \in [Subscribers -> BOOLEAN]
      /\ call' \in [Subscribers -> Calls]
  <2>1. AfterReply(view[c], m) \in Views /\ [at |-> "replied", reply |-> m, passed |-> FALSE] \in Calls
    BY <1>1, <1>3, ClientNumbers, ReplyApplied DEF Calls, Replies
  <2>2. /\ view' = [view EXCEPT ![c] = AfterReply(@, m)]
        /\ overtaken' = [overtaken EXCEPT ![c] = @ /\ m.kind # "snapshot"]
        /\ call' = [call EXCEPT ![c] = [at |-> "replied", reply |-> m, passed |-> FALSE]]
    BY DEF ReceiveReply
  <2>3. QED
    BY <1>2, <2>1, <2>2 DEF SyncTypeOK
<1>6. SyncTypeOK'
  BY <1>1, <1>2, <1>5, Reading DEF SyncTypeOK
<1>7. \A d \in Subscribers : d # c => LeavesAlone(d)
  BY <1>1, <1>4, Reading DEF LeavesAlone, KeepsState
<1>8. /\ view'[c].sequence \in {view[c].sequence, m.seq}
      /\ view'[c].document = view'[c].documentRevision
      /\ view'[c].documentRevision = IF m.kind = "snapshot" THEN m.rev ELSE view[c].documentRevision
      /\ view'[c].lag = (IF m.kind = "snapshot" THEN FALSE ELSE view[c].lag)
  <2>1. view[c] \in Views /\ view[c].document = view[c].documentRevision
    BY <1>2, ClientNumbers DEF InStep
  <2> DEFINE v == view[c]
             w == AfterReply(v, m)
  <2>2. /\ w.sequence \in {v.sequence, m.seq} /\ w.document = w.documentRevision
        /\ w.documentRevision = IF m.kind = "snapshot" THEN m.rev ELSE v.documentRevision
        /\ w.lag = (IF m.kind = "snapshot" THEN FALSE ELSE v.lag)
    BY <1>1, <1>3, <2>1, ReplyApplied
  <2>3. view'[c] = w
    BY <1>4
  <2> HIDE DEF w
  <2>4. QED
    BY <2>2, <2>3
<1>9. Behind(c)'
  BY <1>1, <1>2, <1>3, <1>8, Reading DEF InStep, Behind
<1>10. AsksBehind(c)' /\ OffIsOff(c)' /\ ReplyInView(c)'
  <2>1. call'[c].at = "replied" /\ call'[c].reply = m
    BY <1>4
  <2>2. AsksBehind(c)' /\ ReplyInView(c)'
    BY <1>1, <1>3, <1>8, <2>1 DEF AsksBehind, ReplyInView
  <2>3. OffIsOff(c)'
    BY <1>1, <1>2, <1>3, <2>1 DEF InStep, OffIsOff
  <2>4. QED
    BY <2>2, <2>3
<1>11. OneAnswer(c)'
  BY <1>1, <1>3, Reading DEF OneAnswer
<1>12. UpToDate(c) => UpToDate(c)'
  <2>1. CASE BringsUpTo(says, q, feed[c].upTo)
    <3>1. CASE BringsUpTo(says, Tail(q), feed[c].upTo)
      BY <1>1, <1>3, <3>1 DEF UpToDate
    <3>2. CASE Marks(Tail(q)) = {} /\ Decides(m) /\ Settles(says, m, feed[c].upTo)
      BY <1>1, <1>3, <1>8, <3>2 DEF UpToDate, Decides, Settles, IsReply
    <3>3. QED
      BY <1>1, <1>2, <2>1, <3>1, <3>2, ReadingOn
  <2>2. CASE /\ Marks(q) = {}
             /\ view[c].lag \/ overtaken[c] \/ Covers(says, view[c].documentRevision, feed[c].upTo)
    <3>1. Marks(Tail(q)) = {} /\ ~Decides(m)
      BY <1>1, <1>2, <2>2, ReadingUndecided
    <3>2. m.kind # "snapshot"
      BY <3>1 DEF Decides
    <3>3. QED
      BY <1>1, <1>3, <1>4, <1>8, <2>2, <3>1, <3>2 DEF UpToDate
  <2>3. QED
    BY <2>1, <2>2 DEF UpToDate
<1>13. PipeHonest(c)'
  BY <1>1, <1>2, <1>3, <1>12 DEF InStep, PipeHonest, Subscribing
<1>14. InStep(c)'
  BY <1>8, <1>9, <1>10, <1>11, <1>13 DEF InStep
<1>15. QED
  BY <1>2, <1>6, <1>7, <1>14, OneClient

LEMMA ReturnKeeps ==
    ASSUME SyncInv, NEW c \in Subscribers, Return(c)
    PROVE  SyncInv'
<1> DEFINE m == call[c].reply
<1>1. /\ call[c].at = "replied" /\ UNCHANGED <<revision, says, next, feed, up, inbox>>
      /\ UNCHANGED vars
  BY DEF Return, vars
<1>2. ServiceMoves /\ InStep(c) /\ SyncTypeOK /\ inbox[c] \in Seq(Messages)
  BY <1>1, NothingPublished, ClientNumbers DEF SyncInv
<1>3. m \in Messages /\ IsReply(m) /\ m.seq < next
  BY <1>1, <1>2, ClientNumbers DEF InStep, AsksBehind
<1>4. /\ view'[c] = AfterReply(view[c], m)
      /\ overtaken'[c] = (overtaken[c] \/ (call[c].passed /\ m.kind = "snapshot"))
      /\ call'[c] = NoCall
      /\ \A d \in Subscribers :
            d # c => view'[d] = view[d] /\ overtaken'[d] = overtaken[d] /\ call'[d] = call[d]
  BY <1>2 DEF Return, SyncTypeOK
<1>5. /\ view' \in [Subscribers -> Views] /\ overtaken' \in [Subscribers -> BOOLEAN]
      /\ call' \in [Subscribers -> Calls]
  <2>1. AfterReply(view[c], m) \in Views /\ NoCall \in Calls /\ call[c].passed \in BOOLEAN
    BY <1>1, <1>3, ClientNumbers, CallTypes, ReplyApplied DEF Calls
  <2>2. /\ view' = [view EXCEPT ![c] = AfterReply(@, m)]
        /\ overtaken' = [overtaken EXCEPT ![c] = @ \/ (call[c].passed /\ m.kind = "snapshot")]
        /\ call' = [call EXCEPT ![c] = NoCall]
    BY DEF Return
  <2>3. QED
    BY <1>2, <2>1, <2>2 DEF SyncTypeOK
<1>6. SyncTypeOK'
  BY <1>1, <1>2, <1>5 DEF SyncTypeOK
<1>7. \A d \in Subscribers : d # c => LeavesAlone(d)
  BY <1>1, <1>4 DEF LeavesAlone, KeepsState
<1>8. /\ view'[c].sequence \in {view[c].sequence, m.seq}
      /\ view'[c].document = view'[c].documentRevision
      /\ view'[c].documentRevision = IF m.kind = "snapshot" THEN m.rev ELSE view[c].documentRevision
      /\ view'[c].lag = (IF m.kind = "snapshot" THEN FALSE ELSE view[c].lag)
  <2>1. view[c] \in Views /\ view[c].document = view[c].documentRevision
    BY <1>2, ClientNumbers DEF InStep
  <2> DEFINE v == view[c]
             w == AfterReply(v, m)
  <2>2. /\ w.sequence \in {v.sequence, m.seq} /\ w.document = w.documentRevision
        /\ w.documentRevision = IF m.kind = "snapshot" THEN m.rev ELSE v.documentRevision
        /\ w.lag = (IF m.kind = "snapshot" THEN FALSE ELSE v.lag)
    BY <1>3, <2>1, ReplyApplied
  <2>3. view'[c] = w
    BY <1>4
  <2> HIDE DEF w
  <2>4. QED
    BY <2>2, <2>3
<1>9. Behind(c)'
  BY <1>1, <1>2, <1>3, <1>8 DEF InStep, Behind
<1>10. AsksBehind(c)' /\ OffIsOff(c)' /\ ReplyInView(c)'
  <2>1. call'[c].at = "idle"
    BY <1>4 DEF NoCall
  <2>2. QED
    BY <1>1, <1>2, <2>1 DEF InStep, AsksBehind, OffIsOff, ReplyInView
<1>11. OneAnswer(c)'
  BY <1>1, <1>2 DEF InStep, OneAnswer
<1>12. UpToDate(c) => UpToDate(c)'
  <2>1. CASE m.kind # "snapshot"
    BY <1>1, <1>4, <1>8, <2>1 DEF UpToDate
  <2>2. CASE m.kind = "snapshot" /\ call[c].passed
    BY <1>1, <1>4, <2>2 DEF UpToDate
  <2>3. CASE m.kind = "snapshot" /\ ~call[c].passed
    <3>1. view[c].documentRevision = m.rev /\ ~view[c].lag
      BY <1>1, <1>2, <2>3 DEF InStep, ReplyInView
    <3>2. view'[c].documentRevision = view[c].documentRevision /\ ~view'[c].lag
      BY <1>8, <2>3, <3>1
    <3>3. QED
      BY <1>1, <1>4, <3>1, <3>2 DEF UpToDate
  <2>4. QED
    BY <2>1, <2>2, <2>3
<1>13. PipeHonest(c)'
  BY <1>1, <1>2, <1>12 DEF InStep, PipeHonest, Subscribing
<1>14. InStep(c)'
  BY <1>8, <1>9, <1>10, <1>11, <1>13 DEF InStep
<1>15. QED
  BY <1>2, <1>6, <1>7, <1>14, OneClient

LEMMA DropKeeps ==
    ASSUME SyncInv, NEW c \in Subscribers, Drop(c)
    PROVE  SyncInv'
<1>1. /\ up[c] /\ UNCHANGED <<revision, says, next, view, overtaken>>
      /\ up' = [up EXCEPT ![c] = FALSE] /\ inbox' = [inbox EXCEPT ![c] = <<>>]
      /\ call' = IF call[c].at = "replied" THEN call ELSE [call EXCEPT ![c] = NoCall]
  BY DEF Drop, Disconnect, vars
<1>2. InStep(c) /\ SyncTypeOK /\ feed \in [Subscribers -> Feeds] /\ next \in Nat \ {0}
  BY DEF SyncInv, IInv, TypeOK
<1>3. [Next]_vars
  BY DEF Drop, Next
<1>4. ServiceMoves
  BY <1>1, <1>3, NothingPublished
<1>5. ~feed'[c].on /\ feed'[c].upTo < next /\ \A d \in Subscribers : d # c => feed'[d] = feed[d]
  <2>1. CASE feed[c].on
    BY <1>2, <2>1 DEF Drop, Disconnect, Off
  <2>2. CASE ~feed[c].on
    BY <1>2, <2>2 DEF Drop, vars, InStep, Behind
  <2>3. QED
    BY <2>1, <2>2
<1>6. /\ inbox'[c] = <<>> /\ ~up'[c] /\ call'[c].at \in {"idle", "replied"}
      /\ call'[c].at = "replied" => call'[c] = call[c]
      /\ \A d \in Subscribers :
            d # c => inbox'[d] = inbox[d] /\ up'[d] = up[d] /\ call'[d] = call[d]
  BY <1>1, <1>2 DEF SyncTypeOK, NoCall
<1>7. SyncTypeOK'
  <2>1. NoCall \in Calls /\ <<>> \in Seq(Messages)
    BY DEF Calls
  <2>2. call' \in [Subscribers -> Calls]
    BY <1>1, <1>2, <2>1 DEF SyncTypeOK
  <2>3. QED
    BY <1>1, <1>2, <2>1, <2>2 DEF SyncTypeOK
<1>8. \A d \in Subscribers : d # c => LeavesAlone(d)
  BY <1>1, <1>5, <1>6 DEF LeavesAlone, KeepsState
<1>9. InStep(c)'
  <2>1. Behind(c)' /\ OneAnswer(c)'
    BY <1>1, <1>2, <1>5, <1>6 DEF InStep, Behind, OneAnswer
  <2>2. AsksBehind(c)' /\ ReplyInView(c)'
    BY <1>1, <1>2, <1>6 DEF InStep, AsksBehind, ReplyInView
  <2>3. OffIsOff(c)' /\ PipeHonest(c)'
    BY <1>5, <1>6 DEF OffIsOff, PipeHonest
  <2>4. QED
    BY <1>1, <1>2, <2>1, <2>2, <2>3 DEF InStep
<1>10. QED
  BY <1>4, <1>7, <1>8, <1>9, OneClient

LEMMA ReconnectKeeps ==
    ASSUME SyncInv, NEW c \in Subscribers, Reconnect(c)
    PROVE  SyncInv'
<1>1. /\ ~up[c] /\ UNCHANGED <<revision, says, next, feed, inbox, call, overtaken>> /\ UNCHANGED vars
      /\ up' = [up EXCEPT ![c] = TRUE]
      /\ view' = [view EXCEPT ![c] = [view[c] EXCEPT !.lag = FALSE, !.last = 0]]
  BY DEF Reconnect, vars, SyncInv, SyncTypeOK
<1>2. InStep(c) /\ SyncTypeOK /\ ServiceMoves /\ view[c] \in Views
  BY <1>1, NothingPublished, ClientNumbers DEF SyncInv
<1>3. /\ [view[c] EXCEPT !.lag = FALSE, !.last = 0] \in Views
      /\ view'[c] = [view[c] EXCEPT !.lag = FALSE, !.last = 0] /\ up'[c]
      /\ \A d \in Subscribers : d # c => view'[d] = view[d] /\ up'[d] = up[d]
  BY <1>1, <1>2 DEF SyncTypeOK, Views
<1>4. /\ view'[c].document = view[c].document /\ view'[c].sequence = view[c].sequence
      /\ view'[c].documentRevision = view[c].documentRevision /\ ~view'[c].lag
  BY <1>2, <1>3 DEF Views
<1>5. SyncTypeOK'
  BY <1>1, <1>2, <1>3 DEF SyncTypeOK
<1>6. \A d \in Subscribers : d # c => LeavesAlone(d)
  BY <1>1, <1>3 DEF LeavesAlone, KeepsState
<1>7. ~feed[c].on
  BY <1>1, <1>2 DEF InStep, OffIsOff
<1>8. InStep(c)'
  <2>1. Behind(c)' /\ AsksBehind(c)'
    BY <1>1, <1>2, <1>4 DEF InStep, Behind, AsksBehind
  <2>2. OneAnswer(c)' /\ ReplyInView(c)'
    BY <1>1, <1>2, <1>4 DEF InStep, OneAnswer, ReplyInView
  <2>3. OffIsOff(c)' /\ PipeHonest(c)'
    BY <1>1, <1>3, <1>7 DEF OffIsOff, PipeHonest
  <2>4. QED
    BY <1>2, <1>4, <2>1, <2>2, <2>3 DEF InStep
<1>9. QED
  BY <1>2, <1>5, <1>6, <1>8, OneClient

(***************************************************************************)
(* The clients stay in step with the service whatever happens, one step at *)
(* a time, and from the start.                                             *)
(***************************************************************************)
LEMMA SyncInductive == SyncInv /\ [SyncNext]_allVars => SyncInv'
<1> SUFFICES ASSUME SyncInv, [SyncNext]_allVars PROVE SyncInv'
  OBVIOUS
<1>1. CASE OthersAct
  BY <1>1, OthersKeep
<1>2. ASSUME NEW c \in Subscribers,
             \/ \E kind \in Kinds, after \in 0..MaxSeq : Call(c, kind, after)
             \/ Run(c) \/ Refuse(c) \/ Answer(c) \/ Tick(c)
             \/ ReceiveEvent(c) \/ ReceiveReply(c) \/ Return(c)
             \/ Drop(c) \/ Reconnect(c)
      PROVE  SyncInv'
  BY <1>2, CallKeeps, RunKeeps, RefuseKeeps, AnswerKeeps, TickKeeps, ReceiveEventKeeps,
     ReceiveReplyKeeps, ReturnKeeps, DropKeeps, ReconnectKeeps
<1>3. CASE UNCHANGED allVars
  <2>1. ServiceMoves /\ \A c \in Subscribers : LeavesAlone(c)
    BY <1>3, NothingPublished DEF allVars, vars, syncVars, LeavesAlone, KeepsState
  <2>2. IInv' /\ SaysInOrder'
    BY <2>1, OrderKept DEF SyncInv
  <2>3. SyncTypeOK'
    BY <1>3 DEF allVars, syncVars, SyncInv, SyncTypeOK
  <2>4. QED
    BY <2>1, <2>2, <2>3, Bystander DEF SyncInv
<1>4. QED
  BY <1>1, <1>2, <1>3 DEF SyncNext

LEMMA SyncInitially == SyncInit => SyncInv
<1> SUFFICES ASSUME SyncInit PROVE SyncInv
  OBVIOUS
<1>1. IInv /\ SaysInOrder
  BY Initially DEF SyncInit, Init, SaysInOrder
<1>2. SyncTypeOK
  <2>1. NoCall \in Calls /\ NewView \in Views /\ <<>> \in Seq(Messages) /\ <<>> \in Seq(Nat)
    BY DEF Calls, Views, NewView
  <2>2. QED
    BY <2>1 DEF SyncInit, SyncTypeOK
<1>3. ASSUME NEW c \in Subscribers PROVE InStep(c)
  <2>1. /\ feed[c] = Off /\ next = 1 /\ inbox[c] = <<>> /\ call[c] = NoCall /\ view[c] = NewView
        /\ up[c]
    BY DEF SyncInit, Init
  <2>2. Behind(c) /\ AsksBehind(c) /\ OneAnswer(c)
    BY <2>1 DEF Behind, AsksBehind, OneAnswer, Off, NewView, NoCall
  <2>3. OffIsOff(c) /\ PipeHonest(c) /\ ReplyInView(c)
    BY <2>1 DEF OffIsOff, PipeHonest, ReplyInView, Off, NoCall
  <2>4. QED
    BY <2>1, <2>2, <2>3 DEF InStep, NewView
<1>4. QED
  BY <1>1, <1>2, <1>3 DEF SyncInv

\* A client that is in step has, when nothing is under way, what it was told of.
LEMMA ViewsFollow == SyncInv => ViewIsHonest
<1> SUFFICES ASSUME SyncInv PROVE ViewIsHonest
  OBVIOUS
<1>1. DocumentMatchesItsRevision
  BY DEF SyncInv, InStep, DocumentMatchesItsRevision
<1>2. ASSUME NEW c \in Subscribers, Settled(c), feed[c].on, ~view[c].lag, ~overtaken[c]
      PROVE  view[c].documentRevision >= Announced
  <2>1. UpToDate(c)
    BY <1>2 DEF SyncInv, InStep, PipeHonest, Subscribing, Settled
  <2>2. Marks(inbox[c]) = {}
    BY <1>2 DEF Settled, Marks
  <2>3. Covers(says, view[c].documentRevision, next - 1)
    BY <1>2, <2>1, <2>2 DEF UpToDate, BringsUpTo, Settled
  <2>4. says \in Seq(Nat) /\ Len(says) = next - 1 /\ view[c].documentRevision \in Nat
        /\ revision \in Nat /\ next \in Nat
    BY ClientNumbers DEF SyncInv, SyncTypeOK, SaysInOrder, IInv, TypeOK
  <2> DEFINE T == {0} \cup {says[i] : i \in 1..Len(says)}
  <2>5. T \subseteq 0..revision /\ T # {}
    BY <2>4 DEF SyncInv, SaysInOrder
  <2>6. \A x \in T : x <= view[c].documentRevision
    BY <2>3, <2>4 DEF Covers
  <2>7. Announced = Max(T)
    BY DEF Announced
  <2> HIDE DEF T
  <2>8. PICK x \in T : \A y \in T : y <= x
    BY <2>4, <2>5, Greatest
  <2>9. Max(T) \in T
    <3>1. \A y \in T : x >= y
      BY <2>4, <2>5, <2>8
    <3>2. QED
      BY <3>1 DEF Max
  <2>10. Max(T) \in Nat /\ Max(T) <= view[c].documentRevision
    <3>1. Max(T) \in 0..revision
      BY <2>5, <2>9
    <3>2. QED
      BY <2>4, <2>6, <2>9, <3>1
  <2>11. QED
    BY <2>4, <2>7, <2>10
<1>3. QED
  BY <1>1, <1>2 DEF ViewIsHonest, CurrentUnlessOvertaken

(***************************************************************************)
(* The revision in a client's view is that of the document beside it, and  *)
(* a subscriber whose view shows no lag has every document it was told of  *)
(* once all has been read (apply_response, apply_event, handle_ws), unless *)
(* a task that woke up late put an older reply over it.                    *)
(***************************************************************************)
THEOREM ViewsAreHonest == SyncSpec => []ViewIsHonest
BY SyncInitially, SyncInductive, ViewsFollow, PTL DEF SyncSpec

(***************************************************************************)
(* The mix calls of a remote host                                          *)
(***************************************************************************)

\* The parts of MixIInv hold before the first call.
LEMMA InitIInv == MixInit => MixIInv
<1> SUFFICES ASSUME MixInit PROVE MixIInv
  OBVIOUS
<1>1. None \in Values /\ \A u \in Units : None[u] = 0
  BY MixAssumption DEF MixAssumption, None, Values
<1>2. MixTypeOK
  BY <1>1 DEF MixTypeOK, MixInit
<1>3. SingleFlusher /\ ScheduledMeansActive /\ NoStrandedValue
  BY DEF MixInit, SingleFlusher, ScheduledMeansActive, NoStrandedValue, Active
<1>4. BatchHeldBySender /\ AgeOrder
  BY <1>1 DEF MixInit, BatchHeldBySender, AgeOrder
<1>5. QED
  BY <1>2, <1>3, <1>4 DEF MixIInv

\* Every step of set_mix, flush_mix and close preserves the type invariant.
LEMMA TypeStep == MixTypeOK /\ [MixNext]_mixVars => MixTypeOK'
<1> SUFFICES ASSUME MixTypeOK, [MixNext]_mixVars PROVE MixTypeOK'
  OBVIOUS
<1> USE MixAssumption DEF MixTypeOK, Values
<1>1. ASSUME NEW c \in Callers, Enter(c) PROVE MixTypeOK'
  BY <1>1 DEF Enter
<1>2. ASSUME NEW c \in Callers, NEW u \in Units, Insert(c, u) PROVE MixTypeOK'
  <2>1. issued[u] + 1 \in 0..MaxSets
    BY <1>2 DEF Insert
  <2>2. QED
    BY <1>2, <2>1 DEF Insert
<1>3. ASSUME NEW c \in Callers, FindScheduled(c) PROVE MixTypeOK'
  BY <1>3 DEF FindScheduled
<1>4. ASSUME NEW c \in Callers, NEW t \in Tasks, Spawn(c, t) PROVE MixTypeOK'
  BY <1>4 DEF Spawn
<1>5. ASSUME NEW t \in Tasks, Finish(t) PROVE MixTypeOK'
  BY <1>5 DEF Finish
<1>6. ASSUME NEW t \in Tasks, Take(t) PROVE MixTypeOK'
  BY <1>6 DEF Take, None
<1>7. ASSUME NEW t \in Tasks, NEW u \in Units, Deliver(t, u) PROVE MixTypeOK'
  BY <1>7 DEF Deliver, LeaveBatch
<1>8. ASSUME NEW t \in Tasks, NEW u \in Units, Fail(t, u) PROVE MixTypeOK'
  BY <1>8 DEF Fail, LeaveBatch
<1>9. ASSUME NEW r \in late, RunLate(r) PROVE MixTypeOK'
  <2>1. r[1] \in Units /\ r[2] \in 0..MaxSets
    OBVIOUS
  <2>2. late' \subseteq Units \X (0..MaxSets)
    BY <1>9 DEF RunLate
  <2>3. applied' \in [Units -> 0..MaxSets]
    BY <1>9, <2>1 DEF RunLate
  <2>4. QED
    BY <1>9, <2>2, <2>3 DEF RunLate
<1>10. CASE Close
  <2>1. None \in [Units -> 0..MaxSets]
    BY DEF MixAssumption, None
  <2>2. QED
    BY <1>10, <2>1 DEF Close
<1>11. CASE UNCHANGED mixVars
  BY <1>11 DEF mixVars
<1>12. QED
  BY <1>1, <1>2, <1>3, <1>4, <1>5, <1>6, <1>7, <1>8, <1>9, <1>10, <1>11
  DEF MixNext, SetMix, Flush

(***************************************************************************)
(* The schedule.  A flush task ends only under the lock and only when       *)
(* nothing is pending, and a task is spawned only by the caller whose       *)
(* exchange turned `scheduled` on.                                          *)
(***************************************************************************)

Schedule ==
    /\ SingleFlusher
    /\ ScheduledMeansActive
    /\ NoStrandedValue
    /\ BatchHeldBySender

\* Every step preserves the relation between the flag, the tasks and pending.
LEMMA ScheduleStep == MixTypeOK /\ Schedule /\ [MixNext]_mixVars => Schedule'
<1> SUFFICES ASSUME MixTypeOK, Schedule, [MixNext]_mixVars PROVE Schedule'
  OBVIOUS
<1> USE DEF Schedule, MixTypeOK, Values, SingleFlusher, ScheduledMeansActive,
            NoStrandedValue, BatchHeldBySender, Active
<1>1. ASSUME NEW c \in Callers, Enter(c) PROVE Schedule'
  BY <1>1 DEF Enter
<1>2. ASSUME NEW c \in Callers, NEW u \in Units, Insert(c, u) PROVE Schedule'
  BY <1>2 DEF Insert
<1>3. ASSUME NEW c \in Callers, FindScheduled(c) PROVE Schedule'
  BY <1>3 DEF FindScheduled
<1>4. ASSUME NEW c \in Callers, NEW t \in Tasks, Spawn(c, t) PROVE Schedule'
  BY <1>4 DEF Spawn
<1>5. ASSUME NEW t \in Tasks, Finish(t) PROVE Schedule'
  BY <1>5 DEF Finish
<1>6. ASSUME NEW t \in Tasks, Take(t) PROVE Schedule'
  BY <1>6 DEF Take
<1>7. ASSUME NEW t \in Tasks, NEW u \in Units, LeaveBatch(t, u) PROVE Schedule'
  <2>1. /\ UNCHANGED <<pending, scheduled, caller, open>>
        /\ task[t] = "send"
        /\ \A s \in Tasks : (task'[s] # "none") <=> (task[s] # "none")
    BY <1>7 DEF LeaveBatch
  <2>2. \A s \in Tasks : task'[s] # "send" => \A w \in Units : batch'[s][w] = 0
    BY <1>7 DEF LeaveBatch, None
  <2>3. QED
    BY <2>1, <2>2
<1>8. ASSUME NEW r \in late, RunLate(r) PROVE Schedule'
  BY <1>8 DEF RunLate
<1>9. CASE Close
  BY <1>9 DEF Close, None
<1>10. CASE UNCHANGED mixVars
  BY <1>10 DEF mixVars
<1>11. QED
  BY <1>1, <1>2, <1>3, <1>4, <1>5, <1>6, <1>7, <1>8, <1>9, <1>10
  DEF MixNext, SetMix, Flush, Deliver, Fail

(***************************************************************************)
(* The ages of values.                                                      *)
(***************************************************************************)

\* Every step preserves the order of ages, given that one task runs at most.
LEMMA AgeStep ==
    MixTypeOK /\ Schedule /\ AgeOrder /\ [MixNext]_mixVars => AgeOrder'
<1> SUFFICES ASSUME MixTypeOK, Schedule, AgeOrder, [MixNext]_mixVars PROVE AgeOrder'
  OBVIOUS
<1> USE MixAssumption DEF MixAssumption, MixTypeOK, Values, AgeOrder
<1>1. ASSUME NEW c \in Callers, Enter(c) PROVE AgeOrder'
  BY <1>1 DEF Enter
<1>2. ASSUME NEW c \in Callers, NEW u \in Units, Insert(c, u) PROVE AgeOrder'
  BY <1>2 DEF Insert
<1>3. ASSUME NEW c \in Callers, FindScheduled(c) PROVE AgeOrder'
  BY <1>3 DEF FindScheduled
<1>4. ASSUME NEW c \in Callers, NEW t \in Tasks, Spawn(c, t) PROVE AgeOrder'
  BY <1>4 DEF Spawn
<1>5. ASSUME NEW t \in Tasks, Finish(t) PROVE AgeOrder'
  BY <1>5 DEF Finish
<1>6. ASSUME NEW t \in Tasks, Take(t) PROVE AgeOrder'
  BY <1>6 DEF Take, None
<1>7. ASSUME NEW t \in Tasks, NEW u \in Units, LeaveBatch(t, u),
             \/ Deliver(t, u)
             \/ Fail(t, u)
      PROVE  AgeOrder'
  <2>1. \A s \in Tasks : s # t => \A w \in Units : batch[s][w] = 0
    BY <1>7 DEF LeaveBatch, Schedule, SingleFlusher, Active, BatchHeldBySender
  <2>2. /\ UNCHANGED <<pending, issued>>
        /\ batch[t][u] # 0
        /\ \A s \in Tasks, w \in Units : batch'[s][w] =
              IF s = t /\ w # u THEN batch[t][w] ELSE 0
    BY <1>7, <2>1 DEF LeaveBatch
  <2>3. CASE Deliver(t, u)
    BY <2>2, <2>3 DEF Deliver
  <2>4. CASE Fail(t, u)
    BY <2>2, <2>4 DEF Fail
  <2>5. QED
    BY <1>7, <2>3, <2>4
<1>9. ASSUME NEW r \in late, RunLate(r) PROVE AgeOrder'
  <2>1. r[1] \in Units /\ r[2] \in 0..MaxSets
    OBVIOUS
  <2>2. \A u \in Units : applied'[u] = IF u = r[1] THEN r[2] ELSE applied[u]
    BY <1>9, <2>1 DEF RunLate
  <2>3. /\ UNCHANGED <<pending, issued, batch>>
        /\ late' \subseteq late
    BY <1>9 DEF RunLate
  <2>4. QED
    BY <2>1, <2>2, <2>3
<1>10. CASE Close
  BY <1>10 DEF Close, None
<1>11. CASE UNCHANGED mixVars
  BY <1>11 DEF mixVars
<1>12. QED
  BY <1>1, <1>2, <1>3, <1>4, <1>5, <1>6, <1>7, <1>9, <1>10, <1>11
  DEF MixNext, SetMix, Flush, Deliver, Fail

(***************************************************************************)
(* The theorems                                                             *)
(***************************************************************************)

\* The inductive invariant holds in every reachable state.
LEMMA MixInductive == MixSpec => []MixIInv
<1>1. MixInit => MixIInv
  BY InitIInv
<1>2. MixIInv /\ [MixNext]_mixVars => MixIInv'
  BY TypeStep, ScheduleStep, AgeStep DEF MixIInv, Schedule
<1>3. QED
  BY <1>1, <1>2, PTL DEF MixSpec

\* Every variable keeps its type.
THEOREM MixTypeCorrect == MixSpec => []MixTypeOK
<1>1. MixIInv => MixTypeOK
  BY DEF MixIInv
<1>2. QED
  BY <1>1, MixInductive, PTL

\* However many threads call set_mix and however the calls interleave with the
\* task that drains, one flush task runs at most.
THEOREM OneFlusher == MixSpec => []SingleFlusher
<1>1. MixIInv => SingleFlusher
  BY DEF MixIInv
<1>2. QED
  BY <1>1, MixInductive, PTL

\* A fader value never waits in `pending` with nobody left to send it: the
\* wakeup between flush_mix's store and set_mix's exchange is never lost.
THEOREM NoneStranded == MixSpec => []NoStrandedValue
<1>1. MixIInv => NoStrandedValue
  BY DEF MixIInv
<1>2. QED
  BY <1>1, MixInductive, PTL

\* The server goes back to an older fader value only by running a request
\* whose reply was lost.
THEOREM Ordered == MixSpec => OrderedUnlessLost
<1> DEFINE Step == \A u \in Units : applied'[u] < applied[u] => <<u, applied'[u]>> \in late
<1>1. MixIInv /\ [MixNext]_mixVars => [Step]_mixVars
  <2> SUFFICES ASSUME MixIInv, MixNext, NEW u \in Units, applied'[u] < applied[u]
               PROVE  <<u, applied'[u]>> \in late
    BY DEF mixVars
  <2> USE MixAssumption DEF MixAssumption, MixIInv, MixTypeOK, Values
  <2>1. ASSUME NEW t \in Tasks, NEW w \in Units, Deliver(t, w) PROVE FALSE
    <3>1. applied' = [applied EXCEPT ![w] = batch[t][w]] /\ batch[t][w] # 0
      BY <2>1 DEF Deliver, LeaveBatch
    <3>2. w = u /\ applied'[u] = batch[t][u]
      BY <3>1
    <3>3. QED
      BY <3>1, <3>2 DEF AgeOrder
  <2>2. ASSUME NEW r \in late, RunLate(r) PROVE <<u, applied'[u]>> \in late
    <3>1. r \in Units \X (0..MaxSets) /\ r = <<r[1], r[2]>>
      OBVIOUS
    <3>2. applied' = [applied EXCEPT ![r[1]] = r[2]]
      BY <2>2 DEF RunLate
    <3>3. r[1] = u /\ applied'[u] = r[2]
      BY <3>1, <3>2
    <3>4. QED
      BY <3>1, <3>3
  <2>3. ASSUME UNCHANGED applied PROVE FALSE
    BY <2>3
  <2>4. QED
    BY <2>1, <2>2, <2>3
    DEF MixNext, SetMix, Flush, Enter, Insert, FindScheduled, Spawn, Finish, Take,
        Fail, Close
<1>2. QED
  BY <1>1, MixInductive, PTL DEF MixSpec, OrderedUnlessLost
=============================================================================
