------------------------------ MODULE EventHub ------------------------------
(***************************************************************************)
(* The event ring of the control service (eiviz-control/src/event_hub.rs)  *)
(* and the connections that drain it (drain_events and the Subscribe arm   *)
(* of handle_ws in eiviz-api/src/server.rs).                               *)
(*                                                                         *)
(* Every access to the ring is one section of the service's mutex, so a    *)
(* publish and a drain are one step each, in any order.  Of an event the   *)
(* ring holds only its sequence number.                                    *)
(***************************************************************************)
EXTENDS Integers, Sequences

CONSTANTS
    Subscribers,   \* connections of the control API
    Capacity,      \* EventHub::capacity, as new() leaves it
    MaxSeq         \* bound: the events ever published

ASSUME ConstantsAssumption ==
    /\ Capacity \in Nat \ {0}
    /\ MaxSeq \in Nat

VARIABLES
    next,      \* next_sequence
    dropped,   \* dropped
    ring,      \* events: the sequence numbers, oldest first
    feed       \* per connection: last_seq, subscribed and what it was sent

vars == <<next, dropped, ring, feed>>

Off == [on |-> FALSE, base |-> 0, upTo |-> 0, got |-> {}, missed |-> 0]

Init ==
    /\ next = 1
    /\ dropped = 0
    /\ ring = <<>>
    /\ feed = [c \in Subscribers |-> Off]

-----------------------------------------------------------------------------

\* publish: stamp the event with the next number, drop the front if full.
Publish ==
    /\ next <= MaxSeq
    /\ next' = next + 1
    /\ IF Len(ring) >= Capacity
       THEN ring' = Append(Tail(ring), next) /\ dropped' = dropped + 1
       ELSE ring' = Append(ring, next) /\ UNCHANGED dropped
    /\ UNCHANGED feed

\* The part of after() that selects the retained events a reader has not had.
Newer(a) == {ring[i] : i \in {j \in 1..Len(ring) : ring[j] > a}}

\* Mutant: the gap is counted up to the newest event instead of the oldest.
MutantMissedFromNewest(a) ==
    IF ring # <<>> /\ a + 1 < ring[1] THEN ring[Len(ring)] - (a + 1) ELSE 0

\* The part of after() that counts the gap of a Lag event (0: no Lag).
Missed(a) == IF ring # <<>> /\ a + 1 < ring[1] THEN ring[1] - (a + 1) ELSE 0

\* handle_ws on Subscribe: last_seq takes the client's number, whatever it is.
Subscribe(c, a) ==
    /\ feed' = [feed EXCEPT ![c] = [on |-> TRUE, base |-> a, upTo |-> a,
                                    got |-> {}, missed |-> 0]]
    /\ UNCHANGED <<next, dropped, ring>>

\* drain_events on the connection's tick: send what after() returns and keep
\* the largest number seen (a Lag event carries `after` itself).
Drain(c) ==
    LET f == feed[c]
        a == f.upTo
        newer == Newer(a)
    IN  /\ feed[c].on
        /\ newer # {}
        /\ feed' = [feed EXCEPT ![c] = [f EXCEPT !.got = f.got \cup newer,
                                                 !.missed = f.missed + Missed(a),
                                                 !.upTo = ring[Len(ring)]]]
        /\ UNCHANGED <<next, dropped, ring>>

\* The connection ends and its loop variables with it.
Disconnect(c) ==
    /\ feed[c].on
    /\ feed' = [feed EXCEPT ![c] = Off]
    /\ UNCHANGED <<next, dropped, ring>>

Next ==
    \/ Publish
    \/ \E c \in Subscribers :
          \/ \E a \in 0..MaxSeq : Subscribe(c, a)
          \/ Drain(c)
          \/ Disconnect(c)

Spec == Init /\ [][Next]_vars

-----------------------------------------------------------------------------

Feeds == [on : BOOLEAN, base : Nat, upTo : Nat, got : SUBSET Nat, missed : Nat]

TypeOK ==
    /\ next \in Nat \ {0}
    /\ dropped \in Nat
    /\ ring \in Seq(Nat)
    /\ feed \in [Subscribers -> Feeds]

\* The ring is a window of consecutive numbers that ends with the newest
\* event and is never longer than its capacity; what is not in it was counted
\* as dropped (publish).
RingIsWindow ==
    /\ Len(ring) <= Capacity
    /\ dropped + Len(ring) = next - 1
    /\ \A i \in 1..Len(ring) : ring[i] = dropped + i
    /\ dropped > 0 => Len(ring) = Capacity

IInv == TypeOK /\ RingIsWindow

Promise == INSTANCE EventFeed WITH published <- next - 1

\* The ring and its drains keep the promise of module EventFeed: a subscriber
\* loses at most the oldest events it was owed, and learns how many.
KeepsPromise == Promise!Spec
=============================================================================
