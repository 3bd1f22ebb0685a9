----------------------------- MODULE EventFeed -----------------------------
(***************************************************************************)
(* What the control service promises to the subscribers of its events.     *)
(*                                                                         *)
(* Events are numbered from 1 in the order they are published.  A          *)
(* subscriber asks for the events after a number of its choice.  Each time *)
(* it is served it gets every event up to the newest, except perhaps the   *)
(* oldest ones it was owed; of those it is told exactly how many they are. *)
(* There is never a hole in the middle, and never an event out of turn.    *)
(***************************************************************************)
EXTENDS Integers

CONSTANTS
    Subscribers,
    MaxSeq         \* bound: the numbers asked for

VARIABLES
    published,     \* the number of events published
    feed           \* what each subscriber has asked for and been served

vars == <<published, feed>>

\* on: subscribed; base: the number asked for; upTo: served up to here;
\* got: the events received; missed: the sum of the losses announced.
Feeds == [on : BOOLEAN, base : Nat, upTo : Nat, got : SUBSET Nat, missed : Nat]

Fresh(a) == [on |-> TRUE, base |-> a, upTo |-> a, got |-> {}, missed |-> 0]

Off == [on |-> FALSE, base |-> 0, upTo |-> 0, got |-> {}, missed |-> 0]

Init ==
    /\ published = 0
    /\ feed = [c \in Subscribers |-> Off]

Publish ==
    /\ published' = published + 1
    /\ UNCHANGED feed

Subscribe(c) ==
    /\ \E a \in 0..MaxSeq : feed' = [feed EXCEPT ![c] = Fresh(a)]
    /\ UNCHANGED published

\* A subscriber that is owed something is served; `lost` of it is gone.
Serve(c) ==
    LET f == feed[c]
        owed == published - f.upTo
    IN  /\ f.on
        /\ owed > 0
        /\ \E lost \in 0..(owed - 1) :
              feed' = [feed EXCEPT ![c] =
                          [f EXCEPT !.got = f.got \cup (f.upTo + lost + 1)..published,
                                    !.missed = f.missed + lost,
                                    !.upTo = published]]
        /\ UNCHANGED published

Leave(c) ==
    /\ feed' = [feed EXCEPT ![c] = Off]
    /\ UNCHANGED published

Next ==
    \/ Publish
    \/ \E c \in Subscribers : Subscribe(c) \/ Serve(c) \/ Leave(c)

Spec == Init /\ [][Next]_vars
=============================================================================
