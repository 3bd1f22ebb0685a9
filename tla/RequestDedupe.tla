---------------------------- MODULE RequestDedupe ----------------------------
(***************************************************************************)
(* The cache of request outcomes: a request that is sent again is answered *)
(* from the cache and not run again (execute and remember of               *)
(* eiviz-control/src/service.rs).  Time passes in the units of Window.     *)
(***************************************************************************)
EXTENDS Naturals, Sequences, SequencesExt

CONSTANTS
    RequestKeys,   \* request keys: client instance and request id
    Cap,        \* DEDUPE_CAP
    Window,     \* how long an outcome is kept: 60 s
    MaxTime,    \* bound on the clock
    MaxAge,     \* bound on how many requests are counted as newer
    NotCached      \* not in the cache, or never run

\* An outcome is kept for some time, and ages are counted far enough.
ASSUME DedupeAssumption ==
    /\ Cap \in Nat \ {0}
    /\ Window \in Nat \ {0}
    /\ MaxTime \in Nat
    /\ MaxAge \in Nat /\ MaxAge >= Cap
    /\ NotCached \notin Nat

VARIABLES
    now,
    dedupe,   \* dedupe: when the outcome of each key was stored
    order,    \* dedupe_order: keys in the order in which they were stored
    ran,      \* when each key last ran since the cache was emptied
    newer,    \* how many requests ran since then, up to MaxAge
    repeated  \* the keys that ran more than once since the cache was emptied

dedupeVars == <<now, dedupe, order, ran, newer, repeated>>

Empty == [k \in RequestKeys |-> NotCached]

DedupeInit ==
    /\ now = 0
    /\ dedupe = Empty
    /\ order = <<>>
    /\ ran = Empty
    /\ newer = [k \in RequestKeys |-> 0]
    /\ repeated = {}

TimePasses ==
    /\ now < MaxTime
    /\ now' = now + 1
    /\ UNCHANGED <<dedupe, order, ran, newer, repeated>>

-----------------------------------------------------------------------------

\* Full: the oldest key makes room, in the queue and in the cache.
Full == Len(order) >= Cap

\* The queue after a new key is put at its end.
Queued(k) == Append(IF Full THEN Tail(order) ELSE order, k)

\* Mutant: the newest key is evicted.
MutantEvictedNewest == IF Full THEN {Last(order)} ELSE {}

Evicted == IF Full THEN {Head(order)} ELSE {}

Fresh(time) == time # NotCached /\ now - time < Window

\* remember: make room, store, drop what is too old.
Remember(k) ==
    /\ order' = Queued(k)
    /\ dedupe' = [j \in RequestKeys |->
                    IF j = k THEN now
                    ELSE IF j \notin Evicted /\ Fresh(dedupe[j]) THEN dedupe[j] ELSE NotCached]

Ran(k) ==
    /\ ran' = [ran EXCEPT ![k] = now]
    /\ newer' = [j \in RequestKeys |->
                    IF j = k THEN 0 ELSE IF newer[j] < MaxAge THEN newer[j] + 1 ELSE MaxAge]
    /\ repeated' = IF ran[k] = NotCached THEN repeated ELSE repeated \cup {k}

\* A request that is not in the cache runs, and its outcome, good or bad, is
\* remembered.
ExecuteRequest(k) ==
    /\ dedupe[k] = NotCached
    /\ Ran(k)
    /\ Remember(k)
    /\ UNCHANGED now

\* A request that is in the cache changes nothing.
Replay(k) ==
    /\ dedupe[k] # NotCached
    /\ UNCHANGED dedupeVars

\* ShutdownCache is a request like any other, but it empties the cache first.
ShutdownCache(k) ==
    /\ dedupe[k] = NotCached
    /\ order' = <<k>>
    /\ dedupe' = [Empty EXCEPT ![k] = now]
    /\ ran' = [Empty EXCEPT ![k] = now]
    /\ newer' = [j \in RequestKeys |-> 0]
    /\ repeated' = IF ran[k] = NotCached THEN {} ELSE {k}
    /\ UNCHANGED now

\* abandon, called by mixer_destroy.
AbandonCache ==
    /\ order' = <<>>
    /\ dedupe' = Empty
    /\ ran' = Empty
    /\ newer' = [k \in RequestKeys |-> 0]
    /\ repeated' = {}
    /\ UNCHANGED now

DedupeNext ==
    \/ \E k \in RequestKeys : ExecuteRequest(k) \/ Replay(k) \/ ShutdownCache(k)
    \/ TimePasses
    \/ AbandonCache

DedupeSpec == DedupeInit /\ [][DedupeNext]_dedupeVars

-----------------------------------------------------------------------------

DedupeTypeOK ==
    /\ now \in 0..MaxTime
    /\ dedupe \in [RequestKeys -> 0..MaxTime \cup {NotCached}]
    /\ order \in Seq(RequestKeys)
    /\ ran \in [RequestKeys -> 0..MaxTime \cup {NotCached}]
    /\ newer \in [RequestKeys -> 0..MaxAge]
    /\ repeated \subseteq RequestKeys

\* The cache never holds more than Cap outcomes, because each has a place in a
\* queue of Cap keys, and it holds the outcome of the key's last run (remember).
CacheIsBounded ==
    /\ Len(order) <= Cap
    /\ \A k \in RequestKeys : dedupe[k] # NotCached =>
          dedupe[k] = ran[k] /\ \E i \in 1..Len(order) : order[i] = k

\* The queue still has the key of a request that ran once, with the newer
\* requests behind it, unless Cap newer requests have run.
KeepsItsPlace ==
    \A k \in RequestKeys :
        ran[k] # NotCached /\ k \notin repeated /\ newer[k] < Cap =>
            /\ newer[k] < Len(order) /\ order[Len(order) - newer[k]] = k
            /\ now - ran[k] < Window => dedupe[k] # NotCached

\* A request that ran once is not run again within the window, unless Cap newer
\* requests have run (execute, remember).
RetryDoesNotRunAgain ==
    [][\A k \in repeated' \ repeated :
        now - ran[k] >= Window \/ newer[k] >= Cap]_dedupeVars
=============================================================================
