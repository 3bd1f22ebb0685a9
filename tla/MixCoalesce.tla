---------------------------- MODULE MixCoalesce ----------------------------
(***************************************************************************)
(* The fader coalescer of the remote client (crates/eiviz-remote).         *)
(*                                                                         *)
(* Host threads call set_mix many times a second.  Each call puts its      *)
(* value in `pending`, the latest value of a unit replacing the one before *)
(* it, and makes sure that a flush task is running on the client runtime.  *)
(* The task empties `pending` and sends what it took, one round trip per   *)
(* unit, until it finds `pending` empty.                                   *)
(*                                                                         *)
(* A value is the number of the set_mix call that put it: the properties   *)
(* tell values apart only by their age.  0 means no value.                 *)
(***************************************************************************)
EXTENDS Naturals

CONSTANTS
    Units,     \* mixing unit ids
    Callers,   \* host threads that call set_mix
    Tasks,     \* names for spawned flush tasks
    MaxSets    \* bound: set_mix calls per unit

ASSUME MixAssumption ==
    /\ MaxSets \in Nat \ {0}
    /\ Tasks # {}

VARIABLES
    pending,    \* MixCoalesce.pending: the newest unsent value of each unit
    scheduled,  \* MixCoalesce.scheduled
    caller,     \* where each host thread is in set_mix
    task,       \* what each flush task is doing
    batch,      \* the values a flush task took and has not sent yet
    open,       \* the slot is in the table and its runtime is alive
    issued,     \* the number of set_mix calls made for each unit
    applied,    \* the value the server holds for each unit
    sent,       \* the newest value of each unit whose round trip has ended
    late        \* requests whose reply was lost and that the server may still run

mixVars == <<pending, scheduled, caller, task, batch, open, issued, applied,
          sent, late>>

None == [u \in Units |-> 0]

MixInit ==
    /\ pending = None
    /\ scheduled = FALSE
    /\ caller = [c \in Callers |-> "idle"]
    /\ task = [t \in Tasks |-> "none"]
    /\ batch = [t \in Tasks |-> None]
    /\ open = TRUE
    /\ issued = None
    /\ applied = None
    /\ sent = None
    /\ late = {}

-----------------------------------------------------------------------------
(* The host side: set_mix finds the slot, inserts under the lock, and does   *)
(* a compare and exchange after releasing it.                               *)

Enter(c) ==
    /\ open
    /\ caller[c] = "idle"
    /\ caller' = [caller EXCEPT ![c] = "entered"]
    /\ UNCHANGED <<pending, scheduled, task, batch, open, issued, applied,
                   sent, late>>

\* The value goes into the pending map, over an older one of the same unit.
Insert(c, u) ==
    /\ caller[c] = "entered"
    /\ issued[u] < MaxSets
    /\ issued' = [issued EXCEPT ![u] = @ + 1]
    /\ pending' = [pending EXCEPT ![u] = issued[u] + 1]
    /\ caller' = [caller EXCEPT ![c] = "inserted"]
    /\ UNCHANGED <<scheduled, task, batch, open, applied, sent, late>>

\* A task is already scheduled: the exchange fails and the call returns.
FindScheduled(c) ==
    /\ caller[c] = "inserted"
    /\ scheduled
    /\ caller' = [caller EXCEPT ![c] = "idle"]
    /\ UNCHANGED <<pending, scheduled, task, batch, open, issued, applied,
                   sent, late>>

\* Mutant: a plain store in place of the exchange spawns a task every time.
MutantSpawnAlways(c, t) ==
    /\ caller[c] = "inserted"
    /\ task[t] = "none"
    /\ scheduled' = TRUE
    /\ task' = [task EXCEPT ![t] = IF open THEN "flush" ELSE "none"]
    /\ caller' = [caller EXCEPT ![c] = "idle"]
    /\ UNCHANGED <<pending, batch, open, issued, applied, sent, late>>

\* The exchange succeeds: spawn a flush task.  A runtime that has shut down
\* drops the task it is handed.
Spawn(c, t) ==
    /\ caller[c] = "inserted"
    /\ ~scheduled
    /\ task[t] = "none"
    /\ scheduled' = TRUE
    /\ task' = [task EXCEPT ![t] = IF open THEN "flush" ELSE "none"]
    /\ caller' = [caller EXCEPT ![c] = "idle"]
    /\ UNCHANGED <<pending, batch, open, issued, applied, sent, late>>

-----------------------------------------------------------------------------
(* The flush task                                                           *)

\* Mutant: the task ends without giving up the schedule.
MutantFinishKeepsFlag(t) ==
    /\ task[t] = "flush"
    /\ pending = None
    /\ task' = [task EXCEPT ![t] = "none"]
    /\ UNCHANGED <<pending, scheduled, caller, batch, open, issued, applied, sent, late>>

\* Under the lock: nothing is pending, so give up the schedule and end.
Finish(t) ==
    /\ task[t] = "flush"
    /\ pending = None
    /\ scheduled' = FALSE
    /\ task' = [task EXCEPT ![t] = "none"]
    /\ UNCHANGED <<pending, caller, batch, open, issued, applied, sent, late>>

\* Under the lock: take everything that is pending.
Take(t) ==
    /\ task[t] = "flush"
    /\ pending # None
    /\ batch' = [batch EXCEPT ![t] = pending]
    /\ pending' = None
    /\ task' = [task EXCEPT ![t] = "send"]
    /\ UNCHANGED <<scheduled, caller, open, issued, applied, sent, late>>

\* The value of unit u leaves the batch; after the last one the task loops.
LeaveBatch(t, u) ==
    LET rest == [batch[t] EXCEPT ![u] = 0]
    IN  /\ task[t] = "send"
        /\ batch[t][u] # 0
        /\ batch' = [batch EXCEPT ![t] = rest]
        /\ task' = [task EXCEPT ![t] = IF rest = None THEN "flush" ELSE "send"]
        /\ sent' = [sent EXCEPT ![u] = batch[t][u]]
        /\ UNCHANGED <<pending, scheduled, caller, open, issued>>

\* The round trip ends with the server's answer.
Deliver(t, u) ==
    /\ LeaveBatch(t, u)
    /\ applied' = [applied EXCEPT ![u] = batch[t][u]]
    /\ UNCHANGED late

\* The round trip ends with an error, which the task ignores.  The request
\* may be lost, or the server may still have it from the old connection.
Fail(t, u) ==
    /\ LeaveBatch(t, u)
    /\ late' \in {late, late \cup {<<u, batch[t][u]>>}}
    /\ UNCHANGED applied

\* The server runs a request of a connection that is gone.
RunLate(r) ==
    /\ r \in late
    /\ late' = late \ {r}
    /\ applied' = [applied EXCEPT ![r[1]] = r[2]]
    /\ UNCHANGED <<pending, scheduled, caller, task, batch, open, issued, sent>>

\* close: the slot leaves the table, then the runtime and its tasks end.
Close ==
    /\ open
    /\ open' = FALSE
    /\ task' = [t \in Tasks |-> "none"]
    /\ batch' = [t \in Tasks |-> None]
    /\ UNCHANGED <<pending, scheduled, caller, issued, applied, sent, late>>

-----------------------------------------------------------------------------

SetMix(c) ==
    \/ Enter(c)
    \/ \E u \in Units : Insert(c, u)
    \/ FindScheduled(c)
    \/ \E t \in Tasks : Spawn(c, t)

Flush(t) ==
    \/ Finish(t)
    \/ Take(t)
    \/ \E u \in Units : Deliver(t, u) \/ Fail(t, u)

MixNext ==
    \/ \E c \in Callers : SetMix(c)
    \/ \E t \in Tasks : Flush(t)
    \/ \E r \in late : RunLate(r)
    \/ Close

MixSpec == MixInit /\ [][MixNext]_mixVars

\* A host thread that entered set_mix returns from it, and the runtime runs
\* its tasks; nobody has to call set_mix, or close, or lose a connection.
MixFairness ==
    /\ \A c \in Callers : WF_mixVars(FindScheduled(c) \/ \E t \in Tasks : Spawn(c, t))
    /\ \A t \in Tasks : WF_mixVars(Flush(t))

FairMixSpec == MixSpec /\ MixFairness

-----------------------------------------------------------------------------

Values == [Units -> 0..MaxSets]

MixTypeOK ==
    /\ pending \in Values
    /\ scheduled \in BOOLEAN
    /\ caller \in [Callers -> {"idle", "entered", "inserted"}]
    /\ task \in [Tasks -> {"none", "flush", "send"}]
    /\ batch \in [Tasks -> Values]
    /\ open \in BOOLEAN
    /\ issued \in Values
    /\ applied \in Values
    /\ sent \in Values
    /\ late \subseteq Units \X (0..MaxSets)

Active == {t \in Tasks : task[t] # "none"}

\* At most one flush task runs: two would send values of one unit in an order
\* nobody controls (set_mix's exchange, flush_mix's store under the lock).
SingleFlusher == \A s, t \in Active : s = t

\* A pending value is never stranded: as long as the slot is open there is a
\* task that will take it, or a caller that is about to schedule one.
NoStrandedValue ==
    open /\ pending # None => Active # {} \/ \E c \in Callers : caller[c] = "inserted"

(* The parts of the inductive invariant.                                    *)

\* scheduled is true exactly while a task runs, except after close.
ScheduledMeansActive ==
    /\ Active # {} => scheduled /\ open
    /\ open /\ scheduled => Active # {}

\* Only a sending task holds values.
BatchHeldBySender ==
    \A t \in Tasks : task[t] # "send" => \A u \in Units : batch[t][u] = 0

\* What is pending is the newest value; what a task holds is at least as new
\* as what the server has or may still run.
AgeOrder ==
    \A u \in Units :
        /\ pending[u] \in {0, issued[u]}
        /\ applied[u] <= issued[u]
        /\ \A r \in late : r[1] = u => r[2] <= issued[u]
        /\ \A t \in Tasks : batch[t][u] # 0 =>
              /\ applied[u] <= batch[t][u]
              /\ batch[t][u] <= issued[u]
              /\ \A r \in late : r[1] = u => r[2] <= batch[t][u]

MixIInv ==
    /\ MixTypeOK
    /\ SingleFlusher
    /\ ScheduledMeansActive
    /\ NoStrandedValue
    /\ BatchHeldBySender
    /\ AgeOrder

\* The server's value of a unit goes back to an older one only by a request
\* whose reply was lost: reconnection alone can reorder fader values.
OrderedUnlessLost ==
    [][\A u \in Units : applied'[u] < applied[u] => <<u, applied'[u]>> \in late]_mixVars

\* When the callers have rested, a round trip has been made for the last value of
\* every unit, unless the slot was closed before: coalescing drops only values a
\* newer one has replaced (set_mix, flush_mix).
LatestIsSent == <>[](open => sent = issued)
=============================================================================
