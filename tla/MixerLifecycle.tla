---------------------------- MODULE MixerLifecycle ----------------------------
(* The one mixer of a process: mixer_create and mixer_destroy on the MIXER slot
   (mixer/src/lifecycle.rs, mixer/src/lib.rs).

   The slot's lock is held for each single look at it and never across the
   start or the stop of a mixer, so calls of several threads interleave there.
   FATAL is one flag for the process; reset_generation clears it.  A mixer is
   named after the call that made it.                                         *)
EXTENDS Naturals, FiniteSets

CONSTANTS
    Callers,  \* threads of the host
    MaxUses   \* bound: calls of each thread

ASSUME UsesAssumption == MaxUses \in Nat

Uses == 1..MaxUses
Nothing == <<"none", 0>>

VARIABLES
    slot,     \* MIXER: [is, mixer]
    at,       \* what each thread is doing
    uses,     \* calls each thread has begun
    holds,    \* the mixer a thread has in its hands
    alive,    \* mixers whose render thread runs
    orphans,  \* of these, the ones whose command channel is closed
    fatal,    \* the mixer that set FATAL, or Nothing
    robbed    \* threads that create and whose reservation another call gave back

cycleVars == <<slot, at, uses, holds, alive, orphans, fatal, robbed>>

Is(what) == [is |-> what, mixer |-> Nothing]
Mine(c) == <<c, uses[c]>>
Reserving == {c \in Callers : at[c] \in {"reserved", "starting", "started"}}
Goes(c, from, to) == at[c] = from /\ at' = [at EXCEPT ![c] = to]

-----------------------------------------------------------------------------
(* mixer_create *)

Begins(c, to) ==
    /\ Goes(c, "idle", to)
    /\ uses[c] < MaxUses
    /\ uses' = [uses EXCEPT ![c] = @ + 1]

Reserve(c) ==
    /\ slot.is = "empty"
    /\ Begins(c, "reserved")
    /\ slot' = Is("initializing")
    /\ robbed' = robbed \ {c}
    /\ UNCHANGED <<holds, alive, orphans, fatal>>

ReserveRefused(c) ==
    /\ slot.is # "empty"
    /\ Begins(c, "idle")
    /\ UNCHANGED <<slot, holds, alive, orphans, fatal, robbed>>

\* reset_generation comes before the new threads.
ResetForCreate(c) ==
    /\ Goes(c, "reserved", "starting")
    /\ fatal' = Nothing
    /\ UNCHANGED <<slot, uses, holds, alive, orphans, robbed>>

Start(c) ==
    /\ Goes(c, "starting", "started")
    /\ holds' = [holds EXCEPT ![c] = Mine(c)]
    /\ alive' = alive \cup {Mine(c)}
    /\ UNCHANGED <<slot, uses, orphans, fatal, robbed>>

\* ERR_DEVICE: there is no device and no thread yet, or the render thread runs and
\* the audio scheduler does not start; the mixer is then dropped.
StartFails(c) ==
    /\ Goes(c, "starting", "aborting")
    /\ \E runs \in SUBSET {Mine(c)} :
          alive' = alive \cup runs /\ orphans' = orphans \cup runs
    /\ UNCHANGED <<slot, uses, holds, fatal, robbed>>

\* Mutant: the slot is not looked at again.
MutantCommit(c) ==
    /\ Goes(c, "started", "idle")
    /\ slot' = [is |-> "running", mixer |-> holds[c]]
    /\ holds' = [holds EXCEPT ![c] = Nothing]
    /\ UNCHANGED <<uses, alive, orphans, fatal, robbed>>

Commit(c) ==
    /\ slot.is = "initializing"
    /\ Goes(c, "started", "idle")
    /\ slot' = [is |-> "running", mixer |-> holds[c]]
    /\ holds' = [holds EXCEPT ![c] = Nothing]
    /\ UNCHANGED <<uses, alive, orphans, fatal, robbed>>

\* Mutant: the mixer that found no place is forgotten with its threads.
MutantCommitRefused(c) ==
    /\ slot.is # "initializing"
    /\ Goes(c, "started", "aborting")
    /\ holds' = [holds EXCEPT ![c] = Nothing]
    /\ UNCHANGED <<slot, uses, alive, orphans, fatal, robbed>>

\* The reservation is gone: the mixer is dropped, and its command channel with it.
CommitRefused(c) ==
    /\ slot.is # "initializing"
    /\ Goes(c, "started", "aborting")
    /\ orphans' = orphans \cup {holds[c]}
    /\ holds' = [holds EXCEPT ![c] = Nothing]
    /\ UNCHANGED <<slot, uses, alive, fatal, robbed>>

\* abort_mixer_create gives back a reservation, whosever it is.
Abort(c) ==
    /\ Goes(c, "aborting", "idle")
    /\ slot' = IF slot.is = "initializing" THEN Is("empty") ELSE slot
    /\ robbed' = IF slot.is = "initializing" THEN robbed \cup Reserving ELSE robbed
    /\ UNCHANGED <<uses, holds, alive, orphans, fatal>>

-----------------------------------------------------------------------------
(* mixer_destroy *)

\* A running mixer is taken; a reservation is taken away; else nothing happens.
DestroyRunning(c) ==
    /\ slot.is = "running"
    /\ Begins(c, "stopping")
    /\ holds' = [holds EXCEPT ![c] = slot.mixer]
    /\ slot' = Is("stopping")
    /\ UNCHANGED <<alive, orphans, fatal, robbed>>

DestroyReserved(c) ==
    /\ slot.is = "initializing"
    /\ Begins(c, "idle")
    /\ slot' = Is("empty")
    /\ robbed' = robbed \cup Reserving
    /\ UNCHANGED <<holds, alive, orphans, fatal>>

DestroyNothing(c) ==
    /\ slot.is \in {"empty", "stopping"}
    /\ Begins(c, "idle")
    /\ UNCHANGED <<slot, holds, alive, orphans, fatal, robbed>>

\* `stop` is set, the threads are joined for two seconds at most, the mixer is
\* dropped and the slot is empty again.
DestroyEnds(c) ==
    /\ Goes(c, "stopping", "resetting")
    /\ orphans' = orphans \cup {holds[c]}
    /\ holds' = [holds EXCEPT ![c] = Nothing]
    /\ slot' = Is("empty")
    /\ UNCHANGED <<uses, alive, fatal, robbed>>

ResetForDestroy(c) ==
    /\ Goes(c, "resetting", "idle")
    /\ fatal' = Nothing
    /\ UNCHANGED <<slot, uses, holds, alive, orphans, robbed>>

-----------------------------------------------------------------------------
(* The render threads *)

\* A closed command channel, `stop` or FATAL ends the loop.
Stoppable == {m \in alive : m \in orphans \/ fatal # Nothing
                                \/ \E c \in Callers : at[c] = "stopping" /\ holds[c] = m}
RenderEnds(m) ==
    /\ m \in Stoppable
    /\ alive' = alive \ {m}
    /\ UNCHANGED <<slot, at, uses, holds, orphans, fatal, robbed>>

\* mark_fatal, by a panic on a thread of the mixer m.
RenderPanics(m) ==
    /\ m \in alive
    /\ fatal = Nothing
    /\ fatal' = m
    /\ alive' = alive \ {m}
    /\ UNCHANGED <<slot, at, uses, holds, orphans, robbed>>

CycleInit ==
    /\ slot = Is("empty")
    /\ at = [c \in Callers |-> "idle"]
    /\ uses = [c \in Callers |-> 0]
    /\ holds = [c \in Callers |-> Nothing]
    /\ alive = {} /\ orphans = {} /\ robbed = {}
    /\ fatal = Nothing

Inside(c) ==
    \/ ResetForCreate(c) \/ Start(c) \/ StartFails(c)
    \/ Commit(c) \/ CommitRefused(c) \/ Abort(c)
    \/ DestroyEnds(c) \/ ResetForDestroy(c)

CycleNext ==
    \/ \E c \in Callers : Reserve(c) \/ ReserveRefused(c)
    \/ \E c \in Callers : DestroyRunning(c) \/ DestroyReserved(c) \/ DestroyNothing(c)
    \/ \E c \in Callers : Inside(c)
    \/ \E m \in Callers \X Uses : RenderEnds(m) \/ RenderPanics(m)

\* A call that has begun goes on and a thread that may end does.
CycleFairness ==
    /\ \A c \in Callers : WF_cycleVars(Inside(c))
    /\ \A m \in Callers \X Uses : WF_cycleVars(RenderEnds(m))

CycleSpec == CycleInit /\ [][CycleNext]_cycleVars /\ CycleFairness

-----------------------------------------------------------------------------
(* Properties *)

\* A create whose reservation a destroy took away does not leave its mixer in
\* the slot - it is told ERR_ALREADY_CREATED - unless another create has
\* reserved the slot since and has not come to its end: it then uses that
\* create's reservation.
RobbedCreatesLeaveNothing ==
    [][\A c \in robbed : slot'.is = "running" /\ slot' # slot /\ slot'.mixer = Mine(c)
          => \E d \in Callers \ {c} : at[d] \in {"reserved", "starting", "started", "aborting"}]_cycleVars

\* No mixer is left running that nobody can stop: when the calls are over, the
\* only threads at work are those of the mixer in the slot.
NobodyRunsAlone ==
    <>[](\A m \in alive : slot = [is |-> "running", mixer |-> m])
=============================================================================
