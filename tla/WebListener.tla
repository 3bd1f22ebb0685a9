------------------------------ MODULE WebListener ------------------------------
(***************************************************************************)
(* The HTTP listener of the vMix-compatible API (mixer/src/vmix_api.rs):   *)
(* the worker thread that answers requests, and the calls that stop it and *)
(* start another one with new settings.                                    *)
(*                                                                         *)
(* A publish calls `configure` and a Shutdown calls `suspend` while they   *)
(* hold the mutex of the control service; mixer_api_configure and          *)
(* mixer_destroy of the C ABI make the same calls without it.  The worker  *)
(* takes the mutex for every function it is asked for.                     *)
(*                                                                         *)
(* Each section of the slot's lock is one step.  What a request asks for,  *)
(* its answer and the document are left out; so is the TCP listener, whose *)
(* threads have a stop flag each.                                          *)
(***************************************************************************)
EXTENDS Naturals

CONSTANTS
    Publishers,        \* callers that hold the service's mutex
    Hosts,          \* callers that do not
    Settings,       \* what `configure` may be asked for: [port, user]
    NoApi,            \* `configure` with the API disabled
    Suspend,        \* `suspend`
    Nobody,
    MaxConfigures   \* bound: calls of a behaviour

WebCallers == Publishers \cup Hosts

\* A worker is named by the number of its spawn.
Workers == 1..MaxConfigures

ASSUME WebAssumption ==
    /\ MaxConfigures \in Nat
    /\ Publishers \cap Hosts = {}
    /\ Nobody \notin WebCallers /\ \A w \in Workers : w # Nobody
    /\ {NoApi, Suspend} \cap Settings = {} /\ NoApi # Suspend
    /\ \A s \in Settings : s.port \in Nat \ {0}

VARIABLES
    control,     \* who holds the service's mutex; a worker lets it go in the same step
    slot,        \* ApiState: settings, port of the server (0: none), join
    stop,        \* ApiState::stop, the one flag that all workers read
    worker,      \* per worker: where it is, its settings and the port it reads from
    calling,     \* per caller: where it is, what for, and the thread it joins
    configured,  \* calls so far
    raced        \* two calls were under way at once

webVars == <<control, slot, stop, worker, calling, configured, raced>>

NotCalling == [at |-> "idle"]
NotSpawned == [at |-> "none"]

WebInit ==
    /\ control = Nobody
    /\ slot = [settings |-> NoApi, port |-> 0, join |-> Nobody]
    /\ stop = FALSE
    /\ worker = [w \in Workers |-> NotSpawned]
    /\ calling = [c \in WebCallers |-> NotCalling]
    /\ configured = 0
    /\ raced = FALSE

-----------------------------------------------------------------------------
(* configure and suspend                                                    *)

Busy(c) == calling[c] # NotCalling

Enters(c, want) ==
    /\ ~Busy(c)
    /\ configured < MaxConfigures
    /\ configured' = configured + 1
    /\ IF c \in Publishers THEN control = Nobody /\ control' = c ELSE UNCHANGED control
    /\ calling' = [calling EXCEPT ![c] = [at |-> "take", want |-> want, thread |-> Nobody]]
    /\ raced' = (raced \/ \E d \in WebCallers : Busy(d))
    /\ UNCHANGED <<slot, stop, worker>>

At(c, place) == Busy(c) /\ calling[c].at = place

Goes(c, place) == calling' = [calling EXCEPT ![c].at = place]

\* The call is over, and with it the section of the mutex it was in.
Leaves(c) ==
    /\ calling' = [calling EXCEPT ![c] = NotCalling]
    /\ control' = IF c \in Publishers THEN Nobody ELSE control

\* stop_worker, under the slot's lock: the thread to join is taken.
TakeThread(c) ==
    /\ At(c, "take")
    /\ calling' = [calling EXCEPT ![c].at = "raise", ![c].thread = slot.join]
    /\ slot' = [slot EXCEPT !.join = Nobody]
    /\ UNCHANGED <<control, stop, worker, configured, raced>>

\* Mutant: the worker is woken up, but not told to stop.
MutantRaise(c) ==
    /\ At(c, "raise")
    /\ Goes(c, "join")
    /\ UNCHANGED <<control, slot, stop, worker, configured, raced>>

\* The flag is raised and the worker woken up.
Raise(c) ==
    /\ At(c, "raise")
    /\ stop' = TRUE
    /\ Goes(c, "join")
    /\ UNCHANGED <<control, slot, worker, configured, raced>>

Gone(w) == w \in {Nobody} \cup {v \in Workers : worker[v].at = "gone"}

\* The thread has ended; the flag is lowered for the next one.
Joined(c) ==
    /\ At(c, "join")
    /\ Gone(calling[c].thread)
    /\ stop' = FALSE
    /\ IF calling[c].want = Suspend THEN Leaves(c) ELSE Goes(c, "install") /\ UNCHANGED control
    /\ UNCHANGED <<slot, worker, configured, raced>>

\* A worker that no call has joined may still own a port.
Taken(port) == \E w \in Workers : worker[w].at \notin {"none", "gone"} /\ worker[w].port = port

Newest == {w \in Workers : worker[w].at = "none" /\ \A v \in Workers : v < w => worker[v].at # "none"}

Disabled == [settings |-> NoApi, port |-> 0, join |-> slot.join]

\* The server is listening: a worker for it.
SpawnWorker(want) ==
    \E w \in Newest :
        /\ worker' = [worker EXCEPT ![w] = [at |-> "poll", settings |-> want, port |-> want.port]]
        /\ slot' = [settings |-> want, port |-> want.port, join |-> w]

\* The rest of configure, under the slot's lock.  A server on the same port goes
\* on and another is bound, unless a worker of ours has that port; the bind or
\* the spawn may fail for reasons of its own.
Serves(want) == want # NoApi /\ (slot.port = want.port \/ ~Taken(want.port)) /\ SpawnWorker(want)

GivesUp == slot' = Disabled /\ UNCHANGED worker

Install(c) ==
    /\ At(c, "install")
    /\ Serves(calling[c].want) \/ GivesUp
    /\ Leaves(c)
    /\ UNCHANGED <<stop, configured, raced>>

-----------------------------------------------------------------------------
(* The worker                                                               *)

\* The head of its loop.
Poll(w) ==
    /\ worker[w].at = "poll"
    /\ worker' = [worker EXCEPT ![w].at = IF stop THEN "gone" ELSE "receive"]
    /\ UNCHANGED <<control, slot, stop, calling, configured, raced>>

\* A timeout, a wake-up or a request that needs nobody; or a function, for which
\* execute_live waits for the mutex as long as it takes.
Receive(w) ==
    /\ worker[w].at = "receive"
    /\ \E next \in {"poll", "ask"} : worker' = [worker EXCEPT ![w].at = next]
    /\ UNCHANGED <<control, slot, stop, calling, configured, raced>>

\* The function runs under the mutex.
Perform(w) ==
    /\ worker[w].at = "ask"
    /\ control = Nobody
    /\ worker' = [worker EXCEPT ![w].at = "poll"]
    /\ UNCHANGED <<control, slot, stop, calling, configured, raced>>

Continues(c) == TakeThread(c) \/ Raise(c) \/ Joined(c) \/ Install(c)

Works(w) == Poll(w) \/ Receive(w) \/ Perform(w)

WebNext ==
    \/ \E c \in WebCallers :
          \/ \E want \in Settings \cup {NoApi, Suspend} : Enters(c, want)
          \/ Continues(c)
    \/ \E w \in Workers : Works(w)

WebSpec == WebInit /\ [][WebNext]_webVars

-----------------------------------------------------------------------------

Alive == {w \in Workers : worker[w].at \notin {"none", "gone"}}

\* After any calls, as long as no two of them overlapped, the API is served with
\* the settings of the last one and on its port, by one worker, and not at all
\* once it is disabled, suspended or could not be started (configure).
LastSettingsServe ==
    ~raced /\ (\A c \in WebCallers : ~Busy(c)) =>
        /\ Alive = {slot.join} \ {Nobody}
        /\ \A w \in Alive : worker[w].settings = slot.settings /\ worker[w].port = slot.settings.port

\* The caller joins a worker that waits for what the caller holds.
Entangled(c) ==
    /\ At(c, "join")
    /\ control = c
    /\ ~Gone(calling[c].thread) /\ worker[calling[c].thread].at = "ask"

\* A worker that a call waits for has been told to stop and will not be told
\* otherwise before it is gone (stop_worker); else the call would never return.
\* Two calls at once share the flag: the second lowers it under the first.
JoinIsHeard ==
    ~raced => \A c \in WebCallers :
        At(c, "join") /\ ~Gone(calling[c].thread) => stop

\* The listener does what it was told, and hears it.
ListenerObeys == LastSettingsServe /\ JoinIsHeard

\* "The worker may itself be waiting on the slot lock, so joining must happen
\* outside it" (vmix_api.rs, stop_worker): a caller that joins the worker holds
\* nothing that the worker waits for.
JoinsWithFreeHands == \A c \in WebCallers : ~Entangled(c)
=============================================================================
