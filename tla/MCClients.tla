------------------------------- MODULE MCClients -------------------------------
(* What a remote host does on its side of the connection: the fader coalescer,
   with two threads that drag two faders, and the view that follows the session
   among other clients.  They share no state: a behaviour is of one of them.  *)
EXTENDS MixCoalesce, MCControlSync, TLC

CONSTANTS c2, u1, u2, t1, t2

MCCallers == {c1, c2}
MCUnits == {u1, u2}
MCTasks == {t1, t2}

VARIABLE part

ClientsInit == part \in {"mix", "view"} /\ MixInit /\ SyncInit

ClientsNext ==
    \/ part = "mix" /\ MixNext /\ UNCHANGED <<allVars, part>>
    \/ part = "view" /\ SyncNext /\ UNCHANGED <<mixVars, part>>

\* No step that fairness is about is enabled before the first step of its part.
ClientsSpec ==
    /\ ClientsInit
    /\ [][ClientsNext]_<<mixVars, allVars, part>>
    /\ MixFairness /\ SyncFairness
=============================================================================
