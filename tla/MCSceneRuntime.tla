--------------------------- MODULE MCSceneRuntime ---------------------------
(* SceneRuntime on a scene of two layers and a camera, with two states that
   share a layer and two sequences that compete for it. *)
EXTENDS SceneRuntime, TLC

CONSTANTS lower, upper, lens

MCLayers == {lower, upper}
MCLayouts == {(lower :> 0) @@ (upper :> 0), (lower :> 4) @@ (upper :> 0), (upper :> 0)}
MCCameras == {0, 4}

One == [to |-> (lower :> 8) @@ (lens :> 8), enter |-> 2]
Two == [to |-> (lower :> 2) @@ (upper :> 8), enter |-> 1]
MCStateSets == {(1 :> One) @@ (2 :> Two), (2 :> Two)}

Step(state, frames, hold) == [state |-> state, frames |-> frames, hold |-> hold]
Ping == <<Step(1, 0, 1), Step(2, 2, 0)>>
Pong == <<Step(2, 0, 0), Step(0, 0, 0)>>
MCSequenceSets == {(1 :> Ping) @@ (2 :> Pong), (2 :> Pong)}
=============================================================================
