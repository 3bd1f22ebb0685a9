------------------------------ MODULE MCSession ------------------------------
(* What a host keeps of a session, as three parts that are checked side by side:
   the document the service edits, the file it is saved to, and the media that
   clients upload.  A behaviour is of one part; the others stand still.        *)
EXTENDS SessionDocument, SessionFile, MediaUpload, TLC

VARIABLE part

Layer(id, input) == [id |-> id, input |-> input, shown |-> 1]
Input(kind, target, heard, level) ==
    [kind |-> kind, target |-> target, heard |-> heard, level |-> level]
State(id, keys, flat) == [id |-> id, keys |-> keys, flat |-> flat]
Unit(preview, program, onAir, gain) ==
    [preview |-> preview, program |-> program, onAir |-> onAir, gain |-> gain]

MCFirstDoc ==
    [inputs |-> (10 :> Input("video", 0, {1}, 1)) @@ (11 :> Input("video", 0, {1, 2}, 1)),
     scenes |-> (1 :> [layers |-> <<Layer(1, 10), Layer(2, 11)>>,
                       states |-> <<State(1, {1, 2}, {})>>,
                       steps |-> <<1>>])
             @@ (2 :> [layers |-> <<>>, states |-> <<>>, steps |-> <<>>]),
     units |-> (1 :> Unit(0, 1, {1}, 1)) @@ (2 :> Unit(0, 0, {}, 1)),
     overlays |-> {1},
     outputs |-> (1 :> 1),
     selected |-> 2,
     listen |-> [kind |-> "unit", id |-> 2],
     next |-> [input |-> 12, scene |-> 3, unit |-> 3, overlay |-> 2],
     odd |-> {}]

MCNewInputs == {Input("mix", 2, {1}, 1), Input("audio", 0, {}, 0)}
MCNewScenes ==
    {[layers |-> <<Layer(0, 11), Layer(2, 10), Layer(2, 11)>>,
      states |-> <<State(0, {2, 7}, {7}), State(1, {3}, {3})>>,
      steps |-> <<1, 2, 5>>]}
MCNewUnits == {Unit(2, 1, {1, 2}, 0)}
MCNewOutputs == {(1 :> 2), (1 :> 0) @@ (2 :> 1)}

MCInit == part \in {"document", "file", "media"} /\ DocInit /\ FileInit /\ Init

MCNext ==
    \/ part = "document" /\ DocNext /\ UNCHANGED <<fileVars, vars, part>>
    \/ part = "file" /\ FileNext /\ UNCHANGED <<docVars, vars, part>>
    \/ part = "media" /\ Next /\ UNCHANGED <<docVars, fileVars, part>>

\* No step that the fairness of an upload speaks of is enabled before a call.
MCSpec == MCInit /\ [][MCNext]_<<docVars, fileVars, vars, part>> /\ Fairness
=============================================================================
