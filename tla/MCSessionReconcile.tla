------------------------- MODULE MCSessionReconcile -------------------------
(***************************************************************************)
(* The documents of two small installations.                               *)
(***************************************************************************)
EXTENDS SessionReconcile

CONSTANTS in1, o1, o2, o3, e1, e2, low, high

OneInput == <<in1>>
ThreeOutputs == <<o1, o2, o3>>
TwoEncoders == <<e1, e2>>

\* Each encoder has the number of an output.
StatusIds ==
    [i \in {in1, o1, o2, o3, e1, e2} |->
        CASE i = in1 -> "input 1"
          [] i = o1 -> "output 1"
          [] i \in {o2, e1} -> "output 2"
          [] i \in {o3, e2} -> "output 3"]

Dto(rtmp, enabled, cfg, enc) ==
    [rtmp |-> rtmp, enabled |-> enabled, cfg |-> cfg, encoder |-> enc]

\* A program output that stays NDI or OMT: at two settings, or switched off.
Outlets ==
    {Absent, Dto(FALSE, TRUE, low, Absent), Dto(FALSE, TRUE, high, Absent), Dto(FALSE, FALSE, low, Absent)}

OutletDoc(c, dto) ==
    [inputs   |-> [i \in {in1} |-> c],
     outputs  |-> [o \in {o1, o2, o3} |-> IF o = o1 THEN dto ELSE Absent],
     encoders |-> [e \in {e1, e2} |-> Absent]]

\* The file `low`, and another source with one of two qualities.
Sources == {[desired |-> low, rest |-> low], [desired |-> high, rest |-> low], [desired |-> high, rest |-> high]}

\* One input, alone or, when it plays the file, beside an output; and one output
\* without an input.  In one document the output is to stream to RTMP.
OutletDocs ==
    {OutletDoc(c, Absent) : c \in Sources}
      \cup {OutletDoc([desired |-> low, rest |-> low], Dto(FALSE, TRUE, low, Absent))}
      \cup {OutletDoc(Absent, dto) : dto \in Outlets}
      \cup {OutletDoc(Absent, Dto(TRUE, TRUE, low, e1))}

\* A destination that moves between two encoders and one that is switched.
StreamDoc(on, encoder, x, y) ==
    [inputs   |-> [i \in {in1} |-> Absent],
     outputs  |-> [o \in {o1, o2, o3} |->
                    CASE o = o1 -> Absent
                      [] o = o2 -> Dto(TRUE, TRUE, low, encoder)
                      [] o = o3 -> Dto(TRUE, on, low, e1)],
     encoders |-> [e \in {e1, e2} |-> IF e = e1 THEN x ELSE y]]

\* While the second destination is on, the encoder of both changes its profile,
\* or the encoder of the first goes.
StreamDocs ==
    {StreamDoc(on, e, low, low) : on \in BOOLEAN, e \in {e1, e2}}
      \cup {StreamDoc(TRUE, e1, high, low), StreamDoc(TRUE, e2, low, Absent)}

MCDocuments == OutletDocs \cup StreamDocs

VARIABLE installation

MCInit == ReconcileInit /\ installation \in {"outlets", "streams"}

\* The documents of one installation, from first to last.
MCNext ==
    /\ \/ \E next \in (IF installation = "outlets" THEN OutletDocs ELSE StreamDocs) : Attempt(next)
       \/ Destroy
       \/ installation = "outlets" /\ FilesChange
    /\ UNCHANGED installation

MCSpec == MCInit /\ [][MCNext]_<<reconcileVars, installation>>

\* Nothing is claimed of a mixer that an aborted first publish left something
\* in, so its further life is not explored.
Explored == ~last.stray
=============================================================================
