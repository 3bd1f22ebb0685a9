----------------------------- MODULE MCMixingUnit -----------------------------
(* A unit by itself, and the same unit with a clip and the service's triggers. *)
EXTENDS MCVideoTrigger, TLC

VARIABLE part

MCInit == VideoInit /\ part \in {"unit", "overlays", "clip"} /\ (part # "clip" => clip.in = {p1} /\ FollowsProgram)

\* Next and VideoNext with the overlays of the document as they are.
UnitNext ==
    \/ Commands \/ Render \/ Repairs
    \/ \E list \in SUBSET {o1} : Publish(slots, list, FALSE)

ClipNext ==
    \/ TickVideo \/ Commanded \/ Refused \/ Rendered \/ RepairClip
    \/ \E on \in BOOLEAN : PlayByHand(on)
    \/ \E list \in SUBSET {o1}, moved, anew \in BOOLEAN : PublishClip(slots, list, moved, anew)

MCNext ==
    \/ part = "unit" /\ UnitNext /\ UNCHANGED <<videoVars, part>>
    \/ part = "overlays" /\ Next /\ UNCHANGED <<videoVars, part>>
    \/ part = "clip" /\ ClipNext /\ UNCHANGED part

MCSpec == MCInit /\ [][MCNext]_<<vars, videoVars, part>>

Symmetry == Permutations(MCSources)

InUse == ({bus.program, bus.preview, bus.frozen} \cup clip.in) \cap Sources

\* One overlay in use, and not a faint one.
OneOverlay == onAir \subseteq {o1} /\ \A o \in Overlays : slots[o] = [shows |-> p1, faint |-> FALSE]

ShortFades == \A p \in Pictures : fades[p].on => fades[p].left = 1

\* The buses with one overlay; the overlays with the buses at rest; the clip with
\* two scenes at a time, one overlay, and transitions and fades of one frame.
Explored ==
    /\ part = "unit" => OneOverlay
    /\ part = "overlays" => bus.mix = 0 /\ ~auto.on /\ bus.program = bus.preview
    /\ part = "clip" =>
          /\ OneOverlay
          /\ Cardinality(InUse) <= 2
          /\ auto.on => auto.left = 1
          /\ ShortFades
=============================================================================
