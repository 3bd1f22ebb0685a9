---------------------------- MODULE MCVideoTrigger ----------------------------
(* Three scenes, so that Program, Preview and a held picture can all differ, two
   overlays that may show the same of two more, and a clip in one of them.    *)
EXTENDS VideoTrigger

CONSTANTS s1, s2, s3, o1, o2, p1, p2

MCSources == {s1, s2, s3}
MCOverlays == {o1, o2}
MCPictures == {p1, p2}
MCNoOverlays == {}
MCOnePicture == {p1}
MCPlaces == {{s1}, {s2}, {s3}, {p1}}
MCTriggers == {[play |-> "OnActive", restart |-> "OnActive", pause |-> "OnDeactivated"],
               [play |-> "Always", restart |-> "OnPreview", pause |-> "OnActive"]}
=============================================================================
