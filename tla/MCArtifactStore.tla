--------------------------- MODULE MCArtifactStore --------------------------
(* Instances of ArtifactStore for TLC. *)
EXTENDS ArtifactStore

CONSTANTS w1, w2        \* workers

MCFrameOf == <<5, 5>>   \* two detections in one frame
=============================================================================
