--------------------------- MODULE MCEdgePipeline ---------------------------
(* Instances of EdgePipeline for TLC. *)
EXTENDS EdgePipeline, TLC

CONSTANTS photo, clip, alien, garbled,         \* jobs
          disp, img, img2, vid                 \* consumer threads

MCMedia == [j \in Job |-> IF j = clip THEN "video" ELSE "image"]
MCKind == [j \in Job |->
             CASE j \in {photo, clip} -> "valid"
               [] j = alien -> "foreign" [] j = garbled -> "malformed"]
MCSubscription == [w \in Consumer |->
                     CASE w = disp -> "ingress" [] w = vid -> "video"
                       [] OTHER -> "image"]
=============================================================================
