-------------------------- MODULE MCServerPipeline --------------------------
(* Instances of ServerPipeline for TLC. *)
EXTENDS ServerPipeline, TLC

CONSTANTS good, bad, alien, garbled,           \* jobs
          disp, img, img2, vid                 \* consumer threads

MCMedia == [j \in Job |-> IF j = bad THEN "video" ELSE "image"]
MCKind == [j \in Job |->
             CASE j = good -> "valid" [] j = bad -> "invalid"
               [] j = alien -> "foreign" [] j = garbled -> "malformed"]
MCSubscription == [w \in Consumer |->
                     CASE w = disp -> "ingress" [] w = vid -> "video"
                       [] OTHER -> "image"]
=============================================================================
