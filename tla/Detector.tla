------------------------------- MODULE Detector -------------------------------
(***************************************************************************)
(* detect_image and detect_video of the detectors.  An image goes to the   *)
(* model once.  Of a video, every Interval-th frame does until MaxFrames   *)
(* of them have; then overlapping detections are removed greedily, class   *)
(* by class.  The same code stands in three files.                         *)
(* Source: server_pc/app/detector.py, edge_raspberry/app/detector.py,      *)
(* server_pc/app/roboflow_detector.py                                      *)
(*                                                                         *)
(* What the model finds is a choice.  A detector is local, or the hosted   *)
(* workflow that answers with centres or with corners.  That a model call  *)
(* raises, and the whole analysis with it, is in ServerAnalysis.           *)
(***************************************************************************)
EXTENDS BoxGeometry, Sequences, FiniteSets

CONSTANTS Interval, MaxFrames,  \* _frame_sample_interval, _max_frames_per_video
          Cap,                  \* _max_detections_per_class
          Threshold,            \* _conf_threshold
          Num, Den,             \* _dedup_iou_threshold is Num / Den
          Prediction,           \* what a model may find
          NoCategory,           \* category of classes that have none
          MaxLength, MaxFound   \* bounds: frames of a video, detections in it

ASSUME DetectorAssumption ==
  /\ Interval \in Nat \ {0} /\ MaxFrames \in Nat /\ Cap \in Nat
  /\ Threshold \in Nat /\ Num \in Nat /\ Den \in Nat \ {0}
  /\ \A p \in Prediction : p.confidence \in Nat /\ p.raw \in RawBox
  /\ MaxLength \in Nat /\ MaxFound \in Nat

VARIABLES
  media,      \* image or video
  source,     \* local, centres, corners
  sized,      \* the image's size is known: from the image, the video file's
              \* metadata, or the response
  phase,      \* reading, detecting, deduplicating, done
  frame,      \* frame_idx
  processed,  \* processed_count
  found,      \* all_detections
  todo,       \* positions in found that _deduplicate has not looked at
  kept        \* positions of its result

vars == <<media, source, sized, phase, frame, processed, found, todo, kept>>

Detection == [prediction : Prediction, box : Box, sized : BOOLEAN, frame : Nat]
Position == 1..Len(found)
Category(i) == found[i].prediction.category
Confidence(i) == found[i].prediction.confidence
Kept == {kept[n] : n \in 1..Len(kept)}

TypeOK ==
  /\ media \in {"image", "video"}
  /\ source \in {"local", "centres", "corners"}
  /\ sized \in BOOLEAN
  /\ phase \in {"reading", "detecting", "deduplicating", "done"}
  /\ frame \in 0..MaxLength
  /\ processed \in 0..Larger(1, MaxFrames)
  /\ found \in Seq(Detection) /\ Len(found) <= MaxFound
  /\ todo \subseteq Position
  /\ kept \in Seq(Position)
  /\ phase \in {"reading", "detecting"} => todo = {} /\ kept = <<>>
  /\ phase = "done" => todo = {}

Init ==
  /\ media \in {"image", "video"}
  /\ source \in {"local", "centres", "corners"}
  /\ IF media = "image" /\ source = "local" THEN sized = TRUE ELSE sized \in BOOLEAN
  /\ phase = IF media = "image" THEN "detecting" ELSE "reading"
  /\ frame = 0 /\ processed = 0
  /\ found = <<>> /\ todo = {} /\ kept = <<>>

-------------------------------------------------------------------------------
(* The sampling loop *)

(* Mutant: one frame more than the cap. *)
MoreOrEqual == phase = "reading" /\ processed <= MaxFrames

More == phase = "reading" /\ processed < MaxFrames

SkipFrame ==
  /\ More /\ frame < MaxLength
  /\ frame % Interval # 0
  /\ frame' = frame + 1
  /\ UNCHANGED <<media, source, sized, phase, processed, found, todo, kept>>

SampleFrame ==
  /\ More /\ frame < MaxLength
  /\ frame % Interval = 0
  /\ phase' = "detecting"
  /\ sized' \in IF source = "local" THEN {sized} ELSE BOOLEAN
  /\ UNCHANGED <<media, source, frame, processed, found, todo, kept>>

(* The hosted answers are not compared with the threshold again. *)
Accepts(p) ==
  /\ source = "local" => p.confidence >= Threshold
  /\ p.category # NoCategory

BoxOf(p) == IF source = "centres" THEN FromCentre(p.raw, sized) ELSE Normalize(p.raw, sized)

(* One item of the model's answer; those that are not accepted are skipped. *)
Detect(p) ==
  /\ phase = "detecting" /\ Len(found) < MaxFound
  /\ Accepts(p)
  /\ found' = Append(found, [prediction |-> p, box |-> BoxOf(p), sized |-> sized, frame |-> frame])
  /\ UNCHANGED <<media, source, sized, phase, frame, processed, todo, kept>>

(* Mutant: a frame without detections does not count as processed. *)
FrameDoneIfFound ==
  /\ phase = "detecting" /\ media = "video"
  /\ phase' = "reading"
  /\ frame' = frame + 1
  /\ processed' = IF \E i \in Position : found[i].frame = frame
                    THEN processed + 1 ELSE processed
  /\ UNCHANGED <<media, source, sized, found, todo, kept>>

FrameDone ==
  /\ phase = "detecting" /\ media = "video"
  /\ phase' = "reading"
  /\ frame' = frame + 1
  /\ processed' = processed + 1
  /\ UNCHANGED <<media, source, sized, found, todo, kept>>

(* An image's detections are returned as they are. *)
ImageDone ==
  /\ phase = "detecting" /\ media = "image"
  /\ phase' = "done"
  /\ processed' = 1
  /\ kept' = [i \in Position |-> i]
  /\ UNCHANGED <<media, source, sized, frame, found, todo>>

(* No frame is left or none can be decoded, or enough have been processed. *)
LoopEnds ==
  /\ phase = "reading"
  /\ phase' = "deduplicating"
  /\ todo' = Position
  /\ UNCHANGED <<media, source, sized, frame, processed, found, kept>>

-------------------------------------------------------------------------------
(***************************************************************************)
(* _deduplicate: classes in the order they first occur; within a class by  *)
(* falling confidence, equal ones in the order they were found             *)
(***************************************************************************)
First(c) == CHOOSE i \in Position : Category(i) = c /\ \A j \in Position : Category(j) = c => i <= j

Ahead(i, j) ==
  \/ Confidence(i) > Confidence(j)
  \/ Confidence(i) = Confidence(j) /\ i < j

(* Mutant: detections are taken as they were found. *)
TakenAsFound(i, j) ==
  \/ First(Category(i)) < First(Category(j))
  \/ Category(i) = Category(j) /\ i < j

TakenBefore(i, j) ==
  \/ First(Category(i)) < First(Category(j))
  \/ Category(i) = Category(j) /\ Ahead(i, j)

IsNext(i) == i \in todo /\ \A j \in todo \ {i} : TakenBefore(i, j)

Rivals(i) == {k \in Kept : Category(k) = Category(i)}
Duplicates(i, k) == OverlapExceeds(found[i].box, found[k].box, Num, Den)

ClassFull(i) ==
  /\ phase = "deduplicating" /\ IsNext(i)
  /\ Cardinality(Rivals(i)) >= Cap
  /\ todo' = {j \in todo : Category(j) # Category(i)}
  /\ UNCHANGED <<media, source, sized, phase, frame, processed, found, kept>>

DropDuplicate(i) ==
  /\ phase = "deduplicating" /\ IsNext(i)
  /\ Cardinality(Rivals(i)) < Cap
  /\ \E k \in Rivals(i) : Duplicates(i, k)
  /\ todo' = todo \ {i}
  /\ UNCHANGED <<media, source, sized, phase, frame, processed, found, kept>>

Keep(i) ==
  /\ phase = "deduplicating" /\ IsNext(i)
  /\ Cardinality(Rivals(i)) < Cap
  /\ \A k \in Rivals(i) : ~Duplicates(i, k)
  /\ todo' = todo \ {i}
  /\ kept' = Append(kept, i)
  /\ UNCHANGED <<media, source, sized, phase, frame, processed, found>>

Return ==
  /\ phase = "deduplicating" /\ todo = {}
  /\ phase' = "done"
  /\ UNCHANGED <<media, source, sized, frame, processed, found, todo, kept>>

Next ==
  \/ SkipFrame \/ SampleFrame \/ FrameDone \/ ImageDone \/ LoopEnds \/ Return
  \/ \E p \in Prediction : Detect(p)
  \/ \E i \in Position : ClassFull(i) \/ DropDuplicate(i) \/ Keep(i)

Spec == Init /\ [][Next]_vars
-------------------------------------------------------------------------------
(***************************************************************************)
(* The frames that were sampled are 0, Interval, 2 * Interval, ..., as     *)
(* many as the counter says and none left out, whether or not anything was *)
(* found in them, and detections come in the order of their frames.  The   *)
(* counter becomes the result's frame_count, and reading ends right after  *)
(* the last sample (detector.py:300-325).                                  *)
(***************************************************************************)
SamplesEvenly ==
  media = "video" =>
    /\ processed = IF phase = "detecting" THEN frame \div Interval
                   ELSE (frame + Interval - 1) \div Interval
    /\ MaxFrames > 0 => frame <= (MaxFrames - 1) * Interval + 1
    /\ \A i \in Position :
         /\ found[i].frame % Interval = 0
         /\ found[i].frame <= frame
         /\ \A j \in 1..(i - 1) : found[j].frame <= found[i].frame

(***************************************************************************)
(* Deduplication does what a definition without an order of steps says: a  *)
(* detection is kept exactly if fewer than Cap better ones of its class    *)
(* are and it overlaps none of those.  A class cut short at its cap gives  *)
(* up nothing that should have stayed, ties go to the earlier one, and the *)
(* result lists classes as they first occurred (detector.py:459-489).      *)
(***************************************************************************)
BetterKept(i) == {k \in Rivals(i) : Ahead(k, i)}

KeptIsGreedy ==
  media = "video" =>
    /\ \A i \in Position \ todo :
         phase \in {"deduplicating", "done"} =>
           (i \in Kept <=> /\ Cardinality(BetterKept(i)) < Cap
                           /\ \A k \in BetterKept(i) : ~Duplicates(i, k))
    /\ \A m, n \in 1..Len(kept) :
         m < n => \/ First(Category(kept[m])) < First(Category(kept[n]))
                  \/ Category(kept[m]) = Category(kept[n]) /\ Ahead(kept[m], kept[n])

(***************************************************************************)
(* What the model saw is in the result and its crop shows it, half a pixel *)
(* aside: the box may reach too far to the right or down, by the part that *)
(* lies outside the image on the other side (bbox.py:26-29), never short   *)
(* of the fault.  A detection was dropped for a better one that shows the  *)
(* same part of the image, unless one of them starts outside it, or for a  *)
(* full class.  Boxes need the image's size, and centres of the hosted     *)
(* workflow an extent of more than a pixel (bbox.py:23,                    *)
(* roboflow_workflow_client.py:458).                                       *)
(***************************************************************************)
Measured(i) ==
  /\ found[i].sized
  /\ source = "centres" => InPixels(found[i].prediction.raw, TRUE)

Raw(i) == found[i].prediction.raw
Left(i) == Clamp(Raw(i).x1, Width * Scale)
Right(i) == Clamp(Raw(i).x2, Width * Scale)
Top(i) == Clamp(Raw(i).y1, Height * Scale)
Bottom(i) == Clamp(Raw(i).y2, Height * Scale)
StartsOutside(i) ==
  \/ Raw(i).x1 < 0 \/ Raw(i).x1 >= Width * Scale
  \/ Raw(i).y1 < 0 \/ Raw(i).y1 >= Height * Scale

(* From and to are where a side of the fault starts and ends in the image, *)
(* outside is how much of it lies before the image.                        *)
Covers(first, last, from, to, outside) ==
  /\ 2 * first * Scale <= 2 * from + Scale
  /\ 2 * last * Scale >= 2 * to - Scale
  /\ 2 * last * Scale <= 2 * (to + outside) + Scale

CropShows(i) ==
  LET c == Crop(found[i].box)
  IN IF NoPixels(c)
       THEN Right(i) - Left(i) <= Scale \/ Bottom(i) - Top(i) <= Scale
       ELSE /\ Covers(c.x1, c.x2, Left(i), Right(i), Larger(0, -Raw(i).x1))
            /\ Covers(c.y1, c.y2, Top(i), Bottom(i), Larger(0, -Raw(i).y1))

SameSpot(i, k) ==
  /\ Left(i) < Right(k) /\ Left(k) < Right(i)
  /\ Top(i) < Bottom(k) /\ Top(k) < Bottom(i)

FaultsStayVisible ==
  phase = "done" =>
    \A i \in Position : Measured(i) =>
      \/ i \in Kept /\ CropShows(i)
      \/ media = "video" /\ Cardinality(Rivals(i)) = Cap
      \/ \E k \in BetterKept(i) :
           SameSpot(i, k) \/ StartsOutside(i) \/ StartsOutside(k) \/ ~Measured(k)
===============================================================================
