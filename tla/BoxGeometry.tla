------------------------------ MODULE BoxGeometry -----------------------------
(***************************************************************************)
(* The arithmetic of bounding boxes: pixels to fractions of the image, the *)
(* overlap of two boxes, and the pixels cut out for a crop.                *)
(* Source: shared/utils/bbox.py, _prediction_bbox of                       *)
(* shared/services/roboflow_workflow_client.py, _crop_detection of         *)
(* shared/services/detection_artifacts.py                                  *)
(*                                                                         *)
(* A raw box has corners in units of 1/Scale pixel.  A fraction of the     *)
(* image's width is the same number in units of 1/(Width * Scale), so that *)
(* everything but Misread is integer arithmetic without a division.        *)
(***************************************************************************)
EXTENDS Integers

CONSTANTS Width, Height,  \* of the image, in pixels
          Scale           \* units per pixel

ASSUME GeometryAssumption ==
  /\ Width \in Nat \ {0} /\ Height \in Nat \ {0} /\ Scale \in Nat \ {0}

Larger(a, b) == IF a >= b THEN a ELSE b
Smaller(a, b) == IF a <= b THEN a ELSE b
Clamp(v, top) == Larger(0, Smaller(top, v))

RawBox == [x1 : Int, y1 : Int, x2 : Int, y2 : Int]
Box == [x : 0..Width * Scale, y : 0..Height * Scale,
        width : 0..Width * Scale, height : 0..Height * Scale]

EmptyBox == [x |-> 0, y |-> 0, width |-> 0, height |-> 0]

(* Mutant: the far corner is taken for the extent. *)
NormalizeFarCorner(r, sized) ==
  IF ~sized THEN EmptyBox
  ELSE [x |-> Clamp(r.x1, Width * Scale), y |-> Clamp(r.y1, Height * Scale),
        width |-> Clamp(r.x2, Width * Scale), height |-> Clamp(r.y2, Height * Scale)]

(* normalize_bbox: position and extent are clamped apart from each other.  *)
(* Without the image's size every box is empty.                            *)
Normalize(r, sized) ==
  IF ~sized THEN EmptyBox
  ELSE [x |-> Clamp(r.x1, Width * Scale), y |-> Clamp(r.y1, Height * Scale),
        width |-> Clamp(r.x2 - r.x1, Width * Scale),
        height |-> Clamp(r.y2 - r.y1, Height * Scale)]

(* A pixel coordinate taken for a fraction of the image. *)
Misread(r) ==
  [x |-> Clamp(r.x1 * Width, Width * Scale), y |-> Clamp(r.y1 * Height, Height * Scale),
   width |-> Clamp((r.x2 - r.x1) * Width, Width * Scale),
   height |-> Clamp((r.y2 - r.y1) * Height, Height * Scale)]

(* _prediction_bbox on centre and extent: numbers are pixels only if the   *)
(* response names the image's size and one extent is more than 1.          *)
InPixels(r, sized) == sized /\ (r.x2 - r.x1 > Scale \/ r.y2 - r.y1 > Scale)
FromCentre(r, sized) == IF InPixels(r, sized) THEN Normalize(r, sized) ELSE Misread(r)

(***************************************************************************)
(* calculate_iou(a, b) > num / den                                         *)
(***************************************************************************)
Common(a, aExtent, b, bExtent) ==
  Larger(0, Smaller(a + aExtent, b + bExtent) - Larger(a, b))

Intersection(a, b) ==
  Common(a.x, a.width, b.x, b.width) * Common(a.y, a.height, b.y, b.height)

Union(a, b) == a.width * a.height + b.width * b.height - Intersection(a, b)

OverlapExceeds(a, b, num, den) ==
  Union(a, b) > 0 /\ Intersection(a, b) * den > num * Union(a, b)

(***************************************************************************)
(* _crop_detection: Python rounds a half to the even pixel.                *)
(***************************************************************************)
Rounded(v) ==
  LET whole == v \div Scale
      rest == 2 * (v % Scale)
  IN IF rest < Scale \/ (rest = Scale /\ whole % 2 = 0) THEN whole ELSE whole + 1

Crop(b) ==
  [x1 |-> Clamp(Rounded(b.x), Width), x2 |-> Clamp(Rounded(b.x + b.width), Width),
   y1 |-> Clamp(Rounded(b.y), Height), y2 |-> Clamp(Rounded(b.y + b.height), Height)]

NoPixels(c) == c.x2 <= c.x1 \/ c.y2 <= c.y1
===============================================================================
