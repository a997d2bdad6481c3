------------------------------ MODULE MCDetector -----------------------------
(* An instance of Detector for TLC: an image of 4 by 2 pixels in half      *)
(* pixels, and boxes that lie inside it, start or end outside it, are less *)
(* than a pixel wide, or overlap by just the threshold or more.            *)
EXTENDS Detector

CONSTANTS crack, rust, none   \* categories

Corners(x1, y1, x2, y2) == [x1 |-> x1, y1 |-> y1, x2 |-> x2, y2 |-> y2]

Found(c, n, r) == [category |-> c, confidence |-> n, raw |-> r]

MCPrediction ==
  {Found(crack, 3, r) : r \in {Corners(0, 0, 4, 4), Corners(-5, 1, 1, 4)}}
    \cup {Found(crack, 2, r) : r \in {Corners(1, 0, 5, 4), Corners(0, 0, 4, 2),
                                      Corners(1, 1, 6, 4), Corners(4, -1, 11, 4)}}
    \cup {Found(rust, 2, r) : r \in {Corners(3, 1, 4, 2), Corners(3, 0, 7, 3),
                                     Corners(8, 1, 12, 3)}}
    \cup {Found(rust, 1, Corners(0, 0, 4, 4)), Found(none, 3, Corners(0, 0, 4, 4))}
==============================================================================
