---------------------------- MODULE DetectorProofs ----------------------------
(***************************************************************************)
(* Proofs about Detector and the boxes it keeps, for images of any size,   *)
(* any predictions, interval, caps and thresholds.                         *)
(***************************************************************************)
EXTENDS Detector, FiniteSetTheorems, SequenceTheorems, WellFoundedInduction, TLAPS

(***************************************************************************)
(* Numbers                                                                 *)
(***************************************************************************)
LEMMA Least ==
  ASSUME NEW T, T \subseteq Nat, T # {}
  PROVE  \E x \in T : \A y \in T : x <= y
<1> DEFINE R == OpToRel(<, Nat)
<1>1. IsWellFoundedOn(R, Nat)
  BY NatLessThanWellFounded
<1>2. \A x, y \in Nat : y < x => <<y, x>> \in R
  BY DEF OpToRel
<1> HIDE DEF R
<1>3. PICK x \in T : \A y \in T : <<y, x>> \notin R
  BY <1>1, WFMin
<1>4. ASSUME NEW y \in T PROVE x <= y
  <2>1. x \in Nat /\ y \in Nat
    OBVIOUS
  <2>2. ~(y < x)
    BY <1>2, <1>3, <2>1
  <2> QED
    BY <2>1, <2>2
<1> QED
  BY <1>4

(* A quotient is known by its remainder. *)
LEMMA Division ==
  ASSUME NEW d \in Nat \ {0}, NEW n \in Int
  PROVE  /\ n \div d \in Int /\ n % d \in 0..(d - 1)
         /\ n = d * (n \div d) + (n % d)
OBVIOUS

LEMMA QuotientUnique ==
  ASSUME NEW d \in Nat \ {0}, NEW n \in Int, NEW q \in Int, NEW r \in 0..(d - 1), n = d * q + r
  PROVE  n \div d = q /\ n % d = r
<1> DEFINE p == n \div d
           s == n % d
<1>1. p \in Int /\ s \in 0..(d - 1) /\ n = d * p + s
  BY Division
<1> HIDE DEF p, s
<1>2. ASSUME NEW k \in Int PROVE k >= 1 => d * k >= d
  BY SMT
<1>3. d * (p - q) = r - s /\ d * (q - p) = s - r
  BY <1>1, SMT
<1>4. p - q >= 1 => FALSE
  BY <1>1, <1>2, <1>3
<1>5. q - p >= 1 => FALSE
  BY <1>1, <1>2, <1>3
<1>6. p = q
  BY <1>1, <1>4, <1>5
<1>7. r = s
  BY <1>1, <1>6
<1> QED
  BY <1>6, <1>7 DEF p, s
(***************************************************************************)
(* Type correctness                                                        *)
(***************************************************************************)
LEMMA Constants ==
  /\ Interval \in Nat \ {0} /\ MaxFrames \in Nat /\ Cap \in Nat
  /\ Num \in Nat /\ Den \in Nat \ {0}
  /\ MaxLength \in Nat /\ MaxFound \in Nat
  /\ \A p \in Prediction : p.raw \in RawBox /\ p.confidence \in Nat
BY DetectorAssumption DEF DetectorAssumption

LEMMA Image ==
  /\ Width \in Nat \ {0} /\ Height \in Nat \ {0} /\ Scale \in Nat \ {0}
  /\ Width * Scale \in Nat \ {0} /\ Height * Scale \in Nat \ {0}
BY GeometryAssumption DEF GeometryAssumption

LEMMA Clamped ==
  ASSUME NEW v \in Int, NEW top \in Nat
  PROVE  Clamp(v, top) \in 0..top
BY DEF Clamp, Larger, Smaller

LEMMA BoxType == ASSUME NEW p \in Prediction PROVE BoxOf(p) \in Box
<1> DEFINE r == p.raw
           w == Width * Scale
           h == Height * Scale
<1>1. /\ r.x1 \in Int /\ r.y1 \in Int /\ r.x2 \in Int /\ r.y2 \in Int
      /\ r.x2 - r.x1 \in Int /\ r.y2 - r.y1 \in Int
  <2>1. r \in RawBox
    BY Constants
  <2> HIDE DEF r
  <2> QED
    BY <2>1 DEF RawBox
<1>2. w \in Nat /\ h \in Nat /\ Width \in Nat /\ Height \in Nat
  BY Image
<1>3. EmptyBox \in Box
  BY <1>2 DEF EmptyBox, Box
<1>4. Normalize(r, sized) \in Box
  <2>1. /\ Clamp(r.x1, w) \in 0..w /\ Clamp(r.x2 - r.x1, w) \in 0..w
        /\ Clamp(r.y1, h) \in 0..h /\ Clamp(r.y2 - r.y1, h) \in 0..h
    <3> HIDE DEF r, w, h
    <3> QED
      BY <1>1, <1>2, Clamped
  <2> HIDE DEF r
  <2> QED
    BY <1>3, <2>1 DEF Normalize, Box
<1>5. Misread(r) \in Box
  <2>1. /\ r.x1 * Width \in Int /\ (r.x2 - r.x1) * Width \in Int
        /\ r.y1 * Height \in Int /\ (r.y2 - r.y1) * Height \in Int
    BY <1>1, <1>2
  <2>2. /\ Clamp(r.x1 * Width, w) \in 0..w /\ Clamp((r.x2 - r.x1) * Width, w) \in 0..w
        /\ Clamp(r.y1 * Height, h) \in 0..h /\ Clamp((r.y2 - r.y1) * Height, h) \in 0..h
    BY <1>2, <2>1, Clamped
  <2> HIDE DEF r
  <2> QED
    BY <2>2 DEF Misread, Box
<1> QED
  BY <1>4, <1>5 DEF BoxOf, FromCentre

(* Every sampled frame is within the video and its cap. *)
Sampling == phase = "detecting" /\ media = "video" => frame < MaxLength /\ processed < MaxFrames

TypeIInv == TypeOK /\ Sampling

LEMMA Caps ==
  /\ 0 \in 0..Larger(1, MaxFrames) /\ 1 \in 0..Larger(1, MaxFrames)
  /\ \A n \in 0..Larger(1, MaxFrames) : n < MaxFrames => n + 1 \in 0..Larger(1, MaxFrames)
BY Constants DEF Larger

LEMMA TypeInit == Init => TypeIInv
<1> SUFFICES ASSUME Init PROVE TypeIInv
  OBVIOUS
<1>1. sized \in BOOLEAN
  BY Zenon DEF Init
<1>2. TypeOK
  BY <1>1, Caps, Constants DEF Init, TypeOK, Position
<1> QED
  BY <1>2 DEF Init, TypeIInv, Sampling

LEMMA DetectType == ASSUME TypeIInv, NEW p \in Prediction, Detect(p) PROVE TypeIInv'
<1> DEFINE d == [prediction |-> p, box |-> BoxOf(p), sized |-> sized, frame |-> frame]
<1>1. d \in Detection
  BY BoxType, Constants DEF TypeIInv, TypeOK, Detection
<1> HIDE DEF d
<1>2. found' = Append(found, d)
  BY DEF Detect, d
<1>3. found' \in Seq(Detection) /\ Len(found') = Len(found) + 1 /\ Len(found) \in Nat
  BY <1>1, <1>2 DEF TypeIInv, TypeOK
<1>4. todo' = {} /\ kept' = <<>> /\ phase' = "detecting"
  BY DEF Detect, TypeIInv, TypeOK
<1>5. TypeOK'
  BY <1>3, <1>4, Constants DEF Detect, TypeIInv, TypeOK
<1> QED
  BY <1>5 DEF Detect, TypeIInv, Sampling

LEMMA ReadingType ==
  ASSUME TypeIInv, SkipFrame \/ SampleFrame \/ FrameDone \/ LoopEnds
  PROVE  TypeIInv'
<1>1. UNCHANGED <<media, source, found, kept>> /\ Position' = Position
  BY DEF SkipFrame, SampleFrame, FrameDone, LoopEnds, Position
<1>2. sized' \in BOOLEAN
  BY Zenon DEF SkipFrame, SampleFrame, FrameDone, LoopEnds, TypeIInv, TypeOK
<1>3. frame' \in 0..MaxLength
  BY Constants DEF SkipFrame, SampleFrame, FrameDone, LoopEnds, TypeIInv, TypeOK, Sampling
<1>4. processed' \in 0..Larger(1, MaxFrames)
  BY Caps DEF SkipFrame, SampleFrame, FrameDone, LoopEnds, TypeIInv, TypeOK, Sampling
<1>5. /\ phase' \in {"reading", "detecting", "deduplicating"}
      /\ todo' \subseteq Position
      /\ phase' # "deduplicating" => todo' = {} /\ kept' = <<>>
  BY DEF More, SkipFrame, SampleFrame, FrameDone, LoopEnds, TypeIInv, TypeOK
<1>6. TypeOK'
  BY <1>1, <1>2, <1>3, <1>4, <1>5 DEF TypeIInv, TypeOK
<1>7. Sampling'
  BY DEF More, SkipFrame, SampleFrame, FrameDone, LoopEnds, TypeIInv, Sampling
<1> QED
  BY <1>6, <1>7 DEF TypeIInv

LEMMA ImageType == ASSUME TypeIInv, ImageDone PROVE TypeIInv'
<1>1. kept' \in Seq(Position) /\ Position' = Position
  <2>1. Len(found) \in Nat
    BY DEF TypeIInv, TypeOK
  <2> QED
    BY <2>1 DEF ImageDone, Position
<1>2. TypeOK'
  BY <1>1, Caps DEF ImageDone, TypeIInv, TypeOK
<1> QED
  BY <1>2 DEF ImageDone, TypeIInv, Sampling

LEMMA DeduplicateType ==
  ASSUME TypeIInv, NEW i \in Position, ClassFull(i) \/ DropDuplicate(i) \/ Keep(i)
  PROVE  TypeIInv'
<1>1. /\ UNCHANGED <<media, source, sized, phase, frame, processed, found>>
      /\ phase = "deduplicating" /\ todo' \subseteq todo /\ Position' = Position
  BY DEF ClassFull, DropDuplicate, Keep, Position
<1>2. kept' \in Seq(Position)
  <2>1. kept' = kept \/ kept' = Append(kept, i)
    BY DEF ClassFull, DropDuplicate, Keep
  <2>2. kept \in Seq(Position)
    BY DEF TypeIInv, TypeOK
  <2> QED
    BY <2>1, <2>2
<1>3. TypeOK'
  BY <1>1, <1>2 DEF TypeIInv, TypeOK
<1> QED
  BY <1>1, <1>3 DEF TypeIInv, Sampling

LEMMA TypeNext == TypeIInv /\ [Next]_vars => TypeIInv'
<1> SUFFICES ASSUME TypeIInv, [Next]_vars PROVE TypeIInv'
  OBVIOUS
<1>1. CASE Return
  BY <1>1 DEF Return, TypeIInv, TypeOK, Sampling, Position
<1>2. CASE UNCHANGED vars
  BY <1>2 DEF vars, TypeIInv, TypeOK, Sampling, Position
<1> QED
  BY <1>1, <1>2, ReadingType, ImageType, DetectType, DeduplicateType DEF Next

(* Type correctness: no frame beyond the video and its cap is sampled, all *)
(* boxes are within the image, and what is kept was found                  *)
(* (server_pc/app/detector.py:300-325, 459-489).                           *)
THEOREM DetectorTypeCorrect == Spec => []TypeOK
<1>1. TypeIInv => TypeOK
  BY DEF TypeIInv
<1> QED
  BY <1>1, TypeInit, TypeNext, PTL DEF Spec

(***************************************************************************)
(* The sampling loop                                                       *)
(***************************************************************************)
(* How many samples lie before this frame. *)
Sampled == (frame + Interval - 1) \div Interval

LEMMA SampledStep ==
  ASSUME NEW n \in Nat
  PROVE  /\ n % Interval = 0 => /\ (n + Interval - 1) \div Interval = n \div Interval
                                /\ (n + 1 + Interval - 1) \div Interval = n \div Interval + 1
         /\ n % Interval # 0 =>
              /\ (n + Interval - 1) \div Interval = n \div Interval + 1
              /\ (n + 1 + Interval - 1) \div Interval = n \div Interval + 1
         /\ n \div Interval \in Int /\ n % Interval \in Int
         /\ n \in (Interval * (n \div Interval))..(Interval * (n \div Interval) + Interval - 1)
         /\ n % Interval = 0 => n = Interval * (n \div Interval)
<1> DEFINE d == Interval
           q == n \div d
           r == n % d
<1>1. d \in Nat \ {0} /\ q \in Int /\ r \in 0..(d - 1) /\ n = d * q + r
  BY Constants, Division
<1>2. d * (q + 1) = d * q + d /\ d * q \in Int
  BY <1>1
<1> HIDE DEF q, r, d
<1>3. ASSUME NEW m \in Int, NEW s \in 0..(d - 1), m = d * q + s PROVE m \div d = q
  BY <1>1, <1>3, QuotientUnique
<1>4. ASSUME NEW m \in Int, NEW s \in 0..(d - 1), m = d * (q + 1) + s PROVE m \div d = q + 1
  BY <1>1, <1>4, QuotientUnique
<1>5. r = 0 => (n + d - 1) \div d = q
  <2>1. r = 0 => n + d - 1 = d * q + (d - 1)
    BY <1>1, <1>2
  <2> QED
    BY <1>1, <1>3, <2>1
<1>6. (n + 1 + d - 1) \div d = q + 1
  <2>1. n + 1 + d - 1 = d * (q + 1) + r
    BY <1>1, <1>2
  <2> QED
    BY <1>1, <1>4, <2>1
<1>7. r # 0 => (n + d - 1) \div d = q + 1
  <2>1. r # 0 => n + d - 1 = d * (q + 1) + (r - 1) /\ r - 1 \in 0..(d - 1)
    BY <1>1, <1>2
  <2> QED
    BY <1>1, <1>4, <2>1
<1>8. n \in (d * q)..(d * q + d - 1) /\ (r = 0 => n = d * q)
  BY <1>1, <1>2
<1> QED
  BY <1>1, <1>5, <1>6, <1>7, <1>8 DEF q, r, d

(* SamplesEvenly in two parts, what is counted and what was found. *)
CountsEvenly ==
  media = "video" =>
    /\ processed = IF phase = "detecting" THEN frame \div Interval ELSE Sampled
    /\ MaxFrames > 0 => frame <= (MaxFrames - 1) * Interval + 1
    /\ phase = "detecting" => frame % Interval = 0

FindsInOrder ==
  media = "video" =>
    \A i \in Position :
      /\ found[i].frame % Interval = 0
      /\ found[i].frame <= frame
      /\ \A j \in 1..(i - 1) : found[j].frame <= found[i].frame

SamplingIInv == TypeIInv /\ CountsEvenly /\ FindsInOrder

LEMMA SamplingInit == Init => SamplingIInv
<1> SUFFICES ASSUME Init PROVE SamplingIInv
  OBVIOUS
<1>1. CountsEvenly
  <2>1. 0 = Interval * 0 + 0 /\ Interval - 1 = Interval * 0 + (Interval - 1)
    BY Constants
  <2>2. (0 + Interval - 1) \div Interval = 0
    BY <2>1, Constants, QuotientUnique
  <2>3. MaxFrames > 0 => 0 <= (MaxFrames - 1) * Interval + 1
    BY Constants
  <2> QED
    BY <2>2, <2>3 DEF Init, CountsEvenly, Sampled
<1>2. FindsInOrder
  BY DEF Init, FindsInOrder, Position
<1> QED
  BY <1>1, <1>2, TypeInit DEF SamplingIInv

(* A frame that may be sampled, or lies behind a sample, is no more than   *)
(* one behind the last sample there can be.                                *)
LEMMA LastFrame ==
  ASSUME NEW n \in Nat, NEW q \in Nat, q < MaxFrames, n <= Interval * q
  PROVE  n + 1 <= (MaxFrames - 1) * Interval + 1
<1>1. Interval \in Nat /\ MaxFrames - 1 \in Nat /\ q <= MaxFrames - 1
  BY Constants
<1>2. \A a, b, c \in Nat : a <= b => c * a <= b * c /\ c * a \in Nat /\ b * c \in Nat
  BY SMT
<1>3. Interval * q <= (MaxFrames - 1) * Interval /\ Interval * q \in Nat
      /\ (MaxFrames - 1) * Interval \in Nat
  BY <1>1, <1>2
<1> QED
  BY <1>3

LEMMA CountsKept ==
  ASSUME SamplingIInv, SkipFrame \/ SampleFrame \/ FrameDone \/ LoopEnds
  PROVE  CountsEvenly'
<1>1. frame \in Nat /\ processed \in Nat
  BY Constants DEF Larger, SamplingIInv, TypeIInv, TypeOK
<1> DEFINE q == frame \div Interval
<1>2. CASE SkipFrame
  <2>1. phase = "reading" /\ phase' = "reading" /\ media' = media /\ frame' = frame + 1
        /\ processed' = processed /\ processed < MaxFrames /\ frame % Interval # 0
    BY <1>2 DEF SkipFrame, More
  <2>2. CASE media = "video"
    <3>1. processed = q + 1 /\ Sampled' = q + 1
      BY <1>1, <2>1, <2>2, SampledStep DEF SamplingIInv, CountsEvenly, Sampled
    <3>2. q + 1 \in Nat /\ frame <= Interval * (q + 1)
      <4>1. q \in Int /\ frame <= Interval * q + Interval - 1
        BY <1>1, SampledStep, Constants
      <4>2. Interval * (q + 1) = Interval * q + Interval /\ Interval * q \in Int
        BY <4>1, Constants
      <4> QED
        BY <1>1, <3>1, <4>1, <4>2, Constants
    <3>3. frame + 1 <= (MaxFrames - 1) * Interval + 1
      BY <1>1, <2>1, <3>1, <3>2, LastFrame
    <3> QED
      BY <2>1, <3>1, <3>3 DEF CountsEvenly
  <2> QED
    BY <2>1, <2>2 DEF CountsEvenly
<1>3. CASE SampleFrame
  <2>1. frame % Interval = 0 /\ phase = "reading" /\ UNCHANGED <<media, frame, processed>>
    BY <1>3 DEF SampleFrame, More
  <2>2. Sampled = q
    BY <1>1, <2>1, SampledStep DEF Sampled
  <2> QED
    BY <1>3, <2>1, <2>2 DEF SampleFrame, SamplingIInv, CountsEvenly
<1>4. CASE FrameDone
  <2>1. /\ phase = "detecting" /\ phase' = "reading" /\ media = "video" /\ media' = media
        /\ frame' = frame + 1 /\ processed' = processed + 1
    BY <1>4 DEF FrameDone
  <2>2. processed = q /\ frame % Interval = 0 /\ processed < MaxFrames
    BY <2>1 DEF SamplingIInv, CountsEvenly, TypeIInv, Sampling
  <2>3. Sampled' = q + 1 /\ frame = Interval * q
    BY <1>1, <2>1, <2>2, SampledStep DEF Sampled
  <2>4. frame + 1 <= (MaxFrames - 1) * Interval + 1
    BY <1>1, <2>2, <2>3, LastFrame
  <2> QED
    BY <2>1, <2>2, <2>3, <2>4 DEF CountsEvenly
<1>5. CASE LoopEnds
  BY <1>5 DEF LoopEnds, SamplingIInv, CountsEvenly, Sampled
<1> QED
  BY <1>2, <1>3, <1>4, <1>5

LEMMA FindsKept ==
  ASSUME SamplingIInv, NEW p \in Prediction, Detect(p)
  PROVE  FindsInOrder'
<1> DEFINE d == [prediction |-> p, box |-> BoxOf(p), sized |-> sized, frame |-> frame]
<1>1. /\ found' = Append(found, d) /\ phase = "detecting"
      /\ UNCHANGED <<media, phase, frame, processed>>
  BY DEF Detect
<1>2. d.frame = frame
  OBVIOUS
<1> HIDE DEF d
<1>3. /\ found \in Seq(Detection) /\ Len(found) \in Nat /\ frame \in Nat
      /\ Len(found') = Len(found) + 1
      /\ \A i \in 1..Len(found) : found'[i] = found[i]
      /\ found'[Len(found) + 1] = d
  BY <1>1, Constants DEF SamplingIInv, TypeIInv, TypeOK
<1>4. SUFFICES ASSUME media = "video", NEW i \in 1..Len(found')
               PROVE  /\ found'[i].frame % Interval = 0
                      /\ found'[i].frame <= frame
                      /\ \A j \in 1..(i - 1) : found'[j].frame <= found'[i].frame
  BY <1>1 DEF FindsInOrder, Position
<1>5. CASE i \in 1..Len(found)
  <2>1. \A j \in 1..(i - 1) : found'[j] = found[j]
    BY <1>3, <1>5
  <2> QED
    BY <1>3, <1>4, <1>5, <2>1 DEF SamplingIInv, FindsInOrder, Position
<1>6. CASE i = Len(found) + 1
  <2>1. frame % Interval = 0
    BY <1>1, <1>4 DEF SamplingIInv, CountsEvenly
  <2>2. \A j \in 1..(i - 1) : j \in 1..Len(found) /\ found'[j] = found[j]
    BY <1>3, <1>6
  <2>3. \A j \in 1..(i - 1) : found'[j].frame <= frame
    BY <1>4, <2>2 DEF SamplingIInv, FindsInOrder, Position
  <2> QED
    BY <1>2, <1>3, <1>6, <2>1, <2>3
<1> QED
  BY <1>3, <1>5, <1>6

LEMMA SamplingNext == SamplingIInv /\ [Next]_vars => SamplingIInv'
<1> SUFFICES ASSUME SamplingIInv, [Next]_vars PROVE SamplingIInv'
  OBVIOUS
<1>1. TypeIInv'
  BY TypeNext DEF SamplingIInv
<1>2. CASE SkipFrame \/ SampleFrame \/ FrameDone \/ LoopEnds
  <2>1. /\ UNCHANGED <<media, found>> /\ Position' = Position
        /\ frame \in Nat /\ frame' \in Nat /\ frame <= frame'
    BY <1>2, Constants
       DEF SkipFrame, SampleFrame, FrameDone, LoopEnds, Position,
           SamplingIInv, TypeIInv, TypeOK
  <2>2. \A i \in Position : found[i].frame \in Nat
    <3>1. \A i \in Position : found[i] \in Detection
      BY DEF SamplingIInv, TypeIInv, TypeOK, Position
    <3> QED
      BY <3>1 DEF Detection
  <2>3. FindsInOrder'
    BY <2>1, <2>2 DEF SamplingIInv, FindsInOrder
  <2> QED
    BY <1>1, <1>2, <2>3, CountsKept DEF SamplingIInv
<1>3. ASSUME NEW p \in Prediction, Detect(p) PROVE SamplingIInv'
  <2>1. CountsEvenly'
    BY <1>3 DEF Detect, SamplingIInv, CountsEvenly, Sampled
  <2> QED
    BY <1>1, <1>3, <2>1, FindsKept DEF SamplingIInv
<1>4. CASE ImageDone
  BY <1>1, <1>4 DEF ImageDone, SamplingIInv, CountsEvenly, FindsInOrder
<1>5. CASE \/ Return \/ UNCHANGED vars
           \/ \E i \in Position : ClassFull(i) \/ DropDuplicate(i) \/ Keep(i)
  <2>1. /\ UNCHANGED <<media, frame, processed, found>>
        /\ phase' = phase \/ (phase = "deduplicating" /\ phase' = "done")
    BY <1>5 DEF Return, vars, ClassFull, DropDuplicate, Keep
  <2>2. CountsEvenly' /\ FindsInOrder'
    BY <2>1 DEF SamplingIInv, CountsEvenly, FindsInOrder, Sampled, Position
  <2> QED
    BY <1>1, <2>2 DEF SamplingIInv
<1> QED
  BY <1>2, <1>3, <1>4, <1>5 DEF Next

(* For any interval and cap: whatever is found in them, the samples are    *)
(* the frames 0, Interval, 2 * Interval, ... without a gap, as many as     *)
(* frame_count will say, and reading ends with the last of them            *)
(* (server_pc/app/detector.py:300-325).                                    *)
THEOREM DetectorSamplesEvenly == Spec => []SamplesEvenly
<1>1. SamplingIInv => SamplesEvenly
  BY DEF SamplingIInv, CountsEvenly, FindsInOrder, SamplesEvenly, Sampled
<1> QED
  BY <1>1, SamplingInit, SamplingNext, PTL DEF Spec
(***************************************************************************)
(* Deduplication                                                           *)
(***************************************************************************)
LEMMA Found ==
  ASSUME TypeIInv
  PROVE  /\ Len(found) \in Nat
         /\ \A i \in Position : found[i] \in Detection /\ Confidence(i) \in Nat
<1>1. Len(found) \in Nat /\ \A i \in Position : found[i] \in Detection
  BY DEF TypeIInv, TypeOK, Position
<1>2. \A i \in Position : found[i].prediction \in Prediction
  BY <1>1 DEF Detection
<1> QED
  BY <1>1, <1>2, Constants DEF Confidence

(* A class is known by the position where it first occurs. *)
LEMMA Firsts ==
  ASSUME TypeIInv, NEW i \in Position
  PROVE  First(Category(i)) \in Position /\ Category(First(Category(i))) = Category(i)
<1> DEFINE T == {j \in Position : Category(j) = Category(i)}
<1>1. T \subseteq Nat /\ T # {}
  BY Found DEF Position
<1>2. PICK x \in T : \A y \in T : x <= y
  BY <1>1, Least
<1>3. \E j \in Position : Category(j) = Category(i)
                          /\ \A k \in Position : Category(k) = Category(i) => j <= k
  BY <1>2
<1> QED
  BY <1>3 DEF First

(* The order in which detections are looked at is a strict total one. *)
LEMMA TakenInOrder ==
  ASSUME TypeIInv
  PROVE  /\ \A i, j \in Position : Category(i) = Category(j) => (TakenBefore(i, j) <=> Ahead(i, j))
         /\ \A i, j \in Position : Category(i) # Category(j) =>
              (TakenBefore(i, j) <=> First(Category(i)) < First(Category(j)))
         /\ \A i, j \in Position : ~(Ahead(i, j) /\ Ahead(j, i))
<1>1. \A i \in Position : First(Category(i)) \in Nat /\ i \in Nat /\ Confidence(i) \in Nat
  BY Found, Firsts DEF Position
<1>2. \A i, j \in Position : ~(Ahead(i, j) /\ Ahead(j, i))
  BY <1>1 DEF Ahead
<1>3. \A i, j \in Position : Category(i) = Category(j) => ~(First(Category(i)) < First(Category(j)))
  BY <1>1
<1> QED
  BY <1>2, <1>3 DEF TakenBefore

LEMMA SameOrder ==
  ASSUME found' = found
  PROVE  /\ Position' = Position
         /\ \A i : Category(i)' = Category(i)
         /\ \A i, j : Ahead(i, j)' <=> Ahead(i, j)
         /\ \A i, j : TakenBefore(i, j)' <=> TakenBefore(i, j)
         /\ \A i, k : Duplicates(i, k)' <=> Duplicates(i, k)
<1>1. Position' = Position /\ \A i : Category(i)' = Category(i)
  BY DEF Position, Category
<1>2. \A c : First(c)' = First(c)
  BY DEF First, Position, Category
<1>3. \A i, j : Ahead(i, j)' <=> Ahead(i, j)
  BY DEF Ahead, Confidence
<1>4. \A i, j : TakenBefore(i, j)' <=> TakenBefore(i, j)
  BY <1>2, <1>3 DEF TakenBefore, Category
<1>5. \A i, k : Duplicates(i, k)' <=> Duplicates(i, k)
  BY DEF Duplicates
<1> QED
  BY <1>1, <1>3, <1>4, <1>5

(* What was looked at comes before what was not, ... *)
TakenInTurn == \A i \in Position \ todo : \A j \in todo : TakenBefore(i, j)

(* ... only such can be kept, and never more than the cap of a class, ... *)
KeptWereTaken == Kept \cap todo = {}
KeptWithinCap == \A i \in Position : Cardinality(Rivals(i)) <= Cap

(* ... and the two parts of KeptIsGreedy. *)
KeptIfBest ==
  phase \in {"deduplicating", "done"} =>
    \A i \in Position \ todo :
      i \in Kept <=> /\ Cardinality(BetterKept(i)) < Cap
                     /\ \A k \in BetterKept(i) : ~Duplicates(i, k)

KeptInTurn == \A m, n \in 1..Len(kept) : m < n => TakenBefore(kept[m], kept[n])

Greedy == TakenInTurn /\ KeptWereTaken /\ KeptWithinCap /\ KeptIfBest /\ KeptInTurn

GreedyIInv == TypeIInv /\ (media = "video" => Greedy)

LEMMA KeptFinite ==
  ASSUME TypeIInv
  PROVE  /\ Kept \subseteq Position
         /\ \A i : IsFiniteSet(Rivals(i)) /\ Cardinality(Rivals(i)) \in Nat
<1>1. Kept \subseteq Position
  <2>1. kept \in Seq(Position)
    BY DEF TypeIInv, TypeOK
  <2> QED
    BY <2>1 DEF Kept
<1>2. IsFiniteSet(Position)
  <2>1. 1 \in Int /\ Len(found) \in Int
    BY Found
  <2> QED
    BY <2>1, FS_Interval DEF Position
<1>3. \A i : Rivals(i) \subseteq Position
  BY <1>1 DEF Rivals
<1>4. \A i : IsFiniteSet(Rivals(i))
  BY <1>2, <1>3, FS_Subset
<1> QED
  BY <1>1, <1>4, FS_CardinalityType

(* All that is kept of a class is better than what is still to come. *)
LEMMA KeptAreBetter ==
  ASSUME TypeIInv, Greedy, NEW i \in todo
  PROVE  i \in Position /\ i \notin Kept /\ BetterKept(i) = Rivals(i)
<1>1. i \in Position /\ i \notin Kept
  BY DEF TypeIInv, TypeOK, Greedy, KeptWereTaken
<1>2. ASSUME NEW k \in Rivals(i) PROVE Ahead(k, i)
  <2>1. k \in Position \ todo /\ Category(k) = Category(i)
    BY KeptFinite DEF Rivals, Greedy, KeptWereTaken
  <2>2. TakenBefore(k, i)
    BY <2>1 DEF Greedy, TakenInTurn
  <2> QED
    BY <1>1, <2>1, <2>2, TakenInOrder
<1> QED
  BY <1>1, <1>2 DEF BetterKept

(* Reading, nothing is kept yet. *)
Untouched == TypeIInv /\ kept = <<>> /\ (phase \in {"reading", "detecting"} \/ todo = Position)

LEMMA GreedyBefore == Untouched => Greedy
<1> SUFFICES ASSUME Untouched PROVE Greedy
  OBVIOUS
<1>1. Kept = {} /\ (phase \in {"reading", "detecting"} => todo = {})
  BY DEF Untouched, Kept, TypeIInv, TypeOK
<1>2. \A i : Rivals(i) = {}
  BY <1>1 DEF Rivals
<1>3. KeptWithinCap
  <2>1. Cardinality({}) = 0 /\ Cap \in Nat
    BY FS_EmptySet, Constants
  <2> QED
    BY <1>2, <2>1 DEF KeptWithinCap
<1> QED
  BY <1>1, <1>3 DEF Untouched, Greedy, TakenInTurn, KeptWereTaken, KeptIfBest, KeptInTurn

LEMMA GreedyBeforeNext == Untouched' => Greedy'
BY GreedyBefore, PTL

(* Detections that are not kept are taken out of todo, as better ones show *)
(* them or fill their class.                                               *)
LEMMA GreedyDrop ==
  ASSUME TypeIInv, Greedy, NEW S \in SUBSET todo,
         UNCHANGED <<phase, found, kept>>, todo' = todo \ S,
         \A i \in S : \A j \in todo \ S : TakenBefore(i, j),
         \A i \in S : \/ ~(Cardinality(Rivals(i)) < Cap)
                      \/ \E k \in Rivals(i) : Duplicates(i, k)
  PROVE  Greedy'
<1>1. /\ Kept' = Kept /\ \A i : Rivals(i)' = Rivals(i)
      /\ \A i : BetterKept(i)' = BetterKept(i)
  BY SameOrder DEF Kept, Rivals, BetterKept
<1>2. TakenInTurn'
  BY SameOrder DEF Greedy, TakenInTurn
<1>3. KeptWereTaken' /\ KeptWithinCap' /\ KeptInTurn'
  BY <1>1, SameOrder DEF Greedy, KeptWereTaken, KeptWithinCap, KeptInTurn
<1>4. KeptIfBest'
  <2>1. \A i \in S : i \notin Kept /\ BetterKept(i) = Rivals(i)
    BY KeptAreBetter
  <2> QED
    BY <1>1, <2>1, SameOrder DEF Greedy, KeptIfBest
<1> QED
  BY <1>2, <1>3, <1>4 DEF Greedy

LEMMA GreedyKeep == ASSUME TypeIInv, Greedy, NEW i \in Position, Keep(i) PROVE Greedy'
<1>1. /\ i \in todo /\ todo' = todo \ {i} /\ kept' = Append(kept, i)
      /\ UNCHANGED <<phase, found>>
      /\ \A j \in todo \ {i} : TakenBefore(i, j)
      /\ Cardinality(Rivals(i)) < Cap
      /\ \A k \in Rivals(i) : ~Duplicates(i, k)
  BY DEF Keep, IsNext
<1>2. i \notin Kept /\ BetterKept(i) = Rivals(i)
  BY <1>1, KeptAreBetter
<1>3. /\ Len(kept) \in Nat /\ Len(kept') = Len(kept) + 1 /\ kept'[Len(kept) + 1] = i
      /\ \A n \in 1..Len(kept) : kept'[n] = kept[n]
  <2>1. kept \in Seq(Position)
    BY DEF TypeIInv, TypeOK
  <2> QED
    BY <1>1, <2>1
<1>4. Kept' = Kept \cup {i}
  BY <1>3 DEF Kept
<1>5. ASSUME NEW j \in Position
      PROVE  /\ Category(j) = Category(i) => Rivals(j)' = Rivals(i) \cup {i} /\ Rivals(j) = Rivals(i)
             /\ Category(j) # Category(i) => Rivals(j)' = Rivals(j)
  BY <1>1, <1>4, SameOrder DEF Rivals
<1>6. ASSUME NEW j \in Position \ todo' PROVE BetterKept(j)' = BetterKept(j)
  <2>1. Category(j) = Category(i) => ~Ahead(i, j)
    <3>1. CASE j = i
      BY <3>1, TakenInOrder
    <3>2. CASE j # i
      <4>1. TakenBefore(j, i)
        BY <1>1, <3>2 DEF Greedy, TakenInTurn
      <4> QED
        BY <4>1, TakenInOrder
    <3> QED
      BY <3>1, <3>2
  <2> QED
    BY <1>1, <1>5, <2>1, SameOrder DEF BetterKept
<1>7. KeptIfBest'
  <2>1. \A j \in Position \ todo' : j # i => j \in Position \ todo
    BY <1>1
  <2> QED
    BY <1>1, <1>2, <1>4, <1>6, <2>1, SameOrder DEF Greedy, KeptIfBest
<1>8. KeptWithinCap'
  <2>1. Cardinality(Rivals(i) \cup {i}) = Cardinality(Rivals(i)) + 1
    <3>1. IsFiniteSet(Rivals(i)) /\ i \notin Rivals(i)
      BY <1>2, KeptFinite DEF Rivals
    <3> QED
      BY <3>1, FS_AddElement
  <2>2. Cardinality(Rivals(i)) \in Nat /\ Cap \in Nat
    BY KeptFinite, Constants
  <2> QED
    <3>1. ASSUME NEW j \in Position PROVE Cardinality(Rivals(j)') <= Cap
      <4>1. CASE Category(j) = Category(i)
        <5>1. Rivals(j)' = Rivals(i) \cup {i}
          BY <1>5, <4>1
        <5>2. Cardinality(Rivals(i) \cup {i}) <= Cap
          BY <1>1, <2>1, <2>2
        <5> QED
          BY <5>1, <5>2
      <4>2. CASE Category(j) # Category(i)
        BY <1>5, <4>2 DEF Greedy, KeptWithinCap
      <4> QED
        BY <4>1, <4>2
    <3> QED
      BY <1>1, <3>1, SameOrder DEF KeptWithinCap
<1>9. TakenInTurn' /\ KeptWereTaken'
  BY <1>1, <1>4, SameOrder DEF Greedy, TakenInTurn, KeptWereTaken
<1>10. KeptInTurn'
  <2>1. ASSUME NEW n \in 1..Len(kept) PROVE TakenBefore(kept[n], i)
    <3>1. kept[n] \in Position \ todo
      BY KeptFinite DEF Kept, Greedy, KeptWereTaken
    <3> QED
      BY <1>1, <3>1 DEF Greedy, TakenInTurn
  <2>2. SUFFICES ASSUME NEW m \in 1..(Len(kept) + 1), NEW n \in 1..(Len(kept) + 1), m < n
                 PROVE  TakenBefore(kept'[m], kept'[n])
    <3>1. \A m, n \in 1..Len(kept') : m < n => TakenBefore(kept'[m], kept'[n])
      BY <1>3, <2>2
    <3>2. \A m, n : TakenBefore(kept[m], kept[n])' <=> TakenBefore(kept'[m], kept'[n])
      BY <1>1 DEF TakenBefore, First, Ahead, Category, Confidence, Position
    <3> QED
      BY <3>1, <3>2 DEF KeptInTurn
  <2>3. m \in 1..Len(kept) /\ kept'[m] = kept[m]
    BY <1>3, <2>2
  <2>4. CASE n = Len(kept) + 1
    BY <1>3, <2>1, <2>3, <2>4
  <2>5. CASE n \in 1..Len(kept)
    BY <1>3, <2>2, <2>3, <2>5 DEF Greedy, KeptInTurn
  <2> QED
    BY <1>3, <2>4, <2>5
<1> QED
  BY <1>7, <1>8, <1>9, <1>10 DEF Greedy

LEMMA GreedyNext == GreedyIInv /\ [Next]_vars => GreedyIInv'
<1> SUFFICES ASSUME GreedyIInv, [Next]_vars, media' = "video" PROVE Greedy'
  BY TypeNext DEF GreedyIInv
<1>1. TypeIInv /\ TypeIInv'
  BY TypeNext DEF GreedyIInv
<1>2. media = "video"
  BY DEF Next, SkipFrame, SampleFrame, FrameDone, ImageDone, LoopEnds, Return, Detect,
         ClassFull, DropDuplicate, Keep, vars
<1>3. Greedy
  BY <1>2 DEF GreedyIInv
<1>4. CASE SkipFrame \/ SampleFrame \/ FrameDone \/ (\E p \in Prediction : Detect(p))
  <2>1. phase' \in {"reading", "detecting"} /\ kept' = <<>>
    BY <1>1, <1>4 DEF SkipFrame, More, SampleFrame, FrameDone, Detect, TypeIInv, TypeOK
  <2> QED
    BY <1>1, <2>1, GreedyBeforeNext DEF Untouched
<1>5. CASE LoopEnds
  <2>1. kept' = <<>> /\ todo' = Position'
    BY <1>1, <1>5 DEF LoopEnds, Position, TypeIInv, TypeOK
  <2> QED
    BY <1>1, <2>1, GreedyBeforeNext DEF Untouched
<1>6. CASE ImageDone
  BY <1>2, <1>6 DEF ImageDone
<1>7. ASSUME NEW i \in Position, ClassFull(i) PROVE Greedy'
  <2> DEFINE S == {j \in todo : Category(j) = Category(i)}
  <2>1. /\ UNCHANGED <<phase, found, kept>> /\ todo' = todo \ S /\ S \in SUBSET todo
        /\ i \in todo /\ \A j \in todo \ {i} : TakenBefore(i, j)
        /\ Cardinality(Rivals(i)) >= Cap
    BY <1>7 DEF ClassFull, IsNext
  <2>2. todo \subseteq Position
    BY <1>1 DEF TypeIInv, TypeOK
  <2>3. \A j \in S : \A k \in todo \ S : TakenBefore(j, k)
    <3>1. ASSUME NEW j \in S, NEW k \in todo \ S PROVE TakenBefore(j, k)
      <4>1. Category(j) = Category(i) /\ Category(k) # Category(i) /\ k # i
        OBVIOUS
      <4>2. First(Category(i)) < First(Category(k))
        BY <1>1, <2>1, <2>2, <4>1, TakenInOrder
      <4> QED
        BY <4>1, <4>2 DEF TakenBefore
    <3> QED
      BY <3>1
  <2>4. \A j \in S : ~(Cardinality(Rivals(j)) < Cap)
    <3>1. \A j \in S : Rivals(j) = Rivals(i)
      BY DEF Rivals
    <3>2. Cardinality(Rivals(i)) \in Nat /\ Cap \in Nat
      BY <1>1, KeptFinite, Constants
    <3> QED
      BY <2>1, <3>1, <3>2
  <2> HIDE DEF S
  <2> QED
    BY <1>1, <1>3, <2>1, <2>3, <2>4, GreedyDrop
<1>8. ASSUME NEW i \in Position, DropDuplicate(i) PROVE Greedy'
  <2>1. /\ UNCHANGED <<phase, found, kept>> /\ todo' = todo \ {i} /\ {i} \in SUBSET todo
        /\ \A j \in todo \ {i} : TakenBefore(i, j)
        /\ \E k \in Rivals(i) : Duplicates(i, k)
    BY <1>8 DEF DropDuplicate, IsNext
  <2> QED
    BY <1>1, <1>3, <2>1, GreedyDrop
<1>9. CASE Return \/ UNCHANGED vars
  <2>1. UNCHANGED <<found, kept, todo>>
        /\ (phase' = phase \/ (phase = "deduplicating" /\ phase' = "done"))
    BY <1>9 DEF Return, vars
  <2>2. /\ Kept' = Kept /\ \A i : Rivals(i)' = Rivals(i)
        /\ \A i : BetterKept(i)' = BetterKept(i)
    BY <2>1, SameOrder DEF Kept, Rivals, BetterKept
  <2> QED
    BY <1>3, <2>1, <2>2, SameOrder
       DEF Greedy, TakenInTurn, KeptWereTaken, KeptWithinCap, KeptIfBest, KeptInTurn
<1> QED
  BY <1>1, <1>3, <1>4, <1>5, <1>6, <1>7, <1>8, <1>9, GreedyKeep DEF Next

LEMMA GreedyInit == Init => GreedyIInv
<1> SUFFICES ASSUME Init PROVE GreedyIInv
  OBVIOUS
<1>1. TypeIInv /\ kept = <<>> /\ phase \in {"reading", "detecting"}
  BY TypeInit DEF Init
<1> QED
  BY <1>1, GreedyBefore DEF GreedyIInv, Untouched

(* For any predictions, cap and overlap threshold: what _deduplicate       *)
(* returns is what the definition without an order of steps says, in the   *)
(* order of classes and confidence                                         *)
(* (server_pc/app/detector.py:459-489).                                    *)
THEOREM DetectorKeptIsGreedy == Spec => []KeptIsGreedy
<1>1. GreedyIInv => KeptIsGreedy
  <2>1. GreedyIInv /\ media = "video" =>
          \A m, n \in 1..Len(kept) : m < n => TakenBefore(kept[m], kept[n])
    BY DEF GreedyIInv, Greedy, KeptInTurn
  <2>2. GreedyIInv /\ media = "video" => KeptIfBest
    BY DEF GreedyIInv, Greedy
  <2> QED
    BY <2>1, <2>2 DEF KeptIsGreedy, KeptIfBest, TakenBefore
<1> QED
  BY <1>1, GreedyInit, GreedyNext, PTL DEF Spec
(***************************************************************************)
(* What the crops show.  One side of a box at a time: from and to are raw  *)
(* corners, w the image's side in units, n in pixels.                      *)
(***************************************************************************)
LEMMA ClampedTo ==
  ASSUME NEW v \in Int, NEW top \in Nat
  PROVE  /\ Clamp(v, top) \in 0..top
         /\ v <= top => Clamp(v, top) >= v
         /\ v >= 0 => Clamp(v, top) <= v
         /\ v <= 0 => Clamp(v, top) = 0
         /\ v >= top => Clamp(v, top) = top
         /\ v \in 0..top => Clamp(v, top) = v
BY DEF Clamp, Larger, Smaller

LEMMA RoundedNear ==
  ASSUME NEW v \in Nat
  PROVE  /\ Rounded(v) \in Nat
         /\ 2 * Rounded(v) * Scale <= 2 * v + Scale
         /\ 2 * Rounded(v) * Scale >= 2 * v - Scale
<1> DEFINE q == v \div Scale
           r == v % Scale
<1>1. Scale \in Nat \ {0} /\ q \in Int /\ r \in 0..(Scale - 1) /\ v = Scale * q + r
  BY Image, Division
<1>2. q \in Nat
  <2>1. Scale * q > -Scale
    BY <1>1
  <2>2. \A a \in Int : a <= -1 => Scale * a <= -Scale
    BY <1>1, SMT
  <2> QED
    BY <1>1, <2>1, <2>2
<1>3. \/ Rounded(v) = q /\ 2 * r <= Scale
      \/ Rounded(v) = q + 1 /\ 2 * r >= Scale
  BY <1>1 DEF Rounded
<1> HIDE DEF q, r
<1>4. /\ 2 * q * Scale = 2 * (Scale * q) /\ 2 * (q + 1) * Scale = 2 * (Scale * q) + 2 * Scale
      /\ Scale * q \in Int
  BY <1>1
<1>5. CASE Rounded(v) = q /\ 2 * r <= Scale
  BY <1>1, <1>2, <1>4, <1>5
<1>6. CASE Rounded(v) = q + 1 /\ 2 * r >= Scale
  BY <1>1, <1>2, <1>4, <1>6
<1> QED
  BY <1>3, <1>5, <1>6

(* The pixel an edge of a box is cut at is near the edge. *)
LEMMA CutNear ==
  ASSUME NEW n \in Nat \ {0}, NEW v \in Nat
  PROVE  LET c == Clamp(Rounded(v), n)
         IN /\ c \in 0..n
            /\ 2 * c * Scale <= 2 * v + Scale
            /\ \A u \in 0..n * Scale : u <= v => 2 * c * Scale >= 2 * u - Scale
<1> DEFINE c == Clamp(Rounded(v), n)
<1>1. /\ Rounded(v) \in Nat /\ Scale \in Nat \ {0}
      /\ 2 * Rounded(v) * Scale <= 2 * v + Scale
      /\ 2 * Rounded(v) * Scale >= 2 * v - Scale
  BY Image, RoundedNear
<1>2. c \in 0..n /\ (c = Rounded(v) \/ (c = n /\ n <= Rounded(v)))
  <2>1. Rounded(v) \in Int
    BY <1>1
  <2> QED
    BY <1>1, <2>1 DEF Clamp, Larger, Smaller
<1>3. n <= Rounded(v) => 2 * n * Scale <= 2 * Rounded(v) * Scale
  BY <1>1, SMT
<1> DEFINE e == Rounded(v)
           ns == n * Scale
           es == 2 * e * Scale
<1>4. 2 * n * Scale = 2 * ns /\ ns \in Nat /\ es \in Int
  BY <1>1
<1>5. CASE c = e
  BY <1>1, <1>2, <1>5
<1>6. CASE c = n /\ n <= e
  <2>1. 2 * c * Scale = 2 * ns
    BY <1>4, <1>6
  <2>2. 2 * ns <= es /\ es <= 2 * v + Scale
    BY <1>1, <1>3, <1>4, <1>6
  <2>3. \A u \in 0..ns : 2 * ns >= 2 * u - Scale
    BY <1>1, <1>4
  <2> HIDE DEF c, ns, es
  <2> QED
    BY <1>1, <1>2, <1>4, <2>1, <2>2, <2>3 DEF c, ns
<1> QED
  BY <1>2, <1>5, <1>6

(* A side as normalize_bbox stores it reaches at least as far as the fault *)
(* does in the image, and no further than by the part before the image.    *)
LEMMA SideStored ==
  ASSUME NEW w \in Nat, NEW from \in Int, NEW to \in Int
  PROVE  LET x == Clamp(from, w)
             e == x + Clamp(to - from, w)
         IN /\ x \in 0..w /\ e \in Nat /\ x <= e
            /\ Clamp(to, w) <= e
            /\ \/ e <= Clamp(to, w) + Larger(0, -from)
               \/ Clamp(to, w) = w
               \/ e = x
               \/ x = w
BY DEF Clamp, Larger, Smaller

LEMMA SideShown ==
  ASSUME NEW n \in Nat \ {0}, NEW from \in Int, NEW to \in Int
  PROVE  LET w == n * Scale
             x == Clamp(from, w)
             a == Clamp(Rounded(x), n)
             b == Clamp(Rounded(x + Clamp(to - from, w)), n)
         IN /\ b <= a => Clamp(to, w) - Clamp(from, w) <= Scale
            /\ ~(b <= a) => Covers(a, b, Clamp(from, w), Clamp(to, w), Larger(0, -from))
<1> DEFINE w == n * Scale
           x == Clamp(from, w)
           e == x + Clamp(to - from, w)
           a == Clamp(Rounded(x), n)
           b == Clamp(Rounded(e), n)
           y == Clamp(to, w)
           o == Larger(0, -from)
<1>1. w \in Nat /\ Scale \in Nat \ {0}
  BY Image
<1>2. /\ x \in 0..w /\ e \in Nat /\ x <= e /\ y <= e /\ y \in 0..w
      /\ e <= y + o \/ y = w \/ e = x \/ x = w
  <2> HIDE DEF w
  <2> QED
    BY <1>1, SideStored, ClampedTo
<1>3. o \in Nat
  BY DEF Larger
<1> HIDE DEF x, e, y, o
<1>4. /\ a \in 0..n /\ 2 * a * Scale <= 2 * x + Scale
      /\ \A u \in 0..w : u <= x => 2 * a * Scale >= 2 * u - Scale
  BY <1>1, <1>2, CutNear
<1>5. /\ b \in 0..n /\ 2 * b * Scale <= 2 * e + Scale
      /\ \A u \in 0..w : u <= e => 2 * b * Scale >= 2 * u - Scale
  BY <1>1, <1>2, CutNear
<1>6. e = x => b = a
  OBVIOUS
<1> HIDE DEF a, b
<1>7. 2 * b * Scale >= 2 * y - Scale /\ 2 * a * Scale \in Int /\ 2 * b * Scale \in Int
  BY <1>1, <1>2, <1>4, <1>5
<1>8. b <= a => 2 * b * Scale <= 2 * a * Scale
  BY <1>1, <1>4, <1>5, SMT
<1>9. b <= a => y - x <= Scale
  <2> HIDE DEF w
  <2> QED
    BY <1>1, <1>2, <1>4, <1>7, <1>8
<1>10. ~(b <= a) => 2 * b * Scale <= 2 * (y + o) + Scale
  <2>1. 2 * b * Scale <= 2 * w
    <3>1. \A p, q \in Nat : p <= q => 2 * p * Scale <= 2 * (q * Scale)
      BY <1>1, SMT
    <3> QED
      BY <1>5, <3>1
  <2>2. x = w => a = n
    <3>1. x = w => 2 * a * Scale >= 2 * w - Scale
      BY <1>1, <1>4
    <3>2. \A p \in 0..(n - 1) : 2 * p * Scale <= 2 * (n * Scale) - 2 * Scale
      BY <1>1, SMT
    <3>3. a \in 0..(n - 1) => 2 * a * Scale <= 2 * w - 2 * Scale
      BY <3>2
    <3>4. w \in Int /\ 2 * a * Scale \in Int
      BY <1>1, <1>7
    <3> HIDE DEF w
    <3> QED
      BY <1>1, <1>4, <3>1, <3>3, <3>4
  <2>3. x = w => b <= a
    BY <1>5, <2>2
  <2>4. e = x => b <= a
    BY <1>4, <1>6
  <2> HIDE DEF w
  <2> QED
    BY <1>1, <1>2, <1>3, <1>5, <1>7, <2>1, <2>3, <2>4
<1>11. ~(b <= a) => Covers(a, b, x, y, o)
  BY <1>4, <1>7, <1>10 DEF Covers
<1> QED
  BY <1>9, <1>11 DEF w, x, e, a, b, y, o
(* Boxes that overlap share a part of the image, if both start in it. *)
LEMMA SideShared ==
  ASSUME NEW w \in Nat, NEW from \in 0..w, NEW to \in Int, NEW from2 \in 0..w, NEW to2 \in Int,
         from # w, from2 # w,
         Common(from, Clamp(to - from, w), from2, Clamp(to2 - from2, w)) # 0
  PROVE  Clamp(from, w) < Clamp(to2, w) /\ Clamp(from2, w) < Clamp(to, w)
BY DEF Common, Clamp, Larger, Smaller

LEMMA SideCommon ==
  ASSUME NEW a \in Nat, NEW b \in Nat, NEW c \in Nat, NEW d \in Nat
  PROVE  Common(a, b, c, d) \in Nat
BY DEF Common, Larger, Smaller

LEMMA OverlapIsShared ==
  ASSUME NEW a \in Box, NEW b \in Box, OverlapExceeds(a, b, Num, Den)
  PROVE  Common(a.x, a.width, b.x, b.width) # 0 /\ Common(a.y, a.height, b.y, b.height) # 0
<1> DEFINE p == Common(a.x, a.width, b.x, b.width)
           q == Common(a.y, a.height, b.y, b.height)
           u == Union(a, b)
<1>1. /\ a.x \in Nat /\ a.width \in Nat /\ a.y \in Nat /\ a.height \in Nat
      /\ b.x \in Nat /\ b.width \in Nat /\ b.y \in Nat /\ b.height \in Nat
  BY Image DEF Box
<1>2. p \in Nat /\ q \in Nat
  BY <1>1, SideCommon
<1>3. u > 0 /\ (p * q) * Den > Num * u
  BY DEF OverlapExceeds, Intersection
<1>4. u \in Int
  <2>1. u = a.width * a.height + b.width * b.height - p * q
    BY DEF Union, Intersection
  <2> HIDE DEF p, q, u
  <2> QED
    BY <1>1, <1>2, <2>1
<1> HIDE DEF p, q, u
<1>5. Num * u >= 0 /\ Num * u \in Int
  BY <1>3, <1>4, Constants, SMT
<1>6. p * q = 0 => (p * q) * Den = 0
  BY Constants
<1>7. p * q # 0
  BY <1>3, <1>5, <1>6
<1>8. p # 0 /\ q # 0
  BY <1>2, <1>7
<1> QED
  BY <1>8 DEF p, q

(* Every box is what its prediction gives, with the size known or not. *)
BoxFrom(p, known) == IF source = "centres" THEN FromCentre(p.raw, known) ELSE Normalize(p.raw, known)

BoxesMade == \A i \in Position : found[i].box = BoxFrom(found[i].prediction, found[i].sized)

(* Of an image everything is returned. *)
ImageComplete == media = "image" => phase = "detecting" \/ (phase = "done" /\ Kept = Position)

VisibleIInv == GreedyIInv /\ BoxesMade /\ ImageComplete

LEMMA VisibleInit == Init => VisibleIInv
<1> SUFFICES ASSUME Init PROVE VisibleIInv
  OBVIOUS
<1> QED
  BY GreedyInit DEF Init, VisibleIInv, BoxesMade, ImageComplete, Position

LEMMA VisibleNext == VisibleIInv /\ [Next]_vars => VisibleIInv'
<1> SUFFICES ASSUME VisibleIInv, [Next]_vars PROVE BoxesMade' /\ ImageComplete'
  BY GreedyNext DEF VisibleIInv
<1>1. TypeIInv
  BY DEF VisibleIInv, GreedyIInv
<1>2. CASE SkipFrame \/ SampleFrame \/ FrameDone \/ LoopEnds
  <2>1. /\ UNCHANGED <<media, source, found, kept>>
        /\ media = "image" => phase' = phase
    BY <1>2 DEF SkipFrame, SampleFrame, FrameDone, LoopEnds, More,
                VisibleIInv, ImageComplete
  <2> QED
    BY <2>1 DEF VisibleIInv, BoxesMade, ImageComplete, BoxFrom, Position, Kept
<1>3. ASSUME NEW p \in Prediction, Detect(p) PROVE BoxesMade' /\ ImageComplete'
  <2> DEFINE d == [prediction |-> p, box |-> BoxOf(p), sized |-> sized, frame |-> frame]
  <2>1. found' = Append(found, d) /\ phase' = "detecting" /\ UNCHANGED <<media, source>>
    BY <1>3 DEF Detect
  <2>2. d.box = BoxFrom(d.prediction, d.sized)
    BY DEF BoxOf, BoxFrom
  <2> HIDE DEF d
  <2>3. /\ Len(found) \in Nat /\ Len(found') = Len(found) + 1 /\ found'[Len(found) + 1] = d
        /\ \A i \in 1..Len(found) : found'[i] = found[i]
    BY <1>1, <2>1 DEF TypeIInv, TypeOK
  <2>4. \A i \in 1..Len(found') : found'[i].box = BoxFrom(found'[i].prediction, found'[i].sized)
    BY <2>2, <2>3 DEF VisibleIInv, BoxesMade, Position
  <2>5. \A q, known : BoxFrom(q, known)' = BoxFrom(q, known)
    BY <2>1 DEF BoxFrom
  <2>6. BoxesMade'
    BY <2>1, <2>4 DEF BoxesMade, BoxFrom, Position
  <2>7. ImageComplete'
    BY <2>1 DEF ImageComplete
  <2> QED
    BY <2>6, <2>7
<1>4. CASE ImageDone
  <2>1. Len(found) \in Nat /\ kept' = [i \in Position |-> i] /\ UNCHANGED <<source, found>>
        /\ phase' = "done" /\ Position' = Position
    BY <1>1, <1>4 DEF ImageDone, TypeIInv, TypeOK, Position
  <2>2. Len(kept') = Len(found) /\ \A i \in Position : kept'[i] = i
    BY <2>1 DEF Position
  <2>3. Kept' = Position
    BY <2>2 DEF Kept, Position
  <2> QED
    BY <2>1, <2>3 DEF VisibleIInv, BoxesMade, BoxFrom, ImageComplete
<1>5. CASE \/ Return \/ UNCHANGED vars
           \/ \E i \in Position : ClassFull(i) \/ DropDuplicate(i) \/ Keep(i)
  <2>1. /\ UNCHANGED <<media, source, found>>
        /\ UNCHANGED <<phase, kept>> \/ phase = "deduplicating"
    BY <1>5 DEF Return, vars, ClassFull, DropDuplicate, Keep
  <2> QED
    BY <2>1 DEF VisibleIInv, BoxesMade, ImageComplete, BoxFrom, Position, Kept
<1> QED
  BY <1>2, <1>3, <1>4, <1>5 DEF Next

(* A measured box is the prediction's own, position and extent clamped. *)
LEMMA MeasuredBox ==
  ASSUME VisibleIInv, NEW i \in Position, Measured(i)
  PROVE  /\ Raw(i) \in RawBox /\ found[i].box \in Box
         /\ found[i].box.x = Clamp(Raw(i).x1, Width * Scale)
         /\ found[i].box.y = Clamp(Raw(i).y1, Height * Scale)
         /\ found[i].box.width = Clamp(Raw(i).x2 - Raw(i).x1, Width * Scale)
         /\ found[i].box.height = Clamp(Raw(i).y2 - Raw(i).y1, Height * Scale)
<1>1. found[i] \in Detection
  BY Found DEF VisibleIInv, GreedyIInv
<1>2. found[i].prediction \in Prediction /\ found[i].box \in Box
  BY <1>1 DEF Detection
<1>3. Raw(i) \in RawBox
  BY <1>2, Constants DEF Raw
<1>4. found[i].box = Normalize(Raw(i), TRUE)
  <2>1. found[i].box = BoxFrom(found[i].prediction, found[i].sized) /\ found[i].sized \in BOOLEAN
    BY <1>1 DEF VisibleIInv, BoxesMade, Detection
  <2> QED
    BY <2>1 DEF Measured, BoxFrom, FromCentre, InPixels, Normalize, Raw
<1> QED
  BY <1>2, <1>3, <1>4 DEF Normalize

LEMMA MeasuredIsShown ==
  ASSUME VisibleIInv, NEW i \in Position, Measured(i)
  PROVE  CropShows(i)
<1> DEFINE r == Raw(i)
           c == Crop(found[i].box)
<1>1. /\ r.x1 \in Int /\ r.y1 \in Int /\ r.x2 \in Int /\ r.y2 \in Int
  BY MeasuredBox DEF RawBox
<1>2. Width \in Nat \ {0} /\ Height \in Nat \ {0}
  BY Image
<1>3. /\ c.x1 = Clamp(Rounded(Clamp(r.x1, Width * Scale)), Width)
      /\ c.x2 = Clamp(Rounded(Clamp(r.x1, Width * Scale)
                              + Clamp(r.x2 - r.x1, Width * Scale)), Width)
      /\ c.y1 = Clamp(Rounded(Clamp(r.y1, Height * Scale)), Height)
      /\ c.y2 = Clamp(Rounded(Clamp(r.y1, Height * Scale)
                              + Clamp(r.y2 - r.y1, Height * Scale)), Height)
  BY MeasuredBox DEF Crop
<1> HIDE DEF r, c
<1>4. /\ c.x2 <= c.x1 => Clamp(r.x2, Width * Scale) - Clamp(r.x1, Width * Scale) <= Scale
      /\ ~(c.x2 <= c.x1) => Covers(c.x1, c.x2, Clamp(r.x1, Width * Scale),
                                  Clamp(r.x2, Width * Scale), Larger(0, -r.x1))
  BY <1>1, <1>2, <1>3, SideShown
<1>5. /\ c.y2 <= c.y1 => Clamp(r.y2, Height * Scale) - Clamp(r.y1, Height * Scale) <= Scale
      /\ ~(c.y2 <= c.y1) => Covers(c.y1, c.y2, Clamp(r.y1, Height * Scale),
                                  Clamp(r.y2, Height * Scale), Larger(0, -r.y1))
  BY <1>1, <1>2, <1>3, SideShown
<1> QED
  BY <1>4, <1>5 DEF CropShows, NoPixels, Left, Right, Top, Bottom, r, c

LEMMA DuplicateIsSameSpot ==
  ASSUME VisibleIInv, NEW i \in Position, NEW k \in Position, Measured(i), Measured(k),
         ~StartsOutside(i), ~StartsOutside(k), Duplicates(i, k)
  PROVE  SameSpot(i, k)
<1> DEFINE w == Width * Scale
           h == Height * Scale
           a == found[i].box
           b == found[k].box
<1>1. w \in Nat /\ h \in Nat
  BY Image
<1>2. /\ Raw(i).x1 \in Int /\ Raw(i).x2 \in Int /\ Raw(i).y1 \in Int /\ Raw(i).y2 \in Int
      /\ Raw(k).x1 \in Int /\ Raw(k).x2 \in Int /\ Raw(k).y1 \in Int /\ Raw(k).y2 \in Int
  BY MeasuredBox DEF RawBox
<1>3. /\ a \in Box /\ b \in Box
      /\ a.x = Clamp(Raw(i).x1, w) /\ a.width = Clamp(Raw(i).x2 - Raw(i).x1, w)
      /\ a.y = Clamp(Raw(i).y1, h) /\ a.height = Clamp(Raw(i).y2 - Raw(i).y1, h)
      /\ b.x = Clamp(Raw(k).x1, w) /\ b.width = Clamp(Raw(k).x2 - Raw(k).x1, w)
      /\ b.y = Clamp(Raw(k).y1, h) /\ b.height = Clamp(Raw(k).y2 - Raw(k).y1, h)
  BY MeasuredBox
<1>4. Common(a.x, a.width, b.x, b.width) # 0 /\ Common(a.y, a.height, b.y, b.height) # 0
  BY <1>3, OverlapIsShared DEF Duplicates
<1> HIDE DEF a, b
<1>5. /\ Raw(i).x1 \in 0..w /\ Raw(i).x1 # w /\ Raw(k).x1 \in 0..w /\ Raw(k).x1 # w
      /\ Raw(i).y1 \in 0..h /\ Raw(i).y1 # h /\ Raw(k).y1 \in 0..h /\ Raw(k).y1 # h
  <2>1. \A i1 \in {i, k} : /\ ~(Raw(i1).x1 < 0) /\ ~(Raw(i1).x1 >= w)
                           /\ ~(Raw(i1).y1 < 0) /\ ~(Raw(i1).y1 >= h)
    BY DEF StartsOutside
  <2> HIDE DEF w, h
  <2> QED
    BY <1>1, <1>2, <2>1
<1> HIDE DEF w, h
<1>6. /\ a.x = Raw(i).x1 /\ b.x = Raw(k).x1 /\ a.y = Raw(i).y1 /\ b.y = Raw(k).y1
  <2>1. /\ \A v \in 0..w : Clamp(v, w) = v
        /\ \A v \in 0..h : Clamp(v, h) = v
    BY <1>1, ClampedTo
  <2> QED
    BY <1>3, <1>5, <2>1, Zenon
<1>7. /\ Common(Raw(i).x1, Clamp(Raw(i).x2 - Raw(i).x1, w),
                Raw(k).x1, Clamp(Raw(k).x2 - Raw(k).x1, w)) # 0
      /\ Common(Raw(i).y1, Clamp(Raw(i).y2 - Raw(i).y1, h),
                Raw(k).y1, Clamp(Raw(k).y2 - Raw(k).y1, h)) # 0
  BY <1>3, <1>4, <1>6, Zenon
<1>8. /\ Clamp(Raw(i).x1, w) < Clamp(Raw(k).x2, w)
      /\ Clamp(Raw(k).x1, w) < Clamp(Raw(i).x2, w)
  BY <1>1, <1>2, <1>5, <1>7, SideShared, Zenon
<1>9. /\ Clamp(Raw(i).y1, h) < Clamp(Raw(k).y2, h)
      /\ Clamp(Raw(k).y1, h) < Clamp(Raw(i).y2, h)
  BY <1>1, <1>2, <1>5, <1>7, SideShared, Zenon
<1> QED
  BY <1>8, <1>9 DEF SameSpot, Left, Right, Top, Bottom, w, h

(* For images of any size and any predictions: what was measured is shown  *)
(* by a crop of the result, or gave way to a better detection of the same  *)
(* spot or to a full class (bbox.py:23-29, detector.py:459-489,            *)
(* detection_artifacts.py's _crop_detection).                              *)
THEOREM DetectorFaultsStayVisible == Spec => []FaultsStayVisible
<1>1. VisibleIInv => FaultsStayVisible
  <2> SUFFICES ASSUME VisibleIInv, phase = "done", NEW i \in Position, Measured(i)
               PROVE  \/ i \in Kept /\ CropShows(i)
                      \/ media = "video" /\ Cardinality(Rivals(i)) = Cap
                      \/ \E k \in BetterKept(i) :
                           SameSpot(i, k) \/ StartsOutside(i) \/ StartsOutside(k) \/ ~Measured(k)
    BY DEF FaultsStayVisible
  <2>1. CropShows(i)
    BY MeasuredIsShown
  <2>2. media \in {"image", "video"} /\ todo = {} /\ TypeIInv
    BY DEF VisibleIInv, GreedyIInv, TypeIInv, TypeOK
  <2>3. CASE media = "image"
    BY <2>1, <2>3 DEF VisibleIInv, ImageComplete
  <2>4. CASE media = "video" /\ i \notin Kept
    <3>1. /\ Cardinality(Rivals(i)) <= Cap
          /\ ~(Cardinality(BetterKept(i)) < Cap) \/ \E k \in BetterKept(i) : Duplicates(i, k)
      BY <2>2, <2>4 DEF VisibleIInv, GreedyIInv, Greedy, KeptWithinCap, KeptIfBest
    <3>2. CASE ~(Cardinality(BetterKept(i)) < Cap)
      <4>1. BetterKept(i) \subseteq Rivals(i)
        BY DEF BetterKept
      <4>2. IsFiniteSet(Rivals(i)) /\ Cardinality(Rivals(i)) \in Nat
        BY <2>2, KeptFinite
      <4>3. /\ IsFiniteSet(BetterKept(i))
            /\ Cardinality(BetterKept(i)) <= Cardinality(Rivals(i))
        BY <4>1, <4>2, FS_Subset
      <4>4. Cardinality(BetterKept(i)) \in Nat /\ Cap \in Nat
        BY <4>3, FS_CardinalityType, Constants
      <4> QED
        BY <2>4, <3>1, <3>2, <4>2, <4>3, <4>4
    <3>3. CASE \E k \in BetterKept(i) : Duplicates(i, k)
      <4>1. PICK k \in BetterKept(i) : Duplicates(i, k)
        BY <3>3
      <4>2. k \in Position
        BY <2>2, KeptFinite DEF BetterKept, Rivals
      <4> QED
        BY <4>1, <4>2, DuplicateIsSameSpot
    <3> QED
      BY <3>1, <3>2, <3>3
  <2> QED
    BY <2>1, <2>2, <2>3, <2>4
<1> QED
  BY <1>1, VisibleInit, VisibleNext, PTL DEF Spec
=============================================================================
