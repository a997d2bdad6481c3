---------------------------- MODULE ArtifactStore ---------------------------
(***************************************************************************)
(* Previews and crops of a video's detections, on a disk that containers   *)
(* share and that outlives them.  The job may be delivered again after a   *)
(* lost connection or a crash, to another worker or to the same.           *)
(* Source: shared/services/detection_artifacts.py                          *)
(*                                                                         *)
(* A preview is named after its frame, a crop also after the detection's   *)
(* id, which is drawn anew whenever the video is analyzed.  Deliveries     *)
(* find the same detections; file names differ only in id and frame.       *)
(***************************************************************************)
EXTENDS Naturals, Sequences

CONSTANTS Worker,
          FrameOf,      \* the frame of each detection, in the order of the result
          MaxDeliveries \* bound: deliveries of the job

ASSUME ArtifactAssumption == FrameOf \in Seq(Nat) /\ MaxDeliveries \in Nat

VARIABLES
  files,       \* state of each file on the disk
  at,          \* worker: idle, check, open, write
  delivery,    \* worker: which delivery it works on
  index, part, \* worker: the detection, and its preview or its crop
  urls,        \* worker: files its result refers to so far
  published,   \* files that published results refer to
  deliveries,
  faulty       \* a crash or a failed write happened (kept as history)

storeVars == <<files, at, delivery, index, part, urls, published, deliveries, faulty>>

Detection == 1..Len(FrameOf)
FileName ==
  {<<"frame", FrameOf[i], 0>> : i \in Detection}
    \cup {<<"crop", i, d>> : i \in Detection, d \in 1..MaxDeliveries}

StoreTypeOK ==
  /\ files \in [FileName -> {"absent", "torn", "whole"}]
  /\ at \in [Worker -> {"idle", "check", "open", "write"}]
  /\ delivery \in [Worker -> 0..MaxDeliveries]
  /\ index \in [Worker -> Nat]
  /\ part \in [Worker -> {"frame", "crop"}]
  /\ urls \in [Worker -> SUBSET FileName]
  /\ published \subseteq FileName
  /\ deliveries \in 0..MaxDeliveries
  /\ faulty \in BOOLEAN
  /\ \A w \in Worker : at[w] \in {"open", "write"} => index[w] \in Detection

StoreInit ==
  /\ files = [n \in FileName |-> "absent"]
  /\ at = [w \in Worker |-> "idle"]
  /\ delivery = [w \in Worker |-> 0]
  /\ index = [w \in Worker |-> 1]
  /\ part = [w \in Worker |-> "frame"]
  /\ urls = [w \in Worker |-> {}]
  /\ published = {}
  /\ deliveries = 0
  /\ faulty = FALSE

(* Mutant: crops are named after the detection's position. *)
FileByPosition(w) ==
  IF part[w] = "frame" THEN <<"frame", FrameOf[index[w]], 0>>
                       ELSE <<"crop", index[w], 1>>

File(w) ==
  IF part[w] = "frame" THEN <<"frame", FrameOf[index[w]], 0>>
                       ELSE <<"crop", index[w], delivery[w]>>

Deliver(w) ==
  /\ at[w] = "idle"
  /\ deliveries < MaxDeliveries
  /\ deliveries' = deliveries + 1
  /\ delivery' = [delivery EXCEPT ![w] = deliveries']
  /\ at' = [at EXCEPT ![w] = "check"]
  /\ index' = [index EXCEPT ![w] = 1]
  /\ part' = [part EXCEPT ![w] = "frame"]
  /\ urls' = [urls EXCEPT ![w] = {}]
  /\ UNCHANGED <<files, published, faulty>>

(* The preview is done, then the crop, then the next detection. *)
Advance(w) ==
  /\ at' = [at EXCEPT ![w] = "check"]
  /\ part' = [part EXCEPT ![w] = IF @ = "frame" THEN "crop" ELSE "frame"]
  /\ index' = [index EXCEPT ![w] = IF part[w] = "crop" THEN @ + 1 ELSE @]
  /\ UNCHANGED <<delivery, published, deliveries>>

Checking(w) == at[w] = "check" /\ index[w] \in Detection

(* Mutant: after a missing frame the next detection's preview is written   *)
(* unseen.                                                                 *)
SkipIntoWrite(w) ==
  /\ Checking(w) /\ part[w] = "frame"
  /\ index' = [index EXCEPT ![w] = @ + 1]
  /\ at' = [at EXCEPT ![w] = "open"]
  /\ UNCHANGED <<files, delivery, part, urls, published, deliveries, faulty>>

(* The frame cannot be decoded: neither preview nor crop. *)
SkipDetection(w) ==
  /\ Checking(w) /\ part[w] = "frame"
  /\ index' = [index EXCEPT ![w] = @ + 1]
  /\ UNCHANGED <<files, at, delivery, part, urls, published, deliveries, faulty>>

(* _crop_detection: the rounded box is empty. *)
NoCrop(w) ==
  /\ Checking(w) /\ part[w] = "crop"
  /\ Advance(w)
  /\ UNCHANGED <<files, urls, faulty>>

(***************************************************************************)
(* _write_jpeg_once: exists, then imwrite, which truncates and writes      *)
(***************************************************************************)
FileExists(w) ==
  /\ Checking(w)
  /\ files[File(w)] # "absent"
  /\ urls' = [urls EXCEPT ![w] = @ \cup {File(w)}]
  /\ Advance(w)
  /\ UNCHANGED <<files, faulty>>

FileMissing(w) ==
  /\ Checking(w)
  /\ files[File(w)] = "absent"
  /\ at' = [at EXCEPT ![w] = "open"]
  /\ UNCHANGED <<files, delivery, index, part, urls, published, deliveries, faulty>>

OpenFile(w) ==
  /\ at[w] = "open"
  /\ files' = [files EXCEPT ![File(w)] = "torn"]
  /\ at' = [at EXCEPT ![w] = "write"]
  /\ UNCHANGED <<delivery, index, part, urls, published, deliveries, faulty>>

(* Mutant: the url is attached before the file is written. *)
WriteAfterUrl(w) ==
  /\ at[w] \in {"open", "write"}
  /\ files' = [files EXCEPT ![File(w)] = IF at[w] = "write" THEN "whole" ELSE @]
  /\ urls' = [urls EXCEPT ![w] = @ \cup {File(w)}]
  /\ Advance(w)
  /\ UNCHANGED faulty

WriteFile(w) ==
  /\ at[w] = "write"
  /\ files' = [files EXCEPT ![File(w)] = "whole"]
  /\ urls' = [urls EXCEPT ![w] = @ \cup {File(w)}]
  /\ Advance(w)
  /\ UNCHANGED faulty

(* imwrite returns False, before or after it opened the file: no url. *)
WriteFails(w) ==
  /\ at[w] \in {"open", "write"}
  /\ faulty' = TRUE
  /\ Advance(w)
  /\ UNCHANGED <<files, urls>>

(***************************************************************************)
(* The result with its urls is published, or the analysis fails (mkdir     *)
(* raises, or anything after it does) and the urls are dropped.            *)
(***************************************************************************)
Finish(w) ==
  /\ at[w] = "check" /\ index[w] > Len(FrameOf)
  /\ at' = [at EXCEPT ![w] = "idle"]
  /\ published' \in {published, published \cup urls[w]}
  /\ UNCHANGED <<files, delivery, index, part, urls, deliveries, faulty>>

WorkerDies(w) ==
  /\ at[w] # "idle"
  /\ at' = [at EXCEPT ![w] = "idle"]
  /\ urls' = [urls EXCEPT ![w] = {}]
  /\ faulty' = TRUE
  /\ UNCHANGED <<files, delivery, index, part, published, deliveries>>

WriteOnce(w) ==
  FileExists(w) \/ FileMissing(w) \/ OpenFile(w) \/ WriteFile(w) \/ WriteFails(w)

StoreNext ==
  \E w \in Worker :
    \/ Deliver(w)
    \/ SkipDetection(w) \/ NoCrop(w) \/ WriteOnce(w)
    \/ Finish(w)
    \/ WorkerDies(w)

StoreSpec == StoreInit /\ [][StoreNext]_storeVars

(***************************************************************************)
(* Properties                                                              *)
(***************************************************************************)
(* Whatever crashes, fails or runs in parallel, a published crop is whole: *)
(* its url is attached after its write, and no other analysis of the video *)
(* uses the same name (lines 95-104, Detection.id).                        *)
CropsAreWhole ==
  \A n \in published : n[1] = "crop" => files[n] = "whole"

(* That exists and imwrite are two steps does no lasting harm: two workers *)
(* that write the same preview leave it whole, unless one of them crashed  *)
(* or could not write (lines 128-130).                                     *)
RaceHealsItself ==
  ~faulty /\ (\A w \in Worker : at[w] = "idle") =>
    \A n \in published : files[n] = "whole"
=============================================================================
