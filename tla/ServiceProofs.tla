---------------------------- MODULE ServiceProofs ----------------------------
(***************************************************************************)
(* Proofs about the smaller components around the pipelines: the life of   *)
(* the process, for any requests and any number of crashes, and the files  *)
(* of detections, for any workers, detections and number of deliveries.    *)
(***************************************************************************)
EXTENDS ServiceLifecycle, ArtifactStore, TLAPS

-------------------------------------------------------------------------------
(* The life of the process *)

(* The loader has gone past, and the lifespan has found, the model.  With  *)
(* it NoWorkWithoutModel is inductive.                                     *)
LifeIInv ==
  /\ TypeOK
  /\ loader \in {"assigned", "ready", "done"} => model
  /\ lifespan = "starting" => model
  /\ NoWorkWithoutModel

LEMMA LifeInitIInv == LifecycleAssumption /\ Init => LifeIInv
<1> SUFFICES ASSUME LifecycleAssumption, Init
             PROVE  LifeIInv
  OBVIOUS
<1>1. lifespan \in {"joining", "serving"} /\ (runtime = "server" => lifespan = "serving")
  BY DEF Init, Lifespan
<1>2. \A r \in Request : request[r] = "none"
  BY DEF Init
<1>3. request \in [Request -> {"none"}]
  BY DEF Init
<1>4. broker \in BOOLEAN /\ model \in BOOLEAN /\ ready \in BOOLEAN
  BY Zenon DEF Init
<1>5. TypeOK
  BY <1>1, <1>3, <1>4 DEF LifecycleAssumption, Init, TypeOK
<1>6. QED
  BY <1>1, <1>2, <1>5 DEF Init, LifeIInv, NoWorkWithoutModel, Running

LEMMA LifeNextIInv ==
  LifecycleAssumption /\ LifeIInv /\ [Next]_vars => LifeIInv'
<1> SUFFICES ASSUME LifecycleAssumption, LifeIInv, [Next]_vars
             PROVE  LifeIInv'
  OBVIOUS
<1> USE DEF LifecycleAssumption, LifeIInv, TypeOK, settings,
            Running, NoWorkWithoutModel
<1>1. CASE Load
  BY <1>1 DEF Load
<1>2. CASE SetReady
  BY <1>2 DEF SetReady
<1>3. CASE ServerStarts
  BY <1>3 DEF ServerStarts, StartThread, Thread
<1>4. CASE ServerStartFails
  BY <1>4 DEF ServerStartFails
<1>5. CASE Join
  BY <1>5 DEF Join
<1>6. CASE EdgeStarts
  BY <1>6 DEF EdgeStarts, StartThread, Thread
<1>7. ASSUME NEW r \in Request, Post(r) \/ Task(r)
      PROVE  LifeIInv'
  <2>1. PICK to \in {"accepted", "refused", "reporting", "answered", "unreported"} :
          /\ Move(r, to)
          /\ to \in Running => model
    BY <1>7 DEF Post, Task, Analyze, Report
  <2>2. /\ request' \in [Request -> {"none", "refused", "answered", "unreported", "lost"}
                                     \cup Running]
        /\ \A q \in Request : request'[q] \in Running =>
                             request[q] \in Running \/ model
    BY <2>1 DEF Move
  <2>3. UNCHANGED <<runtime, broker, loader, model, ready, lifespan, consumers, mishaps,
                    crashes>>
    BY <2>1 DEF Move, startVars
  <2>4. QED
    BY <2>2, <2>3
<1>8. CASE Crash
  <2>1. lifespan' \in {"joining", "serving"} /\ (runtime = "server" => lifespan' = "serving")
    BY <1>8 DEF Crash, Restart, Lifespan
  <2>2. /\ request' \in [Request -> {"none", "refused", "answered", "unreported", "lost"}]
        /\ crashes' \in 0..MaxCrashes
    BY <1>8 DEF Crash
  <2>3. model' \in BOOLEAN /\ ready' \in BOOLEAN
    BY <1>8, Zenon DEF Crash, Restart
  <2>4. /\ UNCHANGED <<runtime, broker>>
        /\ loader' = "loading" /\ consumers' = {} /\ mishaps' = {}
    BY <1>8 DEF Crash, Restart
  <2>5. \A r \in Request : request'[r] \notin Running
    BY <2>2
  <2>6. QED
    BY <2>1, <2>2, <2>3, <2>4, <2>5
<1>9. CASE UNCHANGED vars
  BY <1>9 DEF vars
<1>10. QED
  BY <1>1, <1>2, <1>3, <1>4, <1>5, <1>6, <1>7, <1>8, <1>9 DEF Next, StartUp

(* TypeOK of ServiceLifecycle, for every number of requests and crashes. *)
THEOREM LifecycleTypeCorrect == Spec => []TypeOK
<1>1. LifeIInv => TypeOK
  BY DEF LifeIInv
<1>2. QED
  BY <1>1, LifecycleAssumption, LifeInitIInv, LifeNextIInv, PTL DEF Spec

(* NoWorkWithoutModel: no consumer runs and no REST request is under way   *)
(* in a process that has no model, whatever fails and however often it is  *)
(* restarted.                                                              *)
THEOREM LifecycleNoWorkWithoutModel == Spec => []NoWorkWithoutModel
<1>1. LifeIInv => NoWorkWithoutModel
  BY DEF LifeIInv
<1>2. QED
  BY <1>1, LifecycleAssumption, LifeInitIInv, LifeNextIInv, PTL DEF Spec

-------------------------------------------------------------------------------
(* Previews and crops *)

(* A worker that is not idle works on a delivery of its own. *)
Deliveries ==
  \A w \in Worker :
    /\ at[w] # "idle" => delivery[w] \in 1..deliveries
    /\ delivery[w] <= deliveries
    /\ \A v \in Worker : delivery[v] = delivery[w] => v = w \/ delivery[w] = 0

(* The workers of crop n's delivery have gone past its detection. *)
Passed(n) ==
  \A w \in Worker :
    at[w] # "idle" /\ delivery[w] = n[3] => n[2] < index[w]

Written(n) ==
  \E w \in Worker : at[w] = "write" /\ n = File(w)

(* A crop on the disk is of a delivery that happened, and whoever works on *)
(* that delivery has gone past it or is just writing it.                   *)
CropsOnDisk ==
  \A n \in FileName :
    n[1] = "crop" /\ files[n] # "absent" =>
      n[3] <= deliveries /\ (Passed(n) \/ Written(n))

Referred == published \cup UNION {urls[w] : w \in Worker}

(* A file that a result refers to exists; a crop is whole, for good. *)
ReferredFiles ==
  \A n \in Referred :
    /\ files[n] # "absent"
    /\ n[1] = "crop" => files[n] = "whole" /\ Passed(n)

(* Unless something failed, whoever tore a file is still writing it. *)
TornIsWritten ==
  ~faulty => \A n \in FileName : files[n] = "torn" => Written(n)

StoreIInv ==
  StoreTypeOK /\ Deliveries /\ CropsOnDisk /\ ReferredFiles /\ TornIsWritten

LEMMA StoreInitIInv == ArtifactAssumption /\ StoreInit => StoreIInv
<1> SUFFICES ASSUME ArtifactAssumption, StoreInit
             PROVE  StoreIInv
  OBVIOUS
<1>1. StoreTypeOK
  <2>1. /\ files \in [FileName -> {"absent"}]
        /\ \A w \in Worker : at[w] = "idle"
    BY DEF StoreInit
  <2>2. faulty \in BOOLEAN
    BY Zenon DEF StoreInit
  <2>3. QED
    BY <2>1, <2>2 DEF ArtifactAssumption, StoreInit, StoreTypeOK
<1>2. Deliveries
  BY DEF StoreInit, Deliveries
<1>3. CropsOnDisk /\ TornIsWritten
  BY DEF StoreInit, CropsOnDisk, TornIsWritten
<1>4. Referred = {}
  BY DEF StoreInit, Referred
<1>5. QED
  BY <1>1, <1>2, <1>3, <1>4 DEF StoreIInv, ReferredFiles

(* The name of the file a worker is at. *)
LEMMA FileNames ==
  ASSUME StoreTypeOK, ArtifactAssumption, Deliveries,
         NEW w \in Worker, at[w] # "idle", index[w] \in Detection
  PROVE  /\ File(w) \in FileName
         /\ part[w] = "frame" => File(w)[1] = "frame"
         /\ part[w] = "crop" => /\ File(w)[1] = "crop"
                                /\ File(w)[2] = index[w]
                                /\ File(w)[3] = delivery[w]
<1>1. delivery[w] \in 1..MaxDeliveries /\ part[w] \in {"frame", "crop"}
  BY DEF StoreTypeOK, Deliveries
<1>2. CASE part[w] = "frame"
  BY <1>2 DEF File, FileName
<1>3. CASE part[w] = "crop"
  <2>1. File(w) = <<"crop", index[w], delivery[w]>>
    BY <1>3 DEF File
  <2>2. QED
    BY <1>1, <1>3, <2>1 DEF FileName
<1>4. QED
  BY <1>1, <1>2, <1>3

(* What a file's name tells: positions and deliveries are numbers. *)
LEMMA CropNames ==
  ASSUME ArtifactAssumption, NEW n \in FileName, n[1] = "crop"
  PROVE  n[2] \in Detection /\ n[3] \in 1..MaxDeliveries
<1>1. PICK i \in Detection, d \in 1..MaxDeliveries : n = <<"crop", i, d>>
  BY DEF FileName
<1>2. QED
  BY <1>1

LEMMA ReferredAreFiles ==
  ASSUME StoreTypeOK
  PROVE  Referred \subseteq FileName
BY DEF StoreTypeOK, Referred

-------------------------------------------------------------------------------
(* One worker moves: the others stay where they are, and of the files only *)
(* the one it is at changes.                                               *)
OthersStay(w) ==
  /\ \A v \in Worker \ {w} :
       /\ at'[v] = at[v] /\ delivery'[v] = delivery[v] /\ index'[v] = index[v]
       /\ part'[v] = part[v] /\ urls'[v] = urls[v]
  /\ \A n \in FileName : n # File(w) => files'[n] = files[n]
  /\ DOMAIN files' = FileName

LEMMA DeliverKeeps ==
  ASSUME StoreIInv, ArtifactAssumption, NEW w \in Worker, Deliver(w)
  PROVE  StoreIInv'
<1> USE DEF StoreIInv
<1>1. StoreTypeOK'
  BY DEF StoreTypeOK, Deliver, ArtifactAssumption
<1>2. /\ at[w] = "idle" /\ at'[w] = "check" /\ delivery'[w] = deliveries + 1
      /\ deliveries \in Nat /\ deliveries' = deliveries + 1 /\ deliveries' <= MaxDeliveries
      /\ \A v \in Worker : delivery[v] \in Nat
      /\ \A v \in Worker \ {w} :
           at'[v] = at[v] /\ delivery'[v] = delivery[v] /\ index'[v] = index[v]
           /\ part'[v] = part[v] /\ urls'[v] = urls[v]
      /\ urls'[w] = {}
      /\ files' = files /\ published' = published /\ faulty' = faulty
  BY DEF StoreTypeOK, Deliver, ArtifactAssumption
<1>3. Deliveries'
  <2>1. \A v \in Worker \ {w} : /\ at'[v] # "idle" => delivery'[v] \in 1..deliveries'
                               /\ delivery'[v] < deliveries'
    BY <1>2 DEF Deliveries
  <2>2. delivery'[w] = deliveries' /\ delivery'[w] \in 1..deliveries'
    BY <1>2
  <2>3. \A v \in Worker : delivery'[v] <= deliveries' /\ delivery'[v] \in Nat
    BY <1>2, <2>1
  <2>4. \A u, v \in Worker \ {w} : delivery'[v] = delivery'[u] => v = u \/ delivery'[u] = 0
    BY <1>2 DEF Deliveries
  <2>5. QED
    BY <1>2, <2>1, <2>2, <2>3, <2>4 DEF Deliveries
<1>4. ASSUME NEW n \in FileName, n[1] = "crop", n[3] <= deliveries, Passed(n)
      PROVE  Passed(n)'
  <2>1. n[3] \in Nat
    BY <1>4, CropNames
  <2>2. delivery'[w] # n[3]
    BY <1>2, <1>4, <2>1
  <2>3. \A v \in Worker \ {w} : at'[v] # "idle" /\ delivery'[v] = n[3] => n[2] < index'[v]
    BY <1>2, <1>4 DEF Passed
  <2>4. QED
    BY <2>2, <2>3 DEF Passed
<1>5. ASSUME NEW n, Written(n)
      PROVE  Written(n)'
  <2>1. PICK v \in Worker : at[v] = "write" /\ n = File(v)
    BY <1>5 DEF Written
  <2>2. v # w
    BY <1>2, <2>1
  <2>3. at'[v] = "write" /\ n = File(v)'
    BY <1>2, <2>1, <2>2 DEF File
  <2>4. QED
    BY <2>3 DEF Written
<1>6. CropsOnDisk'
  <2> SUFFICES ASSUME NEW n \in FileName, n[1] = "crop", files[n] # "absent"
               PROVE  n[3] <= deliveries' /\ (Passed(n)' \/ Written(n)')
    BY <1>2 DEF CropsOnDisk
  <2>1. n[3] <= deliveries /\ (Passed(n) \/ Written(n))
    BY DEF CropsOnDisk
  <2>2. n[3] \in Nat
    BY CropNames
  <2>3. QED
    BY <1>2, <1>4, <1>5, <2>1, <2>2
<1>7. Referred' \subseteq Referred
  BY <1>2 DEF Referred
<1>8. ReferredFiles'
  <2> SUFFICES ASSUME NEW n \in Referred
               PROVE  files[n] # "absent" /\ (n[1] = "crop" => files[n] = "whole" /\ Passed(n)')
    BY <1>2, <1>7 DEF ReferredFiles
  <2>1. files[n] # "absent" /\ (n[1] = "crop" => files[n] = "whole" /\ Passed(n))
    BY DEF ReferredFiles
  <2>2. n \in FileName
    BY ReferredAreFiles
  <2>3. n[1] = "crop" => n[3] <= deliveries
    BY <2>1, <2>2 DEF CropsOnDisk
  <2>4. QED
    BY <1>4, <2>1, <2>2, <2>3
<1>9. TornIsWritten'
  BY <1>2, <1>5 DEF TornIsWritten
<1>10. QED
  BY <1>1, <1>3, <1>6, <1>8, <1>9

(* A worker that goes on, or stops, leaves behind what it has passed. *)
LEMMA PassedKept ==
  ASSUME StoreTypeOK, StoreTypeOK', NEW w \in Worker, at[w] # "idle", OthersStay(w),
         delivery' = delivery, at'[w] = "idle" \/ index'[w] >= index[w],
         NEW n, n[2] \in Nat, Passed(n)
  PROVE  Passed(n)'
<1>1. index[w] \in Nat /\ index'[w] \in Nat
  BY DEF StoreTypeOK
<1>2. at'[w] # "idle" /\ delivery'[w] = n[3] => n[2] < index'[w]
  BY <1>1 DEF Passed
<1>3. \A v \in Worker \ {w} : at'[v] # "idle" /\ delivery'[v] = n[3] => n[2] < index'[v]
  BY DEF Passed, OthersStay
<1>4. QED
  BY <1>2, <1>3 DEF Passed

(* The crop a worker is at is passed once it has gone on, or stopped: no   *)
(* other works on its delivery.                                            *)
LEMMA OwnCropPassed ==
  ASSUME StoreIInv, ArtifactAssumption, NEW w \in Worker, at[w] # "idle", OthersStay(w),
         delivery' = delivery, index[w] \in Detection, part[w] = "crop",
         at'[w] = "idle" \/ index'[w] > index[w], NEW n, n = File(w)
  PROVE  Passed(n)'
<1>1. n[2] = index[w] /\ n[3] = delivery[w]
  BY FileNames DEF StoreIInv
<1>2. delivery[w] # 0
  BY DEF StoreIInv, StoreTypeOK, Deliveries
<1>3. \A v \in Worker \ {w} : delivery'[v] # n[3]
  BY <1>1, <1>2 DEF StoreIInv, Deliveries
<1>4. at'[w] # "idle" => n[2] < index'[w]
  BY <1>1 DEF StoreIInv, StoreTypeOK
<1>5. \A v \in Worker : at'[v] # "idle" /\ delivery'[v] = n[3] => n[2] < index'[v]
  BY <1>3, <1>4
<1>6. QED
  BY <1>5 DEF Passed

(* Nobody has passed the crop a worker is at, or writes it in its place.   *)
LEMMA OwnCropFresh ==
  ASSUME StoreIInv, ArtifactAssumption, NEW w \in Worker, at[w] # "idle",
         index[w] \in Detection, part[w] = "crop"
  PROVE  /\ ~ Passed(File(w))
         /\ Written(File(w)) => at[w] = "write"
<1>1. /\ File(w) \in FileName /\ File(w)[1] = "crop"
      /\ File(w)[2] = index[w] /\ File(w)[3] = delivery[w]
  BY FileNames DEF StoreIInv
<1>2. ~ Passed(File(w))
  BY <1>1 DEF Passed, StoreIInv, StoreTypeOK
<1>3. ASSUME NEW v \in Worker, at[v] = "write", File(w) = File(v)
      PROVE  v = w
  <2>1. index[v] \in Detection /\ part[v] \in {"frame", "crop"}
    BY <1>3 DEF StoreIInv, StoreTypeOK
  <2>2. part[v] = "crop"
    BY <1>1, <1>3, <2>1, FileNames DEF StoreIInv
  <2>3. delivery[v] = delivery[w]
    BY <1>1, <1>3, <2>1, <2>2, FileNames DEF StoreIInv
  <2>4. delivery[w] # 0
    BY DEF StoreIInv, StoreTypeOK, Deliveries
  <2>5. QED
    BY <2>3, <2>4 DEF StoreIInv, Deliveries
<1>4. QED
  BY <1>2, <1>3 DEF Written

LEMMA WrittenKept ==
  ASSUME NEW w \in Worker, OthersStay(w), NEW n, Written(n),
         at[w] # "write" \/ n # File(w)
  PROVE  Written(n)'
<1>1. PICK v \in Worker : at[v] = "write" /\ n = File(v)
  BY DEF Written
<1>2. at'[v] = "write" /\ n = File(v)'
  BY <1>1 DEF OthersStay, File
<1>3. QED
  BY <1>2 DEF Written

-------------------------------------------------------------------------------
(* What every step of a worker has in common *)

(* It goes on or stops; once it has written a crop, it goes on.            *)
GoesOn(w) ==
  /\ at[w] # "idle" /\ OthersStay(w)
  /\ UNCHANGED <<delivery, deliveries>>
  /\ at'[w] = "idle" \/ index'[w] >= index[w]
  /\ at[w] = "write" /\ part[w] = "crop" => at'[w] = "idle" \/ index'[w] > index[w]

(* It leaves the disk alone, tears the file it opened, or finishes it.     *)
Touches(w) ==
  /\ \/ files' = files
     \/ at[w] = "write" /\ files'[File(w)] = "whole"
     \/ /\ at[w] = "open" /\ files'[File(w)] = "torn"
        /\ at'[w] = "write" /\ File(w)' = File(w)
  /\ ~faulty' => ~faulty
  /\ ~faulty' /\ at[w] = "write" => files'[File(w)] = "whole"

(* It refers to the file it is at, if that exists or it finished writing.  *)
Refers(w) ==
  /\ Referred' \subseteq Referred \cup {File(w)}
  /\ File(w) \in Referred' =>
       \/ File(w) \in Referred
       \/ /\ index[w] \in Detection
          /\ part[w] = "crop" => index'[w] > index[w]
          /\ \/ at[w] = "check" /\ files[File(w)] # "absent" /\ files' = files
             \/ at[w] = "write" /\ files'[File(w)] = "whole"

LEMMA CropsOnDiskKept ==
  ASSUME StoreIInv, ArtifactAssumption, StoreTypeOK', NEW w \in Worker,
         GoesOn(w), Touches(w)
  PROVE  CropsOnDisk'
<1> SUFFICES ASSUME NEW n \in FileName, n[1] = "crop", files'[n] # "absent"
             PROVE  n[3] <= deliveries' /\ (Passed(n)' \/ Written(n)')
  BY DEF CropsOnDisk
<1> USE DEF GoesOn
<1>1. n[2] \in Nat
  BY CropNames DEF Detection
<1>2. CASE n = File(w) /\ at[w] \in {"open", "write"}
  <2>1. index[w] \in Detection /\ part[w] \in {"frame", "crop"}
    BY <1>2 DEF StoreIInv, StoreTypeOK
  <2>2. part[w] = "crop" /\ n[3] = delivery[w]
    BY <1>2, <2>1, FileNames DEF StoreIInv
  <2>3. n[3] <= deliveries'
    BY <2>2 DEF StoreIInv, Deliveries
  <2>4. CASE at[w] = "write"
    BY <1>2, <2>1, <2>2, <2>3, <2>4, OwnCropPassed
  <2>5. CASE at[w] = "open"
    <3>1. CASE files' = files
      <4>1. Passed(n) \/ Written(n)
        BY <3>1 DEF StoreIInv, CropsOnDisk
      <4>2. QED
        BY <1>2, <2>1, <2>2, <2>5, <4>1, OwnCropFresh
    <3>2. CASE at'[w] = "write" /\ File(w)' = File(w)
      BY <1>2, <2>3, <3>2 DEF Written
    <3>3. QED
      BY <2>5, <3>1, <3>2 DEF Touches
  <2>6. QED
    BY <1>2, <2>4, <2>5
<1>3. CASE ~(n = File(w) /\ at[w] \in {"open", "write"})
  <2>1. files[n] # "absent"
    BY <1>3 DEF OthersStay, Touches
  <2>2. n[3] <= deliveries /\ (Passed(n) \/ Written(n))
    BY <2>1 DEF StoreIInv, CropsOnDisk
  <2>3. Passed(n) => Passed(n)'
    BY <1>1, PassedKept DEF StoreIInv
  <2>4. Written(n) => Written(n)'
    BY <1>3, WrittenKept
  <2>5. QED
    BY <2>2, <2>3, <2>4
<1>4. QED
  BY <1>2, <1>3

LEMMA ReferredFilesKept ==
  ASSUME StoreIInv, ArtifactAssumption, StoreTypeOK', NEW w \in Worker,
         GoesOn(w), Touches(w), Refers(w)
  PROVE  ReferredFiles'
<1> SUFFICES ASSUME NEW n \in Referred'
             PROVE  /\ files'[n] # "absent"
                    /\ n[1] = "crop" => files'[n] = "whole" /\ Passed(n)'
  BY DEF ReferredFiles
<1> USE DEF GoesOn
<1>0. Referred \subseteq FileName
  BY ReferredAreFiles DEF StoreIInv
<1>1. CASE n \in Referred
  <2>1. n \in FileName /\ files[n] # "absent"
    BY <1>0, <1>1 DEF StoreIInv, ReferredFiles
  <2>2. CASE n = File(w) /\ at[w] \in {"open", "write"}
    <3>1. index[w] \in Detection /\ part[w] \in {"frame", "crop"}
      BY <2>2 DEF StoreIInv, StoreTypeOK
    <3>2. n[1] # "crop"
      <4>1. CASE part[w] = "frame"
        BY <2>2, <3>1, <4>1, FileNames DEF StoreIInv
      <4>2. CASE part[w] = "crop"
        <5>1. ~ Passed(n)
          BY <2>2, <3>1, <4>2, OwnCropFresh
        <5>2. QED
          BY <1>1, <5>1 DEF StoreIInv, ReferredFiles
      <4>3. QED
        BY <3>1, <4>1, <4>2
    <3>3. files'[n] # "absent"
      BY <2>1, <2>2 DEF Touches
    <3>4. QED
      BY <3>2, <3>3
  <2>3. CASE ~(n = File(w) /\ at[w] \in {"open", "write"})
    <3>1. files'[n] = files[n]
      BY <2>1, <2>3 DEF OthersStay, Touches
    <3>2. n[1] = "crop" => n[2] \in Nat /\ files[n] = "whole" /\ Passed(n)
      BY <1>1, <2>1, CropNames DEF Detection, StoreIInv, ReferredFiles
    <3>3. n[1] = "crop" => Passed(n)'
      BY <3>2, PassedKept DEF StoreIInv
    <3>4. QED
      BY <2>1, <3>1, <3>2, <3>3
  <2>4. QED
    BY <2>2, <2>3
<1>2. CASE n \notin Referred
  <2>1. /\ n = File(w) /\ index[w] \in Detection
        /\ part[w] = "crop" => index'[w] > index[w]
        /\ \/ at[w] = "check" /\ files[n] # "absent" /\ files' = files
           \/ at[w] = "write" /\ files'[n] = "whole"
    BY <1>2 DEF Refers
  <2>2. part[w] \in {"frame", "crop"} /\ n \in FileName
    BY <2>1, FileNames DEF StoreIInv, StoreTypeOK
  <2>3. CASE part[w] = "frame"
    <3>1. n[1] = "frame"
      BY <2>1, <2>3, FileNames DEF StoreIInv
    <3>2. QED
      BY <2>1, <3>1
  <2>4. CASE part[w] = "crop"
    <3>1. Passed(n)'
      BY <2>1, <2>4, OwnCropPassed
    <3>2. n[1] = "crop"
      BY <2>1, <2>4, FileNames DEF StoreIInv
    <3>3. at[w] # "check"
      <4>1. SUFFICES ASSUME at[w] = "check", files[n] # "absent"
                     PROVE  FALSE
        BY <2>1
      <4>2. Passed(n) \/ Written(n)
        BY <2>2, <3>2, <4>1 DEF StoreIInv, CropsOnDisk
      <4>3. QED
        BY <2>1, <2>4, <4>1, <4>2, OwnCropFresh
    <3>4. QED
      BY <2>1, <3>1, <3>3
  <2>5. QED
    BY <2>2, <2>3, <2>4
<1>3. QED
  BY <1>1, <1>2

LEMMA WorkKeeps ==
  ASSUME StoreIInv, ArtifactAssumption, StoreTypeOK', NEW w \in Worker,
         GoesOn(w), Touches(w), Refers(w)
  PROVE  StoreIInv'
<1>1. Deliveries'
  <2>1. \A v \in Worker : at'[v] # "idle" => at[v] # "idle"
    BY DEF GoesOn, OthersStay
  <2>2. QED
    BY <2>1 DEF GoesOn, StoreIInv, Deliveries
<1>2. TornIsWritten'
  <2> SUFFICES ASSUME ~faulty', NEW n \in FileName, files'[n] = "torn"
               PROVE  Written(n)'
    BY DEF TornIsWritten
  <2>1. CASE n = File(w) /\ at[w] = "open" /\ files' # files
    BY <2>1 DEF Touches, Written
  <2>2. CASE ~(n = File(w) /\ at[w] = "open" /\ files' # files)
    <3>1. ~(n = File(w) /\ at[w] = "write")
      BY DEF Touches
    <3>2. files[n] = "torn"
      BY <2>2, <3>1 DEF Touches, GoesOn, OthersStay
    <3>3. Written(n)
      BY <3>2 DEF Touches, StoreIInv, TornIsWritten
    <3>4. QED
      BY <3>1, <3>3, WrittenKept DEF GoesOn
  <2>3. QED
    BY <2>1, <2>2
<1>3. QED
  BY <1>1, <1>2, CropsOnDiskKept, ReferredFilesKept DEF StoreIInv

(* What a worker refers to is all that can come to be referred to.         *)
LEMMA ReferredGrows ==
  ASSUME StoreTypeOK, NEW w \in Worker, OthersStay(w),
         NEW F, urls'[w] \subseteq urls[w] \cup F,
         published' \subseteq published \cup urls[w]
  PROVE  Referred' \subseteq Referred \cup F
BY DEF Referred, OthersStay

LEMMA StepKeeps ==
  ASSUME StoreIInv, ArtifactAssumption, NEW w \in Worker,
         \/ SkipDetection(w) \/ NoCrop(w) \/ WriteOnce(w)
         \/ Finish(w) \/ WorkerDies(w)
  PROVE  StoreIInv'
<1> USE DEF StoreIInv
<1>0. /\ files \in [FileName -> {"absent", "torn", "whole"}]
      /\ index[w] \in Nat /\ part[w] \in {"frame", "crop"} /\ urls[w] \subseteq FileName
      /\ at[w] \in {"open", "write"} => index[w] \in Detection
  BY DEF StoreTypeOK
<1>1. CASE SkipDetection(w)
  <2>1. StoreTypeOK'
    BY <1>0, <1>1 DEF StoreTypeOK, SkipDetection, Checking
  <2>2. OthersStay(w) /\ index'[w] = index[w] + 1 /\ at[w] = "check"
    BY <1>0, <1>1 DEF OthersStay, SkipDetection, Checking, StoreTypeOK
  <2>3. GoesOn(w) /\ Touches(w)
    BY <1>0, <1>1, <2>2 DEF GoesOn, Touches, SkipDetection
  <2>4. Referred' = Referred
    BY <1>1 DEF Referred, SkipDetection
  <2>5. QED
    BY <2>1, <2>3, <2>4, WorkKeeps DEF Refers
<1>2. CASE NoCrop(w)
  <2>1. StoreTypeOK'
    BY <1>0, <1>2 DEF StoreTypeOK, NoCrop, Checking, Advance
  <2>2. OthersStay(w) /\ index'[w] = index[w] + 1 /\ at[w] = "check"
    BY <1>0, <1>2 DEF OthersStay, NoCrop, Checking, Advance, StoreTypeOK
  <2>3. GoesOn(w) /\ Touches(w)
    BY <1>0, <1>2, <2>2 DEF GoesOn, Touches, NoCrop, Advance
  <2>4. Referred' = Referred
    BY <1>2 DEF Referred, NoCrop, Advance
  <2>5. QED
    BY <2>1, <2>3, <2>4, WorkKeeps DEF Refers
<1>3. CASE FileExists(w)
  <2>1. index[w] \in Detection /\ at[w] = "check"
    BY <1>3 DEF FileExists, Checking
  <2>2. File(w) \in FileName
    BY <2>1, FileNames
  <2>3. StoreTypeOK'
    BY <1>0, <1>3, <2>2 DEF StoreTypeOK, FileExists, Advance
  <2>4. OthersStay(w) /\ index'[w] >= index[w] /\ (part[w] = "crop" => index'[w] > index[w])
    BY <1>0, <1>3 DEF OthersStay, FileExists, Advance, StoreTypeOK
  <2>5. GoesOn(w) /\ Touches(w)
    BY <1>3, <2>1, <2>4 DEF GoesOn, Touches, FileExists, Advance
  <2>6. urls'[w] \subseteq urls[w] \cup {File(w)} /\ published' = published
    BY <1>3 DEF FileExists, Advance, StoreTypeOK
  <2>7. Referred' \subseteq Referred \cup {File(w)}
    BY <2>4, <2>6, ReferredGrows
  <2>8. Refers(w)
    BY <1>3, <2>1, <2>4, <2>7 DEF Refers, FileExists
  <2>9. QED
    BY <2>3, <2>5, <2>8, WorkKeeps
<1>4. CASE FileMissing(w)
  <2>1. StoreTypeOK'
    BY <1>0, <1>4 DEF StoreTypeOK, FileMissing, Checking
  <2>2. OthersStay(w) /\ index' = index /\ at[w] = "check"
    BY <1>0, <1>4 DEF OthersStay, FileMissing, Checking, StoreTypeOK
  <2>3. GoesOn(w) /\ Touches(w)
    BY <1>0, <1>4, <2>2 DEF GoesOn, Touches, FileMissing
  <2>4. Referred' = Referred
    BY <1>4 DEF Referred, FileMissing
  <2>5. QED
    BY <2>1, <2>3, <2>4, WorkKeeps DEF Refers
<1>5. CASE OpenFile(w)
  <2>1. File(w) \in FileName /\ at[w] = "open"
    BY <1>0, <1>5, FileNames DEF OpenFile
  <2>2. StoreTypeOK'
    BY <1>0, <1>5 DEF StoreTypeOK, OpenFile
  <2>3. OthersStay(w) /\ index' = index /\ at'[w] = "write" /\ files'[File(w)] = "torn"
    BY <1>0, <1>5, <2>1 DEF OthersStay, OpenFile, StoreTypeOK
  <2>4. File(w)' = File(w)
    BY <1>5 DEF File, OpenFile
  <2>5. GoesOn(w) /\ Touches(w)
    BY <1>0, <1>5, <2>1, <2>3, <2>4 DEF GoesOn, Touches, OpenFile
  <2>6. Referred' = Referred
    BY <1>5 DEF Referred, OpenFile
  <2>7. QED
    BY <2>2, <2>5, <2>6, WorkKeeps DEF Refers
<1>6. CASE WriteFile(w)
  <2>1. File(w) \in FileName /\ at[w] = "write" /\ index[w] \in Detection
    BY <1>0, <1>6, FileNames DEF WriteFile
  <2>2. StoreTypeOK'
    BY <1>0, <1>6, <2>1 DEF StoreTypeOK, WriteFile, Advance
  <2>3. /\ OthersStay(w) /\ files'[File(w)] = "whole"
        /\ index'[w] >= index[w] /\ (part[w] = "crop" => index'[w] > index[w])
    BY <1>0, <1>6, <2>1 DEF OthersStay, WriteFile, Advance, StoreTypeOK
  <2>4. GoesOn(w) /\ Touches(w)
    BY <1>6, <2>1, <2>3 DEF GoesOn, Touches, WriteFile, Advance
  <2>5. urls'[w] \subseteq urls[w] \cup {File(w)} /\ published' = published
    BY <1>6 DEF WriteFile, Advance, StoreTypeOK
  <2>6. Referred' \subseteq Referred \cup {File(w)}
    BY <2>3, <2>5, ReferredGrows
  <2>7. Refers(w)
    BY <2>1, <2>3, <2>6 DEF Refers
  <2>8. QED
    BY <2>2, <2>4, <2>7, WorkKeeps
<1>7. CASE WriteFails(w)
  <2>1. faulty' = TRUE
    BY <1>7 DEF WriteFails
  <2>2. StoreTypeOK'
    <3>1. faulty' \in BOOLEAN
      BY <2>1, Zenon
    <3>2. QED
      BY <1>0, <1>7, <3>1 DEF StoreTypeOK, WriteFails, Advance
  <2>3. /\ OthersStay(w)
        /\ index'[w] >= index[w] /\ (part[w] = "crop" => index'[w] > index[w])
    BY <1>0, <1>7 DEF OthersStay, WriteFails, Advance, StoreTypeOK
  <2>4. GoesOn(w) /\ Touches(w)
    BY <1>7, <2>1, <2>3 DEF GoesOn, Touches, WriteFails, Advance
  <2>5. Referred' = Referred
    BY <1>7 DEF Referred, WriteFails, Advance
  <2>6. QED
    BY <2>2, <2>4, <2>5, WorkKeeps DEF Refers
<1>8. CASE Finish(w)
  <2>1. StoreTypeOK'
    BY <1>0, <1>8 DEF StoreTypeOK, Finish
  <2>2. OthersStay(w) /\ index' = index /\ at[w] = "check" /\ at'[w] = "idle"
    BY <1>0, <1>8 DEF OthersStay, Finish, StoreTypeOK
  <2>3. GoesOn(w) /\ Touches(w)
    BY <1>0, <1>8, <2>2 DEF GoesOn, Touches, Finish
  <2>4. Referred' \subseteq Referred
    BY <1>8 DEF Referred, Finish
  <2>5. QED
    BY <2>1, <2>3, <2>4, WorkKeeps DEF Refers
<1>9. CASE WorkerDies(w)
  <2>1. faulty' = TRUE
    BY <1>9 DEF WorkerDies
  <2>2. StoreTypeOK'
    <3>1. faulty' \in BOOLEAN
      BY <2>1, Zenon
    <3>2. QED
      BY <1>0, <1>9, <3>1 DEF StoreTypeOK, WorkerDies
  <2>3. OthersStay(w) /\ index' = index /\ at'[w] = "idle" /\ at[w] # "idle"
    BY <1>0, <1>9 DEF OthersStay, WorkerDies, StoreTypeOK
  <2>4. GoesOn(w) /\ Touches(w)
    BY <1>9, <2>1, <2>3 DEF GoesOn, Touches, WorkerDies
  <2>5. urls'[w] = {} /\ published' = published
    BY <1>9 DEF WorkerDies, StoreTypeOK
  <2>6. Referred' \subseteq Referred \cup {}
    BY <2>3, <2>5, ReferredGrows
  <2>7. QED
    BY <2>2, <2>4, <2>6, WorkKeeps DEF Refers
<1>10. QED
  BY <1>1, <1>2, <1>3, <1>4, <1>5, <1>6, <1>7, <1>8, <1>9 DEF WriteOnce

LEMMA StoreNextIInv ==
  ArtifactAssumption /\ StoreIInv /\ [StoreNext]_storeVars => StoreIInv'
<1> SUFFICES ASSUME ArtifactAssumption, StoreIInv, [StoreNext]_storeVars
             PROVE  StoreIInv'
  OBVIOUS
<1>1. CASE StoreNext
  BY <1>1, DeliverKeeps, StepKeeps DEF StoreNext
<1>2. CASE UNCHANGED storeVars
  BY <1>2 DEF storeVars, StoreIInv, StoreTypeOK, Deliveries, CropsOnDisk, ReferredFiles,
              TornIsWritten, Referred, Passed, Written, File
<1>3. QED
  BY <1>1, <1>2

(* The strengthened invariant holds for every instance of the constants.   *)
LEMMA StoreSpecIInv == StoreSpec => []StoreIInv
BY ArtifactAssumption, StoreInitIInv, StoreNextIInv, PTL DEF StoreSpec

(* StoreTypeOK of ArtifactStore, for any workers, detections, deliveries.  *)
THEOREM StoreTypeCorrect == StoreSpec => []StoreTypeOK
<1>1. StoreIInv => StoreTypeOK
  BY DEF StoreIInv
<1>2. QED
  BY <1>1, StoreSpecIInv, PTL

(* CropsAreWhole: whatever crashes, fails or runs in parallel, a crop that *)
(* a published result refers to is whole.                                  *)
THEOREM StoreCropsAreWhole == StoreSpec => []CropsAreWhole
<1>1. StoreIInv => CropsAreWhole
  BY DEF StoreIInv, ReferredFiles, Referred, CropsAreWhole
<1>2. QED
  BY <1>1, StoreSpecIInv, PTL

(* RaceHealsItself: workers that write the same preview leave it whole,    *)
(* unless one of them crashed or could not write.                          *)
THEOREM StoreRaceHealsItself == StoreSpec => []RaceHealsItself
<1>1. ASSUME StoreIInv, ~faulty, \A w \in Worker : at[w] = "idle", NEW n \in published
      PROVE  files[n] = "whole"
  <2>1. n \in FileName /\ files[n] # "absent"
    BY <1>1 DEF StoreIInv, StoreTypeOK, ReferredFiles, Referred
  <2>2. files[n] # "torn"
    BY <1>1, <2>1 DEF StoreIInv, TornIsWritten, Written
  <2>3. QED
    BY <1>1, <2>1, <2>2 DEF StoreIInv, StoreTypeOK
<1>2. StoreIInv => RaceHealsItself
  BY <1>1 DEF RaceHealsItself
<1>3. QED
  BY <1>2, StoreSpecIInv, PTL
=============================================================================
