--------------------------- MODULE ServerAnalysis ---------------------------
(***************************************************************************)
(* What ServerPipeline takes as one step: a server thread (a media worker  *)
(* or a REST background task) that downloads the media of one job after    *)
(* another and has it analyzed by the configured backend.                  *)
(* Source: server_pc/app/consumer.py, server_pc/app/main.py,               *)
(* server_pc/app/analysis_runner.py, server_pc/app/video_processor.py,     *)
(* server_pc/app/roboflow_detector.py, shared/services/media_downloader.py *)
(*                                                                         *)
(* Steps: start, url (analyze_url), media (analyze_media), image, harness, *)
(* video, frames, artifacts (a temporary file exists in the last four),    *)
(* workflow (run_evn_object_detection_workflow is called), mapping.        *)
(***************************************************************************)
EXTENDS Integers, FiniteSets

CONSTANTS Backend,        \* the values of SERVER_INFERENCE_BACKEND to consider
          MaxFrames,      \* bound: frames a video has to be sampled for
          MaxJobs,        \* bound: jobs of the thread
          MaxCrashes,     \* bound: crashes of the process
          MaxRetries, TimeoutSeconds, BaseDelay, MaxCalls  \* of WorkflowCall

ASSUME AnalysisAssumption ==
  /\ Backend \subseteq {"harness", "roboflow", "local"}
  /\ MaxFrames \in Nat /\ MaxJobs \in Nat /\ MaxCrashes \in Nat
  /\ MaxCalls >= MaxJobs * (MaxFrames + 1)

VARIABLES
  backend,
  job, number,    \* the current or last job and its number
  step, outcome,
  frame,          \* frames of its video whose detections are collected
  temps,          \* jobs whose temporary file exists
  faults,         \* what went wrong in this job (kept as history)
  spoiled,        \* jobs with a failed write or a crash (kept as history)
  crashes,
  phase, call, attempt, waited, running

ownVars == <<backend, job, number, step, outcome, frame, temps, faults, spoiled, crashes>>
callVars == <<phase, call, attempt, waited, running>>
vars == <<ownVars, callVars>>

Workflow == INSTANCE WorkflowCall

ASSUME ClientAssumption == Workflow!WorkflowAssumption

(* A clip is media whose file extension says video; the url is resolved    *)
(* against the base url, or cannot be ("bad": unsafe or without a base).   *)
(* MediaType of the queue's messages is Image or Video.  Of jobs that      *)
(* differ only in what no step looks at, one is enough.                    *)
JobSpace ==
  {j \in [entry: {"queue", "rest"}, media: {"Image", "Video", "Other"},
          clip: BOOLEAN, url: {"https", "http", "bad"}, frames: 0..MaxFrames] :
     /\ j.media = "Other" => j.entry = "rest"
     /\ j.media = "Video" => j.clip
     /\ j.media # "Image" => j.url # "http"
     /\ j.frames > 0 => j.clip}

(* _is_video *)
IsVideo == job.media = "Video" \/ job.clip

(* _can_analyze_image_url: only the legacy runner has analyze_url. *)
UrlPath == job.media = "Image" /\ backend # "harness"
VideoPath == IsVideo /\ ~UrlPath

Step == {"idle", "start", "url", "media", "image", "harness", "video", "frames",
         "artifacts", "workflow", "mapping"}
Outcome == {"none", "success", "failure", "retry"}

TypeOK ==
  /\ backend \in Backend
  /\ job \in JobSpace
  /\ number \in 0..MaxJobs
  /\ step \in Step
  /\ outcome \in Outcome
  /\ frame \in 0..job.frames
  /\ temps \subseteq 1..number /\ spoiled \subseteq 1..number
  /\ faults \subseteq {"download", "disk", "decode", "read", "model", "workflow", "artifacts",
                       "mapping"}
  /\ crashes \in 0..MaxCrashes
  /\ Workflow!TypeOK
  /\ Workflow!Busy => step = "workflow"

Init ==
  /\ backend \in Backend
  /\ job = [entry |-> "queue", media |-> "Image", clip |-> FALSE, url |-> "bad", frames |-> 0]
  /\ number = 0
  /\ step = "idle"
  /\ outcome = "none"
  /\ frame = 0
  /\ temps = {} /\ faults = {} /\ spoiled = {}
  /\ crashes = 0
  /\ Workflow!Init

At(s) == step = s /\ UNCHANGED <<backend, job, number, crashes>>
GoOn(s) == step' = s /\ UNCHANGED <<outcome, faults>>
End(o) == step' = "idle" /\ outcome' = o
Keep == UNCHANGED <<frame, temps, spoiled, callVars>>

(* Mutant: the temporary file is removed only if the analysis succeeded. *)
CleanUpAfterSuccess ==
  temps' = IF step' = "mapping" THEN temps \ {number} ELSE temps

CleanUp == temps' = temps \ {number}

Raise(fault) ==
  /\ faults' = faults \cup {fault}
  /\ End("failure")

(***************************************************************************)
(* on_message, _run_analysis                                               *)
(***************************************************************************)
Take(j) ==
  /\ step = "idle"
  /\ number < MaxJobs
  /\ number' = number + 1
  /\ job' = j
  /\ step' = "start" /\ outcome' = "none"
  /\ frame' = 0 /\ faults' = {}
  /\ UNCHANGED <<backend, temps, spoiled, crashes, callVars>>

ResolveUrl ==
  /\ At("start") /\ UrlPath
  /\ \/ job.url = "https" /\ GoOn("url")
     \/ job.url # "https" /\ End("failure") /\ UNCHANGED faults
  /\ Keep

Download ==
  /\ At("start") /\ ~UrlPath
  /\ \/ job.url # "bad" /\ GoOn("media")
     \/ job.url # "bad" /\ Raise("download")
     \/ job.url = "bad" /\ End("failure") /\ UNCHANGED faults
  /\ Keep

(* map_success_result may raise: the consumer retries the message, the     *)
(* background task reports a failure.                                      *)
BuildResult ==
  /\ At("mapping")
  /\ \/ End("success") /\ UNCHANGED faults
     \/ /\ End(IF job.entry = "queue" THEN "retry" ELSE "failure")
        /\ faults' = faults \cup {"mapping"}
  /\ Keep

(***************************************************************************)
(* analyze_url, analyze_media                                              *)
(***************************************************************************)
CallWorkflow ==
  /\ Workflow!Begin
  /\ GoOn("workflow")
  /\ UNCHANGED <<frame, temps, spoiled>>

(* The RF-DETR detector has no detect_image_url. *)
AnalyzeUrl ==
  /\ At("url")
  /\ \/ backend = "roboflow" /\ CallWorkflow
     \/ backend = "local" /\ End("failure") /\ UNCHANGED faults /\ Keep

RefuseVideo ==
  /\ At("media")
  /\ backend = "harness" /\ IsVideo
  /\ End("failure") /\ UNCHANGED faults
  /\ Keep

(* save_to_temp_file, for the images of the harness and the videos of the  *)
(* detectors: a write that raises leaves the file it created.              *)
SaveTemp ==
  /\ At("media")
  /\ (backend = "harness") <=> ~IsVideo
  /\ \/ /\ temps' = temps \cup {number}
        /\ GoOn(IF backend = "harness" THEN "harness" ELSE "video")
        /\ UNCHANGED spoiled
     \/ /\ temps' \in {temps, temps \cup {number}}
        /\ spoiled' = spoiled \cup {number}
        /\ Raise("disk")
  /\ UNCHANGED <<frame, callVars>>

RunHarness ==
  /\ At("harness")
  /\ GoOn("mapping") \/ Raise("model")
  /\ CleanUp
  /\ UNCHANGED <<frame, spoiled, callVars>>

DecodeImage ==
  /\ At("media")
  /\ backend # "harness" /\ ~IsVideo
  /\ GoOn("image") \/ Raise("decode")
  /\ Keep

DetectImage ==
  /\ At("image")
  /\ \/ backend = "roboflow" /\ CallWorkflow
     \/ backend = "local" /\ (GoOn("mapping") \/ Raise("model")) /\ Keep

(***************************************************************************)
(* process_video: detect_video, enrich_video_detection_artifacts, cleanup  *)
(***************************************************************************)
OpenVideo ==
  /\ At("video")
  /\ \/ GoOn("frames") /\ UNCHANGED temps
     \/ Raise("decode") /\ CleanUp
  /\ UNCHANGED <<frame, spoiled, callVars>>

(* Mutant: the end of the video is not noticed. *)
DetectFramePastEnd ==
  /\ At("frames")
  /\ \/ backend = "roboflow" /\ CallWorkflow
     \/ /\ backend = "local"
        /\ GoOn("frames") /\ frame' = frame + 1
        /\ UNCHANGED <<temps, spoiled, callVars>>

DetectFrame ==
  /\ At("frames")
  /\ frame < job.frames
  /\ \/ backend = "roboflow" /\ CallWorkflow
     \/ /\ backend = "local"
        /\ \/ GoOn("frames") /\ frame' = frame + 1 /\ UNCHANGED temps
           \/ Raise("model") /\ CleanUp /\ UNCHANGED frame
        /\ UNCHANGED <<spoiled, callVars>>

(* Mutant: a frame whose detection failed is skipped. *)
FrameSkipped ==
  /\ At("workflow")
  /\ ~Workflow!Busy
  /\ IF VideoPath THEN GoOn("frames") /\ frame' = frame + 1
                  ELSE GoOn("mapping") /\ UNCHANGED frame
  /\ UNCHANGED <<temps, spoiled, callVars>>

WorkflowEnds ==
  /\ At("workflow")
  /\ \/ /\ phase = "returned"
        /\ IF VideoPath
           THEN GoOn("frames") /\ frame' = frame + 1
           ELSE GoOn("mapping") /\ UNCHANGED frame
        /\ UNCHANGED temps
     \/ phase = "raised" /\ End("failure") /\ CleanUp /\ UNCHANGED <<frame, faults>>
  /\ UNCHANGED <<spoiled, callVars>>

EndOfVideo ==
  /\ At("frames")
  /\ frame = job.frames
  /\ GoOn("artifacts")
  /\ Keep

(* A frame in the middle that cannot be read: read says no more than at    *)
(* the end, and so the frames that follow are left out.                    *)
ReadFails ==
  /\ At("frames")
  /\ frame < job.frames
  /\ faults' = faults \cup {"read"}
  /\ step' = "artifacts" /\ UNCHANGED outcome
  /\ Keep

(* Frames that cannot be read again and pictures that cannot be written    *)
(* are left out, but mkdir raises.                                         *)
EnrichDetections ==
  /\ At("artifacts")
  /\ GoOn("mapping") \/ Raise("artifacts")
  /\ CleanUp
  /\ UNCHANGED <<frame, spoiled, callVars>>

(***************************************************************************)
Analyze ==
  \/ ResolveUrl \/ Download \/ AnalyzeUrl \/ RefuseVideo
  \/ SaveTemp \/ RunHarness \/ DecodeImage \/ DetectImage
  \/ OpenVideo \/ DetectFrame \/ WorkflowEnds \/ EndOfVideo \/ ReadFails
  \/ EnrichDetections
  \/ BuildResult

Meanwhile ==
  /\ faults' = IF phase # "raised" /\ phase' = "raised"
               THEN faults \cup {"workflow"} ELSE faults
  /\ UNCHANGED <<backend, job, number, step, outcome, frame, temps, spoiled, crashes>>

WorkflowStep == (Workflow!RunWorkflow \/ Workflow!AbandonedEnds) /\ Meanwhile

(* The process dies with its threads; the job is redelivered as a new one, *)
(* or lost if it came by REST.                                             *)
Crash ==
  /\ crashes < MaxCrashes
  /\ crashes' = crashes + 1
  /\ step # "idle"
  /\ End("none")
  /\ spoiled' = spoiled \cup {number}
  /\ phase' = "idle" /\ running' = {}
  /\ UNCHANGED <<backend, job, number, frame, temps, faults, call, attempt, waited>>

Next ==
  \/ \E j \in JobSpace : Take(j)
  \/ Analyze
  \/ WorkflowStep
  \/ Crash

(* The thread steps on: downloads have a timeout, local inference and the  *)
(* harness return, the client waits with a timeout and sleeps for a time.  *)
(* Nothing is assumed of the hosted workflow, whose REST client posts      *)
(* without a timeout.                                                      *)
Fairness ==
  /\ WF_vars(Analyze)
  /\ WF_vars(Workflow!TimeOut /\ Meanwhile)
  /\ WF_vars((Workflow!Retry \/ Workflow!Parse) /\ Meanwhile)

Spec == Init /\ [][Next]_vars
FairSpec == Spec /\ Fairness

(***************************************************************************)
(* Properties                                                              *)
(***************************************************************************)
(* What the configuration refuses whatever happens: harness videos, image  *)
(* urls that are not https, and images of the local backend.               *)
Unsupported ==
  \/ job.url = "bad"
  \/ backend = "harness" /\ IsVideo
  \/ UrlPath /\ (job.url = "http" \/ backend = "local")

(* A result tells what happened: a job succeeds exactly if nothing its     *)
(* detections needed failed, retries of the workflow that end well doing   *)
(* no harm, with one exception.  A frame that cannot be read in the middle *)
(* of a video is taken for its end (roboflow_detector.py:189-191,          *)
(* detector.py:301-303): then, and only then, a video succeeds with frames *)
(* missing.  Preview pictures are no part of this: those that cannot be    *)
(* made are left out of the result.                                        *)
OutcomeMatchesFaults ==
  outcome # "none" =>
    /\ (outcome = "success") <=> (faults \subseteq {"read"} /\ ~Unsupported)
    /\ outcome = "success" /\ VideoPath => (frame < job.frames <=> "read" \in faults)

(* On every path, errors of the detector, the workflow and the artifacts   *)
(* included, the temporary file goes with its job: one that stays is that  *)
(* of a crash or of a write that failed (analysis_runner.py:108-110,       *)
(* video_processor.py:67-69).                                              *)
TempFilesAccounted ==
  temps \subseteq spoiled \cup (IF step = "idle" THEN {} ELSE {number})

(* README.md:14-16: the server uses RF-DETR to analyze images and videos.  *)
LocalBackendAnalyzesImages ==
  backend = "local" /\ job.media = "Image" /\ job.url = "https" /\ faults = {}
    => outcome # "failure"

(* However the workflow behaves, attempts of a call overlap only at the    *)
(* price of a whole timeout each, for which the thread, a RabbitMQ         *)
(* consumer, is blocked (roboflow_workflow_client.py:308-365).             *)
OverlapCostsTimeouts == Workflow!OverlapCostsTimeouts

(* An analysis comes to an end, though the hosted workflow never answers. *)
AnalysisEnds == step # "idle" ~> step = "idle"
=============================================================================
