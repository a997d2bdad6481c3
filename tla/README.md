# Vision-Based-Fault-Detection in TLA+

The repository turns inspection images and videos of power lines into
fault reports: a backend publishes analysis jobs to RabbitMQ, a *server*
(`server_pc`) or an *edge* device (`edge_raspberry`) runs a detector on the
media, and the result goes back as an event or an HTTP callback. This directory
holds TLA+ modules of the parts where order, failure and concurrency
matter, TLC configurations that check them on small instances, and TLAPS proofs
for arbitrary ones. Paths below are relative to the repository.

Run a model with `tlc -config <run>.cfg <module>` and the proofs with
`tlapm ServerPipelineProofs.tla`, and so on. `PROJECT.json` lists runs, mutants, the map
from definitions to source lines, hazards and theorems.

## 1. Inventory

| Component | State it keeps | Operations | What is hard |
|---|---|---|---|
| Queue plumbing, `shared/messaging/rabbitmq_client.py` | queues in the broker; one connection and channel per consumer thread | declare, consume, ack, nack, reconnect loop, media dispatcher | connection loss at any step, redelivery, forward-then-ack, competing containers |
| Server workers, `server_pc/app/consumer.py`, `shared/messaging/result_publisher.py` | the delivery in hand, `x-retry-count` in the message | `on_message`, publish result, retry or dead-letter | publish and ack are two steps; each of several error paths settles the message once |
| Edge workers, `edge_raspberry/app/consumer.py` | the request in memory, the delivery in hand | `on_message`, success and failure callbacks | the callback does not go through the broker and survives the loss of the link |
| Callback delivery, `shared/services/callback_service.py` | attempt counter | `send_callback` | a timed-out post may still be processed; the boundary of the attempts |
| Tool executor, `edge/tools/executor.py` | record of completed non-idempotent actions, a thread per attempt | `execute`, `_execute_once` | a timeout does not stop the tool; what is recorded when |
| Harness controller and store, `edge/loop`, `edge/memory` | run state, checkpoint file per run | `start`, `resume`, two saves | crash between or within saves, exceptions in any state |
| Vision tool and providers, `edge/tools/base_vision.py`, `edge/providers` | call counter of the fake | `execute`, `run_workflow` | classification of errors |
| Startup, readiness, REST, `*/app/main.py` | `_ready`, detector, background tasks | `lifespan`, `/ready`, `/api/analyze` | slow model load, ready before consuming, jobs held only in memory |
| Server analysis, `server_pc/app/analysis_runner.py`, `video_processor.py`, `roboflow_detector.py` | a temporary file per job | `analyze_url`, `analyze_media`, `process_video` | which backend takes which path; cleanup on every error |
| Roboflow client, `shared/services/roboflow_workflow_client.py` | a thread per attempt | `run_evn_object_detection_workflow` with retries | timed-out attempts that run on beside their retries |
| Preview and crop files, `shared/services/detection_artifacts.py` | files on a shared disk | write once, attach urls | exists and write are two steps; two writers of one file; torn files |
| Detectors, `*/app/detector.py`, `roboflow_detector.py`; boxes, `shared/utils/bbox.py` | frame and sample counters, the detections found, those kept per class | `detect_image`, `detect_video`, `_deduplicate`, `normalize_bbox`, crops | boundaries of two counters and a cap, order of classes and ties, boxes that leave the image, an image size that is never learned |
| Camera gateway, `inference/gateway.py` | tables of tracks, recent reports, last report per label | frame loop, `send_fault_to_backend` | tracks forgotten and seen again, slow and failing sends, timestamps taken before a send |
| Download, URL checks, schemas, mapping, prompts, metrics, logging, settings, training | little or none | conversions, I/O | - |

How they interact: the backend publishes to a runtime's *ingress* queue. Each
runtime process has three consumer threads, each with its own connection: a
dispatcher that forwards from ingress to the *image* or *video* queue,
and a worker on each of these. The server worker publishes a result event on
the same channel and acknowledges; on certain errors it republishes the job to
ingress with a larger retry header. The edge worker calls `send_callback`
and acknowledges. All queues share a dead-letter queue. With the `harness`
backend the server worker runs a fresh `HarnessRuntime` per image, which
calls the tool executor once and writes a checkpoint file.

What makes each correct:

- *plumbing and workers*: no job is lost; every message is settled exactly once
  per delivery; only lost connections duplicate work; retries end;
- *edge*: nothing but a failure whose callback failed disappears;
- *callback*: bounded posts, a return only after the backend processed one, and an end;
- *executor*: a non-idempotent action that succeeded is not executed again;
- *harness*: only allowed transitions; what `start` said and what `resume` says agree;
- *analysis*: the outcome tells what happened, nothing is left behind, and it ends;
- *hosted workflow*: attempts overlap only by timeouts;
- *startup*: no work before the model, consumers at last, accepted requests settle;
- *artifacts*: what a published result refers to is whole;
- *detectors*: frames are sampled evenly, deduplication is the greedy choice it
  claims to be, and every fault that was found stays visible in the result;
- *gateway*: a life of a track has one report, overlapping reports are spaced, and a
  fault that stays in view is reported at last.

## 2. Modules

| Module | Models | Notes |
|---|---|---|
| `MediaBroker` | queues, connections, dispatcher | shared by both runtimes through EXTENDS |
| `ServerPipeline` | the server runtime | extends MediaBroker with `results` |
| `EdgePipeline` | the edge runtime | extends MediaBroker with `task`, `received`, `silenced` |
| `JobLedger` | what a runtime promises about a job | abstract; implemented by ServerPipeline |
| `CallbackDelivery` | one `send_callback` | one action per outcome of a post |
| `CallbackContract` | what its callers may rely on | abstract; implemented by CallbackDelivery |
| `ToolExecutor` | `execute` and its orphaned threads | |
| `HarnessLoop` | `start`, `resume`, the store, crashes | contains ToolExecutor by INSTANCE |
| `ServerAnalysis` | download and analysis of one job after another | refines what `ServerPipeline!Analyze` takes as one choice |
| `WorkflowCall` | one caller of the hosted workflow | part of ServerAnalysis by INSTANCE, no run of its own |
| `ServiceLifecycle` | `main.py` of both runtimes | |
| `ArtifactStore` | previews and crops of one video | |
| `BoxGeometry` | boxes, their overlap and their crops | operators only, extended by Detector |
| `Detector` | `detect_image` and `detect_video` of the three detectors | |
| `GatewayReports` | the frame loop of the camera gateway | |
| `ServerPipelineProofs`, `ToolExecutorProofs`, `GatewayProofs`, `HarnessProofs`, `DetectorProofs` | theorems on the module of that name | TLAPS |
| `EdgeProofs` | theorems on EdgePipeline and CallbackDelivery | TLAPS |
| `ServiceProofs` | theorems on ServiceLifecycle and ArtifactStore | TLAPS |
| `AnalysisProofs` | theorems on ServerAnalysis and the WorkflowCall in it | TLAPS |
| `MC*` | instances for TLC | model values for jobs, consumers, actions, runs, predictions, tracks |

### MediaBroker, ServerPipeline, EdgePipeline

A message is a queue, a job and a retry count; `ready` counts equal messages.
An unacknowledged message is in `holds` of its consumer, not in `ready`. The
broker hands out ready messages in any order. `phase` is the program counter of
a consumer thread: `closed` is the pause of `consume_with_reconnect`, `idle`
is `start_consuming`, the others are points within a handler between two
effects on the broker. `LoseLink` may strike in any phase, the handler finds out at
its next channel operation (`HandlerEscapes`); on the edge it first finishes
analysis and callback. `ConfirmLost` is a result the broker stored though the
publisher sees an error. A crash of a process is a lost link of each of its
consumers, followed by their escape, so it needs no action of its own.

Each action is one effect on the broker or the backend together with the branch of
`on_message` that leads to it. Download, inference and result building are one
choice of outcome (`Analyze`). What `AnalysisRequest` and the preferred model
make of a message is fixed per job (`Kind`): valid, foreign (for the other
runtime), invalid (JSON that the schema refuses), malformed (no JSON).

Edge summarises a callback by its contract: `CallbackDelivered` was processed 1
to `Attempts` times, `CallbackFails` 0 to `Attempts` times. `CallbackDelivery`
shows that `send_callback` keeps this contract (`KeepsContract`), with the
addition that a late post may arrive after the call is over; EdgePipeline
counts it at the end of the call.

### CallbackDelivery

The loop variable, the current post and the posts given up on. A timed-out post
becomes an orphan the backend may process later or never. The backoff is left
out: any time may pass between two steps anyway.

### ToolExecutor and HarnessLoop

`ToolExecutor` follows one caller. `effects` counts tool runs that did their work,
`failed` those that ended in a failure the executor saw. A run can be both: of no tool,
retry-safe or not, is it assumed that a failure leaves the world as it was, so each
end of a failing run (`RunFails`: `Fail`, `Retry`, `GiveUp`) has both outcomes. The
same holds of the end of a thread that was left behind. `HarnessLoop` replaces Action by Run (the action id is derived from the
fresh run id) and has an idempotent, retry-safe tool, as `VisionWorkflowTool`
declares. `OpenFile` and `WriteFile` are the two halves of `write_text`.

### ServerAnalysis and WorkflowCall

One server thread, a media worker or a REST background task, takes job after
job. `step` is its place in `analyze_url`, `analyze_media` or `process_video`;
`outcome` is what `on_message` or `_run_analysis` makes of the end: a result, a
failure, or the retry of a queue message whose result cannot be built. `temps` is the
set of jobs whose temporary file exists. `faults` and `spoiled` are history: the
environment's choices, against which the outcome is judged. A video may fail to open
(`OpenVideo`), and any frame of it may fail to be read (`ReadFails`), which the code takes
for the end of the video. The backend is a
variable chosen once, so that one run covers all three.

`WorkflowCall` is `_run_with_retries` and `_run_once_with_timeout`: an attempt is a
thread of its own, in `running` until the SDK call ends; a timeout goes
on without it (`cancel` has no effect on a running call, and the pool is shut down
without waiting). `waited` adds up what the caller has been blocked for, the pauses
`Delay[0]`, `Delay[1]`, ... included, each twice the one before. The
composition shares no variable but hands control over: `Begin` when a step calls
the workflow, `WorkflowEnds` when the call has returned or raised.

### ServiceLifecycle

The loader thread (`_init_analysis_runner`, `_init_detector`), `lifespan`, the
consumer threads as they are started, and requests. On the server the loader starts the consumers; on
the edge `lifespan` joins the loader with a timeout, looks whether there is a
detector, and starts them itself. `Join` may happen at any time, before the
loader is done in particular. `Crash` loses the requests in memory and restarts.

### ArtifactStore

Each worker walks its detections: preview of the frame, then crop. `FileExists`
and `FileMissing` are the check of `_write_jpeg_once`; `OpenFile` and
`WriteFile` are the truncation and the end of the write. Two deliveries of a job share
previews, never crops (the detection's id is drawn anew).

### BoxGeometry and Detector

A box from the model has corners in units of 1/`Scale` pixel, so half pixels, which
rounding treats specially, are ordinary integers. `normalize_bbox` divides by
the image's width and height; a fraction of the width is the same number in
units of 1/(`Width` * `Scale`), and the IoU is compared by cross-multiplication, so
no division and no float is left. The error of the floats is not modelled.
`Misread` is what `_prediction_bbox` makes of pixel numbers it takes for
fractions: it does if the response names no image size or neither extent
exceeds one.

`Detector` has one action per turn of the sampling loop (`SkipFrame`, `SampleFrame`,
`FrameDone`), per item of the model's answer (`Detect`) and per turn of the
deduplication loop (`ClassFull`, `DropDuplicate`, `Keep`). The loop stands three times in the
code, in the server's, the edge's and the hosted detector, with the same
control; each definition is mapped to the copy that shows it best. `source` is
where the copies differ: a `local` detector compares the confidence with the
threshold and knows the size from the pixels (image) or from the container's
metadata (video, which may lack it); the hosted one answers in `centres` or in
`corners`, without a threshold, and learns the size from the response (each frame's
own), which may lack it. An image is not deduplicated. What the model finds is any sequence of `Prediction`; the tensor code in front
of it (RF-DETR, transformers, YOLO) is only the filter `Accepts`.

### GatewayReports

`mode` is which networks could be loaded. The loop reads a frame, processes each track
in it, and ends the frame. What YOLO, the classifier and the smoothing over
frames say of a track in a frame (place, label, confidence) is a choice made
anew in each frame; a confidence below `MIN_REPORT_CONF` is `Doubt`. Instead of
timestamps the state holds ages: a step that takes time adds it to every age,
and an entry that the next look at the list would prune goes at once (`Aged`).
`send_fault_to_backend` posts up to twice and returns a Boolean; `SendFails` is
False, whether or not the backend has stored the report. `acked` and `settled` are
history. `HOLD_FRAMES`, which only keeps a box on the screen, and the drawing
itself are left out.

## 3. Runs

| Run | Shows | Instance and why it is enough |
|---|---|---|
| `server_safety` | TypeOK, Accountable, LossesBoundDuplicates, refinement of JobLedger | four jobs, one of each kind, image and video; one process; RetryLimit 1 (one copy may be retried, the next is at the limit); one lost connection at any point; 271,000 states |
| `server_replicas` | LossesBoundDuplicates, and the job leaves the work queues, with two containers | two workers compete for the image queue, two connections are lost, so a copy and its redelivery are both in progress; RetryLimit 2: two turns of the retry loop; 70,000 states |
| `edge` | only failures vanish; callbacks bounded by losses; every job leaves the work queues | two containers, a valid, a foreign and a garbled job, one loss, two posts per call; 64,000 states |
| `callback` | posts are accounted for; refinement of CallbackContract, the end of the call included | four retries, every outcome of each; 182 states |
| `tool_executor` | repeats need failures or timeouts, one run per call of what is not retry-safe, and a timeout leaves one thread | four calls on a write, a retryable write and a retryable read, three attempts; every failure with and without an effect; 1,481,000 states |
| `harness_loop` | table followed, verdict and disk agree, resume truthful, runs end | two runs, one crash anywhere, each save may fail at either half; 128,000 states |
| `server_analysis` | outcome and faults agree, temporary files accounted for, overlap bounded, analyses end | all backends, two jobs of every kind (the second meets what the first left: files, abandoned threads), videos of up to two frames (two workflow calls in a job), three attempts, so that two can run on beside the last, one crash; a video may end early after none or one of its frames; 345,000 states |
| `service_lifecycle` | no work without a model, consumers come up, accepted requests settle | both runtimes, with and without a broker, two requests, two restarts; 4,700 states |
| `artifact_store` | crops are whole, the race for a preview heals | two workers, two deliveries, two detections in one frame: both races (between workers, and with one's own earlier file) occur; 59,000 states |
| `detector` | samples are even, deduplication is greedy, faults stay visible | images and videos, all three sources; every second frame of up to five, two samples, so frames are left over; three detections among ten of two classes (and one of a class without category), a cap of two per class, IoU threshold one half; an image of 4 x 2 pixels in half pixels with boxes inside, across each border that matters, thinner than a pixel, overlapping by just one half and by more; 341,000 states |
| `gateway` | one report per life of a track, reports spaced, a lasting fault reported | two tracks, so that one's slow send ages the other's report; two labels, two places that overlap only themselves; due in the second frame, forgotten in the second frame without it; window and cooldown of two units, a send takes none or two, a frame none or one, so that an entry ages in steps, exactly to the limit, or in its own send; 242,000 states |
| `analysis_local_image` | violation: LocalBackendAnalyzesImages | see findings |

`CHECK_DEADLOCK FALSE` is set throughout: a runtime with no more jobs and no
more losses to come rests idle for ever, a callback and a run are over at some point.
Bounds: each job is submitted once, `MaxLosses` connections are lost,
`MaxCalls` calls of the executor or the workflow, `MaxCrashes` crashes, `MaxJobs` jobs of
an analysis thread, `MaxFrames` sampled frames, `MaxDeliveries` deliveries of a video, `MaxLength` frames of a
video and `MaxFound` detections in it. The gateway needs no bound: its counters
and ages stop at the limits the code compares them with. `MaxLosses` is a bound of
behaviours, not of the code; the invariant `LossesBoundDuplicates` relates the
outcome to the losses that happened.

Properties worth reading:

- `Accountable` (server): every submitted job is answered, dead-lettered, or
  carried by a message that is not about to be acknowledged on the strength of
  another one. It would be broken by any path that acknowledges before it publishes.
- `LossesBoundDuplicates` (server): results + dead letters + messages still to
  be handled is one until the first connection is lost, and at most one more
  per loss. Retries, refusals and requeues neither add nor drop anything.
- `CallbacksBoundedByLosses` (edge): a job is reported at most `Attempts` times
  per delivery, and deliveries exceed one only by losses.
- `RepeatsNeedFailures` (executor): a success is final. An action that must not be
  repeated does its work at most once more often than it failed or timed out, an
  action that is not retry-safe runs once per call at most, and a call leaves at most
  one thread behind. Any failure may hide an effect, so no more than that is promised.
- `VerdictMatchesDisk` (harness): a run returned as completed is on disk as
  completed, a run returned as failed never turns up as completed.
- `OutcomeMatchesFaults` (analysis): a job succeeds exactly if nothing its detections
  needed failed and its configuration supports it, with one exception that the property names:
  a read that fails in the middle of a video. Exactly then a video succeeds with frames
  missing. No other error is swallowed or made up, and a retry of the workflow that ends
  well does no harm.
- `TempFilesAccounted` (analysis): the file that stays is that of a crash or of a
  write that failed, on all the paths out of the runners.
- `OverlapCostsTimeouts` (workflow): every attempt that runs on unwatched has cost
  its caller a whole timeout.
- `ConsumersComeUp` (startup): after every restart all three consumers run, or
  one of three named mishaps explains why not.
- `RaceHealsItself` (artifacts): two writers of one preview leave it whole.
- `SamplesEvenly` (detectors): whatever was found in them, the samples are the frames
  0, Interval, 2 Interval, ... without a gap, as many as `frame_count` will say.
- `KeptIsGreedy` (detectors): the loop with its early end at the cap agrees with
  a definition that knows no loop.
- `FaultsStayVisible` (detectors): from the model's box through clamping,
  deduplication and rounding to the crop: each fault is shown or was dropped for
  one that shows the same spot. The exceptions the code forces are named in it.
- `SettledOnce` (gateway): the mark on a track agrees with the reports the backend
  acknowledged, over failures, doubts, and forgotten tracks.
- `ReportsSpaced` (gateway): overlapping reports of one label are `Window` apart
  by the time of their decisions, over all tracks and lives of tracks.

### Fairness

- The consumer threads: `consume_with_reconnect` is an infinite loop
  (`while True`, with every exception caught) on a daemon thread, so weak fairness
  of reconnecting, escaping and of each handler's next step. It assumes that
  inference and download return, as their timeouts arrange. RabbitMQ serves an
  idle consumer.
- The dispatcher requeues what it could not forward, without limit: `EveryJobSettles`
  needs strong fairness of `Forward`, that is, a dispatch tried for ever
  succeeds at last. Without it a job may spin for ever.
- `send_callback` steps on because `requests.post` has a timeout.
- In the harness, `execute` waits with a timeout, so a run steps on; nothing is assumed of
  the tool.
- `ServerAnalysis`: the thread steps on, since downloads have a timeout, local
  inference and the harness return, and the client waits with a timeout and sleeps
  for a finite time. Nothing is assumed of the hosted workflow.
- `ServiceLifecycle`: loading returns or raises, the join has a timeout, background
  tasks end (which `AnalysisEnds` and `KeepsContract` show of their parts).
- `GatewayReports`: the loop is `while cap.isOpened()` and posts have a timeout, so weak
  fairness of its next step. Strong fairness of `Resolve(t)`: a track that is due
  in frame after frame is one day confident enough, and then covered or
  acknowledged. That is an assumption on the camera and the backend; what the
  property shows is that the code gives it the chance, by leaving the track due.
- Never assumed: that connections are lost, that refusals stop, that runs are
  begun or resumed, that the backend answers.

## 4. Findings

- `server_pc/app/consumer.py:94` sends the images of every runner that has
  `analyze_url` to it, those of the local RF-DETR backend too, whose detector has no
  `detect_image_url` (`analysis_runner.py:134-135`): with
  `SERVER_INFERENCE_BACKEND=local`, which `README.md:90` offers, every image from
  the queue fails. REST images take the same path.

Stated by the form of a passing property rather than by a violation:

- `edge_raspberry/app/consumer.py:4-6` says messages are acknowledged only after
  successful callback delivery. A failed job whose failure callback fails is
  acknowledged as well (lines 91, 126, 226-230) and then exists nowhere:
  `OnlyFailuresVanish` allows for exactly these.
- `docs/harness-refactor-plan.md:119` lists duplicate execution prevention for
  non-idempotent actions. Only a success the executor saw is recorded
  (`executor.py:91-93`). An action that timed out works on in its thread (`103-109`),
  and one that did its work and then raised or reported a failure (`95-96`, `110-115`) has
  done it; both are executed again when they are asked for again: `gaveUp` and `failed` in
  `RepeatsNeedFailures`.
- A frame that cannot be read or decoded in the middle of a video is taken for its end
  (`roboflow_detector.py:189-191`, `detector.py:301-303`, and on the edge the same): the job
  succeeds on the frames before it, and nothing in the result tells that frames are
  missing. `"read"` in `OutcomeMatchesFaults`.
- `normalize_bbox` clamps position and extent apart from each other (`bbox.py:26-29`):
  a box that starts left of or above the image keeps the part that lies outside as
  extra extent inside. Its crop shows too much, and in the deduplication it can
  swallow a weaker box beside it. A box that starts right of or below the image is moved
  onto its border with its extent, where it can swallow another. `StartsOutside` in
  `FaultsStayVisible`.
- A response of the hosted workflow that does not name the image's size has
  boxes read as fractions that all collapse to one, or are empty
  (`roboflow_workflow_client.py:458-472`): of a class, the deduplication of a video then
  keeps one of those that collapsed. `Measured` in `FaultsStayVisible`. A local video
  without a size in its metadata has empty boxes, whose IoU is zero: all are kept,
  none has a crop.
- `edge/memory/file_store.py:14` overwrites the only checkpoint in place: while the
  second save is under way, and for good after a crash there, a run that
  could be resumed cannot (`docs/harness-architecture-audit.md:75` asks for a
  durable store). `ResumeTruthful` speaks of the resumes that find a readable file only.
- A write that fails leaves the temporary file it created, since its name is only
  known when `save_to_temp_file` returns (`media_downloader.py:158`,
  `video_processor.py:41-44`; its docstring, lines 30-31, promises cleanup). `spoiled`
  in `TempFilesAccounted`.
- An edge whose model is loaded later than the join waits answers REST requests
  but never consumes a queue (`edge_raspberry/app/main.py:86-98`). The mishap `late`
  in `ConsumersComeUp`.
- A preview torn by a crash or a full disk exists, so it is never written again
  and every later result refers to it (`detection_artifacts.py:128`). `faulty` in
  `RaceHealsItself`.

Met while reading, not modelled: `retry_delay_ms` (`base_settings.py:68`) is
never used, so retries are immediate; results are published with
`mandatory=False`, so a result that no queue is bound for is confirmed and
dropped (the models count a result the broker accepted as an answer); the
`published is False` branches (`rabbitmq_client.py:300`, `result_publisher.py:57`)
are never taken: `basic_publish` of pika 1.3 returns nothing, with publisher confirms it
raises instead. Confirms are switched on in one place, `result_publisher.py:39`. The
dispatcher's forward (`rabbitmq_client.py:293`) goes over a channel without them, and so
does the retry's republish (`server_pc/app/consumer.py:280`) unless a result was published
on that channel before. What the broker drops or returns there goes unnoticed, `mandatory`
or not, and the original is acknowledged. Deduplication does not look at
the frame, so two faults at the same place of the image in different frames are one
(`KeptIsGreedy` says it the same way). A video is read to
frame (MaxFrames - 1) * Interval at most, and the result does not tell that it
was cut. In the gateway, a post that the backend stored but that timed out is sent
again in every frame (`gateway.py:75`, `272`); a track whose label changes after its report
is not reported again (`254`); the time between two reports at the backend may be less
than the window, as it counts from the decision (`256`, before the send); with YOLO
the label of a healthy part is reported like a fault's; and the labels the
classifier alone would report (`192`) are not among the class names of
the MobileNet classifier (`cnn_classifier.py:75`).

## 5. Proofs

### Server pipeline

`ServerPipelineProofs` proves, for any sets of jobs and consumers, any queues,
media types and kinds, any retry limit and any number of lost connections
(assumption `BrokerAssumption` only):

- `ServerTypeCorrect`: `Spec => []TypeOK`. TypeOK is inductive because it contains
  `Sessions`: exactly the linked consumers that run a handler hold a message.
  Without it nothing is known of `holds[w]` when a handler settles it.
- `ServerAccountable`: `Spec => []Accountable`.
- `ServerNoJobLost`: `Spec => []NoJobLost`, the plain form: answered,
  dead-lettered, or in a message.

The argument. `NoJobLost` is not inductive: a worker that acknowledges might hold
the last message of its job, and nothing in `NoJobLost` says why this is safe.
`Accountable` strengthens it: a consumer in a phase where only the ack is left
(`Superseded`) does not count as a carrier. So an ack never removes a carrier, and
each publish that makes a consumer superseded adds a result or a waiting message
in the same step. The lemmas follow this: `CarryOver` (what a step must keep for
a job to stay carried), `PublishCarries`, `ReturnCarries`, `ObligedCarries` (three
ways to be carried after a step), `SettleCarries` and `CutCarries` (ack, nack and
loss of a link), then one lemma for the plumbing (`TransportCarries`) and one for
the worker (`WorkerCarries`), with one step per action. TypeOK is used throughout.

- `ServerLossesBoundDuplicates`: `Spec => []LossesBoundDuplicates`.
- `ServerKeepsLedger`: `Spec => KeepsLedger`, the whole refinement of JobLedger.

Duplicates are counted by the cardinality of `WaitingCopies(j)`, a set with one
element per copy of a waiting message, since a sum over the bag of messages would need an
induction. `CopiesGrow` and `CopiesShrink` say what one message more or less does to it,
`ObligedCount` the same of the consumers that still have to settle one; then each
action either replaces one outcome by another (`ReplaceOutcomes`), settles
(`SettleOutcomes`), or cuts a link and pays with it (`CutOutcomes`).

The refinement needs more than TypeOK and Accountable: that nothing happens to a job
before it is submitted (`Untouched`), and that a worker about to publish was given
a job it may answer (`Answering`). Every step of the runtime then leaves the
ledger alone or moves one open job (`LedgerMove`), and each kind of move is a step
of JobLedger or a stutter (`MoveIsLedgerStep`); that a job is closed only
when it was answered or parked is `Accountable'`.

### Edge and callback

`EdgeProofs`, for any sets of jobs and consumers, any number of posts in a callback
and any number of lost connections (`BrokerAssumption`, `EdgeAssumption`):
`EdgeTypeCorrect`, `EdgeOnlyFailuresVanish`, `EdgeCallbacksBoundedByLosses`.

The argument. On the edge, unlike the server, a handler goes on without its
message: the link is lost, the request is still in memory. `Handlers` says who has a
request: exactly the workers whose handler runs. `Accountable` is as on the server, with
`Heard` for what replaces the publish: after the callback the backend has
processed the job, or it is among the `silenced` failures. For the bound, each
delivery that may still cause a callback counts against the callbacks that can have been
caused (`Spent`): `received[j] <= Attempts * Spent(j)`. A callback spends its
worker's entry in `Unreported`, a lost link pays for the copy it puts back.

The callback, for any number of retries (`CallbackAssumption`): `CallbackTypeCorrect`,
`CallbackPostsAccounted`, and `CallbackKeepsContractSafely`, the refinement of
CallbackContract without its fairness. The invariant is `PostsAccounted` together with the fact
that a post whose answer can arrive was processed: the first bounds the
contract's `Process`, the second allows its `Return`. `CallbackReportsAsEdgeAssumes`
closes the gap between the two models: when a call is over, what was and may still be
processed is at most `MaxRetries + 1` posts, and at least one if it returned, which is
what EdgePipeline takes as one step with `Attempts` for that number.

### Tool executor

`ToolExecutorProofs`, for any actions, attempts and calls (`ExecutorAssumption`):
`ExecutorTypeCorrect` and `ExecutorRepeatsNeedFailures`. The one effect more than the
failures is that of the recorded success (`RunsExplained`). What makes this inductive is
`RunsUnrecorded`: the action being executed is not in the record, so adding it pays
for its effect. A failure pays for the effect it may hide, a timeout for the thread it leaves,
and that thread's end turns an orphan into at most one effect. `OneRunPerCall`: a call
under way has one run to come, unless its tool may be retried.

### Camera gateway

`GatewayProofs`, for any tracks, labels, places and overlaps between them, and any
limits and durations (`GatewayAssumption`): `GatewayTypeCorrect`, `GatewaySettledOnce`,
`GatewayReportsSpaced`. Neither property is inductive, as both speak of what the
backend acknowledged while the code looks at its own memory. `Memory` says that
they agree: with tracks `recent` and `acked` hold the same reports at the same
age; with the classifier alone, `quiet` of a label is the age of its report. The
lemmas show that this survives the passing of time (`AgreementAges`, `QuietAges`),
in particular of the time a send takes, then that no report in memory conflicts
with the one that is sent (`SendAckedPreserves`, `ClassifyPreserves`).

### Harness

`HarnessProofs`, for any finite set of runs, any attempts and crashes
(`HarnessAssumption`; it is finite because the calls of the tool, one per run, are
counted): `HarnessTypeCorrect`, `HarnessVerdictMatchesDisk`, `HarnessResumeTruthful`
and the action property `HarnessFollowsTable`. The verdict is known at the start's end
and the file is written in two saves before, so the invariant follows a run in
between: `Progress` says which states mean that the tool took effect and was
verified, and that a readable file says no more; `Settled` that a file that says
COMPLETED belongs to a run that was told so, lost in a crash, or about to return.

### Startup and artifacts

`ServiceProofs`. `LifecycleTypeCorrect` and `LifecycleNoWorkWithoutModel`, for any requests and
crashes (`LifecycleAssumption`): past `assigned` the loader, and past the check the lifespan,
have a model. `StoreTypeCorrect`, `StoreCropsAreWhole` and `StoreRaceHealsItself`, for any
workers, detections, frames and deliveries (`ArtifactAssumption`): whoever works on
a delivery works on it alone (`Deliveries`), so a crop on the disk was written by a
worker that has gone past it or is writing it now (`CropsOnDisk`), and is never
opened again once a result refers to it (`ReferredFiles`). A torn file without a
failure has a writer at it (`TornIsWritten`): with all workers idle there is none.

### Analysis and hosted workflow

`AnalysisProofs`, for any set of backends of the code's, numbers of jobs, frames, crashes and
calls, and any retries, timeout and delay (`AnalysisAssumption` and `ClientAssumption`):
`AnalysisTypeCorrect`, `AnalysisOutcomeMatchesFaults`,
`AnalysisTempFilesAccounted`, `AnalysisOverlapCostsTimeouts`. `OnTheWay` says
what each step of the thread has ruled out so far, which is what an outcome is judged by
when the job ends: up to the last frame nothing has gone wrong, behind it at most a read, and
a read exactly if frames are missing; `Files` which steps hold a temporary file. The last theorem is
an accounting of time: each thread left behind has cost a timeout, each attempt
before the current one a pause. Its step for the pauses is `Delay[n + 1] = 2 * Delay[n]`;
that the recursive function exists at all is shown by an induction in the form of sets
(`SetInduction`, from the well-foundedness of `<`), as the library's induction
theorems take an operator.

### Detectors

`DetectorProofs`, for images of any size and unit, any set of predictions, any interval,
caps and thresholds (`DetectorAssumption`, `GeometryAssumption`): all four invariants of the run.

- `DetectorTypeCorrect`: boxes stay in the image, positions in what was found.
- `DetectorSamplesEvenly`: `frame_count` is the number of multiples of the interval before
  `frame`. The lemmas are about `\div`: a quotient is known by its remainder
  (`QuotientUnique`), and it rises exactly behind a multiple (`SampledStep`).
- `DetectorKeptIsGreedy`. What was looked at comes before what was not (`TakenInTurn`),
  which needs that the order by class, confidence and position is strict and total; that
  a class's first position exists is the well-foundedness of `<` again (`Firsts`).
  Then at its turn a detection's better ones that are kept are all of its class that
  are kept (`KeptAreBetter`), so the loop's test is the definition's, and later
  ones never change it (`GreedyKeep`). A class that is full is dropped as a whole
  for the same reason (`GreedyDrop`).
- `DetectorFaultsStayVisible`. One side of a box at a time: clamped position and extent
  reach as far as the fault does (`SideStored`), rounding moves an edge by half a pixel
  (`RoundedNear`, `CutNear`), so the crop shows it (`SideShown`); two boxes
  whose overlap exceeds any threshold share a part of each side (`OverlapIsShared`,
  `SideShared`). The first attempt at this proof showed that the property's exception for boxes that start
  outside the image had to include those right of and below it; the run's
  instance has had such a box since, and fails without it.

### What is not proved

Every invariant and every action property of the passing runs is stated by a theorem, and
so is the refinement of JobLedger. Only model-checked is what rests on fairness, out
of the prover's reach: `EveryJobSettles` of both runtimes, `RunEnds`, `AnalysisEnds`, `ConsumersComeUp`,
`AcceptedSettles`, `LastingFaultReported`, and the end of a call in `KeepsContract`.
The violation `LocalBackendAnalyzesImages` is a finding. The proofs use the constants'
named assumptions and no others; that the models are
faithful, and the bounds in guards, is not a matter of proof.

## 6. Not modelled, and why

Neural networks, drawing, training, prompt texts, schemas and mappings field by
field, metrics and logs: data without control. Network and file I/O of the
downloader: its outcome is a choice. Whether third-party models may be called by
several threads at once (`server_pc/app/main.py:138`), how often a backend stores a post the gateway thinks
failed (`inference/gateway.py:75`), and publishes without confirms
(`rabbitmq_client.py:293`): the three hazards without a property.
The error of floating-point numbers in boxes and overlaps. A broker that loses or drops a
message it was sent: outside the repository. `Forward` and the retry rely on that, since
they are not confirmed; the queues are durable and declared at each connect, and as the
publish precedes the ack on one connection, a lost link that loses the publish loses the ack
too, and the job comes back. Time: delays and heartbeats appear only as what
they may cause.

## 7. Plan

Done: (1) MediaBroker and ServerPipeline with JobLedger, the path every job takes;
(2) proofs of its type correctness and accountability; (3) EdgePipeline;
(4) CallbackDelivery with CallbackContract; (5) ToolExecutor and HarnessLoop;
(6) ServiceLifecycle; (7) WorkflowCall and ServerAnalysis; and ArtifactStore;
(8) BoxGeometry and Detector; (9) GatewayReports.

(10) proofs about CallbackDelivery, ToolExecutor and GatewayReports; (11) proofs of all
safety properties of the other modules, the refinement of JobLedger included.

Next, further proofs: that a step of ServerAnalysis's outcome is one `ServerPipeline!Analyze`
may choose; lemmas that relate the edge's and the server's handling of the same
message; and the safety halves of the liveness properties (what must be true as long
as a job has not settled).
