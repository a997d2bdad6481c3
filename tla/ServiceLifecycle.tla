-------------------------- MODULE ServiceLifecycle --------------------------
(***************************************************************************)
(* The process of either runtime around its pipeline: a thread loads the   *)
(* model, consumers are started, and REST requests are analyzed in         *)
(* background tasks that only live in memory.  The container is restarted  *)
(* after a crash.                                                          *)
(* Source: server_pc/app/main.py, edge_raspberry/app/main.py               *)
(*                                                                         *)
(* The loader's stages: loading, assigned (the global is set), ready       *)
(* (_ready is set), done, failed.  The server's loader starts the          *)
(* consumers itself; the edge's lifespan does after it joined the loader.  *)
(***************************************************************************)
EXTENDS Naturals

CONSTANTS Request,
          MaxCrashes       \* bound: crashes of the process

ASSUME LifecycleAssumption == MaxCrashes \in Nat

VARIABLES
  runtime, broker,  \* settings: which process, is RABBITMQ_HOST set
  loader,
  model,            \* detector, or analysis_runner, is not None
  ready,            \* _ready
  lifespan,         \* joining, starting (edge only), serving
  consumers,        \* consumer threads started
  mishaps,          \* why consumers may be missing (kept as history)
  request,
  crashes

vars == <<runtime, broker, loader, model, ready, lifespan, consumers, mishaps,
          request, crashes>>
startVars == <<loader, model, ready, lifespan, consumers, mishaps>>
settings == <<runtime, broker>>

Thread == {"dispatcher", "image", "video"}
Running == {"accepted", "reporting"}

TypeOK ==
  /\ runtime \in {"edge", "server"} /\ broker \in BOOLEAN
  /\ loader \in {"loading", "assigned", "ready", "done", "failed"}
  /\ model \in BOOLEAN /\ ready \in BOOLEAN
  /\ lifespan \in {"joining", "starting", "serving"}
  /\ consumers \subseteq Thread
  /\ mishaps \subseteq {"load", "late", "start"}
  /\ request \in [Request -> {"none", "refused", "answered", "unreported", "lost"} \cup Running]
  /\ crashes \in 0..MaxCrashes
  /\ runtime = "server" => lifespan = "serving"

(* Mutant: the server's lifespan joins its loader too. *)
LifespanJoins == "joining"

Lifespan == IF runtime = "server" THEN "serving" ELSE "joining"

Init ==
  /\ runtime \in {"edge", "server"} /\ broker \in BOOLEAN
  /\ loader = "loading"
  /\ model = FALSE /\ ready = FALSE
  /\ lifespan = Lifespan
  /\ consumers = {} /\ mishaps = {}
  /\ request = [r \in Request |-> "none"]
  /\ crashes = 0

(***************************************************************************)
(* _init_analysis_runner, _init_detector                                   *)
(***************************************************************************)
Load ==
  /\ loader = "loading"
  /\ \/ loader' = "assigned" /\ model' = TRUE /\ UNCHANGED mishaps
     \/ loader' = "failed" /\ mishaps' = mishaps \cup {"load"} /\ UNCHANGED model
  /\ UNCHANGED <<settings, ready, lifespan, consumers, request, crashes>>

SetReady ==
  /\ loader = "assigned"
  /\ ready' = TRUE
  /\ loader' = IF runtime = "server" /\ broker THEN "ready" ELSE "done"
  /\ UNCHANGED <<settings, model, lifespan, consumers, mishaps, request, crashes>>

(* start_server_consumer, start_edge_consumer: three threads in turn. *)
StartThread(finished) ==
  /\ \E t \in Thread \ consumers : consumers' = consumers \cup {t}
  /\ finished <=> consumers' = Thread

(* Mutant: the thread that starts the consumers ends after the first. *)
ServerStartsOne ==
  /\ loader = "ready"
  /\ StartThread(TRUE) \/ StartThread(FALSE)
  /\ loader' = "done"
  /\ UNCHANGED <<settings, model, ready, lifespan, mishaps, request, crashes>>

ServerStarts ==
  /\ loader = "ready"
  /\ \/ StartThread(TRUE) /\ loader' = "done"
     \/ StartThread(FALSE) /\ UNCHANGED loader
  /\ UNCHANGED <<settings, model, ready, lifespan, mishaps, request, crashes>>

(* Starting a thread raises: logged, and the loader ends. *)
ServerStartFails ==
  /\ loader = "ready"
  /\ loader' = "failed"
  /\ mishaps' = mishaps \cup {"start"}
  /\ UNCHANGED <<settings, model, ready, lifespan, consumers, request, crashes>>

(***************************************************************************)
(* lifespan of the edge: join(timeout=120), then look for the detector     *)
(***************************************************************************)
(* Mutant: the detector is not looked for. *)
JoinUnchecked ==
  /\ lifespan = "joining"
  /\ lifespan' = IF broker THEN "starting" ELSE "serving"
  /\ UNCHANGED <<settings, loader, model, ready, consumers, mishaps, request, crashes>>

Join ==
  /\ lifespan = "joining"
  /\ mishaps' = IF model \/ loader = "failed" THEN mishaps
                                              ELSE mishaps \cup {"late"}
  /\ lifespan' = IF broker /\ model THEN "starting" ELSE "serving"
  /\ UNCHANGED <<settings, loader, model, ready, consumers, request, crashes>>

EdgeStarts ==
  /\ lifespan = "starting"
  /\ \/ StartThread(TRUE) /\ lifespan' = "serving"
     \/ StartThread(FALSE) /\ UNCHANGED lifespan
  /\ UNCHANGED <<settings, loader, model, ready, mishaps, request, crashes>>

(***************************************************************************)
(* analyze, _run_analysis                                                  *)
(***************************************************************************)
Move(r, to) ==
  /\ request' = [request EXCEPT ![r] = to]
  /\ UNCHANGED <<settings, startVars, crashes>>

Post(r) ==
  /\ lifespan = "serving"
  /\ request[r] = "none"
  /\ Move(r, IF ready /\ model THEN "accepted" ELSE "refused")

(* Success and failure results are reported alike. *)
Analyze(r) ==
  /\ request[r] = "accepted"
  /\ Move(r, "reporting")

(* Mutant: an exception of the report ends the task without a trace. *)
ReportOrStall(r) ==
  /\ request[r] = "reporting"
  /\ Move(r, "answered") \/ Move(r, "accepted")

(* The result event is published, or the callback sent; if that fails it   *)
(* is logged and nobody hears of the request.                              *)
Report(r) ==
  /\ request[r] = "reporting"
  /\ Move(r, "answered") \/ Move(r, "unreported")

Restart ==
  /\ loader' = "loading"
  /\ model' = FALSE /\ ready' = FALSE
  /\ lifespan' = Lifespan
  /\ consumers' = {} /\ mishaps' = {}
  /\ UNCHANGED settings

(* The process dies and the container is started again.  A thread that     *)
(* cannot be started while the edge is starting up has the same effect.    *)
Crash ==
  /\ crashes < MaxCrashes
  /\ crashes' = crashes + 1
  /\ Restart
  /\ request' = [r \in Request |-> IF request[r] \in Running THEN "lost" ELSE request[r]]

StartUp ==
  Load \/ SetReady \/ ServerStarts \/ ServerStartFails \/ Join \/ EdgeStarts
Task(r) == Analyze(r) \/ Report(r)

Next ==
  \/ StartUp
  \/ \E r \in Request : Post(r) \/ Task(r)
  \/ Crash

(* Threads run: loading returns or raises, the join has a timeout, the     *)
(* analysis and its report end (ServerAnalysis, CallbackDelivery).         *)
Fairness ==
  /\ WF_vars(Load) /\ WF_vars(SetReady) /\ WF_vars(ServerStarts)
  /\ WF_vars(Join) /\ WF_vars(EdgeStarts)
  /\ \A r \in Request : WF_vars(Task(r))

Spec == Init /\ [][Next]_vars
FairSpec == Spec /\ Fairness

(***************************************************************************)
(* Properties                                                              *)
(***************************************************************************)
(* No job reaches a runtime without its model: neither a REST request nor  *)
(* a consumer of the queues is taken on before the loader of this very     *)
(* process has assigned it (main.py:97-103, 169 of the edge, 48-65, 136 of *)
(* the server).                                                            *)
NoWorkWithoutModel ==
  consumers # {} \/ (\E r \in Request : request[r] \in Running) => model

(* After every start, and restart, all three consumers come up in the end, *)
(* unless loading or a thread failed, or the edge's model came after the   *)
(* join had timed out.                                                     *)
ConsumersComeUp ==
  broker ~> consumers = Thread \/ mishaps # {}

(* An accepted request comes to an end: answered, its report given up, or  *)
(* lost with the process.                                                  *)
AcceptedSettles ==
  \A r \in Request : request[r] = "accepted" ~> request[r] \notin Running
=============================================================================
