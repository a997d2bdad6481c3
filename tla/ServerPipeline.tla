--------------------------- MODULE ServerPipeline ---------------------------
(***************************************************************************)
(* The server runtime: dispatcher and media workers that turn the jobs of  *)
(* the ingress queue into result events on the backend's exchange.         *)
(* Source: server_pc/app/consumer.py, shared/messaging/result_publisher.py *)
(*                                                                         *)
(* Phases of a worker that holds a copy:                                   *)
(*   received   on_message has started                                     *)
(*   success    the analysis succeeded, its result is not published yet    *)
(*   failure    download or inference failed, same for the failure result  *)
(*   retrying   _retry_or_dead_letter has been entered                     *)
(*   published  the broker confirmed the result, the ack is to come        *)
(*   republished  the retry copy is published, the ack is to come          *)
(***************************************************************************)
EXTENDS MediaBroker

VARIABLE results        \* result events the broker accepted, per job

vars == <<submitted, ready, dead, linked, holds, phase, losses, results>>

Phase == {"closed", "idle", "received", "forwarded", "success", "failure",
          "retrying", "published", "republished"}

TypeOK ==
  /\ BrokerTypeOK
  /\ Sessions
  /\ phase \in [Consumer -> Phase]
  /\ results \in [Job -> Nat]

Init == BrokerInit /\ results = [j \in Job |-> 0]

(***************************************************************************)
(* on_message                                                              *)
(***************************************************************************)
Working(w, p) ==
  /\ Subscription[w] # "ingress"
  /\ phase[w] = p
  /\ linked[w]

Stay == UNCHANGED <<submitted, ready, dead, linked, holds, losses>>

RejectJob(w) ==
  /\ Working(w, "received")
  /\ Kind[JobOf(w)] \in {"foreign", "malformed"}
  /\ DeadLetter(w)
  /\ UNCHANGED results

InvalidRequest(w) ==
  /\ Working(w, "received")
  /\ Kind[JobOf(w)] = "invalid"
  /\ GoOn(w, "retrying")
  /\ Stay /\ UNCHANGED results

(* Mutant: preferredModel is not looked at. *)
AnalyzeForeign(w) ==
  /\ Working(w, "received")
  /\ Kind[JobOf(w)] \in {"valid", "foreign"}
  /\ \E p \in {"success", "failure", "retrying"} : GoOn(w, p)
  /\ Stay /\ UNCHANGED results

(* Download and inference either give an output or raise; an error outside *)
(* their handlers (building the result) goes to the retry path.            *)
Analyze(w) ==
  /\ Working(w, "received")
  /\ Kind[JobOf(w)] = "valid"
  /\ \E p \in {"success", "failure", "retrying"} : GoOn(w, p)
  /\ Stay /\ UNCHANGED results

Unpublished(w) == Working(w, "success") \/ Working(w, "failure")

PublishResult(w) ==
  /\ Unpublished(w)
  /\ results' = [results EXCEPT ![JobOf(w)] = @ + 1]
  /\ GoOn(w, "published")
  /\ Stay

(* Mutant: the message of an unpublished success is acknowledged. *)
AckUnpublished(w) ==
  /\ \/ Working(w, "success") /\ Ack(w)
     \/ Working(w, "failure") /\ GoOn(w, "retrying") /\ Stay
  /\ UNCHANGED results

(* ResultPublishError: a success goes to the dead-letter queue, a failure  *)
(* result escapes to the outer handler and is retried.                     *)
PublishRefused(w) ==
  /\ \/ Working(w, "success") /\ DeadLetter(w)
     \/ Working(w, "failure") /\ GoOn(w, "retrying") /\ Stay
  /\ UNCHANGED results

(* The broker took the result and the connection died with the confirm. *)
ConfirmLost(w) ==
  /\ Unpublished(w)
  /\ results' = [results EXCEPT ![JobOf(w)] = @ + 1]
  /\ Cut(w)
  /\ UNCHANGED <<submitted, dead, phase>>

(***************************************************************************)
(* _retry_or_dead_letter: republish to the ingress queue with the header   *)
(* incremented, then ack; at the limit, or when the publish raises, nack   *)
(* without requeue.                                                        *)
(***************************************************************************)
(* Mutant: the retry copy keeps its header. *)
RepublishUncounted(w) ==
  /\ Working(w, "retrying")
  /\ holds[w].retry < RetryLimit
  /\ Publish("ingress", JobOf(w), holds[w].retry)
  /\ GoOn(w, "republished")
  /\ UNCHANGED <<submitted, dead, linked, holds, losses, results>>

Republish(w) ==
  /\ Working(w, "retrying")
  /\ holds[w].retry < RetryLimit
  /\ Publish("ingress", JobOf(w), holds[w].retry + 1)
  /\ GoOn(w, "republished")
  /\ UNCHANGED <<submitted, dead, linked, holds, losses, results>>

(* Mutant: the last copy is dropped instead of dead-lettered. *)
AckExhausted(w) ==
  /\ Working(w, "retrying")
  /\ holds[w].retry >= RetryLimit
  /\ Ack(w)
  /\ UNCHANGED results

RetryExhausted(w) ==
  /\ Working(w, "retrying")
  /\ holds[w].retry >= RetryLimit
  /\ DeadLetter(w)
  /\ UNCHANGED results

RepublishRefused(w) ==
  /\ Working(w, "retrying")
  /\ holds[w].retry < RetryLimit
  /\ DeadLetter(w)
  /\ UNCHANGED results

(* Mutant: a message is nacked after its successor was published. *)
NackDone(w) ==
  /\ Working(w, "published") \/ Working(w, "republished")
  /\ Requeue(w)
  /\ UNCHANGED results

AckDone(w) ==
  /\ Working(w, "published") \/ Working(w, "republished")
  /\ Ack(w)
  /\ UNCHANGED results

OnMessage(w) ==
  \/ RejectJob(w) \/ InvalidRequest(w) \/ Analyze(w)
  \/ PublishResult(w) \/ PublishRefused(w)
  \/ Republish(w) \/ RetryExhausted(w) \/ RepublishRefused(w)
  \/ AckDone(w)

Transport ==
  /\ \/ \E j \in Job : Submit(j)
     \/ \E w \in Consumer :
          \/ Reconnect(w) \/ LoseLink(w) \/ HandlerEscapes(w)
          \/ Deliver(w) \/ Dispatch(w)
  /\ UNCHANGED results

Next ==
  \/ Transport
  \/ \E w \in Consumer : OnMessage(w) \/ ConfirmLost(w)

(***************************************************************************)
(* The threads are never stopped: the reconnect loop is infinite, RabbitMQ *)
(* hands a ready message to an idle consumer, and every handler returns.   *)
(* A dispatch that is tried again and again succeeds at last.  Nothing is  *)
(* assumed of losses, refusals or new submissions.                         *)
(***************************************************************************)
Fairness ==
  \A w \in Consumer :
    /\ WF_vars((Reconnect(w) \/ HandlerEscapes(w) \/ Deliver(w) \/ Dispatch(w))
               /\ UNCHANGED results)
    /\ SF_vars(Forward(w) /\ UNCHANGED results)
    /\ WF_vars(OnMessage(w))

Spec == Init /\ [][Next]_vars
FairSpec == Spec /\ Fairness

(***************************************************************************)
(* Properties                                                              *)
(***************************************************************************)
(* A job the backend submitted is never lost between a publish and an ack: *)
(* it is answered, in the dead-letter queue, or a message still carries it *)
(* (every path of consumer.py and of the dispatcher publishes before it    *)
(* acks).                                                                  *)
NoJobLost ==
  \A j \in submitted : results[j] > 0 \/ dead[j] > 0 \/ Live(j)

(* A message whose successor (result, forwarded or retry message) exists   *)
(* and that only waits for its acknowledgement.                            *)
Superseded(w) == phase[w] \in {"forwarded", "published", "republished"}

(* The consumers that still have work to do on a message of job j. *)
Obliged(j) ==
  {w \in Consumer : Holding(w) /\ JobOf(w) = j /\ ~Superseded(w)}

(* The inductive form of NoJobLost: the message that carries the job is    *)
(* not one that is about to be acknowledged on the strength of another.    *)
Carried(j) ==
  results[j] > 0 \/ dead[j] > 0 \/ Waiting(j) \/ Obliged(j) # {}

Accountable == \A j \in submitted : Carried(j)

(* What has become of a job: its results, dead letters and the messages on *)
(* which work is still to be done.                                         *)
Outcomes(j) ==
  results[j] + dead[j] + Cardinality(WaitingCopies(j)) + Cardinality(Obliged(j))

(* Only a lost connection duplicates work: the results, dead letters and   *)
(* messages still to be handled of a job are exactly one until the first   *)
(* loss, and at most one more for each connection lost.  Republishing,     *)
(* refusals and requeues add nothing and drop nothing.                     *)
LossesBoundDuplicates ==
  \A j \in submitted : 1 <= Outcomes(j) /\ Outcomes(j) <= 1 + losses

(* The retry loop ingress -> worker -> ingress ends: from some moment on   *)
(* no message of a submitted job is left in a work queue.                  *)
EveryJobSettles ==
  \A j \in Job : (j \in submitted) ~> [](~Live(j))

(* The server keeps the promise of JobLedger: a job is closed only after   *)
(* it was answered or parked, is never reopened, and only a job that       *)
(* parses and is meant for the server is ever answered.                    *)
Ledger == INSTANCE JobLedger WITH
  Answerable <- {j \in Job : Kind[j] = "valid"},
  untaken <- Job \ submitted,
  open <- {j \in submitted : Live(j)},
  answered <- {j \in Job : results[j] > 0},
  parked <- {j \in Job : dead[j] > 0}

KeepsLedger == Ledger!LedgerSpec
=============================================================================
