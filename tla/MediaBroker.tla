---------------------------- MODULE MediaBroker ----------------------------
(***************************************************************************)
(* The message plumbing both runtimes share: the RabbitMQ queues of one    *)
(* runtime (ingress, image, video, dead-letter), the consumers' connections*)
(* with the reconnect loop, and the media dispatcher.                      *)
(* Source: shared/messaging/rabbitmq_client.py.  The broker itself is not  *)
(* in the repository; it is modelled from how that file uses it.           *)
(*                                                                         *)
(* A message is known by the queue it is in, the job it carries and its    *)
(* x-retry-count header; equal messages are counted.  A message handed to  *)
(* a consumer is unacknowledged: it is in holds and no longer ready.  An   *)
(* acknowledgement deletes it, a nack without requeue moves it to the      *)
(* dead-letter queue, a nack with requeue or the loss of the consumer's    *)
(* connection makes it ready again.  Ready messages are handed out in any  *)
(* order: requeues and competing consumers (README.md:197-199) break FIFO. *)
(* The crash of a process is the loss of its consumers' links, each        *)
(* followed by HandlerEscapes.                                             *)
(***************************************************************************)
EXTENDS Naturals, FiniteSets

CONSTANTS Job,           \* the jobs the backend may submit, once each
          Consumer,      \* consumer threads, of one or more processes
          Subscription,  \* the queue each consumer thread consumes
          Media,         \* the media type in each job's message
          Kind,          \* what the parsing of each job's message makes of it
          RetryLimit,    \* the largest x-retry-count a message is given
          MaxLosses,     \* bound: how many connections are lost in a behaviour
          NoMessage      \* what an idle consumer holds

WorkQueue == {"ingress", "image", "video"}
Message == [queue : WorkQueue, job : Job, retry : 0..RetryLimit]

(* valid: runs here; foreign: preferredModel names the other runtime;      *)
(* invalid: JSON that AnalysisRequest refuses; malformed: not JSON.        *)
JobKind == {"valid", "foreign", "invalid", "malformed"}

ASSUME BrokerAssumption ==
  /\ Subscription \in [Consumer -> WorkQueue]
  /\ Media \in [Job -> {"image", "video"}]
  /\ Kind \in [Job -> JobKind]
  /\ RetryLimit \in Nat
  /\ MaxLosses \in Nat
  /\ NoMessage \notin Message

VARIABLES
  submitted,  \* jobs the backend has published
  ready,      \* how many of each message wait in a work queue
  dead,       \* how many messages of each job are in the dead-letter queue
  linked,     \* is the consumer's connection up?
  holds,      \* the unacknowledged message of each consumer
  phase,      \* how far each consumer thread is
  losses      \* connections lost so far

BrokerTypeOK ==
  /\ submitted \subseteq Job
  /\ ready \in [Message -> Nat]
  /\ dead \in [Job -> Nat]
  /\ linked \in [Consumer -> BOOLEAN]
  /\ holds \in [Consumer -> Message \cup {NoMessage}]
  /\ losses \in 0..MaxLosses

(* A connection ends the reconnect pause and carries the unacknowledged    *)
(* message: exactly the linked consumers that run a handler hold one.      *)
Sessions ==
  \A w \in Consumer :
    /\ phase[w] = "closed" => ~linked[w]
    /\ phase[w] = "idle" => linked[w]
    /\ holds[w] # NoMessage <=> linked[w] /\ phase[w] # "idle"

BrokerInit ==
  /\ submitted = {}
  /\ ready = [m \in Message |-> 0]
  /\ dead = [j \in Job |-> 0]
  /\ linked = [w \in Consumer |-> FALSE]
  /\ holds = [w \in Consumer |-> NoMessage]
  /\ phase = [w \in Consumer |-> "closed"]
  /\ losses = 0

(***************************************************************************)
(* State functions                                                         *)
(***************************************************************************)
Holding(w) == holds[w] # NoMessage
JobOf(w) == holds[w].job
Waiting(j) == \E m \in Message : m.job = j /\ ready[m] > 0
(* The messages of job j that wait; equal ones are told apart by a number. *)
WaitingCopies(j) ==
  UNION {{m} \X (1..ready[m]) : m \in {n \in Message : n.job = j}}
InHand(j) == \E w \in Consumer : Holding(w) /\ JobOf(w) = j
Live(j) == Waiting(j) \/ InHand(j)

(***************************************************************************)
(* What a handler does to the broker.  basic_ack, and basic_nack without   *)
(* or with requeue, are each the last thing a handler does, so the thread  *)
(* is idle again.                                                          *)
(***************************************************************************)
Publish(q, j, n) ==
  ready' = [ready EXCEPT ![[queue |-> q, job |-> j, retry |-> n]] = @ + 1]

GoOn(w, p) == phase' = [phase EXCEPT ![w] = p]

Release(w) ==
  /\ holds' = [holds EXCEPT ![w] = NoMessage]
  /\ GoOn(w, "idle")
  /\ UNCHANGED <<submitted, linked, losses>>

Ack(w) == Release(w) /\ UNCHANGED <<ready, dead>>

DeadLetter(w) ==
  /\ dead' = [dead EXCEPT ![JobOf(w)] = @ + 1]
  /\ Release(w)
  /\ UNCHANGED ready

Requeue(w) ==
  /\ ready' = [ready EXCEPT ![holds[w]] = @ + 1]
  /\ Release(w)
  /\ UNCHANGED dead

(***************************************************************************)
(* The backend publishes each job once to the runtime's ingress queue.     *)
(***************************************************************************)
Submit(j) ==
  /\ j \notin submitted
  /\ submitted' = submitted \cup {j}
  /\ Publish("ingress", j, 0)
  /\ UNCHANGED <<dead, linked, holds, phase, losses>>

(***************************************************************************)
(* Connections: consume_with_reconnect.  The loop connects, declares the   *)
(* queues and consumes; any exception, also one that escapes a handler,    *)
(* closes the connection and starts over after a delay.  The broker drops  *)
(* a connection that fails or whose handler outlives the heartbeat; the    *)
(* handler notices at its next operation on the channel.                   *)
(***************************************************************************)
Reconnect(w) ==
  /\ phase[w] = "closed"
  /\ linked' = [linked EXCEPT ![w] = TRUE]
  /\ GoOn(w, "idle")
  /\ UNCHANGED <<submitted, ready, dead, holds, losses>>

Cut(w) ==
  /\ linked[w]
  /\ losses < MaxLosses
  /\ losses' = losses + 1
  /\ linked' = [linked EXCEPT ![w] = FALSE]
  /\ holds' = [holds EXCEPT ![w] = NoMessage]
  /\ ready' = IF Holding(w) THEN [ready EXCEPT ![holds[w]] = @ + 1] ELSE ready

LoseLink(w) ==
  /\ Cut(w)
  /\ GoOn(w, IF phase[w] = "idle" THEN "closed" ELSE phase[w])
  /\ UNCHANGED <<submitted, dead>>

(* Mutant: an escaped exception leaves the consumer to consume on, without *)
(* a reconnect.                                                            *)
HandlerEscapesAndConsumes(w) ==
  /\ ~linked[w]
  /\ phase[w] # "closed"
  /\ GoOn(w, "idle")
  /\ UNCHANGED <<submitted, ready, dead, linked, holds, losses>>

(* On a lost channel every operation raises, and so does the basic_nack of *)
(* the handler that catches it: the exception ends consume.                *)
HandlerEscapes(w) ==
  /\ ~linked[w]
  /\ phase[w] # "closed"
  /\ GoOn(w, "closed")
  /\ UNCHANGED <<submitted, ready, dead, linked, holds, losses>>

Deliver(w) ==
  /\ phase[w] = "idle"
  /\ \E m \in Message :
       /\ m.queue = Subscription[w]
       /\ ready[m] > 0
       /\ ready' = [ready EXCEPT ![m] = @ - 1]
       /\ holds' = [holds EXCEPT ![w] = m]
  /\ GoOn(w, "received")
  /\ UNCHANGED <<submitted, dead, linked, losses>>

(***************************************************************************)
(* The media dispatcher: create_media_dispatcher.                          *)
(***************************************************************************)
Dispatching(w) ==
  /\ Subscription[w] = "ingress"
  /\ phase[w] = "received"
  /\ linked[w]

DropMalformed(w) ==
  /\ Dispatching(w)
  /\ Kind[JobOf(w)] = "malformed"
  /\ DeadLetter(w)

(* The message keeps its properties, the x-retry-count header among them.  *)
(* The channel has no publisher confirms: that the broker keeps what it is *)
(* sent is assumed of it.                                                  *)
Forward(w) ==
  /\ Dispatching(w)
  /\ Kind[JobOf(w)] # "malformed"
  /\ Publish(Media[JobOf(w)], JobOf(w), holds[w].retry)
  /\ GoOn(w, "forwarded")
  /\ UNCHANGED <<submitted, dead, linked, holds, losses>>

(* Any other exception while the link is up: nack with requeue. *)
DispatchRaises(w) ==
  /\ Dispatching(w)
  /\ Kind[JobOf(w)] # "malformed"
  /\ Requeue(w)

(* Mutant: the dispatcher nacks what it has forwarded. *)
NackForwarded(w) ==
  /\ phase[w] = "forwarded"
  /\ linked[w]
  /\ Requeue(w)

AckForwarded(w) ==
  /\ phase[w] = "forwarded"
  /\ linked[w]
  /\ Ack(w)

Dispatch(w) ==
  DropMalformed(w) \/ Forward(w) \/ DispatchRaises(w) \/ AckForwarded(w)
=============================================================================
