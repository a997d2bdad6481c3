----------------------- MODULE ServerPipelineProofs -----------------------
(***************************************************************************)
(* Proofs about ServerPipeline, for every set of jobs and consumers, every *)
(* retry limit and every number of lost connections.                       *)
(***************************************************************************)
EXTENDS ServerPipeline, FiniteSetTheorems, TLAPS

(***************************************************************************)
(* Messages and the operations on the broker                               *)
(***************************************************************************)
(* What Publish puts on a queue is a message, and the counts stay numbers. *)
LEMMA PublishType ==
  ASSUME TypeOK,
         NEW q \in WorkQueue, NEW j \in Job, NEW n \in 0..RetryLimit,
         Publish(q, j, n)
  PROVE  /\ [queue |-> q, job |-> j, retry |-> n] \in Message
         /\ ready' \in [Message -> Nat]
         /\ ready'[[queue |-> q, job |-> j, retry |-> n]] > 0
         /\ \A m \in Message : ready'[m] >= ready[m]
<1>1. [queue |-> q, job |-> j, retry |-> n] \in Message
  BY DEF Message
<1>2. QED
  BY <1>1 DEF Publish, TypeOK, BrokerTypeOK

(* A consumer that holds something holds a message of some job. *)
LEMMA HeldMessage ==
  ASSUME TypeOK, NEW w \in Consumer, Holding(w)
  PROVE  /\ holds[w] \in Message
         /\ JobOf(w) \in Job
         /\ holds[w].retry \in 0..RetryLimit
         /\ linked[w]
BY BrokerAssumption DEF TypeOK, BrokerTypeOK, Sessions, Holding, JobOf, Message

(* A linked consumer that is not idle holds a message. *)
LEMMA BusyHolds ==
  ASSUME TypeOK, NEW w \in Consumer, linked[w], phase[w] # "idle"
  PROVE  Holding(w)
BY DEF TypeOK, BrokerTypeOK, Sessions, Holding

(* Whichever way a handler settles its message, its thread is idle again,  *)
(* holds nothing, and the counts stay numbers.                             *)
LEMMA SettleType ==
  ASSUME TypeOK, NEW w \in Consumer, Holding(w),
         Ack(w) \/ DeadLetter(w) \/ Requeue(w)
  PROVE  BrokerTypeOK' /\ Sessions' /\ phase' \in [Consumer -> Phase]
<1>1. holds[w] \in Message /\ JobOf(w) \in Job /\ linked[w]
  BY HeldMessage
<1>2. ready' \in [Message -> Nat] /\ dead' \in [Job -> Nat]
  BY <1>1 DEF Ack, DeadLetter, Requeue, TypeOK, BrokerTypeOK
<1>3. Release(w)
  BY DEF Ack, DeadLetter, Requeue
<1>4. QED
  BY <1>1, <1>2, <1>3
     DEF Release, GoOn, TypeOK, BrokerTypeOK, Sessions, Phase

(* A handler that only moves on to another phase keeps its message. *)
LEMMA GoOnType ==
  ASSUME TypeOK, NEW w \in Consumer, Holding(w),
         NEW p \in Phase \ {"closed", "idle"}, GoOn(w, p), UNCHANGED <<linked, holds>>
  PROVE  Sessions' /\ phase' \in [Consumer -> Phase]
BY HeldMessage DEF GoOn, TypeOK, BrokerTypeOK, Sessions, Holding, Phase

(***************************************************************************)
(* Type correctness                                                        *)
(***************************************************************************)
(* A step of the transport: the backend, the connections, the dispatcher. *)
LEMMA TransportType == TypeOK /\ Transport => TypeOK'
<1> SUFFICES ASSUME TypeOK, Transport
             PROVE  TypeOK'
  OBVIOUS
<1> USE BrokerAssumption
<1>1. results' = results
  BY DEF Transport
<1>2. ASSUME NEW j \in Job, Submit(j)
      PROVE  TypeOK'
  <2>1. "ingress" \in WorkQueue /\ 0 \in 0..RetryLimit
    BY DEF WorkQueue
  <2>2. Publish("ingress", j, 0)
    BY <1>2 DEF Submit
  <2>3. ready' \in [Message -> Nat]
    BY <2>1, <2>2, PublishType
  <2>4. QED
    BY <1>1, <1>2, <2>3 DEF Submit, TypeOK, BrokerTypeOK, Sessions
<1>3. ASSUME NEW w \in Consumer, Reconnect(w)
      PROVE  TypeOK'
  BY <1>1, <1>3 DEF Reconnect, GoOn, TypeOK, BrokerTypeOK, Sessions, Phase
<1>4. ASSUME NEW w \in Consumer, LoseLink(w)
      PROVE  TypeOK'
  BY <1>1, <1>4 DEF LoseLink, Cut, GoOn, Holding, TypeOK, BrokerTypeOK, Sessions, Phase
<1>5. ASSUME NEW w \in Consumer, HandlerEscapes(w)
      PROVE  TypeOK'
  BY <1>1, <1>5 DEF HandlerEscapes, GoOn, TypeOK, BrokerTypeOK, Sessions, Phase
<1>6. ASSUME NEW w \in Consumer, Deliver(w)
      PROVE  TypeOK'
  BY <1>1, <1>6 DEF Deliver, GoOn, TypeOK, BrokerTypeOK, Sessions, Phase
<1>7. ASSUME NEW w \in Consumer, Dispatch(w)
      PROVE  TypeOK'
  <2>1. Holding(w)
    BY <1>7, BusyHolds
       DEF Dispatch, DropMalformed, Forward, DispatchRaises, AckForwarded,
           Dispatching
  <2>2. CASE Forward(w)
    <3>1. Media[JobOf(w)] \in WorkQueue
      BY <2>1, HeldMessage DEF WorkQueue
    <3>2. ready' \in [Message -> Nat]
      BY <2>1, <2>2, <3>1, HeldMessage, PublishType DEF Forward
    <3>3. Sessions' /\ phase' \in [Consumer -> Phase]
      BY <2>1, <2>2, GoOnType DEF Forward, Phase
    <3>4. QED
      BY <1>1, <2>2, <3>2, <3>3 DEF Forward, TypeOK, BrokerTypeOK
  <2>3. CASE DropMalformed(w) \/ DispatchRaises(w) \/ AckForwarded(w)
    BY <1>1, <2>1, <2>3, SettleType
       DEF DropMalformed, DispatchRaises, AckForwarded, TypeOK
  <2>4. QED
    BY <1>7, <2>2, <2>3 DEF Dispatch
<1>8. QED
  BY <1>2, <1>3, <1>4, <1>5, <1>6, <1>7 DEF Transport

(* A step of a worker's handler, or the loss of a confirm. *)
LEMMA WorkerType ==
  ASSUME TypeOK, NEW w \in Consumer, OnMessage(w) \/ ConfirmLost(w)
  PROVE  TypeOK'
<1> USE BrokerAssumption
<1>1. Holding(w) /\ linked[w]
  BY BusyHolds
     DEF OnMessage, RejectJob, InvalidRequest, Analyze, PublishResult,
         PublishRefused, Republish, RetryExhausted, RepublishRefused, AckDone,
         ConfirmLost, Unpublished, Working
<1>2. holds[w] \in Message /\ JobOf(w) \in Job
  BY <1>1, HeldMessage
<1>3. CASE /\ Ack(w) \/ DeadLetter(w)
           /\ UNCHANGED results
  BY <1>1, <1>3, SettleType DEF TypeOK
<1>4. CASE InvalidRequest(w) \/ Analyze(w)
  <2>1. PICK p \in Phase \ {"closed", "idle"} : GoOn(w, p)
    BY <1>4 DEF InvalidRequest, Analyze, Phase
  <2>2. QED
    BY <1>1, <1>4, <2>1, GoOnType
       DEF InvalidRequest, Analyze, Stay, TypeOK, BrokerTypeOK
<1>5. CASE PublishResult(w)
  BY <1>1, <1>2, <1>5, GoOnType
     DEF PublishResult, Stay, TypeOK, BrokerTypeOK, Phase
<1>6. CASE Working(w, "failure") /\ GoOn(w, "retrying") /\ Stay /\ UNCHANGED results
  BY <1>1, <1>6, GoOnType DEF Stay, TypeOK, BrokerTypeOK, Phase
<1>7. CASE Republish(w)
  <2>1. "ingress" \in WorkQueue /\ holds[w].retry + 1 \in 0..RetryLimit
    BY <1>1, <1>7, HeldMessage DEF Republish, WorkQueue
  <2>2. ready' \in [Message -> Nat]
    BY <1>2, <1>7, <2>1, PublishType DEF Republish
  <2>3. QED
    BY <1>1, <1>7, <2>2, GoOnType DEF Republish, TypeOK, BrokerTypeOK, Phase
<1>8. CASE ConfirmLost(w)
  <2>1. phase[w] \notin {"closed", "idle"}
    BY <1>8 DEF ConfirmLost, Unpublished, Working
  <2>2. QED
    BY <1>1, <1>2, <1>8, <2>1
       DEF ConfirmLost, Cut, TypeOK, BrokerTypeOK, Sessions
<1>9. QED
  BY <1>3, <1>4, <1>5, <1>6, <1>7, <1>8
     DEF OnMessage, RejectJob, PublishRefused, RetryExhausted,
         RepublishRefused, AckDone

(* TypeOK of ServerPipeline, for every instance: among the rest, no message *)
(* is ever given an x-retry-count above the limit, and exactly the linked   *)
(* consumers that run a handler hold an unacknowledged message.             *)
THEOREM ServerTypeCorrect == Spec => []TypeOK
<1>1. Init => TypeOK
  BY BrokerAssumption
     DEF Init, BrokerInit, TypeOK, BrokerTypeOK, Sessions, Phase, Message
<1>2. TypeOK /\ [Next]_vars => TypeOK'
  <2>1. ASSUME TypeOK, UNCHANGED vars
        PROVE  TypeOK'
    BY <2>1 DEF vars, TypeOK, BrokerTypeOK, Sessions
  <2>2. QED
    BY <2>1, TransportType, WorkerType DEF Next
<1>3. QED
  BY <1>1, <1>2, PTL DEF Spec

(***************************************************************************)
(* No job is lost                                                          *)
(***************************************************************************)
(* The counts never fall except for the message that Deliver takes, so a   *)
(* step of consumer w can only harm a job through w's own obligation or    *)
(* through the messages that wait.                                         *)
LEMMA CarryOver ==
  ASSUME TypeOK, TypeOK', NEW w \in Consumer, NEW j \in Job, Carried(j),
         \A v \in Consumer \ {w} : holds'[v] = holds[v] /\ phase'[v] = phase[v],
         results'[j] >= results[j], dead'[j] >= dead[j],
         Waiting(j) => Carried(j)',
         w \in Obliged(j) => Carried(j)'
  PROVE  Carried(j)'
<1>1. CASE results[j] > 0 \/ dead[j] > 0
  BY <1>1 DEF Carried, TypeOK, BrokerTypeOK
<1>2. ASSUME NEW v \in Obliged(j), v # w
      PROVE  Carried(j)'
  <2>1. v \in Obliged(j)'
    BY <1>2 DEF Obliged, Holding, JobOf, Superseded
  <2>2. QED
    BY <2>1 DEF Carried
<1>3. QED
  BY <1>1, <1>2 DEF Carried

(* Messages that wait go on waiting when no count falls. *)
LEMMA StillWaiting ==
  ASSUME TypeOK, TypeOK', NEW j \in Job, Waiting(j),
         \A m \in Message : ready'[m] >= ready[m]
  PROVE  Carried(j)'
BY DEF Waiting, Carried, TypeOK, BrokerTypeOK

(* Publish leaves a message of its job waiting. *)
LEMMA PublishCarries ==
  ASSUME TypeOK, NEW q \in WorkQueue, NEW j \in Job, NEW n \in 0..RetryLimit,
         Publish(q, j, n)
  PROVE  Carried(j)' /\ \A m \in Message : ready'[m] >= ready[m]
<1> DEFINE new == [queue |-> q, job |-> j, retry |-> n]
<1>1. new \in Message /\ ready'[new] > 0 /\ new.job = j
  BY PublishType
<1>2. Waiting(j)'
  BY <1>1 DEF Waiting
<1>3. QED
  BY <1>2, PublishType DEF Carried

(* So does the return of an unacknowledged message to its queue. *)
LEMMA ReturnCarries ==
  ASSUME TypeOK, NEW w \in Consumer, Holding(w), NEW j \in Job, JobOf(w) = j,
         ready' = [ready EXCEPT ![holds[w]] = @ + 1]
  PROVE  Carried(j)' /\ \A m \in Message : ready'[m] >= ready[m]
<1>1. holds[w] \in Message
  BY HeldMessage
<1>2. ready'[holds[w]] > 0 /\ \A m \in Message : ready'[m] >= ready[m]
  BY <1>1 DEF TypeOK, BrokerTypeOK
<1>3. PICK m \in Message : m.job = j /\ ready'[m] > 0
  BY <1>1, <1>2 DEF JobOf
<1>4. Waiting(j)'
  BY <1>3 DEF Waiting
<1>5. QED
  BY <1>2, <1>4 DEF Carried

(* A handler that still has to settle its message carries the job. *)
LEMMA ObligedCarries ==
  ASSUME NEW w \in Consumer, NEW j \in Job,
         Holding(w)', JobOf(w)' = j, ~Superseded(w)'
  PROVE  Carried(j)'
BY DEF Carried, Obliged

(* Only the job of the message w holds can be w's obligation. *)
LEMMA Obligation ==
  ASSUME NEW w \in Consumer, NEW j \in Job, w \in Obliged(j)
  PROVE  Holding(w) /\ JobOf(w) = j /\ ~Superseded(w)
BY DEF Obliged

(* Settling a message keeps every job carried, provided that a message is  *)
(* acknowledged only when its successor exists.                            *)
LEMMA SettleCarries ==
  ASSUME TypeOK, TypeOK', NEW w \in Consumer, Holding(w), NEW j \in Job, Carried(j),
         (Ack(w) /\ Superseded(w)) \/ DeadLetter(w) \/ Requeue(w),
         results' = results
  PROVE  Carried(j)'
<1>1. holds[w] \in Message /\ JobOf(w) \in Job
  BY HeldMessage
<1>2. \A v \in Consumer \ {w} : holds'[v] = holds[v] /\ phase'[v] = phase[v]
  BY DEF Ack, DeadLetter, Requeue, Release, GoOn, TypeOK, BrokerTypeOK
<1>3. /\ \A m \in Message : ready'[m] >= ready[m]
      /\ dead'[j] >= dead[j]
      /\ results'[j] >= results[j]
  BY <1>1 DEF Ack, DeadLetter, Requeue, TypeOK, BrokerTypeOK
<1>4. Waiting(j) => Carried(j)'
  BY <1>3, StillWaiting
<1>5. ASSUME w \in Obliged(j)
      PROVE  Carried(j)'
  <2>1. JobOf(w) = j /\ ~Superseded(w)
    BY <1>5, Obligation
  <2>2. CASE DeadLetter(w)
    BY <2>1, <2>2 DEF DeadLetter, Carried, TypeOK, BrokerTypeOK
  <2>3. CASE Requeue(w)
    BY <2>1, <2>3, ReturnCarries DEF Requeue
  <2>4. QED
    BY <2>1, <2>2, <2>3
<1>6. QED
  BY <1>2, <1>3, <1>4, <1>5, CarryOver

(* A lost connection returns the unacknowledged message to its queue. *)
LEMMA CutCarries ==
  ASSUME TypeOK, TypeOK', NEW w \in Consumer, Cut(w), NEW j \in Job, Carried(j),
         \A v \in Consumer \ {w} : phase'[v] = phase[v],
         dead' = dead, results'[j] >= results[j]
  PROVE  Carried(j)'
<1>1. \A m \in Message : ready'[m] >= ready[m]
  BY HeldMessage DEF Cut, TypeOK, BrokerTypeOK
<1>2. Waiting(j) => Carried(j)'
  BY <1>1, StillWaiting
<1>3. ASSUME w \in Obliged(j)
      PROVE  Carried(j)'
  BY <1>3, Obligation, ReturnCarries DEF Cut
<1>4. \A v \in Consumer \ {w} : holds'[v] = holds[v] /\ phase'[v] = phase[v]
  BY DEF Cut, TypeOK, BrokerTypeOK
<1>5. QED
  BY <1>2, <1>3, <1>4, CarryOver DEF TypeOK, BrokerTypeOK

(* Every step of the transport keeps every job carried. *)
LEMMA TransportCarries ==
  ASSUME TypeOK, TypeOK', Transport, NEW j \in Job,
         Carried(j) \/ j \in submitted' \ submitted
  PROVE  Carried(j)'
<1> USE BrokerAssumption
<1>1. results' = results
  BY DEF Transport
<1>2. ASSUME NEW i \in Job, Submit(i)
      PROVE  Carried(j)'
  <2>1. /\ "ingress" \in WorkQueue /\ 0 \in 0..RetryLimit
        /\ Publish("ingress", i, 0)
    BY <1>2 DEF Submit, WorkQueue
  <2>2. Carried(i)' /\ \A m \in Message : ready'[m] >= ready[m]
    BY <2>1, PublishCarries
  <2>3. CASE j = i
    BY <2>2, <2>3
  <2>4. CASE j # i
    <3>1. Carried(j)
      BY <1>2, <2>4 DEF Submit
    <3>2. Waiting(j) => Carried(j)'
      BY <2>2, StillWaiting
    <3>3. Obliged(j)' = Obliged(j) /\ dead' = dead
      BY <1>2 DEF Submit, Obliged, Holding, JobOf, Superseded
    <3>4. QED
      BY <1>1, <3>1, <3>2, <3>3 DEF Carried
  <2>5. QED
    BY <2>3, <2>4
<1>3. ASSUME NEW w \in Consumer, Reconnect(w) \/ HandlerEscapes(w)
      PROVE  Carried(j)'
  <2>1. Carried(j) /\ ready' = ready /\ dead' = dead
    BY <1>3 DEF Reconnect, HandlerEscapes
  <2>2. w \notin Obliged(j)
    BY <1>3 DEF Obliged, Holding, Reconnect, HandlerEscapes,
                TypeOK, Sessions
  <2>3. \A v \in Consumer \ {w} : holds'[v] = holds[v] /\ phase'[v] = phase[v]
    BY <1>3 DEF Reconnect, HandlerEscapes, GoOn, TypeOK
  <2>4. Waiting(j) => Carried(j)'
    BY <2>1 DEF Waiting, Carried
  <2>5. QED
    BY <1>1, <2>1, <2>2, <2>3, <2>4, CarryOver DEF TypeOK, BrokerTypeOK
<1>4. ASSUME NEW w \in Consumer, LoseLink(w)
      PROVE  Carried(j)'
  <2>1. \A v \in Consumer \ {w} : phase'[v] = phase[v]
    BY <1>4 DEF LoseLink, GoOn, TypeOK
  <2>2. Carried(j) /\ Cut(w) /\ dead' = dead
    BY <1>4 DEF LoseLink
  <2>3. results'[j] >= results[j]
    BY <1>1 DEF TypeOK
  <2>4. QED
    BY <2>1, <2>2, <2>3, CutCarries
<1>5. ASSUME NEW w \in Consumer, Deliver(w)
      PROVE  Carried(j)'
  <2>1. PICK m \in Message : /\ ready[m] > 0
                             /\ ready' = [ready EXCEPT ![m] = @ - 1]
                             /\ holds' = [holds EXCEPT ![w] = m]
    BY <1>5 DEF Deliver
  <2>2. /\ Carried(j) /\ dead' = dead
        /\ \A v \in Consumer \ {w} : holds'[v] = holds[v] /\ phase'[v] = phase[v]
    BY <1>5, <2>1 DEF Deliver, GoOn, TypeOK, BrokerTypeOK
  <2>3. w \notin Obliged(j)
    BY <1>5 DEF Deliver, Obliged, Holding, TypeOK, Sessions
  <2>4. ASSUME Waiting(j)
        PROVE  Carried(j)'
    <3>1. PICK k \in Message : k.job = j /\ ready[k] > 0
      BY <2>4 DEF Waiting
    <3>2. CASE k = m
      <4>1. holds'[w] = m /\ phase'[w] = "received"
        BY <1>5, <2>1 DEF Deliver, GoOn, TypeOK, BrokerTypeOK
      <4>2. Holding(w)' /\ JobOf(w)' = j /\ ~Superseded(w)'
        BY <3>1, <3>2, <4>1 DEF Holding, JobOf, Superseded
      <4>3. QED
        BY <4>2, ObligedCarries
    <3>3. CASE k # m
      <4>1. ready'[k] > 0
        BY <2>1, <3>1, <3>3 DEF TypeOK, BrokerTypeOK
      <4>2. Waiting(j)'
        BY <3>1, <4>1 DEF Waiting
      <4>3. QED
        BY <4>2 DEF Carried
    <3>4. QED
      BY <3>2, <3>3
  <2>5. QED
    BY <1>1, <2>2, <2>3, <2>4, CarryOver DEF TypeOK, BrokerTypeOK
<1>6. ASSUME NEW w \in Consumer, Dispatch(w)
      PROVE  Carried(j)'
  <2>1. Holding(w) /\ Carried(j)
    BY <1>6, BusyHolds
       DEF Dispatch, DropMalformed, Forward, DispatchRaises, AckForwarded,
           Dispatching, Ack, DeadLetter, Requeue, Release
  <2>2. CASE Forward(w)
    <3>1. /\ Publish(Media[JobOf(w)], JobOf(w), holds[w].retry)
          /\ Media[JobOf(w)] \in WorkQueue
      BY <2>1, <2>2, HeldMessage DEF Forward, WorkQueue
    <3>2. \A m \in Message : ready'[m] >= ready[m]
      BY <2>1, <3>1, HeldMessage, PublishCarries
    <3>3. Waiting(j) => Carried(j)'
      BY <3>2, StillWaiting
    <3>4. ASSUME w \in Obliged(j)
          PROVE  Carried(j)'
      BY <2>1, <3>1, <3>4, HeldMessage, Obligation, PublishCarries
    <3>5. /\ dead' = dead
          /\ \A v \in Consumer \ {w} :
               holds'[v] = holds[v] /\ phase'[v] = phase[v]
      BY <2>2 DEF Forward, GoOn, TypeOK
    <3>6. QED
      BY <1>1, <2>1, <3>3, <3>4, <3>5, CarryOver DEF TypeOK, BrokerTypeOK
  <2>3. CASE DropMalformed(w) \/ DispatchRaises(w) \/ AckForwarded(w)
    <3>1. (Ack(w) /\ Superseded(w)) \/ DeadLetter(w) \/ Requeue(w)
      BY <2>3 DEF DropMalformed, DispatchRaises, AckForwarded, Superseded
    <3>2. QED
      BY <1>1, <2>1, <3>1, SettleCarries
  <2>4. QED
    BY <1>6, <2>2, <2>3 DEF Dispatch
<1>7. QED
  BY <1>2, <1>3, <1>4, <1>5, <1>6 DEF Transport

(* Every step of a worker keeps every job carried. *)
LEMMA WorkerCarries ==
  ASSUME TypeOK, TypeOK', NEW w \in Consumer, OnMessage(w) \/ ConfirmLost(w),
         NEW j \in Job, Carried(j)
  PROVE  Carried(j)'
<1> USE BrokerAssumption
<1>1. Holding(w) /\ JobOf(w) \in Job
  BY BusyHolds, HeldMessage
     DEF OnMessage, RejectJob, InvalidRequest, Analyze, PublishResult,
         PublishRefused, Republish, RetryExhausted, RepublishRefused, AckDone,
         ConfirmLost, Unpublished, Working
<1>2. CASE /\ (Ack(w) /\ Superseded(w)) \/ DeadLetter(w)
           /\ UNCHANGED results
  BY <1>1, <1>2, SettleCarries
<1>3. ASSUME NEW p \in {"success", "failure", "retrying"},
             GoOn(w, p), Stay, UNCHANGED results
      PROVE  Carried(j)'
  <2>1. ~Superseded(w)'
    BY <1>3 DEF GoOn, Superseded, TypeOK
  <2>2. w \in Obliged(j) => Carried(j)'
    BY <1>3, <2>1, Obligation, ObligedCarries DEF Stay, Holding, JobOf
  <2>3. Waiting(j) => Carried(j)'
    BY <1>3 DEF Stay, Waiting, Carried
  <2>4. \A v \in Consumer \ {w} : holds'[v] = holds[v] /\ phase'[v] = phase[v]
    BY <1>3 DEF GoOn, Stay, TypeOK
  <2>5. QED
    BY <1>3, <2>2, <2>3, <2>4, CarryOver DEF Stay, TypeOK, BrokerTypeOK
<1>4. CASE PublishResult(w)
  <2>1. results'[j] >= results[j] /\ dead' = dead
    BY <1>1, <1>4 DEF PublishResult, Stay, TypeOK
  <2>2. w \in Obliged(j) => Carried(j)'
    BY <1>1, <1>4, Obligation DEF PublishResult, Carried, TypeOK
  <2>3. Waiting(j) => Carried(j)'
    BY <1>4 DEF PublishResult, Stay, Waiting, Carried
  <2>4. \A v \in Consumer \ {w} : holds'[v] = holds[v] /\ phase'[v] = phase[v]
    BY <1>4 DEF PublishResult, GoOn, Stay, TypeOK
  <2>5. QED
    BY <2>1, <2>2, <2>3, <2>4, CarryOver DEF TypeOK, BrokerTypeOK
<1>5. CASE Republish(w)
  <2>1. /\ Publish("ingress", JobOf(w), holds[w].retry + 1)
        /\ "ingress" \in WorkQueue
        /\ holds[w].retry + 1 \in 0..RetryLimit
    BY <1>1, <1>5, HeldMessage DEF Republish, WorkQueue
  <2>2. \A m \in Message : ready'[m] >= ready[m]
    BY <1>1, <2>1, PublishCarries
  <2>3. Waiting(j) => Carried(j)'
    BY <2>2, StillWaiting
  <2>4. w \in Obliged(j) => Carried(j)'
    BY <1>1, <2>1, Obligation, PublishCarries
  <2>5. /\ dead' = dead /\ results' = results
        /\ \A v \in Consumer \ {w} : holds'[v] = holds[v] /\ phase'[v] = phase[v]
    BY <1>5 DEF Republish, GoOn, TypeOK
  <2>6. QED
    BY <2>3, <2>4, <2>5, CarryOver DEF TypeOK, BrokerTypeOK
<1>6. CASE ConfirmLost(w)
  <2>1. results'[j] >= results[j]
    BY <1>1, <1>6 DEF ConfirmLost, TypeOK
  <2>2. QED
    BY <1>6, <2>1, CutCarries DEF ConfirmLost
<1>7. QED
  BY <1>2, <1>3, <1>4, <1>5, <1>6
     DEF OnMessage, RejectJob, InvalidRequest, Analyze, PublishRefused,
         RetryExhausted, RepublishRefused, AckDone, Working, Superseded

(* Accountable is inductive over TypeOK. *)
THEOREM ServerAccountable == Spec => []Accountable
<1>1. Init => Accountable
  BY DEF Init, BrokerInit, Accountable
<1>2. TypeOK /\ TypeOK' /\ Accountable /\ [Next]_vars => Accountable'
  <2> SUFFICES ASSUME TypeOK, TypeOK', Accountable, [Next]_vars,
                      NEW j \in Job, j \in submitted'
               PROVE  Carried(j)'
    BY DEF Accountable, TypeOK, BrokerTypeOK
  <2>1. CASE Transport
    BY <2>1, TransportCarries DEF Accountable
  <2>2. ASSUME NEW w \in Consumer, OnMessage(w) \/ ConfirmLost(w)
        PROVE  Carried(j)'
    <3>1. submitted' = submitted
      BY <2>2
         DEF OnMessage, RejectJob, InvalidRequest, Analyze, PublishResult,
             PublishRefused, Republish, RetryExhausted, RepublishRefused,
             AckDone, ConfirmLost, Stay, Ack, DeadLetter, Release
    <3>2. QED
      BY <2>2, <3>1, WorkerCarries DEF Accountable
  <2>3. CASE UNCHANGED vars
    BY <2>3 DEF vars, Accountable, Carried, Waiting, Obliged, Holding, JobOf,
                Superseded
  <2>4. QED
    BY <2>1, <2>2, <2>3 DEF Next
<1>3. QED
  BY <1>1, <1>2, ServerTypeCorrect, PTL DEF Spec

(* No behaviour of the server loses a job the backend submitted. *)
THEOREM ServerNoJobLost == Spec => []NoJobLost
<1>1. Accountable => NoJobLost
  BY DEF Accountable, Carried, NoJobLost, Live, InHand, Obliged
<1>2. QED
  BY <1>1, ServerAccountable, PTL

(***************************************************************************)
(* Only lost connections duplicate work                                    *)
(***************************************************************************)
(* The numbered copies of a job's waiting messages, element by element. *)
LEMMA CopyMembership ==
  ASSUME NEW j, NEW c
  PROVE  c \in WaitingCopies(j) <=>
           \E m \in Message, n \in Nat : m.job = j /\ n \in 1..ready[m] /\ c = <<m, n>>
BY DEF WaitingCopies

(* One more message m is one more copy of its job, and of no other. *)
LEMMA CopiesGrow ==
  ASSUME ready \in [Message -> Nat], NEW m \in Message, NEW j,
         ready' = [ready EXCEPT ![m] = @ + 1], IsFiniteSet(WaitingCopies(j))
  PROVE  /\ IsFiniteSet(WaitingCopies(j)')
         /\ Cardinality(WaitingCopies(j)') =
              Cardinality(WaitingCopies(j)) + (IF m.job = j THEN 1 ELSE 0)
<1> DEFINE new == <<m, ready[m] + 1>>
<1>1. \A c : c \in WaitingCopies(j)' <=>
        \E k \in Message, n \in Nat : k.job = j /\ n \in 1..ready'[k] /\ c = <<k, n>>
  BY DEF WaitingCopies
<1>2. CASE m.job = j
  <2>1. WaitingCopies(j)' = WaitingCopies(j) \cup {new}
    <3>1. ASSUME NEW c \in WaitingCopies(j)'
          PROVE  c \in WaitingCopies(j) \cup {new}
      <4>1. PICK k \in Message, n \in Nat :
               k.job = j /\ n \in 1..ready'[k] /\ c = <<k, n>>
        BY <1>1, <3>1
      <4>2. n \in 1..ready[k] \/ (k = m /\ n = ready[m] + 1)
        BY <4>1
      <4>3. QED
        BY <4>1, <4>2, CopyMembership
    <3>2. ASSUME NEW c \in WaitingCopies(j) \cup {new}
          PROVE  c \in WaitingCopies(j)'
      <4>1. CASE c = new
        BY <1>1, <1>2, <4>1
      <4>2. CASE c \in WaitingCopies(j)
        <5>1. PICK k \in Message, n \in Nat :
               k.job = j /\ n \in 1..ready[k] /\ c = <<k, n>>
          BY <4>2, CopyMembership
        <5>2. n \in 1..ready'[k]
          BY <5>1
        <5>3. QED
          BY <1>1, <5>1, <5>2
      <4>3. QED
        BY <3>2, <4>1, <4>2
    <3>3. QED
      BY <3>1, <3>2
  <2>2. new \notin WaitingCopies(j)
    BY CopyMembership
  <2>3. /\ IsFiniteSet(WaitingCopies(j) \cup {new})
        /\ Cardinality(WaitingCopies(j) \cup {new}) = Cardinality(WaitingCopies(j)) + 1
    BY <2>2, FS_AddElement
  <2>4. QED
    BY <1>2, <2>1, <2>3
<1>3. CASE m.job # j
  <2>1. \A k \in Message : k.job = j => ready'[k] = ready[k]
    BY <1>3
  <2>2. WaitingCopies(j)' = WaitingCopies(j)
    <3>1. \A c : c \in WaitingCopies(j)' <=> c \in WaitingCopies(j)
      BY <1>1, <2>1, CopyMembership
    <3>2. QED
      BY <3>1
  <2>3. QED
    BY <1>3, <2>2, FS_CardinalityType
<1>4. QED
  BY <1>2, <1>3

(* One message m less is one copy of its job less, and of no other. *)
LEMMA CopiesShrink ==
  ASSUME ready \in [Message -> Nat], NEW m \in Message, NEW j, ready[m] > 0,
         ready' = [ready EXCEPT ![m] = @ - 1], IsFiniteSet(WaitingCopies(j))
  PROVE  /\ IsFiniteSet(WaitingCopies(j)')
         /\ Cardinality(WaitingCopies(j)') =
              Cardinality(WaitingCopies(j)) - (IF m.job = j THEN 1 ELSE 0)
<1> DEFINE old == <<m, ready[m]>>
<1>1. \A c : c \in WaitingCopies(j)' <=>
        \E k \in Message, n \in Nat : k.job = j /\ n \in 1..ready'[k] /\ c = <<k, n>>
  BY DEF WaitingCopies
<1>2. CASE m.job = j
  <2>1. WaitingCopies(j)' = WaitingCopies(j) \ {old}
    <3>1. ASSUME NEW c \in WaitingCopies(j)'
          PROVE  c \in WaitingCopies(j) \ {old}
      <4>1. PICK k \in Message, n \in Nat :
               k.job = j /\ n \in 1..ready'[k] /\ c = <<k, n>>
        BY <1>1, <3>1
      <4>2. n \in 1..ready[k] /\ (k # m \/ n # ready[m])
        BY <4>1
      <4>3. QED
        BY <4>1, <4>2, CopyMembership
    <3>2. ASSUME NEW c \in WaitingCopies(j) \ {old}
          PROVE  c \in WaitingCopies(j)'
      <4>1. PICK k \in Message, n \in Nat :
               k.job = j /\ n \in 1..ready[k] /\ c = <<k, n>>
        BY <3>2, CopyMembership
      <4>2. n \in 1..ready'[k]
        BY <3>2, <4>1
      <4>3. QED
        BY <1>1, <4>1, <4>2
    <3>3. QED
      BY <3>1, <3>2
  <2>2. old \in WaitingCopies(j)
    BY <1>2, CopyMembership
  <2>3. /\ IsFiniteSet(WaitingCopies(j) \ {old})
        /\ Cardinality(WaitingCopies(j) \ {old}) = Cardinality(WaitingCopies(j)) - 1
    BY <2>2, FS_RemoveElement
  <2>4. QED
    BY <1>2, <2>1, <2>3
<1>3. CASE m.job # j
  <2>1. \A k \in Message : k.job = j => ready'[k] = ready[k]
    BY <1>3
  <2>2. WaitingCopies(j)' = WaitingCopies(j)
    <3>1. \A c : c \in WaitingCopies(j)' <=> c \in WaitingCopies(j)
      BY <1>1, <2>1, CopyMembership
    <3>2. QED
      BY <3>1
  <2>3. QED
    BY <1>3, <2>2, FS_CardinalityType
<1>4. QED
  BY <1>2, <1>3

(* A step of consumer w alone changes a job's obligations by w at most. *)
LEMMA ObligedCount ==
  ASSUME NEW w \in Consumer, NEW j, IsFiniteSet(Obliged(j)),
         \A v \in Consumer \ {w} : holds'[v] = holds[v] /\ phase'[v] = phase[v]
  PROVE  /\ IsFiniteSet(Obliged(j)')
         /\ Cardinality(Obliged(j)) \in Nat
         /\ Cardinality(Obliged(j)') + (IF w \in Obliged(j) THEN 1 ELSE 0) =
              Cardinality(Obliged(j)) + (IF w \in Obliged(j)' THEN 1 ELSE 0)
<1> DEFINE others == Obliged(j) \ {w}
<1>1. others = Obliged(j)' \ {w}
  BY DEF Obliged, Holding, JobOf, Superseded
<1>2. IsFiniteSet(others) /\ Cardinality(others) \in Nat
  BY FS_RemoveElement, FS_CardinalityType
<1>3. /\ IsFiniteSet(others \cup {w})
      /\ Cardinality(others \cup {w}) = Cardinality(others) + 1
  BY <1>2, FS_AddElement
<1>4. ASSUME NEW S, S \ {w} = others
      PROVE  /\ IsFiniteSet(S)
             /\ Cardinality(S) = Cardinality(others) + (IF w \in S THEN 1 ELSE 0)
  <2>1. CASE w \in S
    <3>1. S = others \cup {w}
      BY <1>4, <2>1
    <3>2. QED
      BY <1>3, <2>1, <3>1
  <2>2. CASE w \notin S
    <3>1. S = others
      BY <1>4, <2>2
    <3>2. QED
      BY <1>2, <2>2, <3>1
  <2>3. QED
    BY <2>1, <2>2
<1>5. Cardinality(Obliged(j)) =
        Cardinality(others) + (IF w \in Obliged(j) THEN 1 ELSE 0)
  BY <1>4
<1>6. /\ IsFiniteSet(Obliged(j)')
      /\ Cardinality(Obliged(j)') =
           Cardinality(others) + (IF w \in Obliged(j)' THEN 1 ELSE 0)
  BY <1>1, <1>4
<1>7. QED
  BY <1>2, <1>5, <1>6

(* What must be known of a job before its outcomes can be counted. *)
Countable(j) == IsFiniteSet(WaitingCopies(j)) /\ IsFiniteSet(Obliged(j))

(* A step that loses no outcome of job j and adds at most one for each     *)
(* connection it loses.                                                    *)
OutcomesKept(j) ==
  /\ Countable(j)'
  /\ Outcomes(j) <= Outcomes(j)'
  /\ Outcomes(j)' <= Outcomes(j) + (losses' - losses)

Owes(w, j) == IF w \in Obliged(j) THEN 1 ELSE 0

(* The sum of what one step of consumer w adds to the outcomes of a job. *)
LEMMA Bookkeeping ==
  ASSUME TypeOK, TypeOK', NEW w \in Consumer, NEW j \in Job, Countable(j),
         \A v \in Consumer \ {w} : holds'[v] = holds[v] /\ phase'[v] = phase[v],
         NEW waits \in Int,
         IsFiniteSet(WaitingCopies(j)'),
         Cardinality(WaitingCopies(j)') = Cardinality(WaitingCopies(j)) + waits,
         LET gain == (results'[j] - results[j]) + (dead'[j] - dead[j])
                       + waits + (Owes(w, j)' - Owes(w, j))
         IN  0 <= gain /\ gain <= losses' - losses
  PROVE  OutcomesKept(j)
<1>1. /\ IsFiniteSet(Obliged(j)')
      /\ Cardinality(Obliged(j)) \in Nat
      /\ Cardinality(Obliged(j)') \in Nat
      /\ Cardinality(Obliged(j)') + Owes(w, j) = Cardinality(Obliged(j)) + Owes(w, j)'
  BY ObligedCount, FS_CardinalityType DEF Countable, Owes
<1>2. Cardinality(WaitingCopies(j)) \in Nat /\ Cardinality(WaitingCopies(j)') \in Nat
  BY FS_CardinalityType DEF Countable
<1>3. /\ Owes(w, j) \in 0..1 /\ Owes(w, j)' \in 0..1
      /\ results[j] \in Nat /\ results'[j] \in Nat
      /\ dead[j] \in Nat /\ dead'[j] \in Nat
      /\ losses \in Nat /\ losses' \in Nat
  BY BrokerAssumption DEF Owes, TypeOK, BrokerTypeOK
<1>4. Outcomes(j) <= Outcomes(j)' /\ Outcomes(j)' <= Outcomes(j) + (losses' - losses)
  BY <1>1, <1>2, <1>3 DEF Outcomes
<1>5. QED
  BY <1>1, <1>4 DEF OutcomesKept, Countable

(* A step that leaves the waiting messages alone leaves their copies alone. *)
LEMMA CopiesSame ==
  ASSUME ready' = ready, NEW j, IsFiniteSet(WaitingCopies(j))
  PROVE  /\ IsFiniteSet(WaitingCopies(j)')
         /\ Cardinality(WaitingCopies(j)') = Cardinality(WaitingCopies(j)) + 0
<1>1. WaitingCopies(j)' = WaitingCopies(j)
  BY DEF WaitingCopies
<1>2. QED
  BY <1>1, FS_CardinalityType

(* What a publish adds to the copies that wait. *)
LEMMA PublishCopies ==
  ASSUME TypeOK, NEW q \in WorkQueue, NEW i \in Job, NEW n \in 0..RetryLimit,
         Publish(q, i, n), NEW j, IsFiniteSet(WaitingCopies(j))
  PROVE  /\ IsFiniteSet(WaitingCopies(j)')
         /\ Cardinality(WaitingCopies(j)') =
              Cardinality(WaitingCopies(j)) + (IF i = j THEN 1 ELSE 0)
<1> DEFINE new == [queue |-> q, job |-> i, retry |-> n]
<1>1. new \in Message /\ new.job = i
  BY PublishType
<1>2. ready' = [ready EXCEPT ![new] = @ + 1] /\ ready \in [Message -> Nat]
  BY DEF Publish, TypeOK, BrokerTypeOK
<1> HIDE DEF new
<1>3. QED
  BY <1>1, <1>2, CopiesGrow

(* Settling a message turns the obligation into what it is settled as. *)
LEMMA SettleOutcomes ==
  ASSUME TypeOK, TypeOK', NEW w \in Consumer, Holding(w), NEW j \in Job, Countable(j),
         \/ Ack(w) /\ Superseded(w)
         \/ (DeadLetter(w) \/ Requeue(w)) /\ ~Superseded(w),
         results' = results
  PROVE  OutcomesKept(j)
<1>1. holds[w] \in Message /\ JobOf(w) \in Job
  BY HeldMessage
<1>2. /\ \A v \in Consumer \ {w} : holds'[v] = holds[v] /\ phase'[v] = phase[v]
      /\ losses' = losses /\ losses \in Nat
  BY BrokerAssumption
     DEF Ack, DeadLetter, Requeue, Release, GoOn, TypeOK, BrokerTypeOK
<1>3. Owes(w, j)' = 0
  BY DEF Ack, DeadLetter, Requeue, Release, TypeOK, BrokerTypeOK, Owes, Obliged, Holding
<1>4. Owes(w, j) = IF JobOf(w) = j /\ ~Superseded(w) THEN 1 ELSE 0
  BY DEF Owes, Obliged
<1>5. results'[j] - results[j] = 0 /\ dead[j] \in Nat
  BY DEF TypeOK, BrokerTypeOK
<1>6. CASE Ack(w) /\ Superseded(w)
  BY <1>2, <1>3, <1>4, <1>5, <1>6, CopiesSame, Bookkeeping DEF Ack, Countable
<1>7. CASE DeadLetter(w) /\ ~Superseded(w)
  <2>1. dead'[j] - dead[j] = IF JobOf(w) = j THEN 1 ELSE 0
    BY <1>1, <1>7 DEF DeadLetter, TypeOK, BrokerTypeOK
  <2>2. QED
    BY <1>2, <1>3, <1>4, <1>5, <1>7, <2>1, CopiesSame, Bookkeeping
       DEF DeadLetter, Countable
<1>8. CASE Requeue(w) /\ ~Superseded(w)
  <2>1. /\ IsFiniteSet(WaitingCopies(j)')
        /\ Cardinality(WaitingCopies(j)') =
             Cardinality(WaitingCopies(j)) + (IF JobOf(w) = j THEN 1 ELSE 0)
    BY <1>1, <1>8, CopiesGrow DEF Requeue, JobOf, Countable, TypeOK, BrokerTypeOK
  <2>2. dead'[j] - dead[j] = 0
    BY <1>5, <1>8 DEF Requeue
  <2>3. QED
    BY <1>2, <1>3, <1>4, <1>5, <1>8, <2>1, <2>2, Bookkeeping
<1>9. QED
  BY <1>6, <1>7, <1>8

(* A lost connection returns the message; what w had already settled, or   *)
(* settles in the same step, is the one outcome more.                      *)
LEMMA CutOutcomes ==
  ASSUME TypeOK, TypeOK', NEW w \in Consumer, Cut(w), NEW j \in Job, Countable(j),
         \A v \in Consumer \ {w} : phase'[v] = phase[v],
         dead' = dead,
         \/ results' = results
         \/ /\ Holding(w) /\ ~Superseded(w)
            /\ results' = [results EXCEPT ![JobOf(w)] = @ + 1]
  PROVE  OutcomesKept(j)
<1>1. /\ \A v \in Consumer \ {w} : holds'[v] = holds[v] /\ phase'[v] = phase[v]
      /\ losses' = losses + 1 /\ losses \in Nat
      /\ dead'[j] - dead[j] = 0
  BY BrokerAssumption DEF Cut, TypeOK, BrokerTypeOK
<1>2. Owes(w, j)' = 0
  BY DEF Cut, TypeOK, BrokerTypeOK, Owes, Obliged, Holding
<1>3. CASE ~Holding(w)
  <2>1. Owes(w, j) = 0 /\ results'[j] - results[j] = 0 /\ ready' = ready
    BY <1>3 DEF Owes, Obliged, Cut, TypeOK
  <2>2. QED
    BY <1>1, <1>2, <2>1, CopiesSame, Bookkeeping DEF Countable
<1>4. CASE Holding(w)
  <2>1. holds[w] \in Message /\ JobOf(w) \in Job
    BY <1>4, HeldMessage
  <2>2. /\ IsFiniteSet(WaitingCopies(j)')
        /\ Cardinality(WaitingCopies(j)') =
             Cardinality(WaitingCopies(j)) + (IF JobOf(w) = j THEN 1 ELSE 0)
    BY <1>4, <2>1, CopiesGrow DEF Cut, JobOf, Countable, TypeOK, BrokerTypeOK
  <2>3. Owes(w, j) = IF JobOf(w) = j /\ ~Superseded(w) THEN 1 ELSE 0
    BY <1>4 DEF Owes, Obliged
  <2>4. \/ results'[j] - results[j] = 0
        \/ /\ ~Superseded(w)
           /\ results'[j] - results[j] = IF JobOf(w) = j THEN 1 ELSE 0
    BY <2>1 DEF TypeOK
  <2>5. QED
    BY <1>1, <1>2, <2>2, <2>3, <2>4, Bookkeeping
<1>5. QED
  BY <1>3, <1>4

(* A message that is published in place of the one w holds. *)
LEMMA ReplaceOutcomes ==
  ASSUME TypeOK, TypeOK', NEW w \in Consumer, Holding(w), NEW j \in Job, Countable(j),
         ~Superseded(w), Superseded(w)',
         NEW q \in WorkQueue, NEW n \in 0..RetryLimit, Publish(q, JobOf(w), n),
         \A v \in Consumer \ {w} : phase'[v] = phase[v],
         UNCHANGED <<dead, holds, losses, results>>
  PROVE  OutcomesKept(j)
<1>1. JobOf(w) \in Job
  BY HeldMessage
<1>2. /\ IsFiniteSet(WaitingCopies(j)')
      /\ Cardinality(WaitingCopies(j)') =
           Cardinality(WaitingCopies(j)) + (IF JobOf(w) = j THEN 1 ELSE 0)
  BY <1>1, PublishCopies DEF Countable
<1>3. Owes(w, j) = (IF JobOf(w) = j THEN 1 ELSE 0) /\ Owes(w, j)' = 0
  BY DEF Owes, Obliged
<1>4. /\ results'[j] - results[j] = 0 /\ dead'[j] - dead[j] = 0
      /\ losses' = losses /\ losses \in Nat
  BY BrokerAssumption DEF TypeOK, BrokerTypeOK
<1>5. QED
  BY <1>2, <1>3, <1>4, Bookkeeping

(* Every step of the transport but a submission keeps the outcomes. *)
LEMMA TransportOutcomes ==
  ASSUME TypeOK, TypeOK', UNCHANGED results, NEW w \in Consumer,
         \/ Reconnect(w) \/ LoseLink(w) \/ HandlerEscapes(w)
         \/ Deliver(w) \/ Dispatch(w),
         NEW j \in Job, Countable(j)
  PROVE  OutcomesKept(j)
<1> USE BrokerAssumption
<1>1. results'[j] - results[j] = 0 /\ losses \in Nat /\ dead[j] \in Nat
  BY DEF TypeOK, BrokerTypeOK
<1>2. CASE Reconnect(w) \/ HandlerEscapes(w)
  <2>1. Owes(w, j) = 0 /\ Owes(w, j)' = 0
    BY <1>2 DEF Reconnect, HandlerEscapes, Owes, Obliged, Holding, TypeOK, Sessions
  <2>2. /\ ready' = ready /\ losses' = losses /\ dead'[j] - dead[j] = 0
        /\ \A v \in Consumer \ {w} : holds'[v] = holds[v] /\ phase'[v] = phase[v]
    BY <1>1, <1>2 DEF Reconnect, HandlerEscapes, GoOn, TypeOK
  <2>3. QED
    BY <1>1, <2>1, <2>2, CopiesSame, Bookkeeping DEF Countable
<1>3. CASE LoseLink(w)
  <2>1. \A v \in Consumer \ {w} : phase'[v] = phase[v]
    BY <1>3 DEF LoseLink, GoOn, TypeOK
  <2>2. QED
    BY <1>3, <2>1, CutOutcomes DEF LoseLink
<1>4. CASE Deliver(w)
  <2>1. PICK m \in Message : /\ ready[m] > 0
                             /\ ready' = [ready EXCEPT ![m] = @ - 1]
                             /\ holds' = [holds EXCEPT ![w] = m]
    BY <1>4 DEF Deliver
  <2>2. /\ losses' = losses /\ dead'[j] - dead[j] = 0
        /\ \A v \in Consumer \ {w} : holds'[v] = holds[v] /\ phase'[v] = phase[v]
    BY <1>1, <1>4, <2>1 DEF Deliver, GoOn, TypeOK, BrokerTypeOK
  <2>3. Owes(w, j) = 0
    BY <1>4 DEF Deliver, Owes, Obliged, Holding, TypeOK, Sessions
  <2>4. holds'[w] = m /\ phase'[w] = "received" /\ m # NoMessage
    BY <1>4, <2>1 DEF Deliver, GoOn, TypeOK, BrokerTypeOK
  <2>5. Owes(w, j)' = IF m.job = j THEN 1 ELSE 0
    BY <2>4 DEF Owes, Obliged, Holding, JobOf, Superseded
  <2>6. /\ IsFiniteSet(WaitingCopies(j)')
        /\ Cardinality(WaitingCopies(j)') =
             Cardinality(WaitingCopies(j)) + (IF m.job = j THEN -1 ELSE 0)
    <3>1. Cardinality(WaitingCopies(j)) \in Nat
      BY FS_CardinalityType DEF Countable
    <3>2. /\ IsFiniteSet(WaitingCopies(j)')
          /\ Cardinality(WaitingCopies(j)') =
               Cardinality(WaitingCopies(j)) - (IF m.job = j THEN 1 ELSE 0)
      BY <2>1, CopiesShrink DEF Countable, TypeOK, BrokerTypeOK
    <3>3. QED
      BY <3>1, <3>2
  <2>7. QED
    BY <1>1, <2>2, <2>3, <2>5, <2>6, Bookkeeping
<1>5. CASE Dispatch(w)
  <2>1. Holding(w)
    BY <1>5, BusyHolds
       DEF Dispatch, DropMalformed, Forward, DispatchRaises, AckForwarded,
           Dispatching
  <2>2. CASE Forward(w)
    <3>1. /\ Publish(Media[JobOf(w)], JobOf(w), holds[w].retry)
          /\ Media[JobOf(w)] \in WorkQueue
          /\ holds[w].retry \in 0..RetryLimit
      BY <2>1, <2>2, HeldMessage DEF Forward, WorkQueue
    <3>2. /\ ~Superseded(w) /\ Superseded(w)'
          /\ \A v \in Consumer \ {w} : phase'[v] = phase[v]
          /\ UNCHANGED <<dead, holds, losses>>
      BY <2>2 DEF Forward, Dispatching, GoOn, Superseded, TypeOK
    <3>3. QED
      BY <2>1, <3>1, <3>2, ReplaceOutcomes
  <2>3. CASE DropMalformed(w) \/ DispatchRaises(w) \/ AckForwarded(w)
    BY <2>1, <2>3, SettleOutcomes
       DEF DropMalformed, DispatchRaises, AckForwarded, Dispatching, Superseded
  <2>4. QED
    BY <1>5, <2>2, <2>3 DEF Dispatch
<1>6. QED
  BY <1>2, <1>3, <1>4, <1>5

(* Every step of a worker keeps the outcomes. *)
LEMMA WorkerOutcomes ==
  ASSUME TypeOK, TypeOK', NEW w \in Consumer, OnMessage(w) \/ ConfirmLost(w),
         NEW j \in Job, Countable(j)
  PROVE  OutcomesKept(j)
<1> USE BrokerAssumption
<1>1. Holding(w) /\ JobOf(w) \in Job
  BY BusyHolds, HeldMessage
     DEF OnMessage, RejectJob, InvalidRequest, Analyze, PublishResult,
         PublishRefused, Republish, RetryExhausted, RepublishRefused, AckDone,
         ConfirmLost, Unpublished, Working
<1>2. losses \in Nat /\ dead[j] \in Nat /\ results[j] \in Nat
  BY DEF TypeOK, BrokerTypeOK
<1>3. CASE /\ \/ Ack(w) /\ Superseded(w)
              \/ DeadLetter(w) /\ ~Superseded(w)
           /\ UNCHANGED results
  BY <1>1, <1>3, SettleOutcomes
<1>4. ASSUME NEW p \in {"success", "failure", "retrying"},
             ~Superseded(w), GoOn(w, p), Stay, UNCHANGED results
      PROVE  OutcomesKept(j)
  <2>1. ~Superseded(w)'
    BY <1>4 DEF GoOn, Superseded, TypeOK
  <2>2. Owes(w, j)' = Owes(w, j) /\ Owes(w, j) \in Nat
    BY <1>4, <2>1 DEF Stay, Owes, Obliged, Holding, JobOf
  <2>3. /\ results'[j] - results[j] = 0 /\ dead'[j] - dead[j] = 0
        /\ losses' = losses /\ ready' = ready
        /\ \A v \in Consumer \ {w} : holds'[v] = holds[v] /\ phase'[v] = phase[v]
    BY <1>2, <1>4 DEF GoOn, Stay, TypeOK
  <2>4. QED
    BY <1>2, <2>2, <2>3, CopiesSame, Bookkeeping DEF Countable
<1>5. CASE PublishResult(w)
  <2>1. Owes(w, j) = (IF JobOf(w) = j THEN 1 ELSE 0) /\ Owes(w, j)' = 0
    BY <1>1, <1>5
       DEF PublishResult, Unpublished, Working, GoOn, Owes, Obliged, Superseded, TypeOK
  <2>2. results'[j] - results[j] = IF JobOf(w) = j THEN 1 ELSE 0
    BY <1>1, <1>5 DEF PublishResult, TypeOK
  <2>3. /\ dead'[j] - dead[j] = 0 /\ losses' = losses /\ ready' = ready
        /\ \A v \in Consumer \ {w} : holds'[v] = holds[v] /\ phase'[v] = phase[v]
    BY <1>2, <1>5 DEF PublishResult, GoOn, Stay, TypeOK
  <2>4. QED
    BY <1>2, <2>1, <2>2, <2>3, CopiesSame, Bookkeeping DEF Countable
<1>6. CASE Republish(w)
  <2>1. /\ Publish("ingress", JobOf(w), holds[w].retry + 1)
        /\ "ingress" \in WorkQueue
        /\ holds[w].retry + 1 \in 0..RetryLimit
    BY <1>1, <1>6, HeldMessage DEF Republish, WorkQueue
  <2>2. /\ ~Superseded(w) /\ Superseded(w)'
        /\ \A v \in Consumer \ {w} : phase'[v] = phase[v]
        /\ UNCHANGED <<dead, holds, losses, results>>
    BY <1>6 DEF Republish, Working, GoOn, Superseded, TypeOK
  <2>3. QED
    BY <1>1, <2>1, <2>2, ReplaceOutcomes
<1>7. CASE ConfirmLost(w)
  <2>1. ~Superseded(w)
    BY <1>7 DEF ConfirmLost, Unpublished, Working, Superseded
  <2>2. QED
    BY <1>1, <1>7, <2>1, CutOutcomes DEF ConfirmLost
<1>8. QED
  BY <1>3, <1>4, <1>5, <1>6, <1>7
     DEF OnMessage, RejectJob, InvalidRequest, Analyze, PublishRefused,
         RetryExhausted, RepublishRefused, AckDone, Working, Superseded

(***************************************************************************)
(* The server keeps the job ledger                                         *)
(***************************************************************************)
(* Nothing happens to a job before the backend submits it. *)
Untouched ==
  \A j \in Job \ submitted : results[j] = 0 /\ dead[j] = 0 /\ ~Live(j)

(* A worker that has an outcome to publish was given a job it may answer. *)
Answering ==
  \A w \in Consumer :
    Holding(w) /\ phase[w] \in {"success", "failure"} => Kind[JobOf(w)] = "valid"

(* What a step of the runtime may do to the ledger: nothing, or something  *)
(* to one job that is open.                                                *)
LedgerUnmoved ==
  (\A j \in Job : Live(j)' <=> Live(j)) /\ UNCHANGED <<results, dead>>

LedgerMove(i) ==
  /\ Live(i)
  /\ \A j \in Job \ {i} : Live(j)' <=> Live(j)
  /\ \/ UNCHANGED <<results, dead>>
     \/ dead' = [dead EXCEPT ![i] = @ + 1] /\ UNCHANGED results
     \/ /\ results' = [results EXCEPT ![i] = @ + 1] /\ UNCHANGED dead
        /\ Kind[i] = "valid" /\ Live(i)'

(* If messages of job i alone move, between the queues and the hands of    *)
(* one consumer, the other jobs stay as open or closed as they were.       *)
LEMMA OtherJobsStay ==
  ASSUME NEW w \in Consumer, NEW i \in Job,
         \A v \in Consumer \ {w} : holds'[v] = holds[v],
         Holding(w) => JobOf(w) = i, Holding(w)' => JobOf(w)' = i,
         \A m \in Message : m.job # i => ready'[m] = ready[m]
  PROVE  \A j \in Job \ {i} : Live(j)' <=> Live(j)
<1> SUFFICES ASSUME NEW j \in Job, j # i
             PROVE  Live(j)' <=> Live(j)
  OBVIOUS
<1>1. Waiting(j)' <=> Waiting(j)
  BY DEF Waiting
<1>2. InHand(j)' <=> InHand(j)
  BY DEF InHand, Holding, JobOf
<1>3. QED
  BY <1>1, <1>2 DEF Live

(* The job of the message a consumer holds is open. *)
LEMMA HeldIsLive ==
  ASSUME NEW w \in Consumer, Holding(w)
  PROVE  Live(JobOf(w))
BY DEF Live, InHand

(* A message returned to its queue keeps its job open. *)
LEMMA ReturnedIsLive ==
  ASSUME TypeOK, NEW w \in Consumer, Holding(w),
         ready' = [ready EXCEPT ![holds[w]] = @ + 1]
  PROVE  /\ \A m \in Message : m.job # JobOf(w) => ready'[m] = ready[m]
         /\ \A i \in Job : JobOf(w) = i => Live(i)'
<1>1. holds[w] \in Message
  BY HeldMessage
<1>2. /\ ready'[holds[w]] > 0
      /\ \A m \in Message : m.job # JobOf(w) => ready'[m] = ready[m]
  BY <1>1 DEF TypeOK, BrokerTypeOK, JobOf
<1>3. ASSUME NEW i \in Job, JobOf(w) = i
      PROVE  Live(i)'
  <2>1. PICK m \in Message : m.job = i /\ ready'[m] > 0
    BY <1>1, <1>2, <1>3 DEF JobOf
  <2>2. QED
    BY <2>1 DEF Live, Waiting
<1>4. QED
  BY <1>2, <1>3

(* Settling a message moves at most the ledger's entry of its job. *)
LEMMA SettleMoves ==
  ASSUME TypeOK, TypeOK', NEW w \in Consumer, Holding(w),
         Ack(w) \/ DeadLetter(w) \/ Requeue(w), UNCHANGED results
  PROVE  \E i \in Job : LedgerMove(i)
<1> DEFINE i == JobOf(w)
<1>1. i \in Job /\ Live(i) /\ holds[w] \in Message
  BY HeldMessage, HeldIsLive
<1>2. /\ ~Holding(w)'
      /\ \A v \in Consumer \ {w} : holds'[v] = holds[v]
  BY DEF Ack, DeadLetter, Requeue, Release, Holding, TypeOK, BrokerTypeOK
<1>3. \A m \in Message : m.job # i => ready'[m] = ready[m]
  BY ReturnedIsLive DEF Ack, DeadLetter, Requeue
<1>4. \A j \in Job \ {i} : Live(j)' <=> Live(j)
  BY <1>1, <1>2, <1>3, OtherJobsStay
<1>5. UNCHANGED dead \/ dead' = [dead EXCEPT ![i] = @ + 1]
  BY DEF Ack, DeadLetter, Requeue
<1>6. LedgerMove(i)
  BY <1>1, <1>4, <1>5 DEF LedgerMove
<1>7. QED
  BY <1>1, <1>6

(* So does a publish that replaces the message w holds. *)
LEMMA PublishMoves ==
  ASSUME TypeOK, TypeOK', NEW w \in Consumer, Holding(w),
         NEW q \in WorkQueue, NEW n \in 0..RetryLimit, Publish(q, JobOf(w), n),
         UNCHANGED <<holds, dead, results>>
  PROVE  \E i \in Job : LedgerMove(i)
<1> DEFINE i == JobOf(w)
           new == [queue |-> q, job |-> i, retry |-> n]
<1>1. i \in Job /\ Live(i)
  BY HeldMessage, HeldIsLive
<1>2. new \in Message /\ new.job = i
  BY <1>1 DEF Message
<1>3. \A m \in Message : m.job # i => ready'[m] = ready[m]
  BY <1>2 DEF Publish, TypeOK, BrokerTypeOK
<1>4. Holding(w)' => JobOf(w)' = i
  BY DEF JobOf
<1>5. \A j \in Job \ {i} : Live(j)' <=> Live(j)
  BY <1>1, <1>3, <1>4, OtherJobsStay
<1>6. LedgerMove(i)
  BY <1>1, <1>5 DEF LedgerMove
<1>7. QED
  BY <1>1, <1>6

(* A lost connection moves the ledger only if it takes a confirm with it. *)
LEMMA CutMoves ==
  ASSUME TypeOK, TypeOK', NEW w \in Consumer, Cut(w), UNCHANGED dead,
         \/ UNCHANGED results
         \/ /\ Holding(w) /\ Kind[JobOf(w)] = "valid"
            /\ results' = [results EXCEPT ![JobOf(w)] = @ + 1]
  PROVE  LedgerUnmoved \/ \E i \in Job : LedgerMove(i)
<1>1. ~Holding(w)' /\ \A v \in Consumer \ {w} : holds'[v] = holds[v]
  BY DEF Cut, Holding, TypeOK, BrokerTypeOK
<1>2. CASE ~Holding(w)
  <2>1. UNCHANGED <<ready, results, dead>>
    BY <1>2 DEF Cut
  <2>2. \A v \in Consumer : holds'[v] = holds[v]
    BY <1>1, <1>2 DEF Holding
  <2>3. QED
    BY <2>1, <2>2 DEF LedgerUnmoved, Live, Waiting, InHand, Holding, JobOf
<1>3. CASE Holding(w)
  <2> DEFINE i == JobOf(w)
  <2>1. i \in Job /\ Live(i)
    BY <1>3, HeldMessage, HeldIsLive
  <2>2. /\ \A m \in Message : m.job # i => ready'[m] = ready[m]
        /\ \A k \in Job : i = k => Live(k)'
    BY <1>3, ReturnedIsLive DEF Cut
  <2>3. \A j \in Job \ {i} : Live(j)' <=> Live(j)
    BY <1>1, <2>1, <2>2, OtherJobsStay
  <2>4. \E k \in Job : k = i /\ LedgerMove(k)
    BY <2>1, <2>2, <2>3 DEF LedgerMove
  <2>5. QED
    BY <2>4
<1>4. QED
  BY <1>2, <1>3

(* The steps of the transport other than a submission. *)
LEMMA TransportMoves ==
  ASSUME TypeOK, TypeOK', UNCHANGED results, NEW w \in Consumer,
         \/ Reconnect(w) \/ LoseLink(w) \/ HandlerEscapes(w)
         \/ Deliver(w) \/ Dispatch(w)
  PROVE  LedgerUnmoved \/ \E i \in Job : LedgerMove(i)
<1> USE BrokerAssumption
<1>1. CASE Reconnect(w) \/ HandlerEscapes(w)
  BY <1>1 DEF Reconnect, HandlerEscapes, LedgerUnmoved, Live, Waiting, InHand,
              Holding, JobOf
<1>2. CASE LoseLink(w)
  BY <1>2, CutMoves DEF LoseLink
<1>3. CASE Deliver(w)
  <2>1. PICK m \in Message : /\ ready[m] > 0
                             /\ ready' = [ready EXCEPT ![m] = @ - 1]
                             /\ holds' = [holds EXCEPT ![w] = m]
    BY <1>3 DEF Deliver
  <2>2. m.job \in Job /\ Live(m.job)
    BY <2>1 DEF Message, Live, Waiting
  <2>3. /\ ~Holding(w) /\ JobOf(w)' = m.job
        /\ \A v \in Consumer \ {w} : holds'[v] = holds[v]
    BY <1>3, <2>1 DEF Deliver, Holding, JobOf, TypeOK, BrokerTypeOK, Sessions
  <2>4. \A k \in Message : k.job # m.job => ready'[k] = ready[k]
    BY <2>1 DEF TypeOK, BrokerTypeOK
  <2>5. \A j \in Job \ {m.job} : Live(j)' <=> Live(j)
    BY <2>2, <2>3, <2>4, OtherJobsStay
  <2>6. LedgerMove(m.job)
    BY <1>3, <2>2, <2>5 DEF LedgerMove, Deliver
  <2>7. QED
    BY <2>2, <2>6
<1>4. CASE Dispatch(w)
  <2>1. Holding(w)
    BY <1>4, BusyHolds
       DEF Dispatch, DropMalformed, Forward, DispatchRaises, AckForwarded,
           Dispatching
  <2>2. CASE Forward(w)
    <3>1. /\ Publish(Media[JobOf(w)], JobOf(w), holds[w].retry)
          /\ Media[JobOf(w)] \in WorkQueue
          /\ holds[w].retry \in 0..RetryLimit
      BY <2>1, <2>2, HeldMessage DEF Forward, WorkQueue
    <3>2. QED
      BY <2>1, <2>2, <3>1, PublishMoves DEF Forward
  <2>3. CASE DropMalformed(w) \/ DispatchRaises(w) \/ AckForwarded(w)
    BY <2>1, <2>3, SettleMoves DEF DropMalformed, DispatchRaises, AckForwarded
  <2>4. QED
    BY <1>4, <2>2, <2>3 DEF Dispatch
<1>5. QED
  BY <1>1, <1>2, <1>3, <1>4

(* The steps of a worker. *)
LEMMA WorkerMoves ==
  ASSUME TypeOK, TypeOK', Answering,
         NEW w \in Consumer, OnMessage(w) \/ ConfirmLost(w)
  PROVE  LedgerUnmoved \/ \E i \in Job : LedgerMove(i)
<1> USE BrokerAssumption
<1>1. Holding(w) /\ JobOf(w) \in Job
  BY BusyHolds, HeldMessage
     DEF OnMessage, RejectJob, InvalidRequest, Analyze, PublishResult,
         PublishRefused, Republish, RetryExhausted, RepublishRefused, AckDone,
         ConfirmLost, Unpublished, Working
<1>2. CASE (Ack(w) \/ DeadLetter(w)) /\ UNCHANGED results
  BY <1>1, <1>2, SettleMoves
<1>3. CASE Stay /\ UNCHANGED results
  BY <1>3 DEF Stay, LedgerUnmoved, Live, Waiting, InHand, Holding, JobOf
<1>4. CASE PublishResult(w)
  <2> DEFINE i == JobOf(w)
  <2>1. Kind[i] = "valid"
    BY <1>1, <1>4 DEF Answering, PublishResult, Unpublished, Working
  <2>2. \A j \in Job : Live(j)' <=> Live(j)
    BY <1>4 DEF PublishResult, Stay, Live, Waiting, InHand, Holding, JobOf
  <2>3. Live(i)
    BY <1>1, HeldIsLive
  <2>4. \E k \in Job : k = i /\ LedgerMove(k)
    BY <1>1, <1>4, <2>1, <2>2, <2>3 DEF LedgerMove, PublishResult, Stay
  <2>5. QED
    BY <2>4
<1>5. CASE Republish(w)
  <2>1. /\ Publish("ingress", JobOf(w), holds[w].retry + 1)
        /\ "ingress" \in WorkQueue
        /\ holds[w].retry + 1 \in 0..RetryLimit
    BY <1>1, <1>5, HeldMessage DEF Republish, WorkQueue
  <2>2. QED
    BY <1>1, <1>5, <2>1, PublishMoves DEF Republish
<1>6. CASE ConfirmLost(w)
  <2>1. Kind[JobOf(w)] = "valid"
    BY <1>1, <1>6 DEF Answering, ConfirmLost, Unpublished, Working
  <2>2. QED
    BY <1>1, <1>6, <2>1, CutMoves DEF ConfirmLost
<1>7. QED
  BY <1>2, <1>3, <1>4, <1>5, <1>6
     DEF OnMessage, RejectJob, InvalidRequest, Analyze, PublishRefused,
         RetryExhausted, RepublishRefused, AckDone

(* Every step submits a job, or moves the ledger's entry of one open job,  *)
(* or leaves the ledger as it is.                                          *)
LEMMA NextMoves ==
  ASSUME TypeOK, TypeOK', Answering, [Next]_vars
  PROVE  \/ \E j \in Job : Submit(j) /\ UNCHANGED results
         \/ /\ UNCHANGED submitted
            /\ LedgerUnmoved \/ \E i \in Job : LedgerMove(i)
<1>1. CASE \E j \in Job : Submit(j) /\ UNCHANGED results
  BY <1>1
<1>2. CASE UNCHANGED vars
  BY <1>2 DEF vars, LedgerUnmoved, Live, Waiting, InHand, Holding, JobOf
<1>3. CASE ~(\E j \in Job : Submit(j) /\ UNCHANGED results) /\ Next
  <2>1. \/ /\ UNCHANGED results
           /\ \E w \in Consumer : \/ Reconnect(w) \/ LoseLink(w) \/ HandlerEscapes(w)
                                  \/ Deliver(w) \/ Dispatch(w)
        \/ \E w \in Consumer : OnMessage(w) \/ ConfirmLost(w)
    BY <1>3 DEF Next, Transport
  <2>2. LedgerUnmoved \/ \E i \in Job : LedgerMove(i)
    BY <2>1, TransportMoves, WorkerMoves
  <2>3. submitted' = submitted
    BY <2>1
       DEF Reconnect, LoseLink, Cut, HandlerEscapes, Deliver,
           Dispatch, DropMalformed, Forward, DispatchRaises, AckForwarded,
           OnMessage, RejectJob, InvalidRequest, Analyze, PublishResult,
           PublishRefused, Republish, RetryExhausted, RepublishRefused, AckDone,
           ConfirmLost, Stay, Ack, DeadLetter, Requeue, Release
  <2>4. QED
    BY <2>2, <2>3
<1>4. QED
  BY <1>1, <1>2, <1>3

(* A submission opens its job and touches no other. *)
LEMMA SubmitOpens ==
  ASSUME TypeOK, TypeOK', NEW i \in Job, Submit(i), UNCHANGED results
  PROVE  /\ Live(i)' /\ UNCHANGED dead
         /\ \A j \in Job \ {i} : Live(j)' <=> Live(j)
<1> DEFINE new == [queue |-> "ingress", job |-> i, retry |-> 0]
<1>1. /\ new \in Message /\ new.job = i /\ ready'[new] > 0
      /\ UNCHANGED <<dead, holds>>
  BY BrokerAssumption, PublishType DEF Submit, WorkQueue
<1>2. \A m \in Message : m.job # i => ready'[m] = ready[m]
  BY <1>1 DEF Submit, Publish, TypeOK, BrokerTypeOK
<1> HIDE DEF new
<1>3. Live(i)'
  BY <1>1 DEF Live, Waiting
<1>4. \A j \in Job \ {i} : Live(j)' <=> Live(j)
  BY <1>1, <1>2 DEF Live, Waiting, InHand, Holding, JobOf
<1>5. QED
  BY <1>1, <1>3, <1>4

(* The kind of the job in hand is looked at before there is an outcome. *)
LEMMA AnsweringPreserved ==
  ASSUME TypeOK, TypeOK', Answering, [Next]_vars
  PROVE  Answering'
<1> SUFFICES ASSUME NEW w \in Consumer, Holding(w)', phase'[w] \in {"success", "failure"}
             PROVE  Kind[JobOf(w)'] = "valid"
  BY DEF Answering
<1>1. CASE holds'[w] = holds[w] /\ phase'[w] = phase[w]
  BY <1>1 DEF Answering, Holding, JobOf
<1>2. CASE holds'[w] = holds[w] /\ Kind[JobOf(w)] = "valid"
  BY <1>2 DEF JobOf
<1>3. ASSUME NEW v \in Consumer,
             \/ Reconnect(v) \/ LoseLink(v) \/ HandlerEscapes(v)
             \/ Deliver(v) \/ Dispatch(v) \/ OnMessage(v) \/ ConfirmLost(v)
      PROVE  \/ holds'[w] = holds[w] /\ phase'[w] = phase[w]
             \/ holds'[w] = holds[w] /\ Kind[JobOf(w)] = "valid"
  <2>1. CASE v # w
    BY <1>3, <2>1
       DEF TypeOK, BrokerTypeOK, GoOn, Reconnect, LoseLink, Cut, HandlerEscapes,
           Deliver, Dispatch, DropMalformed, Forward, DispatchRaises,
           AckForwarded, OnMessage, RejectJob, InvalidRequest, Analyze,
           PublishResult, PublishRefused, Republish, RetryExhausted,
           RepublishRefused, AckDone, ConfirmLost, Stay, Ack, DeadLetter,
           Requeue, Release
  <2>2. CASE v = w /\ Analyze(v)
    BY <2>2 DEF Analyze, Stay
  <2>3. CASE v = w /\ ~Analyze(v)
    <3>1. CASE phase'[w] = phase[w]
      BY <1>3, <2>3, <3>1
         DEF TypeOK, BrokerTypeOK, Holding, GoOn, Reconnect, LoseLink, Cut,
             HandlerEscapes, Deliver, Dispatch, DropMalformed, Forward,
             DispatchRaises, AckForwarded, OnMessage, RejectJob, InvalidRequest,
             PublishResult, PublishRefused, Republish, RetryExhausted,
             RepublishRefused, AckDone, ConfirmLost, Stay, Ack, DeadLetter,
             Requeue, Release
    <3>2. CASE phase'[w] # phase[w]
      BY <1>3, <2>3, <3>2
         DEF TypeOK, BrokerTypeOK, GoOn, Reconnect, LoseLink, Cut,
             HandlerEscapes, Deliver, Dispatch, DropMalformed, Forward,
             DispatchRaises, AckForwarded, OnMessage, RejectJob, InvalidRequest,
             PublishResult, PublishRefused, Republish, RetryExhausted,
             RepublishRefused, AckDone, ConfirmLost, Stay, Ack, DeadLetter,
             Requeue, Release
    <3>3. QED
      BY <3>1, <3>2
  <2>4. QED
    BY <2>1, <2>2, <2>3
<1>4. CASE UNCHANGED <<holds, phase>>
  BY <1>1, <1>4
<1>5. QED
  BY <1>1, <1>2, <1>3, <1>4 DEF Next, Transport, Submit, vars

(* A job that is not submitted has no message for the ledger to move on. *)
LEMMA UntouchedPreserved ==
  ASSUME TypeOK, TypeOK', Answering, Untouched, [Next]_vars
  PROVE  Untouched'
<1>1. ASSUME NEW i \in Job, Submit(i), UNCHANGED results
      PROVE  Untouched'
  <2>1. submitted' = submitted \cup {i}
    BY <1>1 DEF Submit
  <2>2. QED
    BY <1>1, <2>1, SubmitOpens DEF Untouched
<1>2. CASE UNCHANGED submitted /\ LedgerUnmoved
  BY <1>2 DEF Untouched, LedgerUnmoved
<1>3. ASSUME UNCHANGED submitted, NEW i \in Job, LedgerMove(i)
      PROVE  Untouched'
  <2>1. i \in submitted
    BY <1>3 DEF Untouched, LedgerMove
  <2>2. \A j \in Job \ {i} : /\ Live(j)' <=> Live(j)
                             /\ results'[j] = results[j] /\ dead'[j] = dead[j]
    BY <1>3 DEF LedgerMove, TypeOK, BrokerTypeOK
  <2>3. QED
    BY <1>3, <2>1, <2>2 DEF Untouched
<1>4. QED
  BY <1>1, <1>2, <1>3, NextMoves

(* A move of an open job's entry is a step of the ledger: the job is       *)
(* answered, parked, closed after one of both, or nothing happens to it.   *)
LEMMA MoveIsLedgerStep ==
  ASSUME TypeOK, TypeOK', Accountable', Untouched, UNCHANGED submitted,
         NEW i \in Job, LedgerMove(i)
  PROVE  [Ledger!LedgerNext]_(Ledger!ledgerVars)
<1> DEFINE open == {j \in submitted : Live(j)}
           answered == {j \in Job : results[j] > 0}
           parked == {j \in Job : dead[j] > 0}
<1>1. submitted \subseteq Job /\ i \in submitted /\ i \in open
  BY DEF Untouched, LedgerMove, TypeOK, BrokerTypeOK
<1>2. /\ open' \in {open, open \ {i}}
      /\ Live(i)' => open' = open
  <2>1. open' = {j \in submitted : Live(j)'}
    OBVIOUS
  <2>2. \A j \in submitted \ {i} : Live(j)' <=> Live(j)
    BY <1>1 DEF LedgerMove
  <2>3. CASE Live(i)'
    BY <1>1, <2>1, <2>2, <2>3
  <2>4. CASE ~Live(i)'
    BY <1>1, <2>1, <2>2, <2>4
  <2>5. QED
    BY <2>3, <2>4
<1>3. CASE UNCHANGED <<results, dead>>
  <2>1. CASE Live(i)'
    BY <1>2, <1>3, <2>1 DEF Ledger!ledgerVars
  <2>2. CASE ~Live(i)'
    <3>1. results'[i] > 0 \/ dead'[i] > 0
      BY <1>1, <2>2 DEF Accountable, Carried, Live, Waiting, InHand, Obliged
    <3>2. i \in answered \cup parked
      BY <1>3, <3>1
    <3>3. CASE open' = open
      BY <1>3, <3>3 DEF Ledger!ledgerVars
    <3>4. CASE open' = open \ {i}
      BY <1>1, <1>3, <3>2, <3>4 DEF Ledger!LedgerNext, Ledger!Close
    <3>5. QED
      BY <1>2, <3>3, <3>4
  <2>3. QED
    BY <2>1, <2>2
<1>4. CASE dead' = [dead EXCEPT ![i] = @ + 1] /\ UNCHANGED results
  <2>1. parked' = parked \cup {i}
    BY <1>4 DEF TypeOK, BrokerTypeOK
  <2>2. QED
    BY <1>1, <1>2, <1>4, <2>1 DEF Ledger!LedgerNext, Ledger!Park
<1>5. CASE /\ results' = [results EXCEPT ![i] = @ + 1] /\ UNCHANGED dead
           /\ Kind[i] = "valid" /\ Live(i)'
  <2>1. answered' = answered \cup {i}
    BY <1>5 DEF TypeOK
  <2>2. open' = open
    BY <1>2, <1>5
  <2>3. i \in open \cap {j \in Job : Kind[j] = "valid"}
    BY <1>1, <1>5
  <2>4. QED
    BY <1>5, <2>1, <2>2, <2>3 DEF Ledger!LedgerNext, Ledger!Answer
<1>6. QED
  BY <1>3, <1>4, <1>5 DEF LedgerMove

(* A submission is the ledger's acceptance of the job. *)
LEMMA SubmitIsLedgerStep ==
  ASSUME TypeOK, TypeOK', Untouched, NEW i \in Job, Submit(i), UNCHANGED results
  PROVE  Ledger!Accept(i)
<1>1. i \in Job \ submitted /\ submitted' = submitted \cup {i}
  BY DEF Submit
<1>2. {j \in submitted : Live(j)}' = {j \in submitted : Live(j)} \cup {i}
  <2>1. \A j \in submitted : Live(j)' <=> Live(j)
    BY <1>1, SubmitOpens DEF TypeOK, BrokerTypeOK
  <2>2. Live(i)'
    BY SubmitOpens
  <2>3. QED
    BY <1>1, <2>1, <2>2
<1>3. UNCHANGED dead
  BY SubmitOpens
<1>4. QED
  BY <1>1, <1>2, <1>3 DEF Ledger!Accept

(* A step that does not move the ledger is a stutter of it. *)
LEMMA UnmovedIsLedgerStutter ==
  ASSUME TypeOK, UNCHANGED submitted, LedgerUnmoved
  PROVE  UNCHANGED Ledger!ledgerVars
<1>1. {j \in submitted : Live(j)}' = {j \in submitted : Live(j)}
  BY DEF LedgerUnmoved, TypeOK, BrokerTypeOK
<1>2. QED
  BY <1>1 DEF LedgerUnmoved, Ledger!ledgerVars

(* Nothing moves a job before it is submitted, and only jobs that parse    *)
(* and are meant for the server get as far as an outcome to publish.       *)
LEMMA ServerUntouched == Spec => [](Answering /\ Untouched)
<1>1. Init => Answering /\ Untouched
  BY DEF Init, BrokerInit, Answering, Untouched, Live, Waiting, InHand, Holding
<1>2. /\ TypeOK /\ TypeOK' /\ Answering /\ Untouched /\ [Next]_vars
      => (Answering /\ Untouched)'
  BY AnsweringPreserved, UntouchedPreserved
<1>3. QED
  BY <1>1, <1>2, ServerTypeCorrect, PTL DEF Spec

(* KeepsLedger: every behaviour of the server is one of JobLedger.  A job  *)
(* is closed only after it was answered or parked, never reopened, and     *)
(* answered only if it parses and is meant for the server.                 *)
THEOREM ServerKeepsLedger == Spec => KeepsLedger
<1>1. Init => Ledger!LedgerInit
  BY DEF Init, BrokerInit, Ledger!LedgerInit
<1>2. /\ TypeOK /\ TypeOK' /\ Accountable' /\ Answering /\ Untouched /\ [Next]_vars
      => [Ledger!LedgerNext]_(Ledger!ledgerVars)
  <2> SUFFICES ASSUME TypeOK, TypeOK', Accountable', Answering, Untouched, [Next]_vars
               PROVE  [Ledger!LedgerNext]_(Ledger!ledgerVars)
    OBVIOUS
  <2>1. ASSUME NEW i \in Job, Submit(i), UNCHANGED results
        PROVE  [Ledger!LedgerNext]_(Ledger!ledgerVars)
    BY <2>1, SubmitIsLedgerStep DEF Ledger!LedgerNext
  <2>2. CASE UNCHANGED submitted /\ LedgerUnmoved
    BY <2>2, UnmovedIsLedgerStutter
  <2>3. CASE UNCHANGED submitted /\ \E i \in Job : LedgerMove(i)
    BY <2>3, MoveIsLedgerStep
  <2>4. QED
    BY <2>1, <2>2, <2>3, NextMoves
<1>3. QED
  BY <1>1, <1>2, ServerTypeCorrect, ServerAccountable, ServerUntouched, PTL
     DEF Spec, KeepsLedger, Ledger!LedgerSpec

(* The inductive form of LossesBoundDuplicates: what is counted is finite, *)
(* whatever the sizes of the constants.                                    *)
Counted == (\A j \in Job : Countable(j)) /\ LossesBoundDuplicates

(* A job that nothing has happened to has no outcome, until it is submitted *)
(* and has one message.                                                     *)
LEMMA SubmitOutcomes ==
  ASSUME TypeOK, TypeOK', Untouched, NEW i \in Job, Submit(i), UNCHANGED results,
         NEW j \in Job, Countable(j)
  PROVE  /\ Countable(j)'
         /\ Outcomes(j)' = IF i = j THEN 1 ELSE Outcomes(j)
<1>1. /\ Publish("ingress", i, 0) /\ "ingress" \in WorkQueue /\ 0 \in 0..RetryLimit
      /\ UNCHANGED <<dead, holds, phase>>
  BY BrokerAssumption DEF Submit, WorkQueue
<1>2. /\ IsFiniteSet(WaitingCopies(j)')
      /\ Cardinality(WaitingCopies(j)') =
           Cardinality(WaitingCopies(j)) + (IF i = j THEN 1 ELSE 0)
      /\ Cardinality(WaitingCopies(j)) \in Nat
  BY <1>1, PublishCopies, FS_CardinalityType DEF Countable
<1>3. Obliged(j)' = Obliged(j) /\ Cardinality(Obliged(j)) \in Nat
  BY <1>1, FS_CardinalityType DEF Obliged, Holding, JobOf, Superseded, Countable
<1>4. results[j] \in Nat /\ dead[j] \in Nat
  BY DEF TypeOK, BrokerTypeOK
<1>5. CASE i = j
  <2>1. /\ i \in Job \ submitted
        /\ results[j] = 0 /\ dead[j] = 0 /\ ~Live(j)
    BY <1>5 DEF Submit, Untouched
  <2>2. WaitingCopies(j) = {} /\ Obliged(j) = {}
    <3>1. \A c : c \notin WaitingCopies(j)
      BY <2>1, CopyMembership DEF Live, Waiting, TypeOK, BrokerTypeOK
    <3>2. Obliged(j) = {}
      BY <2>1 DEF Live, InHand, Obliged
    <3>3. QED
      BY <3>1, <3>2
  <2>3. Cardinality(WaitingCopies(j)) = 0 /\ Cardinality(Obliged(j)) = 0
    BY <2>2, FS_EmptySet
  <2>4. QED
    BY <1>1, <1>2, <1>3, <1>5, <2>1, <2>3 DEF Outcomes, Countable
<1>6. CASE i # j
  BY <1>1, <1>2, <1>3, <1>4, <1>6 DEF Outcomes, Countable
<1>7. QED
  BY <1>5, <1>6

(* LossesBoundDuplicates, for every instance: a submitted job always has   *)
(* at least one outcome or message to be handled, and at most one more for *)
(* each connection lost.                                                   *)
THEOREM ServerLossesBoundDuplicates == Spec => []LossesBoundDuplicates
<1>1. Init => Counted
  <2> SUFFICES ASSUME Init, NEW j \in Job
               PROVE  Countable(j)
    BY DEF Counted, LossesBoundDuplicates, Init, BrokerInit
  <2>1. \A c : c \notin WaitingCopies(j)
    BY CopyMembership DEF Init, BrokerInit
  <2>2. WaitingCopies(j) = {} /\ Obliged(j) = {}
    BY <2>1 DEF Obliged, Holding, Init, BrokerInit
  <2>3. QED
    BY <2>2, FS_EmptySet DEF Countable
<1>2. TypeOK /\ TypeOK' /\ Untouched /\ Counted /\ [Next]_vars => Counted'
  <2> SUFFICES ASSUME TypeOK, TypeOK', Untouched, Counted, [Next]_vars, NEW j \in Job
               PROVE  /\ Countable(j)'
                      /\ j \in submitted' =>
                           1 <= Outcomes(j)' /\ Outcomes(j)' <= 1 + losses'
    BY DEF Counted, LossesBoundDuplicates, TypeOK, BrokerTypeOK
  <2>1. Countable(j) /\ losses \in Nat /\ losses' \in Nat
    BY BrokerAssumption DEF Counted, TypeOK, BrokerTypeOK
  <2>2. Outcomes(j) \in Nat
    BY <2>1, FS_CardinalityType DEF Outcomes, Countable, TypeOK, BrokerTypeOK
  <2>3. j \in submitted => 1 <= Outcomes(j) /\ Outcomes(j) <= 1 + losses
    BY DEF Counted, LossesBoundDuplicates
  <2>4. ASSUME NEW i \in Job, Submit(i), UNCHANGED results
        PROVE  /\ Countable(j)'
               /\ j \in submitted' =>
                    1 <= Outcomes(j)' /\ Outcomes(j)' <= 1 + losses'
    <3>1. submitted' = submitted \cup {i} /\ losses' = losses
      BY <2>4 DEF Submit
    <3>2. QED
      BY <2>1, <2>3, <2>4, <3>1, SubmitOutcomes
  <2>5. CASE OutcomesKept(j) /\ UNCHANGED submitted
    <3>1. Outcomes(j)' \in Nat
      BY <2>5, FS_CardinalityType
         DEF OutcomesKept, Outcomes, Countable, TypeOK, BrokerTypeOK
    <3>2. QED
      BY <2>1, <2>2, <2>3, <2>5, <3>1 DEF OutcomesKept
  <2>6. ASSUME NEW w \in Consumer, UNCHANGED results,
               \/ Reconnect(w) \/ LoseLink(w) \/ HandlerEscapes(w)
               \/ Deliver(w) \/ Dispatch(w)
        PROVE  OutcomesKept(j) /\ UNCHANGED submitted
    BY <2>1, <2>6, TransportOutcomes
       DEF Reconnect, LoseLink, Cut, HandlerEscapes, Deliver, Dispatch,
           DropMalformed, Forward, DispatchRaises, AckForwarded,
           Ack, DeadLetter, Requeue, Release
  <2>7. ASSUME NEW w \in Consumer, OnMessage(w) \/ ConfirmLost(w)
        PROVE  OutcomesKept(j) /\ UNCHANGED submitted
    BY <2>1, <2>7, WorkerOutcomes
       DEF OnMessage, RejectJob, InvalidRequest, Analyze, PublishResult,
           PublishRefused, Republish, RetryExhausted, RepublishRefused, AckDone,
           ConfirmLost, Stay, Ack, DeadLetter, Release
  <2>8. CASE UNCHANGED vars
    <3>1. Outcomes(j)' = Outcomes(j) /\ Countable(j)' /\ UNCHANGED <<submitted, losses>>
      BY <2>1, <2>8
         DEF vars, Outcomes, Countable, WaitingCopies, Obliged, Holding, JobOf,
             Superseded
    <3>2. QED
      BY <2>3, <3>1
  <2>9. QED
    BY <2>4, <2>5, <2>6, <2>7, <2>8 DEF Next, Transport
<1>3. Counted => LossesBoundDuplicates
  BY DEF Counted
<1>4. QED
  BY <1>1, <1>2, <1>3, ServerTypeCorrect, ServerUntouched, PTL DEF Spec
=============================================================================
