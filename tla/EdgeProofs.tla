---------------------------- MODULE EdgeProofs ------------------------------
(***************************************************************************)
(* Proofs about EdgePipeline, for every set of jobs and consumers, every   *)
(* number of posts a callback makes and every number of lost connections,  *)
(* and about CallbackDelivery, the callbacks it makes.                     *)
(***************************************************************************)
EXTENDS EdgePipeline, CallbackDelivery, Integers, FiniteSetTheorems, TLAPS

(* A dispatcher has no request in memory and does not report; a worker has *)
(* one exactly while its handler runs.                                     *)
Handlers ==
  \A w \in Consumer :
    IF Subscription[w] = "ingress"
    THEN task[w] = NoJob /\ phase[w] \in {"closed", "idle", "received", "forwarded"}
    ELSE /\ phase[w] # "forwarded"
         /\ task[w] # NoJob <=> phase[w] \notin {"closed", "idle"}

IInv == TypeOK /\ Handlers

(* A job is carried by a callback the backend processed, a dead letter, a  *)
(* failure that could not be reported, a message that waits, or a handler  *)
(* that still has to settle one: neither forwarded nor called back yet.    *)
Obliged(j) ==
  {w \in Consumer : Holding(w) /\ JobOf(w) = j /\ phase[w] \notin {"forwarded", "called"}}

Carried(j) ==
  received[j] > 0 \/ dead[j] > 0 \/ j \in silenced \/ Waiting(j) \/ Obliged(j) # {}

(* After a callback the backend has processed it, or nobody will.          *)
Heard(w) == phase[w] = "called" => received[task[w]] > 0 \/ task[w] \in silenced

Accountable ==
  /\ \A j \in submitted : Carried(j)
  /\ \A w \in Consumer : Heard(w)

(* Whoever may yet send a callback for job j, or pass the job on: the      *)
(* dispatcher with its message, a worker with its request, linked or not.  *)
Unreported(j) ==
  {w \in Consumer :
     IF Subscription[w] = "ingress"
     THEN Holding(w) /\ JobOf(w) = j /\ phase[w] = "received"
     ELSE task[w] = j /\ phase[w] \in {"received", "success", "failure"}}

(* Callbacks that were caused so far: one by the submission, one by each   *)
(* lost connection, less those that are still to come.                     *)
Spent(j) ==
  (IF j \in submitted THEN 1 ELSE 0) + losses
    - Cardinality(WaitingCopies(j)) - Cardinality(Unreported(j))

Countable(j) == IsFiniteSet(WaitingCopies(j)) /\ IsFiniteSet(Unreported(j))

CallbacksPaid ==
  \A j \in Job : Countable(j) /\ received[j] <= Attempts * Spent(j)

(***************************************************************************)
(* Messages and the operations on the broker                               *)
(***************************************************************************)
(* What Publish puts on a queue is a message, and the counts stay numbers. *)
LEMMA PublishType ==
  ASSUME TypeOK,
         NEW q \in WorkQueue, NEW j \in Job, NEW n \in 0..RetryLimit,
         Publish(q, j, n)
  PROVE  /\ [queue |-> q, job |-> j, retry |-> n] \in Message
         /\ ready' \in [Message -> Nat]
         /\ ready'[[queue |-> q, job |-> j, retry |-> n]] > 0
         /\ \A m \in Message : ready'[m] >= ready[m]
<1>1. [queue |-> q, job |-> j, retry |-> n] \in Message
  BY DEF Message
<1>2. QED
  BY <1>1 DEF Publish, TypeOK, BrokerTypeOK

(* A consumer that holds something is linked and holds a job's message.    *)
LEMMA HeldMessage ==
  ASSUME TypeOK, NEW w \in Consumer, Holding(w)
  PROVE  /\ holds[w] \in Message
         /\ JobOf(w) \in Job
         /\ holds[w].retry \in 0..RetryLimit
         /\ linked[w]
BY BrokerAssumption DEF TypeOK, BrokerTypeOK, Sessions, Holding, JobOf, Message

(* A linked consumer that is not idle holds a message. *)
LEMMA BusyHolds ==
  ASSUME TypeOK, NEW w \in Consumer, linked[w], phase[w] # "idle"
  PROVE  Holding(w)
BY DEF TypeOK, BrokerTypeOK, Sessions, Holding

(* A worker whose handler runs has a request in memory; if it still holds  *)
(* a message, it is that request's.                                        *)
LEMMA TaskAtHand ==
  ASSUME IInv, NEW w \in Consumer,
         Subscription[w] # "ingress", phase[w] \notin {"closed", "idle"}
  PROVE  /\ task[w] \in Job
         /\ linked[w] => Holding(w) /\ JobOf(w) = task[w]
         /\ Holding(w) => JobOf(w) = task[w]
<1>1. task[w] \in Job /\ task[w] # NoJob
  BY DEF IInv, Handlers, TypeOK
<1>2. Holding(w) => linked[w]
  BY HeldMessage DEF IInv
<1>3. QED
  BY <1>1, <1>2 DEF IInv, TypeOK

(* Whichever way a handler settles its message, its thread is idle again,  *)
(* holds nothing, and the counts stay numbers.                             *)
LEMMA SettleType ==
  ASSUME TypeOK, NEW w \in Consumer, Holding(w),
         Ack(w) \/ DeadLetter(w) \/ Requeue(w)
  PROVE  /\ BrokerTypeOK' /\ Sessions' /\ phase' \in [Consumer -> Phase]
         /\ phase'[w] = "idle"
         /\ \A v \in Consumer \ {w} : phase'[v] = phase[v] /\ holds'[v] = holds[v]
         /\ linked' = linked
<1>1. holds[w] \in Message /\ JobOf(w) \in Job /\ linked[w]
  BY HeldMessage
<1>2. ready' \in [Message -> Nat] /\ dead' \in [Job -> Nat]
  BY <1>1 DEF Ack, DeadLetter, Requeue, TypeOK, BrokerTypeOK
<1>3. Release(w)
  BY DEF Ack, DeadLetter, Requeue
<1>4. QED
  BY <1>1, <1>2, <1>3
     DEF Release, GoOn, TypeOK, BrokerTypeOK, Sessions, Phase

(* A handler that only moves on to another phase keeps its message. *)
LEMMA GoOnType ==
  ASSUME TypeOK, NEW w \in Consumer, phase[w] \notin {"closed", "idle"},
         NEW p \in Phase \ {"closed", "idle"}, GoOn(w, p), UNCHANGED <<linked, holds>>
  PROVE  /\ Sessions' /\ phase' \in [Consumer -> Phase]
         /\ phase'[w] = p
         /\ \A v \in Consumer \ {w} : phase'[v] = phase[v]
BY DEF GoOn, TypeOK, BrokerTypeOK, Sessions, Holding, Phase

(***************************************************************************)
(* Type correctness                                                        *)
(***************************************************************************)
(* What TypeOK says of the workers' requests. *)
Requests ==
  \A w \in Consumer :
    linked[w] /\ task[w] # NoJob => Holding(w) /\ task[w] = JobOf(w)

LEMMA InitIInv == Init => IInv
<1> SUFFICES ASSUME Init
             PROVE  IInv
  OBVIOUS
<1>1. TypeOK
  BY BrokerAssumption
     DEF Init, BrokerInit, TypeOK, BrokerTypeOK, Sessions, Phase, Message
<1>2. Handlers
  BY DEF Init, BrokerInit, Handlers
<1>3. QED
  BY <1>1, <1>2 DEF IInv

(* A step of the transport: the backend, the connections, the dispatcher. *)
LEMMA TransportType == IInv /\ Transport => IInv'
<1> SUFFICES ASSUME IInv, Transport
             PROVE  IInv'
  OBVIOUS
<1> USE BrokerAssumption DEF IInv
<1>1. UNCHANGED <<task, received, silenced>>
  BY DEF Transport
<1>0. SUFFICES BrokerTypeOK' /\ Sessions' /\ phase' \in [Consumer -> Phase]
               /\ Requests' /\ Handlers'
  BY <1>1 DEF TypeOK, Requests
<1>2. ASSUME NEW j \in Job, Submit(j)
      PROVE  BrokerTypeOK' /\ Sessions' /\ phase' \in [Consumer -> Phase]
             /\ Requests' /\ Handlers'
  <2>1. "ingress" \in WorkQueue /\ 0 \in 0..RetryLimit
    BY DEF WorkQueue
  <2>2. Publish("ingress", j, 0)
    BY <1>2 DEF Submit
  <2>3. ready' \in [Message -> Nat]
    BY <2>1, <2>2, PublishType
  <2>4. QED
    BY <1>1, <1>2, <2>3
       DEF Submit, TypeOK, BrokerTypeOK, Sessions, Requests, Holding, JobOf, Handlers
<1>3. ASSUME NEW w \in Consumer, Reconnect(w)
      PROVE  BrokerTypeOK' /\ Sessions' /\ phase' \in [Consumer -> Phase]
             /\ Requests' /\ Handlers'
  <2>1. BrokerTypeOK' /\ Sessions' /\ phase' \in [Consumer -> Phase]
    BY <1>3 DEF Reconnect, GoOn, TypeOK, BrokerTypeOK, Sessions, Phase
  <2>2. task[w] = NoJob
    BY <1>3 DEF Reconnect, Handlers
  <2>3. Requests' /\ Handlers'
    BY <1>1, <1>3, <2>2
       DEF Reconnect, GoOn, TypeOK, BrokerTypeOK, Requests, Holding, JobOf, Handlers
  <2>4. QED
    BY <2>1, <2>3
<1>4. ASSUME NEW w \in Consumer, LoseLink(w)
      PROVE  BrokerTypeOK' /\ Sessions' /\ phase' \in [Consumer -> Phase]
             /\ Requests' /\ Handlers'
  <2>1. BrokerTypeOK' /\ Sessions' /\ phase' \in [Consumer -> Phase]
    BY <1>4 DEF LoseLink, Cut, GoOn, Holding, TypeOK, BrokerTypeOK, Sessions, Phase
  <2>2. Requests' /\ Handlers'
    BY <1>1, <1>4
       DEF LoseLink, Cut, GoOn, TypeOK, BrokerTypeOK, Requests, Holding, JobOf, Handlers
  <2>3. QED
    BY <2>1, <2>2
<1>5. ASSUME NEW w \in Consumer, Dispatch(w)
      PROVE  BrokerTypeOK' /\ Sessions' /\ phase' \in [Consumer -> Phase]
             /\ Requests' /\ Handlers'
  <2>1. linked[w] /\ phase[w] \in {"received", "forwarded"} /\ Subscription[w] = "ingress"
    BY <1>5
       DEF Dispatch, DropMalformed, Forward, DispatchRaises, AckForwarded,
           Dispatching, Handlers
  <2>2. Holding(w) /\ task[w] = NoJob
    BY <2>1, BusyHolds DEF Handlers
  <2>3. CASE Forward(w)
    <3>1. Media[JobOf(w)] \in WorkQueue
      BY <2>2, HeldMessage DEF WorkQueue
    <3>2. ready' \in [Message -> Nat]
      BY <2>2, <2>3, <3>1, HeldMessage, PublishType DEF Forward
    <3>3. /\ Sessions' /\ phase' \in [Consumer -> Phase] /\ phase'[w] = "forwarded"
          /\ \A v \in Consumer \ {w} : phase'[v] = phase[v]
      BY <2>1, <2>3, GoOnType DEF Forward, Phase
    <3>4. QED
      BY <1>1, <2>1, <2>2, <2>3, <3>2, <3>3
         DEF Forward, TypeOK, BrokerTypeOK, Requests, Holding, JobOf, Handlers
  <2>4. CASE DropMalformed(w) \/ DispatchRaises(w) \/ AckForwarded(w)
    <3>1. /\ BrokerTypeOK' /\ Sessions' /\ phase' \in [Consumer -> Phase]
          /\ phase'[w] = "idle" /\ linked' = linked
          /\ \A v \in Consumer \ {w} : phase'[v] = phase[v] /\ holds'[v] = holds[v]
      BY <2>2, <2>4, SettleType DEF DropMalformed, DispatchRaises, AckForwarded
    <3>2. Requests' /\ Handlers'
      BY <1>1, <2>1, <2>2, <3>1 DEF TypeOK, Requests, Holding, JobOf, Handlers
    <3>3. QED
      BY <3>1, <3>2
  <2>5. QED
    BY <1>5, <2>3, <2>4 DEF Dispatch
<1>6. QED
  BY <1>2, <1>3, <1>4, <1>5 DEF Transport

(* A message is handed to a consumer. *)
LEMMA TakeType ==
  ASSUME IInv, NEW w \in Consumer, TakeJob(w)
  PROVE  IInv'
<1> USE BrokerAssumption, EdgeAssumption DEF IInv
<1>1. PICK m \in Message : /\ m.queue = Subscription[w] /\ ready[m] > 0
                           /\ ready' = [ready EXCEPT ![m] = @ - 1]
                           /\ holds' = [holds EXCEPT ![w] = m]
  BY DEF TakeJob, Deliver
<1>2. m.job \in Job /\ m # NoMessage /\ linked[w] /\ phase[w] = "idle" /\ task[w] = NoJob
  BY DEF Message, TakeJob, Deliver, TypeOK, Sessions, Handlers
<1>3. /\ holds'[w] = m /\ phase' = [phase EXCEPT ![w] = "received"]
      /\ UNCHANGED <<submitted, dead, linked, losses, received, silenced>>
      /\ task' = IF Subscription[w] = "ingress" THEN task ELSE [task EXCEPT ![w] = m.job]
  BY <1>1 DEF TakeJob, Deliver, GoOn, TypeOK, BrokerTypeOK
<1>4. BrokerTypeOK' /\ Sessions' /\ phase' \in [Consumer -> Phase]
  BY <1>1, <1>2, <1>3 DEF TypeOK, BrokerTypeOK, Sessions, Phase
<1>5. task' \in [Consumer -> Job \cup {NoJob}]
  BY <1>2, <1>3 DEF TypeOK
<1>6. Requests'
  BY <1>1, <1>2, <1>3 DEF TypeOK, BrokerTypeOK, Requests, Holding, JobOf
<1>7. Handlers'
  BY <1>1, <1>2, <1>3 DEF TypeOK, Handlers
<1>8. QED
  BY <1>3, <1>4, <1>5, <1>6, <1>7 DEF TypeOK, Requests

(* A callback, or several of one call, are counted for the job at hand.    *)
LEMMA ReportedType ==
  ASSUME TypeOK, NEW w \in Consumer, task[w] \in Job, NEW n \in Nat, Reported(w, n)
  PROVE  /\ received' \in [Job -> Nat]
         /\ received'[task[w]] = received[task[w]] + n
         /\ \A j \in Job \ {task[w]} : received'[j] = received[j]
BY DEF Reported, TypeOK

(* The steps of a handler before the last: the broker is left alone.       *)
Proceeds(w) ==
  \/ RejectJob(w) \/ Analyze(w) \/ CallbackDelivered(w) \/ CallbackFails(w)

(* What they have in common. *)
LEMMA ProceedsTo ==
  ASSUME IInv, NEW w \in Consumer, Proceeds(w)
  PROVE  /\ Subscription[w] # "ingress" /\ phase[w] \in {"received", "success", "failure"}
         /\ Stay /\ task' = task
         /\ \E p \in {"success", "failure", "called", "refused"} :
              GoOn(w, p) /\ phase'[w] = p
         /\ Sessions' /\ phase' \in [Consumer -> Phase]
         /\ \A v \in Consumer \ {w} : phase'[v] = phase[v]
<1>1. /\ Subscription[w] # "ingress" /\ phase[w] \in {"received", "success", "failure"}
      /\ Stay /\ task' = task
      /\ \E p \in {"success", "failure", "called", "refused"} : GoOn(w, p)
  BY DEF Proceeds, RejectJob, Analyze, CallbackDelivered, CallbackFails, Working
<1>2. PICK p \in {"success", "failure", "called", "refused"} : GoOn(w, p)
  BY <1>1
<1>3. p \in Phase \ {"closed", "idle"} /\ UNCHANGED <<linked, holds>>
  BY <1>1 DEF Phase, Stay
<1>4. /\ Sessions' /\ phase' \in [Consumer -> Phase] /\ phase'[w] = p
      /\ \A v \in Consumer \ {w} : phase'[v] = phase[v]
  BY <1>1, <1>2, <1>3, GoOnType DEF IInv
<1>5. QED
  BY <1>1, <1>2, <1>4

LEMMA ProceedsType ==
  ASSUME IInv, NEW w \in Consumer, Proceeds(w)
  PROVE  IInv'
<1>1. /\ Subscription[w] # "ingress" /\ phase[w] \in {"received", "success", "failure"}
      /\ Stay /\ task' = task
      /\ phase'[w] \in {"success", "failure", "called", "refused"}
      /\ Sessions' /\ phase' \in [Consumer -> Phase]
      /\ \A v \in Consumer \ {w} : phase'[v] = phase[v]
  BY ProceedsTo
<1>2. task[w] \in Job
  BY <1>1, TaskAtHand
<1>3. received' \in [Job -> Nat] /\ silenced' \subseteq Job
  <2>1. CASE RejectJob(w) \/ Analyze(w)
    BY <2>1 DEF RejectJob, Analyze, IInv, TypeOK
  <2>2. CASE CallbackDelivered(w) \/ CallbackFails(w)
    <3>1. \E n \in Nat : Reported(w, n)
      BY <2>2, EdgeAssumption DEF CallbackDelivered, CallbackFails
    <3>2. silenced' \subseteq Job
      BY <1>2, <2>2 DEF CallbackDelivered, CallbackFails, IInv, TypeOK
    <3>3. QED
      BY <1>2, <3>1, <3>2, ReportedType DEF IInv
  <2>3. QED
    BY <2>1, <2>2 DEF Proceeds
<1>4. BrokerTypeOK' /\ Requests'
  BY <1>1 DEF Stay, IInv, TypeOK, BrokerTypeOK, Requests, Holding, JobOf
<1>5. Handlers'
  BY <1>1 DEF IInv, Handlers
<1>6. QED
  BY <1>1, <1>3, <1>4, <1>5 DEF IInv, TypeOK, Requests

(* The last step of a handler. *)
LEMMA EndType ==
  ASSUME IInv, NEW w \in Consumer, AckCalled(w) \/ RefuseJob(w) \/ Escape(w)
  PROVE  IInv'
<1> USE DEF IInv
<1>1. /\ task' = [task EXCEPT ![w] = NoJob]
      /\ UNCHANGED <<received, silenced>>
  BY DEF AckCalled, RefuseJob, Escape, Forget
<1>2. /\ task'[w] = NoJob /\ \A v \in Consumer \ {w} : task'[v] = task[v]
      /\ task' \in [Consumer -> Job \cup {NoJob}]
  BY <1>1 DEF TypeOK
<1>3. /\ BrokerTypeOK' /\ Sessions' /\ phase' \in [Consumer -> Phase]
      /\ phase'[w] \in {"idle", "closed"} /\ linked' = linked
      /\ \A v \in Consumer \ {w} : phase'[v] = phase[v] /\ holds'[v] = holds[v]
  <2>1. CASE AckCalled(w) \/ RefuseJob(w)
    BY <2>1, BusyHolds, SettleType DEF AckCalled, RefuseJob, Working
  <2>2. CASE Escape(w)
    BY <2>2 DEF Escape, HandlerEscapes, GoOn, TypeOK, BrokerTypeOK, Sessions, Phase
  <2>3. QED
    BY <2>1, <2>2
<1>4. Requests' /\ Handlers'
  BY <1>2, <1>3 DEF TypeOK, Requests, Holding, JobOf, Handlers
<1>5. QED
  BY <1>1, <1>2, <1>3, <1>4 DEF TypeOK, Requests

LEMMA NextIInv == IInv /\ [Next]_vars => IInv'
<1> SUFFICES ASSUME IInv, [Next]_vars
             PROVE  IInv'
  OBVIOUS
<1>1. CASE Transport
  BY <1>1, TransportType
<1>2. ASSUME NEW w \in Consumer, TakeJob(w) \/ OnMessage(w)
      PROVE  IInv'
  BY <1>2, TakeType, ProceedsType, EndType DEF OnMessage, Proceeds
<1>3. CASE UNCHANGED vars
  BY <1>3 DEF vars, IInv, TypeOK, BrokerTypeOK, Sessions, Holding, JobOf, Handlers
<1>4. QED
  BY <1>1, <1>2, <1>3 DEF Next

(* TypeOK of EdgePipeline, for every instance: among the rest, a worker's  *)
(* request is that of the message it holds, as long as it is linked.       *)
THEOREM EdgeTypeCorrect == Spec => []TypeOK
<1>1. IInv => TypeOK
  BY DEF IInv
<1>2. QED
  BY <1>1, InitIInv, NextIInv, PTL DEF Spec

(***************************************************************************)
(* Only failures vanish                                                    *)
(***************************************************************************)
(* A step of consumer w takes nothing back that was reported or given up;  *)
(* it can only harm a job through w's own obligation or through the        *)
(* messages that wait.                                                     *)
LEMMA CarryOver ==
  ASSUME IInv, IInv', NEW w \in Consumer, NEW j \in Job, Carried(j),
         \A v \in Consumer \ {w} : holds'[v] = holds[v] /\ phase'[v] = phase[v],
         received'[j] >= received[j], dead'[j] >= dead[j], silenced \subseteq silenced',
         Waiting(j) => Carried(j)',
         w \in Obliged(j) => Carried(j)'
  PROVE  Carried(j)'
<1>1. CASE received[j] > 0 \/ dead[j] > 0 \/ j \in silenced
  BY <1>1 DEF Carried, IInv, TypeOK, BrokerTypeOK
<1>2. ASSUME NEW v \in Obliged(j), v # w
      PROVE  Carried(j)'
  <2>1. v \in Obliged(j)'
    BY <1>2 DEF Obliged, Holding, JobOf
  <2>2. QED
    BY <2>1 DEF Carried
<1>3. QED
  BY <1>1, <1>2 DEF Carried

(* Messages that wait go on waiting when no count falls. *)
LEMMA StillWaiting ==
  ASSUME TypeOK, TypeOK', NEW j \in Job, Waiting(j),
         \A m \in Message : ready'[m] >= ready[m]
  PROVE  Carried(j)'
BY DEF Waiting, Carried, TypeOK, BrokerTypeOK

(* Publish leaves a message of its job waiting. *)
LEMMA PublishCarries ==
  ASSUME TypeOK, NEW q \in WorkQueue, NEW j \in Job, NEW n \in 0..RetryLimit,
         Publish(q, j, n)
  PROVE  Carried(j)' /\ \A m \in Message : ready'[m] >= ready[m]
<1> DEFINE new == [queue |-> q, job |-> j, retry |-> n]
<1>1. new \in Message /\ ready'[new] > 0 /\ new.job = j
  BY PublishType
<1>2. Waiting(j)'
  BY <1>1 DEF Waiting
<1>3. QED
  BY <1>2, PublishType DEF Carried

(* So does the return of an unacknowledged message to its queue. *)
LEMMA ReturnCarries ==
  ASSUME TypeOK, NEW w \in Consumer, Holding(w), NEW j \in Job, JobOf(w) = j,
         ready' = [ready EXCEPT ![holds[w]] = @ + 1]
  PROVE  Carried(j)' /\ \A m \in Message : ready'[m] >= ready[m]
<1>1. holds[w] \in Message
  BY HeldMessage
<1>2. ready'[holds[w]] > 0 /\ \A m \in Message : ready'[m] >= ready[m]
  BY <1>1 DEF TypeOK, BrokerTypeOK
<1>3. PICK m \in Message : m.job = j /\ ready'[m] > 0
  BY <1>1, <1>2 DEF JobOf
<1>4. Waiting(j)'
  BY <1>3 DEF Waiting
<1>5. QED
  BY <1>2, <1>4 DEF Carried

(* Settling a message keeps every job carried: an acknowledged one was     *)
(* forwarded, or its callback is known to have been processed or given up. *)
LEMMA SettleCarries ==
  ASSUME IInv, IInv', NEW w \in Consumer, Holding(w), NEW j \in Job, Carried(j),
         (Ack(w) /\ phase[w] \in {"forwarded", "called"}) \/ DeadLetter(w) \/ Requeue(w),
         UNCHANGED <<received, silenced>>
  PROVE  Carried(j)'
<1> USE DEF IInv
<1>1. holds[w] \in Message /\ JobOf(w) \in Job
  BY HeldMessage
<1>2. \A v \in Consumer \ {w} : holds'[v] = holds[v] /\ phase'[v] = phase[v]
  BY DEF Ack, DeadLetter, Requeue, Release, GoOn, TypeOK, BrokerTypeOK
<1>3. /\ \A m \in Message : ready'[m] >= ready[m]
      /\ dead'[j] >= dead[j]
      /\ received'[j] >= received[j] /\ silenced \subseteq silenced'
  BY <1>1 DEF Ack, DeadLetter, Requeue, TypeOK, BrokerTypeOK
<1>4. Waiting(j) => Carried(j)'
  BY <1>3, StillWaiting
<1>5. ASSUME w \in Obliged(j)
      PROVE  Carried(j)'
  <2>1. JobOf(w) = j /\ phase[w] \notin {"forwarded", "called"}
    BY <1>5 DEF Obliged
  <2>2. CASE DeadLetter(w)
    BY <2>1, <2>2 DEF DeadLetter, Carried, TypeOK, BrokerTypeOK
  <2>3. CASE Requeue(w)
    BY <2>1, <2>3, ReturnCarries DEF Requeue
  <2>4. QED
    BY <2>1, <2>2, <2>3
<1>6. QED
  BY <1>2, <1>3, <1>4, <1>5, CarryOver

(* Every step of the transport keeps every job carried. *)
LEMMA TransportCarries ==
  ASSUME IInv, IInv', Transport, NEW j \in Job,
         Carried(j) \/ j \in submitted' \ submitted
  PROVE  Carried(j)'
<1> USE BrokerAssumption DEF IInv
<1>1. UNCHANGED <<task, received, silenced>> /\ received[j] \in Nat
  BY DEF Transport, TypeOK
<1>2. ASSUME NEW i \in Job, Submit(i)
      PROVE  Carried(j)'
  <2>1. /\ "ingress" \in WorkQueue /\ 0 \in 0..RetryLimit
        /\ Publish("ingress", i, 0)
    BY <1>2 DEF Submit, WorkQueue
  <2>2. Carried(i)' /\ \A m \in Message : ready'[m] >= ready[m]
    BY <2>1, PublishCarries
  <2>3. CASE j = i
    BY <2>2, <2>3
  <2>4. CASE j # i
    <3>1. Carried(j)
      BY <1>2, <2>4 DEF Submit
    <3>2. Waiting(j) => Carried(j)'
      BY <2>2, StillWaiting
    <3>3. Obliged(j)' = Obliged(j) /\ dead' = dead
      BY <1>2 DEF Submit, Obliged, Holding, JobOf
    <3>4. QED
      BY <1>1, <3>1, <3>2, <3>3 DEF Carried
  <2>5. QED
    BY <2>3, <2>4
<1>3. ASSUME NEW w \in Consumer, Reconnect(w)
      PROVE  Carried(j)'
  <2>1. Carried(j) /\ ready' = ready /\ dead' = dead
    BY <1>3 DEF Reconnect
  <2>2. w \notin Obliged(j)
    BY <1>3 DEF Obliged, Holding, Reconnect, TypeOK, Sessions
  <2>3. \A v \in Consumer \ {w} : holds'[v] = holds[v] /\ phase'[v] = phase[v]
    BY <1>3 DEF Reconnect, GoOn, TypeOK
  <2>4. Waiting(j) => Carried(j)'
    BY <2>1 DEF Waiting, Carried
  <2>5. QED
    BY <1>1, <2>1, <2>2, <2>3, <2>4, CarryOver DEF TypeOK, BrokerTypeOK
<1>4. ASSUME NEW w \in Consumer, LoseLink(w)
      PROVE  Carried(j)'
  <2>1. /\ Carried(j) /\ Cut(w) /\ dead' = dead
        /\ \A v \in Consumer \ {w} : holds'[v] = holds[v] /\ phase'[v] = phase[v]
    BY <1>4 DEF LoseLink, Cut, GoOn, TypeOK, BrokerTypeOK
  <2>2. \A m \in Message : ready'[m] >= ready[m]
    BY <2>1, HeldMessage DEF Cut, TypeOK, BrokerTypeOK
  <2>3. Waiting(j) => Carried(j)'
    BY <2>2, StillWaiting
  <2>4. w \in Obliged(j) => Carried(j)'
    BY <2>1, ReturnCarries DEF Cut, Obliged
  <2>5. QED
    BY <1>1, <2>1, <2>3, <2>4, CarryOver DEF TypeOK, BrokerTypeOK
<1>5. ASSUME NEW w \in Consumer, Dispatch(w)
      PROVE  Carried(j)'
  <2>1. Holding(w) /\ Carried(j)
    BY <1>5, BusyHolds
       DEF Dispatch, DropMalformed, Forward, DispatchRaises, AckForwarded,
           Dispatching, Ack, DeadLetter, Requeue, Release
  <2>2. CASE Forward(w)
    <3>1. /\ Publish(Media[JobOf(w)], JobOf(w), holds[w].retry)
          /\ Media[JobOf(w)] \in WorkQueue
      BY <2>1, <2>2, HeldMessage DEF Forward, WorkQueue
    <3>2. \A m \in Message : ready'[m] >= ready[m]
      BY <2>1, <3>1, HeldMessage, PublishCarries
    <3>3. Waiting(j) => Carried(j)'
      BY <3>2, StillWaiting
    <3>4. ASSUME w \in Obliged(j)
          PROVE  Carried(j)'
      <4>1. JobOf(w) = j
        BY <3>4 DEF Obliged
      <4>2. QED
        BY <2>1, <3>1, <4>1, HeldMessage, PublishCarries
    <3>5. /\ dead' = dead
          /\ \A v \in Consumer \ {w} : holds'[v] = holds[v] /\ phase'[v] = phase[v]
      BY <2>2 DEF Forward, GoOn, TypeOK
    <3>6. QED
      BY <1>1, <2>1, <3>3, <3>4, <3>5, CarryOver DEF TypeOK, BrokerTypeOK
  <2>3. CASE DropMalformed(w) \/ DispatchRaises(w) \/ AckForwarded(w)
    BY <1>1, <2>1, <2>3, SettleCarries
       DEF DropMalformed, DispatchRaises, AckForwarded
  <2>4. QED
    BY <1>5, <2>2, <2>3 DEF Dispatch
<1>6. QED
  BY <1>2, <1>3, <1>4, <1>5 DEF Transport

(* A message that is handed out is carried by its new holder. *)
LEMMA TakeCarries ==
  ASSUME IInv, IInv', NEW w \in Consumer, TakeJob(w), NEW j \in Job, Carried(j)
  PROVE  Carried(j)'
<1> USE DEF IInv
<1>1. PICK m \in Message : /\ ready[m] > 0
                           /\ ready' = [ready EXCEPT ![m] = @ - 1]
                           /\ holds' = [holds EXCEPT ![w] = m]
  BY DEF TakeJob, Deliver
<1>2. /\ UNCHANGED <<dead, received, silenced>>
      /\ \A v \in Consumer \ {w} : holds'[v] = holds[v] /\ phase'[v] = phase[v]
  BY <1>1 DEF TakeJob, Deliver, GoOn, TypeOK, BrokerTypeOK
<1>3. w \notin Obliged(j)
  BY DEF TakeJob, Deliver, Obliged, Holding, TypeOK, Sessions
<1>4. ASSUME Waiting(j)
      PROVE  Carried(j)'
  <2>1. PICK k \in Message : k.job = j /\ ready[k] > 0
    BY <1>4 DEF Waiting
  <2>2. CASE k = m
    <3>1. holds'[w] = m /\ phase'[w] = "received" /\ m # NoMessage
      BY <1>1, BrokerAssumption DEF TakeJob, Deliver, GoOn, TypeOK, BrokerTypeOK
    <3>2. w \in Obliged(j)'
      BY <2>1, <2>2, <3>1 DEF Obliged, Holding, JobOf
    <3>3. QED
      BY <3>2 DEF Carried
  <2>3. CASE k # m
    <3>1. ready'[k] > 0
      BY <1>1, <2>1, <2>3 DEF TypeOK, BrokerTypeOK
    <3>2. QED
      BY <2>1, <3>1 DEF Waiting, Carried
  <2>4. QED
    BY <2>2, <2>3
<1>5. QED
  BY <1>2, <1>3, <1>4, CarryOver DEF TypeOK, BrokerTypeOK

(* What a callback leaves behind: after it, its job has been heard of, and *)
(* of no job less than before.                                             *)
LEMMA CallbackHeard ==
  ASSUME IInv, NEW w \in Consumer, Proceeds(w)
  PROVE  /\ \A j \in Job : received'[j] >= received[j]
         /\ silenced \subseteq silenced'
         /\ phase'[w] = "called" => received'[task[w]] > 0 \/ task[w] \in silenced'
<1> USE DEF IInv
<1>1. /\ Subscription[w] # "ingress" /\ phase[w] \notin {"closed", "idle"}
      /\ received \in [Job -> Nat] /\ phase \in [Consumer -> Phase]
  BY ProceedsTo DEF TypeOK
<1>2. task[w] \in Job
  BY <1>1, TaskAtHand
<1>3. CASE RejectJob(w) \/ Analyze(w)
  BY <1>1, <1>3 DEF RejectJob, Analyze, GoOn
<1>4. CASE CallbackDelivered(w)
  <2>1. PICK n \in 1..Attempts : Reported(w, n)
    BY <1>4 DEF CallbackDelivered
  <2>2. n \in Nat /\ n > 0
    BY EdgeAssumption
  <2>3. QED
    BY <1>1, <1>2, <1>4, <2>1, <2>2, ReportedType DEF CallbackDelivered
<1>5. CASE CallbackFails(w)
  <2>1. PICK n \in 0..Attempts : Reported(w, n)
    BY <1>5 DEF CallbackFails
  <2>2. n \in Nat
    BY EdgeAssumption
  <2>3. \A j \in Job : received'[j] >= received[j]
    BY <1>1, <1>2, <2>1, <2>2, ReportedType
  <2>4. QED
    BY <1>1, <1>5, <2>3 DEF CallbackFails, GoOn
<1>6. QED
  BY <1>3, <1>4, <1>5 DEF Proceeds

LEMMA ProceedsCarries ==
  ASSUME IInv, IInv', NEW w \in Consumer, Proceeds(w), NEW j \in Job, Carried(j)
  PROVE  Carried(j)'
<1> USE DEF IInv
<1>1. /\ Subscription[w] # "ingress" /\ phase[w] \in {"received", "success", "failure"}
      /\ UNCHANGED <<submitted, ready, dead, linked, holds, losses>> /\ task' = task
      /\ \A v \in Consumer \ {w} : holds'[v] = holds[v] /\ phase'[v] = phase[v]
      /\ phase'[w] \in {"success", "failure", "called", "refused"}
  BY ProceedsTo DEF Stay
<1>2. received'[j] >= received[j] /\ silenced \subseteq silenced'
  BY CallbackHeard
<1>3. dead'[j] >= dead[j]
  BY <1>1 DEF TypeOK, BrokerTypeOK
<1>4. Waiting(j) => Carried(j)'
  BY <1>1 DEF Waiting, Carried
<1>5. ASSUME w \in Obliged(j)
      PROVE  Carried(j)'
  <2>1. Holding(w) /\ JobOf(w) = j /\ Holding(w)' /\ JobOf(w)' = j
    BY <1>1, <1>5 DEF Obliged, Holding, JobOf
  <2>2. task[w] = j
    BY <1>1, <2>1, TaskAtHand
  <2>3. CASE phase'[w] = "called"
    BY <2>2, <2>3, CallbackHeard DEF Carried
  <2>4. CASE phase'[w] # "called"
    <3>1. w \in Obliged(j)'
      BY <1>1, <2>1, <2>4 DEF Obliged
    <3>2. QED
      BY <3>1 DEF Carried
  <2>5. QED
    BY <2>3, <2>4
<1>6. QED
  BY <1>1, <1>2, <1>3, <1>4, <1>5, CarryOver

(* The last step of a handler. *)
LEMMA EndCarries ==
  ASSUME IInv, IInv', NEW w \in Consumer, AckCalled(w) \/ RefuseJob(w) \/ Escape(w),
         NEW j \in Job, Carried(j)
  PROVE  Carried(j)'
<1> USE DEF IInv
<1>1. CASE AckCalled(w) \/ RefuseJob(w)
  <2>1. Holding(w)
    BY <1>1, BusyHolds DEF AckCalled, RefuseJob, Working
  <2>2. (Ack(w) /\ phase[w] = "called") \/ DeadLetter(w)
    BY <1>1 DEF AckCalled, RefuseJob, Working
  <2>3. UNCHANGED <<received, silenced>>
    BY <1>1 DEF AckCalled, RefuseJob
  <2>4. QED
    BY <2>1, <2>2, <2>3, SettleCarries
<1>2. CASE Escape(w)
  <2>1. /\ UNCHANGED <<ready, dead, received, silenced>> /\ ~linked[w]
        /\ \A v \in Consumer \ {w} : holds'[v] = holds[v] /\ phase'[v] = phase[v]
    BY <1>2 DEF Escape, HandlerEscapes, GoOn, TypeOK
  <2>2. w \notin Obliged(j)
    BY <2>1, HeldMessage DEF Obliged
  <2>3. Waiting(j) => Carried(j)'
    BY <2>1 DEF Waiting, Carried
  <2>4. QED
    BY <2>1, <2>2, <2>3, CarryOver DEF TypeOK, BrokerTypeOK
<1>3. QED
  BY <1>1, <1>2

(* A handler that says it called back goes on to say so truthfully.        *)
LEMMA HeardKept ==
  ASSUME IInv, IInv', Next, NEW v \in Consumer, Heard(v)
  PROVE  Heard(v)'
<1> USE DEF IInv
<1> SUFFICES ASSUME phase'[v] = "called"
             PROVE  received'[task'[v]] > 0 \/ task'[v] \in silenced'
  BY DEF Heard
<1>1. CASE Transport
  <2>1. UNCHANGED <<task, received, silenced>>
    BY <1>1 DEF Transport
  <2>2. phase[v] = "called"
    BY <1>1 DEF Transport, Submit, Reconnect, LoseLink, Dispatch, DropMalformed, Forward,
                DispatchRaises, AckForwarded, Ack, DeadLetter, Requeue, Release, GoOn, TypeOK
  <2>3. QED
    BY <2>1, <2>2 DEF Heard
<1>2. ASSUME NEW w \in Consumer, TakeJob(w)
      PROVE  received'[task'[v]] > 0 \/ task'[v] \in silenced'
  <2>1. v # w /\ phase[v] = "called"
    BY <1>2 DEF TakeJob, Deliver, GoOn, TypeOK
  <2>2. task'[v] = task[v] /\ UNCHANGED <<received, silenced>>
    BY <1>2, <2>1 DEF TakeJob, TypeOK
  <2>3. QED
    BY <2>1, <2>2 DEF Heard
<1>3. ASSUME NEW w \in Consumer, Proceeds(w)
      PROVE  received'[task'[v]] > 0 \/ task'[v] \in silenced'
  <2>1. task' = task
    BY <1>3, ProceedsTo
  <2>2. CASE v = w
    BY <1>3, <2>1, <2>2, CallbackHeard
  <2>3. CASE v # w
    <3>1. phase[v] = "called"
      BY <1>3, <2>3, ProceedsTo
    <3>2. Subscription[v] # "ingress" /\ task[v] \in Job
      BY <3>1, TaskAtHand DEF Handlers
    <3>3. received[task[v]] > 0 \/ task[v] \in silenced
      BY <3>1 DEF Heard
    <3>4. received'[task[v]] >= received[task[v]] /\ silenced \subseteq silenced'
      BY <1>3, <3>2, CallbackHeard
    <3>5. received[task[v]] \in Nat /\ received'[task[v]] \in Nat
      BY <3>2 DEF TypeOK
    <3>6. QED
      BY <2>1, <3>3, <3>4, <3>5
  <2>4. QED
    BY <2>2, <2>3
<1>4. ASSUME NEW w \in Consumer, AckCalled(w) \/ RefuseJob(w) \/ Escape(w)
      PROVE  received'[task'[v]] > 0 \/ task'[v] \in silenced'
  <2>1. v # w /\ phase[v] = "called"
    BY <1>4 DEF AckCalled, RefuseJob, Escape, HandlerEscapes, Ack, DeadLetter, Release, GoOn,
                TypeOK
  <2>2. task'[v] = task[v] /\ UNCHANGED <<received, silenced>>
    BY <1>4, <2>1 DEF AckCalled, RefuseJob, Escape, Forget, TypeOK
  <2>3. QED
    BY <2>1, <2>2 DEF Heard
<1>5. QED
  BY <1>1, <1>2, <1>3, <1>4 DEF Next, OnMessage, Proceeds

LEMMA EdgeAccountable == Spec => [](IInv /\ Accountable)
<1>1. Init => Accountable
  BY DEF Init, BrokerInit, Accountable, Heard
<1>2. IInv /\ Accountable /\ [Next]_vars => IInv' /\ Accountable'
  <2> SUFFICES ASSUME IInv, Accountable, [Next]_vars
               PROVE  Accountable'
    BY NextIInv
  <2>0. IInv' /\ submitted \subseteq Job
    BY NextIInv DEF IInv, TypeOK, BrokerTypeOK
  <2>1. CASE UNCHANGED vars
    BY <2>1 DEF vars, Accountable, Carried, Heard, Waiting, Obliged, Holding, JobOf
  <2>2. CASE Next
    <3>1. \A w \in Consumer : Heard(w)'
      BY <2>0, <2>2, HeardKept DEF Accountable
    <3>2. ASSUME NEW j \in submitted'
          PROVE  Carried(j)'
      <4>1. j \in Job
        BY <2>0 DEF IInv, TypeOK, BrokerTypeOK
      <4>2. CASE Transport
        BY <2>0, <4>1, <4>2, TransportCarries DEF Accountable
      <4>3. ASSUME NEW w \in Consumer, TakeJob(w) \/ OnMessage(w)
            PROVE  Carried(j)'
        <5>1. submitted' = submitted
          <6>1. CASE Proceeds(w)
            BY <6>1, ProceedsTo DEF Stay
          <6>2. CASE ~ Proceeds(w)
            BY <4>3, <6>2
               DEF Proceeds, OnMessage, TakeJob, Deliver, AckCalled, RefuseJob, Escape,
                   HandlerEscapes, Ack, DeadLetter, Release
          <6>3. QED
            BY <6>1, <6>2
        <5>2. Carried(j)
          BY <5>1 DEF Accountable
        <5>3. QED
          BY <2>0, <4>1, <4>3, <5>2, TakeCarries, ProceedsCarries, EndCarries
             DEF OnMessage, Proceeds
      <4>4. QED
        BY <2>2, <4>2, <4>3 DEF Next
    <3>3. QED
      BY <3>1, <3>2 DEF Accountable
  <2>3. QED
    BY <2>1, <2>2
<1>3. QED
  BY <1>1, <1>2, InitIInv, PTL DEF Spec

(* OnlyFailuresVanish: whatever is lost, refused or requeued, a submitted  *)
(* job that is in no queue, in no hand and no dead letter was reported to  *)
(* the backend, or failed with a callback that failed, too.                *)
THEOREM EdgeOnlyFailuresVanish == Spec => []OnlyFailuresVanish
<1>1. IInv /\ Accountable => OnlyFailuresVanish
  <2> SUFFICES ASSUME IInv, Accountable, NEW j \in submitted
               PROVE  Known(j) \/ j \in silenced
    BY DEF OnlyFailuresVanish
  <2>1. Carried(j)
    BY DEF Accountable
  <2>2. QED
    BY <2>1 DEF Carried, Known, Live, InHand, Obliged
<1>2. QED
  BY <1>1, EdgeAccountable, PTL

(***************************************************************************)
(* Only lost connections lead to more callbacks                            *)
(***************************************************************************)
(* The numbered copies of a job's waiting messages, element by element. *)
LEMMA CopyMembership ==
  ASSUME NEW j, NEW c
  PROVE  c \in WaitingCopies(j) <=>
           \E m \in Message, n \in Nat : m.job = j /\ n \in 1..ready[m] /\ c = <<m, n>>
BY DEF WaitingCopies

(* One more message m is one more copy of its job, and of no other. *)
LEMMA CopiesGrow ==
  ASSUME ready \in [Message -> Nat], NEW m \in Message, NEW j,
         ready' = [ready EXCEPT ![m] = @ + 1], IsFiniteSet(WaitingCopies(j))
  PROVE  /\ IsFiniteSet(WaitingCopies(j)')
         /\ Cardinality(WaitingCopies(j)') =
              Cardinality(WaitingCopies(j)) + (IF m.job = j THEN 1 ELSE 0)
<1> DEFINE new == <<m, ready[m] + 1>>
<1>1. \A c : c \in WaitingCopies(j)' <=>
        \E k \in Message, n \in Nat : k.job = j /\ n \in 1..ready'[k] /\ c = <<k, n>>
  BY DEF WaitingCopies
<1>2. CASE m.job = j
  <2>1. WaitingCopies(j)' = WaitingCopies(j) \cup {new}
    <3>1. ASSUME NEW c \in WaitingCopies(j)'
          PROVE  c \in WaitingCopies(j) \cup {new}
      <4>1. PICK k \in Message, n \in Nat :
               k.job = j /\ n \in 1..ready'[k] /\ c = <<k, n>>
        BY <1>1, <3>1
      <4>2. n \in 1..ready[k] \/ (k = m /\ n = ready[m] + 1)
        BY <4>1
      <4>3. QED
        BY <4>1, <4>2, CopyMembership
    <3>2. ASSUME NEW c \in WaitingCopies(j) \cup {new}
          PROVE  c \in WaitingCopies(j)'
      <4>1. CASE c = new
        BY <1>1, <1>2, <4>1
      <4>2. CASE c \in WaitingCopies(j)
        <5>1. PICK k \in Message, n \in Nat :
               k.job = j /\ n \in 1..ready[k] /\ c = <<k, n>>
          BY <4>2, CopyMembership
        <5>2. n \in 1..ready'[k]
          BY <5>1
        <5>3. QED
          BY <1>1, <5>1, <5>2
      <4>3. QED
        BY <3>2, <4>1, <4>2
    <3>3. QED
      BY <3>1, <3>2
  <2>2. new \notin WaitingCopies(j)
    BY CopyMembership
  <2>3. /\ IsFiniteSet(WaitingCopies(j) \cup {new})
        /\ Cardinality(WaitingCopies(j) \cup {new}) = Cardinality(WaitingCopies(j)) + 1
    BY <2>2, FS_AddElement
  <2>4. QED
    BY <1>2, <2>1, <2>3
<1>3. CASE m.job # j
  <2>1. \A k \in Message : k.job = j => ready'[k] = ready[k]
    BY <1>3
  <2>2. WaitingCopies(j)' = WaitingCopies(j)
    <3>1. \A c : c \in WaitingCopies(j)' <=> c \in WaitingCopies(j)
      BY <1>1, <2>1, CopyMembership
    <3>2. QED
      BY <3>1
  <2>3. QED
    BY <1>3, <2>2, FS_CardinalityType
<1>4. QED
  BY <1>2, <1>3

(* One message m less is one copy of its job less, and of no other. *)
LEMMA CopiesShrink ==
  ASSUME ready \in [Message -> Nat], NEW m \in Message, NEW j, ready[m] > 0,
         ready' = [ready EXCEPT ![m] = @ - 1], IsFiniteSet(WaitingCopies(j))
  PROVE  /\ IsFiniteSet(WaitingCopies(j)')
         /\ Cardinality(WaitingCopies(j)') =
              Cardinality(WaitingCopies(j)) - (IF m.job = j THEN 1 ELSE 0)
<1> DEFINE old == <<m, ready[m]>>
<1>1. \A c : c \in WaitingCopies(j)' <=>
        \E k \in Message, n \in Nat : k.job = j /\ n \in 1..ready'[k] /\ c = <<k, n>>
  BY DEF WaitingCopies
<1>2. CASE m.job = j
  <2>1. WaitingCopies(j)' = WaitingCopies(j) \ {old}
    <3>1. ASSUME NEW c \in WaitingCopies(j)'
          PROVE  c \in WaitingCopies(j) \ {old}
      <4>1. PICK k \in Message, n \in Nat :
               k.job = j /\ n \in 1..ready'[k] /\ c = <<k, n>>
        BY <1>1, <3>1
      <4>2. n \in 1..ready[k] /\ (k # m \/ n # ready[m])
        BY <4>1
      <4>3. QED
        BY <4>1, <4>2, CopyMembership
    <3>2. ASSUME NEW c \in WaitingCopies(j) \ {old}
          PROVE  c \in WaitingCopies(j)'
      <4>1. PICK k \in Message, n \in Nat :
               k.job = j /\ n \in 1..ready[k] /\ c = <<k, n>>
        BY <3>2, CopyMembership
      <4>2. n \in 1..ready'[k]
        BY <3>2, <4>1
      <4>3. QED
        BY <1>1, <4>1, <4>2
    <3>3. QED
      BY <3>1, <3>2
  <2>2. old \in WaitingCopies(j)
    BY <1>2, CopyMembership
  <2>3. /\ IsFiniteSet(WaitingCopies(j) \ {old})
        /\ Cardinality(WaitingCopies(j) \ {old}) = Cardinality(WaitingCopies(j)) - 1
    BY <2>2, FS_RemoveElement
  <2>4. QED
    BY <1>2, <2>1, <2>3
<1>3. CASE m.job # j
  <2>1. \A k \in Message : k.job = j => ready'[k] = ready[k]
    BY <1>3
  <2>2. WaitingCopies(j)' = WaitingCopies(j)
    <3>1. \A c : c \in WaitingCopies(j)' <=> c \in WaitingCopies(j)
      BY <1>1, <2>1, CopyMembership
    <3>2. QED
      BY <3>1
  <2>3. QED
    BY <1>3, <2>2, FS_CardinalityType
<1>4. QED
  BY <1>2, <1>3

(* A step that leaves the waiting messages alone leaves their copies alone. *)
LEMMA CopiesSame ==
  ASSUME ready' = ready, NEW j, IsFiniteSet(WaitingCopies(j))
  PROVE  /\ IsFiniteSet(WaitingCopies(j)')
         /\ Cardinality(WaitingCopies(j)') = Cardinality(WaitingCopies(j)) + 0
<1>1. WaitingCopies(j)' = WaitingCopies(j)
  BY DEF WaitingCopies
<1>2. QED
  BY <1>1, FS_CardinalityType

(* What a publish adds to the copies that wait. *)
LEMMA PublishCopies ==
  ASSUME TypeOK, NEW q \in WorkQueue, NEW i \in Job, NEW n \in 0..RetryLimit,
         Publish(q, i, n), NEW j, IsFiniteSet(WaitingCopies(j))
  PROVE  /\ IsFiniteSet(WaitingCopies(j)')
         /\ Cardinality(WaitingCopies(j)') =
              Cardinality(WaitingCopies(j)) + (IF i = j THEN 1 ELSE 0)
<1> DEFINE new == [queue |-> q, job |-> i, retry |-> n]
<1>1. new \in Message /\ new.job = i
  BY PublishType
<1>2. ready' = [ready EXCEPT ![new] = @ + 1] /\ ready \in [Message -> Nat]
  BY DEF Publish, TypeOK, BrokerTypeOK
<1> HIDE DEF new
<1>3. QED
  BY <1>1, <1>2, CopiesGrow

(* A step of consumer w alone changes by w at most who is unreported.      *)
Due(w, j) == IF w \in Unreported(j) THEN 1 ELSE 0

LEMMA UnreportedCount ==
  ASSUME NEW w \in Consumer, NEW j, IsFiniteSet(Unreported(j)),
         \A v \in Consumer \ {w} :
           holds'[v] = holds[v] /\ phase'[v] = phase[v] /\ task'[v] = task[v]
  PROVE  /\ IsFiniteSet(Unreported(j)')
         /\ Cardinality(Unreported(j)') + Due(w, j) = Cardinality(Unreported(j)) + Due(w, j)'
<1> DEFINE others == Unreported(j) \ {w}
<1>1. others = Unreported(j)' \ {w}
  BY DEF Unreported, Holding, JobOf
<1>2. IsFiniteSet(others) /\ Cardinality(others) \in Nat
  BY FS_RemoveElement, FS_CardinalityType
<1>3. /\ IsFiniteSet(others \cup {w})
      /\ Cardinality(others \cup {w}) = Cardinality(others) + 1
  BY <1>2, FS_AddElement
<1>4. ASSUME NEW S, S \ {w} = others
      PROVE  /\ IsFiniteSet(S)
             /\ Cardinality(S) = Cardinality(others) + (IF w \in S THEN 1 ELSE 0)
  <2>1. CASE w \in S
    <3>1. S = others \cup {w}
      BY <1>4, <2>1
    <3>2. QED
      BY <1>3, <2>1, <3>1
  <2>2. CASE w \notin S
    <3>1. S = others
      BY <1>4, <2>2
    <3>2. QED
      BY <1>2, <2>2, <3>1
  <2>3. QED
    BY <2>1, <2>2
<1>5. Cardinality(Unreported(j)) = Cardinality(others) + Due(w, j)
  BY <1>4 DEF Due
<1>6. IsFiniteSet(Unreported(j)') /\ Cardinality(Unreported(j)') = Cardinality(others) + Due(w, j)'
  BY <1>1, <1>4 DEF Due
<1>7. QED
  BY <1>2, <1>5, <1>6 DEF Due

Paid(j) == Countable(j) /\ received[j] <= Attempts * Spent(j)

LEMMA SpentIsInt ==
  ASSUME IInv, NEW j \in Job, Countable(j)
  PROVE  /\ Spent(j) \in Int /\ losses \in Nat
         /\ Cardinality(WaitingCopies(j)) \in Nat
         /\ Cardinality(Unreported(j)) \in Nat
BY BrokerAssumption, FS_CardinalityType DEF IInv, TypeOK, BrokerTypeOK, Countable, Spent

(* More callbacks may be paid for than are received. *)
LEMMA PayMore ==
  ASSUME NEW a \in Nat, NEW x \in Int, NEW y \in Int, NEW k \in 0..1, x + k <= y
  PROVE  a * x + a * k <= a * y
<1>1. PICK d \in Nat : y = x + k + d
  <2>1. y - (x + k) \in Nat /\ y = x + k + (y - (x + k))
    OBVIOUS
  <2>2. QED
    BY <2>1
<1>2. a * y = a * x + a * k + a * d
  BY <1>1
<1>3. a * d \in Nat
  BY <1>1
<1>4. QED
  BY <1>2, <1>3

(* The balance of one step of consumer w: k is 1 if it sends a callback.   *)
LEMMA Balance ==
  ASSUME IInv, IInv', NEW w \in Consumer, NEW j \in Job, Paid(j),
         \A v \in Consumer \ {w} :
           holds'[v] = holds[v] /\ phase'[v] = phase[v] /\ task'[v] = task[v],
         submitted' = submitted,
         NEW waits \in Int,
         IsFiniteSet(WaitingCopies(j)'),
         Cardinality(WaitingCopies(j)') = Cardinality(WaitingCopies(j)) + waits,
         NEW k \in 0..1,
         received'[j] <= received[j] + Attempts * k,
         waits + Due(w, j)' + k <= Due(w, j) + (losses' - losses)
  PROVE  Paid(j)'
<1>1. /\ Countable(j)'
      /\ Cardinality(Unreported(j)') + Due(w, j) = Cardinality(Unreported(j)) + Due(w, j)'
  BY UnreportedCount DEF Paid, Countable
<1>2. /\ Spent(j) \in Int /\ losses \in Nat
      /\ Cardinality(WaitingCopies(j)) \in Nat /\ Cardinality(Unreported(j)) \in Nat
  BY SpentIsInt DEF Paid
<1>3. /\ Spent(j)' \in Int /\ losses' \in Nat
      /\ Cardinality(WaitingCopies(j)') \in Nat /\ Cardinality(Unreported(j)') \in Nat
  <2>1. IsFiniteSet(WaitingCopies(j)') /\ IsFiniteSet(Unreported(j)')
    BY <1>1 DEF Countable
  <2>2. Cardinality(WaitingCopies(j)') \in Nat /\ Cardinality(Unreported(j)') \in Nat
    BY <2>1, FS_CardinalityType
  <2>3. losses' \in Nat
    BY BrokerAssumption DEF IInv, TypeOK, BrokerTypeOK
  <2>4. QED
    BY <2>2, <2>3 DEF Spent
<1>4. Due(w, j) \in 0..1 /\ Due(w, j)' \in 0..1
  BY DEF Due
<1>5. Spent(j) + k <= Spent(j)'
  BY <1>1, <1>2, <1>3, <1>4 DEF Spent
<1>6. Attempts * Spent(j) + Attempts * k <= Attempts * Spent(j)'
  BY <1>2, <1>3, <1>5, PayMore, EdgeAssumption
<1>7. /\ received[j] \in Nat /\ received'[j] \in Nat
      /\ Attempts * Spent(j) \in Int /\ Attempts * k \in Int /\ Attempts * Spent(j)' \in Int
  BY <1>2, <1>3, EdgeAssumption DEF IInv, TypeOK
<1>8. received[j] <= Attempts * Spent(j)
  BY DEF Paid
<1>9. received'[j] <= Attempts * Spent(j)'
  <2> DEFINE p == Attempts * Spent(j)
             q == Attempts * k
             r == Attempts * Spent(j)'
             a == received[j]
             b == received'[j]
  <2>1. /\ a \in Int /\ b \in Int /\ p \in Int /\ q \in Int /\ r \in Int
        /\ a <= p /\ b <= a + q /\ p + q <= r
    BY <1>6, <1>7, <1>8
  <2> HIDE DEF p, q, r, a, b
  <2>2. b <= r
    BY <2>1
  <2>3. QED
    BY <2>2 DEF b, r
<1>10. QED
  BY <1>1, <1>9 DEF Paid

(* A step that sends no callback. *)
LEMMA QuietBalance ==
  ASSUME IInv, IInv', NEW w \in Consumer, NEW j \in Job, Paid(j),
         \A v \in Consumer \ {w} :
           holds'[v] = holds[v] /\ phase'[v] = phase[v] /\ task'[v] = task[v],
         UNCHANGED <<submitted, received>>,
         NEW waits \in Int,
         IsFiniteSet(WaitingCopies(j)'),
         Cardinality(WaitingCopies(j)') = Cardinality(WaitingCopies(j)) + waits,
         waits + Due(w, j)' <= Due(w, j) + (losses' - losses)
  PROVE  Paid(j)'
<1>1. received'[j] <= received[j] + Attempts * 0
  BY EdgeAssumption DEF IInv, TypeOK
<1>2. losses \in Nat /\ losses' \in Nat /\ Due(w, j) \in 0..1 /\ Due(w, j)' \in 0..1
  BY BrokerAssumption DEF IInv, TypeOK, BrokerTypeOK, Due
<1>3. waits + Due(w, j)' + 0 <= Due(w, j) + (losses' - losses)
  BY <1>2
<1>4. 0 \in 0..1
  OBVIOUS
<1>5. QED
  BY <1>1, <1>3, <1>4, Balance

LEMMA SubmitPaid ==
  ASSUME IInv, IInv', NEW i \in Job, Submit(i), UNCHANGED <<task, received, silenced>>,
         NEW j \in Job, Paid(j)
  PROVE  Paid(j)'
<1> USE DEF IInv
<1>1. /\ "ingress" \in WorkQueue /\ 0 \in 0..RetryLimit
      /\ Publish("ingress", i, 0)
      /\ i \notin submitted /\ submitted' = submitted \cup {i}
      /\ UNCHANGED <<holds, phase, losses>>
  BY BrokerAssumption DEF Submit, WorkQueue
<1>2. /\ IsFiniteSet(WaitingCopies(j)')
      /\ Cardinality(WaitingCopies(j)') =
           Cardinality(WaitingCopies(j)) + (IF i = j THEN 1 ELSE 0)
  BY <1>1, PublishCopies DEF Paid, Countable
<1>3. Unreported(j)' = Unreported(j)
  BY <1>1 DEF Unreported, Holding, JobOf
<1>4. /\ losses \in Nat
      /\ Cardinality(WaitingCopies(j)) \in Nat /\ Cardinality(Unreported(j)) \in Nat
  BY SpentIsInt DEF Paid
<1>5. Spent(j)' = Spent(j)
  <2>1. CASE i = j
    <3>1. j \notin submitted /\ j \in submitted'
      BY <1>1, <2>1
    <3>2. Cardinality(WaitingCopies(j)') = Cardinality(WaitingCopies(j)) + 1
      BY <1>2, <2>1
    <3>3. QED
      BY <1>1, <1>3, <1>4, <3>1, <3>2 DEF Spent
  <2>2. CASE i # j
    <3>1. j \in submitted <=> j \in submitted'
      BY <1>1, <2>2
    <3>2. Cardinality(WaitingCopies(j)') = Cardinality(WaitingCopies(j))
      BY <1>2, <1>4, <2>2
    <3>3. QED
      BY <1>1, <1>3, <3>1, <3>2 DEF Spent
  <2>3. QED
    BY <2>1, <2>2
<1>6. QED
  BY <1>2, <1>3, <1>5 DEF Paid, Countable

(* Connections come and go: a lost one returns its message.                *)
LEMMA LinkPaid ==
  ASSUME IInv, IInv', NEW w \in Consumer, Reconnect(w) \/ LoseLink(w),
         UNCHANGED <<task, received, silenced>>, NEW j \in Job, Paid(j)
  PROVE  Paid(j)'
<1> USE DEF IInv
<1>1. /\ \A v \in Consumer \ {w} :
           holds'[v] = holds[v] /\ phase'[v] = phase[v] /\ task'[v] = task[v]
      /\ submitted' = submitted
  BY DEF Reconnect, LoseLink, Cut, GoOn, TypeOK, BrokerTypeOK
<1>2. losses \in Nat /\ IsFiniteSet(WaitingCopies(j))
  BY SpentIsInt DEF Paid, Countable
<1>3. CASE Reconnect(w)
  <2>1. ready' = ready /\ losses' = losses
    BY <1>3 DEF Reconnect
  <2>2. Due(w, j) = 0 /\ Due(w, j)' = 0
    BY <1>3 DEF Reconnect, GoOn, Due, Unreported, TypeOK
  <2>3. QED
    BY <1>1, <1>2, <2>1, <2>2, CopiesSame, QuietBalance
<1>4. CASE LoseLink(w)
  <2>1. losses' = losses + 1 /\ holds'[w] = NoMessage /\ phase'[w] \in {phase[w], "closed"}
    BY <1>4 DEF LoseLink, Cut, GoOn, TypeOK, BrokerTypeOK
  <2>2. Due(w, j) \in 0..1 /\ Due(w, j)' \in 0..1 /\ Due(w, j)' <= Due(w, j)
    BY <2>1 DEF Due, Unreported, Holding
  <2>3. CASE ~Holding(w)
    <3>1. ready' = ready
      BY <1>4, <2>3 DEF LoseLink, Cut
    <3>2. 0 + Due(w, j)' <= Due(w, j) + (losses' - losses)
      BY <1>2, <2>1, <2>2
    <3>3. QED
      BY <1>1, <1>2, <3>1, <3>2, CopiesSame, QuietBalance
  <2>4. CASE Holding(w)
    <3>1. holds[w] \in Message /\ ready' = [ready EXCEPT ![holds[w]] = @ + 1]
      BY <1>4, <2>4, HeldMessage DEF LoseLink, Cut
    <3>2. /\ IsFiniteSet(WaitingCopies(j)')
          /\ Cardinality(WaitingCopies(j)') =
               Cardinality(WaitingCopies(j)) + (IF holds[w].job = j THEN 1 ELSE 0)
      BY <1>2, <3>1, CopiesGrow DEF TypeOK, BrokerTypeOK
    <3>3. (IF holds[w].job = j THEN 1 ELSE 0) + Due(w, j)' <= Due(w, j) + (losses' - losses)
      BY <1>2, <2>1, <2>2
    <3>4. QED
      BY <1>1, <3>2, <3>3, QuietBalance
  <2>5. QED
    BY <2>3, <2>4
<1>5. QED
  BY <1>3, <1>4

(* The dispatcher passes its one message on, returns it or drops it.       *)
LEMMA DispatchPaid ==
  ASSUME IInv, IInv', NEW w \in Consumer, Dispatch(w),
         UNCHANGED <<task, received, silenced>>, NEW j \in Job, Paid(j)
  PROVE  Paid(j)'
<1> USE BrokerAssumption DEF IInv
<1>1. linked[w] /\ phase[w] \in {"received", "forwarded"} /\ Subscription[w] = "ingress"
  BY DEF Dispatch, DropMalformed, Forward, DispatchRaises, AckForwarded, Dispatching, Handlers
<1>2. Holding(w) /\ holds[w] \in Message /\ JobOf(w) \in Job
  BY <1>1, BusyHolds, HeldMessage
<1>3. /\ \A v \in Consumer \ {w} :
           holds'[v] = holds[v] /\ phase'[v] = phase[v] /\ task'[v] = task[v]
      /\ UNCHANGED <<submitted, losses>> /\ phase'[w] \in {"idle", "forwarded"}
  BY <1>1 DEF Dispatch, DropMalformed, Forward, DispatchRaises, AckForwarded,
         Ack, DeadLetter, Requeue, Release, GoOn, TypeOK, BrokerTypeOK
<1>4. losses \in Nat /\ IsFiniteSet(WaitingCopies(j))
  BY SpentIsInt DEF Paid, Countable
<1>5. /\ Due(w, j)' = 0 /\ Due(w, j) \in 0..1
      /\ phase[w] = "received" => Due(w, j) = IF JobOf(w) = j THEN 1 ELSE 0
  BY <1>1, <1>2, <1>3 DEF Due, Unreported
<1>6. CASE DropMalformed(w) \/ AckForwarded(w)
  <2>1. ready' = ready
    BY <1>6 DEF DropMalformed, AckForwarded, Ack, DeadLetter
  <2>2. 0 + Due(w, j)' <= Due(w, j) + (losses' - losses)
    BY <1>3, <1>4, <1>5
  <2>3. QED
    BY <1>3, <1>4, <2>1, <2>2, CopiesSame, QuietBalance
<1>7. CASE Forward(w) \/ DispatchRaises(w)
  <2>1. phase[w] = "received"
    BY <1>7 DEF Forward, DispatchRaises, Dispatching
  <2>2. /\ IsFiniteSet(WaitingCopies(j)')
        /\ Cardinality(WaitingCopies(j)') =
             Cardinality(WaitingCopies(j)) + (IF JobOf(w) = j THEN 1 ELSE 0)
    <3>1. CASE Forward(w)
      <4>1. Media[JobOf(w)] \in WorkQueue /\ holds[w].retry \in 0..RetryLimit
        BY <1>2, HeldMessage DEF WorkQueue
      <4>2. Publish(Media[JobOf(w)], JobOf(w), holds[w].retry)
        BY <3>1 DEF Forward
      <4>3. QED
        BY <1>2, <1>4, <4>1, <4>2, PublishCopies
    <3>2. CASE DispatchRaises(w)
      <4>1. ready' = [ready EXCEPT ![holds[w]] = @ + 1] /\ ready \in [Message -> Nat]
        BY <3>2 DEF DispatchRaises, Requeue, TypeOK, BrokerTypeOK
      <4>2. QED
        BY <1>2, <1>4, <4>1, CopiesGrow DEF JobOf
    <3>3. QED
      BY <1>7, <3>1, <3>2
  <2>3. (IF JobOf(w) = j THEN 1 ELSE 0) + Due(w, j)' <= Due(w, j) + (losses' - losses)
    BY <1>3, <1>4, <1>5, <2>1
  <2>4. QED
    BY <1>3, <2>2, <2>3, QuietBalance
<1>8. QED
  BY <1>6, <1>7 DEF Dispatch

(* A message that waited becomes its taker's. *)
LEMMA TakePaid ==
  ASSUME IInv, IInv', NEW w \in Consumer, TakeJob(w), NEW j \in Job, Paid(j)
  PROVE  Paid(j)'
<1> USE BrokerAssumption, EdgeAssumption DEF IInv
<1>1. PICK m \in Message : /\ ready[m] > 0
                           /\ ready' = [ready EXCEPT ![m] = @ - 1]
                           /\ holds' = [holds EXCEPT ![w] = m]
  BY DEF TakeJob, Deliver
<1>2. /\ \A v \in Consumer \ {w} :
           holds'[v] = holds[v] /\ phase'[v] = phase[v] /\ task'[v] = task[v]
      /\ UNCHANGED <<submitted, received, losses>>
      /\ phase[w] = "idle" /\ phase'[w] = "received" /\ holds'[w] = m /\ m # NoMessage
      /\ Subscription[w] # "ingress" => task'[w] = m.job
  BY <1>1 DEF TakeJob, Deliver, GoOn, TypeOK, BrokerTypeOK
<1>3. losses \in Nat /\ IsFiniteSet(WaitingCopies(j)) /\ ready \in [Message -> Nat]
  BY SpentIsInt DEF Paid, Countable, TypeOK, BrokerTypeOK
<1>4. /\ IsFiniteSet(WaitingCopies(j)')
      /\ Cardinality(WaitingCopies(j)') =
           Cardinality(WaitingCopies(j)) - (IF m.job = j THEN 1 ELSE 0)
  BY <1>1, <1>3, CopiesShrink
<1>5. Due(w, j) = 0 /\ Due(w, j)' = IF m.job = j THEN 1 ELSE 0
  BY <1>2 DEF Due, Unreported, Holding, JobOf
<1>6. Cardinality(WaitingCopies(j)) \in Nat
  BY <1>3, FS_CardinalityType
<1>7. PICK waits \in Int : waits = 0 - (IF m.job = j THEN 1 ELSE 0)
  OBVIOUS
<1>8. /\ Cardinality(WaitingCopies(j)') = Cardinality(WaitingCopies(j)) + waits
      /\ waits + Due(w, j)' <= Due(w, j) + (losses' - losses)
  BY <1>2, <1>3, <1>4, <1>5, <1>6, <1>7
<1>9. QED
  BY <1>2, <1>4, <1>8, QuietBalance

(* A worker sends at most one callback, of at most Attempts posts, for the *)
(* request it has in memory.                                               *)
LEMMA ProceedsPaid ==
  ASSUME IInv, IInv', NEW w \in Consumer, Proceeds(w), NEW j \in Job, Paid(j)
  PROVE  Paid(j)'
<1> USE EdgeAssumption DEF IInv
<1>1. /\ Subscription[w] # "ingress" /\ phase[w] \in {"received", "success", "failure"}
      /\ UNCHANGED <<submitted, ready, dead, linked, holds, losses>> /\ task' = task
      /\ \A v \in Consumer \ {w} :
           holds'[v] = holds[v] /\ phase'[v] = phase[v] /\ task'[v] = task[v]
  BY ProceedsTo DEF Stay
<1>2. losses \in Nat /\ losses' = losses /\ IsFiniteSet(WaitingCopies(j))
  BY <1>1, SpentIsInt DEF Paid, Countable
<1>3. /\ IsFiniteSet(WaitingCopies(j)')
      /\ Cardinality(WaitingCopies(j)') = Cardinality(WaitingCopies(j)) + 0
  BY <1>1, <1>2, CopiesSame
<1>4. /\ task[w] \in Job /\ Due(w, j) = IF task[w] = j THEN 1 ELSE 0
      /\ Due(w, j)' \in 0..1 /\ (task[w] # j => Due(w, j)' = 0)
  BY <1>1, TaskAtHand DEF Due, Unreported
<1>5. CASE RejectJob(w) \/ Analyze(w)
  <2>1. received' = received
    BY <1>5 DEF RejectJob, Analyze
  <2>2. 0 + Due(w, j)' <= Due(w, j) + (losses' - losses)
    BY <1>2, <1>4
  <2>3. QED
    BY <1>1, <1>3, <2>1, <2>2, QuietBalance
<1>6. CASE CallbackDelivered(w) \/ CallbackFails(w)
  <2>1. PICK n \in 0..Attempts : Reported(w, n)
    BY <1>6 DEF CallbackDelivered, CallbackFails
  <2>2. /\ received[j] \in Nat /\ n \in Nat /\ n <= Attempts
        /\ received'[j] = received[j] + (IF task[w] = j THEN n ELSE 0)
    BY <1>4, <2>1, ReportedType DEF TypeOK
  <2>3. phase'[w] \in {"called", "refused"}
    BY <1>6 DEF CallbackDelivered, CallbackFails, GoOn, TypeOK
  <2>4. Due(w, j)' = 0
    BY <1>1, <2>3 DEF Due, Unreported
  <2>5. PICK k \in 0..1 : k = IF task[w] = j THEN 1 ELSE 0
    OBVIOUS
  <2>6. received'[j] <= received[j] + Attempts * k
    <3>1. CASE task[w] = j
      BY <2>2, <2>5, <3>1
    <3>2. CASE task[w] # j
      BY <2>2, <2>5, <3>2
    <3>3. QED
      BY <3>1, <3>2
  <2>7. 0 + Due(w, j)' + k <= Due(w, j) + (losses' - losses)
    BY <1>2, <1>4, <2>4, <2>5
  <2>8. QED
    BY <1>1, <1>3, <2>6, <2>7, Balance
<1>7. QED
  BY <1>5, <1>6 DEF Proceeds

LEMMA EndPaid ==
  ASSUME IInv, IInv', NEW w \in Consumer, AckCalled(w) \/ RefuseJob(w) \/ Escape(w),
         NEW j \in Job, Paid(j)
  PROVE  Paid(j)'
<1> USE DEF IInv
<1>1. /\ \A v \in Consumer \ {w} :
           holds'[v] = holds[v] /\ phase'[v] = phase[v] /\ task'[v] = task[v]
      /\ UNCHANGED <<submitted, ready, received, losses>>
      /\ phase'[w] \in {"idle", "closed"}
  BY DEF AckCalled, RefuseJob, Escape, Forget, HandlerEscapes, Ack, DeadLetter, Release,
         GoOn, TypeOK, BrokerTypeOK
<1>2. losses \in Nat /\ IsFiniteSet(WaitingCopies(j))
  BY SpentIsInt DEF Paid, Countable
<1>3. Due(w, j) \in 0..1 /\ Due(w, j)' = 0
  BY <1>1 DEF Due, Unreported
<1>4. 0 + Due(w, j)' <= Due(w, j) + (losses' - losses)
  BY <1>1, <1>2, <1>3
<1>5. QED
  BY <1>1, <1>2, <1>4, CopiesSame, QuietBalance

LEMMA InitPaid == Init => \A j \in Job : Paid(j)
<1> SUFFICES ASSUME Init, NEW j \in Job
             PROVE  Paid(j)
  OBVIOUS
<1>1. WaitingCopies(j) = {}
  <2>1. \A m \in Message : ready[m] = 0
    BY DEF Init, BrokerInit
  <2>2. \A c : c \notin WaitingCopies(j)
    BY <2>1, CopyMembership
  <2>3. QED
    BY <2>2
<1>2. Unreported(j) = {}
  BY DEF Init, BrokerInit, Unreported
<1>3. Cardinality({}) = 0 /\ IsFiniteSet({})
  BY FS_EmptySet
<1>4. Spent(j) = 0
  BY <1>1, <1>2, <1>3 DEF Spent, Init, BrokerInit
<1>5. QED
  BY <1>1, <1>2, <1>3, <1>4, EdgeAssumption DEF Paid, Countable, Init

(* CallbacksBoundedByLosses: the backend processes at most Attempts posts  *)
(* for the submission of a job, and as many for each lost connection.      *)
THEOREM EdgeCallbacksBoundedByLosses == Spec => []CallbacksBoundedByLosses
<1>1. Init => CallbacksPaid
  BY InitPaid DEF CallbacksPaid, Paid
<1>2. IInv /\ CallbacksPaid /\ [Next]_vars => IInv' /\ CallbacksPaid'
  <2> SUFFICES ASSUME IInv, CallbacksPaid, [Next]_vars, NEW j \in Job
               PROVE  Paid(j)'
    BY NextIInv DEF CallbacksPaid, Paid
  <2>1. IInv' /\ Paid(j)
    BY NextIInv DEF CallbacksPaid, Paid
  <2>2. CASE Transport
    BY <2>1, <2>2, SubmitPaid, LinkPaid, DispatchPaid DEF Transport
  <2>3. ASSUME NEW w \in Consumer, TakeJob(w) \/ OnMessage(w)
        PROVE  Paid(j)'
    BY <2>1, <2>3, TakePaid, ProceedsPaid, EndPaid DEF OnMessage, Proceeds
  <2>4. CASE UNCHANGED vars
    BY <2>1, <2>4
       DEF vars, Paid, Countable, Spent, WaitingCopies, Unreported, Holding, JobOf
  <2>5. QED
    BY <2>2, <2>3, <2>4 DEF Next
<1>3. IInv /\ CallbacksPaid => CallbacksBoundedByLosses
  <2> SUFFICES ASSUME IInv, CallbacksPaid, NEW j \in Job
               PROVE  received[j] <= Attempts * (1 + losses)
    BY DEF CallbacksBoundedByLosses
  <2>1. Paid(j)
    BY DEF CallbacksPaid, Paid
  <2>2. Spent(j) \in Int /\ losses \in Nat /\ Spent(j) <= 1 + losses
    BY <2>1, SpentIsInt DEF Paid, Spent
  <2>3. Attempts * Spent(j) + Attempts * 0 <= Attempts * (1 + losses)
    BY <2>2, PayMore, EdgeAssumption
  <2>4. /\ received[j] \in Nat /\ received[j] <= Attempts * Spent(j)
        /\ Attempts * Spent(j) \in Int /\ Attempts * (1 + losses) \in Int
    BY <2>1, <2>2, EdgeAssumption DEF IInv, TypeOK, Paid
  <2>5. QED
    BY <2>3, <2>4, EdgeAssumption
<1>4. QED
  BY <1>1, <1>2, <1>3, InitIInv, PTL DEF Spec

-------------------------------------------------------------------------------
(***************************************************************************)
(* send_callback, for any number of retries: what EdgePipeline takes as    *)
(* one step.  That a call ends is left to model checking.                  *)
(***************************************************************************)
(* The answer the call waits for has been given. *)
AnsweredIsProcessed == post = "processed" => processed > 0

CallIInv == CallTypeOK /\ PostsAccounted /\ AnsweredIsProcessed

LEMMA CallInitIInv == CallInit => CallIInv
  BY CallbackAssumption
     DEF CallInit, CallIInv, CallTypeOK, Stage, PostsAccounted, AnsweredIsProcessed, CallbackAssumption

LEMMA SendCallbackPreserves ==
  ASSUME CallIInv, SendCallback
  PROVE  CallIInv'
<1> USE CallbackAssumption DEF CallbackAssumption, CallIInv, CallTypeOK, Stage, PostsAccounted,
                               AnsweredIsProcessed
<1>1. CASE CheckUrl
  BY <1>1 DEF CheckUrl
<1>2. CASE Post
  BY <1>2 DEF Post
<1>3. CASE Accepted
  BY <1>3 DEF Accepted, Finish
<1>4. CASE Rejected
  BY <1>4 DEF Rejected, Finish
<1>5. CASE RetryableStatus
  BY <1>5 DEF RetryableStatus, TryAgain
<1>6. CASE NoAnswer
  BY <1>6 DEF NoAnswer, TryAgain
<1> QED
  BY <1>1, <1>2, <1>3, <1>4, <1>5, <1>6 DEF SendCallback

(* The bound on the loop is a bound on what the backend processes. *)
LEMMA BackendPreserves ==
  ASSUME CallIInv, BackendProcesses \/ PostVanishes
  PROVE  CallIInv'
<1> USE CallbackAssumption DEF CallbackAssumption, CallIInv, CallTypeOK, Stage, PostsAccounted,
                               AnsweredIsProcessed
<1>1. CASE BackendProcesses
  BY <1>1 DEF BackendProcesses
<1>2. CASE PostVanishes
  BY <1>2 DEF PostVanishes
<1> QED
  BY <1>1, <1>2

LEMMA CallNextIInv == CallIInv /\ [CallNext]_callVars => CallIInv'
<1> SUFFICES ASSUME CallIInv, [CallNext]_callVars PROVE CallIInv'
  OBVIOUS
<1>1. CASE UNCHANGED callVars
  BY <1>1 DEF callVars, CallIInv, CallTypeOK, PostsAccounted, AnsweredIsProcessed
<1> QED
  BY <1>1, SendCallbackPreserves, BackendPreserves DEF CallNext

LEMMA CallSpecIInv == CallSpec => []CallIInv
<1>1. CallInit => CallIInv
  BY CallInitIInv
<1>2. CallIInv /\ [CallNext]_callVars => CallIInv'
  BY CallNextIInv
<1> QED
  BY <1>1, <1>2, PTL DEF CallSpec

(* The variables of a call have their types: the loop makes no more than   *)
(* MaxRetries + 1 turns (callback_service.py:90-181).                      *)
THEOREM CallbackTypeCorrect == CallSpec => []CallTypeOK
<1>1. CallIInv => CallTypeOK
  BY DEF CallIInv
<1> QED
  BY <1>1, CallSpecIInv, PTL

(* What the backend processed, may still process, and the current post are *)
(* together at most the turns of the loop (callback_service.py:90-176).    *)
THEOREM CallbackPostsAccounted == CallSpec => []PostsAccounted
<1>1. CallIInv => PostsAccounted
  BY DEF CallIInv
<1> QED
  BY <1>1, CallSpecIInv, PTL

-------------------------------------------------------------------------------
(* The contract *)

LEMMA StepKeepsContract ==
  ASSUME CallIInv, CallNext
  PROVE  \/ Contract!ContractNext
         \/ UNCHANGED <<IF Over THEN stage ELSE "pending", processed>>
<1> USE CallbackAssumption DEF CallbackAssumption, CallIInv, CallTypeOK, Stage, Over
<1>1. CASE CheckUrl
  BY <1>1 DEF CheckUrl, Contract!ContractNext, Contract!End, Contract!Raise
<1>2. CASE Post
  BY <1>2 DEF Post
<1>3. CASE Accepted
  <2>1. stage = "posted" /\ stage' = "returned" /\ processed > 0 /\ processed' = processed
    BY <1>3 DEF Accepted, Finish, AnsweredIsProcessed
  <2> QED
    BY <2>1 DEF Contract!ContractNext, Contract!End, Contract!Return
<1>4. CASE Rejected
  BY <1>4 DEF Rejected, Finish, Contract!ContractNext, Contract!End, Contract!Raise
<1>5. CASE RetryableStatus \/ NoAnswer
  <2>1. stage = "posted" /\ stage' \in {"attempting", "raised"} /\ processed' = processed
    BY <1>5 DEF RetryableStatus, NoAnswer, TryAgain
  <2> QED
    BY <2>1 DEF Contract!ContractNext, Contract!End, Contract!Raise
<1>6. CASE BackendProcesses
  <2>1. stage' = stage /\ processed' = processed + 1
    BY <1>6 DEF BackendProcesses
  <2>2. processed < MaxRetries + 1
    BY <1>6 DEF BackendProcesses, PostsAccounted
  <2> QED
    BY <2>1, <2>2 DEF Contract!ContractNext, Contract!Process
<1>7. CASE PostVanishes
  BY <1>7 DEF PostVanishes
<1> QED
  BY <1>1, <1>2, <1>3, <1>4, <1>5, <1>6, <1>7 DEF CallNext, SendCallback

(* send_callback returns only after the backend processed the result, its  *)
(* verdict is final, and the backend processes at most MaxRetries + 1      *)
(* posts: the contract without the promise that a call ends                *)
(* (callback_service.py:90-181).                                           *)
THEOREM CallbackKeepsContractSafely ==
  CallSpec => /\ Contract!ContractInit
          /\ [][Contract!ContractNext]_<<IF Over THEN stage ELSE "pending", processed>>
<1>1. CallInit => Contract!ContractInit
  BY DEF CallInit, Contract!ContractInit, Over
<1>2. CallIInv /\ [CallNext]_callVars
        => [Contract!ContractNext]_<<IF Over THEN stage ELSE "pending", processed>>
  <2> SUFFICES ASSUME CallIInv, [CallNext]_callVars
               PROVE  \/ Contract!ContractNext
                      \/ UNCHANGED <<IF Over THEN stage ELSE "pending", processed>>
    OBVIOUS
  <2>1. CASE UNCHANGED callVars
    BY <2>1 DEF callVars, Over
  <2> QED
    BY <2>1, StepKeepsContract
<1> QED
  BY <1>1, <1>2, CallSpecIInv, PTL DEF CallSpec

(* What EdgePipeline builds on when it takes a call as one step, with      *)
(* Attempts for MaxRetries + 1: however the call ended, the backend has    *)
(* processed and may still process no more posts than that, and at least   *)
(* one if the call returned (edge_raspberry/app/consumer.py:151, 216).     *)
ReportOfCall ==
  Over => /\ processed + orphans \in 0..(MaxRetries + 1)
          /\ stage = "returned" => processed >= 1

THEOREM CallbackReportsAsEdgeAssumes == CallSpec => []ReportOfCall
<1> DEFINE Returned == stage = "returned" => processed >= 1
<1>1. CallInit => Returned
  BY DEF CallInit
<1>2. ASSUME CallIInv, Returned, [CallNext]_callVars PROVE Returned'
  <2> USE CallbackAssumption DEF CallbackAssumption, CallIInv, CallTypeOK, Stage
  <2>1. CASE Accepted
    BY <1>2, <2>1 DEF Accepted, Finish, AnsweredIsProcessed
  <2>2. CASE CheckUrl \/ Post \/ Rejected \/ RetryableStatus \/ NoAnswer
    BY <2>2 DEF CheckUrl, Post, Rejected, Finish, RetryableStatus, NoAnswer, TryAgain
  <2>3. CASE BackendProcesses \/ PostVanishes \/ UNCHANGED callVars
    BY <1>2, <2>3 DEF BackendProcesses, PostVanishes, callVars
  <2> QED
    BY <1>2, <2>1, <2>2, <2>3 DEF CallNext, SendCallback
<1>3. CallIInv /\ Returned => ReportOfCall
  BY CallbackAssumption
     DEF CallbackAssumption, CallIInv, CallTypeOK, PostsAccounted, ReportOfCall, Over
<1> QED
  BY <1>1, <1>2, <1>3, CallSpecIInv, PTL DEF CallSpec
=============================================================================
