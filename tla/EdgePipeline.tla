---------------------------- MODULE EdgePipeline ----------------------------
(***************************************************************************)
(* The edge runtime: the same plumbing as the server, with workers that    *)
(* report to the backend by an HTTP callback instead of a result event.    *)
(* Source: edge_raspberry/app/consumer.py                                  *)
(*                                                                         *)
(* The callback does not go through the broker, so a handler whose         *)
(* connection was lost still analyzes and reports its job; it notices the  *)
(* loss when it acks.  Phases of a worker:                                 *)
(*   received          on_message has started                              *)
(*   success, failure  the callback with that result is being sent         *)
(*   called            the callback is over, the ack is to come            *)
(*   refused           the nack without requeue is to come                 *)
(***************************************************************************)
EXTENDS MediaBroker

CONSTANTS Attempts,  \* posts one send_callback makes at most (max_retries + 1)
          NoJob

ASSUME EdgeAssumption ==
  /\ Attempts \in Nat \ {0}
  /\ NoJob \notin Job

VARIABLES task,      \* the request a worker's handler has in memory
          received,  \* callbacks the backend has processed, per job
          silenced   \* jobs whose failure callback failed and was given up

vars == <<submitted, ready, dead, linked, holds, phase, losses,
          task, received, silenced>>

Phase == {"closed", "idle", "received", "forwarded",
          "success", "failure", "called", "refused"}

TypeOK ==
  /\ BrokerTypeOK
  /\ Sessions
  /\ phase \in [Consumer -> Phase]
  /\ task \in [Consumer -> Job \cup {NoJob}]
  /\ received \in [Job -> Nat]
  /\ silenced \subseteq Job
  /\ \A w \in Consumer :
       linked[w] /\ task[w] # NoJob => Holding(w) /\ task[w] = JobOf(w)

Init ==
  /\ BrokerInit
  /\ task = [w \in Consumer |-> NoJob]
  /\ received = [j \in Job |-> 0]
  /\ silenced = {}

(***************************************************************************)
(* on_message                                                              *)
(***************************************************************************)
Working(w, p) == Subscription[w] # "ingress" /\ phase[w] = p
Stay == UNCHANGED <<submitted, ready, dead, linked, holds, losses>>
Forget(w) == task' = [task EXCEPT ![w] = NoJob]

TakeJob(w) ==
  /\ Deliver(w)
  /\ task' = IF Subscription[w] = "ingress" THEN task
             ELSE [task EXCEPT ![w] = holds'[w].job]
  /\ UNCHANGED <<received, silenced>>

(* Bad JSON, a refused request, the other runtime's job. *)
RejectJob(w) ==
  /\ Working(w, "received")
  /\ Kind[task[w]] # "valid"
  /\ GoOn(w, "refused")
  /\ Stay /\ UNCHANGED <<task, received, silenced>>

(* Download and inference give a result or an error to report; any other   *)
(* exception goes to the outer handler.                                    *)
Analyze(w) ==
  /\ Working(w, "received")
  /\ Kind[task[w]] = "valid"
  /\ \E p \in {"success", "failure", "refused"} : GoOn(w, p)
  /\ Stay /\ UNCHANGED <<task, received, silenced>>

Reported(w, n) == received' = [received EXCEPT ![task[w]] = @ + n]

(* send_callback returns: the backend answered one of the posts with a     *)
(* success status, and may have processed earlier ones that timed out.     *)
CallbackDelivered(w) ==
  /\ Working(w, "success") \/ Working(w, "failure")
  /\ \E n \in 1..Attempts : Reported(w, n)
  /\ GoOn(w, "called")
  /\ Stay /\ UNCHANGED <<task, silenced>>

(* Mutant: a success whose callback failed is acknowledged, too. *)
CallbackFailsQuietly(w) ==
  /\ \/ /\ Working(w, "success")
        /\ UNCHANGED silenced
     \/ /\ Working(w, "failure")
        /\ silenced' = silenced \cup {task[w]}
  /\ GoOn(w, "called")
  /\ \E n \in 0..Attempts : Reported(w, n)
  /\ Stay /\ UNCHANGED task

(* send_callback raises CallbackError; posts that timed out may have been  *)
(* processed all the same.  A success is refused; _send_failure_callback   *)
(* swallows the error, and the message is acknowledged.                    *)
CallbackFails(w) ==
  /\ \/ /\ Working(w, "success")
        /\ GoOn(w, "refused")
        /\ UNCHANGED silenced
     \/ /\ Working(w, "failure")
        /\ GoOn(w, "called")
        /\ silenced' = silenced \cup {task[w]}
  /\ \E n \in 0..Attempts : Reported(w, n)
  /\ Stay /\ UNCHANGED task

(* Mutant: the request outlives its acknowledgement. *)
AckAndKeep(w) ==
  /\ Working(w, "called") /\ linked[w]
  /\ Ack(w)
  /\ UNCHANGED <<task, received, silenced>>

AckCalled(w) ==
  /\ Working(w, "called") /\ linked[w]
  /\ Ack(w) /\ Forget(w)
  /\ UNCHANGED <<received, silenced>>

(* Mutant: nack with requeue. *)
ReturnJob(w) ==
  /\ Working(w, "refused") /\ linked[w]
  /\ Requeue(w) /\ Forget(w)
  /\ UNCHANGED <<received, silenced>>

RefuseJob(w) ==
  /\ Working(w, "refused") /\ linked[w]
  /\ DeadLetter(w) /\ Forget(w)
  /\ UNCHANGED <<received, silenced>>

(* Without a link the final ack or nack raises; a dispatcher's next        *)
(* operation does.                                                         *)
Escape(w) ==
  /\ phase[w] \in {"called", "refused"} \/ Subscription[w] = "ingress"
  /\ HandlerEscapes(w) /\ Forget(w)
  /\ UNCHANGED <<received, silenced>>

OnMessage(w) ==
  \/ RejectJob(w) \/ Analyze(w)
  \/ CallbackDelivered(w) \/ CallbackFails(w)
  \/ AckCalled(w) \/ RefuseJob(w) \/ Escape(w)

Transport ==
  /\ \/ \E j \in Job : Submit(j)
     \/ \E w \in Consumer : Reconnect(w) \/ LoseLink(w) \/ Dispatch(w)
  /\ UNCHANGED <<task, received, silenced>>

Next ==
  \/ Transport
  \/ \E w \in Consumer : TakeJob(w) \/ OnMessage(w)

(* As on the server: threads run on, an idle consumer is served, handlers  *)
(* return (send_callback has a timeout per post and a limit on retries).   *)
Fairness ==
  \A w \in Consumer :
    /\ WF_vars((Reconnect(w) \/ Dispatch(w))
               /\ UNCHANGED <<task, received, silenced>>)
    /\ SF_vars(Forward(w) /\ UNCHANGED <<task, received, silenced>>)
    /\ WF_vars(TakeJob(w) \/ OnMessage(w))

Spec == Init /\ [][Next]_vars
FairSpec == Spec /\ Fairness

(***************************************************************************)
(* Properties                                                              *)
(***************************************************************************)
Known(j) == received[j] > 0 \/ dead[j] > 0 \/ Live(j)

(* A job disappears without callback and without dead letter only if its   *)
(* analysis failed and so did the callback that should have said so        *)
(* (consumer.py:87-92, 122-127, 226-230): a successful result never does.  *)
OnlyFailuresVanish == \A j \in submitted : Known(j) \/ j \in silenced

(* The backend processes a job's callback at most as often as one call     *)
(* posts it, again for each lost connection: dead letters and refusals     *)
(* never lead to another callback.                                         *)
CallbacksBoundedByLosses ==
  \A j \in Job : received[j] <= Attempts * (1 + losses)

(* From some moment on no message of a submitted job is in a work queue.   *)
EveryJobSettles ==
  \A j \in Job : (j \in submitted) ~> [](~Live(j))
=============================================================================
