---------------------------- MODULE WorkflowCall ----------------------------
(***************************************************************************)
(* The client of the hosted Roboflow workflow: one caller makes call after *)
(* call, each of at most MaxRetries + 1 attempts.  An attempt runs in a    *)
(* thread of its own; one that times out is left running and retried.      *)
(* Source: shared/services/roboflow_workflow_client.py                     *)
(*                                                                         *)
(* Phases: waiting (future.result), sleeping (between two attempts),       *)
(* answered (the response is not parsed yet), returned, raised.            *)
(***************************************************************************)
EXTENDS Integers, FiniteSets

CONSTANTS MaxRetries,       \* max_retries
          TimeoutSeconds,   \* timeout_seconds, per attempt
          BaseDelay,        \* retry_base_delay, in seconds
          MaxCalls          \* bound: calls of the workflow

(* Of the settings; whoever uses the client assumes it. *)
WorkflowAssumption ==
  /\ MaxRetries \in Nat /\ BaseDelay \in Nat /\ MaxCalls \in Nat
  /\ TimeoutSeconds \in Nat \ {0}

VARIABLES
  phase,
  call,      \* the number of the current or last call
  attempt,   \* its attempt
  waited,    \* seconds the caller has been blocked by this call
  running    \* SDK calls whose threads have not ended: <<call, attempt>>

vars == <<phase, call, attempt, waited, running>>

Phase == {"idle", "waiting", "sleeping", "answered", "returned", "raised"}

TypeOK ==
  /\ phase \in Phase
  /\ call \in 0..MaxCalls
  /\ attempt \in 0..(MaxRetries + 1)
  /\ waited \in Nat
  /\ running \subseteq (1..MaxCalls) \X (1..(MaxRetries + 1))
  /\ phase = "waiting" => <<call, attempt>> \in running

Init ==
  /\ phase = "idle"
  /\ call = 0
  /\ attempt = 0
  /\ waited = 0
  /\ running = {}

Busy == phase \in {"waiting", "sleeping", "answered"}

(* run_evn_object_detection_workflow: client and parameters are checked    *)
(* before the first attempt.                                               *)
Begin ==
  /\ ~Busy
  /\ call < MaxCalls
  /\ call' = call + 1
  /\ phase' = "waiting"
  /\ attempt' = 1
  /\ waited' = 0
  /\ running' = running \cup {<<call', 1>>}

(* BaseDelay * 2^n, doubled step by step: the pause after n + 1 attempts.  *)
Delay[n \in Nat] == IF n = 0 THEN BaseDelay ELSE 2 * Delay[n - 1]

Backoff == Delay[attempt - 1]

(* The attempt failed after so many seconds: raise, or sleep. *)
GiveUpOrSleep(seconds) ==
  IF attempt >= MaxRetries + 1
  THEN phase' = "raised" /\ waited' = waited + seconds
  ELSE phase' = "sleeping" /\ waited' = waited + seconds + Backoff

(* The thread ended in time, with the workflow's response or an exception  *)
(* (a refused status, a connection error, an input the client refuses).    *)
Respond(seconds) ==
  /\ phase = "waiting"
  /\ running' = running \ {<<call, attempt>>}
  /\ phase' = "answered"
  /\ waited' = waited + seconds
  /\ UNCHANGED <<call, attempt>>

(* Mutant: the thread of an attempt that failed is left running. *)
FailAndLeave(seconds) ==
  /\ phase = "waiting"
  /\ GiveUpOrSleep(seconds)
  /\ UNCHANGED <<call, attempt, running>>

Fail(seconds) ==
  /\ phase = "waiting"
  /\ running' = running \ {<<call, attempt>>}
  /\ GiveUpOrSleep(seconds)
  /\ UNCHANGED <<call, attempt>>

(* Mutant: the executor is shut down with wait=True. *)
TimeOutAndJoin ==
  /\ phase = "waiting"
  /\ <<call, attempt>> \notin running
  /\ GiveUpOrSleep(TimeoutSeconds)
  /\ UNCHANGED <<call, attempt, running>>

(* FutureTimeout: cancel does not stop a call that runs, and shutdown does *)
(* not wait for it.                                                        *)
TimeOut ==
  /\ phase = "waiting"
  /\ GiveUpOrSleep(TimeoutSeconds)
  /\ UNCHANGED <<call, attempt, running>>

Retry ==
  /\ phase = "sleeping"
  /\ phase' = "waiting"
  /\ attempt' = attempt + 1
  /\ running' = running \cup {<<call, attempt'>>}
  /\ UNCHANGED <<call, waited>>

(* parse_workflow_response, outside the retry loop: a response of another  *)
(* shape, or a value no Detection accepts, raises at once.                 *)
Parse ==
  /\ phase = "answered"
  /\ phase' \in {"returned", "raised"}
  /\ UNCHANGED <<call, attempt, waited, running>>

(* A call nobody waits for ends; its response is dropped. *)
AbandonedEnds ==
  /\ \E r \in running :
       /\ phase = "waiting" => r # <<call, attempt>>
       /\ running' = running \ {r}
  /\ UNCHANGED <<phase, call, attempt, waited>>

RunWorkflow ==
  \/ \E seconds \in 0..TimeoutSeconds : Respond(seconds) \/ Fail(seconds)
  \/ TimeOut \/ Retry \/ Parse

Next == Begin \/ RunWorkflow \/ AbandonedEnds

Spec == Init /\ [][Next]_vars

(***************************************************************************)
(* Properties                                                              *)
(***************************************************************************)
(* The sum of the first so many pauses, Delay[0] to Delay[pauses - 1]. *)
BackoffOf(pauses) == Delay[pauses] - BaseDelay

Pauses == IF phase = "sleeping" THEN attempt
          ELSE IF attempt = 0 THEN 0 ELSE attempt - 1

(* The attempts of the current call that still run although nobody waits.  *)
Abandoned ==
  {r \in running : r[1] = call /\ (phase = "waiting" => r[2] # attempt)}

(* Calls to the workflow overlap only through timeouts: each attempt that  *)
(* runs on unwatched has cost its caller a whole timeout besides the       *)
(* backoff, so failures, answers and retries leave no thread behind        *)
(* (_run_once_with_timeout).                                               *)
OverlapCostsTimeouts ==
  Cardinality(Abandoned) * TimeoutSeconds + BackoffOf(Pauses) <= waited
=============================================================================
