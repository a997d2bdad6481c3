---------------------------- MODULE ToolExecutor ----------------------------
(***************************************************************************)
(* The harness's tool executor: runs an action's tool in a thread of its   *)
(* own, gives up waiting after a timeout, retries what may be retried, and *)
(* keeps a record that is to prevent non-idempotent actions from being     *)
(* executed twice.                                                         *)
(* Source: edge/tools/executor.py, edge/harness/retry.py                   *)
(*                                                                         *)
(* Giving up does not stop the thread: future.cancel has no effect on a    *)
(* running tool and the pool is shut down without waiting, so the tool     *)
(* works on as an orphan.  Nor does a failure undo anything: a tool that   *)
(* reports one, or raises, may have done its work before.                  *)
(***************************************************************************)
EXTENDS Naturals

CONSTANTS Action,         \* action ids; each has one tool
          NonIdempotent,  \* actions whose tool is NON_IDEMPOTENT
          RetrySafe,      \* actions whose tool is retry_safe
          MaxAttempts,    \* RetryPolicy.max_attempts
          MaxCalls,       \* bound: how often execute is called
          NoAction

ASSUME ExecutorAssumption ==
  /\ NonIdempotent \subseteq Action
  /\ RetrySafe \subseteq Action
  /\ MaxAttempts \in Nat \ {0}
  /\ MaxCalls \in Nat
  /\ NoAction \notin Action

VARIABLES
  calling,   \* the action whose execute is under way
  attempt,   \* the loop variable of that call
  verdict,   \* the status the last call returned
  recorded,  \* _completed_non_idempotent_actions
  orphans,   \* tool runs nobody waits for that still work, per action
  effects,   \* tool runs that did their work, per action
  failed,    \* tool runs that ended in a failure the executor saw, per action
  gaveUp,    \* calls that ended by timeout, per action
  calls

vars == <<calling, attempt, verdict, recorded, orphans, effects, failed, gaveUp, calls>>

Failure == {"permanent_failure", "invalid_input", "capability_unavailable", "raised"}
Status == Failure \cup {"none", "success", "retryable_failure", "timeout",
                        "duplicate_prevented"}

TypeOK ==
  /\ calling \in Action \cup {NoAction}
  /\ attempt \in 0..MaxAttempts
  /\ verdict \in Status
  /\ recorded \subseteq NonIdempotent
  /\ orphans \in [Action -> Nat]
  /\ effects \in [Action -> Nat]
  /\ failed \in [Action -> Nat]
  /\ gaveUp \in [Action -> Nat]
  /\ calls \in 0..MaxCalls
  /\ attempt > 0 <=> calling # NoAction

Init ==
  /\ calling = NoAction
  /\ attempt = 0
  /\ verdict = "none"
  /\ recorded = {}
  /\ orphans = [a \in Action |-> 0]
  /\ effects = [a \in Action |-> 0]
  /\ failed = [a \in Action |-> 0]
  /\ gaveUp = [a \in Action |-> 0]
  /\ calls = 0

Bump(f, a) == [f EXCEPT ![a] = @ + 1]

(***************************************************************************)
(* execute                                                                 *)
(***************************************************************************)
Asked ==
  /\ calling = NoAction
  /\ calls < MaxCalls
  /\ calls' = calls + 1

Call(a) ==
  /\ Asked
  /\ a \notin recorded
  /\ calling' = a
  /\ attempt' = 1
  /\ UNCHANGED <<verdict, recorded, orphans, effects, failed, gaveUp>>

PreventDuplicate(a) ==
  /\ Asked
  /\ a \in recorded
  /\ verdict' = "duplicate_prevented"
  /\ UNCHANGED <<calling, attempt, recorded, orphans, effects, failed, gaveUp>>

Return(status) ==
  /\ verdict' = status
  /\ calling' = NoAction
  /\ attempt' = 0
  /\ UNCHANGED calls

(* Mutant: the success is not recorded. *)
SucceedUnrecorded(a) ==
  /\ calling = a
  /\ effects' = Bump(effects, a)
  /\ Return("success")
  /\ UNCHANGED <<recorded, orphans, failed, gaveUp>>

Succeed(a) ==
  /\ calling = a
  /\ effects' = Bump(effects, a)
  /\ recorded' = recorded \cup ({a} \cap NonIdempotent)
  /\ Return("success")
  /\ UNCHANGED <<orphans, failed, gaveUp>>

(* The tool says it failed, or raises, and no record is made: whether it   *)
(* had done its work by then is not known.                                 *)
RunFails(a) ==
  /\ calling = a
  /\ failed' = Bump(failed, a)
  /\ effects' \in {effects, Bump(effects, a)}
  /\ UNCHANGED <<recorded, orphans, gaveUp>>

(* A HarnessError that is not retryable becomes a status, any other        *)
(* exception escapes execute.                                              *)
Fail(a) ==
  /\ RunFails(a)
  /\ \E status \in Failure : Return(status)

(* Mutant: no limit on attempts. *)
AlwaysRetryable(a) == a \in RetrySafe

Retryable(a) == a \in RetrySafe /\ attempt < MaxAttempts

Retry(a) ==
  /\ RunFails(a)
  /\ Retryable(a)
  /\ attempt' = attempt + 1
  /\ UNCHANGED <<calling, verdict, calls>>

GiveUp(a) ==
  /\ RunFails(a)
  /\ ~Retryable(a)
  /\ Return("retryable_failure")

(* A timeout is not retried.  The tool works on, unless its thread had not *)
(* started or it raised a TimeoutError of its own.                         *)
TimeOut(a) ==
  /\ calling = a
  /\ orphans' \in {orphans, Bump(orphans, a)}
  /\ gaveUp' = Bump(gaveUp, a)
  /\ Return("timeout")
  /\ UNCHANGED <<recorded, effects, failed>>

ExecuteOnce(a) == Succeed(a) \/ Fail(a) \/ Retry(a) \/ GiveUp(a) \/ TimeOut(a)

(* A tool nobody waits for comes to its end, well or not. *)
OrphanEnds(a) ==
  /\ orphans[a] > 0
  /\ orphans' = [orphans EXCEPT ![a] = @ - 1]
  /\ effects' \in {effects, Bump(effects, a)}
  /\ UNCHANGED <<calling, attempt, verdict, recorded, failed, gaveUp, calls>>

Next ==
  \E a \in Action :
    Call(a) \/ PreventDuplicate(a) \/ ExecuteOnce(a) \/ OrphanEnds(a)

Spec == Init /\ [][Next]_vars

(***************************************************************************)
(* Properties                                                              *)
(***************************************************************************)
(* Success is final: a non-idempotent action does its work at most once    *)
(* more often than it failed or timed out (executor.py:38-42, 91-93).  An  *)
(* action that is not retry-safe runs at most once in a call, whatever it  *)
(* reports (executor.py:95), and a call leaves at most one thread behind,  *)
(* however often it tries: that of its timeout (executor.py:103-109).      *)
RepeatsNeedFailures ==
  /\ \A a \in NonIdempotent : effects[a] + orphans[a] <= failed[a] + gaveUp[a] + 1
  /\ \A a \in Action \ RetrySafe : effects[a] + orphans[a] <= calls
  /\ \A a \in Action : orphans[a] <= gaveUp[a]
=============================================================================
