-------------------------- MODULE ToolExecutorProofs --------------------------
(***************************************************************************)
(* Proofs about ToolExecutor, for any actions, any number of attempts and  *)
(* of calls: type correctness and RepeatsNeedFailures.                     *)
(***************************************************************************)
EXTENDS ToolExecutor, TLAPS

(* A recorded action is not executed again: whatever runs is unrecorded,   *)
(* so that recording it once accounts for its effect.                      *)
RunsUnrecorded == calling \notin recorded

(* A call that is under way has a run of its own to come. *)
OneRunPerCall ==
  \A a \in Action \ RetrySafe :
    effects[a] + orphans[a] + (IF calling = a THEN 1 ELSE 0) <= calls

(* The bounds other than that of the runs of a call; the one success that  *)
(* is more than the failures is the recorded one.                          *)
RunsExplained ==
  /\ \A a \in NonIdempotent :
       effects[a] + orphans[a] <=
         failed[a] + gaveUp[a] + (IF a \in recorded THEN 1 ELSE 0)
  /\ \A a \in Action : orphans[a] <= gaveUp[a]

IInv == TypeOK /\ RunsUnrecorded /\ OneRunPerCall /\ RunsExplained

(* Bump adds one at one place. *)
LEMMA BumpAdds ==
  ASSUME NEW f \in [Action -> Nat], NEW a \in Action
  PROVE  /\ Bump(f, a) \in [Action -> Nat]
         /\ Bump(f, a)[a] = f[a] + 1
         /\ \A b \in Action \ {a} : Bump(f, a)[b] = f[b]
  BY DEF Bump

LEMMA Types ==
  ASSUME TypeOK, NEW b \in Action
  PROVE  /\ effects[b] \in Nat /\ orphans[b] \in Nat
         /\ failed[b] \in Nat /\ gaveUp[b] \in Nat
         /\ calls \in Nat
  BY ExecutorAssumption DEF TypeOK, ExecutorAssumption

LEMMA IInvImplies == IInv => RepeatsNeedFailures
<1> SUFFICES ASSUME IInv PROVE RepeatsNeedFailures
  OBVIOUS
<1>1. ASSUME NEW a \in Action \ RetrySafe
      PROVE  effects[a] + orphans[a] <= calls
  <2>1. effects[a] + orphans[a] + (IF calling = a THEN 1 ELSE 0) <= calls
    BY DEF IInv, OneRunPerCall
  <2> QED
    BY <2>1, Types DEF IInv
<1>2. ASSUME NEW a \in NonIdempotent
      PROVE  effects[a] + orphans[a] <= failed[a] + gaveUp[a] + 1
  <2>1. a \in Action
    BY ExecutorAssumption DEF ExecutorAssumption
  <2>2. effects[a] + orphans[a] <= failed[a] + gaveUp[a] + (IF a \in recorded THEN 1 ELSE 0)
    BY DEF IInv, RunsExplained
  <2> QED
    BY <2>1, <2>2, Types DEF IInv
<1> QED
  BY <1>1, <1>2 DEF IInv, RunsExplained, RepeatsNeedFailures

LEMMA InitIInv == Init => IInv
  BY ExecutorAssumption
     DEF Init, IInv, TypeOK, Status, RunsUnrecorded, OneRunPerCall, RunsExplained,
         ExecutorAssumption

LEMMA CallPreserves ==
  ASSUME IInv, NEW a \in Action, Call(a) \/ PreventDuplicate(a)
  PROVE  IInv'
<1>1. TypeOK'
  BY ExecutorAssumption
     DEF IInv, TypeOK, Call, PreventDuplicate, Asked, Status, ExecutorAssumption
<1>2. RunsUnrecorded'
  BY DEF IInv, RunsUnrecorded, Call, PreventDuplicate
<1>3. RunsExplained'
  BY DEF IInv, RunsExplained, Call, PreventDuplicate
<1>4. OneRunPerCall'
  <2> SUFFICES ASSUME NEW b \in Action \ RetrySafe
               PROVE  effects'[b] + orphans'[b] + (IF calling' = b THEN 1 ELSE 0) <= calls'
    BY DEF OneRunPerCall
  <2>1. calling = NoAction /\ calls' = calls + 1 /\ effects' = effects /\ orphans' = orphans
    BY DEF Call, PreventDuplicate, Asked
  <2>2. effects[b] + orphans[b] + (IF calling = b THEN 1 ELSE 0) <= calls
    BY DEF IInv, OneRunPerCall
  <2>3. b # NoAction
    BY ExecutorAssumption DEF ExecutorAssumption
  <2> QED
    BY <2>1, <2>2, <2>3, Types DEF IInv
<1> QED
  BY <1>1, <1>2, <1>3, <1>4 DEF IInv

(* A call that ends leaves nobody calling. *)
LEMMA ReturnEnds ==
  ASSUME TypeOK, NEW status \in Status, Return(status)
  PROVE  /\ calling' = NoAction /\ attempt' = 0 /\ verdict' \in Status
         /\ calls' = calls
  BY DEF Return

LEMMA NobodyRecorded == TypeOK => NoAction \notin recorded
  BY ExecutorAssumption DEF TypeOK, ExecutorAssumption

(* A run that ends, or is left behind, uses up what its call has to come.  *)
LEMMA RunUsesCall ==
  ASSUME IInv, NEW a \in Action, calling = a, calls' = calls,
         calling' = NoAction \/ (calling' = a /\ a \in RetrySafe),
         effects' \in {effects, Bump(effects, a)},
         orphans' \in {orphans, Bump(orphans, a)},
         effects' = effects \/ orphans' = orphans
  PROVE  OneRunPerCall'
<1> SUFFICES ASSUME NEW b \in Action \ RetrySafe
             PROVE  effects'[b] + orphans'[b] + (IF calling' = b THEN 1 ELSE 0) <= calls'
  BY DEF OneRunPerCall
<1>1. effects[b] + orphans[b] + (IF calling = b THEN 1 ELSE 0) <= calls
  BY DEF IInv, OneRunPerCall
<1>2. /\ effects[b] \in Nat /\ orphans[b] \in Nat /\ calls \in Nat
      /\ effects \in [Action -> Nat] /\ orphans \in [Action -> Nat]
  BY Types DEF IInv, TypeOK
<1>3. b # NoAction /\ calling' # b
  BY ExecutorAssumption DEF ExecutorAssumption
<1>4. CASE b = a
  <2>1. /\ effects'[b] \in {effects[b], effects[b] + 1}
        /\ orphans'[b] \in {orphans[b], orphans[b] + 1}
        /\ effects'[b] = effects[b] \/ orphans'[b] = orphans[b]
    BY <1>2, <1>4, BumpAdds
  <2> QED
    BY <1>1, <1>2, <1>3, <1>4, <2>1
<1>5. CASE b # a
  <2>1. effects'[b] = effects[b] /\ orphans'[b] = orphans[b]
    BY <1>2, <1>5, BumpAdds
  <2> QED
    BY <1>1, <1>2, <1>3, <1>5, <2>1
<1> QED
  BY <1>4, <1>5

LEMMA SucceedPreserves ==
  ASSUME IInv, NEW a \in Action, Succeed(a)
  PROVE  IInv'
<1>1. /\ calling = a /\ a \notin recorded
      /\ effects' = Bump(effects, a)
      /\ recorded' = recorded \cup ({a} \cap NonIdempotent)
      /\ orphans' = orphans /\ failed' = failed /\ gaveUp' = gaveUp
  BY DEF Succeed, IInv, RunsUnrecorded
<1>2. calling' = NoAction /\ attempt' = 0 /\ verdict' \in Status /\ calls' = calls
  BY ReturnEnds DEF Succeed, IInv, Status
<1>3. TypeOK'
  BY <1>1, <1>2, BumpAdds, ExecutorAssumption DEF IInv, TypeOK, ExecutorAssumption
<1>4. RunsUnrecorded'
  BY <1>2, <1>3, ExecutorAssumption DEF RunsUnrecorded, TypeOK, ExecutorAssumption
<1>5. OneRunPerCall'
  BY <1>1, <1>2, RunUsesCall
<1>6. RunsExplained'
  <2>1. ASSUME NEW b \in NonIdempotent
        PROVE  effects'[b] + orphans'[b] <=
                 failed'[b] + gaveUp'[b] + (IF b \in recorded' THEN 1 ELSE 0)
    <3>1. b \in Action
      BY ExecutorAssumption DEF ExecutorAssumption
    <3>2. /\ effects[b] \in Nat /\ orphans[b] \in Nat /\ failed[b] \in Nat /\ gaveUp[b] \in Nat
          /\ effects[b] + orphans[b] <=
               failed[b] + gaveUp[b] + (IF b \in recorded THEN 1 ELSE 0)
      BY <3>1, Types DEF IInv, RunsExplained
    <3>3. CASE b = a
      <4>1. effects'[b] = effects[b] + 1 /\ b \notin recorded /\ b \in recorded'
        BY <1>1, <3>1, <3>3, BumpAdds DEF IInv, TypeOK
      <4> QED
        BY <1>1, <3>2, <4>1
    <3>4. CASE b # a
      <4>1. effects'[b] = effects[b] /\ (b \in recorded' <=> b \in recorded)
        BY <1>1, <3>1, <3>4, BumpAdds DEF IInv, TypeOK
      <4> QED
        BY <1>1, <3>2, <4>1
    <3> QED
      BY <3>3, <3>4
  <2> QED
    BY <1>1, <2>1 DEF IInv, RunsExplained
<1> QED
  BY <1>3, <1>4, <1>5, <1>6 DEF IInv

(* A run that failed, had it done its work or not: the last of its call,   *)
(* or one that is followed by another attempt.                             *)
LEMMA FailurePreserves ==
  ASSUME IInv, NEW a \in Action, Fail(a) \/ Retry(a) \/ GiveUp(a)
  PROVE  IInv'
<1>1. /\ calling = a
      /\ failed' = Bump(failed, a) /\ effects' \in {effects, Bump(effects, a)}
      /\ recorded' = recorded /\ orphans' = orphans /\ gaveUp' = gaveUp
  BY DEF Fail, Retry, GiveUp, RunFails
<1>2. /\ TypeOK'
      /\ calls' = calls
      /\ calling' = NoAction \/ (calling' = a /\ a \in RetrySafe)
  <2>1. failed' \in [Action -> Nat] /\ effects' \in [Action -> Nat]
    BY <1>1, BumpAdds DEF IInv, TypeOK
  <2>2. CASE Retry(a)
    BY <1>1, <2>1, <2>2, ExecutorAssumption
       DEF Retry, Retryable, IInv, TypeOK, ExecutorAssumption
  <2>3. CASE Fail(a) \/ GiveUp(a)
    <3>1. /\ calling' = NoAction /\ attempt' = 0 /\ verdict' \in Status
          /\ calls' = calls
      BY <2>3, ReturnEnds DEF Fail, GiveUp, IInv, Status
    <3> QED
      BY <1>1, <2>1, <3>1, ExecutorAssumption DEF IInv, TypeOK, ExecutorAssumption
  <2> QED
    BY <2>2, <2>3
<1>3. RunsUnrecorded'
  BY <1>1, <1>2, NobodyRecorded DEF IInv, RunsUnrecorded
<1>4. OneRunPerCall'
  BY <1>1, <1>2, RunUsesCall
<1>5. RunsExplained'
  <2>1. ASSUME NEW b \in NonIdempotent
        PROVE  effects'[b] + orphans'[b] <=
                 failed'[b] + gaveUp'[b] + (IF b \in recorded' THEN 1 ELSE 0)
    <3>1. b \in Action
      BY ExecutorAssumption DEF ExecutorAssumption
    <3>2. /\ effects[b] \in Nat /\ orphans[b] \in Nat /\ failed[b] \in Nat /\ gaveUp[b] \in Nat
          /\ effects[b] + orphans[b] <=
               failed[b] + gaveUp[b] + (IF b \in recorded THEN 1 ELSE 0)
      BY <3>1, Types DEF IInv, RunsExplained
    <3>3. CASE b = a
      <4>1. failed'[b] = failed[b] + 1 /\ effects'[b] \in {effects[b], effects[b] + 1}
        BY <1>1, <3>1, <3>3, BumpAdds DEF IInv, TypeOK
      <4> QED
        BY <1>1, <3>2, <4>1
    <3>4. CASE b # a
      <4>1. failed'[b] = failed[b] /\ effects'[b] = effects[b]
        BY <1>1, <3>1, <3>4, BumpAdds DEF IInv, TypeOK
      <4> QED
        BY <1>1, <3>2, <4>1
    <3> QED
      BY <3>3, <3>4
  <2> QED
    BY <1>1, <2>1 DEF IInv, RunsExplained
<1> QED
  BY <1>2, <1>3, <1>4, <1>5 DEF IInv

(* A timeout leaves a thread behind and is counted. *)
LEMMA TimeOutPreserves ==
  ASSUME IInv, NEW a \in Action, TimeOut(a)
  PROVE  IInv'
<1>1. /\ calling = a
      /\ orphans' \in {orphans, Bump(orphans, a)} /\ gaveUp' = Bump(gaveUp, a)
      /\ recorded' = recorded /\ effects' = effects /\ failed' = failed
  BY DEF TimeOut
<1>2. calling' = NoAction /\ attempt' = 0 /\ verdict' \in Status /\ calls' = calls
  BY ReturnEnds DEF TimeOut, IInv, Status
<1>3. TypeOK'
  <2>1. orphans' \in [Action -> Nat] /\ gaveUp' \in [Action -> Nat]
    BY <1>1, BumpAdds DEF IInv, TypeOK
  <2> QED
    BY <1>1, <1>2, <2>1, ExecutorAssumption DEF IInv, TypeOK, ExecutorAssumption
<1>4. RunsUnrecorded'
  BY <1>1, <1>2, NobodyRecorded DEF IInv, RunsUnrecorded
<1>5. OneRunPerCall'
  BY <1>1, <1>2, RunUsesCall
<1>6. ASSUME NEW b \in Action
      PROVE  \E n \in {0, 1}, m \in {0, 1} :
               /\ m <= n
               /\ gaveUp'[b] = gaveUp[b] + n /\ orphans'[b] = orphans[b] + m
  <2>1. orphans[b] \in Nat /\ gaveUp[b] \in Nat
    BY DEF IInv, TypeOK
  <2>2. CASE b = a
    <3>1. gaveUp'[b] = gaveUp[b] + 1 /\ orphans'[b] \in {orphans[b], orphans[b] + 1}
      BY <1>1, <2>2, BumpAdds DEF IInv, TypeOK
    <3> QED
      BY <2>1, <3>1
  <2>3. CASE b # a
    <3>1. gaveUp'[b] = gaveUp[b] /\ orphans'[b] = orphans[b]
      BY <1>1, <2>3, BumpAdds DEF IInv, TypeOK
    <3> QED
      BY <2>1, <3>1
  <2> QED
    BY <2>2, <2>3
<1>7. RunsExplained'
  <2>1. NonIdempotent \subseteq Action
    BY ExecutorAssumption DEF ExecutorAssumption
  <2>2. \A b \in Action : /\ effects[b] \in Nat /\ orphans[b] \in Nat
                         /\ failed[b] \in Nat /\ gaveUp[b] \in Nat
    BY Types DEF IInv
  <2> QED
    BY <1>1, <1>6, <2>1, <2>2 DEF IInv, RunsExplained
<1> QED
  BY <1>3, <1>4, <1>5, <1>7 DEF IInv

(* The effect of a thread nobody waits for was accounted for when its call *)
(* was given up.                                                           *)
LEMMA OrphanEndsPreserves ==
  ASSUME IInv, NEW a \in Action, OrphanEnds(a)
  PROVE  IInv'
<1>1. /\ orphans[a] > 0 /\ orphans' = [orphans EXCEPT ![a] = @ - 1]
      /\ effects' \in {effects, Bump(effects, a)}
      /\ UNCHANGED <<calling, attempt, verdict, recorded, failed, gaveUp, calls>>
  BY DEF OrphanEnds
<1>2. TypeOK'
  BY <1>1, BumpAdds DEF IInv, TypeOK
<1>3. RunsUnrecorded'
  BY <1>1 DEF IInv, RunsUnrecorded
<1>4. ASSUME NEW b \in Action
      PROVE  /\ orphans'[b] <= orphans[b]
             /\ effects'[b] + orphans'[b] <= effects[b] + orphans[b]
  <2>1. orphans[b] \in Nat /\ effects[b] \in Nat
    BY DEF IInv, TypeOK
  <2>2. CASE b = a
    <3>1. orphans'[b] = orphans[b] - 1 /\ effects'[b] \in {effects[b], effects[b] + 1}
      BY <1>1, <2>2, BumpAdds DEF IInv, TypeOK
    <3> QED
      BY <2>1, <3>1
  <2>3. CASE b # a
    <3>1. orphans'[b] = orphans[b] /\ effects'[b] = effects[b]
      BY <1>1, <2>3, BumpAdds DEF IInv, TypeOK
    <3> QED
      BY <2>1, <3>1
  <2> QED
    BY <2>2, <2>3
<1>5. \A b \in Action : /\ effects[b] \in Nat /\ orphans[b] \in Nat /\ failed[b] \in Nat
                       /\ gaveUp[b] \in Nat /\ calls \in Nat
                       /\ effects'[b] \in Nat /\ orphans'[b] \in Nat
  BY <1>2, Types DEF IInv, TypeOK
<1>6. RunsExplained'
  <2>1. NonIdempotent \subseteq Action
    BY ExecutorAssumption DEF ExecutorAssumption
  <2> QED
    BY <1>1, <1>4, <1>5, <2>1 DEF IInv, RunsExplained
<1>7. OneRunPerCall'
  BY <1>1, <1>4, <1>5 DEF IInv, OneRunPerCall
<1> QED
  BY <1>2, <1>3, <1>6, <1>7 DEF IInv

LEMMA NextIInv == IInv /\ [Next]_vars => IInv'
<1> SUFFICES ASSUME IInv, [Next]_vars PROVE IInv'
  OBVIOUS
<1>1. ASSUME NEW a \in Action,
             Call(a) \/ PreventDuplicate(a) \/ ExecuteOnce(a) \/ OrphanEnds(a)
      PROVE  IInv'
  BY <1>1, CallPreserves, SucceedPreserves, FailurePreserves, TimeOutPreserves,
     OrphanEndsPreserves DEF ExecuteOnce
<1>2. CASE UNCHANGED vars
  BY <1>2 DEF vars, IInv, TypeOK, RunsUnrecorded, OneRunPerCall, RunsExplained
<1> QED
  BY <1>1, <1>2 DEF Next

LEMMA SpecIInv == Spec => []IInv
<1>1. Init => IInv
  BY InitIInv
<1>2. IInv /\ [Next]_vars => IInv'
  BY NextIInv
<1> QED
  BY <1>1, <1>2, PTL DEF Spec

(* The executor's variables have their types; no call goes beyond          *)
(* max_attempts (executor.py:51-95).                                       *)
THEOREM ExecutorTypeCorrect == Spec => []TypeOK
<1>1. IInv => TypeOK
  BY DEF IInv
<1> QED
  BY <1>1, SpecIInv, PTL

(* A non-idempotent action does its work at most once more often than it   *)
(* failed and timed out; one that is not retry-safe runs at most once in a *)
(* call; only timeouts leave threads behind.  For any number of actions,   *)
(* calls and attempts, and with tools whose failures may have done their   *)
(* work (executor.py:91-96, 103-117).                                      *)
THEOREM ExecutorRepeatsNeedFailures == Spec => []RepeatsNeedFailures
  BY IInvImplies, SpecIInv, PTL
==============================================================================
