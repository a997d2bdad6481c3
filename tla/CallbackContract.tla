-------------------------- MODULE CallbackContract --------------------------
(***************************************************************************)
(* What the caller of send_callback may rely on, and what it may not: a    *)
(* call that returns was processed by the backend; a call that raises may  *)
(* have been processed too, and either may be processed more than once,    *)
(* also after it is over, but never more often than it posts.              *)
(***************************************************************************)
EXTENDS Naturals

CONSTANT Attempts     \* posts of one call at most

VARIABLES outcome,    \* "pending", "returned" (True) or "raised" (CallbackError)
          processed   \* how often the backend has processed the callback

ContractInit == outcome = "pending" /\ processed = 0

Process ==
  /\ processed < Attempts
  /\ processed' = processed + 1
  /\ UNCHANGED outcome

Return ==
  /\ outcome = "pending"
  /\ processed > 0
  /\ outcome' = "returned"
  /\ UNCHANGED processed

Raise ==
  /\ outcome = "pending"
  /\ outcome' = "raised"
  /\ UNCHANGED processed

(* A call comes to an end, one way or the other. *)
End == Return \/ Raise

ContractNext == Process \/ End

ContractSpec ==
  /\ ContractInit /\ [][ContractNext]_<<outcome, processed>>
  /\ WF_<<outcome, processed>>(End)
=============================================================================
