-------------------------- MODULE CallbackDelivery --------------------------
(***************************************************************************)
(* One call of send_callback: posts of a result to the backend, again and  *)
(* again until one is answered or the retries are used up.  The backoff    *)
(* between them is left out: any time may pass between two steps.          *)
(* Source: shared/services/callback_service.py                             *)
(*                                                                         *)
(* A post that timed out is not recalled: the backend may process it while *)
(* the call waits, posts again, or is over.                                *)
(***************************************************************************)
EXTENDS Naturals

CONSTANT MaxRetries  \* callback_max_retries

ASSUME CallbackAssumption == MaxRetries \in Nat

VARIABLES stage,      \* where the call is
          attempt,    \* the loop variable
          post,       \* what became of the current post
          orphans,    \* timed-out posts the backend may still process
          processed   \* how often the backend has processed the callback

callVars == <<stage, attempt, post, orphans, processed>>

Stage == {"checking", "attempting", "posted", "returned", "raised"}
Over == stage \in {"returned", "raised"}

CallTypeOK ==
  /\ stage \in Stage
  /\ attempt \in 0..MaxRetries
  /\ post \in {"none", "travelling", "processed"}
  /\ orphans \in 0..(MaxRetries + 1)
  /\ processed \in 0..(MaxRetries + 1)
  /\ post # "none" <=> stage = "posted"

CallInit ==
  /\ stage = "checking"
  /\ attempt = 0
  /\ post = "none"
  /\ orphans = 0
  /\ processed = 0

(* is_safe_url: an unsafe URL raises before anything is posted. *)
CheckUrl ==
  /\ stage = "checking"
  /\ stage' \in {"attempting", "raised"}
  /\ UNCHANGED <<attempt, post, orphans, processed>>

(* One turn of the loop up to requests.post: a retry sleeps first. *)
Post ==
  /\ stage = "attempting"
  /\ stage' = "posted"
  /\ post' = "travelling"
  /\ UNCHANGED <<attempt, orphans, processed>>

Finish(how) ==
  /\ stage' = how
  /\ post' = "none"
  /\ UNCHANGED <<attempt, processed>>

(* Mutants: one turn too many; a turn that is not counted. *)
TryOnceMore ==
  /\ post' = "none"
  /\ IF attempt <= MaxRetries
     THEN stage' = "attempting" /\ attempt' = attempt + 1
     ELSE stage' = "raised" /\ UNCHANGED attempt
  /\ UNCHANGED processed

TryUncounted ==
  /\ post' = "none"
  /\ stage' = "attempting"
  /\ UNCHANGED <<attempt, processed>>

(* last_error is set; the loop goes on or is exhausted. *)
TryAgain ==
  /\ post' = "none"
  /\ IF attempt < MaxRetries
     THEN stage' = "attempting" /\ attempt' = attempt + 1
     ELSE stage' = "raised" /\ UNCHANGED attempt
  /\ UNCHANGED processed

(* Mutant: a call returns without waiting for the answer. *)
AcceptedUnheard ==
  /\ post # "none"
  /\ Finish("returned")
  /\ UNCHANGED orphans

(* 200, 201, 202, 204 *)
Accepted ==
  /\ post = "processed"
  /\ Finish("returned")
  /\ UNCHANGED orphans

(* 4xx other than 408 and 429: the backend refuses the result. *)
Rejected ==
  /\ post = "travelling"
  /\ Finish("raised")
  /\ UNCHANGED orphans

(* Any other status, perhaps after the backend processed the callback. *)
RetryableStatus ==
  /\ post # "none"
  /\ TryAgain
  /\ UNCHANGED orphans

(* Timeout, connection error or another exception of requests.post. *)
NoAnswer ==
  /\ post # "none"
  /\ TryAgain
  /\ orphans' = IF post = "travelling" THEN orphans + 1 ELSE orphans

SendCallback ==
  CheckUrl \/ Post \/ Accepted \/ Rejected \/ RetryableStatus \/ NoAnswer

(* The backend processes the current post, or one the call gave up on. *)
BackendProcesses ==
  /\ processed' = processed + 1
  /\ \/ /\ post = "travelling"
        /\ post' = "processed"
        /\ UNCHANGED orphans
     \/ /\ orphans > 0
        /\ orphans' = orphans - 1
        /\ UNCHANGED post
  /\ UNCHANGED <<stage, attempt>>

(* A post the call gave up on never arrives. *)
PostVanishes ==
  /\ orphans > 0
  /\ orphans' = orphans - 1
  /\ UNCHANGED <<stage, attempt, post, processed>>

CallNext == SendCallback \/ BackendProcesses \/ PostVanishes

(* requests.post has a timeout and time.sleep returns, so the call steps   *)
(* on; nothing is assumed of the backend.                                  *)
CallSpec == CallInit /\ [][CallNext]_callVars
FairCallSpec == CallSpec /\ WF_callVars(SendCallback)

(***************************************************************************)
(* Properties                                                              *)
(***************************************************************************)
(* Every post is accounted for: what the backend processed, what may still *)
(* arrive and the current post are never more than the turns of the loop.  *)
PostsAccounted ==
  processed + orphans + (IF post = "travelling" THEN 1 ELSE 0)
    <= attempt + (IF stage \in {"checking", "attempting"} THEN 0 ELSE 1)

(* send_callback keeps the contract its callers rely on: it returns only   *)
(* after the backend processed the result, the verdict is final, and there *)
(* is one in the end whatever the backend does.                            *)
Contract == INSTANCE CallbackContract WITH
  Attempts <- MaxRetries + 1,
  outcome <- IF Over THEN stage ELSE "pending"

KeepsContract == Contract!ContractSpec
=============================================================================
