----------------------------- MODULE JobLedger -----------------------------
(***************************************************************************)
(* What a runtime (server or edge) promises the backend about the analysis *)
(* jobs it takes from RabbitMQ, without queues, consumers or connections.  *)
(*                                                                         *)
(* A job that was accepted stays open until every copy of its message is   *)
(* settled.  While it is open the runtime may answer it (a result the      *)
(* broker or the backend confirmed) or park it (a message in the           *)
(* dead-letter queue), more than once if connections fail.  It is closed   *)
(* only after it was answered or parked, and nothing happens to it after.  *)
(***************************************************************************)
CONSTANTS Job,         \* the jobs of the backend
          Answerable   \* the jobs this runtime may answer with a result

VARIABLES untaken,     \* jobs the backend has not submitted yet
          open,        \* jobs with an unsettled message
          answered,    \* jobs with at least one confirmed result
          parked       \* jobs with a message in the dead-letter queue

ledgerVars == <<untaken, open, answered, parked>>

LedgerInit ==
  /\ untaken = Job
  /\ open = {}
  /\ answered = {}
  /\ parked = {}

Accept(j) ==
  /\ j \in untaken
  /\ untaken' = untaken \ {j}
  /\ open' = open \cup {j}
  /\ UNCHANGED <<answered, parked>>

Answer(j) ==
  /\ j \in open \cap Answerable
  /\ answered' = answered \cup {j}
  /\ UNCHANGED <<untaken, open, parked>>

(* Parking the last message of a job closes it in the same step. *)
Park(j) ==
  /\ j \in open
  /\ parked' = parked \cup {j}
  /\ open' \in {open, open \ {j}}
  /\ UNCHANGED <<untaken, answered>>

Close(j) ==
  /\ j \in open \cap (answered \cup parked)
  /\ open' = open \ {j}
  /\ UNCHANGED <<untaken, answered, parked>>

LedgerNext == \E j \in Job : Accept(j) \/ Answer(j) \/ Park(j) \/ Close(j)

LedgerSpec == LedgerInit /\ [][LedgerNext]_ledgerVars
=============================================================================
