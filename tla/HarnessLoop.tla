---------------------------- MODULE HarnessLoop -----------------------------
(***************************************************************************)
(* The harness controller: drives one run at a time through its states,    *)
(* executes the run's one action with ToolExecutor, writes the run's       *)
(* checkpoint file twice, and answers resume from that file.               *)
(* Source: edge/loop/controller.py, edge/loop/state.py,                    *)
(* edge/memory/file_store.py                                               *)
(*                                                                         *)
(* A run id is fresh and so is the id of its action, hence Action <- Run.  *)
(* A run whose image the policy refuses gets no id and leaves no trace.    *)
(* write_text truncates the file and then writes it: between the two, and  *)
(* for ever after a crash there, the file is torn.                         *)
(***************************************************************************)
EXTENDS Naturals, FiniteSets

CONSTANTS Run,
          MaxAttempts,  \* RetryPolicy.max_attempts
          MaxCrashes,   \* bound: crashes of the process
          NoRun

ASSUME HarnessAssumption ==
  /\ IsFiniteSet(Run) /\ NoRun \notin Run
  /\ MaxAttempts \in Nat \ {0}
  /\ MaxCrashes \in Nat

VARIABLES
  active,    \* the run start is driving
  state,     \* run_state.state of that run, or of the last one
  result,    \* what start returned, per run
  file,      \* the run's checkpoint file
  resumed,   \* the last answer of resume, per run
  verified,  \* runs whose result the verifier passed (kept as history)
  crashes,
  calling, attempt, verdict, recorded, orphans, effects, failed, gaveUp, calls

ownVars == <<active, state, result, file, resumed, verified, crashes>>
toolVars == <<calling, attempt, verdict, recorded, orphans, effects, failed, gaveUp, calls>>
vars == <<ownVars, toolVars>>

(* VisionWorkflowTool is idempotent and retry-safe; every run calls once.  *)
Tool == INSTANCE ToolExecutor WITH
  Action <- Run, NonIdempotent <- {}, RetrySafe <- Run,
  MaxCalls <- Cardinality(Run), NoAction <- NoRun

(* ALLOWED_TRANSITIONS *)
Allowed ==
  [CREATED         |-> {"CONTEXT_READY", "FAILED"},
   CONTEXT_READY   |-> {"PLANNED", "FAILED"},
   PLANNED         |-> {"ACTION_SELECTED", "FAILED"},
   ACTION_SELECTED |-> {"ACTION_RUNNING", "BLOCKED", "FAILED"},
   ACTION_RUNNING  |-> {"VERIFYING", "RETRY_PENDING", "BLOCKED", "FAILED"},
   RETRY_PENDING   |-> {"ACTION_RUNNING", "FAILED"},
   VERIFYING       |-> {"CHECKPOINTED", "FAILED", "ESCALATED"},
   CHECKPOINTED    |-> {"COMPLETED", "FAILED"},
   COMPLETED       |-> {},
   BLOCKED         |-> {},
   FAILED          |-> {},
   ESCALATED       |-> {}]
LoopState == DOMAIN Allowed

TypeOK ==
  /\ active \in Run \cup {NoRun}
  /\ state \in LoopState
  /\ result \in [Run -> {"none", "running", "completed", "failed", "blocked", "lost"}]
  /\ file \in [Run -> {"none", "torn", "CHECKPOINTED", "COMPLETED"}]
  /\ resumed \in [Run -> {"none", "completed", "blocked", "error"}]
  /\ verified \subseteq Run
  /\ crashes \in 0..MaxCrashes
  /\ Tool!TypeOK
  /\ calling # NoRun => calling = active /\ state = "ACTION_RUNNING"

Init ==
  /\ active = NoRun
  /\ state = "CREATED"
  /\ result = [r \in Run |-> "none"]
  /\ file = [r \in Run |-> "none"]
  /\ resumed = [r \in Run |-> "none"]
  /\ verified = {}
  /\ crashes = 0
  /\ Tool!Init

(***************************************************************************)
(* start                                                                   *)
(***************************************************************************)
Begin(r) ==
  /\ active = NoRun
  /\ result[r] = "none"
  /\ active' = r
  /\ state' = "CREATED"
  /\ result' = [result EXCEPT ![r] = "running"]
  /\ UNCHANGED <<file, resumed, verified, crashes, toolVars>>

At(r, s) == active = r /\ state = s

Finish(r, s, status) ==
  /\ active' = NoRun
  /\ state' = s
  /\ result' = [result EXCEPT ![r] = status]
  /\ UNCHANGED <<resumed, crashes, toolVars>>

Move(r, from, to) ==
  /\ At(r, from)
  /\ state' = to
  /\ UNCHANGED <<active, result, resumed, crashes>>

(* The provider's description or the repository walk may raise; a provider *)
(* that is not wired raises here and the run fails.                        *)
AssembleContext(r) ==
  /\ \/ Move(r, "CREATED", "CONTEXT_READY")
     \/ At(r, "CREATED") /\ Finish(r, "FAILED", "failed")
  /\ UNCHANGED <<file, verified, toolVars>>

Prepare(r) ==
  /\ \/ Move(r, "CONTEXT_READY", "PLANNED")
     \/ Move(r, "PLANNED", "ACTION_SELECTED")
  /\ UNCHANGED <<file, verified, toolVars>>

RunAction(r) ==
  /\ Move(r, "ACTION_SELECTED", "ACTION_RUNNING")
  /\ Tool!Call(r)
  /\ UNCHANGED <<file, verified>>

(* Mutant: a tool's success is not verified. *)
ActionTrusted(r) ==
  /\ calling = NoRun
  /\ verdict = "success"
  /\ Move(r, "ACTION_RUNNING", "CHECKPOINTED")
  /\ UNCHANGED <<file, verified, toolVars>>

ActionSucceeded(r) ==
  /\ calling = NoRun
  /\ verdict = "success"
  /\ Move(r, "ACTION_RUNNING", "VERIFYING")
  /\ UNCHANGED <<file, verified, toolVars>>

(* Mutants: the verdict is read while the tool runs; a timeout is ignored. *)
ActionFailedEarly(r) ==
  /\ verdict # "success"
  /\ At(r, "ACTION_RUNNING")
  /\ Finish(r, "FAILED", "failed")
  /\ UNCHANGED <<file, verified>>

ActionTimedOut(r) ==
  /\ calling = NoRun
  /\ verdict \notin {"success", "timeout"}
  /\ At(r, "ACTION_RUNNING")
  /\ IF verdict = "capability_unavailable"
     THEN Finish(r, "BLOCKED", "blocked")
     ELSE Finish(r, "FAILED", "failed")
  /\ UNCHANGED <<file, verified>>

ActionFailed(r) ==
  /\ calling = NoRun
  /\ verdict # "success"
  /\ At(r, "ACTION_RUNNING")
  /\ IF verdict = "capability_unavailable"
     THEN Finish(r, "BLOCKED", "blocked")
     ELSE Finish(r, "FAILED", "failed")
  /\ UNCHANGED <<file, verified>>

Verify(r) ==
  /\ \/ /\ Move(r, "VERIFYING", "CHECKPOINTED")
        /\ verified' = verified \cup {r}
     \/ /\ At(r, "VERIFYING")
        /\ Finish(r, "FAILED", "failed")
        /\ UNCHANGED verified
  /\ UNCHANGED <<file, toolVars>>

(***************************************************************************)
(* CheckpointStore.save, called in the states CHECKPOINTED and COMPLETED   *)
(***************************************************************************)
Saving(r) == active = r /\ state \in {"CHECKPOINTED", "COMPLETED"} /\ file[r] # state

OpenFile(r) ==
  /\ Saving(r)
  /\ file[r] # "torn"
  /\ file' = [file EXCEPT ![r] = "torn"]
  /\ UNCHANGED <<active, state, result, resumed, verified, crashes, toolVars>>

WriteFile(r) ==
  /\ Saving(r)
  /\ file[r] = "torn"
  /\ file' = [file EXCEPT ![r] = state]
  /\ UNCHANGED <<active, state, result, resumed, verified, crashes, toolVars>>

(* Mutants: a failed save is not noticed; it always fails the state. *)
SaveFailsQuietly(r) ==
  /\ Saving(r)
  /\ Finish(r, "COMPLETED", "completed")
  /\ UNCHANGED <<file, verified>>

SaveFailsAlways(r) ==
  /\ Saving(r)
  /\ Finish(r, "FAILED", "failed")
  /\ UNCHANGED <<file, verified>>

(* open or write raises: a run that is COMPLETED keeps that state. *)
SaveFails(r) ==
  /\ Saving(r)
  /\ Finish(r, IF state = "COMPLETED" THEN state ELSE "FAILED", "failed")
  /\ UNCHANGED <<file, verified>>

Complete(r) ==
  /\ file[r] = "CHECKPOINTED"
  /\ Move(r, "CHECKPOINTED", "COMPLETED")
  /\ UNCHANGED <<file, verified, toolVars>>

ReturnCompleted(r) ==
  /\ At(r, "COMPLETED")
  /\ file[r] = "COMPLETED"
  /\ Finish(r, "COMPLETED", "completed")
  /\ UNCHANGED <<file, verified>>

Start(r) ==
  \/ AssembleContext(r) \/ Prepare(r) \/ RunAction(r)
  \/ ActionSucceeded(r) \/ ActionFailed(r) \/ Verify(r)
  \/ OpenFile(r) \/ WriteFile(r) \/ SaveFails(r)
  \/ Complete(r) \/ ReturnCompleted(r)

(***************************************************************************)
(* resume, from this process or another one, at any time                   *)
(***************************************************************************)
Resume(r) ==
  /\ result[r] # "none"
  /\ resumed' = [resumed EXCEPT ![r] =
       CASE file[r] = "COMPLETED" -> "completed"
         [] file[r] = "CHECKPOINTED" -> "blocked"
         [] OTHER -> "error"]
  /\ UNCHANGED <<active, state, result, file, verified, crashes, toolVars>>

(***************************************************************************)
(* The process dies, with the run, the executor's record and its orphans.  *)
(***************************************************************************)
Crash ==
  /\ crashes < MaxCrashes
  /\ crashes' = crashes + 1
  /\ active' = NoRun
  /\ result' = [r \in Run |-> IF r = active THEN "lost" ELSE result[r]]
  /\ calling' = NoRun
  /\ attempt' = 0
  /\ recorded' = {}
  /\ orphans' = [r \in Run |-> 0]
  /\ UNCHANGED <<state, file, resumed, verified, verdict, effects, failed, gaveUp, calls>>

ToolStep ==
  /\ \E r \in Run : Tool!ExecuteOnce(r) \/ Tool!OrphanEnds(r)
  /\ UNCHANGED ownVars

Next ==
  \/ \E r \in Run : Begin(r) \/ Start(r) \/ Resume(r)
  \/ ToolStep
  \/ Crash

(* The thread that called start steps on, and execute waits for its tool   *)
(* with a timeout.  Nothing is assumed of the tool, and no run has to be   *)
(* begun or resumed.                                                       *)
Fairness ==
  /\ WF_vars(\E r \in Run : Start(r))
  /\ WF_vars(\E r \in Run : Tool!TimeOut(r) /\ UNCHANGED ownVars)

Spec == Init /\ [][Next]_vars
FairSpec == Spec /\ Fairness

(***************************************************************************)
(* Properties                                                              *)
(***************************************************************************)
(* The controller never asks for a transition that ALLOWED_TRANSITIONS     *)
(* (state.py:21-39) refuses, on no path of success, failure or exception:  *)
(* the fallback that sets FAILED past the table (controller.py:176-177) is *)
(* never needed.                                                           *)
FollowsTable ==
  [][state' # state =>
       \/ state' \in Allowed[state]
       \/ active = NoRun /\ state' = "CREATED"]_vars

(* What start tells its caller agrees with what resume tells a later one:  *)
(* a completed run stays resumable as completed, one reported as failed or *)
(* blocked never turns up as completed (two saves, controller.py:117-151). *)
VerdictMatchesDisk ==
  \A r \in Run :
    /\ result[r] = "completed" => file[r] = "COMPLETED"
    /\ result[r] \in {"failed", "blocked"} =>
         file[r] # "COMPLETED" /\ resumed[r] # "completed"

(* Whatever crashes, resume reports a run as completed only if its tool    *)
(* took effect and the verifier passed the result.                         *)
ResumeTruthful ==
  \A r \in Run :
    resumed[r] \in {"completed", "blocked"} => r \in verified /\ effects[r] > 0

(* A run that is begun comes to an end, though its tool may hang. *)
RunEnds == \A r \in Run : active = r ~> active # r
=============================================================================
