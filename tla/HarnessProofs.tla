---------------------------- MODULE HarnessProofs ----------------------------
(***************************************************************************)
(* Proofs about HarnessLoop, for any finite set of runs, any number of     *)
(* attempts and any number of crashes.                                     *)
(***************************************************************************)
EXTENDS HarnessLoop, FiniteSetTheorems, TLAPS

(* Exactly the run that start is driving has no outcome yet. *)
OneActive == \A r \in Run : active = r <=> result[r] = "running"

(* From the tool's success on the active run has taken effect, and from    *)
(* the checkpoint on it is verified; its file agrees.                      *)
Done(r) == r \in verified /\ effects[r] > 0

Progress ==
  /\ \A r \in Run : active = r =>
       /\ state = "ACTION_RUNNING" /\ calling = NoRun /\ verdict = "success" => effects[r] > 0
       /\ state = "VERIFYING" => effects[r] > 0
       /\ state \in {"CHECKPOINTED", "COMPLETED"} => Done(r)
  /\ \A r \in Run : file[r] \in {"CHECKPOINTED", "COMPLETED"} => Done(r)

(* A file that says COMPLETED stays so: its run has been told so, was lost *)
(* in a crash, or is about to return.                                      *)
Settled ==
  \A r \in Run :
    /\ result[r] = "completed" => file[r] = "COMPLETED"
    /\ file[r] = "COMPLETED" =>
         result[r] \in {"completed", "lost"} \/ (active = r /\ state = "COMPLETED")
    /\ resumed[r] = "completed" => file[r] = "COMPLETED"

IInv == TypeOK /\ OneActive /\ Progress /\ Settled /\ ResumeTruthful

LEMMA LoopStates ==
  LoopState = {"CREATED", "CONTEXT_READY", "PLANNED", "ACTION_SELECTED", "ACTION_RUNNING",
               "RETRY_PENDING", "VERIFYING", "CHECKPOINTED", "COMPLETED", "BLOCKED",
               "FAILED", "ESCALATED"}
BY DEF LoopState, Allowed

LEMMA RunsAreCounted == Cardinality(Run) \in Nat
BY HarnessAssumption, FS_CardinalityType DEF HarnessAssumption

(* TypeOK without what it says of the tool. *)
OwnTypeOK ==
  /\ active \in Run \cup {NoRun}
  /\ state \in LoopState
  /\ result \in [Run -> {"none", "running", "completed", "failed", "blocked", "lost"}]
  /\ file \in [Run -> {"none", "torn", "CHECKPOINTED", "COMPLETED"}]
  /\ resumed \in [Run -> {"none", "completed", "blocked", "error"}]
  /\ verified \subseteq Run
  /\ crashes \in 0..MaxCrashes

Calls == calling # NoRun => calling = active /\ state = "ACTION_RUNNING"

LEMMA TypeParts ==
  /\ TypeOK <=> OwnTypeOK /\ Tool!TypeOK /\ Calls
  /\ TypeOK' <=> OwnTypeOK' /\ Tool!TypeOK' /\ Calls'
BY DEF TypeOK, OwnTypeOK, Calls

(***************************************************************************)
(* The tool                                                                *)
(***************************************************************************)
(* A run that fails is counted, and no effect is undone. *)
LEMMA RunFailsMoves ==
  ASSUME Tool!TypeOK, NEW a \in Run, Tool!RunFails(a)
  PROVE  /\ calling = a /\ UNCHANGED <<recorded, orphans, gaveUp>>
         /\ failed' \in [Run -> Nat] /\ effects' \in [Run -> Nat]
         /\ \A r \in Run : effects'[r] >= effects[r]
BY DEF Tool!TypeOK, Tool!RunFails, Tool!Bump

(* A step of execute, or of a tool left behind.  A call that comes to an   *)
(* end with a success has taken effect, and no effect is undone.           *)
LEMMA ToolMoves ==
  ASSUME Tool!TypeOK, NEW a \in Run, Tool!ExecuteOnce(a) \/ Tool!OrphanEnds(a)
  PROVE  /\ Tool!TypeOK'
         /\ \A r \in Run : effects'[r] >= effects[r]
         /\ \/ calling' = calling
            \/ calling' = NoRun /\ calling = a /\ (verdict' = "success" => effects'[a] > 0)
         /\ calling = NoRun => verdict' = verdict
<1> USE HarnessAssumption, RunsAreCounted
    DEF HarnessAssumption, Tool!TypeOK, Tool!Status, Tool!Failure, Tool!Bump, Tool!Return
<1>1. CASE Tool!Succeed(a)
  BY <1>1 DEF Tool!Succeed
<1>2. CASE Tool!Fail(a)
  <2>1. PICK status \in Tool!Failure :
          verdict' = status /\ calling' = NoRun /\ attempt' = 0 /\ UNCHANGED calls
    BY <1>2 DEF Tool!Fail
  <2>2. /\ calling = a /\ UNCHANGED <<recorded, orphans, gaveUp>>
        /\ failed' \in [Run -> Nat] /\ effects' \in [Run -> Nat]
        /\ \A r \in Run : effects'[r] >= effects[r]
    BY <1>2, RunFailsMoves DEF Tool!Fail
  <2>3. QED
    BY <2>1, <2>2
<1>3. CASE Tool!Retry(a)
  BY <1>3, RunFailsMoves DEF Tool!Retry, Tool!Retryable
<1>4. CASE Tool!GiveUp(a)
  BY <1>4, RunFailsMoves DEF Tool!GiveUp
<1>5. CASE Tool!TimeOut(a)
  BY <1>5 DEF Tool!TimeOut
<1>6. CASE Tool!OrphanEnds(a)
  BY <1>6 DEF Tool!OrphanEnds
<1>7. QED
  BY <1>1, <1>2, <1>3, <1>4, <1>5, <1>6 DEF Tool!ExecuteOnce

(***************************************************************************)
(* The invariant                                                           *)
(***************************************************************************)
LEMMA InitIInv == Init => IInv
<1> SUFFICES ASSUME Init
             PROVE  IInv
  OBVIOUS
<1> USE HarnessAssumption DEF HarnessAssumption, Init
<1>1. OwnTypeOK
  BY LoopStates DEF OwnTypeOK
<1>2. Tool!TypeOK /\ Calls
  BY RunsAreCounted DEF Tool!Init, Tool!TypeOK, Tool!Status, Calls
<1>3. OneActive /\ Progress /\ Settled /\ ResumeTruthful
  BY DEF OneActive, Progress, Settled, ResumeTruthful
<1>4. QED
  BY <1>1, <1>2, <1>3, TypeParts DEF IInv

LEMMA ToolStepKeeps == IInv /\ ToolStep => IInv'
<1> SUFFICES ASSUME IInv, ToolStep
             PROVE  IInv'
  OBVIOUS
<1>1. PICK a \in Run : Tool!ExecuteOnce(a) \/ Tool!OrphanEnds(a)
  BY DEF ToolStep
<1>2. /\ Tool!TypeOK'
      /\ \A r \in Run : effects'[r] >= effects[r]
      /\ \/ calling' = calling
         \/ calling' = NoRun /\ calling = a /\ (verdict' = "success" => effects'[a] > 0)
      /\ calling = NoRun => verdict' = verdict
  BY <1>1, ToolMoves DEF IInv, TypeOK
<1>3. UNCHANGED ownVars /\ effects \in [Run -> Nat] /\ effects' \in [Run -> Nat]
  BY <1>2 DEF ToolStep, IInv, TypeOK, Tool!TypeOK
<1>4. TypeOK'
  BY <1>2, <1>3 DEF IInv, TypeOK, ownVars
<1>5. \A r \in Run : effects[r] > 0 => effects'[r] > 0
  BY <1>2, <1>3
<1>6. Progress'
  <2>1. \A r \in Run : Done(r) => Done(r)'
    BY <1>3, <1>5 DEF Done, ownVars
  <2>2. ASSUME NEW r \in Run, active = r, state = "ACTION_RUNNING",
               calling' = NoRun, verdict' = "success"
        PROVE  effects'[r] > 0
    <3>1. CASE calling = NoRun
      BY <1>2, <1>5, <2>2, <3>1 DEF IInv, Progress
    <3>2. CASE calling # NoRun
      BY <1>2, <2>2, <3>2 DEF IInv, TypeOK
    <3>3. QED
      BY <3>1, <3>2
  <2>3. QED
    BY <1>3, <1>5, <2>1, <2>2 DEF IInv, Progress, ownVars
<1>7. OneActive' /\ Settled' /\ ResumeTruthful'
  BY <1>3, <1>5 DEF IInv, OneActive, Settled, ResumeTruthful, ownVars
<1>8. QED
  BY <1>4, <1>6, <1>7 DEF IInv

LEMMA BeginKeeps ==
  ASSUME IInv, NEW r \in Run, Begin(r)
  PROVE  IInv'
<1> USE HarnessAssumption DEF HarnessAssumption, IInv
<1>1. OwnTypeOK' /\ Tool!TypeOK' /\ Calls'
  <2>1. OwnTypeOK'
    BY LoopStates, TypeParts DEF Begin, OwnTypeOK
  <2>2. calling = NoRun /\ Tool!TypeOK'
    BY DEF Begin, TypeOK, Tool!TypeOK, toolVars
  <2>3. QED
    BY <2>1, <2>2 DEF Begin, Calls, toolVars
<1>2. OneActive'
  BY DEF Begin, OneActive, TypeOK
<1>3. Progress'
  BY DEF Begin, Progress, Done, toolVars
<1>4. Settled'
  BY DEF Begin, Settled, TypeOK
<1>5. ResumeTruthful'
  BY DEF Begin, ResumeTruthful, toolVars
<1>6. QED
  BY <1>1, <1>2, <1>3, <1>4, <1>5, TypeParts

LEMMA ResumeKeeps ==
  ASSUME IInv, NEW r \in Run, Resume(r)
  PROVE  IInv'
<1> USE HarnessAssumption DEF HarnessAssumption, IInv
<1>1. PICK answer \in {"completed", "blocked", "error"} :
        /\ resumed' = [resumed EXCEPT ![r] = answer]
        /\ answer = "completed" <=> file[r] = "COMPLETED"
        /\ answer = "blocked" <=> file[r] = "CHECKPOINTED"
  BY DEF Resume
<1>2. UNCHANGED <<active, state, result, file, verified, crashes, toolVars>>
  BY DEF Resume
<1>3. TypeOK'
  <2>1. OwnTypeOK'
    BY <1>1, <1>2, TypeParts DEF OwnTypeOK
  <2>2. Tool!TypeOK' /\ Calls'
    BY <1>2, TypeParts DEF Tool!TypeOK, Calls, toolVars
  <2>3. QED
    BY <2>1, <2>2, TypeParts
<1>4. OneActive' /\ Progress'
  BY <1>2 DEF OneActive, Progress, Done, toolVars
<1>5. /\ resumed'[r] = answer /\ \A q \in Run \ {r} : resumed'[q] = resumed[q]
  BY <1>1 DEF TypeOK
<1>6. Settled'
  BY <1>1, <1>2, <1>5 DEF Settled
<1>7. ResumeTruthful'
  BY <1>1, <1>2, <1>5 DEF ResumeTruthful, Progress, Done, toolVars
<1>8. QED
  BY <1>3, <1>4, <1>6, <1>7

LEMMA CrashKeeps == IInv /\ Crash => IInv'
<1> SUFFICES ASSUME IInv, Crash
             PROVE  IInv'
  OBVIOUS
<1> USE HarnessAssumption DEF HarnessAssumption, IInv
<1>1. /\ active' = NoRun /\ calling' = NoRun
      /\ result' = [r \in Run |-> IF r = active THEN "lost" ELSE result[r]]
      /\ UNCHANGED <<state, file, resumed, verified, verdict, effects, failed, gaveUp, calls>>
  BY DEF Crash
<1>2. OwnTypeOK'
  BY <1>1, TypeParts DEF OwnTypeOK, Crash
<1>3. Tool!TypeOK' /\ Calls'
  BY <1>1 DEF TypeOK, Tool!TypeOK, Crash, Calls
<1>4. OneActive'
  BY <1>1 DEF OneActive
<1>5. Progress' /\ ResumeTruthful'
  BY <1>1 DEF Progress, Done, ResumeTruthful
<1>6. Settled'
  BY <1>1 DEF Settled, OneActive
<1>7. QED
  BY <1>2, <1>3, <1>4, <1>5, <1>6, TypeParts

(* A step of start leaves every run but r as it is, and r's file says      *)
(* CHECKPOINTED or COMPLETED only after r is done.                         *)
OthersStay(r) ==
  /\ active' \in {r, NoRun}
  /\ \A q \in Run \ {r} : result'[q] = result[q] /\ file'[q] = file[q]
  /\ resumed' = resumed /\ effects' = effects
  /\ verified \subseteq verified'

LEMMA StartKeeps ==
  ASSUME IInv, NEW r \in Run, active = r, OthersStay(r), TypeOK',
         result'[r] = "running" <=> active' = r,
         active' = r =>
           /\ state' = "ACTION_RUNNING" /\ calling' = NoRun /\ verdict' = "success"
                => effects[r] > 0
           /\ state' = "VERIFYING" => effects[r] > 0
           /\ state' \in {"CHECKPOINTED", "COMPLETED"} => Done(r)',
         file'[r] \in {"CHECKPOINTED", "COMPLETED"} => Done(r)',
         result'[r] = "completed" => file'[r] = "COMPLETED",
         file'[r] = "COMPLETED" =>
           result'[r] = "completed" \/ (active' = r /\ state' = "COMPLETED"),
         file[r] = "COMPLETED" => file'[r] = "COMPLETED"
  PROVE  IInv'
<1> USE HarnessAssumption DEF HarnessAssumption, IInv, OthersStay
<1>1. OneActive'
  BY DEF OneActive
<1>2. \A q \in Run : Done(q) => Done(q)'
  BY DEF Done
<1>3. Progress'
  BY <1>2 DEF Progress
<1>4. Settled'
  BY DEF Settled
<1>5. ResumeTruthful'
  BY <1>2 DEF ResumeTruthful, Done
<1>6. QED
  BY <1>1, <1>3, <1>4, <1>5

(* While r is not done, or only checkpointed, its file does not say more.  *)
LEMMA FileBehind ==
  ASSUME IInv, NEW r \in Run, active = r, state # "COMPLETED"
  PROVE  file[r] # "COMPLETED"
BY DEF IInv, Settled, OneActive

(* start returns: the run has an outcome, and only then. *)
LEMMA FinishType ==
  ASSUME TypeOK, NEW r \in Run, active = r, NEW s \in LoopState,
         NEW status \in {"completed", "failed", "blocked"}, Finish(r, s, status),
         UNCHANGED <<file, verified>>, calling = NoRun
  PROVE  /\ TypeOK' /\ OthersStay(r)
         /\ active' = NoRun /\ result'[r] = status /\ file'[r] = file[r]
<1> USE HarnessAssumption DEF HarnessAssumption
<1>1. OwnTypeOK'
  BY TypeParts DEF OwnTypeOK, Finish
<1>2. Tool!TypeOK' /\ Calls'
  BY TypeParts DEF Tool!TypeOK, Calls, Finish, toolVars
<1>3. OthersStay(r) /\ result'[r] = status
  BY DEF OthersStay, Finish, toolVars, TypeOK
<1>4. QED
  BY <1>1, <1>2, <1>3, TypeParts DEF Finish

(* It goes on to another state, without the tool. *)
LEMMA MoveType ==
  ASSUME TypeOK, NEW r \in Run, NEW from \in LoopState, NEW to \in LoopState,
         Move(r, from, to), UNCHANGED <<file, toolVars>>, calling = NoRun,
         verified' \in {verified, verified \cup {r}}
  PROVE  TypeOK' /\ OthersStay(r)
<1>1. OwnTypeOK'
  BY TypeParts DEF OwnTypeOK, Move, At
<1>2. Tool!TypeOK' /\ Calls'
  BY TypeParts DEF Tool!TypeOK, Calls, Move, At, toolVars
<1>3. OthersStay(r)
  BY DEF OthersStay, Move, At, toolVars
<1>4. QED
  BY <1>1, <1>2, <1>3, TypeParts

(* The run fails or is blocked before its file says COMPLETED. *)
LEMMA FailKeeps ==
  ASSUME IInv, NEW r \in Run, active = r, NEW s \in LoopState,
         NEW status \in {"failed", "blocked"}, Finish(r, s, status),
         UNCHANGED <<file, verified>>, calling = NoRun, file[r] # "COMPLETED"
  PROVE  IInv'
<1>1. /\ TypeOK' /\ OthersStay(r)
      /\ active' = NoRun /\ result'[r] = status /\ file'[r] = file[r]
  BY FinishType DEF IInv
<1>2. file[r] = "CHECKPOINTED" => Done(r)'
  BY <1>1 DEF IInv, Progress, Done, OthersStay
<1>3. active' # r
  BY <1>1, HarnessAssumption DEF HarnessAssumption
<1>4. QED
  BY <1>1, <1>2, <1>3, StartKeeps

(* The run moves on to a state before the checkpoint. *)
LEMMA MoveKeeps ==
  ASSUME IInv, NEW r \in Run, NEW from \in LoopState \ {"COMPLETED"},
         NEW to \in LoopState \ {"COMPLETED"},
         Move(r, from, to), UNCHANGED <<file, toolVars>>, calling = NoRun,
         verified' \in {verified, verified \cup {r}},
         to = "ACTION_RUNNING" => FALSE,
         to = "VERIFYING" => effects[r] > 0,
         to = "CHECKPOINTED" => Done(r)'
  PROVE  IInv'
<1>1. TypeOK' /\ OthersStay(r)
  BY MoveType DEF IInv
<1>2. active = r /\ active' = r /\ state' = to /\ state # "COMPLETED"
      /\ result' = result /\ file' = file /\ result[r] = "running"
  BY DEF Move, At, IInv, OneActive
<1>3. file[r] # "COMPLETED"
  BY <1>2, FileBehind
<1>4. file[r] = "CHECKPOINTED" => Done(r)'
  BY <1>1 DEF IInv, Progress, Done, OthersStay
<1>5. QED
  BY <1>1, <1>2, <1>3, <1>4, StartKeeps

(***************************************************************************)
(* The steps of start                                                      *)
(***************************************************************************)
LEMMA StartStepKeeps ==
  ASSUME IInv, NEW r \in Run, Start(r)
  PROVE  IInv'
<1> USE DEF IInv
<1>0. /\ TypeOK /\ NoRun \notin Run
      /\ state # "ACTION_RUNNING" => calling = NoRun
      /\ active = r => result[r] = "running"
  BY HarnessAssumption DEF HarnessAssumption, TypeOK, OneActive
<1>1. CASE AssembleContext(r)
  <2>1. state = "CREATED" /\ active = r
    BY <1>1 DEF AssembleContext, Move, At, Finish
  <2>2. CASE Move(r, "CREATED", "CONTEXT_READY")
    <3>1. "CREATED" \in LoopState \ {"COMPLETED"} /\ "CONTEXT_READY" \in LoopState \ {"COMPLETED"}
      BY LoopStates
    <3>2. QED
      BY <1>0, <1>1, <2>1, <2>2, <3>1, MoveKeeps DEF AssembleContext
  <2>3. CASE Finish(r, "FAILED", "failed")
    <3>1. "FAILED" \in LoopState
      BY LoopStates
    <3>2. QED
      BY <1>0, <1>1, <2>1, <2>3, <3>1, FileBehind, FailKeeps DEF AssembleContext
  <2>4. QED
    BY <1>1, <2>2, <2>3 DEF AssembleContext
<1>2. CASE Prepare(r)
  <2>1. PICK from \in {"CONTEXT_READY", "PLANNED"}, to \in {"PLANNED", "ACTION_SELECTED"} :
          Move(r, from, to)
    BY <1>2 DEF Prepare
  <2>2. from \in LoopState \ {"COMPLETED"} /\ to \in LoopState \ {"COMPLETED"}
    BY LoopStates
  <2>3. calling = NoRun
    BY <1>0, <2>1 DEF Move, At
  <2>4. QED
    BY <1>2, <2>1, <2>2, <2>3, MoveKeeps DEF Prepare
<1>3. CASE RunAction(r)
  <2>1. /\ active = r /\ state = "ACTION_SELECTED" /\ state' = "ACTION_RUNNING"
        /\ UNCHANGED <<active, result, resumed, crashes, file, verified>>
        /\ Tool!Call(r)
    BY <1>3 DEF RunAction, Move, At
  <2>2. Tool!TypeOK' /\ calling' = r /\ effects' = effects
    BY <1>0, <2>1, HarnessAssumption, RunsAreCounted
       DEF HarnessAssumption, Tool!Call, Tool!Asked, TypeOK, Tool!TypeOK
  <2>3. TypeOK'
    <3>1. "ACTION_RUNNING" \in LoopState
      BY LoopStates
    <3>2. QED
      BY <2>1, <2>2, <3>1, TypeParts DEF OwnTypeOK, Calls
  <2>4. OthersStay(r)
    BY <2>1, <2>2 DEF OthersStay
  <2>5. file[r] # "COMPLETED"
    BY <2>1, FileBehind
  <2>6. file'[r] = "CHECKPOINTED" => Done(r)'
    BY <2>1, <2>2 DEF Progress, Done
  <2>7. QED
    BY <1>0, <2>1, <2>2, <2>3, <2>4, <2>5, <2>6, StartKeeps
<1>4. CASE ActionSucceeded(r)
  <2>1. /\ "ACTION_RUNNING" \in LoopState \ {"COMPLETED"}
        /\ "VERIFYING" \in LoopState \ {"COMPLETED"}
    BY LoopStates
  <2>2. effects[r] > 0
    BY <1>4 DEF ActionSucceeded, Move, At, Progress
  <2>3. QED
    BY <1>4, <2>1, <2>2, MoveKeeps DEF ActionSucceeded
<1>5. CASE ActionFailed(r)
  <2>1. active = r /\ state = "ACTION_RUNNING" /\ calling = NoRun
        /\ UNCHANGED <<file, verified>>
    BY <1>5 DEF ActionFailed, At
  <2>2. PICK s \in {"BLOCKED", "FAILED"}, status \in {"blocked", "failed"} :
          Finish(r, s, status)
    BY <1>5 DEF ActionFailed
  <2>3. s \in LoopState
    BY LoopStates
  <2>4. QED
    BY <2>1, <2>2, <2>3, FileBehind, FailKeeps
<1>6. CASE Verify(r)
  <2>1. active = r /\ state = "VERIFYING" /\ calling = NoRun /\ UNCHANGED <<file, toolVars>>
    BY <1>0, <1>6 DEF Verify, Move, At
  <2>2. CASE Move(r, "VERIFYING", "CHECKPOINTED") /\ verified' = verified \cup {r}
    <3>1. /\ "VERIFYING" \in LoopState \ {"COMPLETED"}
          /\ "CHECKPOINTED" \in LoopState \ {"COMPLETED"}
      BY LoopStates
    <3>2. Done(r)'
      BY <2>1, <2>2 DEF Done, Progress, toolVars
    <3>3. QED
      BY <2>1, <2>2, <3>1, <3>2, MoveKeeps
  <2>3. CASE Finish(r, "FAILED", "failed") /\ UNCHANGED verified
    <3>1. "FAILED" \in LoopState
      BY LoopStates
    <3>2. QED
      BY <2>1, <2>3, <3>1, FileBehind, FailKeeps
  <2>4. QED
    BY <1>6, <2>2, <2>3 DEF Verify
<1>7. CASE OpenFile(r) \/ WriteFile(r)
  <2>1. /\ active = r /\ state \in {"CHECKPOINTED", "COMPLETED"} /\ file[r] # state
        /\ UNCHANGED <<active, state, result, resumed, verified, crashes, toolVars>>
        /\ \E new \in {"torn", state} : file' = [file EXCEPT ![r] = new]
    BY <1>7 DEF OpenFile, WriteFile, Saving
  <2>2. PICK new \in {"torn", state} : file' = [file EXCEPT ![r] = new]
    BY <2>1
  <2>3. file'[r] = new /\ \A q \in Run \ {r} : file'[q] = file[q]
    BY <2>2 DEF TypeOK
  <2>4. TypeOK'
    <3>1. OwnTypeOK'
      BY <2>1, <2>2, TypeParts DEF OwnTypeOK
    <3>2. Tool!TypeOK' /\ Calls'
      BY <2>1, TypeParts DEF Tool!TypeOK, Calls, toolVars
    <3>3. QED
      BY <3>1, <3>2, TypeParts
  <2>5. OthersStay(r) /\ Done(r)'
    BY <2>1, <2>3 DEF OthersStay, Done, Progress, toolVars
  <2>6. file[r] # "COMPLETED"
    BY <2>1, FileBehind
  <2>7. QED
    BY <1>0, <2>1, <2>3, <2>4, <2>5, <2>6, StartKeeps
<1>8. CASE SaveFails(r)
  <2>1. /\ active = r /\ state \in {"CHECKPOINTED", "COMPLETED"} /\ file[r] # state
        /\ calling = NoRun /\ UNCHANGED <<file, verified>>
    BY <1>0, <1>8 DEF SaveFails, Saving
  <2>2. PICK s \in {"COMPLETED", "FAILED"} : Finish(r, s, "failed")
    BY <1>8, <2>1 DEF SaveFails
  <2>3. s \in LoopState
    BY LoopStates
  <2>4. file[r] # "COMPLETED"
    BY <2>1, FileBehind
  <2>5. QED
    BY <2>1, <2>2, <2>3, <2>4, FailKeeps
<1>9. CASE Complete(r)
  <2>1. /\ active = r /\ state = "CHECKPOINTED" /\ state' = "COMPLETED"
        /\ file[r] = "CHECKPOINTED" /\ Move(r, "CHECKPOINTED", "COMPLETED")
        /\ UNCHANGED <<active, result, file, verified, toolVars>> /\ calling = NoRun
    BY <1>0, <1>9 DEF Complete, Move, At
  <2>2. "CHECKPOINTED" \in LoopState /\ "COMPLETED" \in LoopState
    BY LoopStates
  <2>3. TypeOK' /\ OthersStay(r)
    BY <2>1, <2>2, MoveType
  <2>4. Done(r)'
    BY <2>1 DEF Progress, Done, toolVars
  <2>5. QED
    BY <1>0, <2>1, <2>3, <2>4, StartKeeps
<1>10. CASE ReturnCompleted(r)
  <2>1. /\ active = r /\ state = "COMPLETED" /\ file[r] = "COMPLETED" /\ calling = NoRun
        /\ Finish(r, "COMPLETED", "completed") /\ UNCHANGED <<file, verified>>
    BY <1>0, <1>10 DEF ReturnCompleted, At
  <2>2. "COMPLETED" \in LoopState
    BY LoopStates
  <2>3. /\ TypeOK' /\ OthersStay(r)
        /\ active' = NoRun /\ result'[r] = "completed" /\ file'[r] = file[r]
    BY <2>1, <2>2, FinishType
  <2>4. Done(r)'
    BY <2>1, <2>3 DEF Progress, Done, OthersStay
  <2>5. QED
    BY <1>0, <2>1, <2>3, <2>4, StartKeeps
<1>11. QED
  BY <1>1, <1>2, <1>3, <1>4, <1>5, <1>6, <1>7, <1>8, <1>9, <1>10 DEF Start

LEMMA NextIInv == IInv /\ [Next]_vars => IInv'
<1> SUFFICES ASSUME IInv, [Next]_vars
             PROVE  IInv'
  OBVIOUS
<1>1. CASE Next
  BY <1>1, BeginKeeps, StartStepKeeps, ResumeKeeps, ToolStepKeeps, CrashKeeps DEF Next
<1>2. CASE UNCHANGED vars
  BY <1>2 DEF vars, ownVars, toolVars, IInv, TypeOK, Tool!TypeOK, OneActive, Progress, Done,
              Settled, ResumeTruthful
<1>3. QED
  BY <1>1, <1>2

LEMMA SpecIInv == Spec => []IInv
BY InitIInv, NextIInv, PTL DEF Spec

(* TypeOK of HarnessLoop, for any runs: the executor is only ever called   *)
(* for the active run, in ACTION_RUNNING.                                  *)
THEOREM HarnessTypeCorrect == Spec => []TypeOK
<1>1. IInv => TypeOK
  BY DEF IInv
<1>2. QED
  BY <1>1, SpecIInv, PTL

(* VerdictMatchesDisk: a run reported as completed stays resumable as      *)
(* completed, one reported as failed or blocked never turns up as such.    *)
THEOREM HarnessVerdictMatchesDisk == Spec => []VerdictMatchesDisk
<1>1. IInv => VerdictMatchesDisk
  <2> SUFFICES ASSUME IInv, NEW r \in Run
               PROVE  /\ result[r] = "completed" => file[r] = "COMPLETED"
                      /\ result[r] \in {"failed", "blocked"} =>
                           file[r] # "COMPLETED" /\ resumed[r] # "completed"
    BY DEF VerdictMatchesDisk
  <2>1. QED
    BY DEF IInv, Settled, OneActive
<1>2. QED
  BY <1>1, SpecIInv, PTL

(* ResumeTruthful: whatever crashes, resume reports only runs whose tool   *)
(* took effect and whose result was verified.                              *)
THEOREM HarnessResumeTruthful == Spec => []ResumeTruthful
<1>1. IInv => ResumeTruthful
  BY DEF IInv
<1>2. QED
  BY <1>1, SpecIInv, PTL

(* FollowsTable: no path of success, failure or exception asks for a       *)
(* transition that ALLOWED_TRANSITIONS refuses.                            *)
THEOREM HarnessFollowsTable == Spec => FollowsTable
<1>1. ASSUME Next, state' # state
      PROVE  state' \in Allowed[state] \/ (active = NoRun /\ state' = "CREATED")
  <2>1. ASSUME NEW r \in Run, Begin(r)
        PROVE  active = NoRun /\ state' = "CREATED"
    BY <2>1 DEF Begin
  <2>2. ASSUME NEW r \in Run, AssembleContext(r) \/ Prepare(r) \/ RunAction(r)
        PROVE  state' \in Allowed[state]
    BY <2>2 DEF AssembleContext, Prepare, RunAction, Move, At, Finish, Allowed
  <2>3. ASSUME NEW r \in Run, ActionSucceeded(r) \/ ActionFailed(r) \/ Verify(r)
        PROVE  state' \in Allowed[state]
    BY <2>3 DEF ActionSucceeded, ActionFailed, Verify, Move, At, Finish, Allowed
  <2>4. ASSUME NEW r \in Run,
               \/ OpenFile(r) \/ WriteFile(r) \/ SaveFails(r)
               \/ Complete(r) \/ ReturnCompleted(r)
        PROVE  state' \in Allowed[state]
    BY <1>1, <2>4
       DEF OpenFile, WriteFile, SaveFails, Saving, Complete, ReturnCompleted, Move, At, Finish,
           Allowed
  <2>5. ~ (\E r \in Run : Resume(r)) /\ ~ ToolStep /\ ~ Crash
    BY <1>1 DEF Resume, ToolStep, ownVars, Crash
  <2>6. QED
    BY <1>1, <2>1, <2>2, <2>3, <2>4, <2>5 DEF Next, Start
<1>2. [Next]_vars => [state' # state =>
                        \/ state' \in Allowed[state]
                        \/ active = NoRun /\ state' = "CREATED"]_vars
  BY <1>1
<1>3. QED
  BY <1>2, PTL DEF Spec, FollowsTable
=============================================================================
