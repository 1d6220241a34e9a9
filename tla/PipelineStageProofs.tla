------------------------- MODULE PipelineStageProofs -------------------------
(* Theorems about PipelineStage, for any number of steps, runs and          *)
(* exceptions.                                                              *)
EXTENDS PipelineStage, TLAPS

Sequential == executionMode = "SEQUENTIAL"
Answered == {"true", "false"}

\* A run counts as thrown once its thread has left.
ThrowsCounted == pc # "threw" => throws < runs

\* Where the steps can be while the stage is where it is.
AtRest ==
  /\ pc = "begin" => next = 1 /\ allSuccess /\ \A s \in Steps : step[s] = "idle"
  /\ pc = "steps" /\ ~Sequential => \A s \in Steps : step[s] # "idle"
  /\ pc \in {"write", "returned", "threw"} => \A s \in Steps : step[s] \in Ended \cup {"idle"}
  /\ pc \in {"write", "returned"} => next = M + 1 \/ ~Sequential

\* The for-loop of a SEQUENTIAL stage: the steps behind the index have answered or
\* were passed by the break, those before it have not begun.
Loop ==
  Sequential =>
    /\ \A s \in Steps : s < next => step[s] \in Answered \cup {"idle"}
    /\ \A s \in Steps : s < next /\ next <= M =>
         step[s] = "true" \/ (step[s] = "false" /\ continueOnFailure[s])
    /\ \A s \in Steps : s > next => step[s] = "idle"
    /\ allSuccess <=> \A s \in Steps : s < next => step[s] = "true"

\* The verdict, from the moment it is there.
Verdict ==
  /\ pc \in {"write", "returned"} =>
       (allSuccess <=> \A s \in Steps : step[s] = "true" \/ (step[s] = "threw" /\ ~Sequential))
  /\ pc = "returned" => success = allSuccess /\ (stageStatus = "SUCCESS" <=> allSuccess)

\* A step's row follows its thread, unless an exception has left the step.
RowFollows(s) ==
  /\ step[s] \in {"idle", "begin"} => stepStatus[s] # "RUNNING"
  /\ step[s] \in {"succeeded", "true"} => stepStatus[s] = "SUCCESS"
  /\ step[s] \in {"failed", "reported", "false"} => stepStatus[s] = "FAILED"
  /\ step[s] # "threw"

Rows == \A s \in Steps \ escaped : RowFollows(s)

IInv ==
  /\ TypeOK /\ ThrowsCounted /\ AtRest /\ Loop /\ Verdict /\ Rows /\ FailureEndsSequence

-----------------------------------------------------------------------------
(* The stage's own steps.                                                  *)

LEMMA IInvInit == Init => IInv
<1> SUFFICES ASSUME Init PROVE IInv
  OBVIOUS
<1> USE StepsAssumption, RunsAssumption DEF Init, Steps
<1>1. TypeOK
  <2>1. next \in 1 .. M + 1 /\ runs \in 1 .. MaxRuns /\ faults \in 0 .. MaxFaults /\ throws \in 0 .. runs
    OBVIOUS
  <2>2. step \in [Steps -> StepPC] /\ stepStatus \in [Steps -> Status]
    BY DEF StepPC, Status
  <2> QED BY <2>1, <2>2 DEF TypeOK, StagePC, Status
<1>2. ThrowsCounted /\ AtRest /\ Loop /\ Verdict
  BY DEF ThrowsCounted, AtRest, Loop, Verdict
<1>3. Rows /\ FailureEndsSequence
  BY DEF Rows, RowFollows, FailureEndsSequence
<1> QED BY <1>1, <1>2, <1>3 DEF IInv

LEMMA StageBeginsKeeps == IInv /\ StageBegins => IInv'
<1> SUFFICES ASSUME IInv, StageBegins PROVE IInv'
  OBVIOUS
<1> USE StepsAssumption, RunsAssumption DEF IInv, StageBegins, historyUnchanged, config
<1>1. TypeOK'
  BY DEF TypeOK, StagePC, StepPC, Status
<1>2. ThrowsCounted' /\ AtRest'
  BY DEF ThrowsCounted, AtRest, Sequential, TypeOK
<1>3. Loop' /\ Verdict'
  BY DEF Loop, Verdict, AtRest, Sequential, TypeOK, Steps
<1>4. Rows' /\ FailureEndsSequence'
  BY DEF Rows, RowFollows, FailureEndsSequence, AtRest
<1> QED BY <1>1, <1>2, <1>3, <1>4

LEMMA CallStepKeeps == IInv /\ CallStep => IInv'
<1> SUFFICES ASSUME IInv, CallStep PROVE IInv'
  OBVIOUS
<1> USE StepsAssumption, RunsAssumption DEF IInv, CallStep, historyUnchanged, config
<1>0. next \in Steps
  BY DEF TypeOK, Steps
<1>1. TypeOK'
  BY <1>0 DEF TypeOK, StagePC, StepPC, Status
<1>2. ThrowsCounted' /\ AtRest' /\ Verdict'
  BY DEF ThrowsCounted, AtRest, Verdict, Sequential, TypeOK
<1>3. Loop'
  BY <1>0 DEF Loop, Sequential, TypeOK, Steps
<1>4. Rows'
  BY <1>0 DEF Rows, RowFollows, TypeOK
<1>5. FailureEndsSequence'
  BY <1>0 DEF FailureEndsSequence, Loop, Sequential, TypeOK, Steps
<1> QED BY <1>1, <1>2, <1>3, <1>4, <1>5

LEMMA StepReturnedKeeps == IInv /\ StepReturned => IInv'
<1> SUFFICES ASSUME IInv, StepReturned PROVE IInv'
  OBVIOUS
<1> USE StepsAssumption, RunsAssumption DEF IInv, StepReturned, historyUnchanged, config
<1>0. next \in Steps
  BY DEF TypeOK, Steps
<1>1. TypeOK'
  BY <1>0 DEF TypeOK, StagePC, StepPC, Status, Steps
<1>2. ThrowsCounted' /\ AtRest' /\ Verdict'
  BY DEF ThrowsCounted, AtRest, Verdict, Sequential, TypeOK
<1>3. Loop'
  <2>1. CASE step[next] = "true" \/ continueOnFailure[next]
    <3>1. next' = next + 1 /\ next \in Nat /\ \A s \in Steps : s < next' <=> s < next \/ s = next
      BY <1>0, <2>1 DEF TypeOK, Steps
    <3>2. step[next] = "true" \/ (step[next] = "false" /\ continueOnFailure[next])
      BY <2>1
    <3>3. allSuccess' <=> \A s \in Steps : s < next' => step[s] = "true"
      BY <1>0, <3>1 DEF Loop, Sequential, TypeOK
    <3>4. \A s \in Steps : s < next' =>
            step[s] \in Answered \cup {"idle"} /\ (step[s] = "true" \/ (step[s] = "false" /\ continueOnFailure[s]))
      BY <1>0, <3>1, <3>2 DEF Loop, Sequential, Answered
    <3>5. \A s \in Steps : s > next' => step[s] = "idle"
      BY <1>0, <3>1 DEF Loop, Sequential, Steps
    <3> QED BY <3>3, <3>4, <3>5 DEF Loop, Sequential
  <2>2. CASE ~(step[next] = "true" \/ continueOnFailure[next])
    BY <1>0, <2>2 DEF Loop, Sequential, TypeOK, Steps, Answered
  <2> QED BY <2>1, <2>2
<1>4. Rows' /\ FailureEndsSequence'
  BY DEF Rows, RowFollows, FailureEndsSequence
<1> QED BY <1>1, <1>2, <1>3, <1>4

\* The thread of a SEQUENTIAL step is the stage's: the others are at rest.
LEMMA StepEscapesKeeps == IInv /\ StepEscapes => IInv'
<1> SUFFICES ASSUME IInv, StepEscapes PROVE IInv'
  OBVIOUS
<1> USE StepsAssumption, RunsAssumption DEF IInv, StepEscapes, config
<1>0. next \in Steps
  BY DEF TypeOK, Steps
<1>1. TypeOK'
  BY DEF TypeOK, ThrowsCounted, StagePC, StepPC, Status
<1>2. ThrowsCounted' /\ Verdict' /\ Loop'
  BY DEF ThrowsCounted, Verdict, Loop, Sequential
<1>3. AtRest'
  BY <1>0 DEF AtRest, Loop, Sequential, TypeOK, Steps, Answered, Ended
<1>4. Rows' /\ FailureEndsSequence'
  BY DEF Rows, RowFollows, FailureEndsSequence
<1> QED BY <1>1, <1>2, <1>3, <1>4

LEMMA EndLoopKeeps == IInv /\ EndLoop => IInv'
<1> SUFFICES ASSUME IInv, EndLoop PROVE IInv'
  OBVIOUS
<1> USE StepsAssumption, RunsAssumption DEF IInv, EndLoop, historyUnchanged, config
<1>0. next = M + 1 /\ \A s \in Steps : s < next
  BY DEF TypeOK, Steps
<1>1. TypeOK' /\ ThrowsCounted'
  BY DEF TypeOK, ThrowsCounted, StagePC
<1>2. AtRest'
  BY <1>0 DEF AtRest, Loop, Sequential, Answered, Ended
<1>3. Loop'
  BY DEF Loop, Sequential
<1>4. Verdict'
  BY <1>0 DEF Verdict, Loop, Sequential
<1>5. Rows' /\ FailureEndsSequence'
  BY DEF Rows, RowFollows, FailureEndsSequence
<1> QED BY <1>1, <1>2, <1>3, <1>4, <1>5

LEMMA JoinThreadsKeeps == IInv /\ JoinThreads => IInv'
<1> SUFFICES ASSUME IInv, JoinThreads PROVE IInv'
  OBVIOUS
<1> USE StepsAssumption, RunsAssumption DEF IInv, JoinThreads, historyUnchanged, config
<1>1. TypeOK' /\ ThrowsCounted'
  BY DEF TypeOK, ThrowsCounted, StagePC
<1>2. AtRest' /\ Loop'
  BY DEF AtRest, Loop, Sequential
<1>3. Verdict'
  BY DEF Verdict, Sequential, Ended
<1>4. Rows' /\ FailureEndsSequence'
  BY DEF Rows, RowFollows, FailureEndsSequence
<1> QED BY <1>1, <1>2, <1>3, <1>4

LEMMA WriteStageKeeps == IInv /\ WriteStage => IInv'
<1> SUFFICES ASSUME IInv, WriteStage PROVE IInv'
  OBVIOUS
<1> USE StepsAssumption, RunsAssumption DEF IInv, WriteStage, historyUnchanged, config
<1>1. TypeOK' /\ ThrowsCounted'
  BY DEF TypeOK, ThrowsCounted, StagePC, Status
<1>2. AtRest' /\ Loop'
  BY DEF AtRest, Loop, Sequential
<1>3. Verdict'
  BY DEF Verdict, Sequential
<1>4. Rows' /\ FailureEndsSequence'
  BY DEF Rows, RowFollows, FailureEndsSequence
<1> QED BY <1>1, <1>2, <1>3, <1>4

LEMMA StageThrowsKeeps == IInv /\ StageThrows => IInv'
<1> SUFFICES ASSUME IInv, StageThrows PROVE IInv'
  OBVIOUS
<1> USE StepsAssumption, RunsAssumption DEF IInv, StageThrows, Fault, config
<1>1. TypeOK' /\ ThrowsCounted'
  BY DEF TypeOK, ThrowsCounted, StagePC
<1>2. AtRest' /\ Loop' /\ Verdict'
  BY DEF AtRest, Loop, Verdict, Sequential
<1>3. Rows' /\ FailureEndsSequence'
  BY DEF Rows, RowFollows, FailureEndsSequence
<1> QED BY <1>1, <1>2, <1>3

\* A step that has not come back was left by an exception: the rows of the others
\* are not RUNNING when the next run finds them.
LEMMA RunAgainKeeps == IInv /\ RunAgain => IInv'
<1> SUFFICES ASSUME IInv, RunAgain PROVE IInv'
  OBVIOUS
<1> USE StepsAssumption, RunsAssumption DEF IInv, RunAgain, config
<1>1. TypeOK'
  BY DEF TypeOK, StagePC, StepPC
<1>2. ThrowsCounted'
  BY DEF ThrowsCounted, TypeOK
<1>3. AtRest' /\ Verdict'
  BY DEF AtRest, Verdict, Sequential
<1>4. Loop' /\ FailureEndsSequence'
  BY DEF Loop, FailureEndsSequence, Sequential, Steps
<1>5. Rows'
  BY DEF Rows, RowFollows, AtRest, Ended
<1> QED BY <1>1, <1>2, <1>3, <1>4, <1>5

-----------------------------------------------------------------------------
(* The steps of executeStep.                                               *)

\* What a move of one step has to respect, wherever the stage is.
LEMMA MoveKeeps ==
  ASSUME IInv, NEW s \in Steps, NEW to \in StepPC \ {"idle"},
         step[s] \notin {"idle"} \cup Ended,
         stageUnchanged, UNCHANGED <<runs, throws>>,
         step' = [step EXCEPT ![s] = to],
         stepStatus' \in [Steps -> Status], faults' \in 0 .. MaxFaults,
         escaped' \subseteq Steps, escaped \subseteq escaped',
         \A t \in Steps \ {s} : stepStatus'[t] = stepStatus[t],
         s \notin escaped' => RowFollows(s)'
  PROVE  IInv'
<1> USE StepsAssumption, RunsAssumption DEF IInv, stageUnchanged, config
<1>1. TypeOK'
  BY DEF TypeOK
<1>2. ThrowsCounted'
  BY DEF ThrowsCounted
<1>3. pc = "steps"
  BY DEF AtRest, TypeOK, StagePC
<1>4. AtRest' /\ Verdict'
  BY <1>3 DEF AtRest, Verdict, Sequential, TypeOK
<1>5. Sequential => s = next
  BY DEF Loop, Sequential, Answered, Ended, TypeOK, Steps
<1>6. Loop'
  BY <1>5 DEF Loop, Sequential, TypeOK, Steps
<1>7. Rows'
  <2> SUFFICES ASSUME NEW t \in Steps \ escaped' PROVE RowFollows(t)'
    BY DEF Rows
  <2>1. CASE t = s
    BY <2>1
  <2>2. CASE t # s
    BY <2>2 DEF Rows, RowFollows, TypeOK
  <2> QED BY <2>1, <2>2
<1>8. FailureEndsSequence'
  BY <1>5 DEF FailureEndsSequence, Loop, Sequential, TypeOK, Steps
<1> QED BY <1>1, <1>2, <1>4, <1>6, <1>7, <1>8

LEMMA StepKeeps ==
  ASSUME IInv, NEW s \in Steps, Step(s)
  PROVE  IInv'
<1> USE DEF IInv, historyUnchanged, MoveStep, SetRow, StepPC, Tried, Caught, Ended, Status
<1>0. /\ step \in [Steps -> StepPC] /\ stepStatus \in [Steps -> Status]
      /\ faults \in 0 .. MaxFaults /\ escaped \subseteq Steps /\ MaxFaults \in Nat
      /\ s \notin escaped => RowFollows(s)
  BY RunsAssumption DEF TypeOK, Rows
<1>1. CASE StepBegins(s)
  BY <1>0, <1>1, MoveKeeps DEF StepBegins, RowFollows
<1>2. CASE StepEnds(s)
  <2>1. CASE step'[s] = "succeeded"
    BY <1>0, <1>2, <2>1, MoveKeeps DEF StepEnds, RowFollows
  <2>2. CASE step'[s] = "failed"
    BY <1>0, <1>2, <2>2, MoveKeeps DEF StepEnds, RowFollows
  <2> QED BY <1>0, <1>2, <2>1, <2>2 DEF StepEnds
<1>3. CASE StepReturns(s)
  BY <1>0, <1>3, MoveKeeps DEF StepReturns, RowFollows
<1>4. CASE StepFaults(s)
  <2>1. faults' \in 0 .. MaxFaults
    BY <1>0, <1>4 DEF StepFaults, Fault
  <2>2. s \notin escaped => RowFollows(s)'
    BY <1>0, <1>4 DEF StepFaults, RowFollows
  <2> QED BY <1>0, <1>4, <2>1, <2>2, MoveKeeps DEF StepFaults
<1>5. CASE WriteStepFailed(s)
  BY <1>0, <1>5, MoveKeeps DEF WriteStepFailed, RowFollows
<1>6. CASE StepReturnsFalse(s)
  BY <1>0, <1>6, MoveKeeps DEF StepReturnsFalse, RowFollows
<1>7. CASE StepThrows(s)
  <2>1. faults' \in 0 .. MaxFaults
    BY <1>0, <1>7 DEF StepThrows, Fault
  <2> QED BY <1>0, <1>7, <2>1, MoveKeeps DEF StepThrows
<1> QED BY <1>1, <1>2, <1>3, <1>4, <1>5, <1>6, <1>7 DEF Step

-----------------------------------------------------------------------------
LEMMA StutterKeeps == IInv /\ UNCHANGED vars => IInv'
  BY DEF IInv, vars, config, TypeOK, ThrowsCounted, AtRest, Loop, Verdict, Rows, RowFollows,
     FailureEndsSequence, Sequential

\* The inductive invariant: where the steps can be while the stage is where it is,
\* what the loop has decided, and what each row says of its step's thread.
THEOREM Invariance == Spec => []IInv
<1>1. IInv /\ [Next]_vars => IInv'
  BY StageBeginsKeeps, CallStepKeeps, StepReturnedKeeps, StepEscapesKeeps, EndLoopKeeps,
     JoinThreadsKeeps, WriteStageKeeps, StageThrowsKeeps, RunAgainKeeps, StepKeeps,
     StutterKeeps DEF Next, Stage
<1> QED BY IInvInit, <1>1, PTL DEF Spec

\* The variables keep their types, for any number of steps, runs and exceptions.
THEOREM TypeCorrect == Spec => []TypeOK
<1>1. IInv => TypeOK
  BY DEF IInv
<1> QED BY <1>1, Invariance, PTL

\* executeStage returns the conjunction of its steps' answers, for any flags, and no
\* step still runs: a PARALLEL step that threw is the only one that may be missing.
THEOREM ReturnsConjunction == Spec => []VerdictIsConjunction
<1>1. IInv => VerdictIsConjunction
  BY DEF IInv, TypeOK, AtRest, Verdict, VerdictIsConjunction, Sequential
<1> QED BY <1>1, Invariance, PTL

\* The for-loop starts a step only behind steps that succeeded or may be passed.
THEOREM SequenceStops == Spec => []FailureEndsSequence
<1>1. IInv => FailureEndsSequence
  BY DEF IInv
<1> QED BY <1>1, Invariance, PTL

\* The stored rows of a stage that has returned agree with what it returned, after
\* any number of runs, except for steps an exception has left.
THEOREM RowsAgree == Spec => []ReturnedRowsAgree
<1>1. IInv => ReturnedRowsAgree
  BY DEF IInv, AtRest, Verdict, Rows, RowFollows, ReturnedRowsAgree, Sequential, Ended
<1> QED BY <1>1, Invariance, PTL

-----------------------------------------------------------------------------
(* The stage's thread as the engine sees it.                               *)

\* What a change of one entry does to a tuple of one.
LEMMA OneTuple == \A x, y : [<<x>> EXCEPT ![1] = y] = <<y>>
  OBVIOUS

\* The variables the engine's view of the stage depends on.
seen == <<pc \in {"steps", "write"}, pc = "returned", pc = "threw",
          success, stageStatus, runs, throws>>

EngineStep ==
  Engine!StageBegins(1) \/ Engine!StageEnds(1) \/ Engine!StageThrows(1) \/ RunAgain

LEMMA MapsStageBegins == StageBegins => Engine!StageBegins(1)
<1> SUFFICES ASSUME StageBegins PROVE Engine!StageBegins(1)
  OBVIOUS
<1>1. pc = "begin" /\ pc' = "steps" /\ stageStatus' = "RUNNING" /\ UNCHANGED <<success, runs, throws>>
  BY DEF StageBegins, historyUnchanged
<1> QED BY <1>1, OneTuple DEF Engine!StageBegins, Engine!MoveThread, Engine!shared, Engine!history,
     Engine!coordinatorUnchanged, Engine!rows, Engine!locals

\* The engine's verdict is any Boolean: here it is allSuccess.
LEMMA MapsWriteStage == TypeOK /\ WriteStage => Engine!StageEnds(1)
<1> SUFFICES ASSUME TypeOK, WriteStage PROVE Engine!StageEnds(1)
  OBVIOUS
<1>1. /\ pc = "write" /\ pc' = "returned" /\ UNCHANGED <<runs, throws>>
      /\ allSuccess \in BOOLEAN
      /\ success' = allSuccess
      /\ stageStatus' = IF allSuccess THEN "SUCCESS" ELSE "FAILED"
  BY DEF WriteStage, historyUnchanged, TypeOK
<1>2. Engine!MoveThread(1, "running", "verdict")
  BY <1>1, OneTuple DEF Engine!MoveThread
<1>3. \E v \in BOOLEAN :
        /\ <<success>>' = [<<success>> EXCEPT ![1] = v]
        /\ <<stageStatus>>' = [<<stageStatus>> EXCEPT ![1] = IF v THEN "SUCCESS" ELSE "FAILED"]
  <2> USE <1>1
  <2> WITNESS allSuccess \in BOOLEAN
  <2> QED BY OneTuple
<1> QED BY <1>1, <1>2, <1>3 DEF Engine!StageEnds, Engine!shared, Engine!history,
     Engine!coordinatorUnchanged, Engine!rows, Engine!locals

\* An exception of the stage's own, or of a SEQUENTIAL step: the count of throws is
\* below the bound because the run has not thrown yet.
LEMMA MapsThrow ==
  ASSUME TypeOK, ThrowsCounted, pc \in {"begin", "steps", "write"}, pc' = "threw",
         throws' = throws + 1, UNCHANGED <<success, stageStatus, runs>>
  PROVE  Engine!StageThrows(1)
<1>1. throws < MaxRuns
  BY RunsAssumption DEF TypeOK, ThrowsCounted
<1> QED BY <1>1, OneTuple DEF Engine!StageThrows, Engine!shared,
     Engine!coordinatorUnchanged, Engine!rows, Engine!locals

\* The steps of the loop, the join and the steps' threads are inside "running".
LEMMA StepsUnseen ==
  ASSUME CallStep \/ StepReturned \/ EndLoop \/ JoinThreads \/ \E s \in Steps : Step(s)
  PROVE  UNCHANGED seen
<1>1. CASE CallStep \/ StepReturned
  BY <1>1 DEF CallStep, StepReturned, historyUnchanged, seen
<1>2. CASE EndLoop \/ JoinThreads
  <2>1. /\ pc = "steps" /\ pc' = "write"
        /\ UNCHANGED <<success, stageStatus, runs, throws>>
    BY <1>2 DEF EndLoop, JoinThreads, historyUnchanged
  <2>2. /\ (pc \in {"steps", "write"}) = (pc' \in {"steps", "write"})
        /\ (pc = "returned") = (pc' = "returned") /\ (pc = "threw") = (pc' = "threw")
    BY <2>1
  <2> QED BY <2>1, <2>2 DEF seen
<1>3. CASE \E s \in Steps : Step(s)
  <2>1. PICK s \in Steps : Step(s)
    BY <1>3
  <2>2. UNCHANGED <<pc, success, stageStatus, runs, throws>>
    BY <2>1 DEF Step, StepBegins, StepEnds, StepReturns, StepFaults, WriteStepFailed,
       StepReturnsFalse, StepThrows, stageUnchanged, historyUnchanged
  <2> QED BY <2>2 DEF seen
<1> QED BY <1>1, <1>2, <1>3

\* What executeStage does to its row and returns, for any steps, flags and
\* exceptions, is what PipelineEngine's thread of a stage does: each of its steps is
\* one of the engine's, or none the engine can see.
THEOREM StageThreadImplemented == Spec => ImplementsStageThread
<1>1. IInv /\ [Next]_vars => [EngineStep]_seen
  <2> SUFFICES ASSUME IInv, [Next]_vars PROVE [EngineStep]_seen
    OBVIOUS
  <2>0. TypeOK /\ ThrowsCounted
    BY DEF IInv
  <2>1. CASE StageBegins
    BY <2>1, MapsStageBegins DEF EngineStep
  <2>2. CASE WriteStage
    BY <2>0, <2>2, MapsWriteStage DEF EngineStep
  <2>3. CASE StepEscapes
    BY <2>0, <2>3, MapsThrow DEF EngineStep, StepEscapes
  <2>4. CASE StageThrows
    BY <2>0, <2>4, MapsThrow DEF EngineStep, StageThrows
  <2>5. CASE CallStep \/ StepReturned \/ EndLoop \/ JoinThreads \/ \E s \in Steps : Step(s)
    BY <2>5, StepsUnseen
  <2>6. CASE RunAgain
    BY <2>6 DEF EngineStep
  <2>7. CASE UNCHANGED vars
    BY <2>7 DEF vars, seen
  <2> QED BY <2>1, <2>2, <2>3, <2>4, <2>5, <2>6, <2>7 DEF Next, Stage
<1>2. [][Next]_vars /\ []IInv => [][EngineStep]_seen
  BY <1>1, PTL
<1> QED BY <1>2, Invariance, PTL DEF Spec, ImplementsStageThread, EngineStep, seen
=============================================================================
