---------------------------- MODULE PipelineStage ----------------------------
(***************************************************************************)
(* PipelineExecutionService.executeStage and executeStep: what the thread  *)
(* of one stage does between StageBegins and its verdict.  The steps of a  *)
(* SEQUENTIAL stage run one after the other in the stage's thread, those   *)
(* of a PARALLEL stage in a thread each, which the stage joins.            *)
(*                                                                         *)
(* Every transaction and every broadcast may throw (see PipelineExecution  *)
(* for the dead SSE emitter).  The engine may run a stage again, after an  *)
(* exception or by the race in its scan; rows then keep what they held.    *)
(***************************************************************************)
EXTENDS Integers

CONSTANTS M,           \* number of steps of the stage
          MaxRuns,     \* bound: how often the engine runs the stage
          MaxFaults    \* bound: exceptions over all runs

Steps == 1 .. M

ASSUME StepsAssumption == M \in Nat
ASSUME RunsAssumption == MaxRuns \in Nat \ {0} /\ MaxFaults \in Nat

Status == {"PENDING", "RUNNING", "SUCCESS", "FAILED"}
StagePC == {"begin", "steps", "write", "returned", "threw"}
Ended == {"true", "false", "threw"}
\* Inside executeStep's try block, and then its catch block.
Tried == {"executing", "succeeded", "failed"}
Caught == {"caught", "reported"}
StepPC == {"idle", "begin"} \cup Tried \cup Caught \cup Ended

VARIABLES
  executionMode,      \* PipelineStage.executionMode
  continueOnFailure,  \* PipelineStep.continueOnFailure
  pc,                 \* where executeStage is
  next,               \* the index of its for-loop (SEQUENTIAL)
  allSuccess,         \* its local verdict
  step,               \* where executeStep is, or what it returned
  stageStatus, stepStatus,   \* the rows
  success,            \* what executeStage returned last
  runs, faults,       \* history, bounded: runs of the stage, exceptions
  throws,             \* history: runs that ended with an exception
  escaped             \* history: steps an exception left, in any run

config == <<executionMode, continueOnFailure>>
vars == <<config, pc, next, allSuccess, step, stageStatus, stepStatus, success,
          runs, faults, throws, escaped>>

TypeOK ==
  /\ executionMode \in {"SEQUENTIAL", "PARALLEL"}
  /\ continueOnFailure \in [Steps -> BOOLEAN]
  /\ pc \in StagePC
  /\ next \in 1 .. M + 1
  /\ allSuccess \in BOOLEAN
  /\ step \in [Steps -> StepPC]
  /\ stageStatus \in Status
  /\ stepStatus \in [Steps -> Status]
  /\ success \in BOOLEAN
  /\ runs \in 1 .. MaxRuns
  /\ faults \in 0 .. MaxFaults
  /\ throws \in 0 .. runs
  /\ escaped \subseteq Steps

Init ==
  /\ executionMode \in {"SEQUENTIAL", "PARALLEL"}
  /\ continueOnFailure \in [Steps -> BOOLEAN]
  /\ pc = "begin"
  /\ next = 1
  /\ allSuccess = TRUE
  /\ step = [s \in Steps |-> "idle"]
  /\ stageStatus = "PENDING"
  /\ stepStatus = [s \in Steps |-> "PENDING"]
  /\ success = FALSE
  /\ runs = 1 /\ faults = 0 /\ throws = 0
  /\ escaped = {}

Fault == faults < MaxFaults /\ faults' = faults + 1
historyUnchanged == UNCHANGED <<runs, faults, throws, escaped>>

-----------------------------------------------------------------------------
(* executeStage.                                                           *)

\* The rows are read and the stage is RUNNING; a PARALLEL stage starts its
\* threads (each start is independent of what the others already do).
StageBegins ==
  /\ pc = "begin"
  /\ pc' = "steps"
  /\ stageStatus' = "RUNNING"
  /\ step' = [s \in Steps |-> IF executionMode = "PARALLEL" THEN "begin" ELSE "idle"]
  /\ UNCHANGED <<config, next, allSuccess, stepStatus, success>>
  /\ historyUnchanged

CallStep ==
  /\ pc = "steps" /\ executionMode = "SEQUENTIAL"
  /\ next <= M
  /\ step[next] = "idle"
  /\ step' = [step EXCEPT ![next] = "begin"]
  /\ UNCHANGED <<config, pc, next, allSuccess, stageStatus, stepStatus, success>>
  /\ historyUnchanged

\* A mutant: a failed step is passed over when it may, and forgotten.
StepReturned_ContinueForgets ==
  /\ pc = "steps" /\ executionMode = "SEQUENTIAL"
  /\ next <= M
  /\ step[next] \in {"true", "false"}
  /\ allSuccess' = (step[next] = "true" \/ continueOnFailure[next])
  /\ next' = IF step[next] = "true" \/ continueOnFailure[next] THEN next + 1 ELSE M + 1
  /\ UNCHANGED <<config, pc, step, stageStatus, stepStatus, success>>
  /\ historyUnchanged

\* A mutant: the flag is read the wrong way round.
StepReturned_BreakInverted ==
  /\ pc = "steps" /\ executionMode = "SEQUENTIAL"
  /\ next <= M
  /\ step[next] \in {"true", "false"}
  /\ allSuccess' = (allSuccess /\ step[next] = "true")
  /\ next' = IF step[next] = "true" \/ ~continueOnFailure[next] THEN next + 1 ELSE M + 1
  /\ UNCHANGED <<config, pc, step, stageStatus, stepStatus, success>>
  /\ historyUnchanged

\* A failed step fails the stage, and ends the loop unless it may continue.
StepReturned ==
  /\ pc = "steps" /\ executionMode = "SEQUENTIAL"
  /\ next <= M
  /\ step[next] \in {"true", "false"}
  /\ allSuccess' = (allSuccess /\ step[next] = "true")
  /\ next' = IF step[next] = "true" \/ continueOnFailure[next] THEN next + 1 ELSE M + 1
  /\ UNCHANGED <<config, pc, step, stageStatus, stepStatus, success>>
  /\ historyUnchanged

\* An exception of a SEQUENTIAL step leaves executeStage as well.
StepEscapes ==
  /\ pc = "steps" /\ executionMode = "SEQUENTIAL"
  /\ next <= M
  /\ step[next] = "threw"
  /\ pc' = "threw"
  /\ throws' = throws + 1
  /\ UNCHANGED <<config, next, allSuccess, step, stageStatus, stepStatus, success,
                 runs, faults, escaped>>

EndLoop ==
  /\ pc = "steps" /\ executionMode = "SEQUENTIAL"
  /\ next > M
  /\ pc' = "write"
  /\ UNCHANGED <<config, next, allSuccess, step, stageStatus, stepStatus, success>>
  /\ historyUnchanged

\* A mutant: the stage waits for every answer instead of every thread.
JoinThreads_AwaitsAnswers ==
  /\ pc = "steps" /\ executionMode = "PARALLEL"
  /\ \A s \in Steps : step[s] \in {"true", "false"}
  /\ allSuccess' = (\A s \in Steps : step[s] # "false")
  /\ pc' = "write"
  /\ UNCHANGED <<config, next, step, stageStatus, stepStatus, success>>
  /\ historyUnchanged

\* The threads are joined; the verdict is the conjunction of the results they
\* added, and a thread that an exception ended added none.
JoinThreads ==
  /\ pc = "steps" /\ executionMode = "PARALLEL"
  /\ \A s \in Steps : step[s] \in Ended
  /\ allSuccess' = (\A s \in Steps : step[s] # "false")
  /\ pc' = "write"
  /\ UNCHANGED <<config, next, step, stageStatus, stepStatus, success>>
  /\ historyUnchanged

\* A mutant: the row gets its finish time, not its status.
WriteStage_KeepsRow ==
  /\ pc = "write"
  /\ pc' = "returned"
  /\ success' = allSuccess
  /\ UNCHANGED <<config, next, allSuccess, step, stageStatus, stepStatus>>
  /\ historyUnchanged

WriteStage ==
  /\ pc = "write"
  /\ pc' = "returned"
  /\ stageStatus' = IF allSuccess THEN "SUCCESS" ELSE "FAILED"
  /\ success' = allSuccess
  /\ UNCHANGED <<config, next, allSuccess, step, stepStatus>>
  /\ historyUnchanged

\* One of the stage's own transactions, or its banner, throws.
StageThrows ==
  /\ pc \in {"begin", "write"}
  /\ Fault
  /\ pc' = "threw"
  /\ throws' = throws + 1
  /\ UNCHANGED <<config, next, allSuccess, step, stageStatus, stepStatus, success,
                 runs, escaped>>

\* The engine launches the stage once more.
RunAgain ==
  /\ pc \in {"returned", "threw"}
  /\ runs < MaxRuns
  /\ runs' = runs + 1
  /\ pc' = "begin"
  /\ next' = 1
  /\ allSuccess' = TRUE
  /\ step' = [s \in Steps |-> "idle"]
  /\ UNCHANGED <<config, stageStatus, stepStatus, success, faults, throws, escaped>>

-----------------------------------------------------------------------------
(* executeStep.                                                            *)

stageUnchanged == UNCHANGED <<config, pc, next, allSuccess, stageStatus, success>>

MoveStep(s, from, to) == step[s] = from /\ step' = [step EXCEPT ![s] = to]
SetRow(s, value) == stepStatus' = [stepStatus EXCEPT ![s] = value]

StepBegins(s) ==
  /\ MoveStep(s, "begin", "executing")
  /\ SetRow(s, "RUNNING")
  /\ stageUnchanged /\ historyUnchanged

\* StepExecutorService answers and the answer is written.
StepEnds(s) ==
  /\ \/ MoveStep(s, "executing", "succeeded") /\ SetRow(s, "SUCCESS")
     \/ MoveStep(s, "executing", "failed") /\ SetRow(s, "FAILED")
  /\ stageUnchanged /\ historyUnchanged

StepReturns(s) ==
  /\ MoveStep(s, "succeeded", "true") \/ MoveStep(s, "failed", "false")
  /\ UNCHANGED stepStatus
  /\ stageUnchanged /\ historyUnchanged

\* The executor, the transaction or the announcement throws inside the try.
StepFaults(s) ==
  /\ step[s] \in Tried
  /\ Fault
  /\ step' = [step EXCEPT ![s] = "caught"]
  /\ UNCHANGED <<stepStatus, runs, throws, escaped>>
  /\ stageUnchanged

\* A mutant: the exception is caught and reported, the row is left.
WriteStepFailed_OnlyReports(s) ==
  /\ MoveStep(s, "caught", "reported")
  /\ UNCHANGED stepStatus
  /\ stageUnchanged /\ historyUnchanged

\* The catch block: FAILED, even when SUCCESS was already written.
WriteStepFailed(s) ==
  /\ MoveStep(s, "caught", "reported")
  /\ SetRow(s, "FAILED")
  /\ stageUnchanged /\ historyUnchanged

StepReturnsFalse(s) ==
  /\ MoveStep(s, "reported", "false")
  /\ UNCHANGED stepStatus
  /\ stageUnchanged /\ historyUnchanged

\* Outside the try block, before or after it: the exception leaves executeStep.
StepThrows(s) ==
  /\ step[s] \in {"begin"} \cup Caught
  /\ Fault
  /\ step' = [step EXCEPT ![s] = "threw"]
  /\ escaped' = escaped \cup {s}
  /\ UNCHANGED <<stepStatus, runs, throws>>
  /\ stageUnchanged

Step(s) ==
  \/ StepBegins(s) \/ StepEnds(s) \/ StepReturns(s) \/ StepFaults(s)
  \/ WriteStepFailed(s) \/ StepReturnsFalse(s) \/ StepThrows(s)

-----------------------------------------------------------------------------
Stage ==
  \/ StageBegins \/ CallStep \/ StepReturned \/ StepEscapes \/ EndLoop
  \/ JoinThreads \/ WriteStage \/ StageThrows

Next == Stage \/ RunAgain \/ \E s \in Steps : Step(s)

\* The stage's thread and the steps' threads are scheduled, and each step's
\* executor comes back.
Fairness == WF_vars(Stage) /\ \A s \in Steps : WF_vars(Step(s))

Spec == Init /\ [][Next]_vars
FairSpec == Spec /\ Fairness

-----------------------------------------------------------------------------
(* Properties.                                                             *)

\* When the stage returns no step of it is still running, and it returns the
\* conjunction of its steps' answers: continueOnFailure lets the next step
\* run but never turns the stage into a success.  The exception is a PARALLEL
\* step that threw: its missing answer counts as a success.
VerdictIsConjunction ==
  pc = "returned" =>
    /\ \A s \in Steps : step[s] \in Ended \cup {"idle"}
    /\ success <=> \A s \in Steps :
         step[s] = "true" \/ (step[s] = "threw" /\ executionMode = "PARALLEL")

\* A step of a SEQUENTIAL stage is only started after each earlier one has
\* succeeded, or has failed and may be passed over.
FailureEndsSequence ==
  executionMode = "SEQUENTIAL" =>
    \A s, t \in Steps : s < t /\ step[t] # "idle" =>
      step[s] = "true" \/ (step[s] = "false" /\ continueOnFailure[s])

\* Once the stage has returned no step's row claims to be RUNNING, and a stage
\* that is a SUCCESS has only steps that are, also after a second run, unless
\* an exception once left the step.
ReturnedRowsAgree ==
  pc = "returned" =>
    \A s \in Steps \ escaped :
      /\ stepStatus[s] # "RUNNING"
      /\ stageStatus = "SUCCESS" => stepStatus[s] = "SUCCESS"

\* Whatever throws, every run of the stage returns or throws.
StageEnds == []<>(pc \in {"returned", "threw"})

\* The stage's thread as PipelineEngine sees it, with a graph of one stage.
Engine == INSTANCE PipelineEngine WITH
  N <- 1, Graphs <- {<<{}>>}, MaxThrows <- MaxRuns, MayInterrupt <- FALSE,
  dependsOn <- <<{}>>, stopOnFailure <- <<FALSE>>,
  completedStages <- <<"none">>, runningStages <- {1}, stopExecution <- FALSE,
  pc <- "wait", at <- 1, depsLeft <- {}, depFailed <- FALSE, readyStageIds <- {},
  returned <- "nothing", interrupted <- FALSE,
  thread <- << CASE pc = "begin" -> "begin"
                 [] pc \in {"steps", "write"} -> "running"
                 [] pc = "returned" -> "verdict"
                 [] pc = "threw" -> "leave" >>,
  success <- <<success>>, stageStatus <- <<stageStatus>>,
  launches <- <<runs>>, throws <- <<throws>>

\* What executeStage does to its row and returns is what the engine's stage
\* threads are modelled to do.
ImplementsStageThread ==
  [][Engine!StageBegins(1) \/ Engine!StageEnds(1) \/ Engine!StageThrows(1) \/ RunAgain]_<<
     pc \in {"steps", "write"}, pc = "returned", pc = "threw",
     success, stageStatus, runs, throws>>
=============================================================================
