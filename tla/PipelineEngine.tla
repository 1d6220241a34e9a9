--------------------------- MODULE PipelineEngine ---------------------------
(***************************************************************************)
(* PipelineExecutionService.executeDependencyGraph: one coordinator thread *)
(* scans the stages of an execution, starts a Java thread for each stage   *)
(* whose dependencies have a verdict, and gathers their verdicts.          *)
(*                                                                         *)
(* The coordinator shares completedStages (a ConcurrentHashMap),           *)
(* runningStages (a concurrent set) and stopExecution (a plain             *)
(* boolean[1]) with the stage threads and takes no lock, so each access is *)
(* a step of its own.  The unsynchronised write of stopExecution may       *)
(* become visible at any moment between the thread's put and its remove:   *)
(* that is where SetStop is free to happen.                                *)
(*                                                                         *)
(* A stage thread is seen from outside: it begins, ends with a verdict or  *)
(* throws; what happens in between is PipelineStage's.                     *)
(***************************************************************************)
EXTENDS Integers, FiniteSets

CONSTANTS N,             \* number of stage rows of the execution
          Graphs,        \* the dependsOn relations the stored rows may have
          MaxThrows,     \* bound: exceptions (transactions, broadcasts) of one stage
          MayInterrupt   \* whether the executor may be shut down under the run

Stages == 1 .. N

\* An id in dependsOn that no stage of the pipeline carries.
Dangling == 0

ASSUME StagesAssumption == N \in Nat
ASSUME GraphsAssumption == Graphs \subseteq [Stages -> SUBSET (Stages \cup {Dangling})]
ASSUME FaultAssumption == MaxThrows \in Nat /\ MayInterrupt \in BOOLEAN

Verdict == {"none", "ok", "failed"}
Status == {"PENDING", "RUNNING", "SUCCESS", "FAILED", "CANCELLED"}
CoordinatorPC == {"load", "loop", "scan", "scanRunning", "scanDeps", "check",
                  "sleep", "launch", "wait", "rest", "restRow", "restPut", "done"}
ThreadPC == {"idle", "begin", "running", "verdict", "stop", "leave"}

VARIABLES
  dependsOn,        \* PipelineStage.dependsOn, as read into stageDepsById
  stopOnFailure,    \* PipelineStage.stopOnFailure, as read
  completedStages,  \* the map, "none" where it has no key
  runningStages,    \* the set of stages handed to a thread
  stopExecution,    \* stopExecution[0]
  pc, at,           \* the coordinator, and the stage its for-loop is at
  depsLeft, depFailed, readyStageIds,   \* its locals
  returned,         \* what executeDependencyGraph returned, or "threw"
  interrupted,      \* the coordinator's interrupt flag
  thread,           \* where the thread of each stage is
  success,          \* that thread's local verdict
  stageStatus,      \* StageExecution.status of each stage's row
  launches, throws  \* history: threads started for a stage, and their throws

rows == <<dependsOn, stopOnFailure>>
shared == <<completedStages, runningStages, stopExecution>>
locals == <<depsLeft, depFailed, readyStageIds>>
history == <<launches, throws>>
vars == <<rows, shared, pc, at, locals, returned, interrupted,
          thread, success, stageStatus, history>>

TypeOK ==
  /\ dependsOn \in [Stages -> SUBSET (Stages \cup {Dangling})]
  /\ stopOnFailure \in [Stages -> BOOLEAN]
  /\ completedStages \in [Stages -> Verdict]
  /\ runningStages \subseteq Stages
  /\ stopExecution \in BOOLEAN
  /\ pc \in CoordinatorPC
  /\ at \in 1 .. N + 1
  /\ depsLeft \subseteq Stages \cup {Dangling}
  /\ depFailed \in BOOLEAN
  /\ readyStageIds \subseteq Stages
  /\ returned \in {"nothing", "true", "false", "threw"}
  /\ interrupted \in BOOLEAN
  /\ thread \in [Stages -> ThreadPC]
  /\ success \in [Stages -> BOOLEAN]
  /\ stageStatus \in [Stages -> Status]
  /\ launches \in [Stages -> Nat]
  /\ throws \in [Stages -> Nat]

Init ==
  /\ dependsOn \in Graphs
  /\ stopOnFailure \in [Stages -> BOOLEAN]
  /\ completedStages = [s \in Stages |-> "none"]
  /\ runningStages = {}
  /\ stopExecution = FALSE
  /\ pc = "load"
  /\ at = 1
  /\ depsLeft = {}
  /\ depFailed = FALSE
  /\ readyStageIds = {}
  /\ returned = "nothing"
  /\ interrupted = FALSE
  /\ thread = [s \in Stages |-> "idle"]
  /\ success = [s \in Stages |-> FALSE]
  /\ stageStatus = [s \in Stages |-> "PENDING"]
  /\ launches = [s \in Stages |-> 0]
  /\ throws = [s \in Stages |-> 0]

-----------------------------------------------------------------------------
(* The coordinator.                                                        *)

HasVerdict(d) == d \in Stages /\ completedStages[d] # "none"
AllCompleted == \A s \in Stages : completedStages[s] # "none"
AllSucceeded == \A s \in Stages : completedStages[s] = "ok"

Goto(next, index) == pc' = next /\ at' = index

threadsUnchanged == UNCHANGED <<thread, success, history>>
coordinatorUnchanged == UNCHANGED <<rows, pc, at, locals, returned, interrupted>>

\* The transaction that reads the stage rows; without any the run succeeds.
LoadStages ==
  /\ pc = "load"
  /\ IF N = 0
       THEN Goto("done", at) /\ returned' = "true"
       ELSE Goto("loop", at) /\ UNCHANGED returned
  /\ UNCHANGED <<rows, shared, locals, interrupted, stageStatus>>
  /\ threadsUnchanged

\* while (completedStages.size() < allStageIds.size() && !stopExecution[0])
TestLoop ==
  /\ pc = "loop"
  /\ IF ~AllCompleted /\ ~stopExecution
       THEN Goto("scan", 1) /\ readyStageIds' = {}
       ELSE Goto("wait", at) /\ UNCHANGED readyStageIds
  /\ UNCHANGED <<rows, shared, depsLeft, depFailed, returned, interrupted, stageStatus>>
  /\ threadsUnchanged

\* The first half of the scan's guard: completedStages.containsKey(stageId).
ReadCompleted ==
  /\ pc = "scan"
  /\ at <= N
  /\ IF completedStages[at] # "none"
       THEN Goto("scan", at + 1)
       ELSE Goto("scanRunning", at)
  /\ UNCHANGED <<rows, shared, locals, returned, interrupted, stageStatus>>
  /\ threadsUnchanged

\* A mutant: the scan trusts completedStages alone.
ReadRunning_Unchecked ==
  /\ pc = "scanRunning"
  /\ Goto("scanDeps", at)
  /\ depsLeft' = dependsOn[at]
  /\ depFailed' = FALSE
  /\ UNCHANGED <<rows, shared, readyStageIds, returned, interrupted, stageStatus>>
  /\ threadsUnchanged

\* Its second half, a later read: runningStages.contains(stageId).
ReadRunning ==
  /\ pc = "scanRunning"
  /\ IF at \in runningStages
       THEN Goto("scan", at + 1) /\ UNCHANGED <<depsLeft, depFailed>>
       ELSE /\ Goto("scanDeps", at)
            /\ depsLeft' = dependsOn[at]
            /\ depFailed' = FALSE
  /\ UNCHANGED <<rows, shared, readyStageIds, returned, interrupted, stageStatus>>
  /\ threadsUnchanged

\* A mutant: a dependency that is not in the map does not hold the stage back.
ReadDependency_AbsentIsFine ==
  /\ pc = "scanDeps"
  /\ \E d \in depsLeft :
       /\ depsLeft' = depsLeft \ {d}
       /\ depFailed' = (depFailed \/ (HasVerdict(d) /\ completedStages[d] = "failed"))
  /\ Goto("scanDeps", at)
  /\ UNCHANGED <<rows, shared, readyStageIds, returned, interrupted, stageStatus>>
  /\ threadsUnchanged

\* A mutant: any verdict releases the stage.
ReadDependency_AnyVerdict ==
  /\ pc = "scanDeps"
  /\ \E d \in depsLeft :
       IF HasVerdict(d)
         THEN Goto("scanDeps", at) /\ depsLeft' = depsLeft \ {d} /\ UNCHANGED depFailed
         ELSE Goto("scan", at + 1) /\ UNCHANGED <<depsLeft, depFailed>>
  /\ UNCHANGED <<rows, shared, readyStageIds, returned, interrupted, stageStatus>>
  /\ threadsUnchanged

\* One dependency: without a verdict yet the stage is not ready.
ReadDependency ==
  /\ pc = "scanDeps"
  /\ \E d \in depsLeft :
       IF HasVerdict(d)
         THEN /\ Goto("scanDeps", at)
              /\ depsLeft' = depsLeft \ {d}
              /\ depFailed' = (depFailed \/ completedStages[d] = "failed")
         ELSE Goto("scan", at + 1) /\ UNCHANGED <<depsLeft, depFailed>>
  /\ UNCHANGED <<rows, shared, readyStageIds, returned, interrupted, stageStatus>>
  /\ threadsUnchanged

\* Every dependency succeeded when it was read.
MarkReady ==
  /\ pc = "scanDeps"
  /\ depsLeft = {}
  /\ ~depFailed
  /\ readyStageIds' = readyStageIds \cup {at}
  /\ Goto("scan", at + 1)
  /\ UNCHANGED <<rows, shared, depsLeft, depFailed, returned, interrupted, stageStatus>>
  /\ threadsUnchanged

\* A dependency failed: the row is CANCELLED and the stage gets the verdict
\* false.  The stage has no thread, so nobody can see between the two writes.
SkipStage ==
  /\ pc = "scanDeps"
  /\ depsLeft = {}
  /\ depFailed
  /\ stageStatus' = [stageStatus EXCEPT ![at] = "CANCELLED"]
  /\ completedStages' = [completedStages EXCEPT ![at] = "failed"]
  /\ Goto("scan", at + 1)
  /\ UNCHANGED <<rows, runningStages, stopExecution, locals, returned, interrupted>>
  /\ threadsUnchanged

EndScan ==
  /\ pc = "scan"
  /\ at > N
  /\ Goto("check", at)
  /\ UNCHANGED <<rows, shared, locals, returned, interrupted, stageStatus>>
  /\ threadsUnchanged

\* A mutant: without the break a stage that can never start is awaited forever.
CheckReady_NoBreak ==
  /\ pc = "check"
  /\ Goto(IF readyStageIds # {} THEN "launch" ELSE "sleep", at)
  /\ UNCHANGED <<rows, shared, locals, returned, interrupted, stageStatus>>
  /\ threadsUnchanged

\* Nothing ready and nothing running ends the loop; nothing ready sleeps.
CheckReady ==
  /\ pc = "check"
  /\ Goto(CASE readyStageIds # {} -> "launch"
            [] readyStageIds = {} /\ runningStages = {} -> "wait"
            [] OTHER -> "sleep", at)
  /\ UNCHANGED <<rows, shared, locals, returned, interrupted, stageStatus>>
  /\ threadsUnchanged

\* Thread.sleep(100), which throws when the thread is interrupted.
Sleep ==
  /\ pc = "sleep"
  /\ Goto(IF interrupted THEN "wait" ELSE "loop", at)
  /\ UNCHANGED <<rows, shared, locals, returned, interrupted, stageStatus>>
  /\ threadsUnchanged

\* runningStages.add and thread.start for the next ready stage; after the last
\* one the joins, each of at most 100 ms, lead back to the loop.
LaunchStage ==
  /\ pc = "launch"
  /\ \E s \in readyStageIds :
       /\ \A r \in readyStageIds : s <= r
       /\ runningStages' = runningStages \cup {s}
       /\ thread' = [thread EXCEPT ![s] = "begin"]
       /\ launches' = [launches EXCEPT ![s] = @ + 1]
       /\ readyStageIds' = readyStageIds \ {s}
       /\ Goto(IF readyStageIds = {s} THEN "loop" ELSE "launch", at)
  /\ UNCHANGED <<rows, completedStages, stopExecution, depsLeft, depFailed, returned,
                 interrupted, success, stageStatus, throws>>

\* A mutant: the loop's exit does not wait for the stages still running.
AwaitRunning_Dropped ==
  /\ pc = "wait"
  /\ Goto("rest", 1)
  /\ UNCHANGED <<rows, shared, locals, returned, interrupted, stageStatus>>
  /\ threadsUnchanged

\* while (!runningStages.isEmpty()) sleep, left early by an interrupt.
AwaitRunning ==
  /\ pc = "wait"
  /\ runningStages = {} \/ interrupted
  /\ Goto("rest", 1)
  /\ UNCHANGED <<rows, shared, locals, returned, interrupted, stageStatus>>
  /\ threadsUnchanged

\* The last loop cancels the stages that have no verdict: a read, the
\* transaction, and the put.
ReadRest ==
  /\ pc = "rest"
  /\ at <= N
  /\ IF completedStages[at] # "none"
       THEN Goto("rest", at + 1)
       ELSE Goto("restRow", at)
  /\ UNCHANGED <<rows, shared, locals, returned, interrupted, stageStatus>>
  /\ threadsUnchanged

CancelRow ==
  /\ pc = "restRow"
  /\ stageStatus' = [stageStatus EXCEPT ![at] = "CANCELLED"]
  /\ Goto("restPut", at)
  /\ UNCHANGED <<rows, shared, locals, returned, interrupted>>
  /\ threadsUnchanged

PutCancelled ==
  /\ pc = "restPut"
  /\ completedStages' = [completedStages EXCEPT ![at] = "failed"]
  /\ Goto("rest", at + 1)
  /\ UNCHANGED <<rows, runningStages, stopExecution, locals, returned, interrupted, stageStatus>>
  /\ threadsUnchanged

ReturnVerdict ==
  /\ pc = "rest"
  /\ at > N
  /\ returned' = IF AllSucceeded THEN "true" ELSE "false"
  /\ Goto("done", at)
  /\ UNCHANGED <<rows, shared, locals, interrupted, stageStatus>>
  /\ threadsUnchanged

\* A transaction of the coordinator fails, or the log line of a stage it has
\* just skipped meets a dead SSE emitter (see PipelineExecution): the exception
\* leaves the method, whatever the stage threads are doing.
CoordinatorThrows ==
  /\ MaxThrows > 0
  /\ \/ pc \in {"load", "restRow"} /\ UNCHANGED <<completedStages, stageStatus>>
     \/ /\ pc = "scanDeps" /\ depsLeft = {} /\ depFailed
        /\ \/ UNCHANGED <<completedStages, stageStatus>>
           \/ /\ stageStatus' = [stageStatus EXCEPT ![at] = "CANCELLED"]
              /\ completedStages' = [completedStages EXCEPT ![at] = "failed"]
  /\ returned' = "threw"
  /\ Goto("done", at)
  /\ UNCHANGED <<rows, runningStages, stopExecution, locals, interrupted>>
  /\ threadsUnchanged

\* The executor is shut down and interrupts its worker.
Interrupt ==
  /\ MayInterrupt
  /\ ~interrupted
  /\ pc # "done"
  /\ interrupted' = TRUE
  /\ UNCHANGED <<rows, shared, pc, at, locals, returned, stageStatus>>
  /\ threadsUnchanged

Coordinator ==
  \/ LoadStages \/ TestLoop
  \/ ReadCompleted \/ ReadRunning \/ ReadDependency \/ MarkReady \/ SkipStage \/ EndScan
  \/ CheckReady \/ Sleep \/ LaunchStage
  \/ AwaitRunning \/ ReadRest \/ CancelRow \/ PutCancelled \/ ReturnVerdict
  \/ CoordinatorThrows

-----------------------------------------------------------------------------
(* The thread of a stage.                                                  *)

MoveThread(s, from, to) == thread[s] = from /\ thread' = [thread EXCEPT ![s] = to]

\* executeStage reads its rows and marks the stage RUNNING.
StageBegins(s) ==
  /\ MoveThread(s, "begin", "running")
  /\ stageStatus' = [stageStatus EXCEPT ![s] = "RUNNING"]
  /\ UNCHANGED <<shared, success, history>>
  /\ coordinatorUnchanged

\* executeStage's last transaction, then its return.
StageEnds(s) ==
  /\ MoveThread(s, "running", "verdict")
  /\ \E v \in BOOLEAN :
       /\ success' = [success EXCEPT ![s] = v]
       /\ stageStatus' = [stageStatus EXCEPT ![s] = IF v THEN "SUCCESS" ELSE "FAILED"]
  /\ UNCHANGED <<shared, history>>
  /\ coordinatorUnchanged

\* A transaction or a broadcast of executeStage or executeStep throws: only
\* finally runs.
StageThrows(s) ==
  /\ thread[s] \in {"begin", "running"}
  /\ throws[s] < MaxThrows
  /\ throws' = [throws EXCEPT ![s] = @ + 1]
  /\ thread' = [thread EXCEPT ![s] = "leave"]
  /\ UNCHANGED <<shared, success, stageStatus, launches>>
  /\ coordinatorUnchanged

\* A mutant: only a success is put into the map.
PutVerdict_OnlySuccess(s) ==
  /\ MoveThread(s, "verdict", IF ~success[s] /\ stopOnFailure[s] THEN "stop" ELSE "leave")
  /\ completedStages' = [completedStages EXCEPT ![s] = IF success[s] THEN "ok" ELSE @]
  /\ UNCHANGED <<runningStages, stopExecution, success, stageStatus, history>>
  /\ coordinatorUnchanged

\* A mutant: the map keeps the first verdict (putIfAbsent), the row the last.
PutVerdict_KeepsFirst(s) ==
  /\ MoveThread(s, "verdict", IF ~success[s] /\ stopOnFailure[s] THEN "stop" ELSE "leave")
  /\ completedStages' = [completedStages EXCEPT
       ![s] = IF @ # "none" THEN @ ELSE IF success[s] THEN "ok" ELSE "failed"]
  /\ UNCHANGED <<runningStages, stopExecution, success, stageStatus, history>>
  /\ coordinatorUnchanged

PutVerdict(s) ==
  /\ MoveThread(s, "verdict", IF ~success[s] /\ stopOnFailure[s] THEN "stop" ELSE "leave")
  /\ completedStages' = [completedStages EXCEPT ![s] = IF success[s] THEN "ok" ELSE "failed"]
  /\ UNCHANGED <<runningStages, stopExecution, success, stageStatus, history>>
  /\ coordinatorUnchanged

SetStop(s) ==
  /\ MoveThread(s, "stop", "leave")
  /\ stopExecution' = TRUE
  /\ UNCHANGED <<completedStages, runningStages, success, stageStatus, history>>
  /\ coordinatorUnchanged

Leave(s) ==
  /\ MoveThread(s, "leave", "idle")
  /\ runningStages' = runningStages \ {s}
  /\ UNCHANGED <<completedStages, stopExecution, success, stageStatus, history>>
  /\ coordinatorUnchanged

StageThread(s) ==
  \/ StageBegins(s) \/ StageEnds(s) \/ StageThrows(s)
  \/ PutVerdict(s) \/ SetStop(s) \/ Leave(s)

-----------------------------------------------------------------------------
\* The method has returned and no stage thread is left.
Finished ==
  /\ pc = "done"
  /\ \A s \in Stages : thread[s] = "idle"
  /\ UNCHANGED vars

Next == Coordinator \/ Interrupt \/ (\E s \in Stages : StageThread(s)) \/ Finished

\* The JVM schedules every runnable thread; a stage is assumed to end, which
\* holds when its steps do (container waits have a timeout, image builds none).
Fairness == WF_vars(Coordinator) /\ \A s \in Stages : WF_vars(StageThread(s))

Spec == Init /\ [][Next]_vars
FairSpec == Spec /\ Fairness

-----------------------------------------------------------------------------
(* What the engine promises.                                               *)

Live(s) == thread[s] # "idle"
Returned == returned \in {"true", "false"}

\* No stage is handed to a second thread while its first one is alive, though
\* the scan reads completedStages and runningStages at different moments.
OneThreadPerStage ==
  [][\A s \in Stages : launches'[s] # launches[s] => ~Live(s)]_vars

\* A stage never runs before each of its dependencies has got a verdict; in
\* particular one with a dangling or a cyclic dependency never runs.
StartsAfterDependencies ==
  \A s \in Stages : Live(s) => \A d \in dependsOn[s] : HasVerdict(d)

\* A stage runs beside a failed dependency only if that dependency has been
\* launched twice: its first verdict may have been another one.
FailureBlocksDependents ==
  \A s \in Stages : Live(s) =>
    \A d \in dependsOn[s] : completedStages[d] = "failed" => launches[d] >= 2

\* The race in the scan's guard repeats a stage at most once: beyond its
\* throws a stage is started twice at most.
AtMostOneRerun == \A s \in Stages : launches[s] <= throws[s] + 2

\* A second run of the stage was cut off by an exception.
RerunLost(s) == stageStatus[s] = "RUNNING" /\ throws[s] > 0 /\ launches[s] >= 2

RowAgrees(s) ==
  \/ completedStages[s] = "ok" /\ stageStatus[s] = "SUCCESS"
  \/ completedStages[s] = "failed" /\ stageStatus[s] \in {"FAILED", "CANCELLED"}
  \/ completedStages[s] # "none" /\ RerunLost(s)

\* A verdict the coordinator can read is the one the stage's row holds, unless
\* the stage is running again or its second run was lost.
VerdictIsStored ==
  \A s \in Stages :
    ~interrupted /\ HasVerdict(s) /\ thread[s] \in {"idle", "stop", "leave"} => RowAgrees(s)

\* When the method returns uninterrupted no thread is left, every stage has a
\* verdict its row agrees with, and the answer is the conjunction of them.
ReturnedMeansSettled ==
  Returned /\ ~interrupted =>
    /\ runningStages = {}
    /\ \A s \in Stages : ~Live(s) /\ RowAgrees(s)
    /\ returned = "true" <=> AllSucceeded

Graph == INSTANCE StageGraph WITH
  Interruptible <- MayInterrupt, depends <- dependsOn, verdict <- completedStages,
  live <- {s \in Stages : Live(s)}, result <- returned, disturbed <- interrupted

\* The engine keeps the contract of StageGraph.
Implements == Graph!Spec

\* Whatever the graph, cyclic or dangling, the method comes back.
Terminates == <>(pc = "done")

\* The editor's "Stop pipeline on failure": an execution that was stopped by
\* the failure of a stage is not reported as a success.
StopOnFailureStops == stopExecution => returned # "true"
=============================================================================
