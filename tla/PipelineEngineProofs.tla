------------------------ MODULE PipelineEngineProofs ------------------------
(* Theorems about PipelineEngine, for any number of stages and any graph.  *)
EXTENDS PipelineEngine, TLAPS

USE DEF Goto, MoveThread, threadsUnchanged, coordinatorUnchanged,
        rows, shared, locals, history

-----------------------------------------------------------------------------
(* Types.                                                                  *)

\* Where the coordinator's body uses the stage its for-loop is at.
AtStage == pc \in {"scanRunning", "scanDeps", "restRow", "restPut"} => at \in Stages

\* The index of a for-loop over the stages is a stage until it is past N.
LEMMA IndexIsStage ==
  /\ 1 \in 1 .. N + 1
  /\ \A i \in 1 .. N + 1 : i <= N => i \in Stages
  /\ \A i \in Stages : i + 1 \in 1 .. N + 1
  BY StagesAssumption DEF Stages

LEMMA TypeInit == Init => TypeOK /\ AtStage
<1> SUFFICES ASSUME Init PROVE TypeOK /\ AtStage
  OBVIOUS
<1> USE DEF Init
<1>1. dependsOn \in [Stages -> SUBSET (Stages \cup {Dangling})]
  BY GraphsAssumption
<1>2. /\ stopOnFailure \in [Stages -> BOOLEAN]
      /\ success \in [Stages -> BOOLEAN]
      /\ stopExecution \in BOOLEAN /\ depFailed \in BOOLEAN /\ interrupted \in BOOLEAN
  OBVIOUS
<1>3. /\ completedStages \in [Stages -> Verdict]
      /\ thread \in [Stages -> ThreadPC]
      /\ stageStatus \in [Stages -> Status]
      /\ launches \in [Stages -> Nat]
      /\ throws \in [Stages -> Nat]
  BY DEF Verdict, ThreadPC, Status
<1> QED BY <1>1, <1>2, <1>3, IndexIsStage DEF TypeOK, AtStage, CoordinatorPC

LEMMA TypeStep == TypeOK /\ AtStage /\ [Next]_vars => TypeOK' /\ AtStage'
<1> SUFFICES ASSUME TypeOK, AtStage, [Next]_vars PROVE TypeOK' /\ AtStage'
  OBVIOUS
<1> USE IndexIsStage DEF TypeOK, AtStage, Status, Verdict, CoordinatorPC, ThreadPC
<1>1. CASE LoadStages BY <1>1 DEF LoadStages
<1>2. CASE TestLoop BY <1>2 DEF TestLoop
<1>3. CASE ReadCompleted BY <1>3 DEF ReadCompleted
<1>4. CASE ReadRunning
  <2>1. at \in Stages BY <1>4 DEF ReadRunning
  <2>2. dependsOn[at] \subseteq Stages \cup {Dangling} BY <2>1
  <2>3. depsLeft' \subseteq Stages \cup {Dangling} /\ depFailed' \in BOOLEAN
    BY <1>4, <2>2 DEF ReadRunning
  <2> QED BY <1>4, <2>1, <2>3 DEF ReadRunning
<1>5. CASE ReadDependency
  <2>1. \/ UNCHANGED depFailed
        \/ \E d \in depsLeft : depFailed' = (depFailed \/ completedStages[d] = "failed")
    BY <1>5 DEF ReadDependency
  <2>2. depFailed' \in BOOLEAN BY <2>1
  <2> QED BY <1>5, <2>2 DEF ReadDependency
<1>6. CASE MarkReady BY <1>6 DEF MarkReady
<1>7. CASE SkipStage BY <1>7 DEF SkipStage
<1>8. CASE EndScan BY <1>8 DEF EndScan
<1>9. CASE CheckReady BY <1>9 DEF CheckReady
<1>10. CASE Sleep BY <1>10 DEF Sleep
<1>11. CASE LaunchStage BY <1>11 DEF LaunchStage
<1>12. CASE AwaitRunning BY <1>12 DEF AwaitRunning
<1>13. CASE ReadRest BY <1>13 DEF ReadRest
<1>14. CASE CancelRow BY <1>14 DEF CancelRow
<1>15. CASE PutCancelled BY <1>15 DEF PutCancelled
<1>16. CASE ReturnVerdict BY <1>16 DEF ReturnVerdict
<1>17. CASE CoordinatorThrows BY <1>17 DEF CoordinatorThrows
<1>18. CASE Interrupt BY <1>18 DEF Interrupt
<1>19. CASE \E s \in Stages : StageThread(s)
  <2> PICK s \in Stages : StageThread(s) BY <1>19
  <2>1. CASE StageBegins(s) BY <2>1 DEF StageBegins
  <2>2. CASE StageEnds(s)
    <3>1. success' \in [Stages -> BOOLEAN] BY <2>2 DEF StageEnds
    <3>2. stageStatus' \in [Stages -> Status] BY <2>2 DEF StageEnds
    <3> QED BY <2>2, <3>1, <3>2 DEF StageEnds
  <2>3. CASE StageThrows(s) BY <2>3 DEF StageThrows
  <2>4. CASE PutVerdict(s) BY <2>4 DEF PutVerdict
  <2>5. CASE SetStop(s) BY <2>5 DEF SetStop
  <2>6. CASE Leave(s) BY <2>6 DEF Leave
  <2> QED BY <2>1, <2>2, <2>3, <2>4, <2>5, <2>6 DEF StageThread
<1>20. CASE UNCHANGED vars BY <1>20 DEF vars
<1> QED
  BY <1>1, <1>2, <1>3, <1>4, <1>5, <1>6, <1>7, <1>8, <1>9, <1>10, <1>11, <1>12, <1>13,
     <1>14, <1>15, <1>16, <1>17, <1>18, <1>19, <1>20 DEF Next, Coordinator, Finished

\* Every variable keeps its type along every behaviour of the engine.
THEOREM TypeCorrect == Spec => []TypeOK
<1>1. TypeOK /\ AtStage /\ [Next]_vars => (TypeOK /\ AtStage)'
  BY TypeStep
<1> QED BY <1>1, TypeInit, PTL DEF Spec

-----------------------------------------------------------------------------
(* The inductive invariant.                                                *)

Scanning == pc \in {"scan", "scanRunning", "scanDeps"}
Cancelling == pc \in {"rest", "restRow", "restPut"}
Busy(s) == thread[s] \in {"begin", "running", "verdict"}

\* The stages the present scan may still hand to a thread although it has
\* passed the read of completedStages for them.
InWindow(s) == s \in readyStageIds \/ (at = s /\ pc \in {"scanRunning", "scanDeps"})

\* runningStages holds the stages that have a thread, and the scan only keeps
\* stages without one.
ThreadInv ==
  /\ \A s \in Stages : s \in runningStages <=> Live(s)
  /\ \A s \in readyStageIds : ~Live(s)
  /\ pc = "scanDeps" => ~Live(at)

\* readyStageIds is filled in the order of the scan and emptied by the launch.
ReadyInv ==
  /\ Scanning => \A s \in readyStageIds : s < at
  /\ pc \notin {"scan", "scanRunning", "scanDeps", "check", "launch", "done"}
       => readyStageIds = {}

\* A stage that is ready or runs has a verdict for each dependency; the ones
\* already read at scanDeps have one too.
DependencyInv ==
  /\ \A s \in Stages : Live(s) \/ s \in readyStageIds
       => \A d \in dependsOn[s] : HasVerdict(d)
  /\ pc = "scanDeps" => \A d \in dependsOn[at] \ depsLeft : HasVerdict(d)

\* Launches are paid for: a first verdict, a throw, or the one repetition a
\* stage still in the window may get.
LaunchInv ==
  \A s \in Stages :
    /\ Live(s) => launches[s] >= 1
    /\ completedStages[s] = "none"
         => launches[s] = throws[s] + (IF Busy(s) THEN 1 ELSE 0)
    /\ completedStages[s] # "none"
         => launches[s] + (IF InWindow(s) THEN 1 ELSE 0) <= throws[s] + 2

\* A verdict the code calls final; under an interrupt "failed" may have been
\* put by the coordinator over a stage that still runs.
Settled(s) == completedStages[s] = "ok" \/ (completedStages[s] = "failed" /\ ~interrupted)

\* A stage in the window that has a verdict got it from its thread, so one
\* that is busy with a verdict is in its second run.
RerunInv ==
  \A s \in Stages : Settled(s) =>
    /\ InWindow(s) => launches[s] >= 1
    /\ Busy(s) => launches[s] >= 2

\* Nothing that is ready or runs depends on the stage whose verdict the
\* coordinator is about to overwrite.
OverwriteInv ==
  pc \in {"scanRunning", "scanDeps", "restRow", "restPut"} =>
    \A s \in Stages : Live(s) \/ s \in readyStageIds => at \notin dependsOn[s]

\* A failed dependency beside a stage that is ready or runs is in, or past,
\* its second run.
FailureInv ==
  /\ \A s \in Stages : Live(s) \/ s \in readyStageIds =>
       \A d \in dependsOn[s] : completedStages[d] = "failed" => launches[d] >= 2
  /\ pc = "scanDeps" /\ ~depFailed =>
       \A d \in dependsOn[at] \ depsLeft : completedStages[d] = "failed" => launches[d] >= 2

\* What the row of a stage holds at each point of its thread.
RowInv ==
  ~interrupted => \A s \in Stages :
    /\ thread[s] = "running" => stageStatus[s] = "RUNNING"
    /\ thread[s] = "verdict" => stageStatus[s] = IF success[s] THEN "SUCCESS" ELSE "FAILED"
    /\ completedStages[s] # "none" /\ thread[s] \in {"idle", "begin", "stop", "leave"}
         => RowAgrees(s)

\* The cancelling loop starts when nothing runs, and leaves verdicts behind it.
CancelInv ==
  Cancelling /\ ~interrupted =>
    /\ runningStages = {}
    /\ \A s \in Stages : s < at => completedStages[s] # "none"
    /\ pc \in {"restRow", "restPut"} => completedStages[at] = "none"
    /\ pc = "restPut" => stageStatus[at] = "CANCELLED"

ReturnInv ==
  /\ pc = "done" <=> returned # "nothing"
  /\ Returned /\ ~interrupted =>
       /\ runningStages = {}
       /\ \A s \in Stages : completedStages[s] # "none"
       /\ returned = "true" <=> AllSucceeded

IInv ==
  /\ TypeOK /\ AtStage
  /\ ThreadInv /\ ReadyInv /\ DependencyInv /\ LaunchInv /\ RerunInv
  /\ OverwriteInv /\ FailureInv /\ RowInv /\ CancelInv /\ ReturnInv

-----------------------------------------------------------------------------
(* Each part of IInv is preserved.                                         *)

\* Only LaunchStage and Leave move a stage in or out of runningStages.
LEMMA ThreadInvStep ==
  TypeOK /\ AtStage /\ ThreadInv /\ [Next]_vars => ThreadInv'
<1> SUFFICES ASSUME TypeOK, AtStage, ThreadInv, [Next]_vars PROVE ThreadInv'
  OBVIOUS
<1> USE IndexIsStage DEF TypeOK, AtStage, ThreadInv, Live
<1>1. CASE LoadStages BY <1>1 DEF LoadStages
<1>2. CASE TestLoop BY <1>2 DEF TestLoop
<1>3. CASE ReadCompleted BY <1>3 DEF ReadCompleted
<1>4. CASE ReadRunning BY <1>4 DEF ReadRunning
<1>5. CASE ReadDependency BY <1>5 DEF ReadDependency
<1>6. CASE MarkReady BY <1>6 DEF MarkReady
<1>7. CASE SkipStage BY <1>7 DEF SkipStage
<1>8. CASE EndScan BY <1>8 DEF EndScan
<1>9. CASE CheckReady BY <1>9 DEF CheckReady
<1>10. CASE Sleep BY <1>10 DEF Sleep
<1>11. CASE LaunchStage BY <1>11 DEF LaunchStage
<1>12. CASE AwaitRunning BY <1>12 DEF AwaitRunning
<1>13. CASE ReadRest BY <1>13 DEF ReadRest
<1>14. CASE CancelRow BY <1>14 DEF CancelRow
<1>15. CASE PutCancelled BY <1>15 DEF PutCancelled
<1>16. CASE ReturnVerdict BY <1>16 DEF ReturnVerdict
<1>17. CASE CoordinatorThrows BY <1>17 DEF CoordinatorThrows
<1>18. CASE Interrupt BY <1>18 DEF Interrupt
<1>19. ASSUME NEW r \in Stages, StageBegins(r) PROVE ThreadInv'
  BY <1>19 DEF StageBegins
<1>20. ASSUME NEW r \in Stages, StageEnds(r) PROVE ThreadInv'
  BY <1>20 DEF StageEnds
<1>21. ASSUME NEW r \in Stages, StageThrows(r) PROVE ThreadInv'
  BY <1>21 DEF StageThrows
<1>22. ASSUME NEW r \in Stages, PutVerdict(r) PROVE ThreadInv'
  BY <1>22 DEF PutVerdict
<1>23. ASSUME NEW r \in Stages, SetStop(r) PROVE ThreadInv'
  BY <1>23 DEF SetStop
<1>24. ASSUME NEW r \in Stages, Leave(r) PROVE ThreadInv'
  BY <1>24 DEF Leave
<1>25. CASE UNCHANGED vars BY <1>25 DEF vars
<1> QED
  BY <1>1, <1>2, <1>3, <1>4, <1>5, <1>6, <1>7, <1>8, <1>9, <1>10, <1>11, <1>12, <1>13,
     <1>14, <1>15, <1>16, <1>17, <1>18, <1>19, <1>20, <1>21, <1>22, <1>23, <1>24, <1>25
     DEF Next, Coordinator, StageThread, Finished

\* MarkReady adds the stage the scan is at and moves on.
LEMMA ReadyInvStep ==
  TypeOK /\ AtStage /\ ReadyInv /\ [Next]_vars => ReadyInv'
<1> SUFFICES ASSUME TypeOK, AtStage, ReadyInv, [Next]_vars PROVE ReadyInv'
  OBVIOUS
<1> USE IndexIsStage, StagesAssumption DEF TypeOK, AtStage, ReadyInv, Scanning, Stages
<1>1. CASE LoadStages BY <1>1 DEF LoadStages
<1>2. CASE TestLoop BY <1>2 DEF TestLoop
<1>3. CASE ReadCompleted BY <1>3 DEF ReadCompleted
<1>4. CASE ReadRunning BY <1>4 DEF ReadRunning
<1>5. CASE ReadDependency BY <1>5 DEF ReadDependency
<1>6. CASE MarkReady BY <1>6 DEF MarkReady
<1>7. CASE SkipStage BY <1>7 DEF SkipStage
<1>8. CASE EndScan BY <1>8 DEF EndScan
<1>9. CASE CheckReady BY <1>9 DEF CheckReady
<1>10. CASE Sleep BY <1>10 DEF Sleep
<1>11. CASE LaunchStage BY <1>11 DEF LaunchStage
<1>12. CASE AwaitRunning BY <1>12 DEF AwaitRunning
<1>13. CASE ReadRest BY <1>13 DEF ReadRest
<1>14. CASE CancelRow BY <1>14 DEF CancelRow
<1>15. CASE PutCancelled BY <1>15 DEF PutCancelled
<1>16. CASE ReturnVerdict BY <1>16 DEF ReturnVerdict
<1>17. CASE CoordinatorThrows BY <1>17 DEF CoordinatorThrows
<1>18. CASE Interrupt BY <1>18 DEF Interrupt
<1>19. ASSUME NEW r \in Stages, StageBegins(r) PROVE ReadyInv'
  BY <1>19 DEF StageBegins
<1>20. ASSUME NEW r \in Stages, StageEnds(r) PROVE ReadyInv'
  BY <1>20 DEF StageEnds
<1>21. ASSUME NEW r \in Stages, StageThrows(r) PROVE ReadyInv'
  BY <1>21 DEF StageThrows
<1>22. ASSUME NEW r \in Stages, PutVerdict(r) PROVE ReadyInv'
  BY <1>22 DEF PutVerdict
<1>23. ASSUME NEW r \in Stages, SetStop(r) PROVE ReadyInv'
  BY <1>23 DEF SetStop
<1>24. ASSUME NEW r \in Stages, Leave(r) PROVE ReadyInv'
  BY <1>24 DEF Leave
<1>25. CASE UNCHANGED vars BY <1>25 DEF vars
<1> QED
  BY <1>1, <1>2, <1>3, <1>4, <1>5, <1>6, <1>7, <1>8, <1>9, <1>10, <1>11, <1>12, <1>13,
     <1>14, <1>15, <1>16, <1>17, <1>18, <1>19, <1>20, <1>21, <1>22, <1>23, <1>24, <1>25
     DEF Next, Coordinator, StageThread, Finished

\* Verdicts are never taken out of the map.
LEMMA DependencyInvStep ==
  TypeOK /\ AtStage /\ DependencyInv /\ [Next]_vars => DependencyInv'
<1> SUFFICES ASSUME TypeOK, AtStage, DependencyInv, [Next]_vars PROVE DependencyInv'
  OBVIOUS
<1> USE IndexIsStage DEF TypeOK, AtStage, DependencyInv, Live, HasVerdict
<1>1. CASE LoadStages BY <1>1 DEF LoadStages
<1>2. CASE TestLoop BY <1>2 DEF TestLoop
<1>3. CASE ReadCompleted BY <1>3 DEF ReadCompleted
<1>4. CASE ReadRunning BY <1>4 DEF ReadRunning
<1>5. CASE ReadDependency BY <1>5 DEF ReadDependency
<1>6. CASE MarkReady BY <1>6 DEF MarkReady
<1>7. CASE SkipStage BY <1>7 DEF SkipStage
<1>8. CASE EndScan BY <1>8 DEF EndScan
<1>9. CASE CheckReady BY <1>9 DEF CheckReady
<1>10. CASE Sleep BY <1>10 DEF Sleep
<1>11. CASE LaunchStage BY <1>11 DEF LaunchStage
<1>12. CASE AwaitRunning BY <1>12 DEF AwaitRunning
<1>13. CASE ReadRest BY <1>13 DEF ReadRest
<1>14. CASE CancelRow BY <1>14 DEF CancelRow
<1>15. CASE PutCancelled BY <1>15 DEF PutCancelled
<1>16. CASE ReturnVerdict BY <1>16 DEF ReturnVerdict
<1>17. CASE CoordinatorThrows BY <1>17 DEF CoordinatorThrows
<1>18. CASE Interrupt BY <1>18 DEF Interrupt
<1>19. ASSUME NEW r \in Stages, StageBegins(r) PROVE DependencyInv'
  BY <1>19 DEF StageBegins
<1>20. ASSUME NEW r \in Stages, StageEnds(r) PROVE DependencyInv'
  BY <1>20 DEF StageEnds
<1>21. ASSUME NEW r \in Stages, StageThrows(r) PROVE DependencyInv'
  BY <1>21 DEF StageThrows
<1>22. ASSUME NEW r \in Stages, PutVerdict(r) PROVE DependencyInv'
  BY <1>22 DEF PutVerdict
<1>23. ASSUME NEW r \in Stages, SetStop(r) PROVE DependencyInv'
  BY <1>23 DEF SetStop
<1>24. ASSUME NEW r \in Stages, Leave(r) PROVE DependencyInv'
  BY <1>24 DEF Leave
<1>25. CASE UNCHANGED vars BY <1>25 DEF vars
<1> QED
  BY <1>1, <1>2, <1>3, <1>4, <1>5, <1>6, <1>7, <1>8, <1>9, <1>10, <1>11, <1>12, <1>13,
     <1>14, <1>15, <1>16, <1>17, <1>18, <1>19, <1>20, <1>21, <1>22, <1>23, <1>24, <1>25
     DEF Next, Coordinator, StageThread, Finished

\* A launch uses up the window, a throw pays for the launch it ends.
LEMMA LaunchInvStep ==
  TypeOK /\ AtStage /\ LaunchInv /\ ThreadInv /\ ReadyInv /\ [Next]_vars => LaunchInv'
<1> SUFFICES ASSUME TypeOK, AtStage, LaunchInv, ThreadInv, ReadyInv, [Next]_vars
             PROVE LaunchInv'
  OBVIOUS
<1> USE IndexIsStage DEF TypeOK, AtStage, LaunchInv, ThreadInv, ReadyInv, Live, Busy, InWindow
<1>1. CASE LoadStages BY <1>1 DEF LoadStages
<1>2. CASE TestLoop BY <1>2 DEF TestLoop
<1>3. CASE ReadCompleted BY <1>3 DEF ReadCompleted
<1>4. CASE ReadRunning BY <1>4 DEF ReadRunning
<1>5. CASE ReadDependency BY <1>5 DEF ReadDependency
<1>6. CASE MarkReady BY <1>6 DEF MarkReady
<1>7. CASE SkipStage BY <1>7 DEF SkipStage
<1>8. CASE EndScan BY <1>8 DEF EndScan
<1>9. CASE CheckReady BY <1>9 DEF CheckReady
<1>10. CASE Sleep BY <1>10 DEF Sleep
<1>11. CASE LaunchStage BY <1>11 DEF LaunchStage
<1>12. CASE AwaitRunning BY <1>12 DEF AwaitRunning
<1>13. CASE ReadRest BY <1>13 DEF ReadRest
<1>14. CASE CancelRow BY <1>14 DEF CancelRow
<1>15. CASE PutCancelled BY <1>15 DEF PutCancelled
<1>16. CASE ReturnVerdict BY <1>16 DEF ReturnVerdict
<1>17. CASE CoordinatorThrows BY <1>17 DEF CoordinatorThrows
<1>18. CASE Interrupt BY <1>18 DEF Interrupt
<1>19. ASSUME NEW r \in Stages, StageBegins(r) PROVE LaunchInv'
  BY <1>19 DEF StageBegins
<1>20. ASSUME NEW r \in Stages, StageEnds(r) PROVE LaunchInv'
  BY <1>20 DEF StageEnds
<1>21. ASSUME NEW r \in Stages, StageThrows(r) PROVE LaunchInv'
  BY <1>21 DEF StageThrows
<1>22. ASSUME NEW r \in Stages, PutVerdict(r) PROVE LaunchInv'
  BY <1>22 DEF PutVerdict
<1>23. ASSUME NEW r \in Stages, SetStop(r) PROVE LaunchInv'
  BY <1>23 DEF SetStop
<1>24. ASSUME NEW r \in Stages, Leave(r) PROVE LaunchInv'
  BY <1>24 DEF Leave
<1>25. CASE UNCHANGED vars BY <1>25 DEF vars
<1> QED
  BY <1>1, <1>2, <1>3, <1>4, <1>5, <1>6, <1>7, <1>8, <1>9, <1>10, <1>11, <1>12, <1>13,
     <1>14, <1>15, <1>16, <1>17, <1>18, <1>19, <1>20, <1>21, <1>22, <1>23, <1>24, <1>25
     DEF Next, Coordinator, StageThread, Finished

\* Only the thread of a stage gives it a verdict while it is in the window.
LEMMA RerunInvStep ==
  TypeOK /\ AtStage /\ RerunInv /\ ThreadInv /\ ReadyInv /\ LaunchInv /\ CancelInv
    /\ [Next]_vars => RerunInv'
<1> SUFFICES ASSUME TypeOK, AtStage, RerunInv, ThreadInv, ReadyInv, LaunchInv, CancelInv, [Next]_vars
             PROVE RerunInv'
  OBVIOUS
<1> USE IndexIsStage DEF TypeOK, AtStage, RerunInv, ThreadInv, ReadyInv, LaunchInv,
        CancelInv, Live, Busy, InWindow, Settled, Scanning, Cancelling
<1>1. CASE LoadStages BY <1>1 DEF LoadStages
<1>2. CASE TestLoop BY <1>2 DEF TestLoop
<1>3. CASE ReadCompleted BY <1>3 DEF ReadCompleted
<1>4. CASE ReadRunning BY <1>4 DEF ReadRunning
<1>5. CASE ReadDependency BY <1>5 DEF ReadDependency
<1>6. CASE MarkReady BY <1>6 DEF MarkReady
<1>7. CASE SkipStage BY <1>7 DEF SkipStage
<1>8. CASE EndScan BY <1>8 DEF EndScan
<1>9. CASE CheckReady BY <1>9 DEF CheckReady
<1>10. CASE Sleep BY <1>10 DEF Sleep
<1>11. CASE LaunchStage BY <1>11 DEF LaunchStage
<1>12. CASE AwaitRunning BY <1>12 DEF AwaitRunning
<1>13. CASE ReadRest BY <1>13 DEF ReadRest
<1>14. CASE CancelRow BY <1>14 DEF CancelRow
<1>15. CASE PutCancelled BY <1>15 DEF PutCancelled
<1>16. CASE ReturnVerdict BY <1>16 DEF ReturnVerdict
<1>17. CASE CoordinatorThrows BY <1>17 DEF CoordinatorThrows
<1>18. CASE Interrupt BY <1>18 DEF Interrupt
<1>19. ASSUME NEW r \in Stages, StageBegins(r) PROVE RerunInv'
  BY <1>19 DEF StageBegins
<1>20. ASSUME NEW r \in Stages, StageEnds(r) PROVE RerunInv'
  BY <1>20 DEF StageEnds
<1>21. ASSUME NEW r \in Stages, StageThrows(r) PROVE RerunInv'
  BY <1>21 DEF StageThrows
<1>22. ASSUME NEW r \in Stages, PutVerdict(r) PROVE RerunInv'
  BY <1>22 DEF PutVerdict
<1>23. ASSUME NEW r \in Stages, SetStop(r) PROVE RerunInv'
  BY <1>23 DEF SetStop
<1>24. ASSUME NEW r \in Stages, Leave(r) PROVE RerunInv'
  BY <1>24 DEF Leave
<1>25. CASE UNCHANGED vars BY <1>25 DEF vars
<1> QED
  BY <1>1, <1>2, <1>3, <1>4, <1>5, <1>6, <1>7, <1>8, <1>9, <1>10, <1>11, <1>12, <1>13,
     <1>14, <1>15, <1>16, <1>17, <1>18, <1>19, <1>20, <1>21, <1>22, <1>23, <1>24, <1>25
     DEF Next, Coordinator, StageThread, Finished

\* The read of completedStages found no verdict, so nothing was waiting for one.
LEMMA OverwriteInvStep ==
  TypeOK /\ AtStage /\ OverwriteInv /\ DependencyInv /\ ReadyInv
    /\ [Next]_vars => OverwriteInv'
<1> SUFFICES ASSUME TypeOK, AtStage, OverwriteInv, DependencyInv, ReadyInv, [Next]_vars
             PROVE OverwriteInv'
  OBVIOUS
<1> USE IndexIsStage DEF TypeOK, AtStage, OverwriteInv, DependencyInv, ReadyInv, Live,
        HasVerdict
<1>1. CASE LoadStages BY <1>1 DEF LoadStages
<1>2. CASE TestLoop BY <1>2 DEF TestLoop
<1>3. CASE ReadCompleted BY <1>3 DEF ReadCompleted
<1>4. CASE ReadRunning BY <1>4 DEF ReadRunning
<1>5. CASE ReadDependency BY <1>5 DEF ReadDependency
<1>6. CASE MarkReady BY <1>6 DEF MarkReady
<1>7. CASE SkipStage BY <1>7 DEF SkipStage
<1>8. CASE EndScan BY <1>8 DEF EndScan
<1>9. CASE CheckReady BY <1>9 DEF CheckReady
<1>10. CASE Sleep BY <1>10 DEF Sleep
<1>11. CASE LaunchStage BY <1>11 DEF LaunchStage
<1>12. CASE AwaitRunning BY <1>12 DEF AwaitRunning
<1>13. CASE ReadRest BY <1>13 DEF ReadRest
<1>14. CASE CancelRow BY <1>14 DEF CancelRow
<1>15. CASE PutCancelled BY <1>15 DEF PutCancelled
<1>16. CASE ReturnVerdict BY <1>16 DEF ReturnVerdict
<1>17. CASE CoordinatorThrows BY <1>17 DEF CoordinatorThrows
<1>18. CASE Interrupt BY <1>18 DEF Interrupt
<1>19. ASSUME NEW r \in Stages, StageBegins(r) PROVE OverwriteInv'
  BY <1>19 DEF StageBegins
<1>20. ASSUME NEW r \in Stages, StageEnds(r) PROVE OverwriteInv'
  BY <1>20 DEF StageEnds
<1>21. ASSUME NEW r \in Stages, StageThrows(r) PROVE OverwriteInv'
  BY <1>21 DEF StageThrows
<1>22. ASSUME NEW r \in Stages, PutVerdict(r) PROVE OverwriteInv'
  BY <1>22 DEF PutVerdict
<1>23. ASSUME NEW r \in Stages, SetStop(r) PROVE OverwriteInv'
  BY <1>23 DEF SetStop
<1>24. ASSUME NEW r \in Stages, Leave(r) PROVE OverwriteInv'
  BY <1>24 DEF Leave
<1>25. CASE UNCHANGED vars BY <1>25 DEF vars
<1> QED
  BY <1>1, <1>2, <1>3, <1>4, <1>5, <1>6, <1>7, <1>8, <1>9, <1>10, <1>11, <1>12, <1>13,
     <1>14, <1>15, <1>16, <1>17, <1>18, <1>19, <1>20, <1>21, <1>22, <1>23, <1>24, <1>25
     DEF Next, Coordinator, StageThread, Finished

\* A verdict turns from ok to failed only by the end of a second run.
LEMMA FailureInvStep ==
  TypeOK /\ AtStage /\ FailureInv /\ ThreadInv /\ ReadyInv /\ OverwriteInv /\ DependencyInv /\ RerunInv
    /\ [Next]_vars => FailureInv'
<1> SUFFICES ASSUME TypeOK, AtStage, FailureInv, ThreadInv, ReadyInv, OverwriteInv, DependencyInv, RerunInv, [Next]_vars
             PROVE FailureInv'
  OBVIOUS
<1> USE IndexIsStage DEF TypeOK, AtStage, FailureInv, ThreadInv, ReadyInv, OverwriteInv,
        DependencyInv, RerunInv, Live, HasVerdict, Busy, Settled, InWindow
<1>1. CASE LoadStages BY <1>1 DEF LoadStages
<1>2. CASE TestLoop BY <1>2 DEF TestLoop
<1>3. CASE ReadCompleted BY <1>3 DEF ReadCompleted
<1>4. CASE ReadRunning BY <1>4 DEF ReadRunning
<1>5. CASE ReadDependency BY <1>5 DEF ReadDependency
<1>6. CASE MarkReady BY <1>6 DEF MarkReady
<1>7. CASE SkipStage BY <1>7 DEF SkipStage
<1>8. CASE EndScan BY <1>8 DEF EndScan
<1>9. CASE CheckReady BY <1>9 DEF CheckReady
<1>10. CASE Sleep BY <1>10 DEF Sleep
<1>11. CASE LaunchStage BY <1>11 DEF LaunchStage
<1>12. CASE AwaitRunning BY <1>12 DEF AwaitRunning
<1>13. CASE ReadRest BY <1>13 DEF ReadRest
<1>14. CASE CancelRow BY <1>14 DEF CancelRow
<1>15. CASE PutCancelled BY <1>15 DEF PutCancelled
<1>16. CASE ReturnVerdict BY <1>16 DEF ReturnVerdict
<1>17. CASE CoordinatorThrows BY <1>17 DEF CoordinatorThrows
<1>18. CASE Interrupt BY <1>18 DEF Interrupt
<1>19. ASSUME NEW r \in Stages, StageBegins(r) PROVE FailureInv'
  BY <1>19 DEF StageBegins
<1>20. ASSUME NEW r \in Stages, StageEnds(r) PROVE FailureInv'
  BY <1>20 DEF StageEnds
<1>21. ASSUME NEW r \in Stages, StageThrows(r) PROVE FailureInv'
  BY <1>21 DEF StageThrows
<1>22. ASSUME NEW r \in Stages, PutVerdict(r) PROVE FailureInv'
  <2> USE <1>22 DEF PutVerdict
  <2> completedStages[r] \in {"none", "ok", "failed"} BY DEF Verdict
  <2>1. Busy(r) /\ completedStages[r] # "none" => completedStages[r] = "failed" \/ launches[r] >= 2
    OBVIOUS
  <2>2. ASSUME NEW s \in Stages, Live(s)' \/ s \in readyStageIds', r \in dependsOn[s]
        PROVE completedStages'[r] = "failed" => launches'[r] >= 2
    BY <2>1, <2>2
  <2>3. ASSUME NEW s \in Stages, Live(s)' \/ s \in readyStageIds', NEW d \in dependsOn[s], d # r
        PROVE completedStages'[d] = "failed" => launches'[d] >= 2
    BY <2>3
  <2>4. pc = "scanDeps" /\ ~depFailed =>
          \A d \in dependsOn[at] \ depsLeft : completedStages'[d] = "failed" => launches[d] >= 2
    BY <2>1
  <2> QED BY <2>2, <2>3, <2>4
<1>23. ASSUME NEW r \in Stages, SetStop(r) PROVE FailureInv'
  BY <1>23 DEF SetStop
<1>24. ASSUME NEW r \in Stages, Leave(r) PROVE FailureInv'
  BY <1>24 DEF Leave
<1>25. CASE UNCHANGED vars BY <1>25 DEF vars
<1> QED
  BY <1>1, <1>2, <1>3, <1>4, <1>5, <1>6, <1>7, <1>8, <1>9, <1>10, <1>11, <1>12, <1>13,
     <1>14, <1>15, <1>16, <1>17, <1>18, <1>19, <1>20, <1>21, <1>22, <1>23, <1>24, <1>25
     DEF Next, Coordinator, StageThread, Finished

\* The thread writes the row before the map; the coordinator only rows of idle stages.
LEMMA RowInvStep ==
  TypeOK /\ AtStage /\ RowInv /\ ThreadInv /\ RerunInv /\ CancelInv /\ [Next]_vars => RowInv'
<1> SUFFICES ASSUME TypeOK, AtStage, RowInv, ThreadInv, RerunInv, CancelInv, [Next]_vars
             PROVE RowInv'
  OBVIOUS
<1> USE IndexIsStage DEF TypeOK, AtStage, RowInv, ThreadInv, RerunInv, CancelInv, Live,
        Busy, Settled, RowAgrees, RerunLost, InWindow, Cancelling
<1>1. CASE LoadStages BY <1>1 DEF LoadStages
<1>2. CASE TestLoop BY <1>2 DEF TestLoop
<1>3. CASE ReadCompleted BY <1>3 DEF ReadCompleted
<1>4. CASE ReadRunning BY <1>4 DEF ReadRunning
<1>5. CASE ReadDependency BY <1>5 DEF ReadDependency
<1>6. CASE MarkReady BY <1>6 DEF MarkReady
<1>7. CASE SkipStage BY <1>7 DEF SkipStage
<1>8. CASE EndScan BY <1>8 DEF EndScan
<1>9. CASE CheckReady BY <1>9 DEF CheckReady
<1>10. CASE Sleep BY <1>10 DEF Sleep
<1>11. CASE LaunchStage BY <1>11 DEF LaunchStage
<1>12. CASE AwaitRunning BY <1>12 DEF AwaitRunning
<1>13. CASE ReadRest BY <1>13 DEF ReadRest
<1>14. CASE CancelRow BY <1>14 DEF CancelRow
<1>15. CASE PutCancelled BY <1>15 DEF PutCancelled
<1>16. CASE ReturnVerdict BY <1>16 DEF ReturnVerdict
<1>17. CASE CoordinatorThrows BY <1>17 DEF CoordinatorThrows
<1>18. CASE Interrupt BY <1>18 DEF Interrupt
<1>19. ASSUME NEW r \in Stages, StageBegins(r) PROVE RowInv'
  BY <1>19 DEF StageBegins
<1>20. ASSUME NEW r \in Stages, StageEnds(r) PROVE RowInv'
  BY <1>20 DEF StageEnds
<1>21. ASSUME NEW r \in Stages, StageThrows(r) PROVE RowInv'
  <2> SUFFICES ASSUME ~interrupted PROVE \A s \in Stages :
        /\ thread'[s] = "running" => stageStatus'[s] = "RUNNING"
        /\ thread'[s] = "verdict" => stageStatus'[s] = IF success'[s] THEN "SUCCESS" ELSE "FAILED"
        /\ completedStages'[s] # "none" /\ thread'[s] \in {"idle", "begin", "stop", "leave"}
             => RowAgrees(s)'
    BY <1>21 DEF StageThrows
  <2>1. ASSUME NEW s \in Stages, s # r PROVE thread'[s] = thread[s] /\ throws'[s] = throws[s]
    BY <1>21, <2>1 DEF StageThrows
  <2>2. throws'[r] > 0 /\ thread'[r] = "leave"
    BY <1>21 DEF StageThrows
  <2>3. ASSUME completedStages[r] # "none" PROVE RowAgrees(r)'
    <3>1. CASE thread[r] = "begin" BY <1>21, <2>2, <2>3, <3>1 DEF StageThrows
    <3>2. CASE thread[r] = "running"
      <4> completedStages[r] \in {"none", "ok", "failed"} BY DEF Verdict
      <4>1. Settled(r) /\ Busy(r) BY <2>3, <3>2
      <4>2. launches[r] >= 2 /\ stageStatus[r] = "RUNNING" BY <4>1, <3>2
      <4> QED BY <1>21, <2>2, <2>3, <4>2 DEF StageThrows
    <3> QED BY <1>21, <3>1, <3>2 DEF StageThrows
  <2> QED BY <1>21, <2>1, <2>2, <2>3 DEF StageThrows
<1>22. ASSUME NEW r \in Stages, PutVerdict(r) PROVE RowInv'
  BY <1>22 DEF PutVerdict
<1>23. ASSUME NEW r \in Stages, SetStop(r) PROVE RowInv'
  BY <1>23 DEF SetStop
<1>24. ASSUME NEW r \in Stages, Leave(r) PROVE RowInv'
  BY <1>24 DEF Leave
<1>25. CASE UNCHANGED vars BY <1>25 DEF vars
<1> QED
  BY <1>1, <1>2, <1>3, <1>4, <1>5, <1>6, <1>7, <1>8, <1>9, <1>10, <1>11, <1>12, <1>13,
     <1>14, <1>15, <1>16, <1>17, <1>18, <1>19, <1>20, <1>21, <1>22, <1>23, <1>24, <1>25
     DEF Next, Coordinator, StageThread, Finished

\* Once runningStages was seen empty nobody fills it.
LEMMA CancelInvStep ==
  TypeOK /\ AtStage /\ CancelInv /\ ThreadInv /\ [Next]_vars => CancelInv'
<1> SUFFICES ASSUME TypeOK, AtStage, CancelInv, ThreadInv, [Next]_vars PROVE CancelInv'
  OBVIOUS
<1> USE IndexIsStage, StagesAssumption DEF TypeOK, AtStage, CancelInv, ThreadInv, Stages,
        Live, Cancelling
<1>1. CASE LoadStages BY <1>1 DEF LoadStages
<1>2. CASE TestLoop BY <1>2 DEF TestLoop
<1>3. CASE ReadCompleted BY <1>3 DEF ReadCompleted
<1>4. CASE ReadRunning BY <1>4 DEF ReadRunning
<1>5. CASE ReadDependency BY <1>5 DEF ReadDependency
<1>6. CASE MarkReady BY <1>6 DEF MarkReady
<1>7. CASE SkipStage BY <1>7 DEF SkipStage
<1>8. CASE EndScan BY <1>8 DEF EndScan
<1>9. CASE CheckReady BY <1>9 DEF CheckReady
<1>10. CASE Sleep BY <1>10 DEF Sleep
<1>11. CASE LaunchStage BY <1>11 DEF LaunchStage
<1>12. CASE AwaitRunning BY <1>12 DEF AwaitRunning
<1>13. CASE ReadRest BY <1>13 DEF ReadRest
<1>14. CASE CancelRow BY <1>14 DEF CancelRow
<1>15. CASE PutCancelled BY <1>15 DEF PutCancelled
<1>16. CASE ReturnVerdict BY <1>16 DEF ReturnVerdict
<1>17. CASE CoordinatorThrows BY <1>17 DEF CoordinatorThrows
<1>18. CASE Interrupt BY <1>18 DEF Interrupt
<1>19. ASSUME NEW r \in Stages, StageBegins(r) PROVE CancelInv'
  BY <1>19 DEF StageBegins
<1>20. ASSUME NEW r \in Stages, StageEnds(r) PROVE CancelInv'
  BY <1>20 DEF StageEnds
<1>21. ASSUME NEW r \in Stages, StageThrows(r) PROVE CancelInv'
  BY <1>21 DEF StageThrows
<1>22. ASSUME NEW r \in Stages, PutVerdict(r) PROVE CancelInv'
  BY <1>22 DEF PutVerdict
<1>23. ASSUME NEW r \in Stages, SetStop(r) PROVE CancelInv'
  BY <1>23 DEF SetStop
<1>24. ASSUME NEW r \in Stages, Leave(r) PROVE CancelInv'
  BY <1>24 DEF Leave
<1>25. CASE UNCHANGED vars BY <1>25 DEF vars
<1> QED
  BY <1>1, <1>2, <1>3, <1>4, <1>5, <1>6, <1>7, <1>8, <1>9, <1>10, <1>11, <1>12, <1>13,
     <1>14, <1>15, <1>16, <1>17, <1>18, <1>19, <1>20, <1>21, <1>22, <1>23, <1>24, <1>25
     DEF Next, Coordinator, StageThread, Finished

\* The answer is computed when every stage has a verdict and none is running.
LEMMA ReturnInvStep ==
  TypeOK /\ AtStage /\ ReturnInv /\ ThreadInv /\ CancelInv /\ [Next]_vars => ReturnInv'
<1> SUFFICES ASSUME TypeOK, AtStage, ReturnInv, ThreadInv, CancelInv, [Next]_vars
             PROVE ReturnInv'
  OBVIOUS
<1> USE IndexIsStage, StagesAssumption DEF TypeOK, AtStage, ReturnInv, ThreadInv,
        CancelInv, Stages, Live, Returned, Cancelling, AllSucceeded
<1>1. CASE LoadStages BY <1>1 DEF LoadStages
<1>2. CASE TestLoop BY <1>2 DEF TestLoop
<1>3. CASE ReadCompleted BY <1>3 DEF ReadCompleted
<1>4. CASE ReadRunning BY <1>4 DEF ReadRunning
<1>5. CASE ReadDependency BY <1>5 DEF ReadDependency
<1>6. CASE MarkReady BY <1>6 DEF MarkReady
<1>7. CASE SkipStage BY <1>7 DEF SkipStage
<1>8. CASE EndScan BY <1>8 DEF EndScan
<1>9. CASE CheckReady BY <1>9 DEF CheckReady
<1>10. CASE Sleep BY <1>10 DEF Sleep
<1>11. CASE LaunchStage BY <1>11 DEF LaunchStage
<1>12. CASE AwaitRunning BY <1>12 DEF AwaitRunning
<1>13. CASE ReadRest BY <1>13 DEF ReadRest
<1>14. CASE CancelRow BY <1>14 DEF CancelRow
<1>15. CASE PutCancelled BY <1>15 DEF PutCancelled
<1>16. CASE ReturnVerdict BY <1>16 DEF ReturnVerdict
<1>17. CASE CoordinatorThrows BY <1>17 DEF CoordinatorThrows
<1>18. CASE Interrupt BY <1>18 DEF Interrupt
<1>19. ASSUME NEW r \in Stages, StageBegins(r) PROVE ReturnInv'
  BY <1>19 DEF StageBegins
<1>20. ASSUME NEW r \in Stages, StageEnds(r) PROVE ReturnInv'
  BY <1>20 DEF StageEnds
<1>21. ASSUME NEW r \in Stages, StageThrows(r) PROVE ReturnInv'
  BY <1>21 DEF StageThrows
<1>22. ASSUME NEW r \in Stages, PutVerdict(r) PROVE ReturnInv'
  BY <1>22 DEF PutVerdict
<1>23. ASSUME NEW r \in Stages, SetStop(r) PROVE ReturnInv'
  BY <1>23 DEF SetStop
<1>24. ASSUME NEW r \in Stages, Leave(r) PROVE ReturnInv'
  BY <1>24 DEF Leave
<1>25. CASE UNCHANGED vars BY <1>25 DEF vars
<1> QED
  BY <1>1, <1>2, <1>3, <1>4, <1>5, <1>6, <1>7, <1>8, <1>9, <1>10, <1>11, <1>12, <1>13,
     <1>14, <1>15, <1>16, <1>17, <1>18, <1>19, <1>20, <1>21, <1>22, <1>23, <1>24, <1>25
     DEF Next, Coordinator, StageThread, Finished

-----------------------------------------------------------------------------
(* The theorems.                                                           *)

LEMMA IInvInit == Init => IInv
<1> SUFFICES ASSUME Init PROVE IInv
  OBVIOUS
<1>1. TypeOK /\ AtStage
  BY TypeInit
<1>2. ThreadInv /\ ReadyInv /\ DependencyInv /\ OverwriteInv /\ FailureInv
  BY DEF Init, ThreadInv, ReadyInv, DependencyInv, OverwriteInv, FailureInv, Live, Scanning
<1>3. LaunchInv /\ RerunInv /\ RowInv
  BY DEF Init, LaunchInv, RerunInv, RowInv, Live, Busy, InWindow, Settled
<1>4. CancelInv /\ ReturnInv
  BY DEF Init, CancelInv, ReturnInv, Cancelling, Returned
<1> QED BY <1>1, <1>2, <1>3, <1>4 DEF IInv

LEMMA IInvStep == IInv /\ [Next]_vars => IInv'
  BY TypeStep, ThreadInvStep, ReadyInvStep, DependencyInvStep, LaunchInvStep, RerunInvStep,
     OverwriteInvStep, FailureInvStep, RowInvStep, CancelInvStep, ReturnInvStep DEF IInv

\* The inductive invariant holds along every behaviour.
THEOREM Invariance == Spec => []IInv
  BY IInvInit, IInvStep, PTL DEF Spec

\* The scan's two unlocked reads never give a stage a second live thread.
THEOREM ThreadsAreUnique == Spec => OneThreadPerStage
<1>1. IInv /\ [Next]_vars => [\A s \in Stages : launches'[s] # launches[s] => ~Live(s)]_vars
  <2> SUFFICES ASSUME IInv, Next, NEW s \in Stages, launches'[s] # launches[s] PROVE ~Live(s)
    BY DEF vars
  <2>1. LaunchStage
    BY DEF Next, Coordinator, LoadStages, TestLoop, ReadCompleted, ReadRunning, ReadDependency,
           MarkReady, SkipStage, EndScan, CheckReady, Sleep, AwaitRunning, ReadRest, CancelRow,
           PutCancelled, ReturnVerdict, CoordinatorThrows, Interrupt, Finished, vars, StageThread,
           StageBegins, StageEnds, StageThrows, PutVerdict, SetStop, Leave
  <2>2. s \in readyStageIds
    BY <2>1 DEF LaunchStage, IInv, TypeOK
  <2> QED BY <2>2 DEF IInv, ThreadInv
<1> QED BY <1>1, Invariance, PTL DEF Spec, OneThreadPerStage

\* Every dependency of a running stage has a verdict, for every graph.
THEOREM DependenciesFirst == Spec => []StartsAfterDependencies
<1>1. IInv => StartsAfterDependencies
  BY DEF IInv, DependencyInv, StartsAfterDependencies
<1> QED BY <1>1, Invariance, PTL

\* No stage runs beside a failed dependency that was run only once.
THEOREM FailureBlocks == Spec => []FailureBlocksDependents
<1>1. IInv => FailureBlocksDependents
  BY DEF IInv, FailureInv, FailureBlocksDependents
<1> QED BY <1>1, Invariance, PTL

\* The race repeats a stage once at most.
THEOREM RerunsAreBounded == Spec => []AtMostOneRerun
<1>1. IInv => AtMostOneRerun
  <2> SUFFICES ASSUME IInv, NEW s \in Stages PROVE launches[s] <= throws[s] + 2
    BY DEF AtMostOneRerun
  <2>1. launches[s] \in Nat /\ throws[s] \in Nat
    BY DEF IInv, TypeOK
  <2> QED BY <2>1 DEF IInv, LaunchInv
<1> QED BY <1>1, Invariance, PTL

\* A readable verdict agrees with the row.
THEOREM VerdictsAreStored == Spec => []VerdictIsStored
<1>1. IInv => VerdictIsStored
  BY DEF IInv, RowInv, VerdictIsStored, HasVerdict
<1> QED BY <1>1, Invariance, PTL

\* An uninterrupted return leaves no thread and no unsettled row behind.
THEOREM ReturnSettles == Spec => []ReturnedMeansSettled
<1>1. IInv => ReturnedMeansSettled
  <2> SUFFICES ASSUME IInv, Returned, ~interrupted
               PROVE /\ runningStages = {}
                     /\ \A s \in Stages : ~Live(s) /\ RowAgrees(s)
                     /\ returned = "true" <=> AllSucceeded
    BY DEF ReturnedMeansSettled
  <2>1. /\ runningStages = {}
        /\ \A s \in Stages : completedStages[s] # "none"
        /\ returned = "true" <=> AllSucceeded
    BY DEF IInv, ReturnInv
  <2>2. ASSUME NEW s \in Stages PROVE ~Live(s) /\ RowAgrees(s)
    BY <2>1 DEF IInv, ThreadInv, RowInv, Live
  <2> QED BY <2>1, <2>2
<1> QED BY <1>1, Invariance, PTL

-----------------------------------------------------------------------------
(* Refinement of StageGraph.                                               *)

LEMMA RefinesInit == Init => Graph!Init
  BY DEF Init, Graph!Init, Live

LEMMA RefinesStep == IInv /\ [Next]_vars => [Graph!Next]_(Graph!vars)
<1> SUFFICES ASSUME IInv, [Next]_vars PROVE [Graph!Next]_(Graph!vars)
  OBVIOUS
<1> DEFINE liveSet == {s \in Stages : Live(s)}
<1>0. /\ TypeOK /\ AtStage /\ ThreadInv
      /\ DependencyInv /\ CancelInv /\ ReturnInv
  BY DEF IInv
<1> USE DEF Graph!vars, Live
<1>1. CASE LoadStages
  <2>1. CASE N = 0
    <3>1. Stages = {} BY <2>1 DEF Stages
    <3>2. returned = "nothing" BY <1>0, <1>1 DEF LoadStages, ReturnInv
    <3> QED BY <1>1, <2>1, <3>1, <3>2 DEF LoadStages, Graph!Next, Graph!Return
  <2>2. CASE N # 0 BY <1>1, <2>2 DEF LoadStages
  <2> QED BY <2>1, <2>2
<1>2. CASE TestLoop BY <1>2 DEF TestLoop
<1>3. CASE ReadCompleted BY <1>3 DEF ReadCompleted
<1>4. CASE ReadRunning BY <1>4 DEF ReadRunning
<1>5. CASE ReadDependency BY <1>5 DEF ReadDependency
<1>6. CASE MarkReady BY <1>6 DEF MarkReady
<1>7. CASE SkipStage
  <2>1. at \in Stages /\ at \notin liveSet /\ returned = "nothing"
    BY <1>0, <1>7 DEF SkipStage, AtStage, ThreadInv, ReturnInv
  <2>2. Graph!Skip(at) BY <1>7, <2>1 DEF SkipStage, Graph!Skip
  <2> QED BY <2>1, <2>2 DEF Graph!Next
<1>8. CASE EndScan BY <1>8 DEF EndScan
<1>9. CASE CheckReady BY <1>9 DEF CheckReady
<1>10. CASE Sleep BY <1>10 DEF Sleep
<1>11. CASE LaunchStage
  <2> PICK s \in readyStageIds :
        /\ thread' = [thread EXCEPT ![s] = "begin"]
        /\ UNCHANGED <<dependsOn, completedStages, returned, interrupted>>
    BY <1>11 DEF LaunchStage
  <2>1. s \in Stages /\ s \notin liveSet /\ returned = "nothing"
    BY <1>0, <1>11 DEF LaunchStage, TypeOK, ThreadInv, ReturnInv
  <2>2. \A d \in dependsOn[s] : d \in Stages /\ completedStages[d] # "none"
    BY <1>0, <2>1 DEF DependencyInv, HasVerdict
  <2>3. liveSet' = liveSet \cup {s}
    BY <1>0, <2>1 DEF TypeOK
  <2>4. Graph!Start(s) BY <2>1, <2>2, <2>3 DEF Graph!Start
  <2> QED BY <2>1, <2>4 DEF Graph!Next
<1>12. CASE AwaitRunning BY <1>12 DEF AwaitRunning
<1>13. CASE ReadRest BY <1>13 DEF ReadRest
<1>14. CASE CancelRow BY <1>14 DEF CancelRow
<1>15. CASE PutCancelled
  <2>1. at \in Stages /\ returned = "nothing" /\ (at \notin liveSet \/ interrupted)
    BY <1>0, <1>15 DEF PutCancelled, AtStage, ThreadInv, ReturnInv, CancelInv, Cancelling
  <2>2. Graph!Skip(at) BY <1>15, <2>1 DEF PutCancelled, Graph!Skip
  <2> QED BY <2>1, <2>2 DEF Graph!Next
<1>16. CASE ReturnVerdict
  <2>1. returned = "nothing" BY <1>0, <1>16 DEF ReturnVerdict, ReturnInv
  <2>2. liveSet = {} \/ interrupted
    BY <1>0, <1>16 DEF ReturnVerdict, CancelInv, Cancelling, ThreadInv
  <2>3. interrupted \/ \A s \in Stages : completedStages[s] # "none"
    <3>1. \A s \in Stages : s < at BY <1>0, <1>16, StagesAssumption DEF ReturnVerdict, Stages, TypeOK
    <3> QED BY <1>0, <1>16, <3>1 DEF ReturnVerdict, CancelInv, Cancelling
  <2>4. Graph!Return
    BY <1>16, <2>1, <2>2, <2>3 DEF ReturnVerdict, AllSucceeded, Graph!Return
  <2> QED BY <2>4 DEF Graph!Next
<1>17. CASE CoordinatorThrows
  <2>1. returned = "nothing" BY <1>0, <1>17 DEF CoordinatorThrows, ReturnInv
  <2>2. pc = "scanDeps" => at \in Stages \ liveSet
    BY <1>0 DEF AtStage, ThreadInv
  <2>3. \/ UNCHANGED completedStages
        \/ \E s \in Stages \ liveSet :
             completedStages' = [completedStages EXCEPT ![s] = "failed"]
    BY <1>17, <2>2 DEF CoordinatorThrows
  <2>4. /\ UNCHANGED <<dependsOn, interrupted, liveSet>>
        /\ returned' = "threw"
    BY <1>17 DEF CoordinatorThrows
  <2>5. Graph!Throw BY <2>1, <2>3, <2>4 DEF Graph!Throw
  <2> QED BY <2>5 DEF Graph!Next
<1>18. CASE Interrupt
  <2>1. returned = "nothing" BY <1>0, <1>18 DEF Interrupt, ReturnInv, TypeOK
  <2> QED BY <1>18, <2>1 DEF Interrupt, Graph!Next, Graph!Disturb
<1>19. ASSUME NEW s \in Stages, PutVerdict(s) PROVE [Graph!Next]_(Graph!vars)
  <2> DEFINE v == IF success[s] THEN "ok" ELSE "failed"
  <2>1. s \in liveSet /\ liveSet' = liveSet
    BY <1>0, <1>19 DEF PutVerdict, TypeOK
  <2>2. completedStages' = [completedStages EXCEPT ![s] = v]
    BY <1>19 DEF PutVerdict
  <2>3. v \in {"ok", "failed"} OBVIOUS
  <2> HIDE DEF v
  <2>4. Graph!Count(s, v) BY <1>19, <2>1, <2>2 DEF PutVerdict, Graph!Count
  <2> QED BY <2>3, <2>4 DEF Graph!Next
<1>20. ASSUME NEW s \in Stages, Leave(s) PROVE [Graph!Next]_(Graph!vars)
  <2>1. s \in liveSet /\ liveSet' = liveSet \ {s}
    BY <1>0, <1>20 DEF Leave, TypeOK
  <2>2. Graph!End(s) BY <1>20, <2>1 DEF Leave, Graph!End
  <2> QED BY <2>2 DEF Graph!Next
<1>21. ASSUME NEW s \in Stages, StageBegins(s) \/ StageEnds(s) \/ StageThrows(s) \/ SetStop(s)
       PROVE UNCHANGED Graph!vars
  <2>1. liveSet' = liveSet
    BY <1>0, <1>21 DEF StageBegins, StageEnds, StageThrows, SetStop, TypeOK
  <2> QED BY <1>21, <2>1 DEF StageBegins, StageEnds, StageThrows, SetStop
<1>22. CASE UNCHANGED vars BY <1>22 DEF vars
<1> QED
  BY <1>1, <1>2, <1>3, <1>4, <1>5, <1>6, <1>7, <1>8, <1>9, <1>10, <1>11, <1>12, <1>13,
     <1>14, <1>15, <1>16, <1>17, <1>18, <1>19, <1>20, <1>21, <1>22
     DEF Next, Coordinator, StageThread, Finished

\* The engine implements the contract the rest of the pipeline relies on.
THEOREM EngineImplements == Spec => Implements
  BY RefinesInit, RefinesStep, Invariance, PTL DEF Spec, Implements, Graph!Spec
=============================================================================
