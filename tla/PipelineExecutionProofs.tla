----------------------- MODULE PipelineExecutionProofs -----------------------
(* Theorems about PipelineExecution, for any number of executions, build    *)
(* jobs, pages, threads and places in the pool's queue.                     *)
EXTENDS PipelineExecution, SequenceTheorems, FiniteSetTheorems, TLAPS

\* The executions that wait in the pool's queue wait there once.
QueueInv ==
  /\ \A i \in 1 .. Len(queue) : queue[i] # ADeployment => task[queue[i]] = "queued"
  /\ \A i, j \in 1 .. Len(queue) :
       i # j /\ queue[i] # ADeployment => queue[i] # queue[j]

\* taken[i]: a bound on the build jobs begun once i places of the queue are served.
BeginsAtMost(taken, waiting, begun) ==
  /\ begun <= taken[0]
  /\ \A i \in 1 .. Len(waiting) :
       taken[i - 1] + (IF waiting[i] = ADeployment THEN 1 ELSE 0) <= taken[i]

\* No more build jobs run and wait than were handed to the pool.
DeploymentsInv ==
  \E taken \in [0 .. Len(queue) -> 0 .. submitted] : BeginsAtMost(taken, queue, deploying)

\* Where a run can be once its verdict is written.
Late == {"announce", "fail", "complete", "cleanup", "over", "lost"}

\* What the row of one run, its directory and its stage threads say of where it is.
RunInv(e) ==
  /\ status[e] = "absent" => task[e] = "none"
  /\ task[e] = "announce" => status[e] \in Terminal
  /\ task[e] \in {"complete", "cleanup", "over"} /\ e \notin unrecorded => status[e] \in Terminal
  /\ status[e] \in {"SUCCESS", "FAILED"} => task[e] \in Late
  /\ e \in live => (task[e] = "graph" /\ e \in workspace) \/ result[e] = "threw" \/ e \in cut

PoolOK ==
  /\ queue \in Seq(Executions \cup {ADeployment})
  /\ submitted \in 0 .. Deployments /\ deploying \in Nat
  /\ workers \in 0 .. MaxPoolSize

\* The rest of TypeOK.
RowsOK ==
  /\ status \in [Executions -> Active \cup Terminal \cup {"absent"}]
  /\ task \in [Executions -> Task]
  /\ result \in [Executions -> {"nothing", "true", "false", "threw"}]
  /\ live \subseteq Executions /\ workspace \subseteq Executions
  /\ unrecorded \subseteq Executions /\ cut \subseteq Executions
  /\ crashed \in BOOLEAN /\ closing \in BOOLEAN

PagesOK ==
  /\ executionEmitters \in [Executions -> SUBSET Viewers]
  /\ conn \in [Viewers -> Connection]
  /\ open \in [Viewers -> BOOLEAN] /\ polling \in [Viewers -> BOOLEAN]
  /\ page \in [Viewers -> {"closed", "loading", "open"}]
  /\ shown \in [Viewers -> Active \cup Terminal \cup {"nothing"}]
  /\ missed \subseteq Viewers

RunsInv == \A e \in Executions : RunInv(e)

CoreInv == PoolOK /\ RowsOK /\ PagesOK /\ QueueInv /\ DeploymentsInv /\ RunsInv

\* A page is only opened on an execution that is there.
WatchedInv ==
  \A v \in Viewers : open[v] \/ page[v] # "closed" => status[Watched[v]] # "absent"

IInv == CoreInv /\ WatchedInv

-----------------------------------------------------------------------------
LEMMA ExecutionsAreNotDeployments == \A e \in Executions : e # ADeployment /\ e \in Nat
  BY ExecutionsAssumption DEF Executions, ADeployment

LEMMA CoreGivesTypes == CoreInv => TypeOK
<1> SUFFICES ASSUME CoreInv PROVE TypeOK
  OBVIOUS
<1>1. deploying \in 0 .. submitted
  <2>1. PICK taken \in [0 .. Len(queue) -> 0 .. submitted] : BeginsAtMost(taken, queue, deploying)
    BY DEF CoreInv, DeploymentsInv
  <2>2. Len(queue) \in Nat
    BY LenProperties DEF CoreInv, PoolOK
  <2>3. taken[0] \in 0 .. submitted
    BY <2>1, <2>2
  <2> QED BY <2>1, <2>3, ExecutionsAssumption DEF CoreInv, PoolOK, BeginsAtMost
<1> QED BY <1>1 DEF CoreInv, TypeOK, PoolOK, RowsOK, PagesOK

LEMMA CoreInit == Init => CoreInv
<1> SUFFICES ASSUME Init PROVE CoreInv
  OBVIOUS
<1>1. PoolOK
  BY ExecutionsAssumption, PoolAssumption DEF Init, PoolOK
<1>2. RowsOK /\ PagesOK
  BY DEF Init, RowsOK, PagesOK, Task, Connection
<1>3. queue = <<>> /\ Len(queue) = 0
  BY DEF Init
<1>4. QueueInv
  BY <1>3 DEF QueueInv
<1>5. DeploymentsInv
  <2> DEFINE taken == [i \in 0 .. Len(queue) |-> 0]
  <2>1. taken \in [0 .. Len(queue) -> 0 .. submitted] /\ BeginsAtMost(taken, queue, deploying)
    BY <1>3 DEF Init, BeginsAtMost
  <2> QED BY <2>1 DEF DeploymentsInv
<1>6. RunsInv
  BY DEF Init, RunsInv, RunInv, Terminal, Late
<1> QED BY <1>1, <1>2, <1>4, <1>5, <1>6 DEF CoreInv

-----------------------------------------------------------------------------
(* What a step leaves alone.                                               *)

LEMMA QueueKept ==
  ASSUME QueueInv, UNCHANGED queue,
         \A e \in Executions : task[e] = "queued" => task'[e] = "queued",
         queue \in Seq(Executions \cup {ADeployment})
  PROVE  QueueInv'
<1>1. \A i \in 1 .. Len(queue) : queue[i] \in Executions \cup {ADeployment}
  BY ElementOfSeq
<1> QED BY <1>1 DEF QueueInv

LEMMA DeploymentsKept ==
  ASSUME DeploymentsInv, UNCHANGED <<deployments, queue>>
  PROVE  DeploymentsInv'
  BY DEF DeploymentsInv, BeginsAtMost, deployments

LEMMA RunKept ==
  ASSUME NEW e \in Executions, RunInv(e),
         status'[e] = status[e], task'[e] = task[e], result'[e] = result[e],
         (e \in live') = (e \in live), (e \in workspace') = (e \in workspace),
         (e \in unrecorded') = (e \in unrecorded), (e \in cut') = (e \in cut)
  PROVE  RunInv(e)'
  BY DEF RunInv

\* A step of one execution is a step of its run; the pool is not touched by one.
LEMMA StepKeepsRuns ==
  ASSUME NEW e \in Executions, RunsInv, RunInv(e)',
         \A b \in Executions \ {e} :
           /\ status'[b] = status[b] /\ task'[b] = task[b] /\ result'[b] = result[b]
           /\ (b \in live') = (b \in live) /\ (b \in workspace') = (b \in workspace)
           /\ (b \in unrecorded') = (b \in unrecorded) /\ (b \in cut') = (b \in cut)
  PROVE  RunsInv'
  BY RunKept DEF RunsInv

-----------------------------------------------------------------------------
(* The pool.                                                               *)

LEMMA PoolTypes ==
  ASSUME CoreInv
  PROVE  /\ submitted \in Nat /\ deploying \in Nat /\ workers \in Nat /\ Len(queue) \in Nat
         /\ Deployments \in Nat /\ CorePoolSize \in Nat /\ MaxPoolSize \in Nat
         /\ CorePoolSize <= MaxPoolSize
         /\ \A i \in 1 .. Len(queue) : queue[i] \in Executions \cup {ADeployment}
<1>1. \A i \in 1 .. Len(queue) : queue[i] \in Executions \cup {ADeployment}
  BY ElementOfSeq DEF CoreInv, PoolOK
<1>2. Len(queue) \in Nat
  BY LenProperties DEF CoreInv, PoolOK
<1> QED BY <1>1, <1>2, ExecutionsAssumption, PoolAssumption DEF CoreInv, PoolOK

LEMMA BusyIsNat == CoreInv => Busy \in Nat
<1> SUFFICES ASSUME CoreInv PROVE Busy \in Nat
  OBVIOUS
<1> DEFINE running == {e \in Executions : task[e] \in Working}
<1>1. IsFiniteSet(Executions)
  BY FS_Interval, ExecutionsAssumption DEF Executions
<1>2. Cardinality(running) \in Nat
  BY <1>1, FS_Subset, FS_CardinalityType
<1> QED BY <1>2, PoolTypes DEF Busy

LEMMA StartsWorkerBelowMaximum ==
  ASSUME CoreInv, StartsWorker
  PROVE  workers + 1 \in 0 .. MaxPoolSize
  BY PoolTypes DEF StartsWorker, CoreInv, PoolOK

\* The next place of the queue is taken by something that is not waiting yet.
LEMMA AppendKeepsQueue ==
  ASSUME CoreInv, NEW x \in Executions \cup {ADeployment}, queue' = Append(queue, x),
         x # ADeployment => task[x] # "queued" /\ task'[x] = "queued",
         \A e \in Executions : e # x => task'[e] = task[e]
  PROVE  QueueInv'
<1>1. /\ Len(queue') = Len(queue) + 1 /\ queue'[Len(queue) + 1] = x
      /\ \A i \in 1 .. Len(queue) : queue'[i] = queue[i]
  BY AppendProperties DEF CoreInv, PoolOK
<1>2. \A i \in 1 .. Len(queue) : queue[i] # ADeployment => queue[i] # x
  BY PoolTypes DEF CoreInv, QueueInv
<1>3. \A i \in 1 .. Len(queue') : i \in 1 .. Len(queue) \/ i = Len(queue) + 1
  BY <1>1, PoolTypes
<1>4. ASSUME NEW i \in 1 .. Len(queue'), queue'[i] # ADeployment PROVE task'[queue'[i]] = "queued"
  BY <1>1, <1>2, <1>3, <1>4, PoolTypes DEF CoreInv, QueueInv
<1>5. ASSUME NEW i \in 1 .. Len(queue'), NEW j \in 1 .. Len(queue'), i # j, queue'[i] # ADeployment
      PROVE  queue'[i] # queue'[j]
  <2>1. CASE i \in 1 .. Len(queue) /\ j \in 1 .. Len(queue)
    BY <1>1, <1>5, <2>1 DEF CoreInv, QueueInv
  <2>2. CASE i \in 1 .. Len(queue) /\ j = Len(queue) + 1
    BY <1>1, <1>2, <1>5, <2>2
  <2>3. CASE i = Len(queue) + 1 /\ j \in 1 .. Len(queue)
    BY <1>1, <1>2, <1>5, <2>3
  <2> QED BY <1>3, <1>5, <2>1, <2>2, <2>3
<1> QED BY <1>4, <1>5 DEF QueueInv

\* One place more, for an execution or for a build job that is handed over.
LEMMA AppendKeepsDeployments ==
  ASSUME CoreInv, NEW x \in Executions \cup {ADeployment}, queue' = Append(queue, x),
         deploying' = deploying,
         submitted' = submitted + (IF x = ADeployment THEN 1 ELSE 0)
  PROVE  DeploymentsInv'
<1>1. PICK taken \in [0 .. Len(queue) -> 0 .. submitted] : BeginsAtMost(taken, queue, deploying)
  BY DEF CoreInv, DeploymentsInv
<1> DEFINE more == [i \in 0 .. Len(queue) + 1 |-> IF i <= Len(queue) THEN taken[i] ELSE submitted']
<1>2. /\ Len(queue') = Len(queue) + 1 /\ queue'[Len(queue) + 1] = x
      /\ \A i \in 1 .. Len(queue) : queue'[i] = queue[i]
  BY AppendProperties DEF CoreInv, PoolOK
<1>3. submitted' \in Nat /\ submitted <= submitted'
  BY PoolTypes
<1>4. ASSUME NEW i \in 0 .. Len(queue) PROVE taken[i] \in 0 .. submitted'
  <2>1. taken[i] \in 0 .. submitted
    BY <1>1
  <2> QED BY <1>3, <2>1, PoolTypes
<1>5. more \in [0 .. Len(queue') -> 0 .. submitted']
  BY <1>2, <1>3, <1>4
<1>6. deploying' <= more[0]
  BY <1>1, PoolTypes DEF BeginsAtMost
<1>7. ASSUME NEW i \in 1 .. Len(queue')
      PROVE  more[i - 1] + (IF queue'[i] = ADeployment THEN 1 ELSE 0) <= more[i]
  <2>1. CASE i \in 1 .. Len(queue)
    <3>1. more[i] = taken[i] /\ more[i - 1] = taken[i - 1]
      BY <2>1, PoolTypes
    <3> QED BY <1>1, <1>2, <2>1, <3>1 DEF BeginsAtMost
  <2>2. CASE i = Len(queue) + 1
    <3>1. more[i] = submitted' /\ more[i - 1] = taken[Len(queue)] /\ taken[Len(queue)] \in 0 .. submitted
      BY <1>1, <2>2, PoolTypes
    <3> QED BY <1>2, <2>2, <3>1, PoolTypes
  <2> QED BY <1>2, <1>7, <2>1, <2>2, PoolTypes
<1> HIDE DEF more
<1>8. BeginsAtMost(more, queue', deploying')
  BY <1>5, <1>6, <1>7 DEF BeginsAtMost
<1> QED BY <1>5, <1>8 DEF DeploymentsInv

\* The first place is served.
LEMMA TailKeepsQueue ==
  ASSUME CoreInv, queue # <<>>, queue' = Tail(queue),
         \A e \in Executions : e # Head(queue) => task'[e] = task[e]
  PROVE  QueueInv'
<1>1. /\ Len(queue') = Len(queue) - 1 /\ Head(queue) = queue[1]
      /\ \A i \in 1 .. Len(queue') : queue'[i] = queue[i + 1]
  BY HeadTailProperties DEF CoreInv, PoolOK
<1>2. \A i \in 1 .. Len(queue') : i + 1 \in 1 .. Len(queue) /\ i + 1 # 1
  BY <1>1, PoolTypes
<1>3. 1 \in 1 .. Len(queue)
  BY <1>1, PoolTypes, LenProperties, EmptySeq DEF CoreInv, PoolOK
<1>4. ASSUME NEW i \in 1 .. Len(queue'), queue'[i] # ADeployment PROVE task'[queue'[i]] = "queued"
  BY <1>1, <1>2, <1>3, <1>4, PoolTypes DEF CoreInv, QueueInv
<1>5. ASSUME NEW i \in 1 .. Len(queue'), NEW j \in 1 .. Len(queue'), i # j, queue'[i] # ADeployment
      PROVE  queue'[i] # queue'[j]
  <2>1. i + 1 # j + 1 /\ i + 1 \in 1 .. Len(queue) /\ j + 1 \in 1 .. Len(queue)
    BY <1>2, <1>5
  <2> QED BY <1>1, <1>5, <2>1 DEF CoreInv, QueueInv
<1> QED BY <1>4, <1>5 DEF QueueInv

LEMMA TailKeepsDeployments ==
  ASSUME CoreInv, queue # <<>>, queue' = Tail(queue), submitted' = submitted,
         deploying' = deploying + (IF Head(queue) = ADeployment THEN 1 ELSE 0)
  PROVE  DeploymentsInv'
<1>1. PICK taken \in [0 .. Len(queue) -> 0 .. submitted] : BeginsAtMost(taken, queue, deploying)
  BY DEF CoreInv, DeploymentsInv
<1> DEFINE rest == [i \in 0 .. Len(queue) - 1 |-> taken[i + 1]]
<1>2. /\ Len(queue') = Len(queue) - 1 /\ Head(queue) = queue[1]
      /\ \A i \in 1 .. Len(queue') : queue'[i] = queue[i + 1]
  BY HeadTailProperties DEF CoreInv, PoolOK
<1>3. Len(queue) \in Nat \ {0}
  BY PoolTypes, LenProperties, EmptySeq DEF CoreInv, PoolOK
<1>4. rest \in [0 .. Len(queue') -> 0 .. submitted']
  BY <1>1, <1>2, <1>3
<1>5. deploying' <= rest[0]
  <2>1. rest[0] = taken[1] /\ 1 \in 1 .. Len(queue) /\ 0 \in 0 .. Len(queue) /\ 1 \in 0 .. Len(queue)
    BY <1>3
  <2>4. taken[0] \in 0 .. submitted /\ taken[1] \in 0 .. submitted
    BY <1>1, <2>1
  <2>2. taken[0] + (IF queue[1] = ADeployment THEN 1 ELSE 0) <= taken[1]
    BY <1>1, <2>1 DEF BeginsAtMost
  <2>3. deploying <= taken[0]
    BY <1>1 DEF BeginsAtMost
  <2> QED BY <1>2, <2>1, <2>2, <2>3, <2>4, PoolTypes
<1>6. ASSUME NEW i \in 1 .. Len(queue')
      PROVE  rest[i - 1] + (IF queue'[i] = ADeployment THEN 1 ELSE 0) <= rest[i]
  <2>1. rest[i] = taken[i + 1] /\ rest[i - 1] = taken[i] /\ i + 1 \in 1 .. Len(queue)
    BY <1>2, <1>3
  <2>2. taken[(i + 1) - 1] + (IF queue[i + 1] = ADeployment THEN 1 ELSE 0) <= taken[i + 1]
    BY <1>1, <2>1 DEF BeginsAtMost
  <2> QED BY <1>2, <2>1, <2>2
<1> HIDE DEF rest
<1>7. BeginsAtMost(rest, queue', deploying')
  BY <1>4, <1>5, <1>6 DEF BeginsAtMost
<1> QED BY <1>4, <1>7 DEF DeploymentsInv

\* A build job that gets a thread of its own at once.
LEMMA StartKeepsDeployments ==
  ASSUME CoreInv, queue' = queue, deploying' = deploying + 1, submitted' = submitted + 1
  PROVE  DeploymentsInv'
<1>1. PICK taken \in [0 .. Len(queue) -> 0 .. submitted] : BeginsAtMost(taken, queue, deploying)
  BY DEF CoreInv, DeploymentsInv
<1> DEFINE more == [i \in 0 .. Len(queue) |-> taken[i] + 1]
<1>2. \A i \in 0 .. Len(queue) : taken[i] \in 0 .. submitted
  BY <1>1
<1>3. more \in [0 .. Len(queue') -> 0 .. submitted']
  BY <1>2, PoolTypes
<1>4. 0 \in 0 .. Len(queue) /\ \A i \in 1 .. Len(queue) : i - 1 \in 0 .. Len(queue) /\ i \in 0 .. Len(queue)
  BY PoolTypes
<1>5. deploying' <= more[0]
  BY <1>1, <1>2, <1>4, PoolTypes DEF BeginsAtMost
<1>6. ASSUME NEW i \in 1 .. Len(queue)
      PROVE  more[i - 1] + (IF queue[i] = ADeployment THEN 1 ELSE 0) <= more[i]
  <2>1. more[i - 1] = taken[i - 1] + 1 /\ more[i] = taken[i] + 1
    BY <1>4
  <2>2. taken[i - 1] + (IF queue[i] = ADeployment THEN 1 ELSE 0) <= taken[i]
    BY <1>1 DEF BeginsAtMost
  <2>3. taken[i - 1] \in Int /\ taken[i] \in Int
    BY <1>2, <1>4, PoolTypes
  <2> QED BY <2>1, <2>2, <2>3
<1> HIDE DEF more
<1>7. BeginsAtMost(more, queue', deploying')
  BY <1>5, <1>6 DEF BeginsAtMost
<1> QED BY <1>3, <1>7 DEF DeploymentsInv

LEMMA EndKeepsDeployments ==
  ASSUME CoreInv, queue' = queue, deploying' \in Nat, deploying' <= deploying, submitted' = submitted
  PROVE  DeploymentsInv'
<1>1. PICK taken \in [0 .. Len(queue) -> 0 .. submitted] : BeginsAtMost(taken, queue, deploying)
  BY DEF CoreInv, DeploymentsInv
<1>2. taken[0] \in 0 .. submitted
  BY <1>1, PoolTypes
<1>3. BeginsAtMost(taken, queue', deploying')
  BY <1>1, <1>2, PoolTypes DEF BeginsAtMost
<1> QED BY <1>1, <1>3 DEF DeploymentsInv

\* The queue is dropped.
LEMMA EmptyKeepsDeployments ==
  ASSUME CoreInv, queue' = <<>>, deploying' \in Nat, deploying' <= deploying, submitted' = submitted
  PROVE  DeploymentsInv'
<1>1. PICK taken \in [0 .. Len(queue) -> 0 .. submitted] : BeginsAtMost(taken, queue, deploying)
  BY DEF CoreInv, DeploymentsInv
<1>2. taken[0] \in 0 .. submitted /\ deploying <= taken[0]
  BY <1>1, PoolTypes DEF BeginsAtMost
<1> DEFINE none == [i \in 0 .. 0 |-> submitted]
<1>3. none \in [0 .. Len(queue') -> 0 .. submitted']
  BY PoolTypes
<1>4. deploying' <= none[0]
  BY <1>2, PoolTypes
<1>5. BeginsAtMost(none, queue', deploying')
  BY <1>4 DEF BeginsAtMost
<1> QED BY <1>3, <1>5 DEF DeploymentsInv

-----------------------------------------------------------------------------
(* The steps that trigger runs and hand them to the pool.                  *)

\* What one run does while its thread has no other part in the pool.
LEMMA OwnStep ==
  ASSUME CoreInv, NEW e \in Executions, task[e] # "queued", poolUnchanged,
         RowsOK', PagesOK', RunInv(e)',
         \A b \in Executions \ {e} :
           /\ status'[b] = status[b] /\ task'[b] = task[b] /\ result'[b] = result[b]
           /\ (b \in live') = (b \in live) /\ (b \in workspace') = (b \in workspace)
           /\ (b \in unrecorded') = (b \in unrecorded) /\ (b \in cut') = (b \in cut)
  PROVE  CoreInv'
<1>1. PoolOK' /\ DeploymentsInv'
  BY DeploymentsKept DEF CoreInv, PoolOK, poolUnchanged, pool, deployments
<1>2. \A b \in Executions : task[b] = "queued" => task'[b] = "queued"
  OBVIOUS
<1>3. QueueInv'
  BY <1>2, QueueKept DEF CoreInv, PoolOK, poolUnchanged, pool
<1>4. RunsInv'
  BY StepKeepsRuns DEF CoreInv
<1> QED BY <1>1, <1>3, <1>4 DEF CoreInv

LEMMA PagesKept ==
  ASSUME PagesOK, clientUnchanged
  PROVE  PagesOK'
  BY DEF PagesOK, clientUnchanged, browser

LEMMA TriggerKeeps ==
  ASSUME CoreInv, NEW e \in Executions, Trigger(e)
  PROVE  CoreInv'
<1> USE DEF Trigger, runUnchanged, historyUnchanged, history
<1>1. status[e] = "absent" /\ task[e] = "none"
  BY ExecutionsAreNotDeployments, ExecutionsAssumption DEF CoreInv, RunsInv, RunInv, Executions
<1>2. RowsOK'
  BY DEF poolUnchanged, pool, CoreInv, RowsOK, Active, Task
<1>3. RunInv(e)'
  BY <1>1 DEF CoreInv, RowsOK, RunsInv, RunInv, Late
<1>4. PagesOK'
  BY PagesKept DEF CoreInv
<1> QED BY <1>1, <1>2, <1>3, <1>4, OwnStep DEF CoreInv, RowsOK

LEMMA HandKeeps ==
  ASSUME CoreInv, NEW e \in Executions, Hand(e)
  PROVE  CoreInv'
<1> USE DEF runUnchanged, historyUnchanged, history, pool, deployments
<1>0. task[e] = "submitting" /\ status[e] # "absent"
  BY DEF Hand, SubmitToNewWorker, SubmitToQueue, Reject, CoreInv, RunsInv, RunInv
<1>1. status[e] \notin {"SUCCESS", "FAILED"} /\ (e \in live => result[e] = "threw" \/ e \in cut)
  BY <1>0 DEF CoreInv, RunsInv, RunInv, Late
<1>2. PagesOK'
  BY PagesKept DEF CoreInv, Hand, SubmitToNewWorker, SubmitToQueue, Reject
<1>3. ASSUME NEW t \in {"load", "queued", "rejected"}, task' = [task EXCEPT ![e] = t],
             UNCHANGED <<status, result, live, workspace, unrecorded, cut, crashed, closing>>
      PROVE  RowsOK' /\ RunsInv'
  <2>1. task'[e] = t /\ \A b \in Executions \ {e} : task'[b] = task[b]
    BY <1>3 DEF CoreInv, RowsOK
  <2>2. RunInv(e)'
    BY <1>0, <1>1, <1>3, <2>1 DEF RunInv
  <2>3. RowsOK'
    BY <1>3 DEF CoreInv, RowsOK, Task, Working
  <2> QED BY <1>3, <2>1, <2>2, <2>3, StepKeepsRuns DEF CoreInv
<1>4. CASE SubmitToNewWorker(e)
  <2>1. RowsOK' /\ RunsInv'
    BY <1>3, <1>4 DEF SubmitToNewWorker
  <2>2. PoolOK'
    BY <1>4, StartsWorkerBelowMaximum DEF SubmitToNewWorker, CoreInv, PoolOK
  <2>3. QueueInv'
    BY <1>0, <1>4, QueueKept DEF SubmitToNewWorker, CoreInv, PoolOK, RowsOK
  <2> QED BY <1>2, <1>4, <2>1, <2>2, <2>3, DeploymentsKept DEF SubmitToNewWorker, CoreInv
<1>5. CASE SubmitToQueue(e)
  <2>1. RowsOK' /\ RunsInv'
    BY <1>3, <1>5 DEF SubmitToQueue
  <2>2. PoolOK'
    BY <1>5, AppendProperties DEF SubmitToQueue, CoreInv, PoolOK
  <2>3. task'[e] = "queued" /\ \A b \in Executions : b # e => task'[b] = task[b]
    BY <1>5 DEF SubmitToQueue, CoreInv, RowsOK
  <2>4. QueueInv'
    BY <1>0, <1>5, <2>3, AppendKeepsQueue DEF SubmitToQueue
  <2>5. DeploymentsInv'
    BY <1>5, AppendKeepsDeployments, ExecutionsAreNotDeployments, PoolTypes DEF SubmitToQueue
  <2> QED BY <1>2, <2>1, <2>2, <2>4, <2>5 DEF CoreInv
<1>6. CASE Reject(e)
  <2>1. RowsOK' /\ RunsInv'
    BY <1>3, <1>6 DEF Reject, poolUnchanged
  <2>2. PoolOK' /\ DeploymentsInv'
    BY <1>6, DeploymentsKept DEF Reject, poolUnchanged, pool, CoreInv, PoolOK
  <2>3. QueueInv'
    BY <1>0, <1>6, QueueKept DEF Reject, poolUnchanged, pool, CoreInv, PoolOK, RowsOK
  <2> QED BY <1>2, <2>1, <2>2, <2>3 DEF CoreInv
<1> QED BY <1>4, <1>5, <1>6 DEF Hand

\* A step that leaves rows, runs and pages alone.
LEMMA PoolStep ==
  ASSUME CoreInv, UNCHANGED <<status, task, closing>>, runUnchanged, clientUnchanged, historyUnchanged
  PROVE  /\ RowsOK' /\ PagesOK' /\ RunsInv'
         /\ queue' = queue => QueueInv'
<1> USE DEF runUnchanged, historyUnchanged, history
<1>1. RowsOK' /\ PagesOK'
  BY PagesKept DEF CoreInv, RowsOK
<1>2. RunsInv'
  BY RunKept DEF CoreInv, RunsInv
<1>3. queue' = queue => QueueInv'
  BY QueueKept DEF CoreInv, PoolOK
<1> QED BY <1>1, <1>2, <1>3

LEMMA SubmitDeploymentKeeps == CoreInv /\ SubmitDeployment => CoreInv'
<1> SUFFICES ASSUME CoreInv, SubmitDeployment PROVE CoreInv'
  OBVIOUS
<1>1. RowsOK' /\ PagesOK' /\ RunsInv' /\ (queue' = queue => QueueInv')
  BY PoolStep DEF SubmitDeployment
<1>2. submitted' \in 0 .. Deployments /\ submitted' = submitted + 1
  BY PoolTypes DEF SubmitDeployment
<1>3. CASE StartsWorker /\ workers' = workers + 1 /\ deploying' = deploying + 1 /\ queue' = queue
  <2>1. PoolOK'
    BY <1>2, <1>3, StartsWorkerBelowMaximum DEF CoreInv, PoolOK
  <2> QED BY <1>1, <1>2, <1>3, <2>1, StartKeepsDeployments DEF CoreInv
<1>4. CASE queue' = Append(queue, ADeployment) /\ UNCHANGED <<deploying, workers>>
  <2>1. PoolOK'
    BY <1>2, <1>4, AppendProperties DEF CoreInv, PoolOK
  <2>2. QueueInv'
    BY <1>4, AppendKeepsQueue DEF SubmitDeployment
  <2>3. DeploymentsInv'
    BY <1>2, <1>4, AppendKeepsDeployments
  <2> QED BY <1>1, <2>1, <2>2, <2>3 DEF CoreInv
<1> QED BY <1>3, <1>4 DEF SubmitDeployment

LEMMA DeploymentEndsKeeps == CoreInv /\ DeploymentEnds => CoreInv'
<1> SUFFICES ASSUME CoreInv, DeploymentEnds PROVE CoreInv'
  OBVIOUS
<1>1. RowsOK' /\ PagesOK' /\ RunsInv' /\ QueueInv'
  BY PoolStep DEF DeploymentEnds
<1>2. PoolOK' /\ deploying' \in Nat /\ deploying' <= deploying
  BY PoolTypes DEF DeploymentEnds, CoreInv, PoolOK
<1> QED BY <1>1, <1>2, EndKeepsDeployments DEF DeploymentEnds, CoreInv

LEMMA WorkerEndsKeeps == CoreInv /\ WorkerEnds => CoreInv'
<1> SUFFICES ASSUME CoreInv, WorkerEnds PROVE CoreInv'
  OBVIOUS
<1>1. RowsOK' /\ PagesOK' /\ RunsInv' /\ QueueInv'
  BY PoolStep DEF WorkerEnds
<1>2. PoolOK'
  BY PoolTypes, BusyIsNat DEF WorkerEnds, CoreInv, PoolOK, deployments
<1> QED BY <1>1, <1>2, DeploymentsKept DEF WorkerEnds, CoreInv

LEMMA TakeTaskKeeps == CoreInv /\ TakeTask => CoreInv'
<1> SUFFICES ASSUME CoreInv, TakeTask PROVE CoreInv'
  OBVIOUS
<1> USE DEF TakeTask, runUnchanged, historyUnchanged, history
<1>1. /\ Head(queue) \in Executions \cup {ADeployment}
      /\ Tail(queue) \in Seq(Executions \cup {ADeployment})
      /\ Head(queue) = queue[1] /\ 1 \in 1 .. Len(queue)
  BY HeadTailProperties, PoolTypes, LenProperties, EmptySeq DEF CoreInv, PoolOK
<1>2. PoolOK' /\ PagesOK'
  BY <1>1, PoolTypes, PagesKept DEF CoreInv, PoolOK
<1>3. QueueInv' /\ DeploymentsInv'
  <2>1. \A e \in Executions : e # Head(queue) => task'[e] = task[e]
    BY DEF CoreInv, RowsOK
  <2>2. deploying' = deploying + (IF Head(queue) = ADeployment THEN 1 ELSE 0)
    BY PoolTypes
  <2> QED BY <2>1, <2>2, TailKeepsQueue, TailKeepsDeployments
<1>4. CASE Head(queue) = ADeployment
  <2>1. RowsOK' /\ RunsInv'
    BY <1>4, PoolStep
  <2> QED BY <1>2, <1>3, <2>1 DEF CoreInv
<1>5. CASE Head(queue) # ADeployment
  <2>1. PICK e \in Executions : e = Head(queue)
    BY <1>1, <1>5
  <2>2. task[e] = "queued" /\ task' = [task EXCEPT ![e] = "load"]
    BY <1>1, <1>5, <2>1 DEF CoreInv, QueueInv
  <2>3. task'[e] = "load" /\ \A b \in Executions \ {e} : task'[b] = task[b]
    BY <2>2 DEF CoreInv, RowsOK
  <2>4. RunInv(e)'
    BY <2>2, <2>3 DEF CoreInv, RunsInv, RunInv, Late
  <2>5. RowsOK'
    BY <2>2 DEF CoreInv, RowsOK, Task, Working
  <2>6. RunsInv'
    BY <2>3, <2>4, StepKeepsRuns DEF CoreInv
  <2> QED BY <1>2, <1>3, <2>5, <2>6 DEF CoreInv
<1> QED BY <1>4, <1>5

LEMMA ShutdownKeeps == CoreInv /\ Shutdown => CoreInv'
<1> SUFFICES ASSUME CoreInv, Shutdown PROVE CoreInv'
  OBVIOUS
<1> USE DEF Shutdown, runUnchanged, historyUnchanged, history, deployments
<1>1. PoolOK' /\ PagesOK'
  BY PagesKept DEF CoreInv, PoolOK
<1>2. RowsOK'
  BY DEF CoreInv, RowsOK, Task
<1>3. queue' = <<>> /\ Len(queue') = 0
  OBVIOUS
<1>4. QueueInv'
  BY <1>3 DEF QueueInv
<1>5. DeploymentsInv'
  BY EmptyKeepsDeployments, PoolTypes
<1>6. RunsInv'
  <2> SUFFICES ASSUME NEW e \in Executions PROVE RunInv(e)'
    BY DEF RunsInv
  <2>1. CASE task[e] = "queued"
    BY <2>1 DEF CoreInv, RowsOK, RunsInv, RunInv, Late
  <2>2. CASE task[e] # "queued"
    BY <2>2 DEF CoreInv, RowsOK, RunsInv, RunInv, Late
  <2> QED BY <2>1, <2>2
<1> QED BY <1>1, <1>2, <1>4, <1>5, <1>6 DEF CoreInv

LEMMA CrashKeeps == CoreInv /\ Crash => CoreInv'
<1> SUFFICES ASSUME CoreInv, Crash PROVE CoreInv'
  OBVIOUS
<1> USE DEF Crash
<1>1. PoolOK'
  BY PoolTypes DEF CoreInv, PoolOK
<1>2. RowsOK' /\ PagesOK'
  BY DEF CoreInv, RowsOK, PagesOK, Task, Connection
<1>3. queue' = <<>> /\ Len(queue') = 0
  OBVIOUS
<1>4. QueueInv'
  BY <1>3 DEF QueueInv
<1>5. DeploymentsInv'
  BY EmptyKeepsDeployments, PoolTypes
<1>6. RunsInv'
  <2> SUFFICES ASSUME NEW e \in Executions PROVE RunInv(e)'
    BY DEF RunsInv
  <2>1. CASE task[e] \in Working \cup {"submitting", "queued"}
    BY <2>1 DEF CoreInv, RowsOK, RunsInv, RunInv, Late, Working
  <2>2. CASE task[e] \notin Working \cup {"submitting", "queued"}
    BY <2>2 DEF CoreInv, RowsOK, RunsInv, RunInv, Late, Working
  <2> QED BY <2>1, <2>2
<1> QED BY <1>1, <1>2, <1>4, <1>5, <1>6 DEF CoreInv

-----------------------------------------------------------------------------
(* A run's own steps.                                                      *)

\* Where a run of the pool goes on by itself.
LEMMA RunStep ==
  ASSUME CoreInv, NEW e \in Executions, task[e] \in Working, poolUnchanged,
         PagesOK', RunInv(e)', UNCHANGED crashed,
         NEW t \in Working \cup {"over"}, task' = [task EXCEPT ![e] = t],
         NEW s \in Active \cup Terminal \cup {"absent"}, status' = [status EXCEPT ![e] = s],
         NEW r \in {"nothing", "true", "false", "threw"}, result' = [result EXCEPT ![e] = r],
         live' \in {live, live \cup {e}, live \ {e}},
         workspace' \in {workspace, workspace \cup {e}, workspace \ {e}},
         unrecorded' \in {unrecorded, unrecorded \cup {e}},
         cut' \in {cut, cut \cup {e}}
  PROVE  CoreInv'
<1>1. RowsOK'
  BY DEF CoreInv, RowsOK, Task, poolUnchanged, pool
<1>2. \A b \in Executions \ {e} :
        /\ status'[b] = status[b] /\ task'[b] = task[b] /\ result'[b] = result[b]
        /\ (b \in live') = (b \in live) /\ (b \in workspace') = (b \in workspace)
        /\ (b \in unrecorded') = (b \in unrecorded) /\ (b \in cut') = (b \in cut)
  BY DEF CoreInv, RowsOK
<1>3. task[e] # "queued"
  BY DEF Working
<1> QED BY <1>1, <1>2, <1>3, OwnStep

\* One that leaves the graph's answer, the threads and the directory alone.
LEMMA RowStep ==
  ASSUME CoreInv, NEW e \in Executions, task[e] \in Working, poolUnchanged, runUnchanged,
         PagesOK', RunInv(e)', UNCHANGED <<cut, crashed>>,
         NEW t \in Working \cup {"over"}, task' = [task EXCEPT ![e] = t],
         status' = status \/ \E s \in Active \cup Terminal : status' = [status EXCEPT ![e] = s],
         unrecorded' \in {unrecorded, unrecorded \cup {e}}
  PROVE  CoreInv'
<1>1. result' = [result EXCEPT ![e] = result[e]] /\ result[e] \in {"nothing", "true", "false", "threw"}
  BY DEF runUnchanged, CoreInv, RowsOK
<1>2. live' = live /\ workspace' = workspace
  BY DEF runUnchanged
<1>3. \E s \in Active \cup Terminal \cup {"absent"} : status' = [status EXCEPT ![e] = s]
  <2>1. status = [status EXCEPT ![e] = status[e]] /\ status[e] \in Active \cup Terminal \cup {"absent"}
    BY DEF CoreInv, RowsOK
  <2> QED BY <2>1
<1> QED BY <1>1, <1>2, <1>3, RunStep

LEMMA LoadKeeps ==
  ASSUME CoreInv, NEW e \in Executions, LoadContext(e) \/ LoadFails(e)
  PROVE  CoreInv'
<1> USE DEF LoadContext, LoadFails, Advance, runUnchanged, historyUnchanged, history
<1>1. task[e] = "load" /\ task[e] \in Working /\ RunInv(e)
  BY DEF Working, CoreInv, RunsInv
<1>2. PagesOK'
  BY PagesKept DEF CoreInv
<1>3. CASE LoadContext(e)
  <2>1. task'[e] = "start"
    BY <1>3 DEF CoreInv, RowsOK
  <2>2. RunInv(e)'
    BY <1>1, <1>3, <2>1 DEF RunInv, Late
  <2>3. task' = [task EXCEPT ![e] = "start"] /\ "start" \in Working
    BY <1>3 DEF Working
  <2> QED BY <1>1, <1>2, <1>3, <2>2, <2>3, RowStep
<1>4. CASE LoadFails(e)
  <2>1. task'[e] = "over"
    BY <1>4 DEF CoreInv, RowsOK
  <2>2. RunInv(e)'
    BY <1>1, <1>4, <2>1 DEF RunInv, Late
  <2>3. task' = [task EXCEPT ![e] = "over"]
    BY <1>4
  <2> QED BY <1>1, <1>2, <1>4, <2>2, <2>3, RowStep
<1> QED BY <1>3, <1>4

LEMMA MarkRunningKeeps ==
  ASSUME CoreInv, NEW e \in Executions, MarkRunning(e)
  PROVE  CoreInv'
<1> USE DEF MarkRunning, Broadcast, Advance, runUnchanged, historyUnchanged, history
<1>1. task[e] = "start" /\ task[e] \in Working /\ RunInv(e)
  BY DEF Working, CoreInv, RunsInv
<1>2. PICK t \in {"prepare", "fail"} : task' = [task EXCEPT ![e] = t]
  OBVIOUS
<1>3. task'[e] = t /\ status'[e] = "RUNNING"
  BY <1>2 DEF CoreInv, RowsOK
<1>4. RunInv(e)'
  BY <1>1, <1>2, <1>3 DEF RunInv, Late
<1>5. "RUNNING" \in Active /\ t \in Working
  BY DEF Active, Working
<1> QED BY <1>1, <1>2, <1>4, <1>5, PagesKept, RowStep DEF CoreInv

LEMMA PrepareKeeps ==
  ASSUME CoreInv, NEW e \in Executions, PrepareWorkspace(e) \/ PrepareFails(e)
  PROVE  CoreInv'
<1> USE DEF PrepareWorkspace, PrepareFails, Broadcast, Advance, historyUnchanged, history
<1>1. task[e] = "prepare" /\ task[e] \in Working /\ RunInv(e)
  BY DEF Working, CoreInv, RunsInv
<1>2. PICK t \in {"graph", "fail"} : task' = [task EXCEPT ![e] = t]
  OBVIOUS
<1>3. task'[e] = t /\ t \in Working
  BY <1>2 DEF CoreInv, RowsOK, Working
<1>4. e \in live' => e \in live \/ (t = "graph" /\ e \in workspace')
  BY <1>2, <1>3 DEF CoreInv, RowsOK
<1>5. RunInv(e)'
  BY <1>1, <1>2, <1>3, <1>4 DEF RunInv, Late
<1>6. /\ result' = [result EXCEPT ![e] = result[e]] /\ result[e] \in {"nothing", "true", "false", "threw"}
      /\ status' = [status EXCEPT ![e] = status[e]] /\ status[e] \in Active \cup Terminal \cup {"absent"}
  BY DEF CoreInv, RowsOK
<1>7. /\ live' \in {live, live \cup {e}, live \ {e}}
      /\ workspace' \in {workspace, workspace \cup {e}, workspace \ {e}}
  OBVIOUS
<1> QED BY <1>1, <1>2, <1>3, <1>5, <1>6, <1>7, PagesKept, RunStep DEF CoreInv

LEMMA GraphKeeps ==
  ASSUME CoreInv, NEW e \in Executions, GraphReturns(e) \/ GraphInterrupted(e) \/ GraphThrows(e)
  PROVE  CoreInv'
<1> USE DEF GraphReturns, GraphInterrupted, GraphThrows, Advance, historyUnchanged, history
<1>1. task[e] = "graph" /\ task[e] \in Working /\ RunInv(e)
  BY DEF Working, CoreInv, RunsInv
<1>2. PICK t \in {"verdict", "fail"}, r \in {"true", "false", "threw"} :
        /\ task' = [task EXCEPT ![e] = t] /\ result' = [result EXCEPT ![e] = r]
        /\ e \in live' => r = "threw" \/ e \in cut'
  OBVIOUS
<1>3. task'[e] = t /\ result'[e] = r /\ t \in Working
  BY <1>2 DEF CoreInv, RowsOK, Working
<1>4. RunInv(e)'
  BY <1>1, <1>2, <1>3 DEF RunInv, Late
<1>5. /\ status' = [status EXCEPT ![e] = status[e]] /\ status[e] \in Active \cup Terminal \cup {"absent"}
      /\ live' \in {live, live \cup {e}, live \ {e}}
  BY DEF CoreInv, RowsOK
<1> QED BY <1>1, <1>2, <1>3, <1>4, <1>5, PagesKept, RunStep DEF CoreInv

LEMMA WriteKeeps ==
  ASSUME CoreInv, NEW e \in Executions, WriteVerdict(e) \/ WriteFailed(e) \/ WriteFailedFails(e)
  PROVE  CoreInv'
<1> USE DEF WriteVerdict, WriteFailed, WriteFailedFails, Advance, runUnchanged, historyUnchanged, history
<1>1. task[e] \in {"verdict", "fail"} /\ task[e] \in Working /\ RunInv(e)
  BY DEF Working, CoreInv, RunsInv
<1>2. PagesOK'
  BY PagesKept DEF CoreInv
<1>3. CASE WriteVerdict(e)
  <2>1. PICK s \in {"SUCCESS", "FAILED"} :
          status' = [status EXCEPT ![e] = s]
    BY <1>3
  <2>2. task'[e] = "announce" /\ status'[e] = s /\ s \in Terminal
    BY <1>3, <2>1 DEF CoreInv, RowsOK, Terminal
  <2>3. RunInv(e)'
    BY <1>1, <1>3, <2>1, <2>2 DEF RunInv, Late
  <2>4. task' = [task EXCEPT ![e] = "announce"] /\ "announce" \in Working
    BY <1>3 DEF Working
  <2> QED BY <1>1, <1>2, <1>3, <2>1, <2>2, <2>3, <2>4, RowStep
<1>4. CASE WriteFailed(e)
  <2>1. task'[e] = "complete" /\ status'[e] = "FAILED" /\ "FAILED" \in Terminal
    BY <1>4 DEF CoreInv, RowsOK, Terminal
  <2>2. RunInv(e)'
    BY <1>1, <1>4, <2>1 DEF RunInv, Late
  <2>3. task' = [task EXCEPT ![e] = "complete"] /\ "complete" \in Working
    BY <1>4 DEF Working
  <2> QED BY <1>1, <1>2, <1>4, <2>1, <2>2, <2>3, RowStep
<1>5. CASE WriteFailedFails(e)
  <2>1. task'[e] = "complete"
    BY <1>5 DEF CoreInv, RowsOK
  <2>2. RunInv(e)'
    BY <1>1, <1>5, <2>1 DEF RunInv, Late
  <2>3. task' = [task EXCEPT ![e] = "complete"] /\ "complete" \in Working
    BY <1>5 DEF Working
  <2> QED BY <1>1, <1>2, <1>5, <2>2, <2>3, RowStep
<1> QED BY <1>3, <1>4, <1>5

LEMMA AnnounceKeeps ==
  ASSUME CoreInv, NEW e \in Executions, Announce(e) \/ TransactionFails(e)
  PROVE  CoreInv'
<1> USE DEF Announce, TransactionFails, Broadcast, Advance, runUnchanged, historyUnchanged, history
<1>1. task[e] \in {"announce", "start", "verdict"} /\ task[e] \in Working /\ RunInv(e)
  BY DEF Working, CoreInv, RunsInv
<1>2. PICK t \in {"complete", "fail"} :
        task' = [task EXCEPT ![e] = t] /\ (t = "complete" => task[e] = "announce")
  OBVIOUS
<1>3. task'[e] = t /\ t \in Working
  BY <1>2 DEF CoreInv, RowsOK, Working
<1>4. RunInv(e)'
  BY <1>1, <1>2, <1>3 DEF RunInv, Late
<1> QED BY <1>1, <1>2, <1>3, <1>4, PagesKept, RowStep DEF CoreInv

LEMMA CompleteKeeps ==
  ASSUME CoreInv, NEW e \in Executions, CompleteEmitters(e) \/ CompleteEmittersThrows(e)
  PROVE  CoreInv'
<1> USE DEF CompleteEmitters, CompleteEmittersThrows, Advance, runUnchanged, historyUnchanged, history
<1>1. task[e] = "complete" /\ task[e] \in Working /\ RunInv(e)
  BY DEF Working, CoreInv, RunsInv
<1>2. PICK t \in {"cleanup", "over"} : task' = [task EXCEPT ![e] = t]
  OBVIOUS
<1>3. task'[e] = t /\ t \in Working \cup {"over"}
  BY <1>2 DEF CoreInv, RowsOK, Working
<1>4. RunInv(e)'
  BY <1>1, <1>2, <1>3 DEF RunInv, Late
<1>5. PagesOK'
  BY DEF CoreInv, PagesOK, Connection, browser
<1> QED BY <1>1, <1>2, <1>3, <1>4, <1>5, RowStep DEF CoreInv

LEMMA CleanupKeeps ==
  ASSUME CoreInv, NEW e \in Executions, CleanupWorkspace(e)
  PROVE  CoreInv'
<1> USE DEF CleanupWorkspace, Advance, historyUnchanged, history
<1>1. task[e] = "cleanup" /\ task[e] \in Working /\ RunInv(e)
  BY DEF Working, CoreInv, RunsInv
<1>2. task'[e] = "over" /\ task' = [task EXCEPT ![e] = "over"]
  BY DEF CoreInv, RowsOK
<1>3. RunInv(e)'
  BY <1>1, <1>2 DEF RunInv, Late
<1>4. /\ result' = [result EXCEPT ![e] = result[e]] /\ result[e] \in {"nothing", "true", "false", "threw"}
      /\ status' = [status EXCEPT ![e] = status[e]] /\ status[e] \in Active \cup Terminal \cup {"absent"}
  BY DEF CoreInv, RowsOK
<1> QED BY <1>1, <1>2, <1>3, <1>4, PagesKept, RunStep DEF CoreInv

LEMMA StagesEndKeeps ==
  ASSUME CoreInv, NEW e \in Executions, StagesEnd(e)
  PROVE  CoreInv'
<1> USE DEF StagesEnd, historyUnchanged, history
<1>1. RowsOK' /\ PagesOK' /\ PoolOK' /\ DeploymentsInv'
  BY PagesKept, DeploymentsKept DEF CoreInv, RowsOK, PoolOK, poolUnchanged, pool, deployments
<1>2. QueueInv'
  BY QueueKept DEF CoreInv, PoolOK, poolUnchanged, pool
<1>3. RunInv(e)'
  BY DEF CoreInv, RunsInv, RunInv
<1>4. RunsInv'
  BY <1>3, StepKeepsRuns DEF CoreInv
<1> QED BY <1>1, <1>2, <1>4 DEF CoreInv

LEMMA CancelKeeps ==
  ASSUME CoreInv, NEW e \in Executions, Cancel(e)
  PROVE  CoreInv'
<1> USE DEF Cancel, runUnchanged, historyUnchanged, history
<1>1. RowsOK' /\ PagesOK' /\ PoolOK' /\ DeploymentsInv'
  BY PagesKept, DeploymentsKept DEF CoreInv, RowsOK, PoolOK, poolUnchanged, pool, deployments, Terminal
<1>2. QueueInv'
  BY QueueKept DEF CoreInv, PoolOK, poolUnchanged, pool
<1>3. status'[e] = "CANCELLED" /\ \A b \in Executions \ {e} : status'[b] = status[b]
  BY DEF CoreInv, RowsOK
<1>4. RunInv(e)'
  BY <1>3 DEF CoreInv, RunsInv, RunInv, Terminal
<1>5. RunsInv'
  BY <1>3, <1>4, StepKeepsRuns DEF CoreInv
<1> QED BY <1>1, <1>2, <1>5 DEF CoreInv

-----------------------------------------------------------------------------
(* The pages, and the theorems.                                            *)

\* Nothing a page or its connection does reaches the rows.
PageStep(v) ==
  \/ OpenPage(v) \/ ClosePage(v) \/ Stream(v) \/ Refresh(v)
  \/ DropEmitter(v) \/ ConnectionErrors(v) \/ RemoveEmitter(v)

LEMMA PageStepKeeps ==
  ASSUME IInv, NEW v \in Viewers, PageStep(v)
  PROVE  IInv'
<1> USE DEF PageStep, Stream, Refresh, serverUnchanged, browser
<1>1. UNCHANGED server /\ UNCHANGED history
  BY DEF OpenPage, ClosePage, StreamRequest, RegisterEmitter, LoadPage, LoadPageFails, OnComplete, Poll,
     DropEmitter, ConnectionErrors, RemoveEmitter
<1>2. /\ Watched[v] \in Executions
      /\ status[Watched[v]] # "absent" => status[Watched[v]] \in Active \cup Terminal
      /\ open[v] \/ page[v] # "closed" => status[Watched[v]] # "absent"
  BY ExecutionsAssumption DEF IInv, CoreInv, RowsOK, WatchedInv
<1>3. PagesOK'
  <2> USE <1>2 DEF IInv, CoreInv, PagesOK, Connection
  <2>1. CASE OpenPage(v)
    BY <2>1 DEF OpenPage
  <2>2. CASE ClosePage(v)
    BY <2>2 DEF ClosePage
  <2>3. CASE OnComplete(v)
    BY <2>3 DEF OnComplete
  <2>4. CASE Poll(v)
    BY <2>4 DEF Poll
  <2>5. CASE StreamRequest(v) \/ RegisterEmitter(v)
    BY <2>5 DEF StreamRequest, RegisterEmitter
  <2>6. CASE DropEmitter(v) \/ ConnectionErrors(v) \/ RemoveEmitter(v)
    BY <2>6 DEF DropEmitter, ConnectionErrors, RemoveEmitter
  <2>7. CASE LoadPage(v)
    BY <2>7 DEF LoadPage
  <2>8. CASE LoadPageFails(v)
    BY <2>8 DEF LoadPageFails
  <2> QED BY <2>1, <2>2, <2>3, <2>4, <2>5, <2>6, <2>7, <2>8
<1>4. PoolOK' /\ RowsOK' /\ QueueInv' /\ DeploymentsInv' /\ RunsInv'
  BY <1>1, QueueKept, DeploymentsKept, RunKept
  DEF server, pool, deployments, history, IInv, CoreInv, PoolOK, RowsOK, RunsInv
<1>5. WatchedInv'
  <2> USE <1>2 DEF IInv, CoreInv, PagesOK, WatchedInv, Terminal
  <2>1. CASE OpenPage(v) \/ ClosePage(v) \/ OnComplete(v) \/ Poll(v)
    BY <1>1, <2>1 DEF OpenPage, ClosePage, OnComplete, Poll, server
  <2>2. CASE StreamRequest(v) \/ RegisterEmitter(v)
    BY <1>1, <2>2 DEF StreamRequest, RegisterEmitter, server
  <2>3. CASE DropEmitter(v) \/ ConnectionErrors(v) \/ RemoveEmitter(v)
    BY <1>1, <2>3 DEF DropEmitter, ConnectionErrors, RemoveEmitter, server
  <2>4. CASE LoadPage(v)
    BY <1>1, <2>4 DEF LoadPage, server
  <2>5. CASE LoadPageFails(v)
    BY <1>1, <2>5 DEF LoadPageFails, server
  <2> QED BY <2>1, <2>2, <2>3, <2>4, <2>5
<1> QED BY <1>3, <1>4, <1>5 DEF IInv, CoreInv

\* The steps of the server: rows do not disappear, and pages do not move.
ServerStep(e) == Trigger(e) \/ Hand(e) \/ Run(e) \/ StagesEnd(e) \/ Cancel(e)
PoolMoves == SubmitDeployment \/ DeploymentEnds \/ TakeTask \/ WorkerEnds \/ Shutdown

LEMMA WatchedKept ==
  ASSUME WatchedInv, UNCHANGED <<open, page>>,
         \A e \in Executions : status'[e] = "absent" => status[e] = "absent"
  PROVE  WatchedInv'
  BY ExecutionsAssumption DEF WatchedInv

LEMMA ServerStepKeeps ==
  ASSUME IInv, NEW e \in Executions, ServerStep(e)
  PROVE  IInv'
<1>1. CoreInv'
  BY TriggerKeeps, HandKeeps, LoadKeeps, MarkRunningKeeps, PrepareKeeps, GraphKeeps, WriteKeeps,
     AnnounceKeeps, CompleteKeeps, CleanupKeeps, StagesEndKeeps, CancelKeeps
  DEF IInv, ServerStep, Run
<1>2. UNCHANGED <<open, page>>
  BY DEF ServerStep, Trigger, Hand, SubmitToNewWorker, SubmitToQueue, Reject, Run, LoadContext,
     LoadFails, MarkRunning, PrepareWorkspace, PrepareFails, GraphReturns, GraphInterrupted, GraphThrows,
     WriteVerdict, Announce, TransactionFails, WriteFailed, WriteFailedFails, CompleteEmitters,
     CompleteEmittersThrows, CleanupWorkspace, StagesEnd, Cancel, clientUnchanged, browser
<1>3. \/ status' = status
      \/ \E s \in Active \cup Terminal : status' = [status EXCEPT ![e] = s]
  BY DEF ServerStep, Trigger, Hand, SubmitToNewWorker, SubmitToQueue, Reject, Run, LoadContext,
     LoadFails, MarkRunning, PrepareWorkspace, PrepareFails, GraphReturns, GraphInterrupted, GraphThrows,
     WriteVerdict, Announce, TransactionFails, WriteFailed, WriteFailedFails, CompleteEmitters,
     CompleteEmittersThrows, CleanupWorkspace, StagesEnd, Cancel, Active, Terminal
<1>4. \A b \in Executions : status'[b] = "absent" => status[b] = "absent"
  BY <1>3 DEF IInv, CoreInv, RowsOK, Active, Terminal
<1> QED BY <1>1, <1>2, <1>4, WatchedKept DEF IInv

LEMMA PoolMovesKeep == IInv /\ (PoolMoves \/ Crash) => IInv'
<1> SUFFICES ASSUME IInv, PoolMoves \/ Crash PROVE IInv'
  OBVIOUS
<1>1. CoreInv'
  BY SubmitDeploymentKeeps, DeploymentEndsKeeps, TakeTaskKeeps, WorkerEndsKeeps, ShutdownKeeps, CrashKeeps
  DEF IInv, PoolMoves
<1>2. status' = status /\ page' = page /\ (open' = open \/ open' = [v \in Viewers |-> FALSE])
  BY DEF PoolMoves, SubmitDeployment, DeploymentEnds, TakeTask, WorkerEnds, Shutdown, Crash,
     clientUnchanged, browser
<1>3. WatchedInv'
  BY <1>2 DEF IInv, WatchedInv
<1> QED BY <1>1, <1>3 DEF IInv

LEMMA StutterKeeps == IInv /\ UNCHANGED vars => IInv'
<1> SUFFICES ASSUME IInv, UNCHANGED vars PROVE IInv'
  OBVIOUS
<1> USE DEF vars, server, pool, deployments, browser, history
<1>1. PoolOK' /\ RowsOK' /\ PagesOK' /\ QueueInv' /\ DeploymentsInv' /\ RunsInv'
  BY QueueKept, DeploymentsKept, RunKept DEF IInv, CoreInv, PoolOK, RowsOK, PagesOK, RunsInv
<1>2. WatchedInv'
  BY WatchedKept DEF IInv
<1> QED BY <1>1, <1>2 DEF IInv, CoreInv

\* The inductive invariant: an execution waits in the pool once, no more build jobs
\* run and wait than were handed over, each run's row agrees with where it is, and its
\* stage threads have their directory or were left by an exception or an interrupt.
THEOREM Invariance == Spec => []IInv
<1>1. Init => IInv
  BY CoreInit DEF Init, IInv, WatchedInv
<1>2. IInv /\ [Next]_vars => IInv'
  <2> SUFFICES ASSUME IInv, [Next]_vars PROVE IInv'
    OBVIOUS
  <2>1. CASE \E e \in Executions : ServerStep(e)
    BY <2>1, ServerStepKeeps
  <2>2. CASE PoolMoves \/ Crash
    BY <2>2, PoolMovesKeep
  <2>3. CASE \E v \in Viewers : PageStep(v)
    BY <2>3, PageStepKeeps
  <2> QED BY <2>1, <2>2, <2>3, StutterKeeps DEF Next, ServerStep, PoolMoves, PageStep
<1> QED BY <1>1, <1>2, PTL DEF Spec

\* The variables keep their types: the pool never has more threads than its maximum,
\* and never runs more build jobs than it was given.
THEOREM TypeCorrect == Spec => []TypeOK
<1>1. IInv => TypeOK
  BY CoreGivesTypes DEF IInv
<1> QED BY <1>1, Invariance, PTL

\* When executeAsync has come to its end, the row has a final status, or the
\* transaction that would have written it failed.
THEOREM EndIsStored == Spec => []OverMeansTerminal
<1>1. IInv => OverMeansTerminal
  BY DEF IInv, CoreInv, RunsInv, RunInv, OverMeansTerminal
<1> QED BY <1>1, Invariance, PTL

\* cleanupWorkspace takes no directory from a stage, unless an exception or an
\* interrupt left it behind.
THEOREM WorkspaceOutlives == Spec => []StagesHaveWorkspace
<1>1. IInv => StagesHaveWorkspace
  BY DEF IInv, CoreInv, RowsOK, RunsInv, RunInv, StagesHaveWorkspace
<1> QED BY <1>1, Invariance, PTL

\* The only ways in which a final status is left again: a cancellation that the run
\* overwrites, and a success whose announcement threw.
THEOREM FinalIsFinal == Spec => FinalStatusIsFinal
<1> DEFINE Kept(e) ==
      status[e] \in Terminal /\ status'[e] # status[e] =>
        \/ status[e] = "CANCELLED"
        \/ status[e] = "SUCCESS" /\ status'[e] = "FAILED" /\ task[e] = "fail"
<1>1. IInv /\ [Next]_vars => [\A e \in Executions : Kept(e)]_vars
  <2> SUFFICES ASSUME IInv, Next, NEW e \in Executions PROVE Kept(e)
    OBVIOUS
  <2>1. ASSUME NEW b \in Executions, ServerStep(b) PROVE Kept(e)
    <3>1. CASE status'[e] = status[e]
      BY <3>1
    <3>2. RunInv(b) /\ status \in [Executions -> Active \cup Terminal \cup {"absent"}]
      BY DEF IInv, CoreInv, RowsOK, RunsInv
    <3>3. CASE status'[e] # status[e]
      <4>1. \/ status[b] = "absent" /\ status' = [status EXCEPT ![b] = "PENDING"]
            \/ task[b] \in {"start", "verdict"} /\ \E s \in {"RUNNING", "SUCCESS", "FAILED"} :
                 status' = [status EXCEPT ![b] = s]
            \/ task[b] = "fail" /\ status' = [status EXCEPT ![b] = "FAILED"]
            \/ status[b] \in Active /\ status' = [status EXCEPT ![b] = "CANCELLED"]
        BY <2>1, <3>3, ExecutionsAreNotDeployments, ExecutionsAssumption DEF ServerStep, Trigger,
           Hand, SubmitToNewWorker, SubmitToQueue, Reject, Run, LoadContext, LoadFails, MarkRunning,
           Broadcast, Advance, PrepareWorkspace, PrepareFails, GraphReturns, GraphInterrupted, GraphThrows,
           WriteVerdict, Announce, TransactionFails, WriteFailed, WriteFailedFails,
           CompleteEmitters, CompleteEmittersThrows, CleanupWorkspace, StagesEnd, Cancel, Executions
      <4>2. b = e
        BY <3>2, <3>3, <4>1
      <4> QED BY <3>2, <3>3, <4>1, <4>2 DEF RunInv, Late, Active, Terminal
    <3> QED BY <3>1, <3>3
  <2>2. CASE PoolMoves \/ Crash
    BY <2>2 DEF PoolMoves, SubmitDeployment, DeploymentEnds, TakeTask, WorkerEnds, Shutdown, Crash
  <2>3. ASSUME NEW v \in Viewers, PageStep(v) PROVE Kept(e)
    BY <2>3 DEF PageStep, OpenPage, ClosePage, Stream, Refresh, StreamRequest, RegisterEmitter,
       LoadPage, LoadPageFails, OnComplete, Poll, DropEmitter, ConnectionErrors, RemoveEmitter,
       serverUnchanged, server
  <2> QED BY <2>1, <2>2, <2>3 DEF Next, ServerStep, PoolMoves, PageStep
<1> QED BY <1>1, Invariance, PTL DEF Spec, FinalStatusIsFinal
=============================================================================
