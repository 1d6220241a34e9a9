-------------------------- MODULE PipelineExecution --------------------------
(***************************************************************************)
(* The life of pipeline executions around the stage graph: triggerExecution*)
(* and its afterCommit hand-over to the deployment thread pool,            *)
(* executeAsync, cancelExecution, the SSE emitters, and the execution page *)
(* that streams the log and polls the status.                              *)
(*                                                                         *)
(* SQLite is used through a pool of one connection, so every transaction   *)
(* is one step.  Thread pool and SseEmitter are Spring's: they are         *)
(* modelled by how this code uses them.  The stage graph is StageGraph's   *)
(* contract: an uninterrupted return leaves no stage alive; an exception,  *)
(* and a return that the pool's shutdown has interrupted, may.             *)
(***************************************************************************)
EXTENDS Integers, Sequences, FiniteSets

CONSTANTS Builds,          \* bound: how often one pipeline is triggered
          Viewers,         \* bound: open execution pages, one connection each
          Watched,         \* the execution each page shows
          Deployments,     \* bound: how many build jobs share the thread pool
          CorePoolSize, MaxPoolSize, QueueCapacity,
          Faulty,          \* whether transactions and requests may fail
          MayCrash         \* bound: whether the JVM ends and restarts once

Executions == 1 .. Builds

\* What stands for a BuildService.executeDeployment in the pool's queue.
ADeployment == 0

ASSUME ExecutionsAssumption ==
  /\ Builds \in Nat /\ Deployments \in Nat
  /\ Watched \in [Viewers -> Executions]
ASSUME PoolAssumption ==
  /\ CorePoolSize \in Nat \ {0} /\ QueueCapacity \in Nat \ {0}
  /\ MaxPoolSize \in Nat /\ MaxPoolSize >= CorePoolSize
ASSUME FaultsAssumption == Faulty \in BOOLEAN /\ MayCrash \in BOOLEAN

Active == {"PENDING", "RUNNING"}
Terminal == {"SUCCESS", "FAILED", "CANCELLED"}
\* Where executeAsync is while a worker of the pool runs it.
Working == {"load", "start", "prepare", "graph", "verdict", "announce", "fail",
            "complete", "cleanup"}
Task == Working \cup {"none", "submitting", "queued", "rejected", "over", "lost"}
Connection == {"none", "requested", "accepted", "registered", "errored", "completed"}

VARIABLES
  status,             \* PipelineExecution.status, "absent" before the trigger
  task,               \* the asynchronous run of each execution
  submitted, deploying,  \* deployments handed to the pool so far, and running
  queue, workers,     \* the pool: waiting runs, live threads
  closing,            \* the JVM is going down: the pool has been shut down
  result,             \* what the stage graph returned, "nothing" before
  live,               \* executions that have a live stage thread
  workspace,          \* executions whose workspace directory exists
  executionEmitters,  \* the emitters registered for each execution
  conn,               \* server side of each page's SSE connection
  open,               \* whether the page still listens to it
  page, shown,        \* the page, and the status it shows
  polling,            \* whether its two-second interval is set
  missed,             \* history: pages whose load after the interval's end failed
  unrecorded,         \* history: runs whose end a failed transaction lost
  cut,                \* history: runs whose graph returned interrupted
  crashed             \* history: the JVM was restarted

deployments == <<submitted, deploying>>
pool == <<deployments, queue, workers, closing>>
server == <<status, task, pool, result, live, workspace>>
browser == <<open, page, shown, polling, missed>>
history == <<unrecorded, cut, crashed>>
vars == <<server, executionEmitters, conn, browser, history>>

TypeOK ==
  /\ status \in [Executions -> Active \cup Terminal \cup {"absent"}]
  /\ task \in [Executions -> Task]
  /\ submitted \in 0 .. Deployments /\ deploying \in 0 .. submitted
  /\ queue \in Seq(Executions \cup {ADeployment})
  /\ workers \in 0 .. MaxPoolSize /\ closing \in BOOLEAN
  /\ result \in [Executions -> {"nothing", "true", "false", "threw"}]
  /\ live \subseteq Executions /\ workspace \subseteq Executions
  /\ executionEmitters \in [Executions -> SUBSET Viewers]
  /\ conn \in [Viewers -> Connection]
  /\ open \in [Viewers -> BOOLEAN] /\ polling \in [Viewers -> BOOLEAN]
  /\ page \in [Viewers -> {"closed", "loading", "open"}]
  /\ shown \in [Viewers -> Active \cup Terminal \cup {"nothing"}]
  /\ missed \subseteq Viewers
  /\ unrecorded \subseteq Executions /\ cut \subseteq Executions
  /\ crashed \in BOOLEAN

Init ==
  /\ status = [e \in Executions |-> "absent"]
  /\ task = [e \in Executions |-> "none"]
  /\ submitted = 0 /\ deploying = 0
  /\ queue = <<>>
  /\ workers = 0 /\ closing = FALSE
  /\ result = [e \in Executions |-> "nothing"]
  /\ live = {} /\ workspace = {}
  /\ executionEmitters = [e \in Executions |-> {}]
  /\ conn = [v \in Viewers |-> "none"]
  /\ open = [v \in Viewers |-> FALSE]
  /\ page = [v \in Viewers |-> "closed"]
  /\ shown = [v \in Viewers |-> "nothing"]
  /\ polling = [v \in Viewers |-> FALSE]
  /\ missed = {} /\ unrecorded = {} /\ cut = {}
  /\ crashed = FALSE

clientUnchanged == UNCHANGED <<executionEmitters, conn, browser>>
poolUnchanged == UNCHANGED pool
runUnchanged == UNCHANGED <<result, live, workspace>>
historyUnchanged == UNCHANGED history

-----------------------------------------------------------------------------
(* Triggering, and the thread pool.                                        *)

Busy == deploying + Cardinality({e \in Executions : task[e] \in Working})

\* The next build number; rows PENDING, the hand-over follows the commit.
Trigger(e) ==
  /\ \A b \in Executions : status[b] = "absent" <=> b >= e
  /\ status' = [status EXCEPT ![e] = "PENDING"]
  /\ task' = [task EXCEPT ![e] = "submitting"]
  /\ poolUnchanged /\ runUnchanged /\ clientUnchanged /\ historyUnchanged

\* A mutant: the queue comes first, also when no thread is there to serve it.
StartsWorker_QueueFirst == Len(queue) >= QueueCapacity /\ workers < MaxPoolSize

\* ThreadPoolExecutor.execute: a new thread below the core size, else the
\* queue, else a new thread below the maximum, else an exception that leaves
\* the execution PENDING.
StartsWorker == workers < CorePoolSize
                \/ (Len(queue) >= QueueCapacity /\ workers < MaxPoolSize)

SubmitToNewWorker(e) ==
  /\ task[e] = "submitting" /\ ~closing
  /\ StartsWorker
  /\ workers' = workers + 1
  /\ task' = [task EXCEPT ![e] = "load"]
  /\ UNCHANGED <<status, deployments, queue, closing>>
  /\ runUnchanged /\ clientUnchanged /\ historyUnchanged

SubmitToQueue(e) ==
  /\ task[e] = "submitting" /\ ~closing
  /\ ~StartsWorker
  /\ Len(queue) < QueueCapacity
  /\ queue' = Append(queue, e)
  /\ task' = [task EXCEPT ![e] = "queued"]
  /\ UNCHANGED <<status, deployments, workers, closing>>
  /\ runUnchanged /\ clientUnchanged /\ historyUnchanged

\* Full, or shut down.
Reject(e) ==
  /\ task[e] = "submitting"
  /\ closing \/ (~StartsWorker /\ Len(queue) >= QueueCapacity)
  /\ task' = [task EXCEPT ![e] = "rejected"]
  /\ UNCHANGED status
  /\ poolUnchanged /\ runUnchanged /\ clientUnchanged /\ historyUnchanged

\* A deployment reaches the same pool (a rejected one is its caller's affair).
SubmitDeployment ==
  /\ submitted < Deployments /\ ~closing
  /\ submitted' = submitted + 1
  /\ \/ /\ StartsWorker
        /\ workers' = workers + 1
        /\ deploying' = deploying + 1
        /\ UNCHANGED queue
     \/ /\ ~StartsWorker /\ Len(queue) < QueueCapacity
        /\ queue' = Append(queue, ADeployment)
        /\ UNCHANGED <<deploying, workers>>
  /\ UNCHANGED <<status, task, closing>>
  /\ runUnchanged /\ clientUnchanged /\ historyUnchanged

DeploymentEnds ==
  /\ deploying > 0
  /\ deploying' = deploying - 1
  /\ UNCHANGED <<status, task, submitted, queue, workers, closing>>
  /\ runUnchanged /\ clientUnchanged /\ historyUnchanged

\* An idle worker takes the oldest waiting run.
TakeTask ==
  /\ queue # <<>>
  /\ Busy < workers
  /\ IF Head(queue) = ADeployment
       THEN deploying' = deploying + 1 /\ UNCHANGED task
       ELSE task' = [task EXCEPT ![Head(queue)] = "load"] /\ UNCHANGED deploying
  /\ queue' = Tail(queue)
  /\ UNCHANGED <<status, submitted, workers, closing>>
  /\ runUnchanged /\ clientUnchanged /\ historyUnchanged

\* A thread above the core size ends when it has been idle for a minute; in a
\* pool that has been shut down, every idle one.
WorkerEnds ==
  /\ queue = <<>>
  /\ workers > CorePoolSize \/ closing
  /\ Busy < workers
  /\ workers' = workers - 1
  /\ UNCHANGED <<status, task, deployments, queue, closing>>
  /\ runUnchanged /\ clientUnchanged /\ historyUnchanged

\* The application context is closed.  The pool is not told to wait for its
\* tasks, so Spring interrupts its threads, drops what waits in its queue and
\* refuses what comes.
Shutdown ==
  /\ MayCrash /\ ~crashed /\ ~closing
  /\ closing' = TRUE
  /\ task' = [e \in Executions |-> IF task[e] = "queued" THEN "lost" ELSE task[e]]
  /\ queue' = <<>>
  /\ UNCHANGED <<status, deployments, workers>>
  /\ runUnchanged /\ clientUnchanged /\ historyUnchanged

-----------------------------------------------------------------------------
(* executeAsync.                                                           *)

\* An interrupted thread gets no connection either.
TransactionMayFail == Faulty \/ closing

Advance(e, from, to) == task[e] = from /\ task' = [task EXCEPT ![e] = to]

\* An emitter whose connection the container has completed with an error, but
\* that is still registered: sending to it throws an IllegalStateException,
\* which the code does not catch.
Poisoned(e) == \E v \in executionEmitters[e] : conn[v] = "errored"

\* broadcastLog inside the try block: to is where the run goes on.
Broadcast(e, from, to) == Advance(e, from, IF Poisoned(e) THEN "fail" ELSE to)

\* The first transaction, outside the try block.
LoadContext(e) ==
  /\ Advance(e, "load", "start")
  /\ UNCHANGED status
  /\ poolUnchanged /\ runUnchanged /\ clientUnchanged /\ historyUnchanged

\* When it fails the exception ends the run: no status, no emitters.
LoadFails(e) ==
  /\ TransactionMayFail
  /\ Advance(e, "load", "over")
  /\ unrecorded' = unrecorded \cup {e}
  /\ UNCHANGED <<status, cut, crashed>>
  /\ poolUnchanged /\ runUnchanged /\ clientUnchanged

\* RUNNING whatever the status is now, then the first broadcast.
MarkRunning(e) ==
  /\ Broadcast(e, "start", "prepare")
  /\ status' = [status EXCEPT ![e] = "RUNNING"]
  /\ poolUnchanged /\ runUnchanged /\ clientUnchanged /\ historyUnchanged

\* prepareWorkspace, and the clone where there is a repository.
PrepareWorkspace(e) ==
  /\ Broadcast(e, "prepare", "graph")
  /\ workspace' = workspace \cup {e}
  /\ live' = IF Poisoned(e) THEN live ELSE live \cup {e}
  /\ UNCHANGED <<status, result>>
  /\ poolUnchanged /\ clientUnchanged /\ historyUnchanged

\* The directory, or the clone into it, cannot be made (an interrupt is one
\* reason why).
PrepareFails(e) ==
  /\ Advance(e, "prepare", "fail")
  /\ workspace' \in {workspace, workspace \cup {e}}
  /\ UNCHANGED <<status, result, live>>
  /\ poolUnchanged /\ clientUnchanged /\ historyUnchanged

\* A mutant: the graph is left while a stage thread is still alive.
GraphReturns_Detached(e) ==
  /\ Advance(e, "graph", "verdict")
  /\ \E r \in {"true", "false"} : result' = [result EXCEPT ![e] = r]
  /\ UNCHANGED <<live, status, workspace>>
  /\ poolUnchanged /\ clientUnchanged /\ historyUnchanged

\* Uninterrupted, the graph waits for its stage threads.
GraphReturns(e) ==
  /\ Advance(e, "graph", "verdict")
  /\ \E r \in {"true", "false"} : result' = [result EXCEPT ![e] = r]
  /\ live' = live \ {e}
  /\ UNCHANGED <<status, workspace>>
  /\ poolUnchanged /\ clientUnchanged /\ historyUnchanged

\* An interrupt ends its loops: it returns as ever, while stages may be running.
GraphInterrupted(e) ==
  /\ closing
  /\ Advance(e, "graph", "verdict")
  /\ \E r \in {"true", "false"} : result' = [result EXCEPT ![e] = r]
  /\ cut' = cut \cup {e}
  /\ UNCHANGED <<live, status, workspace, unrecorded, crashed>>
  /\ poolUnchanged /\ clientUnchanged

\* A transaction or a broadcast of the coordinator fails while stages may be
\* running.
GraphThrows(e) ==
  /\ TransactionMayFail \/ Poisoned(e)
  /\ Advance(e, "graph", "fail")
  /\ result' = [result EXCEPT ![e] = "threw"]
  /\ live' \in {live, live \ {e}}
  /\ UNCHANGED <<status, workspace>>
  /\ poolUnchanged /\ clientUnchanged /\ historyUnchanged

\* The stages left behind by an exception or an interrupt end on their own.
StagesEnd(e) ==
  /\ e \in live
  /\ task[e] # "graph"
  /\ live' = live \ {e}
  /\ UNCHANGED <<status, task, result, workspace>>
  /\ poolUnchanged /\ clientUnchanged /\ historyUnchanged

\* SUCCESS or FAILED whatever the status is now.
WriteVerdict(e) ==
  /\ Advance(e, "verdict", "announce")
  /\ status' = [status EXCEPT ![e] = IF result[e] = "true" THEN "SUCCESS" ELSE "FAILED"]
  /\ poolUnchanged /\ runUnchanged /\ clientUnchanged /\ historyUnchanged

Announce(e) ==
  /\ Broadcast(e, "announce", "complete")
  /\ UNCHANGED status
  /\ poolUnchanged /\ runUnchanged /\ clientUnchanged /\ historyUnchanged

\* A transaction inside the try block fails.
TransactionFails(e) ==
  /\ TransactionMayFail
  /\ task[e] \in {"start", "verdict"}
  /\ task' = [task EXCEPT ![e] = "fail"]
  /\ UNCHANGED status
  /\ poolUnchanged /\ runUnchanged /\ clientUnchanged /\ historyUnchanged

\* A mutant: the catch block logs the exception and leaves the row alone.
WriteFailed_OnlyLogs(e) ==
  /\ Advance(e, "fail", "complete")
  /\ UNCHANGED status
  /\ poolUnchanged /\ runUnchanged /\ clientUnchanged /\ historyUnchanged

\* The catch block; finally follows even when its own broadcast throws.
WriteFailed(e) ==
  /\ Advance(e, "fail", "complete")
  /\ status' = [status EXCEPT ![e] = "FAILED"]
  /\ poolUnchanged /\ runUnchanged /\ clientUnchanged /\ historyUnchanged

\* The catch block's transaction fails too: the status stays what it was.
WriteFailedFails(e) ==
  /\ TransactionMayFail
  /\ Advance(e, "fail", "complete")
  /\ unrecorded' = unrecorded \cup {e}
  /\ UNCHANGED <<status, cut, crashed>>
  /\ poolUnchanged /\ runUnchanged /\ clientUnchanged

\* completeEmitters takes the set out of the map and completes each emitter.
CompleteEmitters(e) ==
  /\ ~Poisoned(e)
  /\ Advance(e, "complete", "cleanup")
  /\ conn' = [v \in Viewers |->
                IF v \in executionEmitters[e] THEN "completed" ELSE conn[v]]
  /\ executionEmitters' = [executionEmitters EXCEPT ![e] = {}]
  /\ UNCHANGED <<status, browser>>
  /\ poolUnchanged /\ runUnchanged /\ historyUnchanged

\* A poisoned emitter throws out of the loop and of the finally block: the
\* emitters after it are never completed, the workspace stays.
CompleteEmittersThrows(e) ==
  /\ Poisoned(e)
  /\ Advance(e, "complete", "over")
  /\ \E done \in SUBSET {v \in executionEmitters[e] : conn[v] # "errored"} :
       conn' = [v \in Viewers |-> IF v \in done THEN "completed" ELSE conn[v]]
  /\ executionEmitters' = [executionEmitters EXCEPT ![e] = {}]
  /\ UNCHANGED <<status, browser>>
  /\ poolUnchanged /\ runUnchanged /\ historyUnchanged

\* The directory is deleted file by file; a stage that still runs in it can
\* make that fail, which is only logged.
CleanupWorkspace(e) ==
  /\ Advance(e, "cleanup", "over")
  /\ \/ workspace' = workspace \ {e}
     \/ e \in live /\ UNCHANGED workspace
  /\ UNCHANGED <<status, result, live>>
  /\ poolUnchanged /\ clientUnchanged /\ historyUnchanged

\* A mutant: a finished execution can be cancelled as well.
Cancel_Unguarded(e) ==
  /\ status[e] # "absent"
  /\ ~Poisoned(e)
  /\ status' = [status EXCEPT ![e] = "CANCELLED"]
  /\ UNCHANGED task
  /\ poolUnchanged /\ runUnchanged /\ clientUnchanged /\ historyUnchanged

\* cancelExecution: the row only.  Its broadcast runs before the commit, so a
\* poisoned emitter rolls the cancellation back.
Cancel(e) ==
  /\ status[e] \in Active
  /\ ~Poisoned(e)
  /\ status' = [status EXCEPT ![e] = "CANCELLED"]
  /\ UNCHANGED task
  /\ poolUnchanged /\ runUnchanged /\ clientUnchanged /\ historyUnchanged

\* The JVM ends, shut down or not, and starts again: memory is gone, rows and
\* directories stay, and nothing resumes or closes the executions under way.
Crash ==
  /\ MayCrash /\ ~crashed
  /\ crashed' = TRUE
  /\ task' = [e \in Executions |->
               IF task[e] \in Working \cup {"submitting", "queued"} THEN "lost" ELSE task[e]]
  /\ deploying' = 0
  /\ queue' = <<>>
  /\ workers' = 0 /\ closing' = FALSE
  /\ live' = {}
  /\ executionEmitters' = [e \in Executions |-> {}]
  /\ conn' = [v \in Viewers |-> "none"]
  /\ open' = [v \in Viewers |-> FALSE]
  /\ UNCHANGED <<status, submitted, result, workspace, page, shown, polling, missed,
                 unrecorded, cut>>

-----------------------------------------------------------------------------
(* The execution page and its stream.                                      *)

serverUnchanged == UNCHANGED <<server, history>>

OpenPage(v) ==
  /\ page[v] = "closed"
  /\ status[Watched[v]] # "absent"
  /\ page' = [page EXCEPT ![v] = "loading"]
  /\ UNCHANGED <<open, shown, polling, missed, conn, executionEmitters>>
  /\ serverUnchanged

\* A mutant: the page relies on the stream alone and sets no interval.
LoadPage_NoPolling(v) ==
  LET now == status[Watched[v]]
      streams == now \in Active /\ conn[v] \in {"none", "completed"}
  IN
  /\ page[v] = "loading"
  /\ page' = [page EXCEPT ![v] = "open"]
  /\ shown' = [shown EXCEPT ![v] = now]
  /\ conn' = [conn EXCEPT ![v] = IF streams THEN "requested" ELSE @]
  /\ open' = [open EXCEPT ![v] = @ \/ streams]
  /\ missed' = missed \ {v}
  /\ UNCHANGED <<polling, executionEmitters>>
  /\ serverUnchanged

\* viewExecution: of an active execution the log is streamed and the status
\* polled.  Bound: one connection of a page is followed at a time.
LoadPage(v) ==
  LET now == status[Watched[v]]
      streams == now \in Active /\ conn[v] \in {"none", "completed"}
  IN
  /\ page[v] = "loading"
  /\ page' = [page EXCEPT ![v] = "open"]
  /\ shown' = [shown EXCEPT ![v] = now]
  /\ polling' = [polling EXCEPT ![v] = @ \/ now \in Active]
  /\ conn' = [conn EXCEPT ![v] = IF streams THEN "requested" ELSE @]
  /\ open' = [open EXCEPT ![v] = @ \/ streams]
  /\ missed' = missed \ {v}
  /\ UNCHANGED executionEmitters
  /\ serverUnchanged

\* getExecution fails: a toast, and the page stays what it was.  Nothing loads
\* it again when the interval has ended itself before.
LoadPageFails(v) ==
  /\ TransactionMayFail
  /\ page[v] = "loading"
  /\ page' = [page EXCEPT ![v] = IF shown[v] = "nothing" THEN "closed" ELSE "open"]
  /\ missed' = IF shown[v] # "nothing" /\ ~polling[v] THEN missed \cup {v} ELSE missed
  /\ UNCHANGED <<open, shown, polling, conn, executionEmitters>>
  /\ serverUnchanged

\* streamExecutionLogs reads the status: a finished run is completed at once.
StreamRequest(v) ==
  /\ conn[v] = "requested"
  /\ conn' = [conn EXCEPT ![v] =
                IF status[Watched[v]] \in Terminal THEN "completed" ELSE "accepted"]
  /\ UNCHANGED <<browser, executionEmitters>>
  /\ serverUnchanged

\* registerEmitter, by then perhaps after completeEmitters.
RegisterEmitter(v) ==
  /\ conn[v] = "accepted"
  /\ conn' = [conn EXCEPT ![v] = "registered"]
  /\ executionEmitters' = [executionEmitters EXCEPT ![Watched[v]] = @ \cup {v}]
  /\ UNCHANGED browser
  /\ serverUnchanged

\* A broadcast to a page that is gone: an IOException, and the emitter is dropped.
DropEmitter(v) ==
  /\ v \in executionEmitters[Watched[v]]
  /\ conn[v] = "registered" /\ ~open[v]
  /\ task[Watched[v]] \in Working
  /\ conn' = [conn EXCEPT ![v] = "none"]
  /\ executionEmitters' = [executionEmitters EXCEPT ![Watched[v]] = @ \ {v}]
  /\ UNCHANGED browser
  /\ serverUnchanged

\* The container notices first: it completes the emitter, then calls removeEmitter.
ConnectionErrors(v) ==
  /\ conn[v] = "registered" /\ ~open[v]
  /\ conn' = [conn EXCEPT ![v] = "errored"]
  /\ UNCHANGED <<browser, executionEmitters>>
  /\ serverUnchanged

RemoveEmitter(v) ==
  /\ conn[v] = "errored"
  /\ conn' = [conn EXCEPT ![v] = "none"]
  /\ executionEmitters' = [executionEmitters EXCEPT ![Watched[v]] = @ \ {v}]
  /\ UNCHANGED browser
  /\ serverUnchanged

\* The "complete" event reloads the page.
OnComplete(v) ==
  /\ conn[v] = "completed" /\ open[v]
  /\ open' = [open EXCEPT ![v] = FALSE]
  /\ page' = [page EXCEPT ![v] = "loading"]
  /\ UNCHANGED <<shown, polling, missed, conn, executionEmitters>>
  /\ serverUnchanged

\* The interval sees a final status: it stops, closes the stream and reloads.
Poll(v) ==
  /\ polling[v]
  /\ status[Watched[v]] \in Terminal
  /\ polling' = [polling EXCEPT ![v] = FALSE]
  /\ open' = [open EXCEPT ![v] = FALSE]
  /\ page' = [page EXCEPT ![v] = "loading"]
  /\ UNCHANGED <<shown, missed, conn, executionEmitters>>
  /\ serverUnchanged

\* Back to the list: stream and interval are closed.
ClosePage(v) ==
  /\ page[v] = "open"
  /\ page' = [page EXCEPT ![v] = "closed"]
  /\ shown' = [shown EXCEPT ![v] = "nothing"]
  /\ polling' = [polling EXCEPT ![v] = FALSE]
  /\ open' = [open EXCEPT ![v] = FALSE]
  /\ missed' = missed \ {v}
  /\ UNCHANGED <<conn, executionEmitters>>
  /\ serverUnchanged

-----------------------------------------------------------------------------
Hand(e) == SubmitToNewWorker(e) \/ SubmitToQueue(e) \/ Reject(e)

Run(e) ==
  \/ LoadContext(e) \/ LoadFails(e) \/ MarkRunning(e)
  \/ PrepareWorkspace(e) \/ PrepareFails(e)
  \/ GraphReturns(e) \/ GraphInterrupted(e) \/ GraphThrows(e)
  \/ WriteVerdict(e) \/ Announce(e) \/ TransactionFails(e)
  \/ WriteFailed(e) \/ WriteFailedFails(e)
  \/ CompleteEmitters(e) \/ CompleteEmittersThrows(e) \/ CleanupWorkspace(e)

Stream(v) == StreamRequest(v) \/ RegisterEmitter(v)
Refresh(v) == LoadPage(v) \/ LoadPageFails(v) \/ OnComplete(v) \/ Poll(v)

Next ==
  \/ \E e \in Executions :
       Trigger(e) \/ Hand(e) \/ Run(e) \/ StagesEnd(e) \/ Cancel(e)
  \/ SubmitDeployment \/ DeploymentEnds \/ TakeTask \/ WorkerEnds
  \/ Shutdown \/ Crash
  \/ \E v \in Viewers :
       \/ OpenPage(v) \/ ClosePage(v) \/ Stream(v) \/ Refresh(v)
       \/ DropEmitter(v) \/ ConnectionErrors(v) \/ RemoveEmitter(v)

\* The commit's hook, the pool's threads, the request threads, and the page's
\* interval and events go on; users, faults, shutdown and crash need not happen.
Fairness ==
  /\ \A e \in Executions : WF_vars(Hand(e)) /\ WF_vars(Run(e))
  /\ WF_vars(TakeTask) /\ WF_vars(DeploymentEnds)
  /\ \A v \in Viewers : WF_vars(Stream(v)) /\ WF_vars(Refresh(v)) /\ WF_vars(RemoveEmitter(v))

Spec == Init /\ [][Next]_vars
FairSpec == Spec /\ Fairness

-----------------------------------------------------------------------------
(* Properties.                                                             *)

\* A run that is over has a final status in the database, also when it was
\* cancelled under way, unless the transaction that writes it failed.
OverMeansTerminal ==
  \A e \in Executions : task[e] = "over" /\ e \notin unrecorded => status[e] \in Terminal

\* The directory is not deleted under a running stage, unless the graph was
\* left by an exception or by the interrupt of a shutdown.
StagesHaveWorkspace ==
  \A e \in live : e \in workspace \/ result[e] = "threw" \/ e \in cut

\* A final status is left again only for a cancelled execution, or when the
\* announcement of the success ran into a poisoned emitter.
FinalStatusIsFinal ==
  [][\A e \in Executions :
       status[e] \in Terminal /\ status'[e] # status[e] =>
         \/ status[e] = "CANCELLED"
         \/ status[e] = "SUCCESS" /\ status'[e] = "FAILED" /\ task[e] = "fail"]_vars

\* Every run the pool accepted comes to its end, unless it waits in the queue
\* at a shutdown or the JVM dies.
AcceptedRunsEnd ==
  \A e \in Executions : (task[e] \in Working \cup {"queued"}) ~> (task[e] \in {"over", "lost"})

\* A page does not show an active status for ever once the execution has ended
\* for good: the interval repairs a stream that was registered too late.  It
\* does if the one load fails that follows the interval's end.
EndReachesPage ==
  \A v \in Viewers :
    (<>[](status[Watched[v]] \in Terminal)) => []<>(shown[v] \notin Active \/ v \in missed)

\* The cancel button's toast and the log line "Execution cancelled": an
\* execution that was cancelled stays cancelled.
CancelledStays ==
  [][\A e \in Executions : status[e] = "CANCELLED" => status'[e] = "CANCELLED"]_vars
=============================================================================
