# docker-manager: TLA+ models and proofs

docker-manager is a Spring Boot application with a browser front end that manages
Docker hosts: containers, images, Git builds, CI/CD pipelines, ingress routes with
certificates, health monitoring. It keeps its state in one SQLite file (through a
connection pool of size one) and in the memory of one JVM; the Docker daemons, the
Git servers and the ACME server are external.

This directory holds TLA+ models of its concurrent core, the TLC configurations that
check them, and proofs checked by TLAPS: pipelines (engine, stages, executions, their
page and their definition), builds and polling, the container health monitor, sessions,
ingress with certificates, and the shell of the browser console.

In this file `PES` stands for
`src/src/main/java/com/wannaverse/service/PipelineExecutionService.java`, and a number
after it for a line of it. Other files are named by their last component.

A setting that runs through everything: `application.yaml` limits the connection pool to
one connection with a timeout of 30 seconds, and lets Hibernate take it late and give it
back after each transaction. So transactions never overlap, each is one step of a model,
and what matters is what a request or a thread keeps in memory between two of them, and
what it has done outside the database when one is rolled back.

## 1. Inventory

| Component | State | Operations | Hard behaviour | What makes it correct |
|---|---|---|---|---|
| Stage graph engine (`PES` 305-488) | `completedStages`, `runningStages`, `stopExecution`, a thread per stage; the stage rows | scan, skip, launch, wait, cancel the rest; a stage thread's put, stop and remove | coordinator and stage threads share collections without a lock; exceptions in any transaction or broadcast; interrupt at shutdown; cyclic and dangling dependencies | one thread per stage, dependencies first, a failure blocks its dependents, map, row and answer agree, it always comes back |
| Stages and steps (`PES` 492-698) | stage row, step rows, results of the step threads | begin, sequential loop, parallel threads and join, write verdict; a step's begin, execute, write, announce | exceptions between a commit and its announcement, threads that die without a result, a second run over old rows | the verdict is the conjunction of the steps, a failure ends the sequence, no row stays RUNNING |
| Pipeline execution (`PES` 60-257, 721-799; `AsyncConfig`) | execution row, the deployment pool's queue and threads, workspace directories, emitters | trigger, hand-over after commit, run, cancel, complete emitters, clean up | a pool shared with builds, rejection when it is full, failing transactions, shutdown and crash of the JVM, cancel racing the run | a run that is over has a final status, the workspace outlives its stages, accepted runs end |
| Execution page and log stream (`PipelineController`, `pages/pipelines.js`, `api/pipelines.js`) | the status shown, an `EventSource`, a two-second interval | open, stream, register, complete, poll, close | status read before the emitter is registered, dead connections | the page learns the end |
| Pipeline definition (`PipelineService`, `pipeline-graph-editor.js`) | draft in the editor, stage rows, `dependsOn` | open, add, delete, connect, save, delete pipeline | ids of the draft against generated ids; edits while executions refer to the rows | what is saved is what was drawn |
| Step executors (`StepExecutorService`) | processes, containers | shell, build, compose, ... | timeouts, external failures | every step answers |
| Builds and polling (`BuildService`, `PollingService`, `GitService`, `GitController`) | the repository's row, the working directory, jobs in the pool, Docker's image or stack | poll, webhook, deploy, execute, edit, drift check | one transaction around the build; a poll that compares with an old row; whole-row saves; directories that outlive an edit or a restart | a row that counts as up to date is what Docker has; polling catches up |
| Container health monitor | monitor state per container, health events | the scheduled scan | two counters reset at different moments, cooldowns, containers that vanish | each incident has one event and the event ends with it |
| Operations, deployments, rollback (`OperationTrackingService`, `RollbackService`, `HistoryCleanupService`) | operations, numbered versions, the active one | record, activate, roll back, purge | a rollback that fails half way, purge of what is needed | one active version; an operation ends in a final state |
| Ingress (`IngressService`, `NginxConfigGenerator`) | configuration row, routes, proxy container, its file, the network | enable, disable, expose, remove, regenerate | rows are rolled back, Docker's side is not; Docker fails in the middle of everything; nginx refuses a file and nobody sees it | nginx serves the stored routes; disabled means gone |
| Certificates (`CertificateService`, `CertificateRenewalScheduler`) | certificate rows, the two files in the container | request, retry, renew, upload, delete | threads of minutes beside everything ingress does, which hold rows and write them back | the files are those of the ACTIVE row |
| Sessions (`AuthService`, `JwtService`, `UserService`, `api/client.js`, `state.js`) | refresh tokens in families; tokens in each tab and in localStorage | login, refresh, logout, change password, disable; apiCall and its retry | rotation and reuse, parallel 401s, lost answers, several tabs, tokens of one second | a login has one usable token; a disabled user has none; a live session ends only for a reason |
| Container drift, diffs, image policies | snapshots, rules | compare, match | none concurrent | agreement with a definition |
| Console (`app.js`, `router.js`, `dashboard.js`, `containers.js`) | current page, selected host, imported modules, intervals, views | start, navigate, select, refresh, list, create, logs | answers that come after the page was left, timers that outlive their page | what is shown is what is selected; one timer per page |
| Users, permissions, notifications, e-mail, templates, audit, encryption, Docker access, other controllers and pages | rows | edits, formatting, delegation | little of their own | |

How they interact. A trigger (page, webhook, poll) calls `triggerExecution` in a
transaction; its `afterCommit` hook hands `executeAsync` to the deployment pool, which
builds use too. `executeAsync` runs in one thread of the pool and calls the stage graph
engine, which starts a thread per stage; a stage calls its steps, in its own thread or in
one each; a step calls `StepExecutorService`. All of them write rows, each in a
transaction on the only connection, and broadcast log lines to the emitters that
request threads have registered. The page listens to an emitter and polls the row.

Builds run in the same pool, and as a build is one transaction, everything else that
wants the database waits for it. Ingress and certificates share the configuration row
and the nginx container; the former work in transactions, the latter in threads of their
own between transactions. Every page of the console calls the API through `apiCall`,
which refreshes the session's tokens on a 401, for all its callers at once.

## 2. Modules

| Module | Models | Checked by |
|---|---|---|
| `StageGraph` | the contract of the engine, abstract | as the property `Implements` of `PipelineEngine` |
| `PipelineEngine` | `executeDependencyGraph` and its stage threads | `MCPipelineEngine`, two runs; `PipelineEngineProofs` |
| `PipelineStage` | `executeStage`, `executeStep` | one run; refines the stage thread of `PipelineEngine`; `PipelineStageProofs` |
| `PipelineExecution` | trigger, pool, `executeAsync`, cancel, emitters, the page | `MCPipelineExecution`, two runs; `PipelineExecutionProofs` |
| `PipelineDefinition` | the editor's draft and the save | one run |
| `Deployments` | polls, jobs, the build, the working directory, edits, the Git drift check | `MCDeployments`, one run; `DeploymentsProofs` |
| `ContainerHealthMonitor` | the scheduled scan, a container's monitor row and health events | `MCContainerHealthMonitor`, two runs; `ContainerHealthMonitorProofs` |
| `TokenFamilies` | what rotating refresh tokens promise, abstract | as the property `FamilySpec` of `RefreshTokens` |
| `RefreshTokens` | `AuthService` and `UserService` on the token rows | inside `Sessions`; `SessionsProofs` |
| `Sessions` | the browser's tabs on top of `RefreshTokens` | `MCSessions`, one run; `SessionsProofs` |
| `Ingress` | `IngressService`: rows, and nginx on the Docker host | inside `Certificates` |
| `Certificates` | the threads of `CertificateService` beside `Ingress` | `MCCertificates`, one run; `CertificatesProofs` |
| `Console` | the shell, the dashboard and the containers page | `MCConsole`, one run; `ConsoleProofs` |

The pipeline modules fit together in two refinements and one contract. `PipelineStage` seen through
its mapping makes only the steps `StageBegins`, `StageEnds`, `StageThrows` of
`PipelineEngine`. `PipelineEngine` seen through its mapping makes only the steps of
`StageGraph`. `PipelineExecution` uses that contract where it calls the graph: an
uninterrupted return leaves no live stage thread, an exception, and a return that the pool's
shutdown has interrupted, may. `RefreshTokens` refines
`TokenFamilies`; `Sessions` extends it with the browser, `Certificates` extends `Ingress`
with its threads, so that both sides of each are checked together.

### PipelineEngine

The coordinator is a program counter (`pc`, `at`) and its locals; a stage thread is
`thread[s]`. Each access of either to `completedStages`, `runningStages` or
`stopExecution` is an action of its own, since the code takes no lock: the scan's guard
is the two actions `ReadCompleted` and `ReadRunning` (`PES` 358), a dependency is read by
`ReadDependency`, a thread ends in `PutVerdict`, `SetStop`, `Leave`. Steps that nobody
can see between are one action (a row that only this thread touches and the map entry
after it). `stopExecution` is a plain array written without synchronisation; the model
lets the write become visible at any moment before the thread leaves `runningStages`.
Stages are launched in the order of their index; the code's order is that of a hash
map, and since every graph (or, for three stages, every shape that matters) is an
initial state, the index is only a name.

The throws of a stage and of the coordinator stand for a transaction that fails (one
connection, 30 s timeout, held by a build for its whole length) and for a broadcast to
a dead emitter. `launches` and `throws` are history variables for the properties.

### PipelineStage

One stage of `M` steps. The actions up to the stage's verdict are those of the stage's
thread, `Step(s)` those of `executeStep`, in the same thread (SEQUENTIAL: only the step
the loop is at moves) or in one each (PARALLEL). `StepFaults` is an exception inside the
try block of `executeStep`, at any of its points; `StepThrows` one outside, before the
try or in the catch block. `RunAgain` is the engine launching the stage again.

### PipelineExecution

A transaction is one step. The thread pool is modelled by how `ThreadPoolExecutor`
treats `execute`: a new thread below the core size, then the queue, then threads up to
the maximum, then an exception; `0` in the queue stands for a build job. The SSE
connection of a page passes `requested` (the request is on its way), `accepted` (the
status has been read), `registered`, `errored` (the container has completed the emitter,
its callback has not run yet), `completed`. An `errored` emitter that is still
registered makes `send` throw an `IllegalStateException`, which no handler in the
service expects: `Broadcast` then leads to the catch block, `CompleteEmittersThrows` out
of the finally block, and `Cancel` is rolled back.

The JVM can end in two ways. `Crash` loses the memory and keeps rows and directories.
`Shutdown` comes before it when the application is closed: `AsyncConfig` does not tell the
pool to wait for its tasks, so Spring drops the queue, refuses what comes (`closing`) and
interrupts the threads, which go on. An interrupted graph leaves its waiting loops
(`PES` 409-411, 467-469) and returns as ever while stages may be alive (`GraphInterrupted`,
recorded in `cut`); then `WriteVerdict` stores what it said and `CleanupWorkspace` deletes the
directory under them. `TransactionMayFail` has one reason more then, because an interrupted
thread gets no connection.

`LoadPage` is the page's `getExecution`, `LoadPageFails` the same without an answer, which
leaves the page as it is (`pipelines.js:775`). If that happens to the one load that follows
the interval's end (750-753), nothing loads the page again: `missed` remembers it.

### PipelineDefinition

Editor ids are negative, generated ids positive. `RowsOf` is `createStageFromRequest`:
a new id, the request's `dependsOn`.

### ContainerHealthMonitor

`container` is what the daemon says, `row` the stored `ContainerMonitorState`, `state` the
object `checkContainer` works on, `active` the kinds of which an unresolved event is
stored. The scan is `BeginScan`, one action per test of `checkContainer` in its order
(`CheckOom`, `CheckCrash`, `CheckRestarts`, `CheckHealth`), `SaveState`, and
`ResolveOldEvents`. The `@Transactional` of `monitorHost` has no effect, since
`monitorContainerHealth` calls it on `this`; so every save commits by itself and may fail
by itself: `Raise` has an alternative for the first save of an event, and for the sending
and the second save. Times are ages in ticks, each kept up to the point from which
the code gives one answer. The rest are history variables: the ages of the real
restarts, and of the notifications that were sent.

There is one container: `checkContainer` reads and writes nothing of another one, but
whether the host has others decides if stale rows are deleted (`setup.others`). `setup`
also says what can happen to the container. The container and the clock stand still
during a scan, which takes one call of the daemon for the container; users resolve
events at any time, but not between the two saves of one event. A host that cannot be reached is not scanned,
so `MaxGap` bounds the time between two scans that reached the save. The container's
actions are external: a restart by policy counts, a start by hand sets the daemon's count
to 0.

### Deployments

One repository. `row` is its row (source, `lastCommitSha`, the drift check's result),
`clone` the working directory, `deployed` what Docker has, `job` the jobs in the pool. A
commit is a source and a number; `head` counts the pushes, so that commits of one source
are ordered and a clone can only go forward.

A build has the only connection from `Begin` to its end (`Succeed`, `Fail`, `RolledBack`),
so its rows appear there, while `Checkout` and `Build` are seen at once by whoever looks
at the directory or at Docker. What else needs the database has `ConnectionIsFree` as its
guard, or gives up after 30 seconds (`GivesUp`, `PollFails`, `SaveFails`). The duration of
the builds is therefore in the model, although the wait is not counted.

A poll is three steps: `StartPoll` loads the row, `AskRemote` compares it with the remote
without a transaction, `CreateJob` stores a job and hands it over. `Trigger` is a webhook or
the deploy button, which compare nothing. `LoadRow` and `SaveRow` are the two transactions
of `updateRepository` and `regenerateWebhook`: the second writes the whole row as the first
read it, with another source perhaps. `Pulled` is what `pullRepository` makes of a directory
that is not of the row's source: the code pulls whatever has a `.git`. `Restart` loses
threads and queue, and may cut off a clone.

### Sessions

`RefreshTokens` has the rows: a token is its family and its second of issue, because the
JWT holds nothing else, and `tokenHash` is unique. Each operation of `AuthService` and
`UserService` is one transaction, so one step. `TokenFamilies` is the promise.

`Sessions` puts tabs in front. `memory` is what a tab holds, `storage` what `localStorage`
holds; a tab reads it when it loads and never again, and each `saveState` writes all of it.
A call that gets a 401 goes `sent`, `posted`, then `granted` or `refused`; between the server's
transaction and the tab's `StoreTokens` anything can happen, also a reload (`abandoned`) or
the loss of the answer. `settled` is a history variable: tokens whose successor was
stored while nobody else held them.

### Ingress and Certificates

`Ingress` has the rows (`config`, `target`, `certs`) and the host (`box` with its
certificate files, its configuration file and what nginx has loaded; `network`,
`connected`). An operation is one transaction, hence one step, but each of its calls to
Docker may fail: `EnableFails`, `ExposeFails`, `RemoveFails`, `ApplyFails` and the parameters
of `Disable` enumerate what is left then. `Loadable` is nginx's own test; a file that it
refuses leaves what is served as it was, and the code looks at no exit code.

`Certificates` adds the threads that request, retry or renew a certificate. They run without
a transaction around them, load the certificate's row and the configuration's row once, and
write them back whole: `Begin`, the order, `Issue`, then the deployment file by file
(`PutChain`, `PutKey`, `ReadRoutes`, `ReadCerts`, `SaveConfig`, `WriteConfig`, `Reload`), with every
operation of `Ingress`, an upload, a deletion or a restart between any two: routes and
certificates are read in two transactions, so that the file generated from them may be one
that never was right. An upload parses the certificate but not its key, which may not fit
(`fits`); nginx refuses every file then until another pair is there. The ACME server is external:
it issues or it does not. `overtaken`, `lagging` and `silent` are history variables that
name what the properties must except.

### Console

The single-page shell: `Navigate`, `Refresh`, `SelectHost`, `StartApp`, `LogOut`, and the
continuations after each `await` as `tasks`, resumed in any order or failing. A page's module
is a task only the first time (`cached`). The calls of `loadLogs` are not among the tasks: they
ask for nothing afterwards and write only into the element they have found, so `loading` has the
containers of those whose element is still shown. The dashboard brings its interval (`timers` counts
those that run, `timerId` is the id that the module knows), the containers page its three
views and the interval of the logs view, whose id is a module variable that the next view
overwrites (`orphans`). `overtook` and `outdated` are history variables: an answer came before
one that was asked for earlier; an answer in its turn left an older host's data. Charts, the statistics' own interval and the dialogs are
abstracted.

## 3. Runs

| Run | Bounds | Shows |
|---|---|---|
| `engine_two` | 2 stages, all 64 dependency relations over the two ids and one dangling id, one exception per stage, exceptions of the coordinator, one interrupt | at most one live thread per stage; dependencies first, and failed ones block; at most one run beyond the exceptions; map and row agree; an uninterrupted return is settled; `StageGraph` is implemented; the method comes back |
| `engine_stop` | 2 independent stages | violated: see finding 1 |
| `stage` | 3 steps, both modes, every `continueOnFailure`, 2 runs, 2 exceptions | verdict, order, rows, termination, and that it is the stage thread the engine is modelled with |
| `execution` | 1 execution, 3 build jobs, pool 1..2 threads and a queue of 1, one page, failing transactions, a shutdown, a crash | final status, workspace, page and pool liveness |
| `execution_cancel` | 1 execution, nothing fails | violated: see finding 2 |
| `definition` | 2 stages in the draft, 3 drawn, 6 rows | violated: see finding 3 |
| `deployments` | 2 sources, one push, 3 jobs, pool 1..2 threads and a queue of 1, one poller, one whole-row save, one fault or restart | an up-to-date or SYNCED row is what Docker has; polling catches up |
| `health` | three sorts of container, window and cooldown of 2 ticks, threshold 2, counts to 3, one failing call | one exit is one crash, notifications keep their distance, a reported loop has happened, the events of a removed container end |
| `health_stable` | the same, nothing fails | violated: see finding 4 |
| `sessions` | 1 user, 1 family, 2 tabs, 2 calls, 3 seconds, access tokens of one and refresh tokens of two seconds | one usable token, none of a disabled user, tokens in pairs, `TokenFamilies` is implemented, what may end a live session |
| `certificates` | 2 hostnames, one with a certificate row, one container, 2 proxy containers, 2 issues, 1 thread, one fault | nginx serves what is stored; disabled means gone |
| `console` | 2 hosts, 2 pages, 2 containers' logs, 2 tasks before the user goes on | what is shown is what is selected; one dashboard interval; logs are those of the view |

Why the bounds are enough. The engine's races are between the coordinator and one stage
thread, or between two stages one of which depends on the other; two stages have all of
these, and cycles and self loops, and a stage that depends on a failed stage and on itself.
`PipelineEngineThree.cfg`, which is not among the runs, has the shapes of three stages (chain,
fan-out, fan-in, independent, a back edge) without exceptions, and the same properties hold
there. Beyond that the proofs are for every number of stages, every graph and every number
of exceptions. Three steps give a sequence a step
before and a step after the one that fails. The second run of a stage is the last one
without an exception (proved: `AtMostOneRerun`), so two runs show what one run leaves
to the next. The pool has two kinds of thread (core and above) and one place in the queue, and
four jobs can fill and overflow it; more places repeat the same tests. Executions share
the pool and nothing else, and build jobs stand for the others there. The monitor's window
has three parts the code tells apart (inside, over, over twice), so two ticks with a scan
at least every other tick meet each from both sides; a count of 3 can reach the threshold of 2
from two baselines, and starts by hand set it back any number of times. One failing call
is enough to lose a row or a mark; the properties say what a fault may cost.

In `deployments` three jobs fill and overflow the pool; one push makes a row stale, one save
sets it back, one fault loses any one thing. Larger instances passed as well: two pushes;
two saves and two faults for the invariants; and the proofs are for every bound. In
`sessions` two calls and two tabs give every pair of refreshes, in one tab or across tabs;
the lifetimes are the shortest in which a refresh in the same second, a refresh after
expiry, and a refresh that comes too late are all different. Families share nothing, and
the proofs are for any number. In `certificates` two hostnames on one container are needed for
the last-route test, the second proxy container for enabling again, the second issue for
a renewal. `CertificatesTwo.cfg`, which is not among the runs, has two containers, so that a
hostname can be exposed to another one; the same properties hold there. Instances with two
certificate rows, with two faults, and with two requests (one proxy container, no fault)
passed too; the proofs are for any number of each. In `console` two tasks suffice for an answer that
overtakes another while the user goes on; the proofs are for any number. A task may start others, so more than two are under way at times.

The type invariants of `PipelineEngine`, `PipelineStage`, `PipelineExecution`,
`ContainerHealthMonitor` and `Deployments` are not among the runs' properties, since they are
proved (section 4); those of the other modules are checked and proved.

Deadlock is checked in the engine's and the monitor's runs. The monitor's
clock never stops, so it says nothing there; in the engine's runs `Finished` is the only state
to stop in: the coordinator never waits for something that does not come. `stage`,
`execution` and `definition` really may stop, when their bounded runs, triggers or rows are
used up; so may `deployments`, `sessions`, `certificates` and `console`, whose seconds,
pushes, rows or requests are bounded and whose users need not do anything.

### What the properties say

- `OneThreadPerStage`: the two reads of the scan can repeat a *finished* stage, never a
  live one.
- `AtMostOneRerun`: the repetition happens once at most, because after the second put the
  verdict is there before the removal that the scan could see.
- `StartsAfterDependencies`, `FailureBlocksDependents`: a stage with a thread has
  dependencies with verdicts, and not failed ones, unless the failed one was launched twice:
  its first run may have succeeded and released the dependents.
- `VerdictIsStored`, `ReturnedMeansSettled`: map, row, threads and answer at rest and at
  the return. The exceptions they name are real: a second run that an exception cuts
  off leaves its row RUNNING beside the verdict of the first.
- `Terminates`: for any stored graph.
- `StopOnFailureStops`: refuted, finding 1.
- `VerdictIsConjunction`, `FailureEndsSequence`, `ReturnedRowsAgree`, `StageEnds`: steps
  and stage. A parallel step whose thread dies with an exception counts as a
  success, and the property says so.
- `OverMeansTerminal`: cancellations, exceptions and dead emitters notwithstanding, the
  end of a run is in its row, unless the transaction that writes it failed.
- `StagesHaveWorkspace`, `FinalStatusIsFinal`: the directory against the live stages, whose
  graph has not been left by an exception or an interrupt, and the only two ways a final
  status is left.
- `AcceptedRunsEnd`: pool and run. A rejected hand-over is not accepted: its row stays
  PENDING for ever; so do the rows of what waits in the queue at a shutdown, and the rows
  of runs that a crash has cut off stay as they were.
- `EndReachesPage`: an emitter registered after `completeEmitters` never hears of the
  end; the page's interval does. It looks once: if the load that follows fails, the page
  shows RUNNING for ever, and the property says so.
- `LoopIsRecent`: a restart loop is only reported when that many real restarts lie at most
  the window and one scan's distance back, with rows that were not saved, counts that fall
  and starts by hand in between.
- `CrashReportedOnce`, `NotificationsSpaced`: one exit is one event, and one more for each call
  that failed at most; the cooldown is kept but for a mark that a failing save has lost.
- `GoneIsResolved`: the events of a removed container end, also when it was the host's last
  one and its row stays.
- `StableIsResolved`: refuted, finding 4.
- `UpToDateIsDeployed`: when row and remote agree, so that polls leave the repository
  alone, Docker has that commit, over overlapping builds, saves of old rows and builds whose
  transaction was rolled back. It rests on the accident that a build is one transaction on the
  only connection: without it (the mutant) two builds share the directory and the image.
- `SyncedIsDeployed`: the same for the page's SYNCED.
- `CatchesUp`: when pushes, edits and faults have ended, the latest commit is deployed and
  stored, unless the working directory is of another source or was cut off. Those two
  cases are real and never heal (section 5).
- `OneUsableToken`, `DisabledHasNoToken`, `FamilySpec`: tokens presented late, twice or in
  any order never give a login a second line of tokens, nor bring one back to life.
- `TokensComeInPairs`: no interleaving of saves of several tabs mixes the tokens of two
  grants.
- `OnlyARaceOrALossEndsALiveSession`: a tab clears its state although the server's family is
  alive only if its token was held by another call or tab too when it was replaced, or
  the successor was never stored. Both happen: see section 5.
- `ServesWhatIsStored`: what nginx serves is what the rows say, TLS and files included, over
  any order of exposing, removing, renewing, uploading, deleting and restarting. `lagging` and
  `overtaken` name what this excepts since ingress was enabled last: a call to Docker that
  failed; a route that changed between a deployment's reading the routes and its reload; an
  upload, a deletion, a second request, a disabling or an enabling while a request was
  under way; a second row for the hostname, a key that does not fit; routes stored before
  ingress was enabled. Nothing in the code notices these or repairs them; the next
  regeneration that succeeds does, for most.
- `DisabledIsGone`: a failed step never ends in DISABLED with the container or the network
  left, unless Docker did not even answer the tests.
- `ShowsWhatIsSelected`: when all is answered, page and data are the selected ones, whatever the
  user clicked meanwhile and whatever failed, but for three things that last until a page is loaded
  with no answer pending: an answer overtook an earlier one (`loadPage` has no test
  that its page is still wanted); a list failed over another host's table, which it leaves; the
  hosts came after the page had been loaded for another one or none, and `startApp` does not
  load it again when there is a hash.
- `OneDashboardTimer`: the id the module knows stops the only interval, however many inits are
  under way. `LogsOfTheView`: a logs view shows another container's lines only after that one's
  view was replaced without a back button, by the router, an error, or the answer to an earlier
  create or submit; its interval goes on then. How often that happens the property does not
  bound.

### Fairness

`PipelineEngine`, `PipelineStage`: weak fairness of each thread; the JVM schedules
runnable threads. It includes that a stage, and in it a step, comes back:
`StepExecutorService` waits for containers with a timeout, for image builds without one,
so this is an assumption about Docker there. Weak fairness is enough since a thread that
can move stays able to until it does. Exceptions and the interrupt are not forced: an
exception is one of the alternatives of the thread's own fair step. `PipelineExecution`:
weak fairness of the hand-over hook, of each run, of the pool's threads, of builds
ending, of request threads, and of the page's timer and events. Users, failing
transactions, connections that break and restarts are free to happen or not.
`ContainerHealthMonitor`: weak fairness of the scan, which the scheduler starts again at
a fixed rate, on a host that answers; strong fairness of the clock, whose ticks only fit
between scans. Containers, users and failing calls are free.

`Deployments` (`CatchesUp`): weak fairness of a build's own steps and of the question to the
remote, that is, Git and Docker answer at last, and the latest commit can be built (a fault
is bounded). Strong fairness of what needs the connection (`Begin`, `StartPoll`, `CreateJob`):
it is taken and given back again and again, and HikariCP hands it to its waiters in turn;
a poll that gets none is only delayed, since the scheduler asks again at a fixed rate.
Webhooks, edits, pushes, drift checks and restarts are free. The other modules state
safety only.

## 4. Proofs

Eight modules hold theorems, each for every value of its module's constants, from the
assumptions on the constants only (they are named `...Assumption`, and TLC evaluates them in
the runs). The pattern is the same everywhere: an inductive invariant `IInv`, a lemma per
action (or per conjunct and the actions that disturb it) that the action keeps it, `IInvInit`,
the step, and then `Invariance == Spec => []IInv`, from which the others follow. `TypeCorrect` is
`Spec => []TypeOK`; where modules build on each other, formulas and theorems carry the module's
name (`DeploymentsTypeOK`, `SessionsTypeCorrect`, `CertificatesTypeCorrect`).

### PipelineEngineProofs

| Theorem | Says |
|---|---|
| `ThreadsAreUnique` | `Spec => OneThreadPerStage` |
| `DependenciesFirst` | `Spec => []StartsAfterDependencies` |
| `FailureBlocks` | `Spec => []FailureBlocksDependents` |
| `RerunsAreBounded` | `Spec => []AtMostOneRerun` |
| `VerdictsAreStored` | `Spec => []VerdictIsStored` |
| `ReturnSettles` | `Spec => []ReturnedMeansSettled` |
| `EngineImplements` | `Spec => Implements` (that is, `Spec => Graph!Spec`) |

None of the properties is inductive: from the state after `ReadCompleted` alone nothing
keeps a live stage from being launched, since what the coordinator read is stale by the
time it acts. `IInv` adds what the coordinator can still rely on:

- `ThreadInv`: `runningStages` is exactly the set of stages with a thread, and a stage in
  `readyStageIds` or past the second read has none; only the coordinator could give it one;
- `AtStage`, `ReadyInv`: the loop's index is a stage where it is used, and
  `readyStageIds` holds stages the scan has passed;
- `DependencyInv`: a stage that is ready or runs has a verdict for each dependency, and so
  have the dependencies already read; a verdict is never taken away;
- `LaunchInv`: launches are paid for by the first verdict, by a throw, or by the one
  repetition that a stage inside the window between the two reads may get;
- `RerunInv`, `OverwriteInv`, `FailureInv`: a stage that is busy and has a verdict is in its
  second run, the coordinator only overwrites verdicts nobody depends on, and so a
  failure under a running dependent is that of a second run;
- `RowInv`, `CancelInv`, `ReturnInv`: the rows against the map, during the last loop and
  at the return.

There is one lemma per conjunct, with a step for each action that can disturb it; `IInvStep`
combines them, and the property theorems follow from `IInv` (the action property and the
refinement from `IInv /\ [Next]_vars`, action by action).

### PipelineStageProofs

`ReturnsConjunction` (`VerdictIsConjunction`), `SequenceStops` (`FailureEndsSequence`),
`RowsAgree` (`ReturnedRowsAgree`). What a stage returns follows from its last state only together
with what the loop has passed: `Loop` says that the steps behind the index have answered and
may be passed, those before it have not begun; `AtRest` that nothing moves once the
verdict is written; `Rows` that each row follows its step's thread, but for the steps an
exception has left; `Verdict` carries the conjunction to the return. `StageThreadImplemented`
(`ImplementsStageThread`) maps each action to one of the engine's stage thread or to a step it
does not see; that an exception stays within the engine's bound needs `ThrowsCounted`.

### PipelineExecutionProofs

`EndIsStored` (`OverMeansTerminal`), `WorkspaceOutlives` (`StagesHaveWorkspace`), `FinalIsFinal`
(`FinalStatusIsFinal`). `RunInv` ties row, answer, stage threads and directory to where a run is:
a run has live stages only inside the graph, or after an exception or an interrupt. That a worker takes an execution which really
waits needs `QueueInv` (an execution stands in the queue once); that the pool never runs more
builds than it was given needs to count them in the queue, without an induction over
sequences: `DeploymentsInv` asks for a function that bounds the builds begun once so many
places of the queue are served.

### ContainerHealthMonitorProofs

`Spaced` (`NotificationsSpaced`), `ReportedOnce` (`CrashReportedOnce`), `LoopsAreRecent`
(`LoopIsRecent`). The first two rest on `MarksKept` (row or copy hold the age of each
notification, unless that save was lost) and `CrashIsBehind` (what was reported is in the
status the next check compares with, or will be when this one is over, or one more call has
failed than there were repetitions). The third has an
invariant of its own, `LInv`, proved as `CountsInvariance`: as long as a window is inside
its length, at least as many restarts as the count has risen since its baseline happened since
it was opened, one scan's distance allowed for; and likewise for the row's count since it was
saved.

### SessionsProofs

About the rows alone, from `RefreshTokens`' own specification: `OneUsable` (`OneUsableToken`),
`DisabledHasNone` (`DisabledHasNoToken`), `Refinement` (`FamilySpec`). The first needs
`HashIsUnique` beside it: rows of one family and second are one row.

`RowsBesideTabs` shows `SessionsSpec => Spec`: whatever the tabs do, they do to the rows only
what `RefreshTokens` allows, so its theorems hold beside any number of tabs and calls.
`TokensPair` (`TokensComeInPairs`) and `LiveSessionsLast` (`OnlyARaceOrALossEndsALiveSession`) are
about the browser. The first is inductive beside the types of calls (`CallInv`). The second
needs `SettledInv`: a token that a tab, localStorage or a call holds is one the rows know and is
not settled, and what a granted call will store is a token of its own that nobody holds yet.

### CertificatesProofs

`DisablingRemoves` (`DisabledIsGone`) and `StoredIsServed` (`ServesWhatIsStored`).
The first rests on `PlaceInv`: the row knows of container and network, whatever failed, unless
Docker was silent or a request wrote an older row back; a failed enable or disable keeps their
ids for the next attempt. The second holds only between deployments; `ServingInv` says what makes
it hold again after each of them. While nothing excepted has happened, there is at most one
request and its row is the stored one (`AloneInv`); files and configuration are as far as its
program counter says, what it has read of the routes is what is stored, and what it generated is what would be
generated now (`StageInv`); the excepted events are those after which one of these fails. The
type invariant, `RowInv` and `HeldInv` hold whatever happens. They are proved together first
(`CoreInv`), and each step is then taken up again for what nginx serves.

### DeploymentsProofs

`UpToDate` (`UpToDateIsDeployed`), `Synced` (`SyncedIsDeployed`). Neither is inductive, since
both speak of the latest commit only. `LineInv` orders everything on the clone's line of
commits: what a row tells of, also one that a request still holds, is not ahead of what Docker
has, that is not ahead of HEAD, and HEAD not ahead of the remote. If the first equals the
last, all are equal. `JobInv` (what a job has read is what is checked out) needs
`OneBuildAtATime`, which the connection gives; `NothingYet` covers the time before the first
clone.

### ConsoleProofs

`SelectedIsShown` (`ShowsWhatIsSelected`), `OneTimer` (`OneDashboardTimer`), `LogsBelong`
(`LogsOfTheView`), `ConsoleTypeCorrect`. `ConsoleInv` has a part that holds whatever overtook
what: the types, and `HashInv` (before anything was navigated to, only the dashboard can be
shown or awaited, which the containers page's answers and `HashChange` rely on); `LogsInv`, which
says where another container's lines can still come from: an interval, known or orphaned, or a
request, each left behind by the router or of the view that is shown.

The other part is about answers that come in order, and is what `ShowsWhatIsSelected` needs
before the tasks are used up. `PageInv`: the last page on its way is the current one, and it is
shown or will be (`LastImport`; an older page may be on its way before it, and is replaced). `HostInv`: another host's data never outlast the tasks. They can be on the
screen (`Outlived`), in a task (`Followed`), in a usage answer, which shows the containers it was
asked with (`UsageOutlived`), or in the rows of the list, which a drift answer shows
(`RowsOutlived`); and each is outlasted by a task that loads the page once more, or that brings the
selected host's. The order of the tasks matters, so the lemmas `NewTasks`, `FollowedKept`,
`AfterKept`, `AskedKept` and `MovingKept` say once what becomes of it when one task is taken out
and others are appended; `Reloaded`, `Answered`, `SwitchComes` and `Unseen` say it of
the four sorts of actions.

### What stays with TLC

Liveness (`Terminates`, `StageEnds`, `AcceptedRunsEnd`, `EndReachesPage`, `GoneIsResolved`,
`CatchesUp`), which needs fairness and `ENABLED`. Every other property of a passing run is
proved. No induction over data is used.

## 5. Findings

1. **A stopped pipeline can be stored as SUCCESS** (`engine_stop`). Between the two reads
   of `PES` 358 a stage thread can put its verdict and leave `runningStages`; the scan
   sees neither and launches the finished stage again. If it was a stage with
   `stopOnFailure` and succeeds now, its failure is overwritten and the graph returns
   true, although the editor says "Stop pipeline on failure"
   (`pipeline-graph-editor.js:591`). The window is short; the coordinator passes it every
   100 ms.
2. **Cancelling does not cancel** (`execution_cancel`). `cancelExecution` writes the row and
   says "Execution cancelled" (`PES` 733, `pipelines.js:698`); `executeAsync` overwrites it
   (`PES` 182, 218) and executes everything.
3. **Saved dependencies name no saved stage** (`definition`). The editor's "Select which
   stages must complete before this one starts" (`pipeline-graph-editor.js:551`) ends in
   `createStageFromRequest`, which generates ids and copies `dependsOn`
   (`PipelineService.java:325`). Every stage with a dependency is cancelled when the
   pipeline runs, and the pipeline fails. So rows with dependencies that resolve do not come out
   of today's save path. The engine is nevertheless modelled for any rows: it is written
   to execute such graphs, its dangling case is what the save path produces, and the
   other cases are what it will meet when the save is repaired or rows come from
   elsewhere.
4. **A restart loop event never ends by itself** (`health_stable`).
   `ContainerHealthMonitorService.java:401` logs "Resolved restart loop event {} - container
   is stable", but the test before it needs a window's start older than two windows; the
   detection sets it to 0 (186) and `checkContainer` resets it after one window (193). While
   the event is active, later loops of the container are not reported.

Also seen while modelling, part of the models unless marked (x), and contradicted by no
document:

Pipelines. A full pool leaves the execution PENDING; a restart leaves it RUNNING or
PENDING; a dead emitter can turn a finished run from SUCCESS to FAILED and leak its
workspace; a parallel step that throws counts as a success. A shutdown deletes the workspace
under stages that are running, and stores a verdict on them. A page whose load fails just
after the interval saw the end shows RUNNING until it is opened again
(`pipelines.js:750-753`, 775).

Builds and polling.
- A build's rows appear at its end: RUNNING is never visible, and everything else waits, or
  fails after 30 seconds, while it goes on.
- A job whose thread gets no connection, and one that the full pool refuses, stay PENDING for
  ever. An emitter that is completed but registered throws out of `executeDeployment`
  (`BuildService.java:261-273`) and rolls the rows back although the image is built.
- Every poll until the build succeeds makes another job for the same commit; a commit that
  cannot be built is built again at every interval.
- `updateRepository` and `regenerateWebhook` can set `lastCommitSha` back; the next poll
  heals it.
- After a change of URL or branch the old directory is pulled, from the old URL or by a merge:
  HEAD never is what the remote says, and every poll builds. A restart in the middle of the
  first clone leaves a `.git` that every later build fails on. Only deleting the repository
  helps.
- `driftStatus` stays BEHIND after a build until the next drift check.
- (x) `cancelJob` writes PENDING to CANCELLED only, the queued job overwrites it, and a cancel
  that read PENDING can overwrite SUCCESS.

Sessions.
- After 15 idle minutes a page's calls all get a 401 at once and all refresh with the same token:
  the losers clear the state and reload although the session lives.
- A second refresh within the second of the first makes the same token, whose hash is there
  already: the server's error logs the tab out. So does a lost answer.
- A save in one tab writes its own tokens over those another tab has refreshed, or back after
  a logout elsewhere. An answer that comes after the logout stores tokens again.
- After a password change the tab keeps tokens that have just been revoked. A logout with an
  expired access token is refreshed first, then revokes the old refresh token only.
- `revokeFamily` is rolled back by the exception of the next line (`AuthService.java:115`): a
  reused token ends nothing. `FamilySpec` holds all the same, since the old row stays revoked.
- (x) The purge of expired tokens is called by nobody.

Ingress and certificates.
- ENABLING and DISABLING are never visible (one transaction). Enabling again neither
  connects the containers of stored routes nor restores certificate files; nginx then refuses the
  file, whose test nobody looks at, while the status is ENABLED.
- Deleting a certificate does not regenerate the file: nginx keeps serving, and refuses the
  next one. Exposing a hostname again adds a second certificate row; deleting either removes
  the files of both.
- A deployment reads routes and certificates in two transactions (`CertificateService.java:652-655`)
  and holds what it read until it has written the file: a route that changes meanwhile is
  missing from it, or back in it. `uploadCertificate` parses the certificate and stores whatever
  key comes with it (563-574); nginx refuses every file from then on, and serves the old one.
- A certificate that fails to renew is ERROR: the scheduler selects ACTIVE rows only, so it is
  not tried again, and the next regeneration drops the hostname's TLS.
- A thread that requests a certificate writes back the configuration row as it was minutes
  ago, over an operation that has disabled or enabled ingress since.
- A disabling that Docker answers nothing to reports DISABLED with everything running.
- (x) `activeChallenges` is not cleaned when an order fails (`CertificateService.java:231`).

Console.
- A page opened and left while its first import or its data is awaited is rendered over
  the newer one. A late list fills the rows again after its cleanup; a list that fails leaves
  the older host's.
- Opening the app with a hash and no saved host leaves "No host selected" on a page with a
  host selected (`app.js:119-134`); a failed dashboard load says the same.
- The logs view's interval is not stopped by the router (`containers.js:1233`).
- (x) `container-health.js:137` leaks an interval in the same way.

## 6. Not modelled

- The text of logs, its order in the row (`PES` 703), notifications, environment
  variables: no property is about them. Parsing of step configurations, the generated
  text of nginx files, e-mail and templates are wording.
- Edits of a pipeline that is being executed: `PipelineService.java:181` deletes the rows
  that stage executions refer to. What the engine does then depends on what the JPA provider makes
  of a row that is gone, and no document says what should happen. `deleteStage` of the
  editor leaves its id in other stages' `dependsOn`, one of the dangling ids of the engine's graphs.
- `duplicatePipeline`, `togglePipeline`, webhook secrets.
- In `Deployments`: the status of job rows and `cancelJob`; deletion of a repository, which
  removes the directory outside any transaction, under a build perhaps; pushes that rewrite
  history (they end like a changed branch); switching polling off, its interval; log streams.
- In `Ingress` and `Certificates`: path prefixes, forced redirects, `autoRenew`, uploaded and
  external sources apart, the challenge's token, containers that are created anew, a restart of
  the JVM inside an operation of `IngressService`, the page and its polling
  (`ingress.js:1587-1641`).
- In `Console`: charts, dialogs, the create form's fields, the other pages, which load in the
  manner of the containers page.
- In `Sessions`: deletion of users, signatures, audit.
- Operations, compose deployments and rollback (`OperationTrackingService`,
  `RollbackService`, `HistoryCleanupService`): rows that record what was tried. Reading shows
  that a direct compose deployment is never completed and stays DEPLOYING; that a rollback
  which fails half way (`RollbackService.java:112`) commits the new row as DEPLOYING and the
  previous one as STOPPED, or leaves the operation RUNNING; that an operation that succeeded is
  rewritten as FAILED when storing its compose deployment fails; and that a created container
  has no snapshot before it, so it can never be rolled back. No document says what state such a
  failure has to leave, so a model would only repeat the code.
- Step executors and Docker access: processes and a client library; the models take their
  answers as input. Container drift, diffs and image policies: sequential comparisons that
  run alone. Users, permissions, notifications, templates, audit, encryption, other
  controllers: single transactions and delegation.

## 7. Plan

Done: 1 `StageGraph` and `PipelineEngine` with proofs; 2 `PipelineExecution`; 3
`PipelineStage`; 4 `PipelineDefinition`; 5 `ContainerHealthMonitor`; 6 `RefreshTokens`,
`TokenFamilies` and `Sessions`; 7 `Console`; 8 `Ingress` and `Certificates`; 9 `Deployments`; 10 the
proofs of 2, 3 and 5 to 9.

Open, most important first: the status of job rows and `cancelJob` in `Deployments`, and the
deletion of a repository; executions that hold the rows of an edited pipeline; operations and
rollback, once it is stated what they promise.

## 8. Running

    tlc -config PipelineEngineTwo.cfg MCPipelineEngine
    tlc -config PipelineEngineStop.cfg MCPipelineEngine
    tlc -config PipelineExecution.cfg MCPipelineExecution
    tlc -config PipelineExecutionCancel.cfg MCPipelineExecution
    tlc -config PipelineStage.cfg PipelineStage
    tlc -config PipelineDefinition.cfg PipelineDefinition
    tlc -config Deployments.cfg MCDeployments
    tlc -config ContainerHealthMonitor.cfg MCContainerHealthMonitor
    tlc -config ContainerHealthStable.cfg MCContainerHealthMonitor
    tlc -config Sessions.cfg MCSessions
    tlc -config Certificates.cfg MCCertificates
    tlc -config Console.cfg MCConsole
    for m in PipelineEngine PipelineStage PipelineExecution ContainerHealthMonitor \
             Sessions Certificates Deployments Console; do tlapm ${m}Proofs.tla; done

`Stop`, `Cancel`, `Definition` and `Stable` end with the counterexamples of section 5.
`PipelineEngineThree.cfg` (with `MCPipelineEngine`) and `CertificatesTwo.cfg` (with
`MCCertificates`) are larger instances beside the runs.

The operators named `<Action>_<Word>` and commented "A mutant" are not part of the
specifications: each is a plausible mistake in the action it is named after, and
replacing the action by it breaks the property that guards it. `PROJECT.json` lists the
pairs, the source lines of every definition, and the hazards with their properties.
