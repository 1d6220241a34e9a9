----------------------------- MODULE Deployments -----------------------------
(***************************************************************************)
(* One Git repository that is polled and built: PollingService, the        *)
(* requests of GitController, BuildService.executeDeployment in the        *)
(* deployment pool, and the drift check.                                   *)
(*                                                                         *)
(* Every transaction needs the only connection.  A build is one            *)
(* transaction from its first query to its end, whatever it fetches and    *)
(* builds between, so its rows appear at the end and everything else that  *)
(* wants the database waits, or gives up after 30 seconds.  Its effects on *)
(* the working directory and on Docker appear at once.                     *)
(***************************************************************************)
EXTENDS Naturals, Sequences, FiniteSets

CONSTANTS Sources,      \* values of repositoryUrl and branch
          Registered,   \* the one that the repository is created with
          Pollers,      \* who calls checkAndDeploy: the scheduler, requests
          Jobs,         \* as many as the pool's threads and queue can hold
          CorePoolSize, MaxPoolSize, QueueCapacity,
          MaxPushes,    \* bound: pushes, per source
          MaxEdits,     \* bound: whole-row saves by requests
          MaxFaults,    \* bound: failures, timeouts, restarts
          Merge,        \* a commit that only a pull into a foreign clone makes
          None

ASSUME PoolAssumption ==
  /\ CorePoolSize \in Nat \ {0} /\ QueueCapacity \in Nat \ {0}
  /\ MaxPoolSize \in Nat /\ MaxPoolSize >= CorePoolSize
  /\ IsFiniteSet(Jobs) /\ Cardinality(Jobs) = MaxPoolSize + QueueCapacity
ASSUME BoundsAssumption ==
  /\ MaxPushes \in [Sources -> Nat] /\ MaxEdits \in Nat /\ MaxFaults \in Nat
ASSUME ValuesAssumption ==
  /\ Registered \in Sources
  /\ Merge \notin Sources \X Nat /\ None \notin (Sources \X Nat) \cup {Merge}

\* The n-th commit of a source.
Commits == Sources \X Nat
Built == Commits \cup {Merge}

\* A job that has its transaction: the row is loaded; HEAD is read; the image is
\* built or the stack is up; the catch block is next.
AtWork == {"begun", "ready", "built", "failed"}
Idle == [phase |-> "free", commit |-> None]
Failing == [phase |-> "failed", commit |-> None]
Resting == [at |-> "idle", seen |-> None]

VARIABLES
  head,        \* external: how many commits each source has after its first
  row,         \* GitRepository: its source, lastCommitSha, drift check's result
  clone,       \* the working directory: its state, its source, and HEAD
  deployed,    \* external: the commit of the image or stack that Docker has
  job,         \* the pool's jobs: where each is, and the commit it has read
  queue,       \* the pool's waiting jobs
  poll,        \* checkAndDeploy: where each poller is, and the row it has loaded
  edit,        \* the row that a request has loaded and will save, or None
  edits, faults

vars == <<head, row, clone, deployed, job, queue, poll, edit, edits, faults>>
external == <<head, deployed>>
pool == <<job, queue>>
requests == <<poll, edit, edits>>

Rows == [source : Sources, commit : Built \cup {None},
         drift : {"UNKNOWN", "SYNCED", "BEHIND", "ERROR"},
         remote : Commits \cup {None}]
Seen == [source : Sources, commit : Built \cup {None}]

DeploymentsTypeOK ==
  /\ head \in [Sources -> Nat] /\ \A s \in Sources : head[s] <= MaxPushes[s]
  /\ row \in Rows
  /\ clone \in [state : {"none", "whole", "merged", "cut"}, source : Sources,
                at : Built \cup {None}]
  /\ deployed \in Built \cup {None}
  /\ job \in [Jobs -> [phase : AtWork \cup {"free", "queued", "waiting"},
                       commit : Built \cup {None}]]
  /\ queue \in Seq(Jobs)
  /\ poll \in [Pollers -> [at : {"idle", "asking", "creating"}, seen : Seen \cup {None}]]
  /\ edit \in Rows \cup {None}
  /\ edits \in 0 .. MaxEdits /\ faults \in 0 .. MaxFaults

Init ==
  /\ head = [s \in Sources |-> 0]
  /\ row = [source |-> Registered, commit |-> None, drift |-> "UNKNOWN", remote |-> None]
  /\ clone = [state |-> "none", source |-> Registered, at |-> None]
  /\ deployed = None
  /\ job = [j \in Jobs |-> Idle] /\ queue = <<>>
  /\ poll = [p \in Pollers |-> Resting]
  /\ edit = None
  /\ edits = 0 /\ faults = 0

HeadOf(s) == <<s, head[s]>>
Latest == HeadOf(row.source)

\* No build has the connection.  What else uses it gives it back at once.
ConnectionIsFree == \A j \in Jobs : job[j].phase \notin AtWork

\* Bounded: anything may fail, but not for ever.
Fault == faults < MaxFaults /\ faults' = faults + 1

-----------------------------------------------------------------------------
(* The pool.                                                               *)

Threads == {j \in Jobs : job[j].phase \in AtWork \cup {"waiting"}}
Free == {j \in Jobs : job[j].phase = "free"}
GetsThread ==
  \/ Cardinality(Threads) < CorePoolSize
  \/ Len(queue) >= QueueCapacity /\ Cardinality(Threads) < MaxPoolSize

\* A new row, committed, and its hand-over.  The pool rejects it when it is full:
\* the row stays PENDING, and nobody looks at it again.
NewJob ==
  IF Free = {}
  THEN UNCHANGED pool
  ELSE LET j == CHOOSE f \in Free : TRUE
       IN IF GetsThread
          THEN job' = [job EXCEPT ![j].phase = "waiting"] /\ UNCHANGED queue
          ELSE /\ job' = [job EXCEPT ![j].phase = "queued"]
               /\ queue' = Append(queue, j)

\* The thread of j takes the next job.
Leaves(j) ==
  IF queue = <<>>
  THEN job' = [job EXCEPT ![j] = Idle] /\ UNCHANGED queue
  ELSE /\ job' = [job EXCEPT ![j] = Idle, ![Head(queue)].phase = "waiting"]
       /\ queue' = Tail(queue)

-----------------------------------------------------------------------------
(* executeDeployment.                                                      *)

\* A mutant: without @Transactional, builds get in each other's way.
Begin_NoTransaction(j) ==
  /\ job[j].phase = "waiting"
  /\ job' = [job EXCEPT ![j].phase = "begun"]
  /\ UNCHANGED <<external, row, clone, queue, requests, faults>>

\* The transaction is opened and the row loaded.
Begin(j) ==
  /\ job[j].phase = "waiting" /\ ConnectionIsFree
  /\ job' = [job EXCEPT ![j].phase = "begun"]
  /\ UNCHANGED <<external, row, clone, queue, requests, faults>>

\* No connection for 30 seconds: the exception comes before the try block, and
\* the row stays PENDING.
GivesUp(j) ==
  /\ job[j].phase = "waiting" /\ Fault
  /\ Leaves(j)
  /\ UNCHANGED <<external, row, clone, requests>>

\* cloneOrPullRepository.  A directory with a .git is pulled, whatever it is a
\* clone of.
Whole(s, c) == [state |-> "whole", source |-> s, at |-> c]
Foreign == clone.state = "merged" \/ (clone.state = "whole" /\ clone.source # row.source)

\* With another source than the row's, the pull asks the old URL, or brings the
\* new branch into the old one: as a merge, by moving forward, or not at all.
\* Such a clone never is what it was again.
Pulled ==
  IF clone.state = "cut" THEN {}
  ELSE IF ~Foreign THEN {Whole(row.source, Latest)}
  ELSE {clone} \cup {[clone EXCEPT !.state = "merged", !.at = c] : c \in {Latest, Merge}}
       \cup (IF clone.state = "whole"
             THEN {Whole(clone.source, HeadOf(clone.source))} ELSE {})

Checkout(j) ==
  /\ job[j].phase = "begun"
  /\ clone' \in Pulled
  /\ job' = [job EXCEPT ![j] = [phase |-> "ready", commit |-> clone'.at]]
  /\ UNCHANGED <<external, row, queue, requests, faults>>

CheckoutRefused(j) ==
  /\ job[j].phase = "begun"
  /\ clone.state = "cut" \/ Foreign
  /\ job' = [job EXCEPT ![j] = Failing]
  /\ UNCHANGED <<external, row, clone, queue, requests, faults>>

CheckoutFails(j) ==
  /\ job[j].phase = "begun" /\ Fault
  /\ job' = [job EXCEPT ![j] = Failing]
  /\ UNCHANGED <<external, row, clone, queue, requests>>

Build(j) ==
  /\ job[j].phase = "ready"
  /\ deployed' = job[j].commit
  /\ job' = [job EXCEPT ![j].phase = "built"]
  /\ UNCHANGED <<head, row, clone, queue, requests, faults>>

\* A stack of which a part is up when compose fails counts as deployed.
BuildFails(j) ==
  /\ job[j].phase = "ready" /\ Fault
  /\ deployed' \in {deployed, job[j].commit}
  /\ job' = [job EXCEPT ![j] = Failing]
  /\ UNCHANGED <<head, row, clone, queue, requests>>

Succeed(j) ==
  /\ job[j].phase = "built"
  /\ row' = [row EXCEPT !.commit = job[j].commit]
  /\ Leaves(j)
  /\ UNCHANGED <<external, clone, requests, faults>>

\* FAILED is committed.
Fail(j) ==
  /\ job[j].phase = "failed"
  /\ Leaves(j)
  /\ UNCHANGED <<external, row, clone, requests, faults>>

\* An emitter that is completed but still registered throws out of the finally
\* block, or the commit fails: no row has changed, Docker's side has.
RolledBack(j) ==
  /\ job[j].phase \in AtWork /\ Fault
  /\ Leaves(j)
  /\ UNCHANGED <<external, row, clone, requests>>

-----------------------------------------------------------------------------
(* checkAndDeploy.                                                         *)

\* A mutant: compared with what the drift check saw last.
StartPoll_LatestRemote(p) ==
  /\ poll[p].at = "idle" /\ ConnectionIsFree
  /\ poll' = [poll EXCEPT ![p] = [at |-> "asking",
                                 seen |-> [source |-> row.source, commit |-> row.remote]]]
  /\ UNCHANGED <<external, row, clone, pool, edit, edits, faults>>

\* The row is loaded, in a transaction of its own.
StartPoll(p) ==
  /\ poll[p].at = "idle" /\ ConnectionIsFree
  /\ poll' = [poll EXCEPT ![p] = [at |-> "asking",
                                 seen |-> [source |-> row.source, commit |-> row.commit]]]
  /\ UNCHANGED <<external, row, clone, pool, edit, edits, faults>>

\* The remote's head now, against the row as it was.
AskRemote(p) ==
  /\ poll[p].at = "asking"
  /\ poll' = [poll EXCEPT ![p] = IF poll[p].seen.commit = HeadOf(poll[p].seen.source)
                                 THEN Resting ELSE [at |-> "creating", seen |-> None]]
  /\ UNCHANGED <<external, row, clone, pool, edit, edits, faults>>

CreateJob(p) ==
  /\ poll[p].at = "creating" /\ ConnectionIsFree
  /\ poll' = [poll EXCEPT ![p] = Resting]
  /\ NewJob
  /\ UNCHANGED <<external, row, clone, edit, edits, faults>>

\* The remote does not answer, or no connection comes: logged, and that is all.
PollFails(p) ==
  /\ poll[p].at # "idle" /\ Fault
  /\ poll' = [poll EXCEPT ![p] = Resting]
  /\ UNCHANGED <<external, row, clone, pool, edit, edits>>

-----------------------------------------------------------------------------
(* Requests, the drift check, and the world.                               *)

\* A webhook and the deploy button ask nothing.
Trigger ==
  /\ ConnectionIsFree
  /\ NewJob
  /\ UNCHANGED <<external, row, clone, requests, faults>>

\* updateRepository, regenerateWebhook: one transaction loads the row ...
LoadRow ==
  /\ edit = None /\ edits < MaxEdits /\ ConnectionIsFree
  /\ edit' = row /\ edits' = edits + 1
  /\ UNCHANGED <<external, row, clone, pool, poll, faults>>

\* ... and another writes all of it back.
SaveRow ==
  /\ edit # None /\ ConnectionIsFree
  /\ \E s \in Sources : row' = [edit EXCEPT !.source = s]
  /\ edit' = None
  /\ UNCHANGED <<external, clone, pool, poll, edits, faults>>

SaveFails ==
  /\ edit # None /\ Fault
  /\ edit' = None
  /\ UNCHANGED <<external, row, clone, pool, poll, edits>>

\* A mutant: nothing new since the last check.
Compared_Remote(answer) == IF answer = row.remote THEN "SYNCED" ELSE "BEHIND"

Compared(answer) == IF answer = row.commit THEN "SYNCED" ELSE "BEHIND"

\* checkGitDrift is one transaction, the question to the remote included.
CheckDrift ==
  /\ ConnectionIsFree
  /\ row' = [row EXCEPT !.remote = Latest, !.drift = Compared(Latest)]
  /\ UNCHANGED <<external, clone, pool, requests, faults>>

\* The remote does not answer, or has no such branch.
DriftUnknown ==
  /\ ConnectionIsFree /\ Fault
  /\ \E seen \in {row.remote, None} : row' = [row EXCEPT !.remote = seen, !.drift = "ERROR"]
  /\ UNCHANGED <<external, clone, pool, requests>>

Push(s) ==
  /\ head[s] < MaxPushes[s]
  /\ head' = [head EXCEPT ![s] = @ + 1]
  /\ UNCHANGED <<row, clone, deployed, pool, requests, faults>>

\* Threads and queue are lost, the transaction is rolled back.  A clone or pull
\* that is cut off may leave a directory that git refuses from then on.
Restart ==
  /\ Fault
  /\ job' = [j \in Jobs |-> Idle] /\ queue' = <<>>
  /\ poll' = [p \in Pollers |-> Resting]
  /\ edit' = None
  /\ clone' \in {clone} \cup
       (IF \E j \in Jobs : job[j].phase = "begun"
        THEN {[clone EXCEPT !.state = "cut"]} ELSE {})
  /\ UNCHANGED <<external, row, edits>>

-----------------------------------------------------------------------------
Works(j) ==
  \/ Checkout(j) \/ CheckoutRefused(j) \/ CheckoutFails(j)
  \/ Build(j) \/ BuildFails(j)
  \/ Succeed(j) \/ Fail(j) \/ RolledBack(j)

Polls(p) == StartPoll(p) \/ AskRemote(p) \/ CreateJob(p) \/ PollFails(p)

Next ==
  \/ \E j \in Jobs : Begin(j) \/ GivesUp(j) \/ Works(j)
  \/ \E p \in Pollers : Polls(p)
  \/ Trigger \/ LoadRow \/ SaveRow \/ SaveFails
  \/ CheckDrift \/ DriftUnknown
  \/ \E s \in Sources : Push(s)
  \/ Restart

Spec == Init /\ [][Next]_vars

\* The pool for connections serves its waiters in turn: who asks again and again,
\* or goes on waiting, gets the connection some time.
FairSpec ==
  /\ Spec
  /\ SF_vars(\E j \in Jobs : Begin(j)) /\ WF_vars(\E j \in Jobs : Works(j))
  /\ \A p \in Pollers : SF_vars(StartPoll(p)) /\ WF_vars(AskRemote(p)) /\ SF_vars(CreateJob(p))

-----------------------------------------------------------------------------
(* Properties.                                                             *)

\* The working directory is a clone of what the row says.
Follows == clone.state = "whole" /\ clone.source = row.source

\* If the row says that the latest commit is the last one deployed, so that polls
\* leave it alone, then it is what Docker has: over overlapping polls, builds,
\* whole-row saves and builds of which no row tells.
UpToDateIsDeployed == Follows /\ row.commit = Latest => deployed = Latest

\* The page's SYNCED is never wrong about a remote that has not moved since.
SyncedIsDeployed ==
  Follows /\ row.drift = "SYNCED" /\ row.remote = Latest => deployed = Latest

\* When the pushes, edits and faults have ended, polling gets the latest commit
\* deployed and stored for good, unless the working directory cannot follow.
CatchesUp ==
  <>[](Follows \/ clone.state = "none" => row.commit = Latest /\ deployed = Latest)
=============================================================================
