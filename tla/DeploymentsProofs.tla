-------------------------- MODULE DeploymentsProofs --------------------------
(* Theorems about Deployments, for any number of sources, jobs, pollers,   *)
(* pushes, edits and faults.                                               *)
EXTENDS Deployments, TLAPS

\* The connection is a lock: one job at most is in the working directory.
OneBuildAtATime ==
  \A j, k \in Jobs : job[j].phase \in AtWork /\ job[k].phase \in AtWork => j = k

\* The commits of the line that the clone was made from.
Own == {clone.source} \X Nat

\* A commit that a row tells of is not ahead of what Docker has.
Covered(c) == c # None => c \in Own /\ deployed \in Own /\ c[2] <= deployed[2]
Tells(r) == Covered(r.commit) /\ (r.drift = "SYNCED" => Covered(r.remote))
TellsNothing(r) == r.commit = None /\ r.drift # "SYNCED"

\* HEAD of a clone that follows its line goes forward, and Docker after it.
LineInv ==
  clone.state = "whole" =>
    /\ clone.at \in Own /\ clone.at[2] <= head[clone.source]
    /\ deployed # None => deployed \in Own /\ deployed[2] <= clone.at[2]
    /\ Tells(row) /\ (edit # None => Tells(edit))

\* Before the first clone nothing is deployed.
NothingYet ==
  clone.state = "none" =>
    /\ deployed = None
    /\ TellsNothing(row) /\ (edit # None => TellsNothing(edit))

\* What a job has read is still what is checked out.
JobInv ==
  \A j \in Jobs :
    /\ job[j].phase \in {"ready", "built"} => clone.state # "none" /\ job[j].commit = clone.at
    /\ job[j].phase = "built" => deployed = job[j].commit

IInv == DeploymentsTypeOK /\ OneBuildAtATime /\ LineInv /\ NothingYet /\ JobInv

-----------------------------------------------------------------------------
(* The pool.                                                               *)

Job == [phase : AtWork \cup {"free", "queued", "waiting"}, commit : Built \cup {None}]

\* Whoever has a transaction afterwards had it before, and nothing of it changed.
JobsKept == \A k \in Jobs : job'[k].phase \in AtWork => job'[k] = job[k]

LEMMA IdleJobs == Idle \in Job /\ Failing \in Job /\ Idle.phase \notin AtWork
  BY DEF Idle, Failing, Job, AtWork

\* The hand-over of the thread of a job to the next one.
LEMMA LeavesPool ==
  ASSUME DeploymentsTypeOK, NEW j \in Jobs, Leaves(j)
  PROVE  /\ job' \in [Jobs -> Job] /\ queue' \in Seq(Jobs)
         /\ JobsKept /\ job'[j].phase \notin AtWork
<1>1. job \in [Jobs -> Job] /\ queue \in Seq(Jobs)
  BY DEF DeploymentsTypeOK, Job
<1>2. CASE queue = <<>>
  <2>1. job' = [job EXCEPT ![j] = Idle] /\ queue' = queue
    BY <1>2 DEF Leaves
  <2> QED BY <1>1, <2>1, IdleJobs DEF JobsKept
<1>3. CASE queue # <<>>
  <2>1. Head(queue) \in Jobs /\ Tail(queue) \in Seq(Jobs)
    BY <1>1, <1>3
  <2>2. job' = [job EXCEPT ![j] = Idle, ![Head(queue)].phase = "waiting"]
        /\ queue' = Tail(queue)
    BY <1>3 DEF Leaves
  <2> DEFINE h == Head(queue)
             freed == [job EXCEPT ![j] = Idle]
  <2>3. freed \in [Jobs -> Job]
    BY <1>1, IdleJobs
  <2>4. job' = [freed EXCEPT ![h] = [freed[h] EXCEPT !.phase = "waiting"]]
    BY <2>2
  <2>5. /\ [freed[h] EXCEPT !.phase = "waiting"] \in Job
        /\ [freed[h] EXCEPT !.phase = "waiting"].phase \notin AtWork
    BY <2>1, <2>3 DEF Job, AtWork
  <2> HIDE DEF h
  <2>6. job' \in [Jobs -> Job]
    BY <2>3, <2>4, <2>5
  <2>7. ASSUME NEW k \in Jobs, job'[k].phase \in AtWork
        PROVE  k # h /\ k # j /\ job'[k] = job[k]
    <3>1. k # h
      BY <2>1, <2>3, <2>4, <2>5, <2>7 DEF h
    <3>2. job'[k] = freed[k]
      BY <2>3, <2>4, <3>1
    <3>3. k # j
      BY <1>1, <2>7, <3>2, IdleJobs
    <3> QED BY <1>1, <3>1, <3>2, <3>3
  <2> QED BY <2>1, <2>2, <2>6, <2>7 DEF JobsKept
<1> QED BY <1>2, <1>3

\* The hand-over of a new job, or its rejection.
LEMMA NewJobPool ==
  ASSUME DeploymentsTypeOK, NewJob
  PROVE  job' \in [Jobs -> Job] /\ queue' \in Seq(Jobs) /\ JobsKept
<1>1. job \in [Jobs -> Job] /\ queue \in Seq(Jobs)
  BY DEF DeploymentsTypeOK, Job
<1>2. CASE Free = {}
  BY <1>1, <1>2 DEF NewJob, pool, JobsKept
<1>3. CASE Free # {}
  <2> DEFINE j == CHOOSE f \in Free : TRUE
  <2>1. j \in Jobs
    BY <1>3 DEF Free
  <2>2. PICK p \in {"waiting", "queued"} :
          /\ job' = [job EXCEPT ![j].phase = p]
          /\ queue' \in {queue, Append(queue, j)}
    BY <1>3 DEF NewJob
  <2> HIDE DEF j
  <2>3. [job[j] EXCEPT !.phase = p] \in Job /\ [job[j] EXCEPT !.phase = p].phase \notin AtWork
    BY <1>1, <2>1 DEF Job, AtWork
  <2>4. job' = [job EXCEPT ![j] = [job[j] EXCEPT !.phase = p]]
    BY <2>2
  <2>5. job' \in [Jobs -> Job] /\ JobsKept
    BY <1>1, <2>1, <2>3, <2>4 DEF JobsKept
  <2>6. queue' \in Seq(Jobs)
    BY <1>1, <2>1, <2>2
  <2> QED BY <2>5, <2>6
<1> QED BY <1>2, <1>3

-----------------------------------------------------------------------------
(* Steps that change no row, clone or deployment.                          *)

\* They only have to keep what jobs at work have read.
LEMMA QuietKeeps ==
  ASSUME IInv, DeploymentsTypeOK', JobsKept,
         UNCHANGED <<head, row, clone, deployed>>, edit' \in {edit, None}
  PROVE  IInv'
<1> USE DEF IInv
<1>1. OneBuildAtATime'
  BY DEF OneBuildAtATime, JobsKept
<1>2. LineInv'
  BY DEF LineInv, Tells, Covered, Own
<1>3. NothingYet'
  BY DEF NothingYet, TellsNothing
<1>4. JobInv'
  BY DEF JobInv, JobsKept, AtWork
<1> QED BY <1>1, <1>2, <1>3, <1>4

LEMMA Values ==
  ASSUME DeploymentsTypeOK
  PROVE  /\ None \notin Built /\ Merge \notin Commits
         /\ \A s \in Sources : HeadOf(s) \in Commits /\ HeadOf(s)[2] = head[s]
         /\ Latest \in Commits
  BY ValuesAssumption DEF DeploymentsTypeOK, Built, Commits, HeadOf, Latest, Rows

\* A fault, or none.
LEMMA FaultType ==
  ASSUME DeploymentsTypeOK, UNCHANGED faults \/ Fault
  PROVE  faults' \in 0 .. MaxFaults
  BY BoundsAssumption DEF DeploymentsTypeOK, Fault

LEMMA BeginKeeps ==
  ASSUME IInv, NEW j \in Jobs, Begin(j)
  PROVE  IInv'
<1> USE DEF IInv, Begin, external, requests
<1>1. job \in [Jobs -> Job]
  BY DEF DeploymentsTypeOK, Job
<1> DEFINE begun == [job[j] EXCEPT !.phase = "begun"]
<1>2. begun \in Job /\ begun.phase = "begun"
  BY <1>1 DEF Job, AtWork
<1>3. job' = [job EXCEPT ![j] = begun]
  OBVIOUS
<1> HIDE DEF begun
<1>4. \A k \in Jobs : job'[k] = IF k = j THEN begun ELSE job[k]
  BY <1>1, <1>3
<1>5. DeploymentsTypeOK'
  BY <1>1, <1>2, <1>3 DEF DeploymentsTypeOK, Job
<1>6. OneBuildAtATime'
  BY <1>4 DEF OneBuildAtATime, ConnectionIsFree
<1>7. LineInv' /\ NothingYet'
  BY DEF LineInv, NothingYet, Tells, TellsNothing, Covered, Own
<1>8. JobInv'
  BY <1>2, <1>4 DEF JobInv
<1> QED BY <1>5, <1>6, <1>7, <1>8

LEMMA GivesUpKeeps ==
  ASSUME IInv, NEW j \in Jobs, GivesUp(j)
  PROVE  IInv'
<1> USE DEF IInv, GivesUp, external, requests
<1>1. job' \in [Jobs -> Job] /\ queue' \in Seq(Jobs) /\ JobsKept
  BY LeavesPool
<1>2. DeploymentsTypeOK'
  BY <1>1, FaultType DEF DeploymentsTypeOK, Job
<1> QED BY <1>1, <1>2, QuietKeeps

-----------------------------------------------------------------------------
(* The job that is at work.                                                *)

\* What it does to its own record leaves the others out of work.
LEMMA OnlyOneWorks ==
  ASSUME IInv, NEW j \in Jobs, job[j].phase \in AtWork, NEW new \in Job,
         job' = [job EXCEPT ![j] = new]
  PROVE  /\ job' \in [Jobs -> Job] /\ OneBuildAtATime'
         /\ job'[j] = new
         /\ \A k \in Jobs : k # j => job'[k] = job[k] /\ job'[k].phase \notin AtWork
<1> USE DEF IInv
<1>1. job \in [Jobs -> Job]
  BY DEF DeploymentsTypeOK, Job
<1>2. \A k \in Jobs : k # j => job[k].phase \notin AtWork
  BY DEF OneBuildAtATime
<1> QED BY <1>1, <1>2 DEF OneBuildAtATime

\* What a checkout can leave.
LEMMA PulledClones ==
  ASSUME IInv, clone' \in Pulled
  PROVE  /\ clone.state # "cut" /\ clone'.state \in {"whole", "merged"}
         /\ clone' \in [state : {"none", "whole", "merged", "cut"}, source : Sources,
                        at : Built \cup {None}]
         /\ clone'.state = "whole" =>
              \/ clone.state = "none" /\ clone'.at = HeadOf(clone'.source)
              \/ /\ clone.state = "whole" /\ clone'.source = clone.source
                 /\ clone'.at \in {clone.at, HeadOf(clone.source)}
<1> USE DEF IInv
<1>1. clone \in [state : {"none", "whole", "merged", "cut"}, source : Sources,
                 at : Built \cup {None}]
      /\ row.source \in Sources
  BY DEF DeploymentsTypeOK, Rows
<1>2. /\ Latest \in Built /\ Merge \in Built /\ HeadOf(clone.source) \in Built
      /\ Latest = HeadOf(row.source)
  BY <1>1, Values DEF Built, Latest
<1>3. clone.state # "cut"
  BY DEF Pulled
<1>4. CASE ~Foreign
  <2>1. clone' = [state |-> "whole", source |-> row.source, at |-> Latest]
    BY <1>3, <1>4 DEF Pulled, Whole
  <2>2. clone.state = "none" \/ (clone.state = "whole" /\ clone.source = row.source)
    BY <1>1, <1>3, <1>4 DEF Foreign
  <2> QED BY <1>1, <1>2, <1>3, <2>1, <2>2
<1>5. CASE Foreign
  <2>1. clone.state \in {"whole", "merged"}
    BY <1>5 DEF Foreign
  <2>2. CASE clone' = clone
    BY <1>1, <1>3, <2>1, <2>2
  <2>3. ASSUME NEW c \in {Latest, Merge}, clone' = [clone EXCEPT !.state = "merged", !.at = c]
        PROVE  clone' \in [state : {"none", "whole", "merged", "cut"}, source : Sources,
                           at : Built \cup {None}] /\ clone'.state = "merged"
    BY <1>1, <1>2, <2>3
  <2>4. ASSUME clone.state = "whole",
               clone' = [state |-> "whole", source |-> clone.source, at |-> HeadOf(clone.source)]
        PROVE  clone' \in [state : {"none", "whole", "merged", "cut"}, source : Sources,
                           at : Built \cup {None}]
               /\ clone'.state = "whole" /\ clone'.source = clone.source
               /\ clone'.at = HeadOf(clone.source)
    BY <1>1, <1>2, <2>4
  <2>5. \/ clone' = clone
        \/ \E c \in {Latest, Merge} : clone' = [clone EXCEPT !.state = "merged", !.at = c]
        \/ clone.state = "whole" /\ clone' = Whole(clone.source, HeadOf(clone.source))
    BY <1>3, <1>5 DEF Pulled
  <2> QED BY <1>3, <2>2, <2>3, <2>4, <2>5 DEF Whole
<1> QED BY <1>4, <1>5

LEMMA CheckoutKeeps ==
  ASSUME IInv, NEW j \in Jobs, Checkout(j)
  PROVE  IInv'
<1> USE DEF IInv, Checkout, external, requests
<1> DEFINE new == [phase |-> "ready", commit |-> clone'.at]
<1>1. /\ clone.state # "cut" /\ clone'.state \in {"whole", "merged"}
      /\ clone' \in [state : {"none", "whole", "merged", "cut"}, source : Sources,
                     at : Built \cup {None}]
      /\ clone'.state = "whole" =>
           \/ clone.state = "none" /\ clone'.at = HeadOf(clone'.source)
           \/ /\ clone.state = "whole" /\ clone'.source = clone.source
              /\ clone'.at \in {clone.at, HeadOf(clone.source)}
  BY PulledClones
<1>2. job[j].phase \in AtWork /\ new \in Job
  BY <1>1 DEF AtWork, Job
<1>3. /\ job' \in [Jobs -> Job] /\ OneBuildAtATime'
      /\ job'[j] = new
      /\ \A k \in Jobs : k # j => job'[k] = job[k] /\ job'[k].phase \notin AtWork
  BY <1>2, OnlyOneWorks
<1>4. DeploymentsTypeOK'
  BY <1>1, <1>3 DEF DeploymentsTypeOK, Job
<1>5. LineInv'
  <2> SUFFICES ASSUME clone'.state = "whole" PROVE LineInv'
    BY DEF LineInv
  <2>1. clone'.source \in Sources /\ head \in [Sources -> Nat]
    BY <1>1 DEF DeploymentsTypeOK
  <2>2. HeadOf(clone'.source) = <<clone'.source, head[clone'.source]>>
        /\ head[clone'.source] \in Nat
    BY <2>1 DEF HeadOf
  <2>3. CASE clone.state = "none"
    <3>1. clone'.at = <<clone'.source, head[clone'.source]>>
      BY <1>1, <2>2, <2>3
    <3> QED BY <2>2, <2>3, <3>1 DEF LineInv, NothingYet, Tells, TellsNothing, Covered, Own
  <2>4. CASE clone.state = "whole"
    <3>1. /\ clone'.source = clone.source
          /\ clone'.at \in {clone.at, <<clone'.source, head[clone'.source]>>}
      BY <1>1, <2>2, <2>4
    <3>2. clone'.at \in Own /\ clone.at[2] <= clone'.at[2] /\ clone'.at[2] <= head[clone.source]
      BY <2>2, <2>4, <3>1 DEF LineInv, Own
    <3>3. deployed # None => deployed \in Own /\ deployed[2] <= clone'.at[2]
      BY <2>4, <3>2 DEF LineInv, Own
    <3> QED BY <2>4, <3>1, <3>2, <3>3 DEF LineInv, Tells, Covered, Own
  <2> QED BY <1>1, <2>3, <2>4
<1>6. NothingYet'
  BY <1>1 DEF NothingYet
<1>7. JobInv'
  BY <1>1, <1>3 DEF JobInv, AtWork
<1> QED BY <1>3, <1>4, <1>5, <1>6, <1>7

LEMMA CheckoutEndsKeeps ==
  ASSUME IInv, NEW j \in Jobs, CheckoutRefused(j) \/ CheckoutFails(j)
  PROVE  IInv'
<1> USE DEF IInv, CheckoutRefused, CheckoutFails, external, requests
<1>1. job[j].phase \in AtWork /\ Failing \in Job /\ job' = [job EXCEPT ![j] = Failing]
  BY IdleJobs DEF AtWork
<1>2. /\ job' \in [Jobs -> Job] /\ OneBuildAtATime' /\ job'[j] = Failing
      /\ \A k \in Jobs : k # j => job'[k] = job[k] /\ job'[k].phase \notin AtWork
  BY <1>1, OnlyOneWorks
<1>3. DeploymentsTypeOK'
  BY <1>2, FaultType DEF DeploymentsTypeOK, Job
<1>4. LineInv' /\ NothingYet'
  BY DEF LineInv, NothingYet, Tells, TellsNothing, Covered, Own
<1>5. JobInv'
  BY <1>2 DEF JobInv, AtWork, Failing
<1> QED BY <1>2, <1>3, <1>4, <1>5

\* Docker goes forward on the clone's line, or stays.
LEMMA DeployedCovers ==
  ASSUME IInv, NEW j \in Jobs, job[j].phase = "ready",
         deployed' \in {deployed, job[j].commit}, UNCHANGED <<head, row, clone, edit>>
  PROVE  LineInv' /\ NothingYet' /\ deployed' \in Built \cup {None}
<1> USE DEF IInv
<1>1. job[j].commit = clone.at /\ clone.state # "none"
  BY DEF JobInv
<1>2. LineInv'
  <2> SUFFICES ASSUME clone.state = "whole" PROVE LineInv'
    BY DEF LineInv
  <2>1. deployed' \in {deployed, clone.at} /\ clone.at \in Own /\ (deployed # None => deployed \in Own)
    BY <1>1 DEF LineInv
  <2>2. deployed' # None => deployed' \in Own /\ deployed'[2] <= clone.at[2]
    BY <2>1 DEF LineInv, Own
  <2>3. ASSUME NEW c, Covered(c)
        PROVE  Covered(c)'
    <3> SUFFICES ASSUME c # None PROVE c \in Own /\ deployed' \in Own /\ c[2] <= deployed'[2]
      BY DEF Covered, Own
    <3>1. c \in Own /\ deployed \in Own /\ c[2] <= deployed[2]
      BY <2>3 DEF Covered
    <3>2. deployed[2] <= clone.at[2]
      BY <3>1, Values DEF LineInv, Own, Built, DeploymentsTypeOK, Commits
    <3> QED BY <2>1, <3>1, <3>2 DEF Own
  <2>4. Tells(row) /\ (edit # None => Tells(edit))
    BY DEF LineInv
  <2>5. Tells(row)' /\ (edit # None => Tells(edit))'
    BY <2>3, <2>4 DEF Tells, Covered, Own
  <2> QED BY <2>1, <2>2, <2>5 DEF LineInv, Own
<1>3. NothingYet'
  BY <1>1 DEF NothingYet
<1>4. deployed' \in Built \cup {None}
  BY DEF DeploymentsTypeOK
<1> QED BY <1>2, <1>3, <1>4

LEMMA BuildKeeps ==
  ASSUME IInv, NEW j \in Jobs, Build(j)
  PROVE  IInv'
<1> USE DEF IInv, Build, requests
<1> DEFINE new == [job[j] EXCEPT !.phase = "built"]
<1>1. job[j].phase \in AtWork /\ new \in Job /\ new.phase = "built"
      /\ new.commit = job[j].commit
  BY DEF DeploymentsTypeOK, Job, AtWork
<1>2. /\ job' \in [Jobs -> Job] /\ OneBuildAtATime' /\ job'[j] = new
      /\ \A k \in Jobs : k # j => job'[k] = job[k] /\ job'[k].phase \notin AtWork
  BY <1>1, OnlyOneWorks
<1>3. LineInv' /\ NothingYet' /\ deployed' \in Built \cup {None}
  BY DeployedCovers
<1>4. DeploymentsTypeOK'
  BY <1>2, <1>3 DEF DeploymentsTypeOK, Job
<1>5. JobInv'
  BY <1>1, <1>2 DEF JobInv, AtWork
<1> QED BY <1>2, <1>3, <1>4, <1>5

LEMMA BuildFailsKeeps ==
  ASSUME IInv, NEW j \in Jobs, BuildFails(j)
  PROVE  IInv'
<1> USE DEF IInv, BuildFails, requests
<1>1. job[j].phase \in AtWork /\ Failing \in Job /\ job' = [job EXCEPT ![j] = Failing]
  BY IdleJobs DEF AtWork
<1>2. /\ job' \in [Jobs -> Job] /\ OneBuildAtATime' /\ job'[j] = Failing
      /\ \A k \in Jobs : k # j => job'[k] = job[k] /\ job'[k].phase \notin AtWork
  BY <1>1, OnlyOneWorks
<1>3. LineInv' /\ NothingYet' /\ deployed' \in Built \cup {None}
  BY DeployedCovers
<1>4. DeploymentsTypeOK'
  BY <1>2, <1>3, FaultType DEF DeploymentsTypeOK, Job
<1>5. JobInv'
  BY <1>2 DEF JobInv, AtWork, Failing
<1> QED BY <1>2, <1>3, <1>4, <1>5

\* The row tells of a commit only once Docker has it.
LEMMA SucceedKeeps ==
  ASSUME IInv, NEW j \in Jobs, Succeed(j)
  PROVE  IInv'
<1> USE DEF IInv, Succeed, external, requests
<1>1. job' \in [Jobs -> Job] /\ queue' \in Seq(Jobs) /\ JobsKept
  BY LeavesPool
<1>2. /\ job[j].commit = clone.at /\ clone.state # "none" /\ deployed = clone.at
      /\ job[j].commit \in Built \cup {None}
  BY DEF JobInv, DeploymentsTypeOK
<1>3. /\ row' \in Rows /\ row'.commit = clone.at
      /\ row'.drift = row.drift /\ row'.remote = row.remote /\ row'.source = row.source
  BY <1>2 DEF DeploymentsTypeOK, Rows
<1>4. DeploymentsTypeOK'
  BY <1>1, <1>3 DEF DeploymentsTypeOK, Job
<1>5. OneBuildAtATime'
  BY <1>1 DEF OneBuildAtATime, JobsKept
<1>6. LineInv'
  <2> SUFFICES ASSUME clone.state = "whole" PROVE LineInv'
    BY DEF LineInv
  <2>1. Covered(row'.commit)
    BY <1>2, <1>3, Values DEF LineInv, Covered, Own, Commits, DeploymentsTypeOK
  <2>2. row.drift = "SYNCED" => Covered(row.remote)
    BY DEF LineInv, Tells
  <2> QED BY <1>3, <2>1, <2>2 DEF LineInv, Tells, Covered, Own
<1>7. NothingYet'
  BY <1>2 DEF NothingYet
<1>8. JobInv'
  BY <1>1 DEF JobInv, JobsKept, AtWork
<1> QED BY <1>4, <1>5, <1>6, <1>7, <1>8

LEMMA EndsKeep ==
  ASSUME IInv, NEW j \in Jobs, Fail(j) \/ RolledBack(j)
  PROVE  IInv'
<1> USE DEF IInv, Fail, RolledBack, external, requests
<1>1. job' \in [Jobs -> Job] /\ queue' \in Seq(Jobs) /\ JobsKept
  BY LeavesPool
<1>2. DeploymentsTypeOK'
  BY <1>1, FaultType DEF DeploymentsTypeOK, Job
<1> QED BY <1>1, <1>2, QuietKeeps

-----------------------------------------------------------------------------
(* Polls, requests, the drift check, and the world.                        *)

\* A poll changes no row; a job it creates has no transaction yet.
LEMMA PollsKeep ==
  ASSUME IInv, NEW p \in Pollers, Polls(p)
  PROVE  IInv'
<1> USE DEF IInv, external
<1> DEFINE Place == [at : {"idle", "asking", "creating"}, seen : Seen \cup {None}]
<1>1. poll \in [Pollers -> Place] /\ Resting \in Place
  BY DEF DeploymentsTypeOK, Resting
<1>2. \E at \in Place : poll' = [poll EXCEPT ![p] = at]
  <2>1. CASE StartPoll(p)
    <3>1. [source |-> row.source, commit |-> row.commit] \in Seen
      BY DEF DeploymentsTypeOK, Rows, Seen
    <3> QED BY <2>1, <3>1 DEF StartPoll
  <2>2. CASE AskRemote(p)
    <3>1. [at |-> "creating", seen |-> None] \in Place
      OBVIOUS
    <3> QED BY <1>1, <2>2, <3>1 DEF AskRemote
  <2>3. CASE CreateJob(p) \/ PollFails(p)
    BY <1>1, <2>3 DEF CreateJob, PollFails
  <2> QED BY <2>1, <2>2, <2>3 DEF Polls
<1>3. poll' \in [Pollers -> Place]
  BY <1>1, <1>2
<1>4. job' \in [Jobs -> Job] /\ queue' \in Seq(Jobs) /\ JobsKept
  <2>1. CASE CreateJob(p)
    BY <2>1, NewJobPool DEF CreateJob
  <2>2. CASE ~CreateJob(p)
    BY <2>2 DEF Polls, StartPoll, AskRemote, PollFails, pool, JobsKept, DeploymentsTypeOK, Job
  <2> QED BY <2>1, <2>2
<1>5. /\ UNCHANGED <<head, row, clone, deployed, edit, edits>>
      /\ UNCHANGED faults \/ Fault
  BY DEF Polls, StartPoll, AskRemote, CreateJob, PollFails
<1>6. DeploymentsTypeOK'
  BY <1>3, <1>4, <1>5, FaultType DEF DeploymentsTypeOK, Job
<1> QED BY <1>4, <1>5, <1>6, QuietKeeps

LEMMA TriggerKeeps ==
  ASSUME IInv, Trigger
  PROVE  IInv'
<1> USE DEF IInv, Trigger, external, requests
<1>1. job' \in [Jobs -> Job] /\ queue' \in Seq(Jobs) /\ JobsKept
  BY NewJobPool
<1>2. DeploymentsTypeOK'
  BY <1>1 DEF DeploymentsTypeOK, Job
<1> QED BY <1>1, <1>2, QuietKeeps

\* A request's copy of the row tells what the row tells.
LEMMA LoadRowKeeps ==
  ASSUME IInv, LoadRow
  PROVE  IInv'
<1> USE DEF IInv, LoadRow, external, pool
<1>1. DeploymentsTypeOK'
  BY BoundsAssumption DEF DeploymentsTypeOK
<1>2. OneBuildAtATime' /\ JobInv'
  BY DEF OneBuildAtATime, JobInv
<1>3. LineInv'
  BY DEF LineInv, Tells, Covered, Own
<1>4. NothingYet'
  BY DEF NothingYet, TellsNothing
<1> QED BY <1>1, <1>2, <1>3, <1>4

\* What a request writes back was true when it was read, and Docker has not gone
\* back since.
LEMMA SaveRowKeeps ==
  ASSUME IInv, SaveRow
  PROVE  IInv'
<1> USE DEF IInv, SaveRow, external, pool
<1>1. edit \in Rows
  BY DEF DeploymentsTypeOK
<1>2. /\ row' \in Rows /\ row'.commit = edit.commit
      /\ row'.drift = edit.drift /\ row'.remote = edit.remote
  BY <1>1 DEF Rows
<1>3. DeploymentsTypeOK'
  BY <1>2 DEF DeploymentsTypeOK
<1>4. OneBuildAtATime' /\ JobInv'
  BY DEF OneBuildAtATime, JobInv
<1>5. LineInv'
  BY <1>2 DEF LineInv, Tells, Covered, Own
<1>6. NothingYet'
  BY <1>2 DEF NothingYet, TellsNothing
<1> QED BY <1>3, <1>4, <1>5, <1>6

LEMMA SaveFailsKeeps ==
  ASSUME IInv, SaveFails
  PROVE  IInv'
<1> USE DEF IInv, SaveFails, external, pool
<1>1. DeploymentsTypeOK'
  BY FaultType DEF DeploymentsTypeOK
<1>2. JobsKept
  BY DEF JobsKept
<1> QED BY <1>1, <1>2, QuietKeeps

\* SYNCED says of the remote's commit what the row already says of it.
LEMMA DriftKeeps ==
  ASSUME IInv, CheckDrift \/ DriftUnknown
  PROVE  IInv'
<1> USE DEF IInv, CheckDrift, DriftUnknown, external, pool, requests
<1>1. Latest \in Commits /\ Latest # None /\ row \in Rows
  BY Values DEF DeploymentsTypeOK, Built
<1>2. /\ row' \in Rows /\ row'.commit = row.commit /\ row'.source = row.source
      /\ row'.drift = "SYNCED" => row'.remote = row.commit /\ row.commit # None
  BY <1>1 DEF Rows, Compared
<1>3. DeploymentsTypeOK'
  BY <1>2, FaultType DEF DeploymentsTypeOK
<1>4. OneBuildAtATime' /\ JobInv'
  BY DEF OneBuildAtATime, JobInv
<1>5. LineInv'
  <2> SUFFICES ASSUME clone.state = "whole" PROVE LineInv'
    BY DEF LineInv
  <2>1. Covered(row.commit)
    BY DEF LineInv, Tells
  <2>2. Covered(row'.commit) /\ (row'.drift = "SYNCED" => Covered(row'.remote))
    BY <1>2, <2>1
  <2> QED BY <2>2 DEF LineInv, Tells, Covered, Own
<1>6. NothingYet'
  BY <1>2 DEF NothingYet, TellsNothing
<1> QED BY <1>3, <1>4, <1>5, <1>6

LEMMA PushKeeps ==
  ASSUME IInv, NEW s \in Sources, Push(s)
  PROVE  IInv'
<1> USE DEF IInv, Push, pool, requests
<1>1. /\ head \in [Sources -> Nat] /\ MaxPushes \in [Sources -> Nat]
      /\ head' = [head EXCEPT ![s] = head[s] + 1]
  BY BoundsAssumption DEF DeploymentsTypeOK
<1>2. head' \in [Sources -> Nat] /\ \A t \in Sources : head[t] <= head'[t]
  BY <1>1
<1>3. DeploymentsTypeOK'
  <2>1. \A t \in Sources : head'[t] <= MaxPushes[t]
    BY <1>1 DEF DeploymentsTypeOK
  <2> QED BY <1>2, <2>1 DEF DeploymentsTypeOK
<1>4. OneBuildAtATime' /\ JobInv' /\ NothingYet'
  BY DEF OneBuildAtATime, JobInv, NothingYet, TellsNothing
<1>5. LineInv'
  <2> SUFFICES ASSUME clone.state = "whole" PROVE LineInv'
    BY DEF LineInv
  <2>1. clone.source \in Sources /\ clone.at \in Own /\ clone.at[2] <= head[clone.source]
    BY DEF DeploymentsTypeOK, LineInv
  <2>2. clone.at[2] <= head'[clone.source]
    BY <1>1, <1>2, <2>1 DEF Own
  <2> QED BY <2>2 DEF LineInv, Tells, Covered, Own
<1> QED BY <1>3, <1>4, <1>5

\* Whatever was under way is gone; the rows, the clone or its remains, and
\* Docker stay.
LEMMA RestartKeeps ==
  ASSUME IInv, Restart
  PROVE  IInv'
<1> USE DEF IInv, Restart, external
<1>1. clone' = clone \/ clone' = [clone EXCEPT !.state = "cut"]
  OBVIOUS
<1>2. job' \in [Jobs -> Job] /\ \A k \in Jobs : job'[k] = Idle
  BY IdleJobs
<1>3. DeploymentsTypeOK'
  <2>1. queue' \in Seq(Jobs) /\ edit' = None
    OBVIOUS
  <2>2. poll' \in [Pollers -> [at : {"idle", "asking", "creating"}, seen : Seen \cup {None}]]
    BY DEF Resting
  <2>3. clone' \in [state : {"none", "whole", "merged", "cut"}, source : Sources,
                    at : Built \cup {None}]
    BY <1>1 DEF DeploymentsTypeOK
  <2> QED BY <1>2, <2>1, <2>2, <2>3, FaultType DEF DeploymentsTypeOK, Job
<1>4. OneBuildAtATime' /\ JobInv'
  BY <1>2, IdleJobs DEF OneBuildAtATime, JobInv, AtWork
<1>5. CASE clone' = clone
  <2>1. LineInv'
    BY <1>5 DEF LineInv, Tells, Covered, Own
  <2>2. NothingYet'
    BY <1>5 DEF NothingYet, TellsNothing
  <2> QED BY <1>3, <1>4, <2>1, <2>2
<1>6. CASE clone' = [clone EXCEPT !.state = "cut"]
  <2>1. clone'.state = "cut"
    BY <1>6 DEF DeploymentsTypeOK
  <2>2. LineInv' /\ NothingYet'
    BY <2>1 DEF LineInv, NothingYet
  <2> QED BY <1>3, <1>4, <2>2
<1> QED BY <1>1, <1>5, <1>6

LEMMA StutterKeeps ==
  ASSUME IInv, UNCHANGED vars
  PROVE  IInv'
<1> USE DEF IInv, vars
<1>1. DeploymentsTypeOK'
  BY DEF DeploymentsTypeOK
<1>2. JobsKept
  BY DEF JobsKept
<1> QED BY <1>1, <1>2, QuietKeeps

-----------------------------------------------------------------------------
(* The theorems.                                                           *)

LEMMA IInvInit == Init => IInv
<1> SUFFICES ASSUME Init PROVE IInv
  OBVIOUS
<1> USE DEF Init
<1>1. DeploymentsTypeOK
  BY IdleJobs, ValuesAssumption, BoundsAssumption
     DEF DeploymentsTypeOK, Job, Rows, Resting
<1>2. OneBuildAtATime /\ JobInv
  BY IdleJobs DEF OneBuildAtATime, JobInv, AtWork
<1>3. LineInv /\ NothingYet
  BY DEF LineInv, NothingYet, TellsNothing
<1> QED BY <1>1, <1>2, <1>3 DEF IInv

LEMMA IInvStep == IInv /\ [Next]_vars => IInv'
<1> SUFFICES ASSUME IInv, [Next]_vars PROVE IInv'
  OBVIOUS
<1>1. ASSUME NEW j \in Jobs, Begin(j) PROVE IInv'
  BY <1>1, BeginKeeps
<1>2. ASSUME NEW j \in Jobs, GivesUp(j) PROVE IInv'
  BY <1>2, GivesUpKeeps
<1>3. ASSUME NEW j \in Jobs, Works(j) PROVE IInv'
  BY <1>3, CheckoutKeeps, CheckoutEndsKeeps, BuildKeeps, BuildFailsKeeps, SucceedKeeps,
     EndsKeep DEF Works
<1>4. ASSUME NEW p \in Pollers, Polls(p) PROVE IInv'
  BY <1>4, PollsKeep
<1>5. CASE Trigger \/ LoadRow \/ SaveRow \/ SaveFails
  BY <1>5, TriggerKeeps, LoadRowKeeps, SaveRowKeeps, SaveFailsKeeps
<1>6. CASE CheckDrift \/ DriftUnknown
  BY <1>6, DriftKeeps
<1>7. ASSUME NEW s \in Sources, Push(s) PROVE IInv'
  BY <1>7, PushKeeps
<1>8. CASE Restart
  BY <1>8, RestartKeeps
<1>9. CASE UNCHANGED vars
  BY <1>9, StutterKeeps
<1> QED BY <1>1, <1>2, <1>3, <1>4, <1>5, <1>6, <1>7, <1>8, <1>9 DEF Next

\* The inductive invariant: one build at a time, rows, clone, jobs and Docker on
\* one line of commits in that order.
THEOREM Invariance == Spec => []IInv
<1>1. Init => IInv
  BY IInvInit
<1>2. IInv /\ [Next]_vars => IInv'
  BY IInvStep
<1> QED BY <1>1, <1>2, PTL DEF Spec

\* Every variable of the build and polling services keeps its type and bounds.
THEOREM TypeCorrect == Spec => []DeploymentsTypeOK
<1>1. IInv => DeploymentsTypeOK
  BY DEF IInv
<1> QED BY <1>1, Invariance, PTL

\* A commit that a row tells of and that is the line's latest is deployed.
LEMMA LatestIsDeployed ==
  ASSUME IInv, Follows, Covered(Latest)
  PROVE  deployed = Latest
<1> USE DEF IInv
<1>1. /\ clone.state = "whole" /\ clone.source = row.source
      /\ row.source \in Sources /\ head[row.source] \in Nat
      /\ Latest = <<row.source, head[row.source]>> /\ Latest # None
  BY Values DEF Follows, DeploymentsTypeOK, Rows, Latest, HeadOf, Built
<1>2. deployed \in Own /\ Latest[2] <= deployed[2]
  BY <1>1 DEF Covered
<1>3. deployed # None
  BY <1>1, <1>2, Values DEF Own, Commits, Built
<1>4. deployed[2] <= clone.at[2] /\ clone.at[2] <= head[row.source] /\ clone.at \in Own
  BY <1>1, <1>3 DEF LineInv
<1>5. deployed[2] = head[row.source]
  BY <1>1, <1>2, <1>4 DEF Own
<1> QED BY <1>1, <1>2, <1>5 DEF Own

\* A repository whose row has the latest commit, which polls leave alone, is
\* deployed at that commit.
THEOREM UpToDate == Spec => []UpToDateIsDeployed
<1>1. IInv => UpToDateIsDeployed
  <2> SUFFICES ASSUME IInv, Follows, row.commit = Latest PROVE deployed = Latest
    BY DEF UpToDateIsDeployed
  <2>1. Covered(Latest)
    BY DEF IInv, LineInv, Follows, Tells
  <2> QED BY <2>1, LatestIsDeployed
<1> QED BY <1>1, Invariance, PTL

\* A repository that the drift check shows as SYNCED with a remote that has not
\* moved since is deployed at the remote's commit.
THEOREM Synced == Spec => []SyncedIsDeployed
<1>1. IInv => SyncedIsDeployed
  <2> SUFFICES ASSUME IInv, Follows, row.drift = "SYNCED", row.remote = Latest
               PROVE  deployed = Latest
    BY DEF SyncedIsDeployed
  <2>1. Covered(Latest)
    BY DEF IInv, LineInv, Follows, Tells
  <2> QED BY <2>1, LatestIsDeployed
<1> QED BY <1>1, Invariance, PTL
=============================================================================
