----------------------- MODULE ContainerHealthMonitor -----------------------
(***************************************************************************)
(* ContainerHealthMonitorService: the scheduled scan of a Docker host, the *)
(* monitor row it keeps of a container, and the health events it raises.   *)
(*                                                                         *)
(* Containers do not influence each other, so there is one, and a flag for *)
(* whether the host has others.  The scan is not one transaction           *)
(* (monitorHost is called past its proxy), so each save may fail on its    *)
(* own.  Times are ages in ticks, kept up to where the code stops telling  *)
(* them apart.  A scan is short: the container and the clock move between  *)
(* scans, users resolve events at any time.                                *)
(***************************************************************************)
EXTENDS Integers, Sequences

CONSTANTS Setups,       \* the containers and hosts looked at, see SetupsAssumption
          Threshold,    \* restart-loop-threshold
          Window,       \* restart-loop-window, in ticks
          Cooldown,     \* notification-cooldown, in ticks
          OomWindow,    \* the minute in which an OOM kill is not reported again
          MaxGap,       \* longest time between two scans that were saved
          MaxRestarts,  \* bound: the daemon's restart count
          MaxFaults     \* bound: failing calls of the scan

Setup == [restartPolicy: BOOLEAN,   \* whether the daemon restarts the container
          healthCheck: BOOLEAN,     \* whether it has a health check
          fails: BOOLEAN,           \* whether it ever exits with an error
          memoryLimit: BOOLEAN,     \* whether it can be killed for its memory
          others: BOOLEAN]          \* whether the host has other containers

ASSUME SetupsAssumption == Setups \subseteq Setup
ASSUME LoopAssumption == Threshold \in Nat \ {0} /\ Window \in Nat \ {0}
ASSUME TimesAssumption == Cooldown \in Nat /\ OomWindow \in Nat /\ MaxGap \in Nat \ {0}
ASSUME BoundsAssumption == MaxRestarts \in Nat /\ MaxFaults \in Nat

Kinds == {"CRASH", "RESTART_LOOP", "HEALTH_UNHEALTHY", "OOM_KILLED"}
Marks == {"crash", "loop", "health"}

\* A crash and an OOM kill share their notification time.
MarkOf(kind) == CASE kind \in {"CRASH", "OOM_KILLED"} -> "crash"
                  [] kind = "RESTART_LOOP" -> "loop"
                  [] kind = "HEALTH_UNHEALTHY" -> "health"

None == -1    \* null, or a time of 0
Stable == 2 * Window
Horizon == Window + MaxGap + 1

VARIABLES
  container,     \* what the daemon says of it
  setup,         \* one of Setups
  row,           \* the stored ContainerMonitorState; NewState when there is none
  active,        \* the kinds of which an unresolved event is stored
  oomAge,        \* since the last OOM_KILLED event
  pc, state,     \* the scan, and the row it works on
  restarts,      \* history: ages of the last restarts, newest first
  told,          \* history: since the last notification of each mark
  savedAge,      \* history: since the row was last saved
  reports,       \* history: CRASH events since the container last exited
  faults, unmarked,  \* history: failed calls; marks that were lost
  tooEarly       \* history: marks notified again within the cooldown

scanner == <<pc, state>>
history == <<restarts, told, savedAge, reports, faults, unmarked, tooEarly>>
vars == <<container, setup, row, active, oomAge, scanner, history>>

MonitorState == [status: {"null", "running", "exited"}, count: None .. MaxRestarts,
                 baseline: None .. MaxRestarts, window: None .. Stable + 1,
                 mark: [Marks -> 0 .. Cooldown + 1]]

TypeOK ==
  /\ container \in [status: {"running", "exited", "gone"}, failed: BOOLEAN,
                    oomKilled: BOOLEAN, restartCount: 0 .. MaxRestarts, unhealthy: BOOLEAN]
  /\ setup \in Setup
  /\ row \in MonitorState
  /\ active \subseteq Kinds
  /\ oomAge \in 0 .. OomWindow + 1
  /\ pc \in {"idle", "oom", "crash", "restart", "health", "save", "resolve"}
  /\ state \in MonitorState
  /\ restarts \in Seq(0 .. Horizon) /\ Len(restarts) <= Threshold
  /\ told \in [Marks -> 0 .. Cooldown + 1]
  /\ savedAge \in 0 .. MaxGap
  /\ reports \in Nat
  /\ faults \in 0 .. MaxFaults
  /\ unmarked \subseteq Marks /\ tooEarly \subseteq Marks

NewState == [status |-> "null", count |-> None, baseline |-> None, window |-> None,
             mark |-> [m \in Marks |-> Cooldown + 1]]

Init ==
  /\ container = [status |-> "running", failed |-> FALSE, oomKilled |-> FALSE,
                  restartCount |-> 0, unhealthy |-> FALSE]
  /\ setup \in Setups
  /\ row = NewState
  /\ active = {}
  /\ oomAge = OomWindow + 1
  /\ pc = "idle" /\ state = NewState
  /\ restarts = <<>>
  /\ told = [m \in Marks |-> Cooldown + 1]
  /\ savedAge = 0 /\ reports = 0 /\ faults = 0
  /\ unmarked = {} /\ tooEarly = {}

-----------------------------------------------------------------------------
(* The container and the clock.                                            *)

worldOnly == UNCHANGED <<setup, row, active, oomAge, scanner, told, savedAge, faults, unmarked, tooEarly>>

Exit ==
  /\ pc = "idle" /\ container.status = "running"
  /\ \E failed, oom \in BOOLEAN :
       /\ failed => setup.fails
       /\ oom => failed /\ setup.memoryLimit
       /\ container' = [container EXCEPT !.status = "exited", !.failed = failed,
                                         !.oomKilled = oom, !.unhealthy = FALSE]
  /\ reports' = 0
  /\ UNCHANGED restarts
  /\ worldOnly

\* The restart policy starts the container again and counts it.
PolicyRestart ==
  /\ pc = "idle" /\ container.status # "gone"
  /\ setup.restartPolicy /\ container.restartCount < MaxRestarts
  /\ container' = [container EXCEPT !.status = "running", !.failed = FALSE, !.unhealthy = FALSE,
                                    !.oomKilled = FALSE, !.restartCount = @ + 1]
  /\ restarts' = SubSeq(<<0>> \o restarts, 1,
                        IF Len(restarts) < Threshold THEN Len(restarts) + 1 ELSE Threshold)
  /\ UNCHANGED reports
  /\ worldOnly

\* Started by hand, for which the daemon resets the count.
Start ==
  /\ pc = "idle" /\ container.status = "exited"
  /\ container' = [container EXCEPT !.status = "running", !.failed = FALSE,
                                    !.oomKilled = FALSE, !.restartCount = 0]
  /\ UNCHANGED <<restarts, reports>>
  /\ worldOnly

HealthChanges ==
  /\ pc = "idle" /\ container.status = "running" /\ setup.healthCheck
  /\ container' = [container EXCEPT !.unhealthy = ~@]
  /\ UNCHANGED <<restarts, reports>>
  /\ worldOnly

\* Removed; an id never comes back.
Remove ==
  /\ pc = "idle" /\ container.status # "gone"
  /\ container' = [container EXCEPT !.status = "gone"]
  /\ UNCHANGED <<restarts, reports>>
  /\ worldOnly

Older(age, cap) == IF age = None \/ age = cap THEN age ELSE age + 1
Aged(marks) == [m \in Marks |-> Older(marks[m], Cooldown + 1)]

Tick ==
  /\ pc = "idle"
  /\ container.status # "gone" => savedAge < MaxGap
  /\ savedAge' = Older(savedAge, MaxGap)
  /\ row' = [row EXCEPT !.window = Older(@, Stable + 1), !.mark = Aged(@)]
  /\ oomAge' = Older(oomAge, OomWindow + 1)
  /\ restarts' = [i \in DOMAIN restarts |-> Older(restarts[i], Horizon)]
  /\ told' = Aged(told)
  /\ UNCHANGED <<container, setup, active, scanner, reports, faults, unmarked, tooEarly>>

-----------------------------------------------------------------------------
(* The scan.                                                               *)

Goto(label) == pc' = label
Fault == faults < MaxFaults /\ faults' = faults + 1

\* The list, the rows of vanished containers, and the inspection.  Nothing is
\* deleted when the list is empty.
BeginScan ==
  /\ pc = "idle"
  /\ IF container.status = "gone"
       THEN /\ Goto("resolve")
            /\ row' = IF setup.others THEN NewState ELSE row
            /\ UNCHANGED state
       ELSE /\ Goto("oom")
            /\ state' = row
            /\ UNCHANGED row
  /\ UNCHANGED <<container, setup, active, oomAge, history>>

\* The container cannot be inspected; its events are looked at all the same.
InspectFails ==
  /\ pc = "idle" /\ container.status # "gone"
  /\ Fault
  /\ Goto("resolve")
  /\ UNCHANGED <<container, setup, row, active, oomAge, state, restarts, told, savedAge,
                 reports, unmarked, tooEarly>>

\* The check of the container ends without saving the row: what was marked in
\* it is lost.
Abandon ==
  /\ Fault
  /\ Goto("resolve") /\ state' = NewState
  /\ unmarked' = unmarked \cup {m \in Marks : state.mark[m] # row.mark[m]}
  /\ UNCHANGED <<container, setup, row, active, oomAge, restarts, told, savedAge, reports,
                 tooEarly>>

\* A mutant: the cooldown is not looked at.
MayNotify_Always(kind) == TRUE

MayNotify(kind) == state.mark[MarkOf(kind)] > Cooldown

\* A new event and, unless one of its kind of notice was sent lately, the
\* notification, whose time is marked after the event is saved once more: if
\* that save fails, it was sent and is not marked.
Raise(kind, next, base) ==
  LET m == MarkOf(kind)
      Sent == /\ told' = [told EXCEPT ![m] = 0]
              /\ tooEarly' = IF told[m] > Cooldown THEN tooEarly ELSE tooEarly \cup {m}
      NotSent == UNCHANGED <<told, tooEarly>>
  IN
  \/ /\ Goto(next)
     /\ active' = active \cup {kind}
     /\ oomAge' = IF kind = "OOM_KILLED" THEN 0 ELSE oomAge
     /\ reports' = IF kind = "CRASH" THEN reports + 1 ELSE reports
     /\ \/ /\ ~MayNotify(kind)
           /\ state' = base /\ NotSent /\ UNCHANGED <<faults, unmarked>>
        \/ /\ MayNotify(kind)
           /\ \/ state' = [base EXCEPT !.mark[m] = 0] /\ Sent /\ UNCHANGED <<faults, unmarked>>
              \/ state' = base /\ Fault /\ Sent /\ unmarked' = unmarked \cup {m}
              \/ state' = base /\ Fault /\ NotSent /\ UNCHANGED unmarked
     /\ UNCHANGED <<container, setup, row, restarts, savedAge>>
  \/ Abandon    \* the event cannot be saved

Pass(next, base) ==
  /\ Goto(next)
  /\ state' = base
  /\ UNCHANGED <<container, setup, row, active, oomAge, history>>

CheckOom ==
  /\ pc = "oom"
  /\ IF container.oomKilled /\ oomAge > OomWindow
       THEN Raise("OOM_KILLED", "crash", state)
       ELSE Pass("crash", state)

CheckCrash ==
  /\ pc = "crash"
  /\ IF container.status = "exited" /\ container.failed /\ state.status = "running"
       THEN Raise("CRASH", "restart", state)
       ELSE Pass("restart", state)

Close(base) == [base EXCEPT !.window = None, !.baseline = None]

\* A mutant: an expired window is started anew, its baseline is kept.
Opened_KeepsBaseline ==
  IF state.window = None
    THEN [state EXCEPT !.window = 0, !.baseline = state.count]
    ELSE IF state.window > Window THEN [state EXCEPT !.window = 0] ELSE state

\* The window a restart falls into: it starts with the first scan that sees
\* one, and counts from the scan before.
Opened ==
  IF state.window = None \/ state.window > Window
    THEN [state EXCEPT !.window = 0, !.baseline = state.count]
    ELSE state

CheckRestarts ==
  LET seen == container.restartCount
      loops == seen - Opened.baseline >= Threshold
  IN
  /\ pc = "restart"
  /\ CASE state.count # None /\ seen > state.count ->
            IF loops /\ "RESTART_LOOP" \notin active
              THEN Raise("RESTART_LOOP", "health", Close(Opened))
              ELSE Pass("health", IF loops THEN Close(Opened) ELSE Opened)
       [] seen = state.count /\ state.window > Window -> Pass("health", Close(state))
       [] OTHER -> Pass("health", state)

CheckHealth ==
  /\ pc = "health"
  /\ IF container.unhealthy /\ "HEALTH_UNHEALTHY" \notin active
       THEN Raise("HEALTH_UNHEALTHY", "save", state)
       ELSE Pass("save", state)

\* A mutant: the status of the first scan is kept.
SaveState_KeepsStatus ==
  /\ pc = "save"
  /\ Goto("resolve") /\ state' = NewState
  /\ row' = [state EXCEPT !.status = IF @ = "null" THEN container.status ELSE @,
                          !.count = container.restartCount]
  /\ savedAge' = 0
  /\ UNCHANGED <<container, setup, active, oomAge, restarts, told, reports, faults, unmarked,
                 tooEarly>>

SaveState ==
  /\ pc = "save"
  /\ Goto("resolve") /\ state' = NewState
  /\ row' = [state EXCEPT !.status = container.status, !.count = container.restartCount]
  /\ savedAge' = 0
  /\ UNCHANGED <<container, setup, active, oomAge, restarts, told, reports, faults, unmarked,
                 tooEarly>>

SaveFails == pc = "save" /\ Abandon

\* A mutant: events are only resolved on a host that has containers.
Resolvable_NeedsContainers ==
  IF container.status = "gone" THEN (IF setup.others THEN Kinds ELSE {})
  ELSE IF row.window > Stable THEN {"RESTART_LOOP"} ELSE {}

\* resolveOldEvents: all of a vanished container, and the restart loop of one
\* whose window started long ago.
Resolvable ==
  IF container.status = "gone" THEN Kinds
  ELSE IF row.window > Stable THEN {"RESTART_LOOP"} ELSE {}

ResolveOldEvents ==
  /\ pc = "resolve"
  /\ Goto("idle")
  /\ state' = NewState
  /\ \/ active' = active \ Resolvable /\ UNCHANGED faults
     \/ Fault /\ \E done \in SUBSET Resolvable : active' = active \ done
  /\ UNCHANGED <<container, setup, row, oomAge, restarts, told, savedAge, reports, unmarked,
                 tooEarly>>

\* A user resolves an event on the health page.
ResolveEvent ==
  /\ \E kind \in active : active' = active \ {kind}
  /\ UNCHANGED <<container, setup, row, oomAge, scanner, history>>

-----------------------------------------------------------------------------
World == Exit \/ PolicyRestart \/ Start \/ HealthChanges \/ Remove
Check == CheckOom \/ CheckCrash \/ CheckRestarts \/ CheckHealth \/ SaveState \/ SaveFails
Scan == BeginScan \/ InspectFails \/ Check \/ ResolveOldEvents

Next == World \/ Tick \/ Scan \/ ResolveEvent

\* The scheduler runs the scan again and again, on a host that can be reached,
\* and time goes on.  Containers and users need not do anything.
Fairness == WF_vars(Scan) /\ SF_vars(Tick)

Spec == Init /\ [][Next]_vars
FairSpec == Spec /\ Fairness

-----------------------------------------------------------------------------
(* Properties.                                                             *)

\* "Container has restarted 3+ times within 5 minutes": that many restarts did
\* happen, the oldest at most the window and one scan's distance ago.
LoopIsRecent ==
  [][ "RESTART_LOOP" \in active' \ active
        => Len(restarts) = Threshold /\ restarts[Threshold] <= Window + MaxGap ]_vars

\* Between two notifications of the same kind lies the cooldown, unless the
\* first one's time was lost by a failing save.
NotificationsSpaced == tooEarly \subseteq unmarked

\* One exit is reported as one crash, and once more for each call that failed
\* at most: the next scan that saves its row ends the repetition.
CrashReportedOnce == reports <= 1 + faults

\* Events of a container that is gone do not stay active, on an empty host too.
GoneIsResolved == <>[](container.status = "gone") => <>[](active = {})

\* "Resolved restart loop event - container is stable": when a container has
\* stopped restarting its restart loop does not stay active.
StableIsResolved ==
  <>[](\A i \in DOMAIN restarts : restarts[i] = Horizon) => []<>("RESTART_LOOP" \notin active)
=============================================================================
