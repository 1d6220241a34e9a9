--------------------- MODULE ContainerHealthMonitorProofs ---------------------
(* Theorems about ContainerHealthMonitor, for any setups, threshold, window, *)
(* cooldown and bounds.                                                      *)
EXTENDS ContainerHealthMonitor, SequenceTheorems, TLAPS

Checking == pc \in {"oom", "crash", "restart", "health", "save"}

\* Only a container that is there is checked.
ChecksWhatIsThere == Checking => container.status # "gone"

\* The row holds the last notification's age, unless that mark was lost; while a
\* check is under way its own copy does.
MarkKept(m) ==
  m \in unmarked \/ container.status = "gone"
    \/ (IF Checking THEN state.mark[m] = told[m] ELSE row.mark[m] = told[m])

MarksKept == \A m \in Marks : MarkKept(m)

\* What the check compares with says "exited", or will when this check is over.
CrashSeen ==
  \/ pc \in {"restart", "health", "save"}
  \/ pc \in {"oom", "crash"} /\ state.status = "exited"
  \/ pc \in {"idle", "resolve"} /\ row.status = "exited"

\* A crash that was reported is behind, or one more call has failed than there were
\* repetitions.
CrashIsBehind ==
  /\ reports <= 1 + faults
  /\ container.status = "exited" => reports <= faults \/ CrashSeen

IInv == TypeOK /\ ChecksWhatIsThere /\ MarksKept /\ NotificationsSpaced /\ CrashIsBehind

-----------------------------------------------------------------------------
(* Types.                                                                  *)

ScanPC == {"idle", "oom", "crash", "restart", "health", "save", "resolve"}

LEMMA NewStateType == NewState \in MonitorState
  BY TimesAssumption, BoundsAssumption, LoopAssumption
  DEF NewState, MonitorState, Marks, None, Stable

LEMMA OlderType ==
  ASSUME NEW low \in Int, NEW cap \in Nat, low = 0 \/ low = None, NEW age \in low .. cap
  PROVE  Older(age, cap) \in low .. cap
  BY DEF Older, None

LEMMA AgedType ==
  ASSUME NEW marks \in [Marks -> 0 .. Cooldown + 1]
  PROVE  Aged(marks) \in [Marks -> 0 .. Cooldown + 1]
<1>1. ASSUME NEW m \in Marks PROVE Older(marks[m], Cooldown + 1) \in 0 .. Cooldown + 1
  BY TimesAssumption, OlderType
<1> QED BY <1>1 DEF Aged

\* What a check has worked on so far is a row again.
LEMMA MarkedType ==
  ASSUME NEW base \in MonitorState, NEW m \in Marks
  PROVE  [base EXCEPT !.mark[m] = 0] \in MonitorState
  BY TimesAssumption DEF MonitorState

\* A window that is changed with its baseline is one of a row.
LEMMA WindowType ==
  ASSUME NEW base \in MonitorState, NEW w \in None .. Stable + 1, NEW b \in None .. MaxRestarts
  PROVE  LET new == [base EXCEPT !.window = w, !.baseline = b] IN
         new \in MonitorState /\ new.mark = base.mark /\ new.status = base.status
  BY DEF MonitorState

LEMMA OpenedType ==
  ASSUME TypeOK
  PROVE  /\ Opened \in MonitorState /\ Opened.mark = state.mark
         /\ Opened.status = state.status
<1>1. state \in MonitorState /\ state.count \in None .. MaxRestarts
  BY DEF TypeOK, MonitorState
<1>2. 0 \in None .. Stable + 1
  BY LoopAssumption DEF None, Stable
<1> QED BY <1>1, <1>2, WindowType DEF Opened

LEMMA CloseType ==
  ASSUME NEW base \in MonitorState
  PROVE  /\ Close(base) \in MonitorState /\ Close(base).mark = base.mark
         /\ Close(base).status = base.status
<1>1. None \in None .. Stable + 1 /\ None \in None .. MaxRestarts
  BY LoopAssumption, BoundsAssumption DEF None, Stable
<1> QED BY <1>1, WindowType DEF Close

LEMMA FaultType ==
  ASSUME TypeOK, Fault
  PROVE  faults' \in 0 .. MaxFaults /\ faults' = faults + 1
  BY BoundsAssumption DEF TypeOK, Fault

LEMMA CountsType == TypeOK => faults \in Nat /\ reports \in Nat
  BY BoundsAssumption DEF TypeOK

\* A failed call pays for the next report.
LEMMA FaultExcuses ==
  ASSUME TypeOK, TypeOK', CrashIsBehind, reports' = reports, faults' = faults + 1
  PROVE  CrashIsBehind'
<1>1. faults \in Nat /\ reports \in Nat /\ faults' \in Nat /\ reports' \in Nat
  BY CountsType
<1>2. reports' <= faults'
  BY <1>1 DEF CrashIsBehind
<1> QED BY <1>1, <1>2 DEF CrashIsBehind

\* Where neither was counted, the row or the copy still says what was seen.
LEMMA StillBehind ==
  ASSUME CrashIsBehind, reports' = reports, faults' = faults,
         container'.status = "exited" => container.status = "exited",
         CrashSeen => CrashSeen'
  PROVE  CrashIsBehind'
  BY DEF CrashIsBehind

LEMMA AbandonType == TypeOK /\ Abandon => TypeOK'
  BY NewStateType, FaultType DEF Abandon, Goto, TypeOK

LEMMA MarkOfType == \A kind \in Kinds : MarkOf(kind) \in Marks
  BY DEF Kinds, MarkOf, Marks

LEMMA RaiseType ==
  ASSUME TypeOK, NEW kind \in Kinds, NEW next \in ScanPC, NEW base \in MonitorState,
         Raise(kind, next, base)
  PROVE  TypeOK'
<1> DEFINE m == MarkOf(kind)
<1>1. m \in Marks
  BY MarkOfType
<1>2. CASE Abandon
  BY <1>2, AbandonType
<1>3. CASE ~Abandon
  <2>1. pc' \in ScanPC /\ active' \subseteq Kinds /\ reports' \in Nat
    BY <1>3 DEF Raise, Goto, TypeOK
  <2>2. oomAge' \in 0 .. OomWindow + 1
    BY <1>3, TimesAssumption DEF Raise, TypeOK
  <2>3. state' \in MonitorState
    BY <1>1, <1>3, MarkedType DEF Raise
  <2>4. told' \in [Marks -> 0 .. Cooldown + 1] /\ tooEarly' \subseteq Marks /\ unmarked' \subseteq Marks
    BY <1>1, <1>3, TimesAssumption DEF Raise, TypeOK
  <2>5. faults' \in 0 .. MaxFaults
    BY <1>3, FaultType DEF Raise, TypeOK
  <2>6. UNCHANGED <<container, setup, row, restarts, savedAge>>
    BY <1>3 DEF Raise
  <2> QED BY <2>1, <2>2, <2>3, <2>4, <2>5, <2>6 DEF TypeOK, ScanPC
<1> QED BY <1>2, <1>3

LEMMA PassType ==
  ASSUME TypeOK, NEW next \in ScanPC, NEW base \in MonitorState, Pass(next, base)
  PROVE  TypeOK'
  BY DEF TypeOK, Pass, Goto, ScanPC, history

-----------------------------------------------------------------------------
(* A notice, and a check that ends early.                                  *)

LEMMA AbandonKeeps ==
  ASSUME IInv, Checking, Abandon
  PROVE  IInv'
<1>1. TypeOK' /\ ChecksWhatIsThere'
  BY AbandonType DEF IInv, Abandon, Goto, ChecksWhatIsThere, Checking
<1>2. MarksKept'
  BY DEF IInv, MarksKept, MarkKept, Abandon, Goto, Checking
<1>3. NotificationsSpaced'
  BY DEF IInv, NotificationsSpaced, Abandon
<1>4. reports' = reports /\ faults' = faults + 1
  BY FaultType DEF IInv, Abandon
<1>5. CrashIsBehind'
  BY <1>1, <1>4, FaultExcuses DEF IInv
<1> QED BY <1>1, <1>2, <1>3, <1>5 DEF IInv

\* The age in the copy decides, so it has to be the last notification's, or the mark
\* is known to be lost.
LEMMA RaiseMarks ==
  ASSUME IInv, Checking, NEW kind \in Kinds,
         NEW next \in {"crash", "restart", "health", "save"},
         NEW base \in MonitorState, base.mark = state.mark,
         Raise(kind, next, base), ~Abandon
  PROVE  MarksKept' /\ NotificationsSpaced' /\ ChecksWhatIsThere'
<1> DEFINE m == MarkOf(kind)
<1>1. m \in Marks
  BY MarkOfType
<1>2. container.status # "gone" /\ Checking' /\ container' = container /\ row' = row
  BY DEF IInv, ChecksWhatIsThere, Raise, Goto, Checking
<1>3. \A n \in Marks : n \in unmarked \/ state.mark[n] = told[n]
  BY <1>2 DEF IInv, MarksKept, MarkKept
<1>4. state.mark \in [Marks -> 0 .. Cooldown + 1] /\ told \in [Marks -> 0 .. Cooldown + 1]
  BY DEF IInv, TypeOK, MonitorState
<1>5. /\ unmarked \subseteq unmarked'
      /\ \A n \in Marks : n \in unmarked' \/ state'.mark[n] = told'[n]
      /\ tooEarly' \subseteq unmarked'
  <2>1. CASE state' = base /\ UNCHANGED <<told, tooEarly, unmarked>>
    BY <2>1, <1>3 DEF IInv, NotificationsSpaced
  <2>2. ASSUME MayNotify(kind), told' = [told EXCEPT ![m] = 0],
               tooEarly' = IF told[m] > Cooldown THEN tooEarly ELSE tooEarly \cup {m}
        PROVE  tooEarly' \subseteq unmarked
    BY <1>1, <1>3, <2>2 DEF MayNotify, IInv, NotificationsSpaced
  <2>3. CASE /\ MayNotify(kind) /\ state' = [base EXCEPT !.mark[m] = 0]
             /\ told' = [told EXCEPT ![m] = 0] /\ UNCHANGED unmarked
             /\ tooEarly' = IF told[m] > Cooldown THEN tooEarly ELSE tooEarly \cup {m}
    <3>1. state'.mark = [base.mark EXCEPT ![m] = 0]
      BY <2>3 DEF MonitorState
    <3>2. \A n \in Marks : n \in unmarked' \/ state'.mark[n] = told'[n]
      BY <1>3, <1>4, <2>3, <3>1
    <3> QED BY <2>2, <2>3, <3>2
  <2>4. CASE /\ MayNotify(kind) /\ state' = base /\ told' = [told EXCEPT ![m] = 0]
             /\ unmarked' = unmarked \cup {m}
             /\ tooEarly' = IF told[m] > Cooldown THEN tooEarly ELSE tooEarly \cup {m}
    BY <1>3, <1>4, <2>2, <2>4
  <2> QED BY <2>1, <2>3, <2>4 DEF Raise
<1> QED BY <1>2, <1>5 DEF MarksKept, MarkKept, NotificationsSpaced, ChecksWhatIsThere

\* A notice that is not a crash's leaves the last crash where it is.
LEMMA RaiseOther ==
  ASSUME IInv, TypeOK', NEW kind \in Kinds \ {"CRASH"}, NEW base \in MonitorState,
         NEW next, Raise(kind, next, base), ~Abandon, base.status = state.status,
         \/ pc = "oom" /\ next = "crash"
         \/ pc \in {"restart", "health"} /\ next \in {"health", "save"}
  PROVE  CrashIsBehind'
<1>1. reports' = reports /\ container' = container /\ pc' = next
  BY DEF Raise, Goto
<1>2. faults' = faults \/ faults' = faults + 1
  BY FaultType DEF Raise, IInv
<1>3. state'.status = state.status
  BY DEF Raise, MonitorState
<1>4. CrashSeen => CrashSeen'
  BY <1>1, <1>3 DEF CrashSeen
<1> QED BY <1>1, <1>2, <1>4, FaultExcuses, StillBehind DEF IInv

-----------------------------------------------------------------------------
(* The actions.                                                            *)

LEMMA PassKeeps ==
  ASSUME IInv, Checking, NEW next \in {"crash", "restart", "health", "save"},
         NEW base \in MonitorState, Pass(next, base),
         base.mark = state.mark, base.status = state.status,
         \/ pc = "oom" /\ next = "crash"
         \/ pc \in {"restart", "health"} /\ next \in {"health", "save"}
         \/ pc = "crash" /\ next = "restart"
  PROVE  IInv'
<1>1. TypeOK'
  BY PassType DEF IInv, ScanPC
<1>2. ChecksWhatIsThere' /\ MarksKept' /\ NotificationsSpaced'
  BY DEF IInv, Pass, Goto, history, ChecksWhatIsThere, MarksKept, MarkKept, Checking,
         NotificationsSpaced
<1>3. CrashIsBehind'
  BY StillBehind DEF IInv, Pass, Goto, history, CrashSeen
<1> QED BY <1>1, <1>2, <1>3 DEF IInv

LEMMA RaiseKeeps ==
  ASSUME IInv, Checking, NEW kind \in Kinds \ {"CRASH"},
         NEW next \in {"crash", "restart", "health", "save"},
         NEW base \in MonitorState, Raise(kind, next, base),
         base.mark = state.mark, base.status = state.status,
         \/ pc = "oom" /\ next = "crash"
         \/ pc \in {"restart", "health"} /\ next \in {"health", "save"}
  PROVE  IInv'
<1>1. CASE Abandon
  BY <1>1, AbandonKeeps
<1>2. CASE ~Abandon
  <2>1. TypeOK'
    BY RaiseType DEF IInv, ScanPC
  <2>2. MarksKept' /\ NotificationsSpaced' /\ ChecksWhatIsThere'
    BY <1>2, RaiseMarks
  <2>3. CrashIsBehind'
    BY <1>2, <2>1, RaiseOther
  <2> QED BY <2>1, <2>2, <2>3 DEF IInv
<1> QED BY <1>1, <1>2

LEMMA CheckOomKeeps == IInv /\ CheckOom => IInv'
<1> SUFFICES ASSUME IInv, CheckOom PROVE IInv'
  OBVIOUS
<1>1. pc = "oom" /\ Checking /\ state \in MonitorState
  BY DEF IInv, TypeOK, CheckOom, Checking
<1> QED BY <1>1, PassKeeps, RaiseKeeps DEF CheckOom, Kinds

\* The check finds a crash only where the last one is not yet behind.
LEMMA CheckCrashKeeps == IInv /\ CheckCrash => IInv'
<1> SUFFICES ASSUME IInv, CheckCrash PROVE IInv'
  OBVIOUS
<1>1. pc = "crash" /\ Checking /\ state \in MonitorState /\ "CRASH" \in Kinds
  BY DEF IInv, TypeOK, CheckCrash, Checking, Kinds
<1>2. CASE Pass("restart", state)
  BY <1>1, <1>2, PassKeeps
<1>3. CASE Abandon
  BY <1>1, <1>3, AbandonKeeps
<1>4. CASE /\ Raise("CRASH", "restart", state) /\ ~Abandon
           /\ container.status = "exited" /\ state.status = "running"
  <2>1. TypeOK'
    BY <1>1, <1>4, RaiseType DEF IInv, ScanPC
  <2>2. MarksKept' /\ NotificationsSpaced' /\ ChecksWhatIsThere'
    BY <1>1, <1>4, RaiseMarks
  <2>3. reports' = reports + 1 /\ pc' = "restart" /\ reports \in Nat
    BY <1>4 DEF Raise, Goto, IInv, TypeOK
  <2>4. faults \in Nat /\ (faults' = faults \/ faults' = faults + 1)
    BY <1>4, FaultType, CountsType DEF Raise, IInv
  <2>5. reports <= faults
    BY <1>1, <1>4 DEF IInv, CrashIsBehind, CrashSeen
  <2>6. CrashIsBehind'
    BY <2>3, <2>4, <2>5 DEF CrashIsBehind, CrashSeen
  <2> QED BY <2>1, <2>2, <2>6 DEF IInv
<1> QED BY <1>2, <1>3, <1>4 DEF CheckCrash

LEMMA CheckRestartsKeeps == IInv /\ CheckRestarts => IInv'
<1> SUFFICES ASSUME IInv, CheckRestarts PROVE IInv'
  OBVIOUS
<1>1. pc = "restart" /\ Checking /\ state \in MonitorState /\ "RESTART_LOOP" \in Kinds
  BY DEF IInv, TypeOK, CheckRestarts, Checking, Kinds
<1>2. \A base \in {state, Opened, Close(state), Close(Opened)} :
        base \in MonitorState /\ base.mark = state.mark /\ base.status = state.status
  BY <1>1, OpenedType, CloseType DEF IInv
<1>3. \/ \E base \in {state, Opened, Close(state), Close(Opened)} : Pass("health", base)
      \/ Raise("RESTART_LOOP", "health", Close(Opened))
  BY DEF CheckRestarts
<1>4. CASE Raise("RESTART_LOOP", "health", Close(Opened))
  BY <1>1, <1>2, <1>4, RaiseKeeps
<1>5. ASSUME NEW base \in {state, Opened, Close(state), Close(Opened)}, Pass("health", base)
      PROVE  IInv'
  BY <1>1, <1>2, <1>5, PassKeeps
<1> QED BY <1>3, <1>4, <1>5

LEMMA CheckHealthKeeps == IInv /\ CheckHealth => IInv'
<1> SUFFICES ASSUME IInv, CheckHealth PROVE IInv'
  OBVIOUS
<1>1. pc = "health" /\ Checking /\ state \in MonitorState
  BY DEF IInv, TypeOK, CheckHealth, Checking
<1> QED BY <1>1, PassKeeps, RaiseKeeps DEF CheckHealth, Kinds

LEMMA SaveStateKeeps == IInv /\ SaveState => IInv'
<1> SUFFICES ASSUME IInv, SaveState PROVE IInv'
  OBVIOUS
<1>1. /\ container.status \in {"running", "exited"}
      /\ container.restartCount \in None .. MaxRestarts /\ state \in MonitorState
  BY BoundsAssumption DEF IInv, TypeOK, SaveState, ChecksWhatIsThere, Checking, None
<1>2. /\ row' \in MonitorState /\ row'.mark = state.mark /\ row'.status = container.status
  BY <1>1 DEF SaveState, MonitorState
<1>3. TypeOK'
  BY <1>2, NewStateType, TimesAssumption DEF IInv, TypeOK, SaveState, Goto
<1>4. ChecksWhatIsThere' /\ MarksKept' /\ NotificationsSpaced'
  BY <1>2 DEF IInv, SaveState, Goto, ChecksWhatIsThere, MarksKept, MarkKept, Checking,
              NotificationsSpaced
<1>5. CrashIsBehind'
  <2>1. /\ reports' = reports /\ faults' = faults /\ container' = container
        /\ pc' = "resolve"
    BY DEF SaveState, Goto
  <2>2. container'.status = "exited" => CrashSeen'
    BY <1>2, <2>1 DEF CrashSeen
  <2> QED BY <2>1, <2>2 DEF IInv, CrashIsBehind
<1> QED BY <1>3, <1>4, <1>5 DEF IInv

LEMMA SaveFailsKeeps == IInv /\ SaveFails => IInv'
  BY AbandonKeeps DEF SaveFails, Checking

\* The rows of vanished containers may go; nothing is asked of their marks.
LEMMA BeginScanKeeps == IInv /\ BeginScan => IInv'
<1> SUFFICES ASSUME IInv, BeginScan PROVE IInv'
  OBVIOUS
<1>1. TypeOK'
  BY NewStateType DEF IInv, TypeOK, BeginScan, Goto, history
<1>2. ChecksWhatIsThere' /\ MarksKept' /\ NotificationsSpaced'
  BY DEF IInv, BeginScan, Goto, history, ChecksWhatIsThere, MarksKept, MarkKept, Checking,
         NotificationsSpaced
<1>3. CrashIsBehind'
  BY DEF IInv, BeginScan, Goto, history, CrashIsBehind, CrashSeen
<1> QED BY <1>1, <1>2, <1>3 DEF IInv

LEMMA InspectFailsKeeps == IInv /\ InspectFails => IInv'
<1> SUFFICES ASSUME IInv, InspectFails PROVE IInv'
  OBVIOUS
<1>1. TypeOK' /\ reports' = reports /\ faults' = faults + 1
  BY FaultType DEF IInv, TypeOK, InspectFails, Goto
<1>2. ChecksWhatIsThere' /\ MarksKept' /\ NotificationsSpaced'
  BY DEF IInv, InspectFails, Goto, ChecksWhatIsThere, MarksKept, MarkKept, Checking,
         NotificationsSpaced
<1>3. CrashIsBehind'
  BY <1>1, FaultExcuses DEF IInv
<1> QED BY <1>1, <1>2, <1>3 DEF IInv

LEMMA ResolveOldEventsKeeps == IInv /\ ResolveOldEvents => IInv'
<1> SUFFICES ASSUME IInv, ResolveOldEvents PROVE IInv'
  OBVIOUS
<1>1. faults' \in 0 .. MaxFaults /\ (faults' = faults \/ faults' = faults + 1)
  BY FaultType DEF IInv, TypeOK, ResolveOldEvents
<1>2. TypeOK'
  BY <1>1, NewStateType DEF IInv, TypeOK, ResolveOldEvents, Goto
<1>3. ChecksWhatIsThere' /\ MarksKept' /\ NotificationsSpaced'
  BY DEF IInv, ResolveOldEvents, Goto, ChecksWhatIsThere, MarksKept, MarkKept, Checking,
         NotificationsSpaced
<1>4. CrashIsBehind'
  BY <1>1, <1>2, FaultExcuses, StillBehind DEF IInv, ResolveOldEvents, Goto, CrashSeen
<1> QED BY <1>2, <1>3, <1>4 DEF IInv

LEMMA ResolveEventKeeps == IInv /\ ResolveEvent => IInv'
  BY DEF IInv, ResolveEvent, scanner, history, TypeOK, ChecksWhatIsThere, MarksKept, MarkKept,
         Checking, NotificationsSpaced, CrashIsBehind, CrashSeen

\* The list of restarts gets a new first element and never more than Threshold.
LEMMA RestartsType ==
  ASSUME TypeOK
  PROVE  LET new == SubSeq(<<0>> \o restarts, 1,
                           IF Len(restarts) < Threshold THEN Len(restarts) + 1 ELSE Threshold)
         IN new \in Seq(0 .. Horizon) /\ Len(new) <= Threshold
<1> DEFINE all == <<0>> \o restarts
           n == IF Len(restarts) < Threshold THEN Len(restarts) + 1 ELSE Threshold
<1>1. /\ restarts \in Seq(0 .. Horizon) /\ Len(restarts) \in Nat /\ Len(restarts) <= Threshold
      /\ Threshold \in Nat
  BY LoopAssumption, LenProperties DEF TypeOK
<1>2. <<0>> \in Seq(0 .. Horizon) /\ Len(<<0>>) = 1
  BY LoopAssumption, TimesAssumption DEF Horizon
<1>3. all \in Seq(0 .. Horizon) /\ Len(all) = Len(restarts) + 1
  BY <1>1, <1>2, ConcatProperties
<1>4. n \in Int /\ n <= Len(all) /\ n <= Threshold /\ n >= 0
  BY <1>1, <1>3, LoopAssumption
<1>5. \A i \in 1 .. n : all[i] \in 0 .. Horizon
  <2> HIDE DEF all, n
  <2>1. \A i \in 1 .. n : i \in 1 .. Len(all)
    BY <1>1, <1>3, <1>4
  <2> QED BY <1>3, <2>1, ElementOfSeq
<1>6. SubSeq(all, 1, n) \in Seq(0 .. Horizon) /\ Len(SubSeq(all, 1, n)) <= Threshold
  <2> HIDE DEF all, n
  <2> QED BY <1>1, <1>4, <1>5, SubSeqProperties
<1> QED BY <1>6

LEMMA WorldKeeps == IInv /\ World => IInv'
<1> SUFFICES ASSUME IInv, World PROVE IInv'
  OBVIOUS
<1> USE DEF IInv, worldOnly, scanner
<1>1. /\ pc = "idle" /\ pc' = pc /\ row' = row /\ told' = told /\ faults' = faults
      /\ unmarked' = unmarked /\ tooEarly' = tooEarly
      /\ container'.status # "gone" => container.status # "gone"
  BY DEF World, Exit, PolicyRestart, Start, HealthChanges, Remove, TypeOK
<1>2. /\ container' \in [status: {"running", "exited", "gone"}, failed: BOOLEAN,
                          oomKilled: BOOLEAN, restartCount: 0 .. MaxRestarts, unhealthy: BOOLEAN]
      /\ reports' \in Nat
  <2> DEFINE Container == [status: {"running", "exited", "gone"}, failed: BOOLEAN,
                           oomKilled: BOOLEAN, restartCount: 0 .. MaxRestarts, unhealthy: BOOLEAN]
  <2>0. container \in Container /\ reports \in Nat
    BY DEF TypeOK
  <2>1. CASE Exit
    BY <2>0, <2>1 DEF Exit
  <2>2. CASE PolicyRestart
    <3>1. container.restartCount + 1 \in 0 .. MaxRestarts
      BY <2>0, <2>2, BoundsAssumption DEF PolicyRestart
    <3> QED BY <2>0, <2>2, <3>1 DEF PolicyRestart
  <2>3. CASE Start
    <3>1. 0 \in 0 .. MaxRestarts
      BY BoundsAssumption
    <3> QED BY <2>0, <2>3, <3>1 DEF Start
  <2>4. CASE HealthChanges
    BY <2>0, <2>4 DEF HealthChanges
  <2>5. CASE Remove
    BY <2>0, <2>5 DEF Remove
  <2> QED BY <2>1, <2>2, <2>3, <2>4, <2>5 DEF World
<1>3. restarts' \in Seq(0 .. Horizon) /\ Len(restarts') <= Threshold
  BY RestartsType DEF World, Exit, PolicyRestart, Start, HealthChanges, Remove, TypeOK
<1>4. TypeOK'
  BY <1>2, <1>3 DEF World, Exit, PolicyRestart, Start, HealthChanges, Remove, TypeOK
<1>5. ChecksWhatIsThere' /\ MarksKept' /\ NotificationsSpaced'
  BY <1>1 DEF ChecksWhatIsThere, MarksKept, MarkKept, Checking, NotificationsSpaced
<1>6. container'.status = "exited" => reports' = 0 \/ (container.status = "exited" /\ reports' = reports)
  BY DEF World, Exit, PolicyRestart, Start, HealthChanges, Remove, TypeOK
<1>7. reports' = 0 \/ reports' = reports
  BY DEF World, Exit, PolicyRestart, Start, HealthChanges, Remove
<1>8. CrashIsBehind'
  BY <1>1, <1>6, <1>7, CountsType DEF CrashIsBehind, CrashSeen
<1> QED BY <1>4, <1>5, <1>8

LEMMA TickKeeps == IInv /\ Tick => IInv'
<1> SUFFICES ASSUME IInv, Tick PROVE IInv'
  OBVIOUS
<1> USE DEF IInv, Tick
<1>1. /\ row.window \in None .. Stable + 1 /\ row.mark \in [Marks -> 0 .. Cooldown + 1]
      /\ told \in [Marks -> 0 .. Cooldown + 1] /\ row \in MonitorState
  BY DEF TypeOK, MonitorState
<1>2. Older(row.window, Stable + 1) \in None .. Stable + 1
  BY <1>1, LoopAssumption, OlderType DEF None, Stable
<1>3. /\ row' \in MonitorState /\ row'.mark = Aged(row.mark) /\ row'.status = row.status
  BY <1>1, <1>2, AgedType DEF MonitorState
<1>4. told' \in [Marks -> 0 .. Cooldown + 1]
  BY <1>1, AgedType
<1>5. savedAge' \in 0 .. MaxGap /\ oomAge' \in 0 .. OomWindow + 1
  <2>1. /\ MaxGap \in Nat /\ OomWindow + 1 \in Nat
        /\ savedAge \in 0 .. MaxGap /\ oomAge \in 0 .. OomWindow + 1
    BY TimesAssumption DEF TypeOK
  <2>2. savedAge' = Older(savedAge, MaxGap) /\ oomAge' = Older(oomAge, OomWindow + 1)
    OBVIOUS
  <2> QED BY <2>1, <2>2, OlderType
<1>6. restarts' \in Seq(0 .. Horizon) /\ Len(restarts') <= Threshold
  <2>1. /\ Len(restarts) \in Nat /\ DOMAIN restarts = 1 .. Len(restarts)
        /\ restarts \in [1 .. Len(restarts) -> 0 .. Horizon] /\ Horizon \in Nat
    <3>1. restarts \in Seq(0 .. Horizon)
      BY DEF TypeOK
    <3>2. Horizon \in Nat
      BY LoopAssumption, TimesAssumption DEF Horizon
    <3> QED BY <3>1, <3>2, LenProperties, Zenon
  <2>2. \A i \in 1 .. Len(restarts) : Older(restarts[i], Horizon) \in 0 .. Horizon
    <3> SUFFICES ASSUME NEW i \in 1 .. Len(restarts)
                 PROVE  Older(restarts[i], Horizon) \in 0 .. Horizon
      OBVIOUS
    <3>1. restarts[i] \in 0 .. Horizon
      BY <2>1
    <3> QED BY <2>1, <3>1 DEF Older, None
  <2> QED BY <2>1, <2>2 DEF TypeOK
<1>7. TypeOK'
  BY <1>3, <1>4, <1>5, <1>6 DEF TypeOK, scanner
<1>8. ChecksWhatIsThere' /\ NotificationsSpaced' /\ CrashIsBehind'
  BY <1>3 DEF ChecksWhatIsThere, Checking, NotificationsSpaced, CrashIsBehind, CrashSeen, scanner
<1>9. MarksKept'
  BY <1>3 DEF MarksKept, MarkKept, Checking, Aged, scanner
<1> QED BY <1>7, <1>8, <1>9

LEMMA IInvInit == Init => IInv
<1> SUFFICES ASSUME Init PROVE IInv
  OBVIOUS
<1>1. TypeOK
  BY NewStateType, SetupsAssumption, LoopAssumption, TimesAssumption, BoundsAssumption, EmptySeq
  DEF Init, TypeOK
<1>2. ChecksWhatIsThere /\ MarksKept /\ NotificationsSpaced /\ CrashIsBehind
  BY DEF Init, ChecksWhatIsThere, Checking, MarksKept, MarkKept, NotificationsSpaced,
         CrashIsBehind, CrashSeen, NewState
<1> QED BY <1>1, <1>2 DEF IInv

LEMMA StutterKeeps == IInv /\ UNCHANGED vars => IInv'
  BY DEF IInv, vars, scanner, history, TypeOK, ChecksWhatIsThere, MarksKept, MarkKept,
         Checking, NotificationsSpaced, CrashIsBehind, CrashSeen

-----------------------------------------------------------------------------
\* The inductive invariant: what the check compares with, the age of each kind's last
\* notification and the status of the last check, is what happened.
THEOREM Invariance == Spec => []IInv
<1>1. IInv /\ [Next]_vars => IInv'
  BY CheckOomKeeps, CheckCrashKeeps, CheckRestartsKeeps, CheckHealthKeeps, SaveStateKeeps,
     SaveFailsKeeps, BeginScanKeeps, InspectFailsKeeps, ResolveOldEventsKeeps,
     ResolveEventKeeps, WorldKeeps, TickKeeps, StutterKeeps DEF Next, Scan, Check
<1> QED BY IInvInit, <1>1, PTL DEF Spec

\* The monitor's rows, ages and events keep their types, for any setups and bounds.
THEOREM TypeCorrect == Spec => []TypeOK
<1>1. IInv => TypeOK
  BY DEF IInv
<1> QED BY <1>1, Invariance, PTL

\* A second notification of a kind within the cooldown needs a lost mark, whatever
\* the cooldown and the distance of the scans.
THEOREM Spaced == Spec => []NotificationsSpaced
<1>1. IInv => NotificationsSpaced
  BY DEF IInv
<1> QED BY <1>1, Invariance, PTL

\* One exit is one CRASH event, and one more for each call that failed at most,
\* however often the container exits and starts and whenever it is looked at.
THEOREM ReportedOnce == Spec => []CrashReportedOnce
<1>1. IInv => CrashReportedOnce
  BY DEF IInv, CrashIsBehind, CrashReportedOnce
<1> QED BY <1>1, Invariance, PTL

-----------------------------------------------------------------------------
(* The restart loop: counts and ages of restarts.                          *)

\* As many of the last restarts as the count has grown by since base are at most
\* this old.
Recent(base, age) ==
  \A i \in 1 .. Threshold :
    i <= container.restartCount - base => i <= Len(restarts) /\ restarts[i] <= age

\* What a window has counted lies within it, or before its first scan.
WindowCounts(r) ==
  r.window # None /\ r.window <= Window => Recent(r.baseline, r.window + MaxGap)

CountsKnown ==
  container.status # "gone" =>
    /\ row.count # None => Recent(row.count, savedAge)
    /\ WindowCounts(row)
    /\ Checking => state.count = row.count /\ WindowCounts(state)

LInv == IInv /\ CountsKnown

\* Within a scan the container, the row and the clock stand still.
LEMMA StillKeepsCounts ==
  ASSUME LInv, UNCHANGED <<container, row, restarts, savedAge>>,
         Checking' => state'.count = row.count /\ WindowCounts(state')
  PROVE  CountsKnown'
  BY DEF LInv, CountsKnown, WindowCounts, Recent

\* What a notice changes in the copy is a mark.
LEMMA RaiseCounts ==
  ASSUME LInv, NEW kind, NEW next, NEW base \in MonitorState, Raise(kind, next, base),
         base.count = row.count, WindowCounts(base)
  PROVE  CountsKnown'
<1>1. CASE Abandon
  BY <1>1, StillKeepsCounts DEF Abandon, Goto, Checking
<1>2. CASE ~Abandon
  <2>1. /\ UNCHANGED <<container, row, restarts, savedAge>>
        /\ state'.count = base.count /\ state'.window = base.window /\ state'.baseline = base.baseline
    BY <1>2 DEF Raise, MonitorState
  <2>2. WindowCounts(state')
    BY <2>1 DEF WindowCounts
  <2> QED BY <2>1, <2>2, StillKeepsCounts
<1> QED BY <1>1, <1>2

LEMMA PassCounts ==
  ASSUME LInv, NEW next, NEW base, Pass(next, base), base.count = row.count, WindowCounts(base)
  PROVE  CountsKnown'
  BY StillKeepsCounts DEF Pass, history

LEMMA CheckCounts ==
  ASSUME LInv, CheckOom \/ CheckCrash \/ CheckHealth
  PROVE  CountsKnown'
<1>1. state \in MonitorState /\ state.count = row.count /\ WindowCounts(state)
  BY DEF LInv, IInv, TypeOK, CountsKnown, ChecksWhatIsThere, CheckOom, CheckCrash, CheckHealth, Checking
<1> QED BY <1>1, RaiseCounts, PassCounts DEF CheckOom, CheckCrash, CheckHealth

\* A window is opened with the count of the last scan that was saved, MaxGap ago.
LEMMA OpenedCounts ==
  ASSUME LInv, pc = "restart", state.count # None
  PROVE  /\ Opened.count = row.count /\ WindowCounts(Opened)
         /\ Opened.window \in 0 .. Window
<1>1. /\ state \in MonitorState /\ state.count = row.count /\ WindowCounts(state)
      /\ Recent(row.count, savedAge) /\ savedAge \in 0 .. MaxGap
      /\ restarts \in Seq(0 .. Horizon)
  BY DEF LInv, IInv, TypeOK, CountsKnown, ChecksWhatIsThere, Checking
<1>2. CASE state.window = None \/ state.window > Window
  <2>1. Opened.window = 0 /\ Opened.baseline = state.count /\ Opened.count = state.count
    BY <1>1, <1>2 DEF Opened, MonitorState
  <2>2. Recent(row.count, MaxGap)
    <3> SUFFICES ASSUME NEW i \in 1 .. Threshold, i <= container.restartCount - row.count
                 PROVE  i <= Len(restarts) /\ restarts[i] <= MaxGap
      BY DEF Recent
    <3>1. i <= Len(restarts) /\ restarts[i] <= savedAge
      BY <1>1 DEF Recent
    <3>2. restarts[i] \in Int /\ savedAge \in Int /\ MaxGap \in Int /\ savedAge <= MaxGap
      BY <1>1, <3>1, TimesAssumption, LoopAssumption, ElementOfSeq, LenProperties DEF Horizon
    <3> QED BY <3>1, <3>2
  <2>3. 0 + MaxGap = MaxGap
    BY TimesAssumption
  <2> QED BY <1>1, <2>1, <2>2, <2>3, LoopAssumption DEF WindowCounts
<1>3. CASE ~(state.window = None \/ state.window > Window)
  BY <1>1, <1>3, LoopAssumption DEF Opened, MonitorState, None, Stable
<1> QED BY <1>2, <1>3

LEMMA CheckRestartsCounts ==
  ASSUME LInv, CheckRestarts
  PROVE  CountsKnown'
<1>1. /\ state \in MonitorState /\ state.count = row.count /\ WindowCounts(state)
      /\ pc = "restart"
  BY DEF LInv, IInv, TypeOK, CountsKnown, ChecksWhatIsThere, Checking, CheckRestarts
<1>2. ASSUME NEW base \in MonitorState
      PROVE  WindowCounts(Close(base)) /\ Close(base).count = base.count /\ Close(base) \in MonitorState
  BY CloseType DEF WindowCounts, Close, MonitorState
<1>3. Opened \in MonitorState
  BY OpenedType DEF LInv, IInv
<1>4. CASE state.count # None
  <2>1. WindowCounts(Opened) /\ Opened.count = row.count
    BY <1>1, <1>4, OpenedCounts
  <2> QED BY <1>1, <1>2, <1>3, <2>1, RaiseCounts, PassCounts DEF CheckRestarts
<1>5. CASE state.count = None
  BY <1>1, <1>2, <1>5, PassCounts DEF CheckRestarts
<1> QED BY <1>4, <1>5

LEMMA SaveStateCounts ==
  ASSUME LInv, SaveState
  PROVE  CountsKnown'
<1>1. /\ state \in MonitorState /\ WindowCounts(state)
      /\ container.status # "gone" /\ container.restartCount \in Nat
  BY BoundsAssumption DEF LInv, IInv, TypeOK, CountsKnown, ChecksWhatIsThere, Checking, SaveState
<1>2. /\ row'.count = container.restartCount /\ row'.window = state.window
      /\ row'.baseline = state.baseline
  BY <1>1 DEF SaveState, MonitorState
<1>3. UNCHANGED <<container, restarts>> /\ ~Checking'
  BY DEF SaveState, Goto, Checking
<1>4. Recent(row.count, savedAge)'
  BY <1>1, <1>2, <1>3, LoopAssumption DEF Recent
<1>5. WindowCounts(row)'
  BY <1>1, <1>2, <1>3 DEF WindowCounts, Recent
<1> QED BY <1>3, <1>4, <1>5 DEF CountsKnown

LEMMA BeginScanCounts ==
  ASSUME LInv, BeginScan
  PROVE  CountsKnown'
  BY DEF LInv, BeginScan, Goto, history, CountsKnown, Checking, WindowCounts, Recent

\* A restart pushes every other one back by one; a start by hand resets the count,
\* which then has grown less than there were restarts.
LEMMA WorldCounts ==
  ASSUME LInv, World
  PROVE  CountsKnown'
<1> USE DEF LInv, IInv, worldOnly, scanner
<1>0. /\ pc = "idle" /\ pc' = pc /\ row' = row /\ savedAge' = savedAge
      /\ container'.status # "gone" => container.status # "gone"
  BY DEF World, Exit, PolicyRestart, Start, HealthChanges, Remove, TypeOK
<1>1. ASSUME NEW base \in Int, NEW age \in Nat, Recent(base, age)
      PROVE  Recent(base, age)'
  <2>1. CASE Exit \/ HealthChanges \/ Remove
    <3>1. container'.restartCount = container.restartCount /\ restarts' = restarts
      BY <2>1 DEF Exit, HealthChanges, Remove, TypeOK
    <3> QED BY <1>1, <3>1 DEF Recent
  <2>2. CASE Start
    <3>1. container'.restartCount = 0 /\ restarts' = restarts /\ container.restartCount \in Nat
      BY <2>2, BoundsAssumption DEF Start, TypeOK
    <3> QED BY <1>1, <3>1, LoopAssumption DEF Recent
  <2>3. CASE PolicyRestart
    <3> DEFINE all == <<0>> \o restarts
               n == IF Len(restarts) < Threshold THEN Len(restarts) + 1 ELSE Threshold
    <3>1. container'.restartCount = container.restartCount + 1 /\ container.restartCount \in Nat
      BY <2>3, BoundsAssumption DEF PolicyRestart, TypeOK
    <3>2. /\ restarts \in Seq(0 .. Horizon) /\ Len(restarts) \in Nat /\ Len(restarts) <= Threshold
          /\ Threshold \in Nat \ {0}
      BY LoopAssumption, LenProperties DEF TypeOK
    <3>3. <<0>> \in Seq(0 .. Horizon) /\ Len(<<0>>) = 1 /\ <<0>>[1] = 0
      BY LoopAssumption, TimesAssumption DEF Horizon
    <3>4. /\ all \in Seq(0 .. Horizon) /\ Len(all) = Len(restarts) + 1
          /\ all[1] = 0 /\ \A i \in 2 .. Len(restarts) + 1 : all[i] = restarts[i - 1]
      BY <3>2, <3>3, ConcatProperties
    <3>5. n \in Int /\ n <= Len(all) /\ n >= 1
      BY <3>2, <3>4
    <3> HIDE DEF all, n
    <3>6. \A i \in 1 .. n : all[i] \in 0 .. Horizon
      <4>1. \A i \in 1 .. n : i \in 1 .. Len(all)
        BY <3>4, <3>5
      <4> QED BY <3>4, <4>1, ElementOfSeq
    <3>7. Len(SubSeq(all, 1, n)) = n /\ \A i \in 1 .. n : SubSeq(all, 1, n)[i] = all[i]
      BY <3>5, <3>6, SubSeqProperties
    <3>8. restarts' = SubSeq(all, 1, n)
      BY <2>3 DEF PolicyRestart, all, n
    <3> SUFFICES ASSUME NEW i \in 1 .. Threshold, i <= container'.restartCount - base
                 PROVE  i <= Len(restarts') /\ restarts'[i] <= age
      BY DEF Recent
    <3>9. CASE i = 1
      BY <3>4, <3>5, <3>7, <3>8, <3>9
    <3>10. CASE i > 1
      <4>1. i - 1 \in 1 .. Threshold /\ i - 1 <= container.restartCount - base
        BY <3>1, <3>2, <3>10
      <4>2. i - 1 <= Len(restarts) /\ restarts[i - 1] <= age
        BY <1>1, <4>1 DEF Recent
      <4>3. i \in 1 .. n /\ i \in 2 .. Len(restarts) + 1
        BY <3>2, <3>10, <4>2 DEF n
      <4> QED BY <3>4, <3>5, <3>7, <3>8, <4>2, <4>3
    <3> QED BY <3>9, <3>10
  <2> QED BY <2>1, <2>2, <2>3 DEF World
<1>2. /\ row.count \in Int /\ row.baseline \in Int /\ row.window \in None .. Stable + 1
      /\ savedAge \in Nat /\ MaxGap \in Nat
  BY TimesAssumption, BoundsAssumption DEF TypeOK, MonitorState, None
<1>3. row.window # None => row.window + MaxGap \in Nat
  BY <1>2, LoopAssumption DEF None, Stable
<1>4. CASE container'.status = "gone"
  BY <1>4 DEF CountsKnown
<1>5. CASE container'.status # "gone"
  <2>1. row.count # None => Recent(row.count, savedAge)'
    BY <1>0, <1>1, <1>2, <1>5 DEF CountsKnown
  <2>2. row.window # None /\ row.window <= Window => Recent(row.baseline, row.window + MaxGap)'
    BY <1>0, <1>1, <1>2, <1>3, <1>5 DEF CountsKnown, WindowCounts
  <2> QED BY <1>0, <2>1, <2>2 DEF CountsKnown, WindowCounts, Checking, Recent
<1> QED BY <1>4, <1>5

LEMMA TickCounts ==
  ASSUME LInv, Tick
  PROVE  CountsKnown'
<1> USE DEF LInv, IInv, Tick, scanner
<1>1. /\ row \in MonitorState /\ row.window \in None .. Stable + 1
      /\ restarts \in Seq(0 .. Horizon) /\ savedAge \in 0 .. MaxGap
      /\ Window \in Nat /\ MaxGap \in Nat /\ Threshold \in Nat
  BY TimesAssumption, LoopAssumption DEF TypeOK, MonitorState
<1>2. /\ row'.count = row.count /\ row'.baseline = row.baseline
      /\ row'.window = Older(row.window, Stable + 1)
      /\ container' = container /\ ~Checking'
  BY <1>1 DEF MonitorState, Checking
<1>3. /\ Len(restarts) \in Nat /\ Len(restarts') = Len(restarts)
      /\ \A i \in 1 .. Len(restarts) : restarts[i] \in Nat /\ restarts'[i] <= restarts[i] + 1
  <2>1. /\ Len(restarts) \in Nat /\ DOMAIN restarts = 1 .. Len(restarts) /\ Horizon \in Nat
        /\ \A i \in 1 .. Len(restarts) : restarts[i] \in 0 .. Horizon
    BY <1>1, LenProperties, ElementOfSeq DEF Horizon
  <2>2. restarts' = [i \in 1 .. Len(restarts) |-> Older(restarts[i], Horizon)]
    BY <2>1
  <2>3. Len(restarts') = Len(restarts)
    BY <2>1, <2>2
  <2>4. \A i \in 1 .. Len(restarts) : restarts'[i] <= restarts[i] + 1
    BY <2>1, <2>2 DEF Older
  <2> QED BY <2>1, <2>3, <2>4
<1> DEFINE Later(base, age) ==
      \A i \in 1 .. Threshold :
        i <= container.restartCount - base => i <= Len(restarts') /\ restarts'[i] <= age
<1>4. ASSUME NEW base, NEW age \in Nat, Recent(base, age)
      PROVE  Later(base, age + 1)
  <2> SUFFICES ASSUME NEW i \in 1 .. Threshold, i <= container.restartCount - base
               PROVE  i <= Len(restarts') /\ restarts'[i] <= age + 1
    OBVIOUS
  <2>1. i <= Len(restarts) /\ restarts[i] <= age
    BY <1>4 DEF Recent
  <2>2. i \in 1 .. Len(restarts) /\ restarts'[i] \in Int
    <3>1. i \in 1 .. Len(restarts)
      BY <1>1, <1>3, <2>1
    <3>2. restarts[i] \in Nat /\ restarts[i] \in 0 .. Horizon /\ DOMAIN restarts = 1 .. Len(restarts)
      BY <1>1, <1>3, <3>1, LenProperties, ElementOfSeq
    <3>3. restarts'[i] = Older(restarts[i], Horizon)
      BY <3>1, <3>2
    <3> QED BY <3>1, <3>2, <3>3 DEF Older
  <2>3. restarts[i] \in Nat /\ restarts'[i] <= restarts[i] + 1 /\ Len(restarts') = Len(restarts)
    BY <1>3, <2>2
  <2> QED BY <2>1, <2>2, <2>3
<1> HIDE DEF Later
<1>5. CASE container.status = "gone"
  BY <1>2, <1>5 DEF CountsKnown
<1>6. CASE container.status # "gone"
  <2>1. savedAge' = savedAge + 1 /\ savedAge \in Nat
    BY <1>1, <1>6 DEF Older, None
  <2>2. row'.count # None => Recent(row.count, savedAge)'
    <3>1. row.count # None => Later(row.count, savedAge + 1)
      BY <1>4, <1>6, <2>1 DEF CountsKnown
    <3> QED BY <1>2, <2>1, <3>1 DEF Recent, Later
  <2>3. WindowCounts(row)'
    <3> SUFFICES ASSUME row'.window # None, row'.window <= Window
                 PROVE  Recent(row.baseline, row.window + MaxGap)'
      BY DEF WindowCounts
    <3>1. row.window \in Nat /\ row.window <= Window /\ row'.window = row.window + 1
      BY <1>1, <1>2 DEF Older, None, Stable
    <3>2. Recent(row.baseline, row.window + MaxGap) /\ row.window + MaxGap \in Nat
      BY <1>1, <1>6, <3>1 DEF CountsKnown, WindowCounts, None
    <3>3. Later(row.baseline, row.window + MaxGap + 1)
      BY <1>4, <3>2
    <3>4. row'.window + MaxGap = row.window + MaxGap + 1
      BY <1>1, <3>1
    <3> QED BY <1>2, <3>3, <3>4 DEF Recent, Later
  <2> QED BY <1>2, <2>2, <2>3 DEF CountsKnown
<1> QED BY <1>5, <1>6

\* A failed inspection, the end of a scan and a user's click leave counts and ages.
LEMMA OtherCounts ==
  ASSUME LInv, SaveFails \/ InspectFails \/ ResolveOldEvents \/ ResolveEvent \/ UNCHANGED vars
  PROVE  CountsKnown'
<1>1. UNCHANGED <<container, row, restarts, savedAge>>
  BY DEF SaveFails, Abandon, InspectFails, ResolveOldEvents, ResolveEvent, history, vars
<1>2. Checking' => Checking /\ state' = state
  BY DEF SaveFails, Abandon, InspectFails, ResolveOldEvents, ResolveEvent, Goto, Checking,
         scanner, vars
<1>3. Checking' => state'.count = row.count /\ WindowCounts(state')
  BY <1>2 DEF LInv, IInv, CountsKnown, ChecksWhatIsThere
<1> QED BY <1>1, <1>3, StillKeepsCounts

\* Counts and ages belong together in every state.
THEOREM CountsInvariance == Spec => []LInv
<1>1. Init => CountsKnown
  BY DEF Init, CountsKnown, NewState, WindowCounts, Checking
<1>2. LInv /\ IInv' /\ [Next]_vars => CountsKnown'
  BY CheckCounts, CheckRestartsCounts, SaveStateCounts, BeginScanCounts, WorldCounts,
     TickCounts, OtherCounts DEF Next, Scan, Check
<1>3. IInv /\ CountsKnown <=> LInv
  BY DEF LInv
<1>4. (IInv /\ CountsKnown) /\ IInv' /\ [Next]_vars => CountsKnown'
  BY <1>2, <1>3
<1>5. Spec => []CountsKnown
  BY <1>1, <1>4, Invariance, PTL DEF Spec
<1> QED BY <1>3, <1>5, Invariance, PTL

\* A restart loop is raised only where the container did restart that often, the
\* first time at most the window and one scan's distance ago, for any threshold,
\* window and distance, over resets of the daemon's count and scans that fail.
THEOREM LoopsAreRecent == Spec => LoopIsRecent
<1> DEFINE Raised == "RESTART_LOOP" \in active' \ active
           Happened == Len(restarts) = Threshold /\ restarts[Threshold] <= Window + MaxGap
<1>1. ASSUME LInv, Next, Raised PROVE Happened
  <2>1. CheckRestarts /\ Raise("RESTART_LOOP", "health", Close(Opened))
    <3>1. ~(World \/ Tick \/ BeginScan \/ InspectFails \/ SaveState \/ SaveFails)
      BY <1>1 DEF World, Exit, PolicyRestart, Start, HealthChanges, Remove, worldOnly, Tick,
                  BeginScan, InspectFails, SaveState, SaveFails, Abandon
    <3>2. ~(ResolveOldEvents \/ ResolveEvent)
      BY <1>1 DEF ResolveOldEvents, ResolveEvent
    <3>3. ~(CheckOom \/ CheckCrash \/ CheckHealth)
      BY <1>1 DEF CheckOom, CheckCrash, CheckHealth, Raise, Abandon, Pass
    <3>4. CheckRestarts
      BY <1>1, <3>1, <3>2, <3>3 DEF Next, Scan, Check
    <3>5. \A base : ~Pass("health", base)
      BY <1>1 DEF Pass
    <3> QED BY <3>4, <3>5 DEF CheckRestarts
  <2>2. /\ state.count # None /\ container.restartCount - Opened.baseline >= Threshold
        /\ pc = "restart"
    <3>1. \A base : ~Pass("health", base)
      BY <1>1 DEF Pass
    <3> QED BY <2>1, <3>1 DEF CheckRestarts
  <2>3. /\ WindowCounts(Opened) /\ Opened.window \in 0 .. Window /\ Opened.baseline \in Int
    <3>1. Opened \in MonitorState
      BY <1>1, OpenedType DEF LInv, IInv
    <3> QED BY <1>1, <2>2, <3>1, OpenedCounts, BoundsAssumption DEF MonitorState, None
  <2>4. /\ container.restartCount \in Int /\ Threshold \in 1 .. Threshold
        /\ Window \in Nat /\ MaxGap \in Nat /\ Opened.window # None
    BY <1>1, <2>3, LoopAssumption, TimesAssumption, BoundsAssumption DEF LInv, IInv, TypeOK, None
  <2>5. Recent(Opened.baseline, Opened.window + MaxGap)
    BY <2>3, <2>4 DEF WindowCounts
  <2>6. Threshold <= container.restartCount - Opened.baseline
    BY <2>2, <2>3, <2>4
  <2>7. Threshold <= Len(restarts) /\ restarts[Threshold] <= Opened.window + MaxGap
    BY <2>4, <2>5, <2>6 DEF Recent
  <2>8. /\ Len(restarts) <= Threshold /\ Len(restarts) \in Nat
        /\ restarts \in Seq(0 .. Horizon)
    BY <1>1, LenProperties DEF LInv, IInv, TypeOK
  <2>9. Len(restarts) = Threshold /\ restarts[Threshold] \in Int
    <3>1. Len(restarts) = Threshold
      BY <2>4, <2>7, <2>8
    <3>2. restarts[Threshold] \in 0 .. Horizon
      BY <2>4, <2>8, <3>1, ElementOfSeq
    <3> QED BY <3>1, <3>2
  <2> QED BY <2>3, <2>4, <2>7, <2>9
<1>2. LInv /\ [Next]_vars => [Raised => Happened]_vars
  BY <1>1
<1> QED BY <1>2, CountsInvariance, PTL DEF Spec, LoopIsRecent
=============================================================================
