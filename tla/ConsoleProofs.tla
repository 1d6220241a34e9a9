---------------------------- MODULE ConsoleProofs ----------------------------
(* Theorems about Console, for any hosts, containers and number of pending  *)
(* requests, whatever order they are answered in.                           *)
EXTENDS Console, SequenceTheorems, TLAPS

-----------------------------------------------------------------------------
(* What holds whatever overtook what.                                      *)

\* Before anything was navigated to, the console knows nothing but the dashboard.
HashInv ==
  hash = None =>
    /\ currentPage = "dashboard"
    /\ ~OnContainers
    /\ \A j \in DOMAIN tasks :
         /\ tasks[j].page \in {None, "dashboard"}
         /\ tasks[j].kind \notin {"route", "list", "drift", "action", "create", "submit"}

\* Nobody's data is in a view that shows none.
ContentInv ==
  /\ content \in Content
  /\ (content.view = "logs") = (content.of # None)
  /\ content.view # "logs" => content.logs = None /\ ~content.tail
  /\ content.view \in {"blank", "loading", "error"} => content.host = None

\* A page task has a page to show.
TasksInv ==
  /\ tasks \in Seq(Task)
  /\ \A j \in DOMAIN tasks : tasks[j].kind = "page" => tasks[j].page # None

\* The types of everything else.
RestInv ==
  /\ started \in BOOLEAN /\ hash \in Pages \cup {None}
  /\ currentPage \in Pages /\ hostId \in Hosts \cup {None}
  /\ instance \in Pages \cup {None} /\ cached \subseteq Pages
  /\ timers \in Nat /\ timerId \in BOOLEAN
  /\ rows \in Hosts \cup {None} /\ view \in {"list", "create", "logs"}
  /\ logTimer \in Containers \cup {None} /\ orphans \subseteq Containers
  /\ loading \subseteq Containers
  /\ overtook \in BOOLEAN /\ outdated \in BOOLEAN /\ left \subseteq Containers

BasicInv == ContentInv /\ TasksInv /\ RestInv /\ HashInv

\* Where lines of another container can come from: an interval or a request that
\* was made in a view the router replaced.
LogsInv ==
  LET shown == IF content.view = "logs" THEN {content.of} ELSE {} IN
  /\ LogsOfTheView
  /\ orphans \subseteq left
  /\ logTimer \in {None} \cup left \cup (IF content.tail THEN shown ELSE {})
  /\ loading \subseteq left \cup shown
  /\ content.view # "logs" => loading = {}

-----------------------------------------------------------------------------
(* What holds while nothing happened that ShowsWhatIsSelected excepts.     *)

outrun == overtook \/ outdated
USE DEF outrun, history

\* The last page whose module is on its way is p.
LastImport(ts, p) ==
  \A j \in DOMAIN ts :
    ts[j].kind = "page" =>
      ts[j].page = p \/ \E k \in DOMAIN ts : j < k /\ ts[k].kind = "page"

\* The page that is shown, or will be when the modules are there.
PageInv ==
  started /\ ~outrun =>
    /\ LastImport(tasks, currentPage)
    /\ \/ content.view \in ViewsOf(currentPage) \cup {"error"}
       \/ \E j \in DOMAIN tasks : tasks[j].kind = "page"

Switch(task) == task.kind \in {"ping", "route"}

\* A task that will replace what is shown.
Moving(ts) == \E k \in DOMAIN ts : Switch(ts[k]) \/ ts[k].kind = "page"

\* Data of host h are asked for, after task j was.
Asked(ts, kind, h, j) == \E k \in DOMAIN ts : j < k /\ ts[k].kind = kind /\ ts[k].host = h

\* A task that will bring another host's data is followed by one that loads the
\* page once more.
Followed(ts, h) ==
  \A j \in DOMAIN ts :
    ts[j].host \notin {None, h} /\ ts[j].kind # "usage" =>
      \E k \in DOMAIN ts : j < k /\ Switch(ts[k])

\* Another host's data do not outlast the tasks: those on the screen,
Outlived(ts, h, shown) ==
  shown.host \notin {h, None, "none"} =>
    \/ Moving(ts)
    \/ shown.view = "dashboard" /\ Asked(ts, "stats", h, 0)
    \/ shown.view = "list" /\ Asked(ts, "list", h, 0)

\* those of a usage answer, which shows the containers it was asked with,
UsageOutlived(ts, h, v) ==
  \A j \in DOMAIN ts :
    ts[j].kind = "usage" /\ ts[j].host \notin {None, h} /\ v = "dashboard" =>
      Moving(ts) \/ Asked(ts, "stats", h, j)

\* and the rows of the list, which a drift answer shows.
RowsOutlived(ts, h, v, of) ==
  \A j \in DOMAIN ts :
    ts[j].kind = "drift" =>
      /\ ts[j].host # None
      /\ of \notin {None, h} /\ v = "list" => Moving(ts) \/ Asked(ts, "list", h, j)

HostInv ==
  ~outrun /\ hostId # None =>
    /\ Followed(tasks, hostId)
    /\ Outlived(tasks, hostId, content)
    /\ UsageOutlived(tasks, hostId, content.view)
    /\ RowsOutlived(tasks, hostId, content.view, rows)

ConsoleInv == BasicInv /\ OneDashboardTimer /\ LogsInv /\ PageInv /\ HostInv

-----------------------------------------------------------------------------
(* The records the console is made of.                                     *)

Kinds == {"hosts", "route", "ping", "page", "stats", "usage", "list", "drift", "create",
          "submit", "action"}

\* A task that captured nothing, a host, or a page.
LEMMA TaskShapes ==
  /\ \A kind \in Kinds :
       /\ Plain(kind) \in Task
       /\ Plain(kind).kind = kind /\ Plain(kind).page = None /\ Plain(kind).host = None
  /\ \A kind \in Kinds, h \in Hosts \cup {None} :
       /\ OfHost(kind, h) \in Task
       /\ OfHost(kind, h).kind = kind /\ OfHost(kind, h).page = None
       /\ OfHost(kind, h).host = h
  /\ \A p \in Pages :
       LET task == [Plain("page") EXCEPT !.page = p] IN
       task \in Task /\ task.kind = "page" /\ task.page = p /\ task.host = None
BY DEF Plain, OfHost, Task, Kinds

\* A view that shows nobody's data, and one that shows a host's.
LEMMA ContentShapes ==
  ASSUME NEW v \in {"blank", "loading", "error", "dashboard", "list", "create"}
  PROVE  /\ Fresh(v) \in Content /\ Fresh(v).view = v /\ Fresh(v).host = None
         /\ Fresh(v).of = None /\ Fresh(v).logs = None /\ ~Fresh(v).tail
         /\ \A h \in Hosts \cup {None, "none"} : \A new :
              new = [Fresh(v) EXCEPT !.host = h] =>
                /\ new \in Content /\ new.view = v /\ new.host = h
                /\ new.of = None /\ new.logs = None /\ ~new.tail
BY DEF Fresh, Content

\* What a page shows when it was just rendered.
LEMMA RenderedShape ==
  ASSUME NEW p \in Pages
  PROVE  /\ Rendered(p) \in Content
         /\ Rendered(p).view = (IF p = "dashboard" THEN "dashboard" ELSE "list")
         /\ Rendered(p).host = (IF hostId = None THEN "none" ELSE None)
         /\ Rendered(p).of = None /\ Rendered(p).logs = None /\ ~Rendered(p).tail
<1> DEFINE v == IF p = "dashboard" THEN "dashboard" ELSE "list"
           h == IF hostId = None THEN "none" ELSE None
<1>1. v \in {"blank", "loading", "error", "dashboard", "list", "create"}
      /\ h \in Hosts \cup {None, "none"}
  OBVIOUS
<1>2. Rendered(p) = [Fresh(v) EXCEPT !.host = h]
  BY DEF Rendered
<1> HIDE DEF v, h
<1>3. /\ Rendered(p) \in Content /\ Rendered(p).view = v /\ Rendered(p).host = h
      /\ Rendered(p).of = None /\ Rendered(p).logs = None /\ ~Rendered(p).tail
  BY <1>1, <1>2, ContentShapes
<1> QED BY <1>3 DEF v, h

\* What a page asks for when it was just rendered.
LEMMA RequestsShape ==
  ASSUME hostId \in Hosts \cup {None}, NEW p \in Pages
  PROVE  /\ Requests(p) \in Seq(Task)
         /\ \A m \in DOMAIN Requests(p) :
              /\ Requests(p)[m].host = hostId /\ Requests(p)[m].page = None
              /\ Requests(p)[m].kind = (IF p = "dashboard" THEN "stats" ELSE "list")
         /\ hostId # None => 1 \in DOMAIN Requests(p)
<1> DEFINE kind == IF p = "dashboard" THEN "stats" ELSE "list"
<1>1. kind \in Kinds
  BY DEF Kinds
<1>2. CASE p # "dashboard" /\ hostId = None
  BY <1>2 DEF Requests
<1>3. CASE p = "dashboard" \/ hostId # None
  <2>1. Requests(p) = <<OfHost(kind, hostId)>>
    BY <1>3 DEF Requests
  <2> HIDE DEF kind
  <2>2. /\ OfHost(kind, hostId) \in Task /\ OfHost(kind, hostId).kind = kind
        /\ OfHost(kind, hostId).page = None /\ OfHost(kind, hostId).host = hostId
    BY <1>1, TaskShapes
  <2>3. /\ Requests(p) \in Seq(Task) /\ DOMAIN Requests(p) = {1}
        /\ Requests(p)[1] = OfHost(kind, hostId)
    BY <2>1, <2>2
  <2> QED BY <2>2, <2>3 DEF kind
<1> QED BY <1>2, <1>3

-----------------------------------------------------------------------------
(* What is left of the tasks, and what comes after them.                   *)

\* The place of task j when task i is gone.
Now(i, j) == IF i = 0 \/ j < i THEN j ELSE j - 1

\* The place of the m-th request that is made next.
Then(i, m) == Len(Rest(i)) + m

\* Those before i stay, those after it move up.
LEMMA RestIs ==
  ASSUME tasks \in Seq(Task), NEW i \in 0 .. Len(tasks)
  PROVE  /\ Rest(i) \in Seq(Task)
         /\ Len(Rest(i)) = (IF i = 0 THEN Len(tasks) ELSE Len(tasks) - 1)
         /\ \A n \in 1 .. Len(Rest(i)) :
              Rest(i)[n] = (IF i = 0 \/ n < i THEN tasks[n] ELSE tasks[n + 1])
<1>1. CASE i = 0
  BY <1>1 DEF Rest
<1>2. CASE i # 0
  <2> DEFINE before == SubSeq(tasks, 1, i - 1)
             after == SubSeq(tasks, i + 1, Len(tasks))
  <2>1. Rest(i) = before \o after
    BY <1>2 DEF Rest, RemoveAt
  <2>2. /\ before \in Seq(Task) /\ Len(before) = i - 1
        /\ \A n \in 1 .. i - 1 : before[n] = tasks[n]
    BY <1>2
  <2>3. /\ after \in Seq(Task) /\ Len(after) = Len(tasks) - i
        /\ \A n \in 1 .. Len(tasks) - i : after[n] = tasks[i + n]
    BY <1>2
  <2> HIDE DEF before, after
  <2>4. /\ before \o after \in Seq(Task)
        /\ Len(before \o after) = Len(before) + Len(after)
        /\ \A n \in 1 .. Len(before) + Len(after) :
             (before \o after)[n] =
               IF n <= Len(before) THEN before[n] ELSE after[n - Len(before)]
    BY <2>2, <2>3, ConcatProperties
  <2>5. ASSUME NEW n \in 1 .. Len(Rest(i))
        PROVE  Rest(i)[n] = (IF n < i THEN tasks[n] ELSE tasks[n + 1])
    <3>1. CASE n < i
      BY <1>2, <2>1, <2>2, <2>3, <2>4, <2>5, <3>1
    <3>2. CASE n >= i
      <4>1. n - (i - 1) \in 1 .. Len(tasks) - i /\ i + (n - (i - 1)) = n + 1
        BY <1>2, <2>1, <2>2, <2>3, <2>4, <2>5, <3>2
      <4>2. Rest(i)[n] = after[n - (i - 1)]
        BY <1>2, <2>1, <2>2, <2>3, <2>4, <2>5, <3>2
      <4> QED BY <2>3, <3>2, <4>1, <4>2
    <3> QED BY <3>1, <3>2
  <2> QED BY <1>2, <2>1, <2>2, <2>3, <2>4, <2>5
<1> QED BY <1>1, <1>2

\* Every task but i has a place in the new sequence, in the order it had; what is
\* asked for next comes after them, and there is nothing else.
Placed(i, more, ts) ==
  /\ ts \in Seq(Task)
  /\ \A j \in DOMAIN tasks \ {i} :
       /\ Now(i, j) \in DOMAIN ts /\ 0 < Now(i, j)
       /\ ts[Now(i, j)] = tasks[j]
  /\ \A j, k \in DOMAIN tasks \ {i} : j < k => Now(i, j) < Now(i, k)
  /\ \A m \in DOMAIN more :
       /\ Then(i, m) \in DOMAIN ts /\ 0 < Then(i, m)
       /\ ts[Then(i, m)] = more[m]
       /\ \A j \in DOMAIN tasks \ {i} : Now(i, j) < Then(i, m)
  /\ \A n \in DOMAIN ts :
       \/ \E j \in DOMAIN tasks \ {i} : n = Now(i, j)
       \/ \E m \in DOMAIN more : n = Then(i, m)

LEMMA NewTasks ==
  ASSUME tasks \in Seq(Task), NEW i \in 0 .. Len(tasks),
         NEW more \in Seq(Task), NEW ts, ts = Rest(i) \o more
  PROVE  Placed(i, more, ts)
<1> DEFINE rest == Rest(i)
<1>1. /\ rest \in Seq(Task)
      /\ Len(rest) = (IF i = 0 THEN Len(tasks) ELSE Len(tasks) - 1)
      /\ \A n \in 1 .. Len(rest) :
           rest[n] = (IF i = 0 \/ n < i THEN tasks[n] ELSE tasks[n + 1])
  BY RestIs
<1>2. ts = rest \o more
  OBVIOUS
<1> HIDE DEF rest
<1>3. /\ ts \in Seq(Task) /\ Len(ts) = Len(rest) + Len(more)
      /\ \A n \in 1 .. Len(rest) + Len(more) :
           ts[n] = IF n <= Len(rest) THEN rest[n] ELSE more[n - Len(rest)]
  <2>1. rest \in Seq(Task)
    BY <1>1
  <2>2. /\ rest \o more \in Seq(Task)
        /\ Len(rest \o more) = Len(rest) + Len(more)
        /\ \A n \in 1 .. Len(rest) + Len(more) :
             (rest \o more)[n] =
               IF n <= Len(rest) THEN rest[n] ELSE more[n - Len(rest)]
    BY <2>1, ConcatProperties
  <2> QED BY <1>2, <2>2, Zenon
<1>4. Len(tasks) \in Nat /\ Len(more) \in Nat /\ Len(rest) \in Nat
  BY <1>1
<1>5. ASSUME NEW j \in DOMAIN tasks \ {i}
      PROVE  Now(i, j) \in 1 .. Len(rest) /\ rest[Now(i, j)] = tasks[j]
  <2>1. j \in 1 .. Len(tasks) /\ j # i /\ i \in 0 .. Len(tasks)
    BY <1>5
  <2>2. CASE i = 0 \/ j < i
    <3>1. Now(i, j) = j /\ j \in 1 .. Len(rest)
      BY <1>1, <1>4, <2>1, <2>2 DEF Now
    <3> QED BY <1>1, <2>2, <3>1
  <2>3. CASE ~(i = 0 \/ j < i)
    <3>1. Now(i, j) = j - 1
      BY <2>3 DEF Now
    <3>2. j - 1 \in 1 .. Len(rest) /\ ~(i = 0 \/ j - 1 < i) /\ j - 1 + 1 = j
      BY <1>1, <1>4, <2>1, <2>3
    <3> QED BY <1>1, <3>1, <3>2
  <2> QED BY <2>2, <2>3
<1>6. ASSUME NEW j \in DOMAIN tasks \ {i}
      PROVE  Now(i, j) \in DOMAIN ts /\ 0 < Now(i, j) /\ ts[Now(i, j)] = tasks[j]
  <2>1. Now(i, j) \in 1 .. Len(rest) + Len(more) /\ Now(i, j) <= Len(rest) /\ Now(i, j) > 0
    BY <1>4, <1>5
  <2> QED BY <1>3, <1>5, <2>1
<1>7. ASSUME NEW j \in DOMAIN tasks \ {i}, NEW k \in DOMAIN tasks \ {i}, j < k
      PROVE  Now(i, j) < Now(i, k)
  <2>1. j \in Int /\ k \in Int /\ i \in Int /\ j # i /\ k # i /\ j > 0
    BY <1>4
  <2> QED BY <1>7, <2>1 DEF Now
<1>8. ASSUME NEW m \in DOMAIN more
      PROVE  /\ Then(i, m) \in DOMAIN ts /\ 0 < Then(i, m)
             /\ ts[Then(i, m)] = more[m]
             /\ \A j \in DOMAIN tasks \ {i} : Now(i, j) < Then(i, m)
  <2>1. m \in 1 .. Len(more)
    OBVIOUS
  <2>2. /\ Len(rest) + m \in 1 .. Len(rest) + Len(more) /\ Len(rest) + m > 0
        /\ ~(Len(rest) + m <= Len(rest)) /\ Len(rest) + m - Len(rest) = m
    BY <1>4, <2>1
  <2>3. \A j \in DOMAIN tasks \ {i} : Now(i, j) < Len(rest) + m
    BY <1>4, <1>5, <2>1
  <2>4. Then(i, m) = Len(rest) + m
    BY DEF Then, rest
  <2> QED BY <1>3, <2>2, <2>3, <2>4
<1>9. ASSUME NEW n \in DOMAIN ts
      PROVE  \/ \E j \in DOMAIN tasks \ {i} : n = Now(i, j)
             \/ \E m \in DOMAIN more : n = Then(i, m)
  <2>1. n \in 1 .. Len(rest) + Len(more)
    BY <1>3
  <2>2. CASE n <= Len(rest) /\ (i = 0 \/ n < i)
    <3>1. n \in 1 .. Len(tasks) /\ n # i /\ n = Now(i, n)
      BY <1>1, <1>4, <2>1, <2>2 DEF Now
    <3> QED BY <3>1
  <2>3. CASE n <= Len(rest) /\ ~(i = 0 \/ n < i)
    <3>1. i \in Nat
      OBVIOUS
    <3>2. n + 1 \in 1 .. Len(tasks) /\ n + 1 # i /\ ~(n + 1 < i) /\ n + 1 - 1 = n
      BY <1>1, <1>4, <2>1, <2>3, <3>1
    <3>3. n = Now(i, n + 1)
      BY <2>3, <3>2 DEF Now
    <3> QED BY <3>2, <3>3
  <2>4. CASE n > Len(rest)
    <3>1. n - Len(rest) \in 1 .. Len(more) /\ n = Len(rest) + (n - Len(rest))
      BY <1>4, <2>1, <2>4
    <3>2. Then(i, n - Len(rest)) = Len(rest) + (n - Len(rest))
      BY DEF Then, rest
    <3> QED BY <3>1, <3>2
  <2> QED BY <1>4, <2>1, <2>2, <2>3, <2>4
<1> QED BY <1>3, <1>6, <1>7, <1>8, <1>9 DEF Placed

\* Whatever waits then waited before or was asked for now.
Consists(i, more, ts) ==
  /\ ts \in Seq(Task)
  /\ \A n \in DOMAIN ts :
       \/ \E j \in DOMAIN tasks : j # i /\ ts[n] = tasks[j]
       \/ \E m \in DOMAIN more : ts[n] = more[m]
  /\ \A j \in DOMAIN tasks : j # i => \E n \in DOMAIN ts : ts[n] = tasks[j]
  /\ \A m \in DOMAIN more : \E n \in DOMAIN ts : ts[n] = more[m]

LEMMA OldOrNew ==
  ASSUME tasks \in Seq(Task), NEW i \in 0 .. Len(tasks),
         NEW more \in Seq(Task), NEW ts, ts = Rest(i) \o more
  PROVE  Consists(i, more, ts)
<1>1. Placed(i, more, ts)
  BY NewTasks
<1>2. ASSUME NEW n \in DOMAIN ts
      PROVE  \/ \E j \in DOMAIN tasks : j # i /\ ts[n] = tasks[j]
             \/ \E m \in DOMAIN more : ts[n] = more[m]
  BY <1>1, <1>2, Zenon DEF Placed
<1>3. ASSUME NEW j \in DOMAIN tasks, j # i PROVE \E n \in DOMAIN ts : ts[n] = tasks[j]
  BY <1>1, <1>3, Zenon DEF Placed
<1>4. ASSUME NEW m \in DOMAIN more PROVE \E n \in DOMAIN ts : ts[n] = more[m]
  BY <1>1, <1>4, Zenon DEF Placed
<1>5. ts \in Seq(Task)
  BY <1>1 DEF Placed
<1> QED BY <1>2, <1>3, <1>4, <1>5 DEF Consists

\* The other forms in which the actions say so.
LEMMA NoMore ==
  ASSUME tasks \in Seq(Task), NEW i \in 0 .. Len(tasks)
  PROVE  <<>> \in Seq(Task) /\ Rest(i) = Rest(i) \o <<>>
<1>1. Rest(i) \in Seq(Task)
  BY RestIs
<1> QED BY <1>1, ConcatEmptySeq

LEMMA AppendIsMore ==
  ASSUME tasks \in Seq(Task), NEW task \in Task
  PROVE  /\ 0 \in 0 .. Len(tasks) /\ <<task>> \in Seq(Task)
         /\ Append(tasks, task) = Rest(0) \o <<task>>
         /\ DOMAIN <<task>> = {1} /\ <<task>>[1] = task
<1>1. Append(tasks, task) = tasks \o <<task>>
  BY AppendIsConcat
<1>2. Rest(0) = tasks
  BY DEF Rest
<1> QED BY <1>1, <1>2

LEMMA Associative ==
  \A a, b, c \in Seq(Task) : (a \o b) \o c = a \o (b \o c)
BY ConcatAssociative

\* Two sequences of requests, one after the other.
Joins(a, b, ab) ==
  /\ ab \in Seq(Task)
  /\ \A m \in DOMAIN ab :
       \/ \E n \in DOMAIN a : ab[m] = a[n]
       \/ \E n \in DOMAIN b : ab[m] = b[n]
  /\ \A n \in DOMAIN a : \E m \in DOMAIN ab : ab[m] = a[n]

LEMMA Joined ==
  ASSUME NEW a \in Seq(Task), NEW b \in Seq(Task), NEW ab, ab = a \o b
  PROVE  Joins(a, b, ab)
<1>1. /\ ab \in Seq(Task) /\ Len(ab) = Len(a) + Len(b)
      /\ \A n \in 1 .. Len(a) + Len(b) : ab[n] = IF n <= Len(a) THEN a[n] ELSE b[n - Len(a)]
  BY ConcatProperties
<1>2. Len(a) \in Nat /\ Len(b) \in Nat
  OBVIOUS
<1>3. ASSUME NEW m \in DOMAIN ab
      PROVE  \/ \E n \in DOMAIN a : ab[m] = a[n]
             \/ \E n \in DOMAIN b : ab[m] = b[n]
  <2>1. m \in 1 .. Len(a) + Len(b)
    BY <1>1
  <2>2. CASE m <= Len(a)
    <3>1. m \in DOMAIN a /\ ab[m] = a[m]
      BY <1>1, <1>2, <2>1, <2>2
    <3> QED BY <3>1
  <2>3. CASE m > Len(a)
    <3>1. m - Len(a) \in DOMAIN b /\ ab[m] = b[m - Len(a)]
      BY <1>1, <1>2, <2>1, <2>3
    <3> QED BY <3>1
  <2> QED BY <1>2, <2>1, <2>2, <2>3
<1>4. ASSUME NEW n \in DOMAIN a PROVE n \in DOMAIN ab /\ ab[n] = a[n]
  <2>1. n \in 1 .. Len(a) + Len(b) /\ n <= Len(a)
    BY <1>2
  <2> QED BY <1>1, <2>1
<1> QED BY <1>1, <1>3, <1>4 DEF Joins

-----------------------------------------------------------------------------
(* What loading a page does, whoever asks for it.                          *)

\* What is asked for by a page that was just rendered, or to import it.
Loads(p, task) ==
  IF p \in cached
  THEN /\ task.kind = (IF p = "dashboard" THEN "stats" ELSE "list")
       /\ task.host = hostId /\ task.page = None
  ELSE task.kind = "page" /\ task.page = p /\ task.host = None

\* more are its requests and the caller's.
PageLoads(p, i, after, more) ==
  /\ more \in Seq(Task) /\ tasks' = Rest(i) \o more
  /\ \A m \in DOMAIN more : Loads(p, more[m]) \/ \E n \in DOMAIN after : more[m] = after[n]
  /\ p \notin cached \/ hostId # None => \E m \in DOMAIN more : Loads(p, more[m])
  /\ content' = (IF p \in cached THEN Rendered(p) ELSE Fresh("loading"))
  /\ instance' \in {p, instance}
  /\ loading' = {}
  /\ left' = left \cup (IF content.view = "logs" THEN {content.of} ELSE {})

LEMMA LoadPageDoes ==
  ASSUME TasksInv, RestInv, NEW p \in Pages, NEW i \in 0 .. Len(tasks),
         NEW after \in Seq(Task), LoadPage(p, i, after)
  PROVE  \E more : PageLoads(p, i, after, more)
<1>0. tasks \in Seq(Task) /\ hostId \in Hosts \cup {None} /\ Rest(i) \in Seq(Task)
  BY RestIs DEF TasksInv, RestInv
<1>1. CASE p \in cached
  <2> DEFINE asks == Requests(p)
             more == asks \o after
  <2>1. /\ asks \in Seq(Task)
        /\ \A m \in DOMAIN asks :
             /\ asks[m].host = hostId /\ asks[m].page = None
             /\ asks[m].kind = (IF p = "dashboard" THEN "stats" ELSE "list")
        /\ hostId # None => 1 \in DOMAIN asks
    BY <1>0, RequestsShape
  <2>2. /\ content' = Rendered(p) /\ tasks' = (Rest(i) \o asks) \o after
        /\ instance' = p /\ loading' = {}
        /\ left' = left \cup (IF content.view = "logs" THEN {content.of} ELSE {})
    BY <1>1 DEF LoadPage, ShowPage, Replace
  <2> HIDE DEF asks
  <2>3. asks \in Seq(Task)
    BY <2>1
  <2>4. more = asks \o after
    OBVIOUS
  <2> HIDE DEF more
  <2>5. Joins(asks, after, more)
    BY <2>3, <2>4, Joined
  <2>6. tasks' = Rest(i) \o more
    BY <1>0, <2>2, <2>3, <2>4, Associative
  <2>7. \A n \in DOMAIN asks : Loads(p, asks[n])
    BY <1>1, <2>1 DEF Loads
  <2>8. \A m \in DOMAIN more : Loads(p, more[m]) \/ \E n \in DOMAIN after : more[m] = after[n]
    BY <2>5, <2>7 DEF Joins
  <2>9. hostId # None => \E m \in DOMAIN more : Loads(p, more[m])
    BY <2>1, <2>5, <2>7 DEF Joins
  <2> QED BY <1>1, <2>5, <2>2, <2>6, <2>8, <2>9 DEF PageLoads, Joins
<1>2. CASE p \notin cached
  <2> DEFINE task == [Plain("page") EXCEPT !.page = p]
             asks == <<task>>
             more == asks \o after
  <2>1. task \in Task /\ task.kind = "page" /\ task.page = p /\ task.host = None
    BY TaskShapes
  <2>2. /\ content' = Fresh("loading") /\ tasks' = (Rest(i) \o asks) \o after
        /\ instance' = instance /\ loading' = {}
        /\ left' = left \cup (IF content.view = "logs" THEN {content.of} ELSE {})
    BY <1>2 DEF LoadPage, Replace
  <2> HIDE DEF task
  <2>3. asks \in Seq(Task) /\ DOMAIN asks = {1} /\ asks[1] = task
    BY <2>1
  <2>4. Joins(asks, after, more)
    BY <2>3, Joined
  <2>5. tasks' = Rest(i) \o more
    BY <1>0, <2>2, <2>3, Associative
  <2> HIDE DEF asks, more
  <2>6. \A n \in DOMAIN asks : Loads(p, asks[n])
    BY <1>2, <2>1, <2>3 DEF Loads
  <2>7. \A m \in DOMAIN more : Loads(p, more[m]) \/ \E n \in DOMAIN after : more[m] = after[n]
    BY <2>4, <2>6 DEF Joins
  <2>8. \E m \in DOMAIN more : Loads(p, more[m])
    BY <2>3, <2>4, <2>6 DEF Joins
  <2> QED BY <1>2, <2>2, <2>4, <2>5, <2>7, <2>8 DEF PageLoads, Joins
<1> QED BY <1>1, <1>2

\* What is shown then.
LEMMA LoadedContent ==
  ASSUME RestInv, NEW p \in Pages,
         content' = (IF p \in cached THEN Rendered(p) ELSE Fresh("loading"))
  PROVE  /\ ContentInv'
         /\ content'.view = (IF p \in cached THEN IF p = "dashboard" THEN "dashboard" ELSE "list"
                                             ELSE "loading")
         /\ content'.host = (IF p \in cached /\ hostId = None THEN "none" ELSE None)
         /\ content'.of = None /\ content'.logs = None /\ ~content'.tail
<1>1. CASE p \in cached
  <2>1. content' = Rendered(p)
    BY <1>1
  <2>2. /\ content' \in Content
        /\ content'.view = (IF p = "dashboard" THEN "dashboard" ELSE "list")
        /\ content'.host = (IF hostId = None THEN "none" ELSE None)
        /\ content'.of = None /\ content'.logs = None /\ ~content'.tail
    BY <2>1, RenderedShape
  <2> QED BY <1>1, <2>2 DEF ContentInv
<1>2. CASE p \notin cached
  <2>1. content' = Fresh("loading")
    BY <1>2
  <2>2. /\ content' \in Content /\ content'.view = "loading" /\ content'.host = None
        /\ content'.of = None /\ content'.logs = None /\ ~content'.tail
    BY <2>1, ContentShapes
  <2> QED BY <1>2, <2>2 DEF ContentInv
<1> QED BY <1>1, <1>2

\* What is shown when only the host changes whose data it is.
LEMMA ShownContent ==
  ASSUME ContentInv, content.view \in {"dashboard", "list"},
         NEW h \in Hosts \cup {None, "none"}, Showing(h)
  PROVE  /\ ContentInv' /\ content'.host = h /\ content'.view = content.view
         /\ content'.of = content.of /\ content'.logs = content.logs
         /\ content'.tail = content.tail
<1>1. /\ content' \in Content /\ content'.host = h /\ content'.view = content.view
      /\ content'.of = content.of /\ content'.logs = content.logs
      /\ content'.tail = content.tail
  BY DEF ContentInv, Content, Showing
<1> QED BY <1>1 DEF ContentInv

\* A page whose module has come, with the requests of its own.
LEMMA ModuleShows ==
  ASSUME TasksInv, RestInv, NEW p \in Pages, NEW i \in 0 .. Len(tasks),
         ShowPage(p, Rest(i), <<>>)
  PROVE  /\ Requests(p) \in Seq(Task) /\ tasks' = Rest(i) \o Requests(p)
         /\ instance' = p /\ content' = Rendered(p) /\ loading' = {}
         /\ left' = left \cup (IF content.view = "logs" THEN {content.of} ELSE {})
<1>1. Rest(i) \in Seq(Task) /\ Requests(p) \in Seq(Task) /\ <<>> \in Seq(Task)
  BY RestIs, RequestsShape DEF TasksInv, RestInv
<1>2. Requests(p) \o <<>> = Requests(p)
  BY <1>1, ConcatEmptySeq
<1>3. (Rest(i) \o Requests(p)) \o <<>> = Rest(i) \o (Requests(p) \o <<>>)
  BY <1>1, Associative
<1> QED BY <1>1, <1>2, <1>3 DEF ShowPage, Replace

-----------------------------------------------------------------------------
(* BasicInv.                                                               *)

LEMMA Resumed ==
  ASSUME TasksInv, NEW i \in DOMAIN tasks
  PROVE  /\ i \in 0 .. Len(tasks) /\ i # 0 /\ tasks[i] \in Task
         /\ tasks[i].kind \in Kinds /\ tasks[i].page \in Pages \cup {None}
         /\ tasks[i].host \in Hosts \cup {None}
         /\ tasks[i].kind = "page" => tasks[i].page \in Pages
<1>1. tasks \in Seq(Task)
  BY DEF TasksInv
<1>2. i \in 1 .. Len(tasks) /\ tasks[i] \in Task
  BY <1>1
<1>3. /\ tasks[i].kind \in Kinds /\ tasks[i].page \in Pages \cup {None}
      /\ tasks[i].host \in Hosts \cup {None}
  BY <1>2 DEF Task, Kinds
<1>4. tasks[i].kind = "page" => tasks[i].page # None
  BY DEF TasksInv
<1> QED BY <1>2, <1>3, <1>4

\* Only page tasks have a page to name, and at first only the dashboard.
LEMMA TasksKept ==
  ASSUME TasksInv, NEW i \in 0 .. Len(tasks), NEW more \in Seq(Task),
         tasks' = Rest(i) \o more,
         \A m \in DOMAIN more : more[m].kind = "page" => more[m].page # None
  PROVE  TasksInv'
<1>1. tasks \in Seq(Task)
  BY DEF TasksInv
<1>2. PICK ts : ts = tasks'
  OBVIOUS
<1>3. Consists(i, more, ts)
  BY <1>1, <1>2, OldOrNew
<1>4. \A n \in DOMAIN ts : ts[n].kind = "page" => ts[n].page # None
  BY <1>3 DEF Consists, TasksInv
<1> QED BY <1>2, <1>3, <1>4 DEF Consists, TasksInv

LEMMA HashKept ==
  ASSUME TasksInv, HashInv, NEW i \in 0 .. Len(tasks), NEW more \in Seq(Task),
         tasks' = Rest(i) \o more, hash = None => hash' = None \/ hash' \in Pages,
         hash # None => hash' # None,
         hash' = None => /\ currentPage' = "dashboard" /\ ~OnContainers'
                         /\ \A m \in DOMAIN more :
                              /\ more[m].page \in {None, "dashboard"}
                              /\ more[m].kind \notin {"route", "list", "drift", "action",
                                                     "create", "submit"}
  PROVE  HashInv'
<1> SUFFICES ASSUME hash' = None PROVE HashInv'
  BY DEF HashInv
<1>1. tasks \in Seq(Task)
  BY DEF TasksInv
<1>2. PICK ts : ts = tasks'
  OBVIOUS
<1>3. Consists(i, more, ts)
  BY <1>1, <1>2, OldOrNew
<1>4. hash = None
  OBVIOUS
<1>5. \A n \in DOMAIN ts :
        /\ ts[n].page \in {None, "dashboard"}
        /\ ts[n].kind \notin {"route", "list", "drift", "action", "create", "submit"}
  BY <1>3, <1>4 DEF Consists, HashInv
<1> QED BY <1>2, <1>5 DEF HashInv

\* The container of a logs view that is replaced.
LEMMA LeftIs ==
  ASSUME ContentInv, RestInv
  PROVE  left \cup (IF content.view = "logs" THEN {content.of} ELSE {}) \subseteq Containers
BY DEF ContentInv, Content, RestInv

\* The dashboard's cleanup takes away what was there.
LEMMA CleanupTypes ==
  ASSUME RestInv, OneDashboardTimer, Cleanup
  PROVE  /\ timers' \in Nat /\ timerId' \in BOOLEAN /\ OneDashboardTimer'
         /\ rows' \in Hosts \cup {None} /\ view' \in {"list", "create", "logs"}
<1>1. /\ timers \in Nat /\ timerId \in BOOLEAN
      /\ rows \in Hosts \cup {None} /\ view \in {"list", "create", "logs"}
  BY DEF RestInv
<1>2. /\ timers' = (IF instance = "dashboard" THEN timers - (IF timerId THEN 1 ELSE 0) ELSE timers)
      /\ timerId' = (IF instance = "dashboard" THEN FALSE ELSE timerId)
  BY DEF Cleanup, dashboard
<1>3. timers = IF timerId THEN 1 ELSE 0
  BY DEF OneDashboardTimer
<1>4. /\ timers' \in Nat /\ timerId' \in BOOLEAN
      /\ timers' = (IF timerId' THEN 1 ELSE 0)
  <2>1. CASE instance # "dashboard"
    BY <1>1, <1>2, <1>3, <2>1
  <2>2. CASE instance = "dashboard" /\ timerId
    <3>1. timers' = 0 /\ timerId' = FALSE
      BY <1>2, <1>3, <2>2
    <3> QED BY <3>1
  <2>3. CASE instance = "dashboard" /\ ~timerId
    <3>1. timers' = 0 /\ timerId' = FALSE
      BY <1>2, <1>3, <2>3
    <3> QED BY <3>1
  <2> QED BY <2>1, <2>2, <2>3
<1>5. rows' \in Hosts \cup {None} /\ view' \in {"list", "create", "logs"}
  BY <1>1 DEF Cleanup
<1> QED BY <1>4, <1>5 DEF OneDashboardTimer

LEMMA LoadPageBasic ==
  ASSUME BasicInv, OneDashboardTimer, NEW p \in Pages, NEW i \in 0 .. Len(tasks),
         NEW after \in Seq(Task), \A n \in DOMAIN after : after[n] = Plain("hosts"),
         LoadPage(p, i, after), currentPage' = p, hostId' = hostId, started' \in BOOLEAN,
         hash' = hash \/ hash' \in Pages, hash' = None => p = "dashboard"
  PROVE  BasicInv'
<1>1. ContentInv /\ TasksInv /\ RestInv /\ HashInv
  BY DEF BasicInv
<1>2. PICK more : PageLoads(p, i, after, more)
  BY <1>1, LoadPageDoes
<1>3. Plain("hosts").kind = "hosts" /\ Plain("hosts").page = None
  BY TaskShapes DEF Kinds
<1>4. /\ more \in Seq(Task) /\ tasks' = Rest(i) \o more
      /\ content' = (IF p \in cached THEN Rendered(p) ELSE Fresh("loading"))
      /\ instance' \in {p, instance} /\ loading' = {}
      /\ left' = left \cup (IF content.view = "logs" THEN {content.of} ELSE {})
  BY <1>2 DEF PageLoads
<1>5. ASSUME NEW m \in DOMAIN more
      PROVE  /\ more[m].page \in {None, p}
             /\ more[m].kind = "page" => more[m].page # None
             /\ more[m].kind \in {"hosts", "page", IF p = "dashboard" THEN "stats" ELSE "list"}
  <2>1. CASE Loads(p, more[m])
    BY <2>1, ConsoleAssumption DEF Loads
  <2>2. CASE \E n \in DOMAIN after : more[m] = after[n]
    BY <1>3, <2>2
  <2> QED BY <1>2, <2>1, <2>2 DEF PageLoads
<1>6. ContentInv' /\ content'.view \in {"dashboard", "list", "loading"}
      /\ (p = "dashboard" => content'.view # "list")
  BY <1>1, <1>4, LoadedContent
<1>7. TasksInv'
  BY <1>1, <1>4, <1>5, TasksKept
<1>8. HashInv'
  <2>1. hash = None => hash' = None \/ hash' \in Pages
    BY <1>1 DEF RestInv
  <2>2. hash # None => hash' # None
    BY ConsoleAssumption
  <2>3. hash' = None => /\ currentPage' = "dashboard" /\ ~OnContainers'
                        /\ \A m \in DOMAIN more :
                             /\ more[m].page \in {None, "dashboard"}
                             /\ more[m].kind \notin {"route", "list", "drift", "action",
                                                    "create", "submit"}
    BY <1>5, <1>6 DEF OnContainers
  <2> QED BY <1>1, <1>4, <2>1, <2>2, <2>3, HashKept
<1>9. RestInv'
  <2>1. /\ timers' \in Nat /\ timerId' \in BOOLEAN
        /\ rows' \in Hosts \cup {None} /\ view' \in {"list", "create", "logs"}
    BY <1>1, CleanupTypes DEF LoadPage
  <2>2. overtook' \in BOOLEAN /\ outdated' \in BOOLEAN
    BY DEF LoadPage
  <2>3. left' \subseteq Containers
    BY <1>1, <1>4, LeftIs
  <2>4. cached' = cached /\ logTimer' = logTimer /\ orphans' = orphans
    BY DEF LoadPage
  <2> QED BY <1>1, <1>4, <2>1, <2>2, <2>3, <2>4 DEF RestInv
<1> QED BY <1>6, <1>7, <1>8, <1>9 DEF BasicInv

\* The requests that the console makes only on the containers page.
OfContainers == {"list", "drift", "action", "create", "submit"}

\* A step after which the same tasks wait but i, and those of more.
LEMMA AnswerBasic ==
  ASSUME BasicInv, NEW i \in 0 .. Len(tasks), NEW more \in Seq(Task), tasks' = Rest(i) \o more,
         hash' = hash, currentPage' = currentPage, ContentInv', RestInv',
         hash = None => ~OnContainers',
         \A m \in DOMAIN more :
           /\ more[m].page = None /\ more[m].kind \notin {"page", "route"}
           /\ hash = None => more[m].kind \notin OfContainers
  PROVE  BasicInv'
<1>1. TasksInv /\ HashInv
  BY DEF BasicInv
<1>2. TasksInv'
  BY <1>1, TasksKept
<1>3. hash' = None =>
        /\ currentPage' = "dashboard" /\ ~OnContainers'
        /\ \A m \in DOMAIN more :
             /\ more[m].page \in {None, "dashboard"}
             /\ more[m].kind \notin {"route", "list", "drift", "action", "create", "submit"}
  BY <1>1 DEF HashInv, OfContainers
<1>4. HashInv'
  BY <1>1, <1>3, HashKept
<1> QED BY <1>2, <1>4 DEF BasicInv

\* One request more, or none.
LEMMA OneMore ==
  ASSUME NEW kind \in Kinds, NEW h \in Hosts \cup {None}, NEW more,
         more = <<Plain(kind)>> \/ more = <<OfHost(kind, h)>>
  PROVE  /\ more \in Seq(Task) /\ DOMAIN more = {1}
         /\ more[1].kind = kind /\ more[1].page = None /\ more[1].host \in {None, h}
<1>1. CASE more = <<Plain(kind)>>
  <2>1. Plain(kind) \in Task /\ Plain(kind).kind = kind /\ Plain(kind).page = None
        /\ Plain(kind).host = None
    BY TaskShapes
  <2> QED BY <1>1, <2>1
<1>2. CASE more = <<OfHost(kind, h)>>
  <2>1. OfHost(kind, h) \in Task /\ OfHost(kind, h).kind = kind /\ OfHost(kind, h).page = None
        /\ OfHost(kind, h).host = h
    BY TaskShapes
  <2> QED BY <1>2, <2>1
<1> QED BY <1>1, <1>2

LEMMA NoneMore ==
  ASSUME TasksInv, NEW i \in 0 .. Len(tasks)
  PROVE  <<>> \in Seq(Task) /\ Rest(i) = Rest(i) \o <<>> /\ DOMAIN <<>> = {}
BY NoMore DEF TasksInv

LEMMA ErrorBasic ==
  ASSUME BasicInv, NEW i \in DOMAIN tasks, Replace(Fresh("error"), Rest(i)),
         overtook' = (overtook \/ Late(i)), UNCHANGED outdated,
         UNCHANGED <<started, hash, currentPage, hostId, instance, cached, dashboard,
                     containersPage>>
  PROVE  BasicInv'
<1>1. ContentInv /\ TasksInv /\ RestInv /\ HashInv
  BY DEF BasicInv
<1>2. i \in 0 .. Len(tasks)
  BY <1>1, Resumed
<1>3. <<>> \in Seq(Task) /\ tasks' = Rest(i) \o <<>> /\ DOMAIN <<>> = {}
  BY <1>1, <1>2, NoneMore DEF Replace
<1>4. content' = Fresh("error") /\ loading' = {}
      /\ left' = left \cup (IF content.view = "logs" THEN {content.of} ELSE {})
  BY DEF Replace
<1>5. /\ content' \in Content /\ content'.view = "error" /\ content'.host = None
      /\ content'.of = None /\ content'.logs = None /\ ~content'.tail
  BY <1>4, ContentShapes
<1>6. ContentInv' /\ ~OnContainers'
  BY <1>5 DEF ContentInv, OnContainers
<1>7. left' \subseteq Containers
  BY <1>1, <1>4, LeftIs
<1>8. RestInv'
  BY <1>1, <1>4, <1>7 DEF RestInv, dashboard, containersPage
<1> QED BY <1>2, <1>3, <1>6, <1>8, AnswerBasic

LEMMA ModuleArrivesBasic ==
  ASSUME BasicInv, NEW i \in DOMAIN tasks, ModuleArrives(i)
  PROVE  BasicInv'
<1>1. ContentInv /\ TasksInv /\ RestInv /\ HashInv
  BY DEF BasicInv
<1>2. PICK p : p = tasks[i].page
  OBVIOUS
<1>3. i \in 0 .. Len(tasks) /\ i # 0 /\ p \in Pages
  BY <1>1, <1>2, Resumed DEF ModuleArrives, Resumes
<1>4. ShowPage(p, Rest(i), <<>>)
  BY <1>2 DEF ModuleArrives
<1>5. /\ Requests(p) \in Seq(Task) /\ tasks' = Rest(i) \o Requests(p)
      /\ instance' = p /\ content' = Rendered(p) /\ loading' = {}
      /\ left' = left \cup (IF content.view = "logs" THEN {content.of} ELSE {})
  BY <1>1, <1>3, <1>4, ModuleShows
<1>6. /\ content' \in Content
      /\ content'.view = (IF p = "dashboard" THEN "dashboard" ELSE "list")
      /\ content'.of = None /\ content'.logs = None /\ ~content'.tail
  BY <1>3, <1>5, RenderedShape
<1>7. hash = None => p = "dashboard"
  BY <1>1, <1>2, <1>3, ConsoleAssumption DEF HashInv
<1>8. ContentInv' /\ (hash = None => ~OnContainers')
  BY <1>6, <1>7 DEF ContentInv, OnContainers
<1>9. \A m \in DOMAIN Requests(p) :
        /\ Requests(p)[m].page = None
        /\ Requests(p)[m].kind = (IF p = "dashboard" THEN "stats" ELSE "list")
  BY <1>1, <1>3, RequestsShape DEF RestInv
<1>10. left' \subseteq Containers
  BY <1>1, <1>5, LeftIs
<1>11. RestInv'
  BY <1>1, <1>2, <1>3, <1>5, <1>10 DEF ModuleArrives, RestInv, dashboard, containersPage
<1>12. \A m \in DOMAIN Requests(p) :
        /\ Requests(p)[m].page = None /\ Requests(p)[m].kind \notin {"page", "route"}
        /\ hash = None => Requests(p)[m].kind \notin OfContainers
  BY <1>7, <1>9 DEF OfContainers
<1>13. hash' = hash /\ currentPage' = currentPage
  BY DEF ModuleArrives
<1> QED BY <1>3, <1>5, <1>8, <1>11, <1>12, <1>13, AnswerBasic

\* The actions of the shell.
LEMMA ShellBasic ==
  ASSUME BasicInv, OneDashboardTimer, AtTheShell
  PROVE  BasicInv'
<1>1. ContentInv /\ TasksInv /\ RestInv /\ HashInv
  BY DEF BasicInv
<1>2. 0 \in 0 .. Len(tasks) /\ <<>> \in Seq(Task) /\ \A n \in DOMAIN <<>> : FALSE
  BY <1>1 DEF TasksInv
<1>3. CASE StartApp
  <2>1. PICK p : p = currentPage'
    OBVIOUS
  <2>2. p = (IF hash = None THEN "dashboard" ELSE hash) /\ p \in Pages
    BY <1>1, <1>3, <2>1 DEF StartApp, RestInv, Pages
  <2>3. /\ <<Plain("hosts")>> \in Seq(Task)
        /\ \A n \in DOMAIN <<Plain("hosts")>> : <<Plain("hosts")>>[n] = Plain("hosts")
    BY TaskShapes DEF Kinds
  <2>4. /\ LoadPage(p, 0, <<Plain("hosts")>>) /\ hostId' = hostId /\ hash' = hash
        /\ started' \in BOOLEAN
    BY <1>3, <2>1 DEF StartApp
  <2>5. hash' = None => p = "dashboard"
    BY <2>2, <2>4
  <2> QED BY <1>2, <2>1, <2>2, <2>3, <2>4, <2>5, LoadPageBasic
<1>4. CASE LogOut
  <2>1. /\ started' = FALSE /\ hostId' = None
        /\ UNCHANGED <<hash, currentPage, content, instance, cached, tasks, dashboard,
                       containersPage, loading, history, left>>
    BY <1>4 DEF LogOut
  <2>2. ContentInv' /\ TasksInv' /\ HashInv'
    BY <1>1, <2>1 DEF ContentInv, TasksInv, HashInv, OnContainers
  <2>3. RestInv'
    BY <1>1, <2>1 DEF RestInv, dashboard, containersPage
  <2> QED BY <2>2, <2>3 DEF BasicInv
<1>5. CASE Refresh
  <2>1. /\ LoadPage(currentPage, 0, <<>>) /\ currentPage \in Pages /\ currentPage' = currentPage
        /\ hostId' = hostId /\ hash' = hash /\ started' \in BOOLEAN
        /\ hash' = None => currentPage = "dashboard"
    BY <1>1, <1>5 DEF Refresh, RestInv, HashInv
  <2> QED BY <1>2, <2>1, LoadPageBasic
<1>6. ASSUME NEW p \in Pages, Navigate(p) PROVE BasicInv'
  <2>1. /\ LoadPage(p, 0, <<>>) /\ currentPage' = p /\ hostId' = hostId /\ hash' \in Pages
        /\ started' \in BOOLEAN /\ hash' # None
    BY <1>1, <1>6, ConsoleAssumption DEF Navigate, RestInv
  <2> QED BY <1>2, <2>1, LoadPageBasic
<1>7. ASSUME NEW h \in Hosts, SelectHost(h) PROVE BasicInv'
  <2> DEFINE more == <<Plain("ping")>>
  <2>1. Plain("ping") \in Task /\ tasks' = Append(tasks, Plain("ping"))
    BY <1>7, TaskShapes DEF SelectHost, Kinds
  <2>2. tasks' = Rest(0) \o more
    BY <1>1, <2>1, AppendIsMore DEF TasksInv
  <2>3. None \in Hosts \cup {None} /\ "ping" \in Kinds
    BY DEF Kinds
  <2>4. more \in Seq(Task) /\ DOMAIN more = {1} /\ more[1].kind = "ping" /\ more[1].page = None
    BY <2>3, OneMore
  <2>5. /\ hostId' = h
        /\ UNCHANGED <<started, hash, currentPage, content, instance, cached, dashboard,
                       containersPage, history, loading, left>>
    BY <1>7 DEF SelectHost
  <2>6. ContentInv' /\ (hash = None => ~OnContainers')
    BY <1>1, <2>5 DEF ContentInv, HashInv, OnContainers
  <2>7. RestInv'
    BY <1>1, <2>5 DEF RestInv, dashboard, containersPage
  <2> HIDE DEF more
  <2> QED BY <1>2, <2>2, <2>4, <2>5, <2>6, <2>7, AnswerBasic DEF OfContainers
<1> QED BY <1>3, <1>4, <1>5, <1>6, <1>7 DEF AtTheShell

\* The answers about hosts, and those that load the page again.
LEMMA HostsBasic ==
  ASSUME BasicInv, OneDashboardTimer, NEW i \in DOMAIN tasks,
         HostsAnswer(i) \/ HashChange(i) \/ PingAnswer(i)
  PROVE  BasicInv'
<1>1. ContentInv /\ TasksInv /\ RestInv /\ HashInv
  BY DEF BasicInv
<1>2. i \in 0 .. Len(tasks)
  BY <1>1, Resumed
<1>3. <<>> \in Seq(Task) /\ \A n \in DOMAIN <<>> : FALSE
  BY <1>1, <1>2, NoneMore
<1>4. CASE HostsAnswer(i)
  <2>1. PICK h \in Hosts : hostId' = h
    BY <1>4 DEF HostsAnswer
  <2>2. UNCHANGED <<started, currentPage, content, instance, cached, dashboard,
                   containersPage, loading, left>>
    BY <1>4 DEF HostsAnswer
  <2>3. ContentInv'
    BY <1>1, <2>2 DEF ContentInv
  <2>4. CASE hash = None
    <3> DEFINE more == <<Plain("route")>>
    <3>1. hash' = "dashboard" /\ tasks' = Rest(i) \o more /\ overtook' = (overtook \/ Late(i)) /\ UNCHANGED outdated
      BY <1>4, <2>4 DEF HostsAnswer, Goes
    <3>2. None \in Hosts \cup {None} /\ "route" \in Kinds
      BY DEF Kinds
    <3>3. more \in Seq(Task) /\ DOMAIN more = {1} /\ more[1].kind = "route"
      BY <3>2, OneMore
    <3> HIDE DEF more
    <3>4. TasksInv'
      BY <1>1, <1>2, <3>1, <3>3, TasksKept
    <3>5. HashInv'
      BY <3>1, ConsoleAssumption DEF HashInv, Pages
    <3>6. RestInv'
      BY <1>1, <2>1, <2>2, <3>1 DEF RestInv, dashboard, containersPage, Pages
    <3> QED BY <2>3, <3>4, <3>5, <3>6 DEF BasicInv
  <2>5. CASE hash # None
    <3>1. hash' = hash /\ tasks' = Rest(i) /\ overtook' \in BOOLEAN /\ outdated' \in BOOLEAN
      BY <1>4, <2>5 DEF HostsAnswer
    <3>2. tasks' = Rest(i) \o <<>>
      BY <1>1, <1>2, <3>1, NoneMore
    <3>3. RestInv'
      BY <1>1, <2>1, <2>2, <3>1 DEF RestInv, dashboard, containersPage
    <3> QED BY <1>2, <1>3, <2>2, <2>3, <2>5, <3>1, <3>2, <3>3, AnswerBasic
  <2> QED BY <2>4, <2>5
<1>5. CASE HashChange(i)
  <2>1. hash \in Pages /\ hash # None
    BY <1>1, <1>5 DEF HashInv, RestInv, HashChange, Resumes
  <2>2. /\ LoadPage(hash, i, <<>>) /\ currentPage' = hash /\ hostId' = hostId /\ hash' = hash
        /\ started' \in BOOLEAN
    BY <1>1, <1>5 DEF HashChange, RestInv
  <2> QED BY <1>2, <1>3, <2>1, <2>2, LoadPageBasic
<1>6. CASE PingAnswer(i)
  <2>1. /\ LoadPage(currentPage, i, <<>>) /\ currentPage \in Pages /\ currentPage' = currentPage
        /\ hostId' = hostId /\ hash' = hash /\ started' \in BOOLEAN
        /\ hash' = None => currentPage = "dashboard"
    BY <1>1, <1>6 DEF PingAnswer, RestInv, HashInv
  <2> QED BY <1>2, <1>3, <2>1, LoadPageBasic
<1> QED BY <1>4, <1>5, <1>6

-----------------------------------------------------------------------------
(* What the other actions do to the tasks.                                 *)

Steps(i, more) ==
  /\ i \in 0 .. Len(tasks) /\ more \in Seq(Task) /\ tasks' = Rest(i) \o more
  /\ UNCHANGED <<started, hash, currentPage, hostId>>

\* Nothing is asked for, or one thing.
LEMMA StepsNone ==
  ASSUME TasksInv, NEW i \in 0 .. Len(tasks), tasks' = Rest(i) \/ tasks' = Rest(i) \o <<>>,
         UNCHANGED <<started, hash, currentPage, hostId>>
  PROVE  Steps(i, <<>>) /\ \A m \in DOMAIN <<>> : FALSE
<1>1. <<>> \in Seq(Task) /\ Rest(i) = Rest(i) \o <<>> /\ DOMAIN <<>> = {}
  BY NoneMore
<1> QED BY <1>1 DEF Steps

One(i, more, kind, h) ==
  /\ Steps(i, more) /\ DOMAIN more = {1}
  /\ more[1].kind = kind /\ more[1].page = None /\ more[1].host = h

LEMMA StepsOne ==
  ASSUME TasksInv, NEW i \in 0 .. Len(tasks), NEW kind \in Kinds, NEW h \in Hosts \cup {None},
         NEW more, more = <<OfHost(kind, h)>>, tasks' = Rest(i) \o more,
         UNCHANGED <<started, hash, currentPage, hostId>>
  PROVE  One(i, more, kind, h)
<1>1. /\ more \in Seq(Task) /\ DOMAIN more = {1}
      /\ more[1].kind = kind /\ more[1].page = None /\ more[1].host \in {None, h}
  BY OneMore
<1>2. OfHost(kind, h).host = h
  BY TaskShapes
<1>3. more[1].host = h
  BY <1>1, <1>2
<1> QED BY <1>1, <1>3 DEF One, Steps

\* A request that the user makes.
LEMMA StepsUser ==
  ASSUME TasksInv, NEW kind \in Kinds, NEW h \in Hosts \cup {None},
         NEW task, tasks' = Append(tasks, task),
         \/ task = Plain(kind) /\ h = None
         \/ task = OfHost(kind, h),
         UNCHANGED <<started, hash, currentPage, hostId>>
  PROVE  One(0, <<task>>, kind, h)
<1>1. task \in Task /\ task.kind = kind /\ task.page = None /\ task.host = h
  BY TaskShapes
<1>2. /\ 0 \in 0 .. Len(tasks) /\ <<task>> \in Seq(Task)
      /\ Append(tasks, task) = Rest(0) \o <<task>>
      /\ DOMAIN <<task>> = {1} /\ <<task>>[1] = task
  BY <1>1, AppendIsMore DEF TasksInv
<1> QED BY <1>1, <1>2 DEF One, Steps

\* What the list on the screen asks for.
Lists(i) ==
  /\ Steps(i, Requests("containers"))
  /\ \A m \in DOMAIN Requests("containers") :
       /\ Requests("containers")[m].host = hostId
       /\ Requests("containers")[m].page = None
       /\ Requests("containers")[m].kind = "list"
  /\ hostId # None => 1 \in DOMAIN Requests("containers")

LEMMA StepsList ==
  ASSUME TasksInv, RestInv, NEW i \in 0 .. Len(tasks),
         tasks' = Rest(i) \o Requests("containers"),
         UNCHANGED <<started, hash, currentPage, hostId>>
  PROVE  Lists(i)
<1>1. hostId \in Hosts \cup {None} /\ "containers" \in Pages /\ "containers" # "dashboard"
  BY DEF RestInv, Pages
<1>2. /\ Requests("containers") \in Seq(Task)
      /\ \A m \in DOMAIN Requests("containers") :
           /\ Requests("containers")[m].host = hostId
           /\ Requests("containers")[m].page = None
           /\ Requests("containers")[m].kind = "list"
      /\ hostId # None => 1 \in DOMAIN Requests("containers")
  BY <1>1, RequestsShape
<1> QED BY <1>2 DEF Lists, Steps

LEMMA StepsBasic ==
  ASSUME BasicInv, NEW i, NEW more, Steps(i, more), ContentInv', RestInv',
         hash = None => ~OnContainers',
         \A m \in DOMAIN more :
           /\ more[m].page = None /\ more[m].kind \notin {"page", "route"}
           /\ hash = None => more[m].kind \notin OfContainers
  PROVE  BasicInv'
BY AnswerBasic DEF Steps

-----------------------------------------------------------------------------
(* BasicInv, on the pages.                                                 *)

LEMMA DashboardBasic ==
  ASSUME BasicInv, NEW i \in DOMAIN tasks, StatsAnswer(i) \/ UsageAnswer(i)
  PROVE  BasicInv'
<1>1. ContentInv /\ TasksInv /\ RestInv /\ HashInv
  BY DEF BasicInv
<1>2. PICK h : h = tasks[i].host
  OBVIOUS
<1>3. i \in 0 .. Len(tasks) /\ i # 0 /\ h \in Hosts \cup {None} /\ "usage" \in Kinds
  BY <1>1, <1>2, Resumed DEF Kinds
<1>4. UNCHANGED <<started, hash, currentPage, hostId>>
  BY DEF StatsAnswer, UsageAnswer
<1>5. RestInv'
  <2>1. timers' \in Nat /\ timerId' \in BOOLEAN
    <3>1. timers \in Nat /\ timerId \in BOOLEAN
      BY <1>1 DEF RestInv
    <3>2. CASE StatsAnswer(i)
      BY <3>1, <3>2 DEF StatsAnswer, StartAutoRefresh
    <3>3. CASE UsageAnswer(i)
      BY <3>1, <3>3 DEF UsageAnswer, dashboard
    <3> QED BY <3>2, <3>3
  <2>2. /\ overtook' \in BOOLEAN /\ outdated' = outdated
        /\ UNCHANGED <<instance, cached, containersPage, loading, left>>
    BY DEF StatsAnswer, UsageAnswer, Goes
  <2> QED BY <1>1, <1>4, <2>1, <2>2 DEF RestInv, containersPage
<1>6. /\ \/ content' = content
         \/ content.view = "dashboard" /\ Showing(h)
         \/ content.view = "dashboard" /\ Showing("none")
      /\ tasks' = Rest(i) \o <<>> \/ tasks' = Rest(i) \o <<OfHost("usage", h)>>
  <2>1. CASE StatsAnswer(i)
    BY <1>2, <2>1, Zenon DEF StatsAnswer, Goes
  <2>2. CASE UsageAnswer(i)
    BY <1>2, <2>2, Zenon DEF UsageAnswer, Goes
  <2> QED BY <2>1, <2>2
<1>7. ContentInv' /\ content'.view = content.view
  <2>1. CASE content' = content
    BY <1>1, <2>1 DEF ContentInv
  <2>2. CASE content.view = "dashboard" /\ (Showing(h) \/ Showing("none"))
    <3>1. PICK g \in Hosts \cup {None, "none"} : Showing(g)
      BY <1>3, <2>2
    <3> QED BY <1>1, <2>2, <3>1, ShownContent
  <2> QED BY <1>6, <2>1, <2>2
<1>8. hash = None => ~OnContainers'
  BY <1>1, <1>7 DEF OnContainers, HashInv
<1>9. CASE tasks' = Rest(i) \o <<>>
  <2>1. Steps(i, <<>>) /\ \A m \in DOMAIN <<>> : FALSE
    BY <1>1, <1>3, <1>4, <1>9, StepsNone
  <2> QED BY <1>5, <1>7, <1>8, <2>1, StepsBasic
<1>10. CASE tasks' = Rest(i) \o <<OfHost("usage", h)>>
  <2>1. PICK more : more = <<OfHost("usage", h)>>
    OBVIOUS
  <2>2. One(i, more, "usage", h)
    <3>1. tasks' = Rest(i) \o more
      BY <1>10, <2>1
    <3> QED BY <1>1, <1>3, <1>4, <2>1, <3>1, StepsOne
  <2> QED BY <1>5, <1>7, <1>8, <2>2, StepsBasic DEF One, OfContainers
<1> QED BY <1>6, <1>9, <1>10

\* The containers page is only there when it was navigated to.
LEMMA OnContainersKeeps ==
  ASSUME BasicInv, hash # None, NEW i, NEW more, Steps(i, more), ContentInv', RestInv',
         \A m \in DOMAIN more : more[m].page = None /\ more[m].kind \notin {"page", "route"}
  PROVE  BasicInv'
BY StepsBasic

LEMMA ListKeeps ==
  ASSUME BasicInv, hash # None, NEW i, Lists(i), ContentInv', RestInv'
  PROVE  BasicInv'
BY OnContainersKeeps DEF Lists

LEMMA OneKeeps ==
  ASSUME BasicInv, hash # None, NEW i, NEW more, NEW kind \in Kinds \ {"page", "route"}, NEW h,
         One(i, more, kind, h), ContentInv', RestInv'
  PROVE  BasicInv'
BY OnContainersKeeps DEF One

LEMMA NoneKeeps ==
  ASSUME BasicInv, hash # None, NEW i \in 0 .. Len(tasks),
         tasks' = Rest(i) \/ tasks' = Rest(i) \o <<>>,
         UNCHANGED <<started, hash, currentPage, hostId>>, ContentInv', RestInv'
  PROVE  BasicInv'
<1>1. Steps(i, <<>>) /\ \A m \in DOMAIN <<>> : FALSE
  BY StepsNone DEF BasicInv
<1> QED BY <1>1, OnContainersKeeps

LEMMA SameKeeps ==
  ASSUME BasicInv, hash # None, tasks' = tasks,
         UNCHANGED <<started, hash, currentPage, hostId>>, ContentInv', RestInv'
  PROVE  BasicInv'
<1>1. 0 \in 0 .. Len(tasks)
  BY DEF BasicInv, TasksInv
<1>2. tasks' = Rest(0)
  BY DEF Rest
<1> QED BY <1>1, <1>2, NoneKeeps

LEMMA ContainersAnswerBasic ==
  ASSUME BasicInv, NEW i \in DOMAIN tasks,
         ListAnswer(i) \/ DriftAnswer(i) \/ ActionAnswer(i) \/ Fails(i)
  PROVE  BasicInv'
<1>1. ContentInv /\ TasksInv /\ RestInv /\ HashInv
  BY DEF BasicInv
<1>2. PICK h : h = tasks[i].host
  OBVIOUS
<1>3. i \in 0 .. Len(tasks) /\ i # 0 /\ h \in Hosts \cup {None}
  BY <1>1, <1>2, Resumed
<1>4. hash # None
  BY <1>1 DEF HashInv, ListAnswer, DriftAnswer, ActionAnswer, Fails, Resumes
<1>5. UNCHANGED <<started, hash, currentPage, hostId, instance, cached, dashboard>>
  BY DEF ListAnswer, DriftAnswer, ActionAnswer, Fails, ContainersOnly
<1>6. RestInv'
  <2>1. /\ UNCHANGED <<view, logTimer, orphans, loading, left>>
        /\ overtook' \in BOOLEAN /\ (outdated' = outdated \/ outdated' \in BOOLEAN)
    BY DEF ListAnswer, DriftAnswer, ActionAnswer, Fails, Goes, containersPage
  <2>2. rows' \in Hosts \cup {None}
    <3>1. CASE ListAnswer(i)
      BY <1>2, <1>3, <3>1 DEF ListAnswer
    <3>2. CASE ~ListAnswer(i)
      <4>1. rows' = rows
        BY <3>2 DEF DriftAnswer, ActionAnswer, Fails, containersPage
      <4> QED BY <1>1, <4>1 DEF RestInv
    <3> QED BY <3>1, <3>2
  <2> QED BY <1>1, <1>5, <2>1, <2>2 DEF RestInv, dashboard
<1>7. ContentInv'
  <2>1. \/ content' = content
        \/ content.view = "list" /\ Showing(h)
        \/ content.view = "list" /\ Showing(rows)
        \/ content.view = "list" /\ Showing("none")
    BY <1>2, Zenon DEF ListAnswer, DriftAnswer, ActionAnswer, Fails
  <2>2. CASE content' = content
    BY <1>1, <2>2 DEF ContentInv
  <2>3. CASE content' # content
    <3>1. PICK g \in Hosts \cup {None, "none"} : content.view = "list" /\ Showing(g)
      BY <1>1, <1>3, <2>1, <2>3 DEF RestInv
    <3> QED BY <1>1, <3>1, ShownContent
  <2> QED BY <2>2, <2>3
<1>8. CASE ListAnswer(i)
  <2>1. CASE tasks' = Rest(i) \o <<>>
    BY <1>3, <1>4, <1>5, <1>6, <1>7, <2>1, NoneKeeps
  <2>2. CASE tasks' = Rest(i) \o <<OfHost("drift", hostId)>>
    <3>1. PICK more : more = <<OfHost("drift", hostId)>>
      OBVIOUS
    <3>2. tasks' = Rest(i) \o more /\ "drift" \in Kinds \ {"page", "route"}
          /\ hostId \in Hosts \cup {None}
      BY <1>1, <2>2, <3>1 DEF Kinds, RestInv
    <3>3. One(i, more, "drift", hostId)
      BY <1>1, <1>3, <1>5, <3>1, <3>2, StepsOne
    <3> QED BY <1>4, <1>6, <1>7, <3>2, <3>3, OneKeeps
  <2> QED BY <1>8, <2>1, <2>2, Zenon DEF ListAnswer, Goes
<1>9. CASE DriftAnswer(i) \/ Fails(i)
  <2>1. tasks' = Rest(i) \/ tasks' = Rest(i) \o <<>>
    BY <1>9 DEF DriftAnswer, Fails, Goes
  <2> QED BY <1>3, <1>4, <1>5, <1>6, <1>7, <2>1, NoneKeeps
<1>10. CASE ActionAnswer(i)
  <2>1. tasks' = Rest(i) \o Requests("containers")
    BY <1>10 DEF ActionAnswer, Goes
  <2>2. Lists(i)
    BY <1>1, <1>3, <1>5, <2>1, StepsList
  <2> QED BY <1>4, <1>6, <1>7, <2>2, ListKeeps
<1> QED BY <1>8, <1>9, <1>10

\* showListView, from the answer that i was or from the user.
LEMMA ListViewDoes ==
  ASSUME TasksInv, RestInv, ContentInv, NEW i \in 0 .. Len(tasks), ShowListView(Rest(i)),
         UNCHANGED <<started, hash, currentPage, hostId>>
  PROVE  /\ ContentInv' /\ view' = "list"
         /\ OnContainers => Lists(i) /\ content' = Rendered("containers") /\ loading' = {}
         /\ ~OnContainers => tasks' = Rest(i) /\ content' = content /\ loading' = loading
<1>1. CASE OnContainers
  <2>1. /\ view' = "list" /\ content' = Rendered("containers") /\ loading' = {}
        /\ tasks' = Rest(i) \o Requests("containers")
    BY <1>1 DEF ShowListView
  <2>2. Lists(i)
    BY <2>1, StepsList
  <2>3. /\ content' \in Content /\ content'.view = "list"
        /\ content'.of = None /\ content'.logs = None /\ ~content'.tail
    BY <2>1, RenderedShape DEF Pages
  <2> QED BY <1>1, <2>1, <2>2, <2>3 DEF ContentInv
<1>2. CASE ~OnContainers
  <2>1. view' = "list" /\ tasks' = Rest(i) /\ content' = content /\ loading' = loading
    BY <1>2 DEF ShowListView
  <2> QED BY <1>2, <2>1 DEF ContentInv
<1> QED BY <1>1, <1>2

\* The create view comes, or has nowhere to come.
LEMMA CreateDoes ==
  ASSUME ContentInv, TasksInv, NEW i \in DOMAIN tasks, CreateAnswer(i)
  PROVE  /\ ContentInv'
         /\ OnContainers => /\ tasks' = Rest(i) /\ loading' = {}
                            /\ content'.view = "create" /\ content'.host = tasks[i].host
                            /\ content'.logs = None /\ ~content'.tail
                            /\ left' = left \cup (IF content.view = "logs" THEN {content.of}
                                                                       ELSE {})
         /\ ~OnContainers => /\ tasks' = Rest(i) /\ content' = content /\ loading' = loading
                             /\ left' = left
<1>1. CASE OnContainers
  <2>1. PICK h : h = tasks[i].host
    OBVIOUS
  <2>2. h \in Hosts \cup {None, "none"}
    BY <2>1, Resumed
  <2>3. /\ content' = [Fresh("create") EXCEPT !.host = h] /\ tasks' = Rest(i) /\ loading' = {}
        /\ left' = left \cup (IF content.view = "logs" THEN {content.of} ELSE {})
    BY <1>1, <2>1 DEF CreateAnswer, Replace
  <2>4. /\ content' \in Content /\ content'.view = "create" /\ content'.host = h
        /\ content'.of = None /\ content'.logs = None /\ ~content'.tail
    BY <2>2, <2>3, ContentShapes
  <2> QED BY <1>1, <2>1, <2>3, <2>4 DEF ContentInv
<1>2. CASE ~OnContainers
  <2>1. tasks' = Rest(i) /\ content' = content /\ left' = left /\ loading' = loading
    BY <1>2 DEF CreateAnswer
  <2> QED BY <1>2, <2>1 DEF ContentInv
<1> QED BY <1>1, <1>2

LEMMA CreateBasic ==
  ASSUME BasicInv, NEW i \in DOMAIN tasks, CreateAnswer(i) \/ SubmitAnswer(i)
  PROVE  BasicInv'
<1>1. ContentInv /\ TasksInv /\ RestInv /\ HashInv
  BY DEF BasicInv
<1>2. i \in 0 .. Len(tasks)
  BY <1>1, Resumed
<1>3. hash # None
  BY <1>1 DEF HashInv, CreateAnswer, SubmitAnswer, Resumes
<1>4. UNCHANGED <<started, hash, currentPage, hostId, instance, cached, dashboard>>
  BY DEF CreateAnswer, SubmitAnswer, ContainersOnly
<1>5. left \cup (IF content.view = "logs" THEN {content.of} ELSE {}) \subseteq Containers
  BY <1>1, LeftIs
<1>6. CASE CreateAnswer(i)
  <2>1. ContentInv' /\ tasks' = Rest(i) /\ loading' \in {{}, loading}
        /\ left' \in {left, left \cup (IF content.view = "logs" THEN {content.of} ELSE {})}
    BY <1>1, <1>6, CreateDoes
  <2>2. UNCHANGED containersPage /\ overtook' \in BOOLEAN /\ outdated' = outdated
    BY <1>6 DEF CreateAnswer
  <2>3. RestInv'
    BY <1>1, <1>4, <1>5, <2>1, <2>2 DEF RestInv, dashboard, containersPage
  <2> QED BY <1>2, <1>3, <1>4, <2>1, <2>3, NoneKeeps
<1>7. CASE SubmitAnswer(i)
  <2>1. /\ ShowListView(Rest(i)) /\ UNCHANGED <<rows, logTimer, orphans>>
        /\ overtook' \in BOOLEAN /\ outdated' = outdated
        /\ left' = left \cup (IF content.view = "logs" THEN {content.of} ELSE {})
    BY <1>7 DEF SubmitAnswer
  <2>2. /\ ContentInv' /\ view' = "list"
        /\ OnContainers => Lists(i) /\ loading' = {}
        /\ ~OnContainers => tasks' = Rest(i) /\ loading' = loading
    BY <1>1, <1>2, <1>4, <2>1, ListViewDoes
  <2>3. RestInv'
    BY <1>1, <1>4, <1>5, <2>1, <2>2 DEF RestInv, dashboard
  <2>4. CASE OnContainers
    BY <1>3, <2>2, <2>3, <2>4, ListKeeps
  <2>5. CASE ~OnContainers
    BY <1>2, <1>3, <1>4, <2>2, <2>3, <2>5, NoneKeeps
  <2> QED BY <2>4, <2>5
<1> QED BY <1>6, <1>7

\* What a logs view shows, after a step that leaves everything else of it.
LEMMA LogsContent ==
  ASSUME ContentInv, content.view = "logs", NEW lines \in Containers \cup {None},
         NEW tail \in BOOLEAN,
         \/ content' = [content EXCEPT !.logs = lines] /\ tail = content.tail
         \/ content' = [content EXCEPT !.tail = tail] /\ lines = content.logs
  PROVE  /\ ContentInv' /\ content'.view = "logs" /\ content'.of = content.of
         /\ content'.host = content.host
         /\ content'.logs = lines /\ content'.tail = tail
<1>1. content \in Content
  BY DEF ContentInv
<1>2. CASE content' = [content EXCEPT !.logs = lines] /\ tail = content.tail
  <2>1. /\ content' \in Content /\ content'.view = content.view /\ content'.of = content.of
        /\ content'.host = content.host /\ content'.logs = lines /\ content'.tail = content.tail
    BY <1>1, <1>2 DEF Content
  <2> QED BY <1>2, <2>1 DEF ContentInv
<1>3. CASE content' = [content EXCEPT !.tail = tail] /\ lines = content.logs
  <2>1. /\ content' \in Content /\ content'.view = content.view /\ content'.of = content.of
        /\ content'.host = content.host /\ content'.logs = content.logs /\ content'.tail = tail
    BY <1>1, <1>3 DEF Content
  <2> QED BY <1>3, <2>1 DEF ContentInv
<1> QED BY <1>2, <1>3

\* A logs view that was just opened.
LEMMA LogsViewContent ==
  ASSUME NEW k \in Containers, content' = [Fresh("logs") EXCEPT !.of = k]
  PROVE  /\ ContentInv' /\ content'.view = "logs" /\ content'.of = k
         /\ content'.host = None /\ content'.logs = None /\ ~content'.tail
<1>1. /\ content' \in Content /\ content'.view = "logs" /\ content'.of = k
      /\ content'.host = None /\ content'.logs = None /\ ~content'.tail
  BY DEF Fresh, Content
<1> QED BY <1>1, ConsoleAssumption DEF ContentInv

\* What the user does at the page, and the logs view's interval and answers.
LEMMA AtThePageBasic ==
  ASSUME BasicInv, LogsInv, AtThePage
  PROVE  BasicInv'
<1>1. ContentInv /\ TasksInv /\ RestInv /\ HashInv
  BY DEF BasicInv
<1>2. OnContainers
  BY DEF AtThePage, Act, ShowCreateView, Submit, BackToList, ToggleTail, ShowLogsView, LogTick,
         LogsAnswer, LogsInv, OnContainers
<1>3. hash # None
  BY <1>1, <1>2 DEF HashInv
<1>4. UNCHANGED <<started, hash, currentPage, hostId, instance, cached, dashboard>>
  BY DEF AtThePage, Act, ShowCreateView, Submit, BackToList, ToggleTail, ShowLogsView, LogTick,
         LogsAnswer, ContainersOnly
<1>5. None \in Hosts \cup {None} /\ hostId \in Hosts \cup {None}
      /\ {"action", "submit", "create"} \subseteq Kinds \ {"page", "route"}
      /\ {"action", "submit", "create"} \subseteq Kinds
  BY <1>1 DEF RestInv, Kinds
<1>6. CASE Act
  <2>1. tasks' = Append(tasks, Plain("action"))
        /\ UNCHANGED <<content, containersPage, history, loading, left>>
    BY <1>6 DEF Act
  <2>2. ContentInv' /\ RestInv'
    BY <1>1, <1>4, <2>1 DEF ContentInv, RestInv, dashboard, containersPage
  <2>3. One(0, <<Plain("action")>>, "action", None)
    BY <1>1, <1>4, <1>5, <2>1, StepsUser
  <2> QED BY <1>3, <1>5, <2>2, <2>3, OneKeeps
<1>7. CASE Submit
  <2>1. tasks' = Append(tasks, Plain("submit"))
        /\ UNCHANGED <<content, containersPage, history, loading, left>>
    BY <1>7 DEF Submit
  <2>2. ContentInv' /\ RestInv'
    BY <1>1, <1>4, <2>1 DEF ContentInv, RestInv, dashboard, containersPage
  <2>3. One(0, <<Plain("submit")>>, "submit", None)
    BY <1>1, <1>4, <1>5, <2>1, StepsUser
  <2> QED BY <1>3, <1>5, <2>2, <2>3, OneKeeps
<1>8. CASE ShowCreateView
  <2>1. /\ tasks' = Append(tasks, OfHost("create", hostId)) /\ view' = "create"
        /\ UNCHANGED <<content, rows, logTimer, orphans, history, loading, left>>
    BY <1>8 DEF ShowCreateView
  <2>2. ContentInv' /\ RestInv'
    BY <1>1, <1>4, <2>1 DEF ContentInv, RestInv, dashboard
  <2>3. One(0, <<OfHost("create", hostId)>>, "create", hostId)
    BY <1>1, <1>4, <1>5, <2>1, StepsUser
  <2> QED BY <1>3, <1>5, <2>2, <2>3, OneKeeps
<1>9. CASE BackToList
  <2>1. tasks = Rest(0) /\ 0 \in 0 .. Len(tasks)
    BY <1>1 DEF Rest, TasksInv
  <2>2. ShowListView(Rest(0)) /\ logTimer' \in {None, logTimer}
        /\ UNCHANGED <<rows, orphans, history, left>>
    BY <1>9, <2>1 DEF BackToList
  <2>3. ContentInv' /\ view' = "list" /\ Lists(0) /\ loading' = {}
    BY <1>1, <1>2, <1>4, <2>1, <2>2, ListViewDoes
  <2>4. RestInv'
    BY <1>1, <1>4, <2>2, <2>3 DEF RestInv, dashboard
  <2> QED BY <1>3, <2>3, <2>4, ListKeeps
<1>10. CASE ToggleTail
  <2>1. /\ content.view = "logs" /\ content' = [content EXCEPT !.tail = ~content.tail]
        /\ UNCHANGED <<tasks, rows, view, history, left>>
    BY <1>10 DEF ToggleTail
  <2>2. content.of \in Containers /\ content.logs \in Containers \cup {None}
    BY <1>1, <2>1 DEF ContentInv, Content
  <2>3. ContentInv'
    <3>1. PICK tail \in BOOLEAN : tail = ~content.tail
      OBVIOUS
    <3> QED BY <1>1, <2>1, <2>2, <3>1, LogsContent
  <2>4. /\ logTimer' \in {None, content.of} /\ orphans' \subseteq orphans \cup ({logTimer} \ {None})
        /\ loading' \subseteq loading \cup {content.of}
    BY <1>10 DEF ToggleTail
  <2>5. RestInv'
    BY <1>1, <1>4, <2>1, <2>2, <2>4 DEF RestInv, dashboard
  <2> QED BY <1>3, <1>4, <2>1, <2>3, <2>5, SameKeeps
<1>11. ASSUME NEW k \in Containers, ShowLogsView(k) PROVE BasicInv'
  <2>1. /\ view' = "logs" /\ content' = [Fresh("logs") EXCEPT !.of = k] /\ loading' = {k}
        /\ UNCHANGED <<tasks, rows, logTimer, orphans, history, left>>
    BY <1>11 DEF ShowLogsView
  <2>2. ContentInv'
    BY <2>1, LogsViewContent
  <2>3. RestInv'
    BY <1>1, <1>4, <2>1 DEF RestInv, dashboard
  <2> QED BY <1>3, <1>4, <2>1, <2>2, <2>3, SameKeeps
<1>12. ASSUME NEW k \in Containers, LogTick(k) PROVE BasicInv'
  <2>1. loading' = loading \cup {k} /\ UNCHANGED <<content, tasks, containersPage, history, left>>
    BY <1>12 DEF LogTick
  <2>2. ContentInv' /\ RestInv'
    BY <1>1, <1>4, <2>1 DEF ContentInv, RestInv, dashboard, containersPage
  <2> QED BY <1>3, <1>4, <2>1, <2>2, SameKeeps
<1>13. ASSUME NEW k \in Containers, LogsAnswer(k) PROVE BasicInv'
  <2>1. PICK lines \in {k, None} : content' = [content EXCEPT !.logs = lines]
    BY <1>13 DEF LogsAnswer
  <2>2. loading' = loading \ {k} /\ UNCHANGED <<tasks, containersPage, history, left>>
        /\ loading # {}
    BY <1>13 DEF LogsAnswer
  <2>3. content.view = "logs" /\ content.tail \in BOOLEAN
    BY <1>1, <2>2 DEF LogsInv, ContentInv, Content
  <2>4. ContentInv'
    BY <1>1, <2>1, <2>3, LogsContent
  <2>5. RestInv'
    BY <1>1, <1>4, <2>2 DEF RestInv, dashboard, containersPage
  <2> QED BY <1>3, <1>4, <2>2, <2>4, <2>5, SameKeeps
<1> QED BY <1>6, <1>7, <1>8, <1>9, <1>10, <1>11, <1>12, <1>13 DEF AtThePage

LEMMA BasicStep ==
  ASSUME BasicInv, OneDashboardTimer, LogsInv, [Next]_vars
  PROVE  BasicInv'
<1>1. CASE AtTheShell
  BY <1>1, ShellBasic
<1>2. CASE AtThePage
  BY <1>2, AtThePageBasic
<1>3. ASSUME NEW i \in DOMAIN tasks, Answer(i) PROVE BasicInv'
  <2>1. CASE ModuleArrives(i)
    BY <2>1, ModuleArrivesBasic
  <2>2. CASE ImportFails(i) \/ HostsFail(i)
    BY <2>2, ErrorBasic DEF ImportFails, HostsFail
  <2>3. CASE HostsAnswer(i) \/ HashChange(i) \/ PingAnswer(i)
    BY <2>3, HostsBasic
  <2>4. CASE StatsAnswer(i) \/ UsageAnswer(i)
    BY <2>4, DashboardBasic
  <2>5. CASE ListAnswer(i) \/ DriftAnswer(i) \/ ActionAnswer(i) \/ Fails(i)
    BY <2>5, ContainersAnswerBasic
  <2>6. CASE CreateAnswer(i) \/ SubmitAnswer(i)
    BY <2>6, CreateBasic
  <2> QED BY <1>3, <2>1, <2>2, <2>3, <2>4, <2>5, <2>6 DEF Answer
<1>4. CASE UNCHANGED vars
  BY <1>4 DEF vars, shell, dashboard, containersPage, BasicInv, ContentInv, TasksInv, RestInv,
              HashInv, OnContainers
<1> QED BY <1>1, <1>2, <1>3, <1>4 DEF Next

-----------------------------------------------------------------------------
(* OneDashboardTimer and LogsInv.                                          *)

LEMMA TimerStep ==
  ASSUME BasicInv, OneDashboardTimer, LogsInv, [Next]_vars
  PROVE  OneDashboardTimer'
<1>1. RestInv
  BY DEF BasicInv
<1>2. CASE UNCHANGED dashboard
  BY <1>2 DEF OneDashboardTimer, dashboard
<1>3. CASE Cleanup
  BY <1>1, <1>3, CleanupTypes
<1>4. CASE StartAutoRefresh
  <2>1. timerId \in BOOLEAN /\ timers = (IF timerId THEN 1 ELSE 0)
    BY <1>1 DEF RestInv, OneDashboardTimer
  <2>2. timers' = 1 /\ timerId' = TRUE
    BY <1>4, <2>1 DEF StartAutoRefresh
  <2> QED BY <2>2 DEF OneDashboardTimer
<1>5. CASE AtTheShell
  BY <1>2, <1>3, <1>5 DEF AtTheShell, StartApp, LogOut, Refresh, Navigate, SelectHost, LoadPage
<1>6. CASE AtThePage
  BY <1>2, <1>6 DEF AtThePage, Act, ShowCreateView, Submit, BackToList, ToggleTail, ShowLogsView,
                    LogTick, LogsAnswer, ContainersOnly
<1>7. ASSUME NEW i \in DOMAIN tasks, Answer(i) PROVE OneDashboardTimer'
  <2>1. CASE HashChange(i) \/ PingAnswer(i)
    BY <1>3, <2>1 DEF HashChange, PingAnswer, LoadPage
  <2>2. CASE StatsAnswer(i)
    BY <1>4, <2>2 DEF StatsAnswer
  <2>3. CASE ModuleArrives(i) \/ ImportFails(i) \/ HostsAnswer(i) \/ HostsFail(i) \/ UsageAnswer(i)
    BY <1>2, <2>3 DEF ModuleArrives, ImportFails, HostsAnswer, HostsFail, UsageAnswer
  <2>4. CASE \/ ListAnswer(i) \/ DriftAnswer(i) \/ ActionAnswer(i) \/ Fails(i)
             \/ CreateAnswer(i) \/ SubmitAnswer(i)
    BY <1>2, <2>4 DEF ListAnswer, DriftAnswer, ActionAnswer, Fails, CreateAnswer, SubmitAnswer,
                      ContainersOnly
  <2> QED BY <1>7, <2>1, <2>2, <2>3, <2>4 DEF Answer
<1>8. CASE UNCHANGED vars
  BY <1>2, <1>8 DEF vars
<1> QED BY <1>5, <1>6, <1>7, <1>8 DEF Next

\* A view that is replaced by the router, with its interval left behind.
LEMMA ReplacedKeepsLogs ==
  ASSUME ContentInv, LogsInv, content'.view # "logs", content'.logs = None, ~content'.tail,
         loading' = {},
         left' = left \cup (IF content.view = "logs" THEN {content.of} ELSE {}),
         UNCHANGED <<logTimer, orphans>>
  PROVE  LogsInv'
BY DEF LogsInv, LogsOfTheView, ContentInv

\* Nothing about the logs changes but, where none are shown, the host.
LEMMA SameKeepsLogs ==
  ASSUME ContentInv, LogsInv, content'.view = content.view, content'.of = content.of,
         content'.logs = content.logs, content'.tail = content.tail,
         UNCHANGED <<logTimer, orphans, loading, left>>
  PROVE  LogsInv'
BY DEF LogsInv, LogsOfTheView

LEMMA LoadPageKeepsLogs ==
  ASSUME BasicInv, LogsInv, NEW p \in Pages, NEW i \in 0 .. Len(tasks),
         NEW after \in Seq(Task), LoadPage(p, i, after)
  PROVE  LogsInv'
<1>1. ContentInv /\ TasksInv /\ RestInv
  BY DEF BasicInv
<1>2. PICK more : PageLoads(p, i, after, more)
  BY <1>1, LoadPageDoes
<1>3. /\ content' = (IF p \in cached THEN Rendered(p) ELSE Fresh("loading"))
      /\ loading' = {}
      /\ left' = left \cup (IF content.view = "logs" THEN {content.of} ELSE {})
  BY <1>2 DEF PageLoads
<1>4. content'.view # "logs" /\ content'.logs = None /\ ~content'.tail
  BY <1>1, <1>3, LoadedContent
<1>5. UNCHANGED <<logTimer, orphans>>
  BY DEF LoadPage
<1> QED BY <1>1, <1>3, <1>4, <1>5, ReplacedKeepsLogs

LEMMA ShellKeepsLogs ==
  ASSUME BasicInv, LogsInv, AtTheShell
  PROVE  LogsInv'
<1>1. ContentInv /\ TasksInv /\ RestInv
  BY DEF BasicInv
<1>2. 0 \in 0 .. Len(tasks) /\ <<>> \in Seq(Task) /\ <<Plain("hosts")>> \in Seq(Task)
      /\ currentPage \in Pages
  BY <1>1, TaskShapes DEF TasksInv, RestInv, Kinds
<1>3. CASE StartApp
  <2>1. PICK p : p = currentPage'
    OBVIOUS
  <2>2. p \in Pages /\ LoadPage(p, 0, <<Plain("hosts")>>)
    BY <1>1, <1>3, <2>1 DEF StartApp, RestInv, Pages
  <2> QED BY <1>2, <2>2, LoadPageKeepsLogs
<1>4. CASE Refresh
  BY <1>2, <1>4, LoadPageKeepsLogs DEF Refresh
<1>5. ASSUME NEW p \in Pages, Navigate(p) PROVE LogsInv'
  BY <1>2, <1>5, LoadPageKeepsLogs DEF Navigate
<1>6. CASE LogOut \/ \E h \in Hosts : SelectHost(h)
  <2>1. UNCHANGED <<content, containersPage, loading, left>>
    BY <1>6 DEF LogOut, SelectHost
  <2> QED BY <1>1, <2>1, SameKeepsLogs DEF containersPage
<1> QED BY <1>3, <1>4, <1>5, <1>6 DEF AtTheShell

LEMMA AnswerKeepsLogs ==
  ASSUME BasicInv, LogsInv, NEW i \in DOMAIN tasks, Answer(i)
  PROVE  LogsInv'
<1>1. ContentInv /\ TasksInv /\ RestInv /\ HashInv
  BY DEF BasicInv
<1>2. i \in 0 .. Len(tasks) /\ <<>> \in Seq(Task)
  BY <1>1, Resumed
<1>3. CASE HashChange(i) \/ PingAnswer(i)
  <2>1. CASE HashChange(i)
    <3>1. hash \in Pages
      BY <1>1, <2>1 DEF HashInv, RestInv, HashChange, Resumes
    <3> QED BY <1>2, <2>1, <3>1, LoadPageKeepsLogs DEF HashChange
  <2>2. CASE PingAnswer(i)
    <3>1. currentPage \in Pages
      BY <1>1 DEF RestInv
    <3> QED BY <1>2, <2>2, <3>1, LoadPageKeepsLogs DEF PingAnswer
  <2> QED BY <1>3, <2>1, <2>2
<1>4. CASE ModuleArrives(i)
  <2>1. PICK p : p = tasks[i].page
    OBVIOUS
  <2>2. p \in Pages /\ ShowPage(p, Rest(i), <<>>) /\ UNCHANGED <<logTimer, orphans>>
    BY <1>1, <1>4, <2>1, Resumed DEF ModuleArrives, Resumes, containersPage
  <2>3. /\ content' = Rendered(p) /\ loading' = {}
        /\ left' = left \cup (IF content.view = "logs" THEN {content.of} ELSE {})
    BY <1>1, <1>2, <2>2, ModuleShows
  <2>4. content'.view # "logs" /\ content'.logs = None /\ ~content'.tail
    BY <2>2, <2>3, RenderedShape
  <2> QED BY <1>1, <2>2, <2>3, <2>4, ReplacedKeepsLogs
<1>5. CASE ImportFails(i) \/ HostsFail(i)
  <2>1. Replace(Fresh("error"), Rest(i)) /\ UNCHANGED <<logTimer, orphans>>
    BY <1>5 DEF ImportFails, HostsFail, containersPage
  <2>2. /\ content' = Fresh("error") /\ loading' = {}
        /\ left' = left \cup (IF content.view = "logs" THEN {content.of} ELSE {})
    BY <2>1 DEF Replace
  <2>3. content'.view # "logs" /\ content'.logs = None /\ ~content'.tail
    BY <2>2, ContentShapes
  <2> QED BY <1>1, <2>1, <2>2, <2>3, ReplacedKeepsLogs
<1>6. CASE StatsAnswer(i) \/ UsageAnswer(i) \/ ListAnswer(i) \/ DriftAnswer(i) \/ ActionAnswer(i)
            \/ Fails(i) \/ HostsAnswer(i)
  <2>1. UNCHANGED <<logTimer, orphans, loading, left>>
    BY <1>6 DEF StatsAnswer, UsageAnswer, ListAnswer, DriftAnswer, ActionAnswer, Fails,
                HostsAnswer, containersPage
  <2>2. \/ content' = content
        \/ content.view \in {"dashboard", "list"} /\ Showing(tasks[i].host)
        \/ content.view \in {"dashboard", "list"} /\ Showing(rows)
        \/ content.view \in {"dashboard", "list"} /\ Showing("none")
    BY <1>6 DEF StatsAnswer, UsageAnswer, ListAnswer, DriftAnswer, ActionAnswer, Fails,
                HostsAnswer
  <2>3. CASE content' = content
    BY <1>1, <2>1, <2>3, SameKeepsLogs
  <2>4. CASE content' # content
    <3>1. PICK g \in Hosts \cup {None, "none"} :
            content.view \in {"dashboard", "list"} /\ Showing(g)
      BY <1>1, <2>2, <2>4, Resumed DEF RestInv
    <3>2. /\ content'.view = content.view /\ content'.of = content.of
          /\ content'.logs = content.logs /\ content'.tail = content.tail
      BY <1>1, <3>1, ShownContent
    <3> QED BY <1>1, <2>1, <3>2, SameKeepsLogs
  <2> QED BY <2>3, <2>4
<1>7. CASE CreateAnswer(i)
  <2>1. UNCHANGED <<logTimer, orphans>>
    BY <1>7 DEF CreateAnswer, containersPage
  <2>2. CASE OnContainers
    <3>1. /\ content'.view = "create" /\ content'.logs = None /\ ~content'.tail
          /\ loading' = {}
          /\ left' = left \cup (IF content.view = "logs" THEN {content.of} ELSE {})
      BY <1>1, <1>7, <2>2, CreateDoes
    <3> QED BY <1>1, <2>1, <3>1, ReplacedKeepsLogs
  <2>3. CASE ~OnContainers
    <3>1. content' = content /\ loading' = loading /\ left' = left
      BY <1>1, <1>7, <2>3, CreateDoes
    <3> QED BY <1>1, <2>1, <3>1, SameKeepsLogs
  <2> QED BY <2>2, <2>3
<1>8. CASE SubmitAnswer(i)
  <2>1. /\ ShowListView(Rest(i)) /\ UNCHANGED <<started, hash, currentPage, hostId>>
        /\ UNCHANGED <<logTimer, orphans>>
        /\ left' = left \cup (IF content.view = "logs" THEN {content.of} ELSE {})
    BY <1>8 DEF SubmitAnswer, ContainersOnly
  <2>2. CASE OnContainers
    <3>1. content' = Rendered("containers") /\ loading' = {}
      BY <1>1, <1>2, <2>1, <2>2, ListViewDoes
    <3>2. content'.view # "logs" /\ content'.logs = None /\ ~content'.tail
      BY <3>1, RenderedShape DEF Pages
    <3> QED BY <1>1, <2>1, <3>1, <3>2, ReplacedKeepsLogs
  <2>3. CASE ~OnContainers
    <3>1. content' = content /\ loading' = loading /\ left' = left
      BY <1>1, <1>2, <2>1, <2>3, ListViewDoes DEF OnContainers
    <3> QED BY <1>1, <2>1, <3>1, SameKeepsLogs
  <2> QED BY <2>2, <2>3
<1> QED BY <1>3, <1>4, <1>5, <1>6, <1>7, <1>8 DEF Answer

LEMMA AtThePageKeepsLogs ==
  ASSUME BasicInv, LogsInv, AtThePage
  PROVE  LogsInv'
<1>1. ContentInv /\ TasksInv /\ RestInv
  BY DEF BasicInv
<1>2. CASE Act \/ ShowCreateView \/ Submit
  <2>1. UNCHANGED <<content, logTimer, orphans, loading, left>>
    BY <1>2 DEF Act, ShowCreateView, Submit, containersPage
  <2> QED BY <1>1, <2>1, SameKeepsLogs
<1>3. CASE BackToList
  <2>1. tasks = Rest(0) /\ 0 \in 0 .. Len(tasks)
    BY <1>1 DEF Rest, TasksInv
  <2>2. /\ ShowListView(Rest(0)) /\ UNCHANGED <<started, hash, currentPage, hostId>>
        /\ OnContainers /\ UNCHANGED <<orphans, left>>
        /\ logTimer' = (IF content.view = "logs" THEN None ELSE logTimer)
    BY <1>3, <2>1 DEF BackToList, ContainersOnly, OnContainers
  <2>3. content' = Rendered("containers") /\ loading' = {}
    BY <1>1, <2>1, <2>2, ListViewDoes
  <2>4. content'.view = "list" /\ content'.logs = None /\ ~content'.tail
    BY <2>3, RenderedShape DEF Pages
  <2> QED BY <1>1, <2>2, <2>3, <2>4 DEF LogsInv, LogsOfTheView, ContentInv
<1>4. CASE ToggleTail
  <2>1. /\ content.view = "logs" /\ content' = [content EXCEPT !.tail = ~content.tail]
        /\ left' = left
    BY <1>4 DEF ToggleTail
  <2>2. content.of \in Containers /\ content.logs \in Containers \cup {None}
    BY <1>1, <2>1 DEF ContentInv, Content
  <2>3. content'.view = "logs" /\ content'.of = content.of /\ content'.logs = content.logs
        /\ content'.tail = ~content.tail
    <3>1. PICK tail \in BOOLEAN : tail = ~content.tail
      OBVIOUS
    <3> QED BY <1>1, <2>1, <2>2, <3>1, LogsContent
  <2>4. CASE content.tail
    <3>1. logTimer' = None /\ loading' = loading /\ orphans' = orphans
      BY <1>4, <2>4 DEF ToggleTail
    <3> QED BY <2>1, <2>3, <2>4, <3>1 DEF LogsInv, LogsOfTheView
  <2>5. CASE ~content.tail
    <3>1. /\ logTimer' = content.of /\ orphans' = orphans \cup ({logTimer} \ {None})
          /\ loading' = loading \cup {content.of}
      BY <1>4, <2>5 DEF ToggleTail
    <3> QED BY <2>1, <2>3, <2>5, <3>1 DEF LogsInv, LogsOfTheView
  <2> QED BY <2>4, <2>5
<1>5. ASSUME NEW k \in Containers, ShowLogsView(k) PROVE LogsInv'
  <2>1. /\ content.view = "list" /\ content' = [Fresh("logs") EXCEPT !.of = k] /\ loading' = {k}
        /\ UNCHANGED <<logTimer, orphans, left>>
    BY <1>5 DEF ShowLogsView
  <2>2. /\ content'.view = "logs" /\ content'.of = k /\ content'.logs = None /\ ~content'.tail
    BY <2>1, LogsViewContent
  <2> QED BY <1>1, <2>1, <2>2 DEF LogsInv, LogsOfTheView, ContentInv
<1>6. ASSUME NEW k \in Containers, LogTick(k) PROVE LogsInv'
  <2>1. /\ k \in orphans \cup {logTimer} /\ content.view = "logs"
        /\ loading' = loading \cup {k} /\ UNCHANGED <<content, logTimer, orphans, left>>
    BY <1>6 DEF LogTick, containersPage
  <2> QED BY <2>1, ConsoleAssumption DEF LogsInv, LogsOfTheView
<1>7. ASSUME NEW k \in Containers, LogsAnswer(k) PROVE LogsInv'
  <2>1. PICK lines \in {k, None} : content' = [content EXCEPT !.logs = lines]
    BY <1>7 DEF LogsAnswer
  <2>2. k \in loading /\ loading' = loading \ {k} /\ UNCHANGED <<logTimer, orphans, left>>
    BY <1>7 DEF LogsAnswer, containersPage
  <2>3. content.view = "logs" /\ content.tail \in BOOLEAN /\ k \in left \cup {content.of}
    BY <1>1, <2>2 DEF LogsInv, ContentInv, Content
  <2>4. /\ content'.view = "logs" /\ content'.of = content.of
        /\ content'.logs = lines /\ content'.tail = content.tail
    BY <1>1, <2>1, <2>3, LogsContent
  <2> QED BY <2>1, <2>2, <2>3, <2>4 DEF LogsInv, LogsOfTheView
<1> QED BY <1>2, <1>3, <1>4, <1>5, <1>6, <1>7 DEF AtThePage

LEMMA LogsStep ==
  ASSUME BasicInv, LogsInv, [Next]_vars
  PROVE  LogsInv'
<1>1. CASE UNCHANGED vars
  BY <1>1 DEF vars, shell, containersPage, LogsInv, LogsOfTheView
<1> QED BY <1>1, ShellKeepsLogs, AtThePageKeepsLogs, AnswerKeepsLogs DEF Next

-----------------------------------------------------------------------------
(* PageInv.                                                                *)

\* Nothing was overtaken by a page that is loaded: no other page is on its way if
\* the page is shown at once, and, if anything waits, nothing was overtaken before.
LEMMA LoadPageInOrder ==
  ASSUME TasksInv, NEW p, NEW i \in 0 .. Len(tasks), NEW after, LoadPage(p, i, after), ~outrun'
  PROVE  /\ p \in cached => \A j \in DOMAIN tasks \ {i} : tasks[j].kind # "page"
         /\ \/ ~outrun /\ ~Late(i)
            \/ \A j \in DOMAIN tasks : j = i
<1>1. tasks \in Seq(Task)
  BY DEF TasksInv
<1>2. <<>> \in Seq(Task) /\ Rest(i) = Rest(i) \o <<>> /\ DOMAIN <<>> = {}
  BY NoneMore
<1>3. PICK ts : ts = Rest(i)
  OBVIOUS
<1>4. Consists(i, <<>>, ts)
  BY <1>1, <1>2, <1>3, OldOrNew
<1>5. \/ ts = <<>>
      \/ ~outrun /\ ~Late(i) /\ ~(p \in cached /\ Importing(ts))
  BY <1>3 DEF LoadPage
<1>6. ts = <<>> => DOMAIN ts = {}
  OBVIOUS
<1> QED BY <1>4, <1>5, <1>6 DEF Consists, Importing

\* A page that waits is still the last, or before the last.
LEMMA LastImportKept ==
  ASSUME TasksInv, NEW i \in 0 .. Len(tasks), NEW more, NEW ts, Placed(i, more, ts),
         i # 0 => tasks[i].kind # "page" \/ ~Late(i), NEW p, LastImport(tasks, p),
         \A m \in DOMAIN more : more[m].kind # "page"
  PROVE  LastImport(ts, p)
<1> SUFFICES ASSUME NEW n \in DOMAIN ts, ts[n].kind = "page", ts[n].page # p
             PROVE  \E k \in DOMAIN ts : n < k /\ ts[k].kind = "page"
  BY DEF LastImport
<1>1. \A m \in DOMAIN more : n # Then(i, m)
  BY DEF Placed
<1>2. PICK j \in DOMAIN tasks \ {i} : n = Now(i, j)
  BY <1>1 DEF Placed
<1>3. ts[n] = tasks[j]
  BY <1>2 DEF Placed
<1>4. PICK k \in DOMAIN tasks : j < k /\ tasks[k].kind = "page"
  BY <1>2, <1>3 DEF LastImport
<1>5. k # i
  <2>1. j \in 1 .. Len(tasks) /\ k \in 1 .. Len(tasks)
    BY DEF TasksInv
  <2>2. k = i => j \in 1 .. i - 1
    BY <1>4, <2>1
  <2>3. k = i => Late(i)
    BY <1>3, <2>2 DEF Late, Carries
  <2> QED BY <1>4, <2>1, <2>3
<1>6. Now(i, j) < Now(i, k) /\ Now(i, k) \in DOMAIN ts /\ ts[Now(i, k)] = tasks[k]
  BY <1>2, <1>4, <1>5 DEF Placed
<1> QED BY <1>2, <1>4, <1>6

\* A page that is loaded is the one that is shown or will be.
LEMMA LoadPageIsPage ==
  ASSUME BasicInv, NEW p \in Pages, NEW i \in 0 .. Len(tasks),
         NEW after \in Seq(Task), \A n \in DOMAIN after : after[n] = Plain("hosts"),
         LoadPage(p, i, after), currentPage' = p
  PROVE  PageInv'
<1> SUFFICES ASSUME ~outrun' PROVE PageInv'
  BY DEF PageInv
<1>1. TasksInv /\ RestInv /\ tasks \in Seq(Task)
  BY DEF BasicInv, TasksInv
<1>2. PICK more : PageLoads(p, i, after, more)
  BY <1>1, LoadPageDoes
<1>3. PICK ts : ts = tasks'
  OBVIOUS
<1>4. Consists(i, more, ts) /\ Placed(i, more, ts)
  BY <1>1, <1>2, <1>3, OldOrNew, NewTasks DEF PageLoads
<1>5. Plain("hosts").kind = "hosts"
  BY TaskShapes DEF Kinds
<1>6. p \in cached => \A j \in DOMAIN tasks \ {i} : tasks[j].kind # "page"
  BY <1>1, LoadPageInOrder
<1>7. \A m \in DOMAIN more : more[m].kind = "page" => more[m].page = p
  BY <1>2, <1>5 DEF PageLoads, Loads
<1>8. LastImport(ts, p)
  <2> SUFFICES ASSUME NEW n \in DOMAIN ts, ts[n].kind = "page", ts[n].page # p
               PROVE  \E k \in DOMAIN ts : n < k /\ ts[k].kind = "page"
    BY DEF LastImport
  <2>1. \A m \in DOMAIN more : n # Then(i, m)
    BY <1>4, <1>7 DEF Placed
  <2>2. PICK j \in DOMAIN tasks \ {i} : n = Now(i, j)
    BY <1>4, <2>1 DEF Placed
  <2>3. ts[n] = tasks[j]
    BY <1>4, <2>2 DEF Placed
  <2>4. p \notin cached
    BY <1>6, <2>2, <2>3
  <2>5. PICK m \in DOMAIN more : more[m].kind = "page"
    BY <1>2, <2>4 DEF PageLoads, Loads
  <2>6. Then(i, m) \in DOMAIN ts /\ ts[Then(i, m)] = more[m] /\ Now(i, j) < Then(i, m)
    BY <1>4, <2>2 DEF Placed
  <2> QED BY <2>2, <2>5, <2>6
<1>9. \/ content'.view \in ViewsOf(p)
      \/ \E n \in DOMAIN ts : ts[n].kind = "page"
  <2>1. content' = (IF p \in cached THEN Rendered(p) ELSE Fresh("loading"))
    BY <1>2 DEF PageLoads
  <2>2. CASE p \in cached
    BY <1>1, <2>1, <2>2, LoadedContent DEF ViewsOf
  <2>3. CASE p \notin cached
    <3>1. \E m \in DOMAIN more : more[m].kind = "page"
      BY <1>2, <2>3 DEF PageLoads, Loads
    <3> QED BY <1>4, <3>1 DEF Consists
  <2> QED BY <2>2, <2>3
<1> QED BY <1>3, <1>8, <1>9 DEF PageInv

\* The views of the containers page are one page.
SamePage ==
  \/ content'.view = content.view
  \/ OnContainers /\ content'.view \in {"list", "create", "logs"}

LEMMA PageKept ==
  ASSUME TasksInv, PageInv, NEW i \in 0 .. Len(tasks), i # 0 => tasks[i].kind # "page",
         NEW more \in Seq(Task), tasks' = Rest(i) \o more,
         \A m \in DOMAIN more : more[m].kind # "page",
         started' => started, currentPage' = currentPage, outrun => outrun', SamePage
  PROVE  PageInv'
<1> SUFFICES ASSUME started', ~outrun' PROVE PageInv'
  BY DEF PageInv
<1>1. tasks \in Seq(Task)
  BY DEF TasksInv
<1>2. PICK ts : ts = tasks'
  OBVIOUS
<1>3. Consists(i, more, ts) /\ Placed(i, more, ts)
  BY <1>1, <1>2, OldOrNew, NewTasks
<1>4. /\ LastImport(tasks, currentPage)
      /\ \/ content.view \in ViewsOf(currentPage) \cup {"error"}
         \/ \E j \in DOMAIN tasks : tasks[j].kind = "page"
  BY DEF PageInv
<1>5. LastImport(ts, currentPage)
  BY <1>3, <1>4, LastImportKept
<1>6. 0 \notin DOMAIN tasks
  BY <1>1
<1>7. CASE \E j \in DOMAIN tasks : tasks[j].kind = "page"
  <2>1. PICK j \in DOMAIN tasks : tasks[j].kind = "page"
    BY <1>7
  <2>2. j # i
    BY <1>6, <2>1
  <2>3. \E n \in DOMAIN ts : ts[n] = tasks[j]
    BY <1>3, <2>2 DEF Consists
  <2> QED BY <1>2, <1>5, <2>1, <2>3 DEF PageInv
<1>8. CASE content.view \in ViewsOf(currentPage) \cup {"error"}
  <2>1. content'.view \in ViewsOf(currentPage) \cup {"error"}
    BY <1>8 DEF SamePage, OnContainers, ViewsOf
  <2> QED BY <1>2, <1>5, <2>1 DEF PageInv
<1> QED BY <1>4, <1>7, <1>8

LEMMA ShellPage ==
  ASSUME BasicInv, PageInv, AtTheShell
  PROVE  PageInv'
<1>1. TasksInv /\ RestInv /\ HashInv /\ tasks \in Seq(Task)
  BY DEF BasicInv, TasksInv
<1>2. 0 \in 0 .. Len(tasks) /\ <<>> \in Seq(Task) /\ \A n \in DOMAIN <<>> : FALSE
  BY <1>1
<1>3. CASE StartApp
  <2>1. PICK p : p = currentPage'
    OBVIOUS
  <2>2. p \in Pages /\ LoadPage(p, 0, <<Plain("hosts")>>)
    BY <1>1, <1>3, <2>1 DEF StartApp, RestInv, Pages
  <2>3. /\ <<Plain("hosts")>> \in Seq(Task)
        /\ \A n \in DOMAIN <<Plain("hosts")>> : <<Plain("hosts")>>[n] = Plain("hosts")
    BY TaskShapes DEF Kinds
  <2> QED BY <1>2, <2>1, <2>2, <2>3, LoadPageIsPage
<1>4. CASE Refresh
  <2>1. LoadPage(currentPage, 0, <<>>) /\ currentPage \in Pages /\ currentPage' = currentPage
    BY <1>1, <1>4 DEF Refresh, RestInv
  <2> QED BY <1>2, <2>1, LoadPageIsPage
<1>5. ASSUME NEW p \in Pages, Navigate(p) PROVE PageInv'
  <2>1. LoadPage(p, 0, <<>>) /\ currentPage' = p
    BY <1>5 DEF Navigate
  <2> QED BY <1>2, <2>1, LoadPageIsPage
<1>6. CASE LogOut
  BY <1>6 DEF LogOut, PageInv
<1>7. ASSUME NEW h \in Hosts, SelectHost(h) PROVE PageInv'
  <2> DEFINE more == <<Plain("ping")>>
  <2>1. Plain("ping") \in Task /\ Plain("ping").kind = "ping"
    BY TaskShapes DEF Kinds
  <2>2. tasks' = Rest(0) \o more /\ more \in Seq(Task) /\ DOMAIN more = {1}
        /\ more[1].kind = "ping"
    BY <1>1, <1>7, <2>1, AppendIsMore DEF SelectHost
  <2>3. /\ started' = started /\ currentPage' = currentPage /\ outrun' = outrun
        /\ content' = content
    BY <1>7 DEF SelectHost
  <2> HIDE DEF more
  <2>4. SamePage /\ \A m \in DOMAIN more : more[m].kind # "page"
    BY <2>2, <2>3 DEF SamePage
  <2> QED BY <1>1, <1>2, <2>2, <2>3, <2>4, PageKept
<1> QED BY <1>3, <1>4, <1>5, <1>6, <1>7 DEF AtTheShell

\* An error says nothing about a page.
LEMMA ErrorPage ==
  ASSUME TasksInv, PageInv, NEW i \in DOMAIN tasks, Replace(Fresh("error"), Rest(i)),
         overtook' = (overtook \/ Late(i)), UNCHANGED outdated, UNCHANGED <<started, currentPage>>
  PROVE  PageInv'
<1> SUFFICES ASSUME started', ~outrun' PROVE PageInv'
  BY DEF PageInv
<1>1. tasks \in Seq(Task) /\ i \in 0 .. Len(tasks)
  BY Resumed DEF TasksInv
<1>2. <<>> \in Seq(Task) /\ tasks' = Rest(i) \o <<>> /\ DOMAIN <<>> = {}
  BY <1>1, NoneMore DEF Replace
<1>3. PICK ts : ts = tasks'
  OBVIOUS
<1>4. Placed(i, <<>>, ts)
  BY <1>1, <1>2, <1>3, NewTasks
<1>5. LastImport(tasks, currentPage) /\ ~Late(i)
  BY DEF PageInv
<1>6. LastImport(ts, currentPage)
  BY <1>1, <1>2, <1>4, <1>5, LastImportKept
<1>7. content'.view = "error"
  BY ContentShapes DEF Replace
<1> QED BY <1>3, <1>6, <1>7 DEF PageInv

LEMMA ModulePage ==
  ASSUME BasicInv, PageInv, NEW i \in DOMAIN tasks, ModuleArrives(i)
  PROVE  PageInv'
<1> SUFFICES ASSUME started', ~outrun' PROVE PageInv'
  BY DEF PageInv
<1>1. TasksInv /\ RestInv /\ tasks \in Seq(Task)
  BY DEF BasicInv, TasksInv
<1>2. PICK p : p = tasks[i].page
  OBVIOUS
<1>3. i \in 0 .. Len(tasks) /\ p \in Pages
  BY <1>1, <1>2, Resumed DEF ModuleArrives, Resumes
<1>4. /\ UNCHANGED <<started, currentPage>> /\ ~outrun /\ ~Late(i)
      /\ ShowPage(p, Rest(i), <<>>)
  BY <1>2 DEF ModuleArrives
<1>5. PICK more : more = Requests(p)
  OBVIOUS
<1>6. more \in Seq(Task) /\ tasks' = Rest(i) \o more /\ content' = Rendered(p)
  BY <1>1, <1>3, <1>4, <1>5, ModuleShows
<1>7. PICK ts : ts = tasks'
  OBVIOUS
<1>8. Placed(i, more, ts)
  BY <1>1, <1>3, <1>6, <1>7, NewTasks
<1>9. \A m \in DOMAIN more : more[m].kind # "page"
  BY <1>1, <1>3, <1>5, RequestsShape DEF RestInv
<1>10. LastImport(tasks, currentPage)
  BY <1>4 DEF PageInv
<1>11. LastImport(ts, currentPage)
  BY <1>1, <1>3, <1>4, <1>8, <1>9, <1>10, LastImportKept
<1>12. \/ content'.view \in ViewsOf(currentPage)
       \/ \E n \in DOMAIN ts : ts[n].kind = "page"
  <2>1. CASE p = currentPage
    BY <1>3, <1>6, <2>1, RenderedShape DEF ViewsOf
  <2>2. CASE p # currentPage
    <3>1. PICK k \in DOMAIN tasks : i < k /\ tasks[k].kind = "page"
      BY <1>2, <1>10, <2>2 DEF LastImport, ModuleArrives, Resumes
    <3>2. k \in DOMAIN tasks \ {i}
      BY <1>3, <3>1
    <3> QED BY <1>8, <3>1, <3>2 DEF Placed
  <2> QED BY <2>1, <2>2
<1> QED BY <1>4, <1>7, <1>11, <1>12 DEF PageInv

\* The other answers, of which none is that of an import.
LEMMA NoPageAsked ==
  ASSUME BasicInv, PageInv, NEW i \in 0 .. Len(tasks), i # 0 => tasks[i].kind # "page",
         outrun => outrun', SamePage, UNCHANGED <<started, hash, currentPage, hostId>>,
         \/ tasks' = Rest(i)
         \/ tasks' = Rest(i) \o <<>>
         \/ \E kind \in Kinds \ {"page"}, h \in Hosts \cup {None} :
              tasks' = Rest(i) \o <<OfHost(kind, h)>> \/ tasks' = Rest(i) \o <<Plain(kind)>>
         \/ tasks' = Rest(i) \o Requests("containers")
  PROVE  PageInv'
<1>1. TasksInv /\ RestInv
  BY DEF BasicInv
<1>2. CASE tasks' = Rest(i) \/ tasks' = Rest(i) \o <<>>
  <2>1. <<>> \in Seq(Task) /\ tasks' = Rest(i) \o <<>> /\ \A m \in DOMAIN <<>> : FALSE
    BY <1>1, <1>2, NoneMore
  <2> QED BY <1>1, <2>1, PageKept
<1>3. ASSUME NEW kind \in Kinds \ {"page"}, NEW h \in Hosts \cup {None},
             tasks' = Rest(i) \o <<OfHost(kind, h)>> \/ tasks' = Rest(i) \o <<Plain(kind)>>
      PROVE  PageInv'
  <2>1. PICK more : /\ more = <<OfHost(kind, h)>> \/ more = <<Plain(kind)>>
                    /\ tasks' = Rest(i) \o more
    BY <1>3
  <2>2. /\ more \in Seq(Task) /\ DOMAIN more = {1} /\ more[1].kind = kind
    <3>1. kind \in Kinds /\ h \in Hosts \cup {None}
      OBVIOUS
    <3>2. CASE more = <<Plain(kind)>>
      BY <3>1, <3>2, OneMore
    <3>3. CASE more = <<OfHost(kind, h)>>
      BY <3>1, <3>3, OneMore
    <3> QED BY <2>1, <3>2, <3>3
  <2>3. tasks' = Rest(i) \o more /\ \A m \in DOMAIN more : more[m].kind # "page"
    BY <2>1, <2>2
  <2> QED BY <1>1, <2>2, <2>3, PageKept
<1>4. CASE tasks' = Rest(i) \o Requests("containers")
  <2>1. Lists(i)
    BY <1>1, <1>4, StepsList
  <2>2. PICK more : more = Requests("containers")
    OBVIOUS
  <2>3. /\ more \in Seq(Task) /\ tasks' = Rest(i) \o more
        /\ \A m \in DOMAIN more : more[m].kind # "page"
    BY <2>1, <2>2 DEF Lists, Steps
  <2> QED BY <1>1, <2>3, PageKept
<1> QED BY <1>2, <1>3, <1>4

LEMMA AnswerPage ==
  ASSUME BasicInv, PageInv, NEW i \in DOMAIN tasks, Answer(i)
  PROVE  PageInv'
<1>1. ContentInv /\ TasksInv /\ RestInv /\ HashInv
  BY DEF BasicInv
<1>2. PICK h : h = tasks[i].host
  OBVIOUS
<1>3. /\ i \in 0 .. Len(tasks) /\ i # 0 /\ h \in Hosts \cup {None}
      /\ hostId \in Hosts \cup {None}
      /\ {"usage", "drift"} \subseteq Kinds \ {"page"}
  BY <1>1, <1>2, Resumed DEF RestInv, Kinds
<1>4. <<>> \in Seq(Task) /\ \A n \in DOMAIN <<>> : FALSE
  BY <1>1, <1>3, NoneMore
<1>5. CASE HashChange(i)
  <2>1. hash \in Pages /\ LoadPage(hash, i, <<>>) /\ currentPage' = hash
    BY <1>1, <1>5 DEF HashInv, RestInv, HashChange, Resumes
  <2> QED BY <1>3, <1>4, <2>1, LoadPageIsPage
<1>6. CASE PingAnswer(i)
  <2>1. currentPage \in Pages /\ LoadPage(currentPage, i, <<>>) /\ currentPage' = currentPage
    BY <1>1, <1>6 DEF RestInv, PingAnswer
  <2> QED BY <1>3, <1>4, <2>1, LoadPageIsPage
<1>7. CASE ModuleArrives(i)
  BY <1>7, ModulePage
<1>8. CASE ImportFails(i) \/ HostsFail(i)
  BY <1>1, <1>8, ErrorPage DEF ImportFails, HostsFail
<1>9. CASE HostsAnswer(i)
  <2>1. /\ started' = started /\ currentPage' = currentPage /\ content' = content
        /\ (outrun => outrun') /\ tasks[i].kind # "page"
    BY <1>9 DEF HostsAnswer, Goes, Resumes
  <2>2. SamePage
    BY <2>1 DEF SamePage
  <2>3. PICK more : /\ more \in Seq(Task) /\ tasks' = Rest(i) \o more
                    /\ \A m \in DOMAIN more : more[m].kind # "page"
    <3>1. CASE hash = None
      <4>1. tasks' = Rest(i) \o <<Plain("route")>>
        BY <1>9, <3>1 DEF HostsAnswer, Goes
      <4>2. "route" \in Kinds /\ None \in Hosts \cup {None}
        BY DEF Kinds
      <4>3. PICK more : more = <<Plain("route")>>
        OBVIOUS
      <4>4. more \in Seq(Task) /\ DOMAIN more = {1} /\ more[1].kind = "route"
        BY <4>2, <4>3, OneMore
      <4> QED BY <4>1, <4>3, <4>4
    <3>2. CASE hash # None
      <4>1. tasks' = Rest(i)
        BY <1>9, <3>2 DEF HostsAnswer
      <4>2. tasks' = Rest(i) \o <<>>
        BY <1>1, <1>3, <4>1, NoneMore
      <4> QED BY <1>4, <4>2
    <3> QED BY <3>1, <3>2
  <2> QED BY <1>1, <1>3, <2>1, <2>2, <2>3, PageKept
<1>10. CASE StatsAnswer(i) \/ UsageAnswer(i)
  <2>1. /\ UNCHANGED <<started, hash, currentPage, hostId>> /\ (outrun => outrun')
        /\ tasks[i].kind # "page"
    <3>1. CASE StatsAnswer(i)
      BY <3>1 DEF StatsAnswer, Goes, Resumes
    <3>2. CASE UsageAnswer(i)
      BY <3>2 DEF UsageAnswer, Goes, Resumes
    <3> QED BY <1>10, <3>1, <3>2
  <2>2. tasks' = Rest(i) \o <<>> \/ tasks' = Rest(i) \o <<OfHost("usage", h)>>
    <3>1. CASE StatsAnswer(i)
      BY <1>2, <3>1, Zenon DEF StatsAnswer, Goes
    <3>2. CASE UsageAnswer(i)
      BY <3>2, Zenon DEF UsageAnswer, Goes
    <3> QED BY <1>10, <3>1, <3>2
  <2>3. SamePage
    <3>1. \/ content' = content
          \/ content.view = "dashboard" /\ Showing(h)
          \/ content.view = "dashboard" /\ Showing("none")
      BY <1>2, <1>10, Zenon DEF StatsAnswer, UsageAnswer
    <3>2. CASE content' = content
      BY <3>2 DEF SamePage
    <3>3. CASE content' # content
      <4>1. PICK g \in Hosts \cup {None, "none"} : content.view = "dashboard" /\ Showing(g)
        BY <1>3, <3>1, <3>3
      <4> QED BY <1>1, <4>1, ShownContent DEF SamePage
    <3> QED BY <3>2, <3>3
  <2> QED BY <1>3, <2>1, <2>2, <2>3, NoPageAsked
<1>11. CASE ListAnswer(i) \/ DriftAnswer(i) \/ ActionAnswer(i) \/ Fails(i)
  <2>1. /\ UNCHANGED <<started, hash, currentPage, hostId>> /\ (outrun => outrun')
        /\ tasks[i].kind # "page"
    <3>1. CASE ListAnswer(i)
      BY <3>1 DEF ListAnswer, Goes, Resumes, ContainersOnly
    <3>2. CASE DriftAnswer(i)
      BY <3>2 DEF DriftAnswer, Goes, Resumes, ContainersOnly
    <3>3. CASE ActionAnswer(i)
      BY <3>3 DEF ActionAnswer, Goes, Resumes, ContainersOnly
    <3>4. CASE Fails(i)
      BY <3>4 DEF Fails, ContainersOnly
    <3> QED BY <1>11, <3>1, <3>2, <3>3, <3>4
  <2>2. \/ tasks' = Rest(i)
        \/ tasks' = Rest(i) \o <<>>
        \/ tasks' = Rest(i) \o <<OfHost("drift", hostId)>>
        \/ tasks' = Rest(i) \o Requests("containers")
    BY <1>11, Zenon DEF ListAnswer, DriftAnswer, ActionAnswer, Fails, Goes
  <2>3. SamePage
    <3>1. \/ content' = content
          \/ content.view = "list" /\ Showing(h)
          \/ content.view = "list" /\ Showing(rows)
          \/ content.view = "list" /\ Showing("none")
      BY <1>2, <1>11, Zenon DEF ListAnswer, DriftAnswer, ActionAnswer, Fails
    <3>2. CASE content' = content
      BY <3>2 DEF SamePage
    <3>3. CASE content' # content
      <4>1. PICK g \in Hosts \cup {None, "none"} : content.view = "list" /\ Showing(g)
        BY <1>1, <1>3, <3>1, <3>3 DEF RestInv
      <4> QED BY <1>1, <4>1, ShownContent DEF SamePage
    <3> QED BY <3>2, <3>3
  <2> QED BY <1>3, <2>1, <2>2, <2>3, NoPageAsked
<1>12. CASE CreateAnswer(i)
  <2>1. /\ UNCHANGED <<started, hash, currentPage, hostId>> /\ (outrun => outrun')
        /\ tasks[i].kind # "page"
    BY <1>12 DEF CreateAnswer, Resumes, ContainersOnly
  <2>2. /\ OnContainers => tasks' = Rest(i) /\ content'.view = "create"
        /\ ~OnContainers => tasks' = Rest(i) /\ content' = content
    BY <1>1, <1>12, CreateDoes
  <2>3. SamePage
    BY <2>2 DEF SamePage
  <2> QED BY <1>3, <2>1, <2>2, <2>3, NoPageAsked
<1>13. CASE SubmitAnswer(i)
  <2>1. /\ UNCHANGED <<started, hash, currentPage, hostId>> /\ (outrun => outrun')
        /\ tasks[i].kind # "page" /\ ShowListView(Rest(i))
    BY <1>13 DEF SubmitAnswer, Resumes, ContainersOnly
  <2>2. \/ tasks' = Rest(i) /\ content' = content
        \/ tasks' = Rest(i) \o Requests("containers") /\ OnContainers
             /\ content' = Rendered("containers")
    BY <2>1 DEF ShowListView
  <2>3. SamePage
    BY <2>2, RenderedShape DEF SamePage, Pages
  <2> QED BY <1>3, <2>1, <2>2, <2>3, NoPageAsked
<1> QED BY <1>5, <1>6, <1>7, <1>8, <1>9, <1>10, <1>11, <1>12, <1>13 DEF Answer

LEMMA AtThePagePage ==
  ASSUME BasicInv, LogsInv, PageInv, AtThePage
  PROVE  PageInv'
<1>1. ContentInv /\ TasksInv /\ RestInv /\ tasks \in Seq(Task)
  BY DEF BasicInv, TasksInv
<1>2. UNCHANGED <<started, hash, currentPage, hostId, outrun>>
  BY DEF AtThePage, Act, ShowCreateView, Submit, BackToList, ToggleTail, ShowLogsView, LogTick,
         LogsAnswer, ContainersOnly
<1>3. /\ 0 \in 0 .. Len(tasks) /\ Rest(0) = tasks /\ hostId \in Hosts \cup {None}
      /\ {"action", "submit", "create"} \subseteq Kinds \ {"page"}
  BY <1>1 DEF Rest, RestInv, Kinds
<1>4. CASE Act \/ ShowCreateView \/ Submit
  <2>1. /\ content' = content
        /\ \/ tasks' = Append(tasks, Plain("action"))
           \/ tasks' = Append(tasks, OfHost("create", hostId))
           \/ tasks' = Append(tasks, Plain("submit"))
    BY <1>4 DEF Act, ShowCreateView, Submit
  <2>2. {Plain("action"), OfHost("create", hostId), Plain("submit")} \subseteq Task
    BY <1>3, TaskShapes
  <2>3. \A task \in Task : Append(tasks, task) = Rest(0) \o <<task>>
    BY <1>1, AppendIsMore
  <2>4. SamePage
    BY <2>1 DEF SamePage
  <2> QED BY <1>2, <1>3, <2>1, <2>2, <2>3, <2>4, NoPageAsked
<1>5. CASE BackToList
  <2>1. ShowListView(Rest(0)) /\ OnContainers
    BY <1>3, <1>5 DEF BackToList, OnContainers
  <2>2. tasks' = Rest(0) \o Requests("containers") /\ content' = Rendered("containers")
    BY <2>1 DEF ShowListView
  <2>3. SamePage
    BY <2>1, <2>2, RenderedShape DEF SamePage, Pages
  <2> QED BY <1>2, <1>3, <2>2, <2>3, NoPageAsked
<1>6. CASE ToggleTail \/ \E k \in Containers : ShowLogsView(k) \/ LogTick(k) \/ LogsAnswer(k)
  <2>1. tasks' = Rest(0)
    BY <1>3, <1>6 DEF ToggleTail, ShowLogsView, LogTick, LogsAnswer
  <2>2. SamePage
    <3>1. CASE ToggleTail
      <4>1. PICK tail \in BOOLEAN : tail = ~content.tail
        OBVIOUS
      <4>2. content.view = "logs" /\ content' = [content EXCEPT !.tail = tail]
            /\ content.logs \in Containers \cup {None}
        BY <1>1, <3>1, <4>1 DEF ToggleTail, ContentInv, Content
      <4> QED BY <1>1, <4>1, <4>2, LogsContent DEF SamePage
    <3>2. ASSUME NEW k \in Containers, ShowLogsView(k) PROVE SamePage
      BY <3>2, LogsViewContent DEF ShowLogsView, SamePage, OnContainers
    <3>3. ASSUME NEW k \in Containers, LogTick(k) PROVE SamePage
      BY <3>3 DEF LogTick, SamePage
    <3>4. ASSUME NEW k \in Containers, LogsAnswer(k) PROVE SamePage
      <4>1. PICK lines \in {k, None} : content' = [content EXCEPT !.logs = lines]
        BY <3>4 DEF LogsAnswer
      <4>2. content.view = "logs" /\ content.tail \in BOOLEAN
        BY <1>1, <3>4 DEF LogsAnswer, LogsInv, ContentInv, Content
      <4> QED BY <1>1, <4>1, <4>2, LogsContent DEF SamePage
    <3> QED BY <1>6, <3>1, <3>2, <3>3, <3>4
  <2> QED BY <1>2, <1>3, <2>1, <2>2, NoPageAsked
<1> QED BY <1>4, <1>5, <1>6 DEF AtThePage

LEMMA PageStep ==
  ASSUME BasicInv, LogsInv, PageInv, [Next]_vars
  PROVE  PageInv'
<1>1. CASE UNCHANGED vars
  BY <1>1 DEF vars, shell, PageInv
<1> QED BY <1>1, ShellPage, AtThePagePage, AnswerPage DEF Next

-----------------------------------------------------------------------------
(* HostInv: what becomes of the tasks that wait when task i is answered, and *)
(* more are asked for.                                                       *)

\* A task that will bring data of the host h, or none but on the screen already.
Of(task, h) == task.host \in {None, h} \/ task.kind = "usage"

\* A task that waits is not overtaken: none before it carries a page or a host.
LEMMA NotLate ==
  ASSUME TasksInv, NEW i \in 0 .. Len(tasks), i = 0 \/ ~Late(i), NEW j \in DOMAIN tasks,
         tasks[j].host # None, j # i, i # 0
  PROVE  i < j
<1>1. j \in 1 .. Len(tasks) /\ i \in Int
  BY DEF TasksInv
<1>2. ~(j \in 1 .. i - 1)
  BY DEF Late, Carries
<1> QED BY <1>1, <1>2

\* Switches that wait go on waiting.
LEMMA MovingKept ==
  ASSUME TasksInv, NEW i, NEW more, NEW ts, Placed(i, more, ts), Moving(tasks),
         i \in DOMAIN tasks => ~Switch(tasks[i]) /\ tasks[i].kind # "page"
  PROVE  Moving(ts)
<1>1. PICK k \in DOMAIN tasks : Switch(tasks[k]) \/ tasks[k].kind = "page"
  BY DEF Moving
<1>2. k \in DOMAIN tasks \ {i}
  BY <1>1
<1>3. Now(i, k) \in DOMAIN ts /\ ts[Now(i, k)] = tasks[k]
  BY <1>2 DEF Placed
<1> QED BY <1>1, <1>3 DEF Moving

\* What a task will bring is asked for again after it, or replaced, as it was.
LEMMA FollowedKept ==
  ASSUME TasksInv, NEW i \in 0 .. Len(tasks), i = 0 \/ ~Late(i), NEW more, NEW ts,
         Placed(i, more, ts), NEW h,
         Followed(tasks, h) \/ \A j \in DOMAIN tasks : j = i,
         \A m \in DOMAIN more : Of(more[m], h)
  PROVE  Followed(ts, h)
<1> SUFFICES ASSUME NEW n \in DOMAIN ts, ts[n].host \notin {None, h}, ts[n].kind # "usage"
             PROVE  \E k \in DOMAIN ts : n < k /\ Switch(ts[k])
  BY DEF Followed
<1>1. \A m \in DOMAIN more : n # Then(i, m)
  BY DEF Placed, Of
<1>2. PICK j \in DOMAIN tasks \ {i} : n = Now(i, j)
  BY <1>1 DEF Placed
<1>3. ts[n] = tasks[j]
  BY <1>2 DEF Placed
<1>4. PICK k \in DOMAIN tasks : j < k /\ Switch(tasks[k])
  BY <1>2, <1>3 DEF Followed
<1>5. k # i
  <2>1. 0 \notin DOMAIN tasks
    BY DEF TasksInv
  <2>2. SUFFICES ASSUME k = i PROVE FALSE
    OBVIOUS
  <2>3. i < j
    BY <1>2, <1>3, <2>1, <2>2, NotLate
  <2>4. j \in Int /\ i \in Int
    BY <1>2 DEF TasksInv
  <2> QED BY <1>4, <2>2, <2>3, <2>4
<1>6. Now(i, j) < Now(i, k) /\ Now(i, k) \in DOMAIN ts /\ ts[Now(i, k)] = tasks[k]
  BY <1>2, <1>4, <1>5 DEF Placed
<1> QED BY <1>2, <1>4, <1>6

\* What was asked for after a task that carries a host still is.
LEMMA AfterKept ==
  ASSUME TasksInv, NEW i \in 0 .. Len(tasks), i = 0 \/ ~Late(i), NEW more, NEW ts,
         Placed(i, more, ts), NEW j \in DOMAIN tasks \ {i}, tasks[j].host # None,
         NEW kind, NEW h, Asked(tasks, kind, h, j)
  PROVE  Asked(ts, kind, h, Now(i, j))
<1>1. PICK k \in DOMAIN tasks : j < k /\ tasks[k].kind = kind /\ tasks[k].host = h
  BY DEF Asked
<1>2. k # i
  <2>1. 0 \notin DOMAIN tasks
    BY DEF TasksInv
  <2>2. SUFFICES ASSUME k = i PROVE FALSE
    OBVIOUS
  <2>3. i < j
    BY <1>1, <2>1, <2>2, NotLate
  <2>4. j \in Int /\ i \in Int
    BY DEF TasksInv
  <2> QED BY <1>1, <2>2, <2>3, <2>4
<1>3. Now(i, j) < Now(i, k) /\ Now(i, k) \in DOMAIN ts /\ ts[Now(i, k)] = tasks[k]
  BY <1>1, <1>2 DEF Placed
<1> QED BY <1>1, <1>3 DEF Asked

\* What is asked for and is not what is answered.
LEMMA AskedKept ==
  ASSUME TasksInv, NEW i, NEW more, NEW ts, Placed(i, more, ts), NEW kind, NEW h,
         Asked(tasks, kind, h, 0),
         i \in DOMAIN tasks => tasks[i].kind # kind \/ tasks[i].host # h
  PROVE  Asked(ts, kind, h, 0)
<1>1. PICK k \in DOMAIN tasks : tasks[k].kind = kind /\ tasks[k].host = h
  BY DEF Asked
<1>2. k \in DOMAIN tasks \ {i}
  BY <1>1
<1>3. 0 < Now(i, k) /\ Now(i, k) \in DOMAIN ts /\ ts[Now(i, k)] = tasks[k]
  BY <1>2 DEF Placed
<1> QED BY <1>1, <1>3 DEF Asked

\* What is asked for now comes last.
LEMMA AskedNow ==
  ASSUME NEW i, NEW more, NEW ts, Placed(i, more, ts), NEW kind, NEW h,
         NEW m \in DOMAIN more, more[m].kind = kind, more[m].host = h
  PROVE  /\ Asked(ts, kind, h, 0)
         /\ \A j \in DOMAIN tasks \ {i} : Asked(ts, kind, h, Now(i, j))
<1>1. Then(i, m) \in DOMAIN ts /\ 0 < Then(i, m) /\ ts[Then(i, m)] = more[m]
      /\ \A j \in DOMAIN tasks \ {i} : Now(i, j) < Then(i, m)
  BY DEF Placed
<1> QED BY <1>1 DEF Asked

\* The data of usage answers that wait.
LEMMA UsageKept ==
  ASSUME TasksInv, NEW i \in 0 .. Len(tasks), i = 0 \/ ~Late(i),
         i \in DOMAIN tasks => ~Switch(tasks[i]) /\ tasks[i].kind # "page",
         NEW more, NEW ts, Placed(i, more, ts), NEW h, NEW v, NEW w,
         UsageOutlived(tasks, h, v), w = "dashboard" => v = "dashboard",
         \A m \in DOMAIN more :
           more[m].kind = "usage" => more[m].host \in {None, h} \/ Moving(ts)
  PROVE  UsageOutlived(ts, h, w)
<1> SUFFICES ASSUME NEW n \in DOMAIN ts, ts[n].kind = "usage", ts[n].host \notin {None, h},
                    w = "dashboard", ~Moving(ts)
             PROVE  Asked(ts, "stats", h, n)
  BY DEF UsageOutlived
<1>1. \A m \in DOMAIN more : n # Then(i, m)
  BY DEF Placed
<1>2. PICK j \in DOMAIN tasks \ {i} : n = Now(i, j)
  BY <1>1 DEF Placed
<1>3. ts[n] = tasks[j]
  BY <1>2 DEF Placed
<1>4. ~Moving(tasks)
  BY MovingKept
<1>5. Asked(tasks, "stats", h, j)
  BY <1>2, <1>3, <1>4 DEF UsageOutlived
<1> QED BY <1>2, <1>3, <1>5, AfterKept

\* The rows that drift answers that wait will show.
LEMMA RowsKept ==
  ASSUME TasksInv, NEW i \in 0 .. Len(tasks), i = 0 \/ ~Late(i),
         i \in DOMAIN tasks => ~Switch(tasks[i]) /\ tasks[i].kind # "page",
         NEW more, NEW ts, Placed(i, more, ts), NEW h, NEW v, NEW w, NEW old, NEW new,
         RowsOutlived(tasks, h, v, old),
         w = "list" /\ new \notin {None, h} => Moving(ts) \/ (v = "list" /\ old = new),
         \A m \in DOMAIN more :
           more[m].kind = "drift" =>
             /\ more[m].host # None
             /\ w = "list" /\ new \notin {None, h} => Moving(ts)
  PROVE  RowsOutlived(ts, h, w, new)
<1> SUFFICES ASSUME NEW n \in DOMAIN ts, ts[n].kind = "drift"
             PROVE  /\ ts[n].host # None
                    /\ new \notin {None, h} /\ w = "list" =>
                         Moving(ts) \/ Asked(ts, "list", h, n)
  BY DEF RowsOutlived
<1>1. CASE \E m \in DOMAIN more : n = Then(i, m)
  BY <1>1 DEF Placed
<1>2. CASE \E j \in DOMAIN tasks \ {i} : n = Now(i, j)
  <2>1. PICK j \in DOMAIN tasks \ {i} : n = Now(i, j)
    BY <1>2
  <2>2. ts[n] = tasks[j]
    BY <2>1 DEF Placed
  <2>3. ts[n].host # None
    BY <2>1, <2>2 DEF RowsOutlived
  <2>4. ASSUME new \notin {None, h}, w = "list", ~Moving(ts) PROVE Asked(ts, "list", h, n)
    <3>1. ~Moving(tasks)
      BY <2>4, MovingKept
    <3>2. Asked(tasks, "list", h, j)
      BY <2>1, <2>2, <2>4, <3>1 DEF RowsOutlived
    <3> QED BY <2>1, <2>2, <2>3, <3>2, AfterKept
  <2> QED BY <2>3, <2>4
<1> QED BY <1>1, <1>2 DEF Placed

\* The data on the screen, when they stay.
LEMMA ScreenKept ==
  ASSUME TasksInv, NEW i, NEW more, NEW ts, Placed(i, more, ts), NEW h, NEW shown, NEW new,
         i \in DOMAIN tasks =>
           /\ ~Switch(tasks[i]) /\ tasks[i].kind # "page"
           /\ ~(tasks[i].kind = "stats" /\ tasks[i].host = h /\ shown.view = "dashboard")
           /\ ~(tasks[i].kind = "list" /\ tasks[i].host = h /\ shown.view = "list"),
         Outlived(tasks, h, shown), new.host = shown.host, new.view = shown.view
  PROVE  Outlived(ts, h, new)
<1> SUFFICES ASSUME new.host \notin {h, None, "none"}, ~Moving(ts)
             PROVE  \/ new.view = "dashboard" /\ Asked(ts, "stats", h, 0)
                    \/ new.view = "list" /\ Asked(ts, "list", h, 0)
  BY DEF Outlived
<1>1. ~Moving(tasks)
  BY MovingKept
<1>2. \/ shown.view = "dashboard" /\ Asked(tasks, "stats", h, 0)
      \/ shown.view = "list" /\ Asked(tasks, "list", h, 0)
  BY <1>1 DEF Outlived
<1>3. CASE shown.view = "dashboard" /\ Asked(tasks, "stats", h, 0)
  BY <1>3, AskedKept
<1>4. CASE shown.view = "list" /\ Asked(tasks, "list", h, 0)
  BY <1>4, AskedKept
<1> QED BY <1>2, <1>3, <1>4

\* A view without data, whose data, if any, were asked for last.
LEMMA Reloaded ==
  ASSUME TasksInv, HostInv, NEW i \in 0 .. Len(tasks),
         (~outrun /\ (i = 0 \/ ~Late(i))) \/ \A j \in DOMAIN tasks : j = i,
         hostId' = hostId, hostId' # None,
         NEW more \in Seq(Task), tasks' = Rest(i) \o more,
         content'.host \in {None, "none"},
         \A m \in DOMAIN more : /\ more[m].host \in {None, hostId}
                                /\ more[m].kind \notin {"usage", "drift"},
         content'.view = "dashboard" =>
           \E m \in DOMAIN more : more[m].kind = "stats" /\ more[m].host = hostId,
         content'.view = "list" =>
           \E m \in DOMAIN more : more[m].kind = "list" /\ more[m].host = hostId
  PROVE  HostInv'
<1>1. tasks \in Seq(Task)
  BY DEF TasksInv
<1>2. PICK ts : ts = tasks'
  OBVIOUS
<1>3. Placed(i, more, ts)
  BY <1>1, <1>2, NewTasks
<1>4. PICK h : h = hostId
  OBVIOUS
<1>5. Followed(ts, h)
  <2>1. i = 0 \/ ~Late(i) \/ \A j \in DOMAIN tasks : j = i
    OBVIOUS
  <2>2. Followed(tasks, h) \/ \A j \in DOMAIN tasks : j = i
    BY <1>4 DEF HostInv
  <2>3. \A m \in DOMAIN more : Of(more[m], h)
    BY <1>4 DEF Of
  <2>4. CASE i = 0 \/ ~Late(i)
    BY <1>3, <2>2, <2>3, <2>4, FollowedKept
  <2>5. CASE \A j \in DOMAIN tasks : j = i
    BY <1>3, <1>4, <2>5 DEF Placed, Followed
  <2> QED BY <2>1, <2>4, <2>5
<1>6. Outlived(ts, h, content')
  BY DEF Outlived
<1>7. UsageOutlived(ts, h, content'.view)
  <2> SUFFICES ASSUME NEW n \in DOMAIN ts, ts[n].kind = "usage", content'.view = "dashboard"
               PROVE  Asked(ts, "stats", h, n)
    BY DEF UsageOutlived
  <2>1. PICK m \in DOMAIN more : more[m].kind = "stats" /\ more[m].host = h
    BY <1>4
  <2>2. \A l \in DOMAIN more : n # Then(i, l)
    BY <1>3 DEF Placed
  <2>3. PICK j \in DOMAIN tasks \ {i} : n = Now(i, j)
    BY <1>3, <2>2 DEF Placed
  <2> QED BY <1>3, <2>1, <2>3, AskedNow
<1>8. RowsOutlived(ts, h, content'.view, rows')
  <2> SUFFICES ASSUME NEW n \in DOMAIN ts, ts[n].kind = "drift"
               PROVE  ts[n].host # None /\ (content'.view = "list" => Asked(ts, "list", h, n))
    BY DEF RowsOutlived
  <2>1. \A l \in DOMAIN more : n # Then(i, l)
    BY <1>3 DEF Placed
  <2>2. PICK j \in DOMAIN tasks \ {i} : n = Now(i, j)
    BY <1>3, <2>1 DEF Placed
  <2>3. ts[n] = tasks[j]
    BY <1>3, <2>2 DEF Placed
  <2>4. ts[n].host # None
    BY <2>2, <2>3 DEF HostInv, RowsOutlived
  <2>5. ASSUME content'.view = "list" PROVE Asked(ts, "list", h, n)
    <3>1. PICK m \in DOMAIN more : more[m].kind = "list" /\ more[m].host = h
      BY <1>4, <2>5
    <3> QED BY <1>3, <2>2, <3>1, AskedNow
  <2> QED BY <2>4, <2>5
<1> QED BY <1>2, <1>4, <1>5, <1>6, <1>7, <1>8 DEF HostInv

\* Another host is selected, and the page will be loaded once more.
LEMMA SwitchComes ==
  ASSUME TasksInv, NEW i \in 0 .. Len(tasks), NEW more \in Seq(Task), tasks' = Rest(i) \o more,
         \A j \in DOMAIN tasks \ {i} : tasks[j].kind = "drift" => tasks[j].host # None,
         1 \in DOMAIN more, DOMAIN more = {1}, Switch(more[1]), more[1].host = None
  PROVE  HostInv'
<1>1. tasks \in Seq(Task)
  BY DEF TasksInv
<1>2. PICK ts : ts = tasks'
  OBVIOUS
<1>3. Placed(i, more, ts)
  BY <1>1, <1>2, NewTasks
<1>4. PICK h : h = hostId'
  OBVIOUS
<1>5. /\ Then(i, 1) \in DOMAIN ts /\ ts[Then(i, 1)] = more[1]
      /\ \A j \in DOMAIN tasks \ {i} : Now(i, j) < Then(i, 1)
  BY <1>3 DEF Placed
<1>6. Moving(ts)
  BY <1>5 DEF Moving
<1>7. \A n \in DOMAIN ts : n = Then(i, 1) \/ \E j \in DOMAIN tasks \ {i} : n = Now(i, j)
  BY <1>3 DEF Placed
<1>8. Followed(ts, h)
  BY <1>5, <1>7 DEF Followed
<1>9. Outlived(ts, h, content') /\ UsageOutlived(ts, h, content'.view)
  BY <1>6 DEF Outlived, UsageOutlived
<1>10. RowsOutlived(ts, h, content'.view, rows')
  <2>1. \A n \in DOMAIN ts : ts[n].kind = "drift" => ts[n].host # None
    BY <1>3, <1>5, <1>7 DEF Placed, Switch
  <2> QED BY <1>6, <2>1 DEF RowsOutlived
<1> QED BY <1>2, <1>4, <1>8, <1>9, <1>10 DEF HostInv

\* An answer with another host's data, before one that loads the page once more.
LEMMA SwitchFollows ==
  ASSUME TasksInv, NEW i \in DOMAIN tasks, NEW more, NEW ts, Placed(i, more, ts),
         NEW h, Followed(tasks, h), tasks[i].host \notin {None, h}, tasks[i].kind # "usage"
  PROVE  Moving(ts)
<1>1. PICK k \in DOMAIN tasks : i < k /\ Switch(tasks[k])
  BY DEF Followed
<1>2. k # i
  BY <1>1 DEF TasksInv
<1>3. Now(i, k) \in DOMAIN ts /\ ts[Now(i, k)] = tasks[k]
  BY <1>1, <1>2 DEF Placed
<1> QED BY <1>1, <1>3 DEF Moving

\* The page stays; what its data are now is up to the action.
LEMMA Answered ==
  ASSUME TasksInv, HostInv, ~outrun, NEW i \in 0 .. Len(tasks), i = 0 \/ ~Late(i),
         hostId' = hostId, hostId # None,
         i \in DOMAIN tasks => ~Switch(tasks[i]) /\ tasks[i].kind # "page",
         NEW more \in Seq(Task), NEW ts, ts = tasks', tasks' = Rest(i) \o more,
         \A m \in DOMAIN more :
           /\ Of(more[m], hostId)
           /\ more[m].kind = "usage" => more[m].host \in {None, hostId} \/ Moving(ts)
           /\ more[m].kind = "drift" => more[m].host # None,
         \/ rows' \in {None, hostId} \/ Moving(ts)
         \/ rows' = rows /\ \A m \in DOMAIN more : more[m].kind # "drift",
         content'.view \in {content.view, "create", "logs"},
         Outlived(ts, hostId, content')
  PROVE  HostInv'
<1>1. tasks \in Seq(Task)
  BY DEF TasksInv
<1>2. Placed(i, more, ts)
  BY <1>1, NewTasks
<1>3. /\ Followed(tasks, hostId)
      /\ UsageOutlived(tasks, hostId, content.view)
      /\ RowsOutlived(tasks, hostId, content.view, rows)
  BY DEF HostInv
<1>4. PICK w, new : w = content'.view /\ new = rows'
  OBVIOUS
<1>5. Followed(ts, hostId)
  BY <1>2, <1>3, FollowedKept
<1>6. UsageOutlived(ts, hostId, w)
  <2>1. w = "dashboard" => content.view = "dashboard"
    BY <1>4
  <2> QED BY <1>2, <1>3, <2>1, UsageKept
<1>7. RowsOutlived(ts, hostId, w, new)
  <2>1. w = "list" /\ new \notin {None, hostId} =>
          Moving(ts) \/ (content.view = "list" /\ rows = new)
    BY <1>4
  <2>2. \A m \in DOMAIN more :
          more[m].kind = "drift" =>
            /\ more[m].host # None
            /\ w = "list" /\ new \notin {None, hostId} => Moving(ts)
    BY <1>4
  <2> QED BY <1>2, <1>3, <2>1, <2>2, RowsKept
<1> QED BY <1>4, <1>5, <1>6, <1>7 DEF HostInv

\* Nothing but the tasks changes that matters here.
LEMMA Unseen ==
  ASSUME TasksInv, HostInv, ~outrun, NEW i \in 0 .. Len(tasks), i = 0 \/ ~Late(i),
         hostId' = hostId, hostId # None,
         i \in DOMAIN tasks => /\ ~Switch(tasks[i]) /\ tasks[i].kind \notin {"page", "list"}
                               /\ tasks[i].kind = "stats" => content.view # "dashboard",
         NEW more \in Seq(Task), tasks' = Rest(i) \o more,
         \A m \in DOMAIN more : /\ more[m].host \in {None, hostId}
                                /\ more[m].kind \notin {"usage", "drift"},
         content'.host = content.host, content'.view = content.view, rows' = rows
  PROVE  HostInv'
<1>1. tasks \in Seq(Task)
  BY DEF TasksInv
<1>2. PICK ts : ts = tasks'
  OBVIOUS
<1>3. Placed(i, more, ts)
  BY <1>1, <1>2, NewTasks
<1>4. Outlived(tasks, hostId, content)
  BY DEF HostInv
<1>5. PICK new : new = content'
  OBVIOUS
<1>6. Outlived(ts, hostId, new)
  BY <1>3, <1>4, <1>5, ScreenKept
<1>7. \A m \in DOMAIN more :
        /\ Of(more[m], hostId)
        /\ more[m].kind = "usage" => more[m].host \in {None, hostId} \/ Moving(ts)
        /\ more[m].kind = "drift" => more[m].host # None
  BY DEF Of
<1> QED BY <1>2, <1>5, <1>6, <1>7, Answered

-----------------------------------------------------------------------------
(* HostInv, action by action.                                              *)

LEMMA LoadPageHost ==
  ASSUME BasicInv, HostInv, NEW p \in Pages, NEW i \in 0 .. Len(tasks),
         NEW after \in Seq(Task), \A n \in DOMAIN after : after[n] = Plain("hosts"),
         LoadPage(p, i, after), hostId' = hostId
  PROVE  HostInv'
<1> SUFFICES ASSUME ~outrun', hostId' # None PROVE HostInv'
  BY DEF HostInv
<1>1. TasksInv /\ RestInv
  BY DEF BasicInv
<1>2. PICK more : PageLoads(p, i, after, more)
  BY <1>1, LoadPageDoes
<1>3. /\ more \in Seq(Task) /\ tasks' = Rest(i) \o more
      /\ \A m \in DOMAIN more : Loads(p, more[m]) \/ \E n \in DOMAIN after : more[m] = after[n]
      /\ p \notin cached \/ hostId # None => \E m \in DOMAIN more : Loads(p, more[m])
      /\ content' = (IF p \in cached THEN Rendered(p) ELSE Fresh("loading"))
  BY <1>2 DEF PageLoads
<1>4. Plain("hosts").kind = "hosts" /\ Plain("hosts").host = None
  BY TaskShapes DEF Kinds
<1>5. (~outrun /\ ~Late(i)) \/ \A j \in DOMAIN tasks : j = i
  BY <1>1, LoadPageInOrder
<1>6. /\ content'.view = (IF p \in cached THEN IF p = "dashboard" THEN "dashboard" ELSE "list"
                                          ELSE "loading")
      /\ content'.host \in {None, "none"}
  BY <1>1, <1>3, LoadedContent
<1>7. \A m \in DOMAIN more : /\ more[m].host \in {None, hostId}
                             /\ more[m].kind \notin {"usage", "drift"}
  BY <1>3, <1>4 DEF Loads
<1>8. PICK m \in DOMAIN more : Loads(p, more[m])
  BY <1>3
<1>9. /\ content'.view = "dashboard" => more[m].kind = "stats" /\ more[m].host = hostId
      /\ content'.view = "list" => more[m].kind = "list" /\ more[m].host = hostId
  BY <1>6, <1>8 DEF Loads
<1> QED BY <1>1, <1>3, <1>5, <1>6, <1>7, <1>9, Reloaded

LEMMA ShellHost ==
  ASSUME BasicInv, HostInv, AtTheShell
  PROVE  HostInv'
<1>1. TasksInv /\ RestInv /\ HashInv /\ tasks \in Seq(Task)
  BY DEF BasicInv, TasksInv
<1>2. 0 \in 0 .. Len(tasks) /\ <<>> \in Seq(Task) /\ \A n \in DOMAIN <<>> : FALSE
  BY <1>1
<1>3. CASE StartApp
  <2>1. PICK p : p = currentPage'
    OBVIOUS
  <2>2. p \in Pages /\ LoadPage(p, 0, <<Plain("hosts")>>) /\ hostId' = hostId
    BY <1>1, <1>3, <2>1 DEF StartApp, RestInv, Pages
  <2>3. /\ <<Plain("hosts")>> \in Seq(Task)
        /\ \A n \in DOMAIN <<Plain("hosts")>> : <<Plain("hosts")>>[n] = Plain("hosts")
    BY TaskShapes DEF Kinds
  <2> QED BY <1>2, <2>1, <2>2, <2>3, LoadPageHost
<1>4. CASE Refresh
  <2>1. LoadPage(currentPage, 0, <<>>) /\ currentPage \in Pages /\ hostId' = hostId
    BY <1>1, <1>4 DEF Refresh, RestInv
  <2> QED BY <1>2, <2>1, LoadPageHost
<1>5. ASSUME NEW p \in Pages, Navigate(p) PROVE HostInv'
  <2>1. LoadPage(p, 0, <<>>) /\ hostId' = hostId
    BY <1>5 DEF Navigate
  <2> QED BY <1>2, <2>1, LoadPageHost
<1>6. CASE LogOut
  BY <1>6 DEF LogOut, HostInv
<1>7. ASSUME NEW g \in Hosts, SelectHost(g) PROVE HostInv'
  <2> SUFFICES ASSUME ~outrun' PROVE HostInv'
    BY DEF HostInv
  <2> DEFINE more == <<Plain("ping")>>
  <2>1. Plain("ping") \in Task /\ Plain("ping").kind = "ping" /\ Plain("ping").host = None
    BY TaskShapes DEF Kinds
  <2>2. tasks' = Rest(0) \o more /\ more \in Seq(Task) /\ DOMAIN more = {1}
        /\ more[1].kind = "ping" /\ more[1].host = None
    BY <1>1, <1>7, <2>1, AppendIsMore DEF SelectHost
  <2>3. ~outrun /\ hostId # None
    BY <1>7 DEF SelectHost
  <2>4. \A j \in DOMAIN tasks \ {0} : tasks[j].kind = "drift" => tasks[j].host # None
    BY <2>3 DEF HostInv, RowsOutlived
  <2> HIDE DEF more
  <2>5. 1 \in DOMAIN more /\ Switch(more[1])
    BY <2>2 DEF Switch
  <2> QED BY <1>1, <1>2, <2>2, <2>4, <2>5, SwitchComes
<1> QED BY <1>3, <1>4, <1>5, <1>6, <1>7 DEF AtTheShell

LEMMA HostsAnswerHost ==
  ASSUME BasicInv, HostInv, NEW i \in DOMAIN tasks, HostsAnswer(i)
  PROVE  HostInv'
<1> SUFFICES ASSUME ~outrun' PROVE HostInv'
  BY DEF HostInv
<1>1. ContentInv /\ TasksInv /\ RestInv /\ HashInv /\ tasks \in Seq(Task)
  BY DEF BasicInv, TasksInv
<1>2. i \in 0 .. Len(tasks) /\ tasks[i].kind = "hosts"
  BY <1>1, Resumed DEF HostsAnswer, Resumes
<1>3. PICK g \in Hosts :
        /\ hostId' = g
        /\ IF hash = None
           THEN hash' = "dashboard" /\ Goes(i, <<Plain("route")>>)
           ELSE /\ tasks' = Rest(i)
                /\ overtook' = (overtook \/ Late(i)) /\ outdated' = (outdated \/ g # hostId)
  BY DEF HostsAnswer
<1>4. CASE hash = None
  <2> DEFINE more == <<Plain("route")>>
  <2>1. Plain("route") \in Task /\ Plain("route").kind = "route" /\ Plain("route").host = None
    BY TaskShapes DEF Kinds
  <2>2. tasks' = Rest(i) \o more /\ more \in Seq(Task) /\ DOMAIN more = {1}
        /\ more[1].kind = "route" /\ more[1].host = None
    BY <1>3, <1>4, <2>1 DEF Goes
  <2>3. \A j \in DOMAIN tasks \ {i} : tasks[j].kind = "drift" => tasks[j].host # None
    BY <1>1, <1>4 DEF HashInv
  <2> HIDE DEF more
  <2>4. 1 \in DOMAIN more /\ Switch(more[1])
    BY <2>2 DEF Switch
  <2> QED BY <1>1, <1>2, <2>2, <2>3, <2>4, SwitchComes
<1>5. CASE hash # None
  <2>1. /\ tasks' = Rest(i) /\ ~outrun /\ ~Late(i) /\ hostId' = hostId /\ hostId # None
        /\ content' = content /\ rows' = rows
    BY <1>3, <1>5, ConsoleAssumption DEF HostsAnswer, containersPage
  <2>2. <<>> \in Seq(Task) /\ tasks' = Rest(i) \o <<>> /\ \A m \in DOMAIN <<>> : FALSE
    BY <1>1, <1>2, <2>1, NoneMore
  <2>3. ~Switch(tasks[i]) /\ tasks[i].kind \notin {"page", "stats", "list"}
    BY <1>2 DEF Switch
  <2> QED BY <1>1, <1>2, <2>1, <2>2, <2>3, Unseen
<1> QED BY <1>4, <1>5

LEMMA ErrorHost ==
  ASSUME BasicInv, HostInv, NEW i \in DOMAIN tasks, ImportFails(i) \/ HostsFail(i)
  PROVE  HostInv'
<1> SUFFICES ASSUME ~outrun', hostId' # None PROVE HostInv'
  BY DEF HostInv
<1>1. TasksInv /\ i \in 0 .. Len(tasks)
  BY Resumed DEF BasicInv
<1>2. /\ ~outrun /\ ~Late(i) /\ hostId' = hostId
      /\ tasks' = Rest(i) /\ content' = Fresh("error")
  <2>1. CASE ImportFails(i)
    BY <2>1 DEF ImportFails, Replace
  <2>2. CASE HostsFail(i)
    BY <2>2 DEF HostsFail, Replace
  <2> QED BY <2>1, <2>2
<1>3. <<>> \in Seq(Task) /\ tasks' = Rest(i) \o <<>> /\ \A m \in DOMAIN <<>> : FALSE
  BY <1>1, <1>2, NoneMore
<1>4. content'.view = "error" /\ content'.host = None
  BY <1>2, ContentShapes
<1> QED BY <1>1, <1>2, <1>3, <1>4, Reloaded

LEMMA ModuleHost ==
  ASSUME BasicInv, HostInv, NEW i \in DOMAIN tasks, ModuleArrives(i)
  PROVE  HostInv'
<1> SUFFICES ASSUME ~outrun', hostId' # None PROVE HostInv'
  BY DEF HostInv
<1>1. TasksInv /\ RestInv
  BY DEF BasicInv
<1>2. PICK p : p = tasks[i].page
  OBVIOUS
<1>3. i \in 0 .. Len(tasks) /\ p \in Pages
  BY <1>1, <1>2, Resumed DEF ModuleArrives, Resumes
<1>4. hostId' = hostId /\ ~outrun /\ ~Late(i) /\ ShowPage(p, Rest(i), <<>>)
  BY <1>2 DEF ModuleArrives
<1>5. PICK more : more = Requests(p)
  OBVIOUS
<1>6. more \in Seq(Task) /\ tasks' = Rest(i) \o more /\ content' = Rendered(p)
  BY <1>1, <1>3, <1>4, <1>5, ModuleShows
<1>7. /\ \A m \in DOMAIN more :
           /\ more[m].host = hostId
           /\ more[m].kind = (IF p = "dashboard" THEN "stats" ELSE "list")
      /\ 1 \in DOMAIN more
  BY <1>1, <1>3, <1>4, <1>5, RequestsShape DEF RestInv
<1>8. /\ content'.view = (IF p = "dashboard" THEN "dashboard" ELSE "list")
      /\ content'.host \in {None, "none"}
  BY <1>3, <1>6, RenderedShape
<1>9. \A m \in DOMAIN more : /\ more[m].host \in {None, hostId}
                             /\ more[m].kind \notin {"usage", "drift"}
  BY <1>7
<1>10. /\ content'.view = "dashboard" =>
            \E m \in DOMAIN more : more[m].kind = "stats" /\ more[m].host = hostId
       /\ content'.view = "list" =>
            \E m \in DOMAIN more : more[m].kind = "list" /\ more[m].host = hostId
  BY <1>7, <1>8
<1> QED BY <1>1, <1>3, <1>4, <1>6, <1>8, <1>9, <1>10, Reloaded

\* The dashboard's answers.
LEMMA StatsHost ==
  ASSUME BasicInv, HostInv, NEW i \in DOMAIN tasks, StatsAnswer(i)
  PROVE  HostInv'
<1> SUFFICES ASSUME ~outrun', hostId' # None PROVE HostInv'
  BY DEF HostInv
<1>1. ContentInv /\ TasksInv /\ RestInv /\ tasks \in Seq(Task)
  BY DEF BasicInv, TasksInv
<1>2. PICK h : h = tasks[i].host
  OBVIOUS
<1>3. /\ i \in 0 .. Len(tasks) /\ i # 0 /\ h \in Hosts \cup {None} /\ "usage" \in Kinds
      /\ tasks[i].kind = "stats" /\ ~Switch(tasks[i])
  BY <1>1, <1>2, Resumed DEF Kinds, StatsAnswer, Resumes, Switch
<1>4. hostId' = hostId /\ rows' = rows /\ hostId # None
  BY DEF StatsAnswer, containersPage
<1>5. ~outrun /\ ~Late(i)
  BY Zenon DEF StatsAnswer, Goes
<1>6. CASE ~(content.view = "dashboard" /\ h # None)
  <2>1. content' = content /\ tasks' = Rest(i) \o <<>>
    BY <1>2, <1>6 DEF StatsAnswer, Goes
  <2>2. <<>> \in Seq(Task) /\ \A m \in DOMAIN <<>> : FALSE
    BY <1>1, <1>3, NoneMore
  <2>3. PICK ts : ts = tasks'
    OBVIOUS
  <2>4. Placed(i, <<>>, ts)
    BY <1>1, <1>3, <2>1, <2>2, <2>3, NewTasks
  <2>5. Outlived(tasks, hostId, content)
    BY <1>4, <1>5 DEF HostInv
  <2>6. Outlived(ts, hostId, content)
    BY <1>1, <1>2, <1>3, <1>4, <1>6, <2>4, <2>5, ScreenKept
  <2> QED BY <1>1, <1>3, <1>4, <1>5, <2>1, <2>2, <2>3, <2>6, Answered
<1>7. CASE content.view = "dashboard" /\ h # None
  <2>1. PICK more : /\ more = <<>> \/ more = <<OfHost("usage", h)>>
                    /\ tasks' = Rest(i) \o more
    BY <1>2, <1>7, Zenon DEF StatsAnswer, Goes
  <2>2. PICK g \in {h, "none"} : Showing(g)
    BY <1>2, <1>7, Zenon DEF StatsAnswer
  <2>3. /\ more \in Seq(Task)
        /\ \A m \in DOMAIN more : more[m].kind = "usage" /\ more[m].host = h
    <3>1. CASE more = <<>>
      BY <1>1, <1>3, <3>1, NoneMore
    <3>2. CASE more = <<OfHost("usage", h)>>
      <4>1. OfHost("usage", h) \in Task /\ OfHost("usage", h).kind = "usage"
            /\ OfHost("usage", h).host = h
        BY <1>3, TaskShapes
      <4> QED BY <3>2, <4>1
    <3> QED BY <2>1, <3>1, <3>2
  <2>4. PICK ts : ts = tasks'
    OBVIOUS
  <2>5. Placed(i, more, ts)
    BY <1>1, <1>3, <2>1, <2>3, <2>4, NewTasks
  <2>6. h # hostId => Moving(ts)
    <3>1. Followed(tasks, hostId)
      BY <1>4, <1>5 DEF HostInv
    <3> QED BY <1>1, <1>2, <1>3, <1>7, <2>5, <3>1, SwitchFollows
  <2>7. content'.host = g /\ content'.view = content.view
    <3>1. g \in Hosts \cup {None, "none"}
      BY <1>3
    <3> QED BY <1>1, <1>7, <2>2, <3>1, ShownContent
  <2>8. Outlived(ts, hostId, content')
    BY <2>6, <2>7 DEF Outlived
  <2>9. \A m \in DOMAIN more :
          /\ Of(more[m], hostId)
          /\ more[m].kind = "usage" => more[m].host \in {None, hostId} \/ Moving(ts)
          /\ more[m].kind = "drift" => more[m].host # None
    BY <2>3, <2>6 DEF Of
  <2>10. \A m \in DOMAIN more : more[m].kind # "drift"
    BY <2>3
  <2> QED BY <1>1, <1>3, <1>4, <1>5, <2>1, <2>3, <2>4, <2>7, <2>8, <2>9, <2>10, Answered
<1> QED BY <1>6, <1>7

LEMMA UsageHost ==
  ASSUME BasicInv, HostInv, NEW i \in DOMAIN tasks, UsageAnswer(i)
  PROVE  HostInv'
<1> SUFFICES ASSUME ~outrun', hostId' # None PROVE HostInv'
  BY DEF HostInv
<1>1. ContentInv /\ TasksInv /\ RestInv /\ tasks \in Seq(Task)
  BY DEF BasicInv, TasksInv
<1>2. PICK h : h = tasks[i].host
  OBVIOUS
<1>3. /\ i \in 0 .. Len(tasks) /\ i # 0 /\ h \in Hosts \cup {None}
      /\ tasks[i].kind = "usage" /\ ~Switch(tasks[i])
  BY <1>1, <1>2, Resumed DEF UsageAnswer, Resumes, Switch
<1>4. /\ hostId' = hostId /\ rows' = rows /\ hostId # None
      /\ ~outrun /\ ~Late(i) /\ tasks' = Rest(i) \o <<>>
  BY DEF UsageAnswer, Goes, containersPage
<1>5. <<>> \in Seq(Task) /\ \A m \in DOMAIN <<>> : FALSE
  BY <1>1, <1>3, NoneMore
<1>6. CASE content' = content
  BY <1>1, <1>3, <1>4, <1>5, <1>6, Unseen
<1>7. CASE content' # content
  <2>1. content.view = "dashboard" /\ Showing(h)
    BY <1>2, <1>7 DEF UsageAnswer
  <2>2. content'.host = h /\ content'.view = "dashboard"
    <3>1. h \in Hosts \cup {None, "none"}
      BY <1>3
    <3> QED BY <1>1, <2>1, <3>1, ShownContent
  <2>3. PICK ts : ts = tasks'
    OBVIOUS
  <2>4. Placed(i, <<>>, ts)
    BY <1>1, <1>3, <1>4, <1>5, <2>3, NewTasks
  <2>5. h \notin {None, hostId} => Moving(ts) \/ Asked(ts, "stats", hostId, 0)
    <3> SUFFICES ASSUME h \notin {None, hostId}
                 PROVE  Moving(ts) \/ Asked(ts, "stats", hostId, 0)
      OBVIOUS
    <3>1. Moving(tasks) \/ Asked(tasks, "stats", hostId, i)
      BY <1>2, <1>3, <1>4, <2>1 DEF HostInv, UsageOutlived
    <3>2. CASE Moving(tasks)
      BY <1>1, <1>3, <2>4, <3>2, MovingKept
    <3>3. CASE Asked(tasks, "stats", hostId, i)
      <4>1. Asked(tasks, "stats", hostId, 0)
        BY <1>1, <3>3 DEF Asked
      <4> QED BY <1>1, <1>3, <2>4, <4>1, AskedKept
    <3> QED BY <3>1, <3>2, <3>3
  <2>6. Outlived(ts, hostId, content')
    BY <2>2, <2>5 DEF Outlived
  <2> QED BY <1>1, <1>3, <1>4, <1>5, <2>1, <2>2, <2>3, <2>6, Answered
<1> QED BY <1>6, <1>7

\* The containers page's answers.
LEMMA ListHost ==
  ASSUME BasicInv, HostInv, NEW i \in DOMAIN tasks, ListAnswer(i)
  PROVE  HostInv'
<1> SUFFICES ASSUME ~outrun', hostId' # None PROVE HostInv'
  BY DEF HostInv
<1>1. ContentInv /\ TasksInv /\ RestInv /\ tasks \in Seq(Task)
  BY DEF BasicInv, TasksInv
<1>2. PICK h : h = tasks[i].host
  OBVIOUS
<1>3. /\ i \in 0 .. Len(tasks) /\ i # 0 /\ h \in Hosts \cup {None}
      /\ "drift" \in Kinds /\ hostId \in Hosts \cup {None}
      /\ tasks[i].kind = "list" /\ ~Switch(tasks[i])
  BY <1>1, <1>2, Resumed DEF Kinds, RestInv, ListAnswer, Resumes, Switch
<1>4. hostId' = hostId /\ rows' = h /\ hostId # None
  BY <1>2 DEF ListAnswer, ContainersOnly
<1>5. ~outrun /\ ~Late(i)
  BY Zenon DEF ListAnswer, Goes
<1>6. PICK more : /\ tasks' = Rest(i) \o more
                  /\ \/ more = <<>> /\ content.view # "list" /\ content' = content
                     \/ more = <<OfHost("drift", hostId)>> /\ content.view = "list" /\ Showing(h)
  <2>1. CASE content.view = "list"
    BY <1>2, <2>1, Zenon DEF ListAnswer, Goes
  <2>2. CASE content.view # "list"
    BY <2>2, Zenon DEF ListAnswer, Goes
  <2> QED BY <2>1, <2>2
<1>7. /\ more \in Seq(Task)
      /\ \A m \in DOMAIN more : more[m].kind = "drift" /\ more[m].host = hostId
  <2>1. CASE more = <<>>
    BY <1>1, <1>3, <2>1, NoneMore
  <2>2. CASE more = <<OfHost("drift", hostId)>>
    <3>1. OfHost("drift", hostId) \in Task /\ OfHost("drift", hostId).kind = "drift"
          /\ OfHost("drift", hostId).host = hostId
      BY <1>3, TaskShapes
    <3> QED BY <2>2, <3>1
  <2> QED BY <1>6, <2>1, <2>2
<1>8. PICK ts : ts = tasks'
  OBVIOUS
<1>9. Placed(i, more, ts)
  BY <1>1, <1>3, <1>6, <1>7, <1>8, NewTasks
<1>10. /\ Followed(tasks, hostId) /\ Outlived(tasks, hostId, content)
  BY <1>4, <1>5 DEF HostInv
<1>11. h \notin {None, hostId} => Moving(ts)
  BY <1>1, <1>2, <1>3, <1>9, <1>10, SwitchFollows
<1>12. content'.view = content.view /\ Outlived(ts, hostId, content')
  <2>1. CASE content.view # "list" /\ content' = content
    <3>1. Outlived(ts, hostId, content)
      BY <1>1, <1>3, <1>9, <1>10, <2>1, ScreenKept
    <3> QED BY <2>1, <3>1
  <2>2. CASE content.view = "list" /\ Showing(h)
    <3>1. h \in Hosts \cup {None, "none"}
      BY <1>3
    <3>2. content'.host = h /\ content'.view = content.view
      BY <1>1, <2>2, <3>1, ShownContent
    <3> QED BY <1>11, <3>2 DEF Outlived
  <2> QED BY <1>6, <2>1, <2>2
<1>13. \A m \in DOMAIN more :
         /\ Of(more[m], hostId)
         /\ more[m].kind = "usage" => more[m].host \in {None, hostId} \/ Moving(ts)
         /\ more[m].kind = "drift" => more[m].host # None
  BY <1>4, <1>7 DEF Of
<1>14. rows' \in {None, hostId} \/ Moving(ts)
  BY <1>4, <1>11
<1> QED BY <1>1, <1>3, <1>4, <1>5, <1>6, <1>7, <1>8, <1>12, <1>13, <1>14, Answered

LEMMA DriftHost ==
  ASSUME BasicInv, HostInv, NEW i \in DOMAIN tasks, DriftAnswer(i)
  PROVE  HostInv'
<1> SUFFICES ASSUME ~outrun', hostId' # None PROVE HostInv'
  BY DEF HostInv
<1>1. ContentInv /\ TasksInv /\ RestInv /\ tasks \in Seq(Task)
  BY DEF BasicInv, TasksInv
<1>2. /\ i \in 0 .. Len(tasks) /\ i # 0
      /\ tasks[i].kind = "drift" /\ ~Switch(tasks[i])
  BY <1>1, Resumed DEF DriftAnswer, Resumes, Switch
<1>3. /\ hostId' = hostId /\ rows' = rows /\ hostId # None
      /\ ~outrun /\ ~Late(i) /\ tasks' = Rest(i) \o <<>>
  BY DEF DriftAnswer, Goes, ContainersOnly, containersPage
<1>4. <<>> \in Seq(Task) /\ \A m \in DOMAIN <<>> : FALSE
  BY <1>1, <1>2, NoneMore
<1>5. CASE content' = content
  BY <1>1, <1>2, <1>3, <1>4, <1>5, Unseen
<1>6. CASE content' # content
  <2>1. content.view = "list" /\ Showing(rows)
    BY <1>6 DEF DriftAnswer
  <2>2. content'.host = rows /\ content'.view = "list"
    <3>1. PICK g \in Hosts \cup {None, "none"} : g = rows
      BY <1>1 DEF RestInv
    <3> QED BY <1>1, <2>1, <3>1, ShownContent
  <2>3. PICK ts : ts = tasks'
    OBVIOUS
  <2>4. Placed(i, <<>>, ts)
    BY <1>1, <1>2, <1>3, <1>4, <2>3, NewTasks
  <2>5. rows \notin {None, hostId} => Moving(ts) \/ Asked(ts, "list", hostId, 0)
    <3> SUFFICES ASSUME rows \notin {None, hostId}
                 PROVE  Moving(ts) \/ Asked(ts, "list", hostId, 0)
      OBVIOUS
    <3>1. Moving(tasks) \/ Asked(tasks, "list", hostId, i)
      BY <1>2, <1>3, <2>1 DEF HostInv, RowsOutlived
    <3>2. CASE Moving(tasks)
      BY <1>1, <1>2, <2>4, <3>2, MovingKept
    <3>3. CASE Asked(tasks, "list", hostId, i)
      <4>1. Asked(tasks, "list", hostId, 0)
        BY <1>1, <3>3 DEF Asked
      <4> QED BY <1>1, <1>2, <2>4, <4>1, AskedKept
    <3> QED BY <3>1, <3>2, <3>3
  <2>6. Outlived(ts, hostId, content')
    BY <2>2, <2>5 DEF Outlived
  <2> QED BY <1>1, <1>2, <1>3, <1>4, <2>1, <2>2, <2>3, <2>6, Answered
<1> QED BY <1>5, <1>6

LEMMA ActionHost ==
  ASSUME BasicInv, HostInv, NEW i \in DOMAIN tasks, ActionAnswer(i)
  PROVE  HostInv'
<1> SUFFICES ASSUME ~outrun', hostId' # None PROVE HostInv'
  BY DEF HostInv
<1>1. TasksInv /\ RestInv
  BY DEF BasicInv
<1>2. /\ i \in 0 .. Len(tasks) /\ i # 0
      /\ tasks[i].kind = "action" /\ ~Switch(tasks[i])
  BY <1>1, Resumed DEF ActionAnswer, Resumes, Switch
<1>3. /\ hostId' = hostId /\ rows' = rows /\ hostId # None /\ content' = content
      /\ ~outrun /\ ~Late(i) /\ tasks' = Rest(i) \o Requests("containers")
      /\ UNCHANGED <<started, hash, currentPage, hostId>>
  BY DEF ActionAnswer, Goes, ContainersOnly, containersPage
<1>4. PICK more : more = Requests("containers")
  OBVIOUS
<1>5. Lists(i)
  BY <1>1, <1>2, <1>3, StepsList
<1>6. /\ more \in Seq(Task) /\ tasks' = Rest(i) \o more
      /\ \A m \in DOMAIN more : /\ more[m].host \in {None, hostId}
                                /\ more[m].kind \notin {"usage", "drift"}
  BY <1>4, <1>5 DEF Lists, Steps
<1> QED BY <1>1, <1>2, <1>3, <1>6, Unseen

LEMMA FailsHost ==
  ASSUME BasicInv, HostInv, NEW i \in DOMAIN tasks, Fails(i)
  PROVE  HostInv'
<1> SUFFICES ASSUME ~outrun', hostId' # None PROVE HostInv'
  BY DEF HostInv
<1>1. ContentInv /\ TasksInv /\ RestInv /\ tasks \in Seq(Task)
  BY DEF BasicInv, TasksInv
<1>2. /\ i \in 0 .. Len(tasks) /\ i # 0
      /\ tasks[i].kind \in {"list", "action", "submit"} /\ ~Switch(tasks[i])
  BY <1>1, Resumed DEF Fails, Switch
<1>3. /\ hostId' = hostId /\ rows' = rows /\ hostId # None /\ content' = content
      /\ ~outrun /\ ~Late(i)
      /\ tasks[i].kind = "list" => content.host \notin Hosts \ {tasks[i].host}
  BY DEF Fails, ContainersOnly, containersPage
<1>4. tasks' = Rest(i)
  BY DEF Fails
<1>5. <<>> \in Seq(Task) /\ tasks' = Rest(i) \o <<>> /\ \A m \in DOMAIN <<>> : FALSE
  BY <1>1, <1>2, <1>4, NoneMore
<1>6. CASE tasks[i].kind # "list"
  BY <1>1, <1>2, <1>3, <1>5, <1>6, Unseen
<1>7. CASE tasks[i].kind = "list"
  <2>1. PICK ts : ts = tasks'
    OBVIOUS
  <2>2. Placed(i, <<>>, ts)
    BY <1>1, <1>2, <1>5, <2>1, NewTasks
  <2>3. content.host \in Hosts \cup {None, "none"}
    BY <1>1 DEF ContentInv, Content
  <2>4. Outlived(ts, hostId, content)
    <3> SUFFICES ASSUME content.host \notin {hostId, None, "none"} PROVE Moving(ts)
      BY DEF Outlived
    <3>1. tasks[i].host = content.host
      BY <1>3, <1>7, <2>3
    <3>2. Followed(tasks, hostId)
      BY <1>3 DEF HostInv
    <3> QED BY <1>1, <1>7, <2>2, <3>1, <3>2, SwitchFollows
  <2> QED BY <1>1, <1>2, <1>3, <1>5, <1>7, <2>1, <2>4, Answered
<1> QED BY <1>6, <1>7

LEMMA CreateHost ==
  ASSUME BasicInv, HostInv, NEW i \in DOMAIN tasks, CreateAnswer(i)
  PROVE  HostInv'
<1> SUFFICES ASSUME ~outrun', hostId' # None PROVE HostInv'
  BY DEF HostInv
<1>1. ContentInv /\ TasksInv /\ RestInv /\ tasks \in Seq(Task)
  BY DEF BasicInv, TasksInv
<1>2. /\ i \in 0 .. Len(tasks) /\ i # 0
      /\ tasks[i].kind = "create" /\ ~Switch(tasks[i])
  BY <1>1, Resumed DEF CreateAnswer, Resumes, Switch
<1>3. /\ hostId' = hostId /\ rows' = rows /\ hostId # None /\ ~outrun /\ ~Late(i)
  BY DEF CreateAnswer, ContainersOnly, containersPage
<1>4. /\ OnContainers => /\ tasks' = Rest(i)
                         /\ content'.view = "create" /\ content'.host = tasks[i].host
      /\ ~OnContainers => tasks' = Rest(i) /\ content' = content
  BY <1>1, CreateDoes
<1>5. <<>> \in Seq(Task) /\ tasks' = Rest(i) \o <<>> /\ \A m \in DOMAIN <<>> : FALSE
  BY <1>1, <1>2, <1>4, NoneMore
<1>6. CASE ~OnContainers
  BY <1>1, <1>2, <1>3, <1>4, <1>5, <1>6, Unseen
<1>7. CASE OnContainers
  <2>1. PICK ts : ts = tasks'
    OBVIOUS
  <2>2. Placed(i, <<>>, ts)
    BY <1>1, <1>2, <1>5, <2>1, NewTasks
  <2>3. content'.view = "create" /\ content'.host = tasks[i].host
    BY <1>4, <1>7
  <2>4. Outlived(ts, hostId, content')
    <3> SUFFICES ASSUME content'.host \notin {hostId, None, "none"} PROVE Moving(ts)
      BY DEF Outlived
    <3>1. Followed(tasks, hostId)
      BY <1>3 DEF HostInv
    <3>2. tasks[i].host \notin {None, hostId} /\ tasks[i].kind # "usage"
      BY <1>2, <2>3
    <3> QED BY <1>1, <2>2, <3>1, <3>2, SwitchFollows
  <2> QED BY <1>1, <1>2, <1>3, <1>5, <2>1, <2>3, <2>4, Answered
<1> QED BY <1>6, <1>7

\* The list comes back, from an answer or from the user.
LEMMA ListViewHost ==
  ASSUME BasicInv, HostInv, ~outrun, NEW i \in 0 .. Len(tasks), i = 0 \/ ~Late(i), OnContainers,
         ShowListView(Rest(i)), UNCHANGED <<started, hash, currentPage, hostId>>, hostId # None
  PROVE  HostInv'
<1>1. ContentInv /\ TasksInv /\ RestInv
  BY DEF BasicInv
<1>2. Lists(i) /\ content' = Rendered("containers")
  BY <1>1, ListViewDoes
<1>3. PICK more : more = Requests("containers")
  OBVIOUS
<1>4. /\ more \in Seq(Task) /\ tasks' = Rest(i) \o more
      /\ \A m \in DOMAIN more : more[m].host = hostId /\ more[m].kind = "list"
      /\ 1 \in DOMAIN more
  BY <1>2, <1>3 DEF Lists, Steps
<1>5. content'.view = "list" /\ content'.host \in {None, "none"}
  BY <1>2, RenderedShape DEF Pages
<1>6. \A m \in DOMAIN more : /\ more[m].host \in {None, hostId}
                             /\ more[m].kind \notin {"usage", "drift"}
  BY <1>4
<1>7. /\ content'.view # "dashboard"
      /\ \E m \in DOMAIN more : more[m].kind = "list" /\ more[m].host = hostId
  BY <1>4, <1>5
<1> QED BY <1>1, <1>4, <1>5, <1>6, <1>7, Reloaded

LEMMA SubmitHost ==
  ASSUME BasicInv, HostInv, NEW i \in DOMAIN tasks, SubmitAnswer(i)
  PROVE  HostInv'
<1> SUFFICES ASSUME ~outrun', hostId' # None PROVE HostInv'
  BY DEF HostInv
<1>1. TasksInv
  BY DEF BasicInv
<1>2. /\ i \in 0 .. Len(tasks) /\ i # 0
      /\ tasks[i].kind = "submit" /\ ~Switch(tasks[i])
  BY <1>1, Resumed DEF SubmitAnswer, Resumes, Switch
<1>3. /\ rows' = rows /\ hostId # None /\ ~outrun /\ ~Late(i)
      /\ UNCHANGED <<started, hash, currentPage, hostId>> /\ ShowListView(Rest(i))
  BY DEF SubmitAnswer, ContainersOnly
<1>4. CASE OnContainers
  BY <1>2, <1>3, <1>4, ListViewHost
<1>5. CASE ~OnContainers
  <2>1. tasks' = Rest(i) /\ content' = content
    BY <1>3, <1>5 DEF ShowListView
  <2>2. <<>> \in Seq(Task) /\ tasks' = Rest(i) \o <<>> /\ \A m \in DOMAIN <<>> : FALSE
    BY <1>1, <1>2, <2>1, NoneMore
  <2> QED BY <1>1, <1>2, <1>3, <2>1, <2>2, Unseen
<1> QED BY <1>4, <1>5

\* What the user does at the page, and the logs view's interval and answers.
LEMMA AtThePageHost ==
  ASSUME BasicInv, LogsInv, HostInv, AtThePage
  PROVE  HostInv'
<1> SUFFICES ASSUME ~outrun', hostId' # None PROVE HostInv'
  BY DEF HostInv
<1>1. ContentInv /\ TasksInv /\ RestInv /\ tasks \in Seq(Task)
  BY DEF BasicInv, TasksInv
<1>2. UNCHANGED <<started, hash, currentPage, hostId, outrun>> /\ ~outrun /\ hostId # None
  BY DEF AtThePage, Act, ShowCreateView, Submit, BackToList, ToggleTail, ShowLogsView, LogTick,
         LogsAnswer, ContainersOnly
<1>3. /\ 0 \in 0 .. Len(tasks) /\ Rest(0) = tasks /\ hostId \in Hosts \cup {None}
      /\ None \in Hosts \cup {None} /\ {"action", "submit", "create"} \subseteq Kinds
      /\ 0 \notin DOMAIN tasks
  BY <1>1 DEF Rest, RestInv, Kinds
<1>4. CASE Act \/ ShowCreateView \/ Submit
  <2>1. /\ content' = content /\ rows' = rows
        /\ \/ tasks' = Append(tasks, Plain("action"))
           \/ tasks' = Append(tasks, OfHost("create", hostId))
           \/ tasks' = Append(tasks, Plain("submit"))
    BY <1>4 DEF Act, ShowCreateView, Submit, containersPage
  <2>2. PICK task \in Task : /\ tasks' = Append(tasks, task) /\ task.host \in {None, hostId}
                             /\ task.kind \notin {"usage", "drift"}
    BY <1>3, <2>1, TaskShapes
  <2>3. PICK more : more = <<task>>
    OBVIOUS
  <2>4. tasks' = Rest(0) \o more /\ more \in Seq(Task) /\ DOMAIN more = {1} /\ more[1] = task
    BY <1>1, <2>2, <2>3, AppendIsMore
  <2>5. \A m \in DOMAIN more : /\ more[m].host \in {None, hostId}
                               /\ more[m].kind \notin {"usage", "drift"}
    BY <2>2, <2>4
  <2> QED BY <1>1, <1>2, <1>3, <2>1, <2>4, <2>5, Unseen
<1>5. CASE BackToList
  <2>1. ShowListView(Rest(0)) /\ OnContainers
    BY <1>3, <1>5 DEF BackToList, OnContainers
  <2> QED BY <1>2, <1>3, <2>1, ListViewHost
<1>6. CASE ToggleTail \/ \E k \in Containers : LogTick(k) \/ LogsAnswer(k)
  <2>1. tasks' = Rest(0) /\ rows' = rows
    BY <1>3, <1>6 DEF ToggleTail, LogTick, LogsAnswer, containersPage
  <2>2. <<>> \in Seq(Task) /\ tasks' = Rest(0) \o <<>> /\ \A m \in DOMAIN <<>> : FALSE
    BY <1>1, <1>3, <2>1, NoneMore
  <2>3. content'.view = content.view /\ content'.host = content.host
    <3>1. CASE ToggleTail
      <4>1. PICK tail \in BOOLEAN : tail = ~content.tail
        OBVIOUS
      <4>2. content.view = "logs" /\ content' = [content EXCEPT !.tail = tail]
            /\ content.logs \in Containers \cup {None}
        BY <1>1, <3>1, <4>1 DEF ToggleTail, ContentInv, Content
      <4> QED BY <1>1, <4>1, <4>2, LogsContent
    <3>2. ASSUME NEW k \in Containers, LogTick(k)
          PROVE  content'.view = content.view /\ content'.host = content.host
      BY <3>2 DEF LogTick
    <3>3. ASSUME NEW k \in Containers, LogsAnswer(k)
          PROVE  content'.view = content.view /\ content'.host = content.host
      <4>1. PICK lines \in {k, None} : content' = [content EXCEPT !.logs = lines]
        BY <3>3 DEF LogsAnswer
      <4>2. content.view = "logs" /\ content.tail \in BOOLEAN
        BY <1>1, <3>3 DEF LogsAnswer, LogsInv, ContentInv, Content
      <4> QED BY <1>1, <4>1, <4>2, LogsContent
    <3> QED BY <1>6, <3>1, <3>2, <3>3
  <2> QED BY <1>1, <1>2, <1>3, <2>1, <2>2, <2>3, Unseen
<1>7. ASSUME NEW k \in Containers, ShowLogsView(k) PROVE HostInv'
  <2>1. tasks' = Rest(0) /\ rows' = rows /\ content' = [Fresh("logs") EXCEPT !.of = k]
    BY <1>3, <1>7 DEF ShowLogsView
  <2>2. <<>> \in Seq(Task) /\ tasks' = Rest(0) \o <<>> /\ \A m \in DOMAIN <<>> : FALSE
    BY <1>1, <1>3, <2>1, NoneMore
  <2>3. content'.view = "logs" /\ content'.host = None
    BY <2>1, LogsViewContent
  <2>4. PICK ts : ts = tasks'
    OBVIOUS
  <2>5. Outlived(ts, hostId, content')
    BY <2>3 DEF Outlived
  <2> QED BY <1>1, <1>2, <1>3, <2>1, <2>2, <2>3, <2>4, <2>5, Answered
<1> QED BY <1>4, <1>5, <1>6, <1>7 DEF AtThePage

LEMMA HostStep ==
  ASSUME BasicInv, LogsInv, HostInv, [Next]_vars
  PROVE  HostInv'
<1>1. ContentInv /\ TasksInv /\ RestInv /\ HashInv
  BY DEF BasicInv
<1>2. ASSUME NEW i \in DOMAIN tasks, Answer(i) PROVE HostInv'
  <2>1. i \in 0 .. Len(tasks)
    BY <1>1, Resumed
  <2>2. <<>> \in Seq(Task) /\ \A n \in DOMAIN <<>> : FALSE
    BY <1>1, <2>1, NoneMore
  <2>3. CASE HashChange(i)
    <3>1. hash \in Pages /\ LoadPage(hash, i, <<>>) /\ hostId' = hostId
      BY <1>1, <2>3 DEF HashInv, RestInv, HashChange, Resumes
    <3> QED BY <2>1, <2>2, <3>1, LoadPageHost
  <2>4. CASE PingAnswer(i)
    <3>1. currentPage \in Pages /\ LoadPage(currentPage, i, <<>>) /\ hostId' = hostId
      BY <1>1, <2>4 DEF RestInv, PingAnswer
    <3> QED BY <2>1, <2>2, <3>1, LoadPageHost
  <2> QED BY <1>2, <2>3, <2>4, ErrorHost, ModuleHost, HostsAnswerHost, StatsHost, UsageHost,
             ListHost, DriftHost, ActionHost, FailsHost, CreateHost, SubmitHost DEF Answer
<1>3. CASE UNCHANGED vars
  BY <1>3 DEF vars, shell, containersPage, HostInv
<1> QED BY <1>2, <1>3, ShellHost, AtThePageHost DEF Next

-----------------------------------------------------------------------------
LEMMA ConsoleInit == Init => ConsoleInv
<1> SUFFICES ASSUME Init PROVE ConsoleInv
  OBVIOUS
<1>1. /\ content = Fresh("blank") /\ tasks = <<>> /\ DOMAIN tasks = {}
  BY DEF Init
<1>2. /\ content \in Content /\ content.view = "blank" /\ content.host = None
      /\ content.of = None /\ content.logs = None /\ ~content.tail
  BY <1>1, ContentShapes
<1>3. ContentInv
  BY <1>2 DEF ContentInv
<1>4. TasksInv
  BY <1>1 DEF TasksInv
<1>5. RestInv
  BY DEF Init, RestInv, Pages
<1>6. HashInv
  BY <1>1, <1>2 DEF HashInv, OnContainers, Init
<1>7. OneDashboardTimer
  BY DEF Init, OneDashboardTimer
<1>8. LogsInv
  BY <1>2 DEF Init, LogsInv, LogsOfTheView
<1>9. PageInv
  BY DEF Init, PageInv
<1>10. HostInv
  BY <1>1, <1>2 DEF HostInv, Followed, Outlived, UsageOutlived, RowsOutlived
<1> QED BY <1>3, <1>4, <1>5, <1>6, <1>7, <1>8, <1>9, <1>10 DEF ConsoleInv, BasicInv

LEMMA ConsoleStep == ConsoleInv /\ [Next]_vars => ConsoleInv'
BY BasicStep, TimerStep, LogsStep, PageStep, HostStep DEF ConsoleInv

\* Whatever the user does and in whatever order the answers come, the console's
\* state is what its invariant says (router.js, app.js, dashboard.js,
\* containers.js).
THEOREM ConsoleInvariance == Spec => []ConsoleInv
BY ConsoleInit, ConsoleStep, PTL DEF Spec

\* The state has its type, and a view that shows nobody's logs has none.
THEOREM ConsoleTypeCorrect == Spec => []ConsoleTypeOK
<1>1. ConsoleInv => ConsoleTypeOK
  BY DEF ConsoleInv, BasicInv, ContentInv, TasksInv, RestInv, ConsoleTypeOK
<1> QED BY <1>1, ConsoleInvariance, PTL

\* However many hosts and requests there are, the console ends up with what is
\* selected, unless an answer came before one asked for earlier, a list failed in
\* front of another host's table, or the hosts came when the page had been loaded
\* for another one (handleRoute, loadPage, the selector's handler, the pages'
\* loading, startApp).
THEOREM SelectedIsShown == Spec => []ShowsWhatIsSelected
<1>1. ConsoleInv => ShowsWhatIsSelected
  <2> SUFFICES ASSUME ConsoleInv, started, tasks = <<>>, ~(overtook \/ outdated)
               PROVE  /\ content.view \in ViewsOf(currentPage) \cup {"error"}
                      /\ hostId # None => content.host \in {hostId, None, "none"}
    BY DEF ShowsWhatIsSelected
  <2>1. \A j \in DOMAIN tasks : FALSE
    OBVIOUS
  <2>2. content.view \in ViewsOf(currentPage) \cup {"error"}
    BY <2>1 DEF ConsoleInv, PageInv
  <2>3. hostId # None => content.host \in {hostId, None, "none"}
    BY <2>1 DEF ConsoleInv, HostInv, Outlived, Moving, Asked
  <2> QED BY <2>2, <2>3
<1> QED BY <1>1, ConsoleInvariance, PTL

\* The dashboard's cleanup knows every interval there is (startAutoRefresh,
\* stopAutoRefresh, cleanup).
THEOREM OneTimer == Spec => []OneDashboardTimer
<1>1. ConsoleInv => OneDashboardTimer
  BY DEF ConsoleInv
<1> QED BY <1>1, ConsoleInvariance, PTL

\* Lines of another container only come from an interval, or a request, of a logs
\* view that a navigation, an error, or the answer to a create or a submit replaced
\* (showLogsView, cleanup).
THEOREM LogsBelong == Spec => []LogsOfTheView
<1>1. ConsoleInv => LogsOfTheView
  BY DEF ConsoleInv, LogsInv
<1> QED BY <1>1, ConsoleInvariance, PTL
=============================================================================
