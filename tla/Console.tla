------------------------------- MODULE Console -------------------------------
(***************************************************************************)
(* The shell of the single-page console and two of its pages: app.js and   *)
(* router.js, the dashboard with its refresh timer, and the containers     *)
(* page with its list, create and logs views.                              *)
(*                                                                         *)
(* JavaScript between two awaits is one step.  What waits for an answer of *)
(* the network is a task; tasks are resumed in any order.  A page's module *)
(* is imported once: afterwards its import resolves at once.               *)
(***************************************************************************)
EXTENDS Integers, Sequences, SequencesExt

CONSTANTS Hosts,
          Containers,   \* containers whose logs are looked at
          MaxTasks,     \* bound: requests under way before the user goes on
          None

Pages == {"dashboard", "containers"}

\* Nothing selected, and the text that says so, are not what can be selected.
ASSUME ConsoleAssumption ==
  /\ None \notin Hosts \cup Containers \cup Pages \cup {"none"}
  /\ "none" \notin Hosts
  /\ MaxTasks \in Nat

VARIABLES
  started,      \* the app is shown, not the login
  hash,         \* location.hash
  currentPage,  \* state.currentPage
  hostId,       \* state.currentHostId
  content,      \* what #content shows
  instance,     \* currentPageInstance
  cached,       \* page modules that have been imported
  tasks,        \* continuations waiting for an answer, oldest first
  timers,       \* dashboard intervals that run
  timerId,      \* refreshIntervalId is set
  rows,         \* containers.js: the host that `containers` was listed from
  view,         \* containers.js: currentView
  logTimer,     \* containers.js: the container of logsViewAutoRefresh
  loading,      \* containers whose lines a loadLogs waits for, to write them into
                \* the element that is shown
  orphans,      \* containers of log intervals whose id was overwritten
  overtook,     \* history: an answer came after one that was asked for later
  outdated,     \* history: an older host's data were left, with the answers in order
  left          \* history: containers whose logs view was replaced by another view

shell == <<started, hash, currentPage, hostId, content, instance, cached>>
dashboard == <<timers, timerId>>
containersPage == <<rows, view, logTimer, orphans>>
history == <<overtook, outdated>>
vars == <<shell, tasks, dashboard, containersPage, loading, history, left>>

\* host: whose data is shown, "none" is the text "No host selected".
\* of, logs, tail: the logs view's container, whose lines it shows, auto-scroll.
Content ==
  [view : {"blank", "loading", "error", "dashboard", "list", "create", "logs"},
   host : Hosts \cup {None, "none"},
   of : Containers \cup {None}, logs : Containers \cup {None}, tail : BOOLEAN]
Fresh(v) == [view |-> v, host |-> None, of |-> None, logs |-> None, tail |-> FALSE]

\* What a task has captured: a page or a host.
Task ==
  [kind : {"hosts", "route", "ping", "page", "stats", "usage", "list", "drift", "create",
           "submit", "action"},
   page : Pages \cup {None}, host : Hosts \cup {None}]
Plain(kind) == [kind |-> kind, page |-> None, host |-> None]
OfHost(kind, h) == [Plain(kind) EXCEPT !.host = h]

ConsoleTypeOK ==
  /\ started \in BOOLEAN /\ hash \in Pages \cup {None}
  /\ currentPage \in Pages /\ hostId \in Hosts \cup {None}
  /\ content \in Content
  /\ (content.view = "logs") = (content.of # None)
  /\ content.view # "logs" => content.logs = None /\ ~content.tail
  /\ instance \in Pages \cup {None} /\ cached \subseteq Pages
  /\ tasks \in Seq(Task)
  /\ timers \in Nat /\ timerId \in BOOLEAN
  /\ rows \in Hosts \cup {None} /\ view \in {"list", "create", "logs"}
  /\ logTimer \in Containers \cup {None} /\ orphans \subseteq Containers
  /\ loading \subseteq Containers
  /\ overtook \in BOOLEAN /\ outdated \in BOOLEAN /\ left \subseteq Containers

\* A page that is opened: with or without a hash, with or without a saved host.
Init ==
  /\ started = FALSE
  /\ hash \in Pages \cup {None} /\ currentPage = "dashboard"
  /\ hostId \in Hosts \cup {None}
  /\ content = Fresh("blank") /\ instance = None /\ cached = {}
  /\ tasks = <<>>
  /\ timers = 0 /\ timerId = FALSE
  /\ rows = None /\ view = "list" /\ logTimer = None /\ orphans = {} /\ loading = {}
  /\ overtook = FALSE /\ outdated = FALSE /\ left = {}

-----------------------------------------------------------------------------
(* router.js.                                                              *)

OnContainers == content.view \in {"list", "create", "logs"}

\* A mutant: no stopAutoRefresh first.
StartAutoRefresh_Twice ==
  /\ timers' = timers + 1
  /\ timerId' = TRUE

\* An interval whose id is known is replaced.
StartAutoRefresh ==
  /\ timers' = timers + (IF timerId THEN 0 ELSE 1)
  /\ timerId' = TRUE

\* The dashboard's cleanup stops its interval; the containers page's empties
\* its variables and leaves the logs interval alone.
Cleanup ==
  /\ IF instance = "dashboard"
     THEN timers' = timers - (IF timerId THEN 1 ELSE 0) /\ timerId' = FALSE
     ELSE UNCHANGED dashboard
  /\ IF instance = "containers" THEN rows' = None /\ view' = "list"
                                ELSE UNCHANGED <<rows, view>>

\* A mutant: the router puts the page into #content without emptying it.
Rendered_Over(p) ==
  [content EXCEPT !.view = IF p = "dashboard" THEN "dashboard" ELSE "list",
                  !.host = IF hostId = None THEN "none" ELSE None]

\* A page just rendered; without a host its init says so.
Rendered(p) ==
  [Fresh(IF p = "dashboard" THEN "dashboard" ELSE "list")
     EXCEPT !.host = IF hostId = None THEN "none" ELSE None]

\* loadDashboardData and loadData up to their first await.  Without a host the
\* dashboard's init has nothing to wait for, but comes back from an await too.
Requests(p) ==
  CASE p = "dashboard" -> <<OfHost("stats", hostId)>>
    [] p # "dashboard" /\ hostId = None -> <<>>
    [] OTHER -> <<OfHost("list", hostId)>>

\* Replacing what #content or the containers page shows detaches the element
\* that pending loadLogs calls hold: their answers are seen nowhere.
Replace(new, ts) ==
  /\ content' = new /\ loading' = {}
  /\ tasks' = ts
  /\ left' = left \cup (IF content.view = "logs" THEN {content.of} ELSE {})

\* render and init of a page whose module is at hand; after are the requests
\* that the caller makes next.
ShowPage(p, ts, after) ==
  /\ instance' = p
  /\ Replace(Rendered(p), ts \o Requests(p) \o after)

\* What task i was resumed before: i = 0 stands for the user.
Carries(task) == task.kind = "page" \/ task.host # None
Late(i) == \E j \in 1 .. i - 1 : Carries(tasks[j])
Rest(i) == IF i = 0 THEN tasks ELSE RemoveAt(tasks, i)
Importing(ts) == \E j \in DOMAIN ts : ts[j].kind = "page"

\* loadPage: no await before init if the module was imported before, which
\* overtakes an import that is under way.
LoadPage(p, i, after) ==
  /\ Cleanup
  /\ IF p \in cached
     THEN ShowPage(p, Rest(i), after)
     ELSE /\ Replace(Fresh("loading"),
                     Rest(i) \o <<[Plain("page") EXCEPT !.page = p]>> \o after)
          /\ UNCHANGED instance
  /\ overtook' = (Rest(i) # <<>> /\ (overtook \/ Late(i) \/ (p \in cached /\ Importing(Rest(i)))))
  /\ outdated' = (Rest(i) # <<>> /\ outdated)
  /\ UNCHANGED <<cached, logTimer, orphans>>

Resumes(i, kind) == i \in DOMAIN tasks /\ tasks[i].kind = kind

\* The task ends and asks for more.
Goes(i, more) ==
  /\ tasks' = Rest(i) \o more
  /\ overtook' = (overtook \/ Late(i)) /\ UNCHANGED outdated

ModuleArrives(i) ==
  /\ Resumes(i, "page")
  /\ cached' = cached \cup {tasks[i].page}
  /\ ShowPage(tasks[i].page, Rest(i), <<>>)
  /\ overtook' = (overtook \/ Late(i)) /\ UNCHANGED outdated
  /\ UNCHANGED <<started, hash, currentPage, hostId, dashboard, containersPage>>

\* The catch writes over whatever is shown by now.
ImportFails(i) ==
  /\ Resumes(i, "page")
  /\ Replace(Fresh("error"), Rest(i))
  /\ overtook' = (overtook \/ Late(i)) /\ UNCHANGED outdated
  /\ UNCHANGED <<started, hash, currentPage, hostId, instance, cached, dashboard,
                 containersPage>>

-----------------------------------------------------------------------------
(* app.js and the user at the shell.                                       *)

User == started /\ Len(tasks) < MaxTasks

\* The page is loaded first, then the hosts are asked for.
StartApp ==
  /\ ~started /\ Len(tasks) < MaxTasks
  /\ started' = TRUE
  /\ currentPage' = IF hash = None THEN "dashboard" ELSE hash
  /\ LoadPage(currentPage', 0, <<Plain("hosts")>>)
  /\ UNCHANGED <<hash, hostId>>

\* clearState of a logout; the page behind the login stays and works on.
LogOut ==
  /\ started
  /\ started' = FALSE /\ hostId' = None
  /\ UNCHANGED <<hash, currentPage, content, instance, cached, tasks, dashboard,
                 containersPage, history, loading, left>>

\* The saved host is kept if it is in the list, else the first one is selected.
\* Without a hash the dashboard is navigated to; with one the page stays as it
\* was loaded before the hosts were known.
HostsAnswer(i) ==
  \E h \in Hosts :
    /\ Resumes(i, "hosts")
    /\ hostId' = h
    /\ IF hash = None
       THEN hash' = "dashboard" /\ Goes(i, <<Plain("route")>>)
       ELSE /\ tasks' = Rest(i)
            /\ overtook' = (overtook \/ Late(i))
            /\ outdated' = (outdated \/ h # hostId)
            /\ UNCHANGED hash
    /\ UNCHANGED <<started, currentPage, content, instance, cached, dashboard,
                   containersPage, loading, left>>

\* The hashchange event of that navigation.
HashChange(i) ==
  /\ Resumes(i, "route")
  /\ currentPage' = hash
  /\ LoadPage(hash, i, <<>>)
  /\ UNCHANGED <<started, hash, hostId>>

HostsFail(i) ==
  /\ Resumes(i, "hosts")
  /\ Replace(Fresh("error"), Rest(i))
  /\ overtook' = (overtook \/ Late(i)) /\ UNCHANGED outdated
  /\ UNCHANGED <<started, hash, currentPage, hostId, instance, cached, dashboard,
                 containersPage>>

\* handleRoute after a click in the sidebar.
Navigate(p) ==
  /\ User
  /\ p # hash
  /\ hash' = p /\ currentPage' = p
  /\ LoadPage(p, 0, <<>>)
  /\ UNCHANGED <<started, hostId>>

Refresh ==
  /\ User
  /\ LoadPage(currentPage, 0, <<>>)
  /\ UNCHANGED <<started, hash, currentPage, hostId>>

\* The selector is there once the hosts are.
SelectHost(h) ==
  /\ User
  /\ hostId # None /\ h # hostId
  /\ \A i \in DOMAIN tasks : tasks[i].kind # "hosts"
  /\ hostId' = h
  /\ tasks' = Append(tasks, Plain("ping"))
  /\ UNCHANGED <<started, hash, currentPage, content, instance, cached, dashboard,
                 containersPage, history, loading, left>>

\* A mutant: the selector's handler ends with the check.
PingAnswer_NoRefresh(i) ==
  /\ Resumes(i, "ping")
  /\ Goes(i, <<>>)
  /\ UNCHANGED <<shell, dashboard, containersPage, loading, left>>

\* checkHostConnection answers true or false, refreshCurrentPage follows.
PingAnswer(i) ==
  /\ Resumes(i, "ping")
  /\ LoadPage(currentPage, i, <<>>)
  /\ UNCHANGED <<started, hash, currentPage, hostId>>

-----------------------------------------------------------------------------
(* dashboard.js.                                                           *)

Showing(h) == content' = [content EXCEPT !.host = h]

\* loadDashboardData returns in any case, and init starts the interval.
StatsAnswer(i) ==
  LET h == tasks[i].host IN
  /\ Resumes(i, "stats")
  /\ IF content.view = "dashboard" /\ h # None
     THEN \/ Showing(h) /\ Goes(i, <<OfHost("usage", h)>>)
          \/ Showing("none") /\ Goes(i, <<>>)
     ELSE Goes(i, <<>>) /\ UNCHANGED content
  /\ StartAutoRefresh
  /\ UNCHANGED <<started, hash, currentPage, hostId, instance, cached, containersPage,
                 loading, left>>

\* loadContainerStatsAsync renders the containers it was given once more.
UsageAnswer(i) ==
  /\ Resumes(i, "usage")
  /\ Goes(i, <<>>)
  /\ \/ content.view = "dashboard" /\ Showing(tasks[i].host)
     \/ UNCHANGED content
  /\ UNCHANGED <<started, hash, currentPage, hostId, instance, cached, dashboard,
                 containersPage, loading, left>>

-----------------------------------------------------------------------------
(* containers.js.                                                          *)

ContainersOnly == UNCHANGED <<started, hash, currentPage, hostId, instance, cached, dashboard>>

\* renderContainersTable throws when its table is not shown.  The stats and the
\* drift are asked for of the host selected by now.
ListAnswer(i) ==
  /\ Resumes(i, "list")
  /\ rows' = tasks[i].host
  /\ IF content.view = "list"
     THEN Showing(tasks[i].host) /\ Goes(i, <<OfHost("drift", hostId)>>)
     ELSE Goes(i, <<>>) /\ UNCHANGED content
  /\ ContainersOnly /\ UNCHANGED <<view, logTimer, orphans, loading, left>>

DriftAnswer(i) ==
  /\ Resumes(i, "drift")
  /\ Goes(i, <<>>)
  /\ IF view = "list" /\ content.view = "list" THEN Showing(rows) ELSE UNCHANGED content
  /\ ContainersOnly /\ UNCHANGED <<containersPage, loading, left>>

\* A start, stop, delete, ... at a row of the table.
Act ==
  /\ User /\ content.view = "list" /\ content.host \in Hosts
  /\ tasks' = Append(tasks, Plain("action"))
  /\ ContainersOnly /\ UNCHANGED <<content, containersPage, history, loading, left>>

\* loadData with the host that is selected by now.
ActionAnswer(i) ==
  /\ Resumes(i, "action")
  /\ Goes(i, Requests("containers"))
  /\ IF hostId = None /\ content.view = "list" THEN Showing("none") ELSE UNCHANGED content
  /\ ContainersOnly /\ UNCHANGED <<containersPage, loading, left>>

\* A request whose failure is a message and no more.  A list that fails leaves
\* the table that a drift answer has made of an older list.
Fails(i) ==
  /\ i \in DOMAIN tasks /\ tasks[i].kind \in {"list", "action", "submit"}
  /\ tasks' = Rest(i)
  /\ overtook' = (overtook \/ Late(i))
  /\ outdated' = (outdated \/ (tasks[i].kind = "list" /\ content.host \in Hosts \ {tasks[i].host}))
  /\ ContainersOnly /\ UNCHANGED <<content, containersPage, loading, left>>

ShowCreateView ==
  /\ User /\ content.view = "list"
  /\ view' = "create"
  /\ tasks' = Append(tasks, OfHost("create", hostId))
  /\ ContainersOnly /\ UNCHANGED <<content, rows, logTimer, orphans, history, loading, left>>

\* Its requests' failures are caught one by one.
CreateAnswer(i) ==
  /\ Resumes(i, "create")
  /\ IF OnContainers
     THEN Replace([Fresh("create") EXCEPT !.host = tasks[i].host], Rest(i))
     ELSE tasks' = Rest(i) /\ UNCHANGED <<content, loading, left>>
  /\ overtook' = (overtook \/ Late(i)) /\ UNCHANGED outdated
  /\ ContainersOnly /\ UNCHANGED containersPage

Submit ==
  /\ User /\ content.view = "create"
  /\ tasks' = Append(tasks, Plain("submit"))
  /\ ContainersOnly /\ UNCHANGED <<content, containersPage, history, loading, left>>

\* showListView, which throws half-way if the page is gone.
ShowListView(ts) ==
  /\ view' = "list"
  /\ IF OnContainers
     THEN /\ content' = Rendered("containers") /\ loading' = {}
          /\ tasks' = ts \o Requests("containers")
     ELSE tasks' = ts /\ UNCHANGED <<content, loading>>

SubmitAnswer(i) ==
  /\ Resumes(i, "submit")
  /\ ShowListView(Rest(i))
  /\ overtook' = (overtook \/ Late(i)) /\ UNCHANGED outdated
  /\ left' = left \cup (IF content.view = "logs" THEN {content.of} ELSE {})
  /\ ContainersOnly /\ UNCHANGED <<rows, logTimer, orphans>>

\* A mutant: the back button of the logs view leaves the interval running.
BackToList_LeavesTimer ==
  /\ started /\ content.view \in {"create", "logs"}
  /\ ShowListView(tasks)
  /\ ContainersOnly /\ UNCHANGED <<rows, logTimer, orphans, history, left>>

\* The back buttons; that of the logs view clears the interval it knows.
BackToList ==
  /\ User /\ content.view \in {"create", "logs"}
  /\ ShowListView(tasks)
  /\ logTimer' = IF content.view = "logs" THEN None ELSE logTimer
  /\ ContainersOnly /\ UNCHANGED <<rows, orphans, history, left>>

\* From the details of a row, whose own interval ends with the dialog.
ShowLogsView(k) ==
  /\ User /\ content.view = "list" /\ content.host \in Hosts
  /\ view' = "logs"
  /\ content' = [Fresh("logs") EXCEPT !.of = k] /\ loading' = {k}
  /\ ContainersOnly /\ UNCHANGED <<tasks, rows, logTimer, orphans, history, left>>

\* The auto-scroll button: autoScroll is the view's, the interval's id is not.
ToggleTail ==
  /\ User /\ content.view = "logs"
  /\ content' = [content EXCEPT !.tail = ~@]
  /\ IF content.tail
     THEN logTimer' = None /\ UNCHANGED <<loading, orphans>>
     ELSE /\ logTimer' = content.of
          /\ orphans' = orphans \cup ({logTimer} \ {None})
          /\ loading' = loading \cup {content.of}
  /\ ContainersOnly /\ UNCHANGED <<tasks, rows, view, history, left>>

\* loadLogs looks for the element anew: the one of any logs view will do.  A
\* second request for the same lines, while one is under way, is left out.
LogTick(k) ==
  /\ k \in orphans \cup {logTimer} /\ content.view = "logs"
  /\ k \notin loading
  /\ loading' = loading \cup {k}
  /\ ContainersOnly /\ UNCHANGED <<content, tasks, containersPage, history, left>>

LogsAnswer(k) ==
  /\ k \in loading
  /\ loading' = loading \ {k}
  /\ \E lines \in {k, None} : content' = [content EXCEPT !.logs = lines]
  /\ ContainersOnly /\ UNCHANGED <<tasks, containersPage, history, left>>

-----------------------------------------------------------------------------
Answer(i) ==
  \/ ModuleArrives(i) \/ ImportFails(i)
  \/ HostsAnswer(i) \/ HostsFail(i) \/ HashChange(i)
  \/ PingAnswer(i) \/ StatsAnswer(i) \/ UsageAnswer(i)
  \/ ListAnswer(i) \/ DriftAnswer(i) \/ ActionAnswer(i) \/ Fails(i)
  \/ CreateAnswer(i) \/ SubmitAnswer(i)

AtThePage ==
  \/ Act \/ ShowCreateView \/ Submit \/ BackToList \/ ToggleTail
  \/ \E k \in Containers : ShowLogsView(k) \/ LogTick(k) \/ LogsAnswer(k)

AtTheShell ==
  \/ StartApp \/ LogOut \/ Refresh
  \/ \E p \in Pages : Navigate(p)
  \/ \E h \in Hosts : SelectHost(h)

Next == AtTheShell \/ AtThePage \/ \E i \in DOMAIN tasks : Answer(i)

Spec == Init /\ [][Next]_vars

-----------------------------------------------------------------------------
ViewsOf(p) == IF p = "dashboard" THEN {"dashboard"} ELSE {"list", "create", "logs"}

\* When everything has been answered, the console shows the page that the sidebar
\* names, or an error, and data of no other host than the selector names, whatever
\* the user clicked meanwhile (handleRoute, loadPage, the selector's handler, the
\* pages' loading).  Excepted, until a page is loaded with no answer pending:
\*  - an answer came before one that was asked for earlier, or a page that needs
\*    no import was opened before another's module was there;
\*  - a list failed while another host's table was shown, which it leaves;
\*  - the hosts came when the page had been loaded for another one or none, which
\*    startApp does not load again if there is a hash.
ShowsWhatIsSelected ==
  started /\ tasks = <<>> /\ ~(overtook \/ outdated) =>
    /\ content.view \in ViewsOf(currentPage) \cup {"error"}
    /\ hostId # None => content.host \in {hostId, None, "none"}

\* However often the dashboard is opened before its data is there, it never has
\* two intervals, nor one that its cleanup could not stop (init, cleanup).
OneDashboardTimer == timers = IF timerId THEN 1 ELSE 0

\* A logs view shows the lines of the container in its title, or of one whose own
\* logs view was once replaced by something else than a back button: by the router,
\* an error, or the answer to an earlier create or submit.  That container's
\* interval still runs and writes into any logs view (showLogsView, cleanup).
LogsOfTheView == content.logs \in {None, content.of} \cup left
=============================================================================
