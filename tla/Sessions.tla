------------------------------ MODULE Sessions ------------------------------
(***************************************************************************)
(* The browser's side of a session on top of RefreshTokens: apiCall with   *)
(* its refresh and retry, login, logout, and the tokens each tab keeps in  *)
(* memory and shares with the other tabs through localStorage.             *)
(*                                                                         *)
(* A tab reads localStorage when its page loads and never again; saveState *)
(* writes all keys from the tab's memory.  JavaScript between two awaits   *)
(* is one step.  Requests wait at the server in any order.                 *)
(***************************************************************************)
EXTENDS RefreshTokens

CONSTANTS Tabs,
          Calls,     \* bound: API calls under way at a time
          None

ASSUME NoneAssumption ==
  None \notin Tabs /\ None \notin Users /\ None \notin Instants /\ None \notin Token

VARIABLES
  memory,    \* state.accessToken, refreshToken and currentUser of each tab
  storage,   \* the same keys of localStorage
  screen,    \* what each tab shows
  leaving,   \* tabs whose logout request is under way: its refresh token
  call,      \* where each apiCall is
  settled    \* history: tokens replaced everywhere they were held

client == <<memory, storage, screen, leaving, call, settled>>
vars == <<store, client>>

\* setAuthTokens stores an access token and a refresh token.
Keys == [access : Instants \cup {None}, refresh : Token \cup {None},
         user : Users \cup {None}]
Nothing == [access |-> None, refresh |-> None, user |-> None]

\* A call on its way to a 401, waiting for the refresh it posted, with either
\* answer to it, or abandoned with it by a reload.
CallPC == {"idle", "sent", "posted", "granted", "refused", "abandoned"}
Call == [pc : CallPC, tab : Tabs \cup {None}, access : Instants \cup {None},
         refresh : Token \cup {None}]
Idle == [pc |-> "idle", tab |-> None, access |-> None, refresh |-> None]

ClientTypeOK ==
  /\ memory \in [Tabs -> Keys] /\ storage \in Keys
  /\ screen \in [Tabs -> {"login", "app"}]
  /\ leaving \in [Tabs -> Token \cup {None}]
  /\ call \in [Calls -> Call]
  /\ settled \subseteq Token

SessionsTypeOK == TypeOK /\ ClientTypeOK

SessionsInit ==
  /\ Init
  /\ memory = [t \in Tabs |-> Nothing] /\ storage = Nothing
  /\ screen = [t \in Tabs |-> "login"]
  /\ leaving = [t \in Tabs |-> None]
  /\ call = [c \in Calls |-> Idle]
  /\ settled = {}

-----------------------------------------------------------------------------
(* Pages.                                                                  *)

Go(c, pc) == call' = [call EXCEPT ![c].pc = pc]

\* What a reload leaves of a tab's calls: the server may still get a refresh.
Dropped(t) ==
  [c \in Calls |->
     IF call[c].tab # t THEN call[c]
     ELSE IF call[c].pc \in {"posted", "abandoned"} THEN [call[c] EXCEPT !.pc = "abandoned"]
     ELSE Idle]

\* initApp: loadState, then isAuthenticated.
LoadPage(t, keys) ==
  /\ memory' = [memory EXCEPT ![t] = keys]
  /\ screen' = [screen EXCEPT ![t] =
                  IF keys.access # None /\ keys.user # None THEN "app" ELSE "login"]
  /\ leaving' = [leaving EXCEPT ![t] = None]
  /\ call' = Dropped(t)

Reload(t) ==
  /\ LoadPage(t, storage)
  /\ UNCHANGED <<store, storage, settled>>

\* saveState from the memory of t, as setState does for each key it keeps.
Save(t, keys) ==
  /\ memory' = [memory EXCEPT ![t] = keys]
  /\ storage' = keys

\* The host selector: setState('currentHostId') saves the tokens as well.
SelectHost(t) ==
  /\ screen[t] = "app"
  /\ Save(t, memory[t])
  /\ UNCHANGED <<store, screen, leaving, call, settled>>

\* authApi('/login') and its answer.  No call of another tab can see the row
\* before the tokens are in localStorage.
LogIn(t, u, f) ==
  /\ screen[t] = "login"
  /\ Login(u, f)
  /\ Save(t, [access |-> now, refresh |-> Issued(f), user |-> u])
  /\ screen' = [screen EXCEPT ![t] = "app"]
  /\ UNCHANGED <<leaving, call, settled>>

Authorised(t) == memory[t].access # None /\ AccessValid(memory[t].access)

-----------------------------------------------------------------------------
(* Logout: the request, the server, and the finally that clears the state. *)

\* The button stays while the answer is awaited; a second request changes
\* nothing the first does not.
AskLogout(t) ==
  /\ screen[t] = "app" /\ leaving[t] = None
  /\ memory[t].refresh # None
  /\ leaving' = [leaving EXCEPT ![t] = memory[t].refresh]
  /\ UNCHANGED <<store, memory, storage, screen, call, settled>>

\* The endpoint wants a valid access token: otherwise nothing is revoked.
ServeLogout(t) ==
  /\ leaving[t] # None
  /\ Authorised(t)
  /\ Logout(leaving[t])
  /\ UNCHANGED client

\* clearState empties this tab's memory and localStorage; the page stays.
FinishLogout(t) ==
  /\ leaving[t] # None
  /\ Save(t, Nothing)
  /\ screen' = [screen EXCEPT ![t] = "login"]
  /\ leaving' = [leaving EXCEPT ![t] = None]
  /\ UNCHANGED <<store, call, settled>>

\* The password dialog: 204, so the tab keeps the tokens just revoked.
ChangePassword(t) ==
  /\ screen[t] = "app" /\ memory[t].user # None
  /\ Authorised(t)
  /\ RevokeAllForUser(memory[t].user)
  /\ UNCHANGED client

-----------------------------------------------------------------------------
(* apiCall.                                                                *)

\* Pages, timers and buttons call at any time while the app is shown.  A call
\* the server lets through changes nothing here: only those to be answered with
\* 401 are looked at.
Send(c, t) ==
  /\ call[c].pc = "idle" /\ screen[t] = "app"
  /\ ~Authorised(t)
  /\ call' = [call EXCEPT ![c] = [Idle EXCEPT !.pc = "sent", !.tab = t]]
  /\ UNCHANGED <<store, memory, storage, screen, leaving, settled>>

\* The 401 comes back: refresh with the token the tab has by now, if any.
PostRefresh(c) ==
  LET token == memory[call[c].tab].refresh IN
  /\ call[c].pc = "sent"
  /\ call' = [call EXCEPT ![c] =
                IF token = None THEN Idle
                ELSE [@ EXCEPT !.pc = "posted", !.refresh = token]]
  /\ UNCHANGED <<store, memory, storage, screen, leaving, settled>>

\* The transaction of refresh; its answer carries tokens issued now.
ServeRefresh(c) ==
  /\ call[c].pc \in {"posted", "abandoned"}
  /\ Refresh(call[c].refresh)
  /\ call' = [call EXCEPT ![c] = IF @.pc = "abandoned" THEN Idle
                                 ELSE [@ EXCEPT !.pc = "granted", !.access = now]]
  /\ UNCHANGED <<memory, storage, screen, leaving, settled>>

RefuseRefresh(c) ==
  /\ call[c].pc \in {"posted", "abandoned"}
  /\ Refusable(call[c].refresh)
  /\ IF call[c].pc = "abandoned" THEN call' = [call EXCEPT ![c] = Idle]
                                 ELSE Go(c, "refused")
  /\ UNCHANGED <<store, memory, storage, screen, leaving, settled>>

\* The network fails before the request arrives, or the answer's way back.
LoseRefresh(c) ==
  /\ call[c].pc \in {"posted", "granted", "abandoned"}
  /\ IF call[c].pc = "abandoned" THEN call' = [call EXCEPT ![c] = Idle]
                                 ELSE Go(c, "refused")
  /\ UNCHANGED <<store, memory, storage, screen, leaving, settled>>

\* Who else has the token when the answer to c's refresh is stored.
HeldElsewhere(token, c) ==
  \/ \E t \in Tabs \ {call[c].tab} : memory[t].refresh = token
  \/ \E d \in Calls \ {c} : call[d].refresh = token

\* A mutant: only the access token is replaced.
StoreTokens_Access(c) ==
  /\ call[c].pc = "granted"
  /\ Save(call[c].tab, [memory[call[c].tab] EXCEPT !.access = call[c].access])
  /\ call' = [call EXCEPT ![c] = Idle]
  /\ settled' = IF HeldElsewhere(call[c].refresh, c) THEN settled
                ELSE settled \cup {call[c].refresh}
  /\ UNCHANGED <<store, screen, leaving>>

\* A mutant: the new tokens go to localStorage only, as if every tab read it.
StoreTokens_Storage(c) ==
  LET old == call[c].refresh IN
  /\ call[c].pc = "granted"
  /\ storage' = [memory[call[c].tab] EXCEPT !.access = call[c].access,
                                           !.refresh = [old EXCEPT !.at = call[c].access]]
  /\ call' = [call EXCEPT ![c] = Idle]
  /\ settled' = IF HeldElsewhere(old, c) THEN settled ELSE settled \cup {old}
  /\ UNCHANGED <<store, memory, screen, leaving>>

\* setAuthTokens.  The retry with state.accessToken changes nothing more: a
\* second 401 is an error of the call.
StoreTokens(c) ==
  LET t == call[c].tab
      old == call[c].refresh
      new == [memory[t] EXCEPT !.access = call[c].access,
                               !.refresh = [old EXCEPT !.at = call[c].access]]
  IN
  /\ call[c].pc = "granted"
  /\ Save(t, new)
  /\ call' = [call EXCEPT ![c] = Idle]
  /\ settled' = IF HeldElsewhere(old, c) THEN settled ELSE settled \cup {old}
  /\ UNCHANGED <<store, screen, leaving>>

\* handleAuthFailure: clearState and a reload.
HandleAuthFailure(c) ==
  /\ call[c].pc = "refused"
  /\ storage' = Nothing
  /\ LoadPage(call[c].tab, Nothing)
  /\ UNCHANGED <<store, settled>>

-----------------------------------------------------------------------------
ApiCall(c) ==
  \/ \E t \in Tabs : Send(c, t)
  \/ PostRefresh(c) \/ ServeRefresh(c) \/ RefuseRefresh(c)
  \/ LoseRefresh(c) \/ StoreTokens(c) \/ HandleAuthFailure(c)

TabStep(t) ==
  \/ Reload(t) \/ SelectHost(t) \/ AskLogout(t) \/ ServeLogout(t) \/ FinishLogout(t)
  \/ ChangePassword(t)
  \/ \E u \in Users, f \in Families : LogIn(t, u, f)

\* The clock, and an administrator at the users page.
Surroundings ==
  /\ Tick \/ \E u \in Users : Administer(u)
  /\ UNCHANGED client

SessionsNext ==
  \/ \E c \in Calls : ApiCall(c)
  \/ \E t \in Tabs : TabStep(t)
  \/ Surroundings

SessionsSpec == SessionsInit /\ [][SessionsNext]_vars

-----------------------------------------------------------------------------
\* What a tab has and what localStorage has was granted together: no order of
\* refreshes, logouts and saves of several tabs leaves an access token of one
\* grant with the refresh token of another (saveState, setAuthTokens).
OneGrant(keys) ==
  /\ keys.access = None <=> keys.refresh = None
  /\ keys.access # None => keys.refresh.at = keys.access

TokensComeInPairs == OneGrant(storage) /\ \A t \in Tabs : OneGrant(memory[t])

LiveFamily(f) == \E row \in rows : row.family = f /\ ~row.revoked /\ ~Expired(row.at)

\* A tab throws a live session away only because of a race or a loss: the token
\* it was refused was also held elsewhere when its successor was stored, or its
\* successor never was (apiCall, refreshAccessToken, handleAuthFailure).
OnlyARaceOrALossEndsALiveSession ==
  [][\A c \in Calls :
       HandleAuthFailure(c) /\ LiveFamily(call[c].refresh.family)
         => call[c].refresh \notin settled]_vars
=============================================================================
