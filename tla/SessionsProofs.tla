---------------------------- MODULE SessionsProofs ----------------------------
(* Theorems about RefreshTokens, for any users, families and lifetimes and  *)
(* for every order in which clients present tokens; then about Sessions,    *)
(* for any tabs and calls: what holds of the rows holds beside any browser, *)
(* and what the tabs hold.                                                  *)
EXTENDS Sessions, TLAPS

(* The rows alone: Spec of RefreshTokens.                                   *)

\* A row is found by its family and its second: the hash is unique.
HashIsUnique ==
  \A r, s \in rows : r.family = s.family /\ r.at = s.at => r = s

\* What every transaction keeps.
IInv == TypeOK /\ HashIsUnique /\ OneUsableToken /\ DisabledHasNoToken

-----------------------------------------------------------------------------
(* What revoking some rows leaves.                                         *)

LEMMA RevokedRow ==
  ASSUME NEW row \in Row
  PROVE  LET new == [row EXCEPT !.revoked = TRUE] IN
         /\ new \in Row
         /\ new.family = row.family /\ new.at = row.at /\ new.user = row.user
         /\ new.revoked
  BY DEF Row

\* Every row of the result is a row of before: unchanged and not among those
\* to revoke, or revoked now.
LEMMA RevokeLeaves ==
  ASSUME TypeOK, NEW some \in SUBSET rows
  PROVE  /\ Revoke(some) \subseteq Row
         /\ \A new \in Revoke(some) : \E old \in rows :
              /\ new.family = old.family /\ new.at = old.at /\ new.user = old.user
              /\ old.revoked => new.revoked
              /\ old \in some => new.revoked
              /\ new # old => old \in some
              /\ ~new.revoked => new = old
<1>1. ASSUME NEW new \in Revoke(some)
      PROVE  /\ new \in Row
             /\ \E old \in rows :
                  /\ new.family = old.family /\ new.at = old.at /\ new.user = old.user
                  /\ old.revoked => new.revoked
                  /\ old \in some => new.revoked
                  /\ new # old => old \in some
                  /\ ~new.revoked => new = old
  <2>1. CASE new \in rows \ some
    BY <2>1 DEF TypeOK
  <2>2. CASE \E old \in some : new = [old EXCEPT !.revoked = TRUE]
    <3>1. PICK old \in some : new = [old EXCEPT !.revoked = TRUE]
      BY <2>2
    <3>2. old \in Row
      BY <3>1 DEF TypeOK
    <3> QED BY <3>1, <3>2, RevokedRow
  <2> QED BY <2>1, <2>2 DEF Revoke
<1> QED BY <1>1

\* Rows with one hash stay one row: revoking looks at nothing else.
LEMMA RevokeKeepsHashes ==
  ASSUME TypeOK, HashIsUnique, NEW some \in SUBSET rows
  PROVE  \A r, s \in Revoke(some) : r.family = s.family /\ r.at = s.at => r = s
<1> SUFFICES ASSUME NEW r \in Revoke(some), NEW s \in Revoke(some),
                    r.family = s.family, r.at = s.at
             PROVE  r = s
  OBVIOUS
<1>1. ASSUME NEW new, NEW old \in some, new = [old EXCEPT !.revoked = TRUE]
      PROVE  old \in rows /\ old.family = new.family /\ old.at = new.at
  BY <1>1, RevokedRow DEF TypeOK
<1>2. CASE r \in rows \ some /\ s \in rows \ some
  BY <1>2 DEF HashIsUnique
<1>3. ASSUME NEW old \in some, r = [old EXCEPT !.revoked = TRUE], s \in rows \ some
      PROVE  FALSE
  BY <1>1, <1>3 DEF HashIsUnique
<1>4. ASSUME NEW old \in some, s = [old EXCEPT !.revoked = TRUE], r \in rows \ some
      PROVE  FALSE
  BY <1>1, <1>4 DEF HashIsUnique
<1>5. ASSUME NEW old \in some, r = [old EXCEPT !.revoked = TRUE],
             NEW old2 \in some, s = [old2 EXCEPT !.revoked = TRUE]
      PROVE  r = s
  <2>1. /\ old \in rows /\ old.family = r.family /\ old.at = r.at
        /\ old2 \in rows /\ old2.family = s.family /\ old2.at = s.at
    BY <1>1, <1>5
  <2>2. old = old2
    BY <2>1 DEF HashIsUnique
  <2> QED BY <1>5, <2>2
<1> QED BY <1>2, <1>3, <1>4, <1>5 DEF Revoke

\* Revoking keeps the invariant, whichever rows it is about.
LEMMA RevokeKeeps ==
  ASSUME IInv, NEW some \in SUBSET rows, rows' = Revoke(some),
         UNCHANGED <<enabled, now>>
  PROVE  IInv'
<1> USE DEF IInv
<1>1. TypeOK'
  BY RevokeLeaves DEF TypeOK, Instants
<1>2. HashIsUnique'
  BY RevokeKeepsHashes DEF HashIsUnique
<1>3. OneUsableToken'
  BY RevokeLeaves DEF OneUsableToken
<1>4. DisabledHasNoToken'
  BY RevokeLeaves DEF DisabledHasNoToken
<1> QED BY <1>1, <1>2, <1>3, <1>4

-----------------------------------------------------------------------------
(* The invariant.                                                          *)

LEMMA IInvInit == Init => IInv
  BY TokenAssumption DEF Init, IInv, TypeOK, Instants, HashIsUnique, OneUsableToken,
     DisabledHasNoToken

\* The row a login or a rotation adds.
LEMMA NewRowType ==
  ASSUME TypeOK, NEW u \in Users, NEW f \in Families
  PROVE  /\ NewRow(u, f) \in Row
         /\ NewRow(u, f).user = u /\ NewRow(u, f).family = f
         /\ NewRow(u, f).at = now /\ ~NewRow(u, f).revoked
  BY DEF TypeOK, NewRow, Row

LEMMA LoginKeeps ==
  ASSUME IInv, NEW u \in Users, NEW f \in Families, Login(u, f)
  PROVE  IInv'
<1> USE NewRowType DEF IInv, Login
<1>1. TypeOK'
  BY DEF TypeOK
<1>2. HashIsUnique'
  BY DEF HashIsUnique
<1>3. OneUsableToken'
  BY DEF OneUsableToken
<1>4. DisabledHasNoToken'
  BY DEF DisabledHasNoToken
<1> QED BY <1>1, <1>2, <1>3, <1>4

\* The row presented is the family's only usable one, and the new one has
\* another second.
LEMMA RotateKeeps ==
  ASSUME IInv, NEW row \in rows, Rotate(row)
  PROVE  IInv'
<1> DEFINE new == NewRow(row.user, row.family)
           kept == Revoke({row})
<1> USE DEF IInv
<1>1. /\ row \in Row /\ row.user \in Users /\ row.family \in Families
      /\ ~row.revoked /\ enabled[row.user]
      /\ \A r \in rows : r.family = row.family => r.at # now
      /\ rows' = kept \cup {new} /\ UNCHANGED <<enabled, now>>
  BY DEF Rotate, Rotatable, TypeOK, Row, Stored, IsFor, Issued
<1>2. /\ new \in Row /\ new.user = row.user /\ new.family = row.family
      /\ new.at = now /\ ~new.revoked
  BY <1>1, NewRowType
<1>3. /\ kept \subseteq Row
      /\ \A r \in kept : \E old \in rows :
           /\ r.family = old.family /\ r.at = old.at /\ r.user = old.user
           /\ old.revoked => r.revoked
           /\ old = row => r.revoked
           /\ ~r.revoked => r = old
  BY RevokeLeaves
<1>4. \A r, s \in kept : r.family = s.family /\ r.at = s.at => r = s
  <2> SUFFICES ASSUME NEW r \in kept, NEW s \in kept, r.family = s.family, r.at = s.at
               PROVE  r = s
    OBVIOUS
  <2>1. \A x \in kept : x \in rows \ {row} \/ x = [row EXCEPT !.revoked = TRUE]
    BY DEF Revoke
  <2>2. LET x == [row EXCEPT !.revoked = TRUE] IN x.family = row.family /\ x.at = row.at
    BY <1>1, RevokedRow
  <2>3. CASE r \in rows \ {row} /\ s \in rows \ {row}
    BY <2>3 DEF HashIsUnique
  <2>4. CASE r \in rows \ {row} /\ s = [row EXCEPT !.revoked = TRUE]
    BY <2>2, <2>4 DEF HashIsUnique
  <2>5. CASE s \in rows \ {row} /\ r = [row EXCEPT !.revoked = TRUE]
    BY <2>2, <2>5 DEF HashIsUnique
  <2> QED BY <2>1, <2>3, <2>4, <2>5
<1>5. TypeOK'
  <2> HIDE DEF kept, new
  <2>1. rows' \subseteq Row
    BY <1>1, <1>2, <1>3
  <2> QED BY <1>1, <2>1 DEF TypeOK, Instants
<1>6. HashIsUnique'
  <2>1. \A r \in kept : r.family = new.family => r.at # new.at
    BY <1>1, <1>2, <1>3
  <2> HIDE DEF kept, new
  <2> QED BY <1>1, <1>4, <2>1 DEF HashIsUnique
<1>7. OneUsableToken'
  <2> HIDE DEF kept, new
  <2>1. ASSUME NEW r \in kept, ~r.revoked
        PROVE  r \in rows /\ r.family # row.family
    <3>1. r \in rows /\ r # row
      BY <1>3, <2>1
    <3> QED BY <1>1, <2>1, <3>1 DEF OneUsableToken
  <2>2. \A r, s \in kept : r.family = s.family /\ ~r.revoked /\ ~s.revoked => r = s
    BY <2>1 DEF OneUsableToken
  <2> QED BY <1>1, <1>2, <2>1, <2>2 DEF OneUsableToken
<1>8. DisabledHasNoToken'
  <2>1. \A r \in kept : ~enabled[r.user] => r.revoked
    BY <1>3 DEF DisabledHasNoToken
  <2> HIDE DEF kept, new
  <2> QED BY <1>1, <1>2, <2>1 DEF DisabledHasNoToken
<1> QED BY <1>5, <1>6, <1>7, <1>8

LEMMA TickKeeps == IInv /\ Tick => IInv'
  BY TokenAssumption DEF IInv, Tick, TypeOK, Instants, HashIsUnique, OneUsableToken,
     DisabledHasNoToken

LEMMA EnableKeeps ==
  ASSUME IInv, NEW u \in Users, Enable(u)
  PROVE  IInv'
<1>1. TypeOK' /\ HashIsUnique' /\ OneUsableToken'
  BY DEF IInv, Enable, TypeOK, HashIsUnique, OneUsableToken
<1>2. \A v \in Users : enabled'[v] \/ enabled'[v] = enabled[v]
  BY DEF IInv, Enable, TypeOK
<1>3. \A row \in rows : row.user \in Users
  BY DEF IInv, TypeOK, Row
<1>4. DisabledHasNoToken'
  BY <1>2, <1>3 DEF IInv, Enable, DisabledHasNoToken
<1> QED BY <1>1, <1>4 DEF IInv

\* All rows of the user are revoked, so that disabling it breaks nothing.
LEMMA DisableKeeps ==
  ASSUME IInv, NEW u \in Users, Disable(u)
  PROVE  IInv'
<1> DEFINE some == {row \in rows : row.user = u}
<1>1. /\ rows' = Revoke(some) /\ some \in SUBSET rows /\ now' = now
      /\ enabled' = [enabled EXCEPT ![u] = FALSE]
  BY DEF Disable
<1>2. \A new \in rows' : \E old \in rows :
        /\ new \in Row /\ new.user = old.user /\ new.family = old.family
        /\ new.at = old.at
        /\ old.user = u => new.revoked
        /\ old.revoked => new.revoked
        /\ ~new.revoked => new = old
  BY <1>1, RevokeLeaves DEF IInv
<1>3. TypeOK'
  BY <1>1, <1>2 DEF IInv, TypeOK, Instants
<1>4. HashIsUnique' /\ OneUsableToken'
  <2>1. HashIsUnique'
    BY <1>1, RevokeKeepsHashes DEF IInv, HashIsUnique
  <2> QED BY <1>2, <2>1 DEF IInv, OneUsableToken
<1>5. DisabledHasNoToken'
  <2>1. \A v \in Users : v # u => enabled'[v] = enabled[v]
    BY <1>1 DEF IInv, TypeOK
  <2> QED BY <1>2, <2>1 DEF IInv, DisabledHasNoToken, TypeOK, Row
<1> QED BY <1>3, <1>4, <1>5 DEF IInv

LEMMA IInvStep == IInv /\ [Next]_store => IInv'
<1> SUFFICES ASSUME IInv, [Next]_store PROVE IInv'
  OBVIOUS
<1>1. ASSUME NEW u \in Users, RevokeAllForUser(u) PROVE IInv'
  <2>1. {row \in rows : row.user = u} \in SUBSET rows
    OBVIOUS
  <2> QED BY <1>1, <2>1, RevokeKeeps DEF RevokeAllForUser
<1>2. ASSUME NEW u \in Users, Disable(u) PROVE IInv'
  BY <1>2, DisableKeeps
<1>3. ASSUME NEW u \in Users, Enable(u) PROVE IInv'
  BY <1>3, EnableKeeps
<1>4. ASSUME NEW u \in Users, NEW f \in Families, Login(u, f) PROVE IInv'
  BY <1>4, LoginKeeps
<1>5. ASSUME NEW token \in Token, Refresh(token) PROVE IInv'
  BY <1>5, RotateKeeps DEF Refresh, Stored
<1>6. ASSUME NEW token \in Token, Logout(token) PROVE IInv'
  <2>1. Stored(token) \in SUBSET rows
    BY DEF Stored
  <2> QED BY <1>6, <2>1, RevokeKeeps DEF Logout
<1>7. CASE Tick BY <1>7, TickKeeps
<1>8. CASE UNCHANGED store
  BY <1>8 DEF store, IInv, TypeOK, HashIsUnique, OneUsableToken, DisabledHasNoToken
<1> QED BY <1>1, <1>2, <1>3, <1>4, <1>5, <1>6, <1>7, <1>8 DEF Next, Administer

\* The inductive invariant, along every behaviour of the rows.
THEOREM Invariance == Spec => []IInv
  BY IInvInit, IInvStep, PTL DEF Spec

\* Rows, users and the clock keep their types.
THEOREM TypeCorrect == Spec => []TypeOK
<1>1. IInv => TypeOK
  BY DEF IInv
<1> QED BY <1>1, Invariance, PTL

\* Whoever presents whatever token, in any order: no family ever has two
\* refresh tokens that are not revoked (refresh, logout, revokeAllForUser).
THEOREM OneUsable == Spec => []OneUsableToken
<1>1. IInv => OneUsableToken
  BY DEF IInv
<1> QED BY <1>1, Invariance, PTL

\* A disabled user has no token that works, now or after it is enabled again.
THEOREM DisabledHasNone == Spec => []DisabledHasNoToken
<1>1. IInv => DisabledHasNoToken
  BY DEF IInv
<1> QED BY <1>1, Invariance, PTL

-----------------------------------------------------------------------------
(* The rows implement TokenFamilies.                                       *)

Opened == {row.family : row \in rows}

LEMMA MappedInit == Init => Family!Init
<1> SUFFICES ASSUME Init PROVE Family!Init
  OBVIOUS
<1>1. Opened = {}
  BY DEF Init, Opened
<1>2. \A f \in Families : Working(f) = {}
  BY DEF Init, Working
<1> QED BY <1>1, <1>2 DEF Family!Init, Opened

\* A family has no working second, or the one of its usable row.
LEMMA AtMostOneWorks ==
  ASSUME IInv, NEW f \in Families, NEW t \in Working(f)
  PROVE  Working(f) = {t}
<1>1. PICK row \in rows : row.family = f /\ row.at = t /\ ~row.revoked
  BY DEF Working
<1>2. ASSUME NEW s \in Working(f) PROVE s = t
  <2>1. PICK other \in rows : other.family = f /\ other.at = s /\ ~other.revoked
    BY <1>2 DEF Working
  <2> QED BY <1>1, <2>1 DEF IInv, OneUsableToken
<1> QED BY <1>2

\* Revoking closes the families whose usable row is among the rows.
LEMMA RevokeCloses ==
  ASSUME IInv, NEW some \in SUBSET rows, rows' = Revoke(some)
  PROVE  \E ended \in SUBSET Families : Family!Close(ended)
<1> DEFINE ended == {f \in Families : Working(f)' # Working(f)}
<1>1. Opened' = Opened
  <2>1. \A new \in rows' : \E old \in rows : new.family = old.family
    BY RevokeLeaves DEF IInv
  <2>2. \A old \in rows : \E new \in rows' : new.family = old.family
    <3> SUFFICES ASSUME NEW old \in rows PROVE \E new \in rows' : new.family = old.family
      OBVIOUS
    <3>1. CASE old \in some
      <4>1. [old EXCEPT !.revoked = TRUE].family = old.family
        BY RevokedRow DEF IInv, TypeOK
      <4> QED BY <3>1, <4>1 DEF Revoke
    <3> QED BY <3>1 DEF Revoke
  <2> QED BY <2>1, <2>2 DEF Opened
<1>2. ASSUME NEW f \in Families
      PROVE  Working(f)' \subseteq Working(f)
  BY RevokeLeaves DEF IInv, Working
<1>3. ASSUME NEW f \in ended PROVE Working(f)' = {}
  BY <1>2, <1>3, AtMostOneWorks
<1>4. [f \in Families |-> Working(f)'] =
        [f \in Families |-> IF f \in ended THEN {} ELSE Working(f)]
  BY <1>3
<1>5. Family!Close(ended)
  BY <1>1, <1>4 DEF Family!Close, Opened
<1> QED BY <1>5

LEMMA LoginOpens ==
  ASSUME IInv, NEW u \in Users, NEW f \in Families, Login(u, f)
  PROVE  Family!Open(f)
<1>1. /\ rows' = rows \cup {NewRow(u, f)} /\ \A row \in rows : row.family # f
      /\ NewRow(u, f).family = f /\ NewRow(u, f).at = now /\ ~NewRow(u, f).revoked
      /\ now \in Instants
  BY NewRowType DEF IInv, TypeOK, Login
<1> HIDE DEF NewRow
<1>2. f \notin Opened /\ Opened' = Opened \cup {f}
  BY <1>1 DEF Opened
<1>3. ASSUME NEW g \in Families
      PROVE  Working(g)' = IF g = f THEN {now} ELSE Working(g)
  BY <1>1 DEF Working, Instants
<1>4. [g \in Families |-> Working(g)'] = [[g \in Families |-> Working(g)] EXCEPT ![f] = {now}]
  BY <1>3
<1> QED BY <1>1, <1>2, <1>4 DEF Family!Open, Opened

LEMMA RotateRotates ==
  ASSUME IInv, NEW row \in rows, Rotate(row)
  PROVE  \E f \in Families : Family!Rotate(f)
<1> DEFINE f == row.family
           new == NewRow(row.user, f)
           kept == Revoke({row})
<1>1. /\ row \in Row /\ f \in Families /\ row.at \in Instants /\ now \in Instants
      /\ ~row.revoked /\ row.at # now
      /\ rows' = kept \cup {new}
      /\ new.family = f /\ new.at = now /\ ~new.revoked
  BY NewRowType DEF IInv, TypeOK, Row, Rotate, Rotatable, Stored, IsFor, Issued
<1>2. \A r \in kept : \E old \in rows :
        /\ r.family = old.family /\ r.at = old.at
        /\ old = row => r.revoked
        /\ ~r.revoked => r = old
  BY RevokeLeaves DEF IInv
<1>3. \A old \in rows : old # row => old \in kept
  BY DEF Revoke
<1>4. [row EXCEPT !.revoked = TRUE] \in kept /\ [row EXCEPT !.revoked = TRUE].family = f
  BY <1>1, RevokedRow DEF Revoke
<1> HIDE DEF new, kept
<1>5. Opened' = Opened
  BY <1>1, <1>2, <1>3, <1>4 DEF Opened
<1>6. Working(f) = {row.at}
  BY <1>1, AtMostOneWorks DEF Working
<1>7. \A r \in kept : ~r.revoked => r \in rows /\ r.family # f
  BY <1>1, <1>2 DEF IInv, OneUsableToken
<1>8. ASSUME NEW g \in Families
      PROVE  Working(g)' = IF g = f THEN {now} ELSE Working(g)
  BY <1>1, <1>3, <1>7 DEF Working, Instants
<1>9. [g \in Families |-> Working(g)'] = [[g \in Families |-> Working(g)] EXCEPT ![f] = {now}]
  BY <1>8
<1>10. Family!Rotate(f)
  BY <1>1, <1>5, <1>6, <1>9 DEF Family!Rotate, Opened
<1> QED BY <1>1, <1>10

LEMMA MappedStep == IInv /\ [Next]_store => [Family!Next]_(Family!vars)
<1> SUFFICES ASSUME IInv, [Next]_store PROVE [Family!Next]_(Family!vars)
  OBVIOUS
<1> USE DEF Family!Next
<1>1. ASSUME NEW u \in Users, RevokeAllForUser(u) \/ Disable(u)
      PROVE  \E ended \in SUBSET Families : Family!Close(ended)
  <2>1. {row \in rows : row.user = u} \in SUBSET rows
    OBVIOUS
  <2> QED BY <1>1, <2>1, RevokeCloses DEF RevokeAllForUser, Disable
<1>2. ASSUME NEW token \in Token, Logout(token)
      PROVE  \E ended \in SUBSET Families : Family!Close(ended)
  <2>1. Stored(token) \in SUBSET rows
    BY DEF Stored
  <2> QED BY <1>2, <2>1, RevokeCloses DEF Logout
<1>3. ASSUME NEW u \in Users, NEW f \in Families, Login(u, f) PROVE Family!Open(f)
  BY <1>3, LoginOpens
<1>4. ASSUME NEW token \in Token, Refresh(token)
      PROVE  \E f \in Families : Family!Rotate(f)
  BY <1>4, RotateRotates DEF Refresh, Stored
<1>5. ASSUME UNCHANGED rows PROVE UNCHANGED Family!vars
  BY <1>5 DEF Family!vars, Working
<1>6. ASSUME NEW u \in Users, Enable(u) PROVE UNCHANGED rows
  BY <1>6 DEF Enable
<1>7. CASE Tick \/ UNCHANGED store
  BY <1>5, <1>7 DEF Tick, store
<1> QED BY <1>1, <1>2, <1>3, <1>4, <1>5, <1>6, <1>7 DEF Next, Administer

\* The transactions of AuthService and UserService keep the promise of
\* TokenFamilies: a family that lost its working token (logout, password change,
\* reset, disabling) never has one again.
THEOREM Refinement == Spec => FamilySpec
<1>1. Init => Family!Init
  BY MappedInit
<1>2. IInv /\ [Next]_store => [Family!Next]_(Family!vars)
  BY MappedStep
<1> QED BY <1>1, <1>2, Invariance, PTL DEF Spec, FamilySpec, Family!Spec

-----------------------------------------------------------------------------
(* The rows beside the browser: SessionsSpec.                               *)

\* A refresh has been posted for the call.
Posted == {"posted", "granted", "refused", "abandoned"}

CallInv ==
  \A c \in Calls :
    /\ call[c].pc # "idle" => call[c].tab \in Tabs
    /\ call[c].pc \in Posted => call[c].refresh \in Token
    /\ call[c].pc = "granted" => call[c].access \in Instants

\* Tokens the rows know, those somewhere in the browser, and those on their way to
\* it.
Known == {[family |-> row.family, at |-> row.at] : row \in rows}

Held ==
  Token \cap ({storage.refresh} \cup {memory[t].refresh : t \in Tabs}
                \cup {call[c].refresh : c \in Calls})

Granted == {c \in Calls : call[c].pc = "granted"}
Awaited == [c \in Granted |-> [family |-> call[c].refresh.family, at |-> call[c].access]]

\* A settled token is held nowhere and comes from nowhere; what is on its way is
\* held by nobody yet, and is on its way once.
SettledInv ==
  /\ Held \cup settled \subseteq Known
  /\ Held \cap settled = {}
  /\ \A c \in Granted : Awaited[c] \in Known \ (Held \cup settled)
  /\ \A c, d \in Granted : Awaited[c] = Awaited[d] => c = d

ClientInv == ClientTypeOK /\ CallInv /\ TokensComeInPairs
SessionsInv == IInv /\ ClientInv /\ SettledInv

-----------------------------------------------------------------------------
(* The rows.                                                               *)

\* Every step of the composition is a step of the rows, or none.
LEMMA StepsOfTheRows == ClientInv /\ [SessionsNext]_vars => [Next]_store
<1> SUFFICES ASSUME ClientInv, [SessionsNext]_vars PROVE [Next]_store
  OBVIOUS
<1> USE DEF ClientInv, ClientTypeOK
<1>1. ASSUME NEW c \in Calls, ApiCall(c) PROVE [Next]_store
  <2>1. CASE ServeRefresh(c)
    <3>1. call[c].refresh \in Token /\ Refresh(call[c].refresh)
      BY <2>1 DEF ServeRefresh, CallInv, Posted
    <3> QED BY <3>1 DEF Next
  <2>2. CASE ~ServeRefresh(c)
    BY <1>1, <2>2 DEF ApiCall, Send, PostRefresh, RefuseRefresh, LoseRefresh, StoreTokens,
       HandleAuthFailure
  <2> QED BY <2>1, <2>2
<1>2. ASSUME NEW t \in Tabs, TabStep(t) PROVE [Next]_store
  <2>1. CASE ServeLogout(t)
    <3>1. leaving[t] \in Token /\ Logout(leaving[t])
      BY <2>1 DEF ServeLogout
    <3> QED BY <3>1 DEF Next
  <2>2. CASE ChangePassword(t)
    <3>1. memory[t].user \in Users /\ RevokeAllForUser(memory[t].user)
      BY <2>2 DEF ChangePassword, Keys
    <3> QED BY <3>1 DEF Next, Administer
  <2>3. CASE \E u \in Users, f \in Families : LogIn(t, u, f)
    BY <2>3 DEF LogIn, Next
  <2>4. CASE Reload(t) \/ SelectHost(t) \/ AskLogout(t) \/ FinishLogout(t)
    BY <2>4 DEF Reload, SelectHost, AskLogout, FinishLogout
  <2> QED BY <1>2, <2>1, <2>2, <2>3, <2>4 DEF TabStep
<1>3. CASE Surroundings
  BY <1>3 DEF Surroundings, Next
<1>4. CASE UNCHANGED vars
  BY <1>4 DEF vars
<1> QED BY <1>1, <1>2, <1>3, <1>4 DEF SessionsNext

\* Revoking changes neither family nor second of a row.
LEMMA RevokeKnows ==
  ASSUME TypeOK, NEW some \in SUBSET rows
  PROVE  \A row \in rows : \E new \in Revoke(some) : new.family = row.family /\ new.at = row.at
<1> SUFFICES ASSUME NEW row \in rows
             PROVE  \E new \in Revoke(some) : new.family = row.family /\ new.at = row.at
  OBVIOUS
<1>1. CASE row \in some
  <2>1. LET new == [row EXCEPT !.revoked = TRUE] IN
        new.family = row.family /\ new.at = row.at
    BY RevokedRow DEF TypeOK
  <2> QED BY <1>1, <2>1 DEF Revoke
<1>2. CASE row \notin some
  BY <1>2 DEF Revoke
<1> QED BY <1>1, <1>2

LEMMA StillKnown == IInv /\ [Next]_store => Known \subseteq Known'
<1> SUFFICES ASSUME IInv, [Next]_store
             PROVE  \A row \in rows : \E new \in rows' : new.family = row.family /\ new.at = row.at
  BY DEF Known
<1> USE DEF IInv
<1>1. ASSUME NEW u \in Users, RevokeAllForUser(u) \/ Disable(u)
      PROVE  \A row \in rows : \E new \in rows' : new.family = row.family /\ new.at = row.at
  <2>1. {row \in rows : row.user = u} \in SUBSET rows
    OBVIOUS
  <2> QED BY <1>1, <2>1, RevokeKnows DEF RevokeAllForUser, Disable
<1>2. ASSUME NEW token \in Token, Logout(token)
      PROVE  \A row \in rows : \E new \in rows' : new.family = row.family /\ new.at = row.at
  <2>1. Stored(token) \in SUBSET rows
    BY DEF Stored
  <2> QED BY <1>2, <2>1, RevokeKnows DEF Logout
<1>3. ASSUME NEW token \in Token, Refresh(token)
      PROVE  \A row \in rows : \E new \in rows' : new.family = row.family /\ new.at = row.at
  <2>1. PICK used \in rows : rows' = Revoke({used}) \cup {NewRow(used.user, used.family)}
    BY <1>3 DEF Refresh, Stored, Rotate
  <2>2. {used} \in SUBSET rows
    OBVIOUS
  <2> QED BY <2>1, <2>2, RevokeKnows
<1>4. ASSUME NEW u \in Users, NEW f \in Families, Login(u, f)
      PROVE  \A row \in rows : \E new \in rows' : new.family = row.family /\ new.at = row.at
  BY <1>4 DEF Login
<1>5. CASE UNCHANGED rows
  BY <1>5
<1> QED BY <1>1, <1>2, <1>3, <1>4, <1>5 DEF Next, Administer, Enable, Tick, store

-----------------------------------------------------------------------------
(* The browser.                                                            *)

LEMMA Nobody ==
  /\ Nothing \in Keys /\ OneGrant(Nothing) /\ Idle \in Call
  /\ Idle.pc = "idle" /\ Idle.refresh = None /\ Nothing.refresh = None
  BY NoneAssumption DEF Nothing, Keys, OneGrant, Idle, Call, CallPC

\* What a reload leaves of the calls.
LEMMA DroppedCalls ==
  ASSUME ClientInv, NEW t \in Tabs
  PROVE  /\ Dropped(t) \in [Calls -> Call]
         /\ \A c \in Calls :
              \/ Dropped(t)[c] = call[c]
              \/ Dropped(t)[c] = Idle
              \/ /\ call[c].pc \in {"posted", "abandoned"}
                 /\ Dropped(t)[c] = [call[c] EXCEPT !.pc = "abandoned"]
  BY Nobody DEF Dropped, ClientInv, ClientTypeOK, Call, CallPC

\* A page is loaded with what a state of the browser may hold.
LEMMA LoadKeeps ==
  ASSUME ClientInv, NEW t \in Tabs, NEW keys \in Keys, OneGrant(keys), LoadPage(t, keys),
         storage' \in {storage, Nothing}, settled' = settled
  PROVE  ClientInv'
<1> USE DEF ClientInv, ClientTypeOK, LoadPage
<1>1. call' \in [Calls -> Call] /\ CallInv'
  <2>1. call' = Dropped(t)
    OBVIOUS
  <2>2. ASSUME NEW c \in Calls, call[c].pc \in {"posted", "abandoned"}
        PROVE  LET new == [call[c] EXCEPT !.pc = "abandoned"] IN
               new.pc = "abandoned" /\ new.tab = call[c].tab /\ new.refresh = call[c].refresh
    BY <2>2 DEF Call
  <2>3. CallInv'
    <3> SUFFICES ASSUME NEW c \in Calls
                 PROVE  /\ call'[c].pc # "idle" => call'[c].tab \in Tabs
                        /\ call'[c].pc \in Posted => call'[c].refresh \in Token
                        /\ call'[c].pc = "granted" => call'[c].access \in Instants
      BY DEF CallInv
    <3>1. CASE call'[c] = call[c]
      BY <3>1 DEF CallInv
    <3>2. CASE call'[c] = Idle
      BY <3>2, Nobody DEF Posted
    <3>3. CASE /\ call[c].pc \in {"posted", "abandoned"}
               /\ call'[c] = [call[c] EXCEPT !.pc = "abandoned"]
      BY <2>2, <3>3 DEF CallInv, Posted
    <3> QED BY <2>1, <3>1, <3>2, <3>3, DroppedCalls
  <2> QED BY <2>1, <2>3, DroppedCalls
<1>2. ClientTypeOK'
  BY <1>1, Nobody
<1>3. TokensComeInPairs'
  BY Nobody DEF TokensComeInPairs, OneGrant
<1> QED BY <1>1, <1>2, <1>3

\* All that a save needs is that its tokens are of one grant.
LEMMA SaveKeeps ==
  ASSUME ClientInv, NEW t \in Tabs, NEW keys \in Keys, OneGrant(keys), Save(t, keys),
         screen' \in [Tabs -> {"login", "app"}], leaving' \in [Tabs -> Token \cup {None}],
         call' \in [Calls -> Call], CallInv', settled' \subseteq Token
  PROVE  ClientInv'
<1> USE DEF ClientInv, ClientTypeOK, Save
<1>1. ClientTypeOK'
  OBVIOUS
<1>2. TokensComeInPairs'
  BY DEF TokensComeInPairs, OneGrant
<1> QED BY <1>1, <1>2

\* Only one call moves.
LEMMA MoveKeeps ==
  ASSUME ClientInv, NEW c \in Calls, NEW new \in Call, call' = [call EXCEPT ![c] = new],
         new.pc # "idle" => new.tab \in Tabs,
         new.pc \in Posted => new.refresh \in Token,
         new.pc = "granted" => new.access \in Instants
  PROVE  call' \in [Calls -> Call] /\ CallInv'
  BY DEF ClientInv, ClientTypeOK, CallInv

LEMMA MoveAloneKeeps ==
  ASSUME ClientInv, call' \in [Calls -> Call], CallInv',
         UNCHANGED <<memory, storage, screen, leaving, settled>>
  PROVE  ClientInv'
  BY DEF ClientInv, ClientTypeOK, TokensComeInPairs, OneGrant

\* Moving a call that has its token leaves it that token.
LEMMA GoKeeps ==
  ASSUME ClientInv, NEW c \in Calls, NEW pc \in CallPC, Go(c, pc),
         call[c].pc \in Posted, pc # "granted"
  PROVE  call' \in [Calls -> Call] /\ CallInv'
  BY DEF ClientInv, ClientTypeOK, CallInv, Go, Call, CallPC, Posted

LEMMA ApiCallKeeps ==
  ASSUME IInv, ClientInv, NEW c \in Calls, ApiCall(c)
  PROVE  ClientInv'
<1> USE DEF ClientInv, ClientTypeOK
<1>0. call[c] \in Call /\ (call[c].pc # "idle" => call[c].tab \in Tabs)
      /\ (call[c].pc \in Posted => call[c].refresh \in Token)
  BY DEF CallInv
<1>1. ASSUME NEW t \in Tabs, Send(c, t) PROVE ClientInv'
  <2>1. [Idle EXCEPT !.pc = "sent", !.tab = t] \in Call
    BY DEF Idle, Call, CallPC
  <2>2. call' \in [Calls -> Call] /\ CallInv'
    BY <1>1, <2>1, MoveKeeps DEF Send, Idle, Posted
  <2> QED BY <1>1, <2>2, MoveAloneKeeps DEF Send
<1>2. CASE PostRefresh(c)
  <2>1. call' \in [Calls -> Call] /\ CallInv'
    <3>1. CASE memory[call[c].tab].refresh = None
      BY <1>2, <3>1, Nobody, MoveKeeps DEF PostRefresh, Posted
    <3>2. CASE memory[call[c].tab].refresh # None
      <4>1. memory[call[c].tab].refresh \in Token
        BY <1>0, <1>2, <3>2 DEF PostRefresh, Keys
      <4>2. [call[c] EXCEPT !.pc = "posted", !.refresh = memory[call[c].tab].refresh] \in Call
        BY <1>0, <4>1 DEF Call, CallPC
      <4> QED BY <1>0, <1>2, <3>2, <4>1, <4>2, MoveKeeps DEF PostRefresh, Call
    <3> QED BY <3>1, <3>2
  <2> QED BY <1>2, <2>1, MoveAloneKeeps DEF PostRefresh
<1>3. CASE ServeRefresh(c)
  <2>1. call' \in [Calls -> Call] /\ CallInv'
    <3>1. CASE call[c].pc = "abandoned"
      BY <1>3, <3>1, Nobody, MoveKeeps DEF ServeRefresh, Posted
    <3>2. CASE call[c].pc # "abandoned"
      <4>1. [call[c] EXCEPT !.pc = "granted", !.access = now] \in Call /\ now \in Instants
        BY <1>0 DEF IInv, TypeOK, Call, CallPC
      <4> QED BY <1>0, <1>3, <3>2, <4>1, MoveKeeps DEF ServeRefresh, Call, Posted
    <3> QED BY <3>1, <3>2
  <2> QED BY <1>3, <2>1, MoveAloneKeeps DEF ServeRefresh
<1>4. CASE RefuseRefresh(c) \/ LoseRefresh(c)
  <2>1. call' \in [Calls -> Call] /\ CallInv'
    <3>1. CASE call[c].pc = "abandoned"
      BY <1>4, <3>1, Nobody, MoveKeeps DEF RefuseRefresh, LoseRefresh, Posted
    <3>2. CASE call[c].pc # "abandoned"
      BY <1>4, <3>2, GoKeeps DEF RefuseRefresh, LoseRefresh, Posted, CallPC
    <3> QED BY <3>1, <3>2
  <2> QED BY <1>4, <2>1, MoveAloneKeeps DEF RefuseRefresh, LoseRefresh
<1>5. CASE StoreTokens(c)
  <2> DEFINE t == call[c].tab
             old == call[c].refresh
             new == [memory[t] EXCEPT !.access = call[c].access,
                                      !.refresh = [old EXCEPT !.at = call[c].access]]
  <2>1. t \in Tabs /\ old \in Token /\ call[c].access \in Instants
    BY <1>0, <1>5 DEF StoreTokens, CallInv, Posted
  <2>2. [old EXCEPT !.at = call[c].access] \in Token
        /\ [old EXCEPT !.at = call[c].access].at = call[c].access
    BY <2>1 DEF Token
  <2>3. new \in Keys /\ OneGrant(new)
    <3>1. memory[t] \in Keys
      BY <2>1
    <3>2. new \in Keys /\ new.access = call[c].access /\ new.refresh = [old EXCEPT !.at = call[c].access]
      BY <2>1, <2>2, <3>1 DEF Keys
    <3> QED BY <2>1, <2>2, <3>2, NoneAssumption DEF OneGrant
  <2>4. call' \in [Calls -> Call] /\ CallInv'
    BY <1>5, Nobody, MoveKeeps DEF StoreTokens, Posted
  <2>5. settled' \subseteq Token
    BY <1>5, <2>1 DEF StoreTokens
  <2>6. Save(t, new) /\ UNCHANGED <<screen, leaving>>
    BY <1>5 DEF StoreTokens
  <2> HIDE DEF t, new
  <2> QED BY <2>1, <2>3, <2>4, <2>5, <2>6, SaveKeeps
<1>6. CASE HandleAuthFailure(c)
  BY <1>0, <1>6, Nobody, LoadKeeps DEF HandleAuthFailure
<1> QED BY <1>1, <1>2, <1>3, <1>4, <1>5, <1>6 DEF ApiCall

LEMMA TabStepKeeps ==
  ASSUME IInv, ClientInv, NEW t \in Tabs, TabStep(t)
  PROVE  ClientInv'
<1> USE DEF ClientInv, ClientTypeOK
<1>0. /\ storage \in Keys /\ memory[t] \in Keys
      /\ OneGrant(storage) /\ OneGrant(memory[t])
  BY DEF TokensComeInPairs
<1>1. CASE Reload(t)
  BY <1>0, <1>1, LoadKeeps DEF Reload
<1>2. CASE SelectHost(t)
  <2>1. CallInv'
    BY <1>2 DEF SelectHost, CallInv
  <2> QED BY <1>0, <1>2, <2>1, SaveKeeps DEF SelectHost
<1>3. CASE AskLogout(t)
  BY <1>3 DEF AskLogout, Keys, CallInv, TokensComeInPairs, OneGrant
<1>4. CASE FinishLogout(t)
  <2>1. CallInv'
    BY <1>4 DEF FinishLogout, CallInv
  <2> QED BY <1>4, <2>1, Nobody, SaveKeeps DEF FinishLogout
<1>5. CASE ServeLogout(t) \/ ChangePassword(t)
  BY <1>5 DEF ServeLogout, ChangePassword, client, CallInv, TokensComeInPairs, OneGrant
<1>6. ASSUME NEW u \in Users, NEW f \in Families, LogIn(t, u, f) PROVE ClientInv'
  <2> DEFINE keys == [access |-> now, refresh |-> Issued(f), user |-> u]
  <2>1. keys \in Keys /\ OneGrant(keys)
    <3>1. now \in Instants /\ Issued(f) \in Token /\ Issued(f).at = now
      BY DEF IInv, TypeOK, Issued, Token
    <3> QED BY <3>1, NoneAssumption DEF Keys, OneGrant
  <2>2. CallInv'
    BY <1>6 DEF LogIn, CallInv
  <2>3. Save(t, keys) /\ UNCHANGED <<leaving, call, settled>>
        /\ screen' \in [Tabs -> {"login", "app"}]
    BY <1>6 DEF LogIn
  <2> HIDE DEF keys
  <2> QED BY <2>1, <2>2, <2>3, SaveKeeps
<1> QED BY <1>1, <1>2, <1>3, <1>4, <1>5, <1>6 DEF TabStep

LEMMA ClientKeeps ==
  ASSUME IInv, ClientInv, [SessionsNext]_vars
  PROVE  ClientInv'
<1>1. CASE Surroundings \/ UNCHANGED vars
  BY <1>1 DEF Surroundings, vars, client, ClientInv, ClientTypeOK, CallInv, TokensComeInPairs,
     OneGrant
<1> QED BY <1>1, ApiCallKeeps, TabStepKeeps DEF SessionsNext

-----------------------------------------------------------------------------
(* What is settled.                                                        *)

\* What a refresh will store.
LEMMA AwaitedIsToken ==
  ASSUME ClientInv, NEW c \in Granted
  PROVE  /\ Awaited[c] \in Token
         /\ [call[c].refresh EXCEPT !.at = call[c].access] = Awaited[c]
<1>1. c \in Calls /\ call[c].refresh \in Token /\ call[c].access \in Instants
  BY DEF ClientInv, CallInv, Granted, Posted
<1>2. Awaited[c] = [family |-> call[c].refresh.family, at |-> call[c].access]
  BY DEF Awaited
<1> QED BY <1>1, <1>2 DEF Token

\* A step that brings no token into the browser and puts none on its way: whatever a
\* page load, a host selection or an ended call puts anywhere was somewhere.
LEMMA QuietKeeps ==
  ASSUME ClientInv, SettledInv, Known \subseteq Known',
         \A t \in Tabs : memory'[t].refresh \in {memory[t].refresh, storage.refresh, None},
         storage'.refresh \in {storage.refresh, None} \cup {memory[t].refresh : t \in Tabs},
         \A c \in Calls :
           \/ call'[c] = call[c]
           \/ /\ call'[c].pc # "granted"
              /\ call'[c].refresh \in {call[c].refresh, None} \cup {memory[t].refresh : t \in Tabs},
         settled' = settled
  PROVE  SettledInv'
<1>1. Held' \subseteq Held
  BY NoneAssumption DEF Held
<1>2. Granted' \subseteq Granted /\ \A c \in Granted' : Awaited'[c] = Awaited[c]
  BY DEF Granted, Awaited
<1> QED BY <1>1, <1>2 DEF SettledInv

\* A reload leaves a call as it was, or one that waits for nothing.
LEMMA LoadedCalls ==
  ASSUME ClientInv, NEW t \in Tabs
  PROVE  \A c \in Calls :
           \/ Dropped(t)[c] = call[c]
           \/ Dropped(t)[c].pc # "granted" /\ Dropped(t)[c].refresh \in {call[c].refresh, None}
<1>1. \A c \in Calls : LET new == [call[c] EXCEPT !.pc = "abandoned"] IN
                       new.pc = "abandoned" /\ new.refresh = call[c].refresh
  BY DEF ClientInv, ClientTypeOK, Call
<1> QED BY <1>1, DroppedCalls, Nobody

\* The family is new, and so is its token.
LEMMA LogInSettles ==
  ASSUME IInv, ClientInv, SettledInv, Known \subseteq Known',
         NEW t \in Tabs, NEW u \in Users, NEW f \in Families, LogIn(t, u, f)
  PROVE  SettledInv'
<1>1. /\ now \in Instants /\ \A row \in rows : row.family # f
      /\ rows' = rows \cup {[user |-> u, family |-> f, at |-> now, revoked |-> FALSE]}
  BY DEF IInv, TypeOK, LogIn, Login, NewRow
<1>2. PICK new \in Token : new = [family |-> f, at |-> now]
  BY <1>1 DEF Token
<1>3. new \in Known' \ Known
  BY <1>1, <1>2 DEF Known
<1>4. /\ memory' = [memory EXCEPT ![t] = [access |-> now, refresh |-> new, user |-> u]]
      /\ storage'.refresh = new /\ UNCHANGED <<call, settled>>
  BY <1>2 DEF LogIn, Save, Issued
<1>5. Held' \subseteq Held \cup {new}
  BY <1>4 DEF Held, ClientInv, ClientTypeOK
<1>6. Granted' = Granted /\ Awaited' = Awaited
  BY <1>4 DEF Granted, Awaited
<1> QED BY <1>3, <1>4, <1>5, <1>6 DEF SettledInv

\* The answer carries a token of a second in which its family had none.
LEMMA RefreshSettles ==
  ASSUME IInv, ClientInv, SettledInv, Known \subseteq Known',
         NEW c \in Calls, ServeRefresh(c), call[c].pc = "posted"
  PROVE  SettledInv'
<1>1. /\ call[c].refresh \in Token /\ call[c] \in Call /\ now \in Instants
  BY DEF IInv, TypeOK, ClientInv, ClientTypeOK, CallInv, Posted
<1>2. PICK new \in Token : new = [family |-> call[c].refresh.family, at |-> now]
  BY <1>1 DEF Token
<1>3. new \in Known' \ Known
  <2>1. PICK row \in Stored(call[c].refresh) : Rotate(row)
    BY DEF ServeRefresh, Refresh
  <2>2. /\ row.family = new.family /\ Stored(Issued(row.family)) = {}
        /\ NewRow(row.user, row.family) \in rows'
    BY <1>2, <2>1 DEF Stored, IsFor, Rotate, Rotatable
  <2>3. \A r \in rows : ~(r.family = new.family /\ r.at = new.at)
    BY <1>2, <2>2 DEF Stored, IsFor, Issued
  <2>4. /\ NewRow(row.user, row.family).family = new.family
        /\ NewRow(row.user, row.family).at = new.at
    BY <1>2, <2>2 DEF NewRow
  <2>5. new = [family |-> new.family, at |-> new.at]
    BY <1>2
  <2> QED BY <2>2, <2>3, <2>4, <2>5 DEF Known
<1>4. /\ call' = [call EXCEPT ![c] = [@ EXCEPT !.pc = "granted", !.access = now]]
      /\ UNCHANGED <<memory, storage, settled>>
  BY DEF ServeRefresh
<1>5. /\ call'[c].refresh = call[c].refresh /\ call'[c].access = now
      /\ \A d \in Calls \ {c} : call'[d] = call[d]
  BY <1>1, <1>4 DEF ClientInv, ClientTypeOK, Call
<1>6. Held' = Held
  BY <1>4, <1>5 DEF Held
<1>7. \A d \in Granted' : \/ d = c /\ Awaited'[d] = new
                          \/ d # c /\ d \in Granted /\ Awaited'[d] = Awaited[d]
  BY <1>2, <1>5 DEF Granted, Awaited
<1> QED BY <1>3, <1>4, <1>6, <1>7 DEF SettledInv

\* The token that is stored was nowhere; the one it replaces is nowhere else when
\* it is settled.
LEMMA StoreSettles ==
  ASSUME ClientInv, SettledInv, Known \subseteq Known', NEW c \in Calls, StoreTokens(c)
  PROVE  SettledInv'
<1> DEFINE t == call[c].tab
           keys == [memory[t] EXCEPT !.access = call[c].access,
                      !.refresh = [call[c].refresh EXCEPT !.at = call[c].access]]
<1>1. /\ c \in Granted /\ t \in Tabs /\ call[c].refresh \in Token /\ memory[t] \in Keys
  BY DEF StoreTokens, Granted, ClientInv, ClientTypeOK, CallInv, Posted
<1>2. PICK new \in Token : new = Awaited[c]
  BY <1>1, AwaitedIsToken
<1>3. keys.refresh = new
  BY <1>1, <1>2, AwaitedIsToken DEF Keys
<1>4. /\ storage'.refresh = new /\ memory'[t].refresh = new
      /\ \A u \in Tabs \ {t} : memory'[u] = memory[u]
      /\ call'[c] = Idle /\ \A d \in Calls \ {c} : call'[d] = call[d]
  BY <1>1, <1>3 DEF StoreTokens, Save, ClientInv, ClientTypeOK
<1>5. Held' \subseteq Held \cup {new}
  BY <1>4, Nobody, NoneAssumption DEF Held
<1>6. Granted' = Granted \ {c} /\ \A d \in Granted' : Awaited'[d] = Awaited[d]
  BY <1>4, Nobody DEF Granted, Awaited
<1>7. call[c].refresh \in Held
  BY <1>1 DEF Held
<1>8. \/ settled' = settled
      \/ /\ settled' = settled \cup {call[c].refresh}
         /\ ~HeldElsewhere(call[c].refresh, c)
  BY DEF StoreTokens
<1>9. ASSUME ~HeldElsewhere(call[c].refresh, c) PROVE call[c].refresh \notin Held'
  <2>1. call[c].refresh # new /\ call[c].refresh # None
    BY <1>1, <1>2, <1>7, NoneAssumption DEF SettledInv
  <2>2. /\ \A u \in Tabs \ {t} : memory[u].refresh # call[c].refresh
        /\ \A d \in Calls \ {c} : call[d].refresh # call[c].refresh
    BY <1>9 DEF HeldElsewhere
  <2> HIDE DEF t
  <2> QED BY <1>4, <2>1, <2>2, Nobody DEF Held
<1>10. Held' \cap settled' = {}
  BY <1>1, <1>2, <1>5, <1>8, <1>9 DEF SettledInv
<1> HIDE DEF t, keys
<1> QED BY <1>1, <1>2, <1>5, <1>6, <1>7, <1>8, <1>10 DEF SettledInv

LEMMA SettledKeeps ==
  ASSUME SessionsInv, [SessionsNext]_vars
  PROVE  SettledInv'
<1> USE DEF SessionsInv
<1>0. Known \subseteq Known' /\ call \in [Calls -> Call] /\ memory \in [Tabs -> Keys]
  BY StepsOfTheRows, StillKnown DEF ClientInv, ClientTypeOK
<1>1. ASSUME NEW c \in Calls, ApiCall(c) PROVE SettledInv'
  <2>1. CASE \E t \in Tabs : Send(c, t)
    <3>1. \A t \in Tabs : LET new == [Idle EXCEPT !.pc = "sent", !.tab = t] IN
                          new.pc = "sent" /\ new.refresh = None
      BY DEF Idle
    <3> QED BY <1>0, <2>1, <3>1, QuietKeeps DEF Send
  <2>2. CASE PostRefresh(c)
    <3>1. LET new == [call[c] EXCEPT !.pc = "posted", !.refresh = memory[call[c].tab].refresh]
          IN  new.pc = "posted" /\ new.refresh = memory[call[c].tab].refresh
      BY <1>0 DEF Call
    <3>2. call[c].tab \in Tabs
      BY <2>2 DEF ClientInv, CallInv, PostRefresh
    <3> QED BY <1>0, <2>2, <3>1, <3>2, Nobody, QuietKeeps DEF PostRefresh
  <2>3. CASE ServeRefresh(c) /\ call[c].pc = "posted"
    BY <1>0, <2>3, RefreshSettles
  <2>4. CASE ServeRefresh(c) /\ call[c].pc = "abandoned"
    BY <1>0, <2>4, Nobody, QuietKeeps DEF ServeRefresh
  <2>5. CASE RefuseRefresh(c) \/ LoseRefresh(c)
    <3>1. LET new == [call[c] EXCEPT !.pc = "refused"]
          IN  new.pc = "refused" /\ new.refresh = call[c].refresh
      BY <1>0 DEF Call
    <3> QED BY <1>0, <2>5, <3>1, Nobody, QuietKeeps DEF RefuseRefresh, LoseRefresh, Go
  <2>6. CASE StoreTokens(c)
    BY <1>0, <2>6, StoreSettles
  <2>7. CASE HandleAuthFailure(c)
    <3>1. \E t \in Tabs : memory' = [memory EXCEPT ![t] = Nothing] /\ call' = Dropped(t)
      BY <2>7 DEF HandleAuthFailure, LoadPage, ClientInv, CallInv
    <3>2. storage' = Nothing /\ settled' = settled
      BY <2>7 DEF HandleAuthFailure
    <3> QED BY <1>0, <3>1, <3>2, LoadedCalls, Nobody, QuietKeeps
  <2> QED BY <1>1, <2>1, <2>2, <2>3, <2>4, <2>5, <2>6, <2>7 DEF ApiCall, ServeRefresh
<1>2. ASSUME NEW t \in Tabs, TabStep(t) PROVE SettledInv'
  <2>1. CASE Reload(t)
    BY <1>0, <2>1, LoadedCalls, QuietKeeps DEF Reload, LoadPage
  <2>2. CASE SelectHost(t)
    BY <1>0, <2>2, QuietKeeps DEF SelectHost, Save
  <2>3. CASE FinishLogout(t)
    BY <1>0, <2>3, Nobody, QuietKeeps DEF FinishLogout, Save
  <2>4. CASE AskLogout(t) \/ ServeLogout(t) \/ ChangePassword(t)
    BY <1>0, <2>4, QuietKeeps DEF AskLogout, ServeLogout, ChangePassword, client
  <2>5. ASSUME NEW u \in Users, NEW f \in Families, LogIn(t, u, f) PROVE SettledInv'
    BY <1>0, <2>5, LogInSettles
  <2> QED BY <1>2, <2>1, <2>2, <2>3, <2>4, <2>5 DEF TabStep
<1>3. CASE Surroundings \/ UNCHANGED vars
  BY <1>0, <1>3, QuietKeeps DEF Surroundings, vars, client
<1> QED BY <1>1, <1>2, <1>3 DEF SessionsNext

-----------------------------------------------------------------------------
LEMMA SessionsInvInit == SessionsInit => SessionsInv
<1> SUFFICES ASSUME SessionsInit PROVE SessionsInv
  OBVIOUS
<1>1. IInv
  BY IInvInit DEF SessionsInit
<1>2. ClientInv
  BY Nobody DEF SessionsInit, ClientInv, ClientTypeOK, CallInv, TokensComeInPairs, Posted
<1>3. Held = {} /\ Granted = {} /\ settled = {}
  BY Nobody, NoneAssumption DEF SessionsInit, Held, Granted
<1> QED BY <1>1, <1>2, <1>3 DEF SessionsInv, SettledInv

LEMMA SessionsInvStep == SessionsInv /\ [SessionsNext]_vars => SessionsInv'
<1> SUFFICES ASSUME SessionsInv, [SessionsNext]_vars PROVE SessionsInv'
  OBVIOUS
<1>1. IInv'
  BY StepsOfTheRows, IInvStep DEF SessionsInv
<1>2. ClientInv'
  BY ClientKeeps DEF SessionsInv
<1> QED BY <1>1, <1>2, SettledKeeps DEF SessionsInv

\* The inductive invariant of rows and browser together.
THEOREM SessionsInvariance == SessionsSpec => []SessionsInv
  BY SessionsInvInit, SessionsInvStep, PTL DEF SessionsSpec

\* Whatever the tabs do, they do to the rows only what RefreshTokens allows: what is
\* proved of it holds beside any number of tabs and calls.
THEOREM RowsBesideTabs == SessionsSpec => Spec
<1>1. SessionsInit => Init
  BY DEF SessionsInit
<1>2. SessionsInv /\ [SessionsNext]_vars => [Next]_store
  BY StepsOfTheRows DEF SessionsInv
<1> QED BY <1>1, <1>2, SessionsInvariance, PTL DEF SessionsSpec, Spec

\* Rows, tabs, localStorage and calls keep their types.
THEOREM SessionsTypeCorrect == SessionsSpec => []SessionsTypeOK
<1>1. SessionsInv => SessionsTypeOK
  BY DEF SessionsInv, IInv, ClientInv, SessionsTypeOK
<1> QED BY <1>1, SessionsInvariance, PTL

\* No order of refreshes, logins, logouts, reloads and saves of any number of tabs
\* leaves an access token of one grant with the refresh token of another.
THEOREM TokensPair == SessionsSpec => []TokensComeInPairs
<1>1. SessionsInv => TokensComeInPairs
  BY DEF SessionsInv, ClientInv
<1> QED BY <1>1, SessionsInvariance, PTL

\* A tab whose refresh is refused, and which throws its tokens away, was refused a
\* token that is not settled: if the family is alive, another tab or call had the
\* token when its successor was stored, or the successor was lost.
THEOREM LiveSessionsLast == SessionsSpec => OnlyARaceOrALossEndsALiveSession
<1>1. SessionsInv /\ [SessionsNext]_vars =>
        [\A c \in Calls :
           HandleAuthFailure(c) /\ LiveFamily(call[c].refresh.family)
             => call[c].refresh \notin settled]_vars
  <2> SUFFICES ASSUME SessionsInv, NEW c \in Calls, HandleAuthFailure(c)
               PROVE  call[c].refresh \notin settled
    OBVIOUS
  <2>1. call[c].refresh \in Held
    BY DEF SessionsInv, ClientInv, CallInv, HandleAuthFailure, Posted, Held
  <2> QED BY <2>1 DEF SessionsInv, SettledInv
<1> QED BY <1>1, SessionsInvariance, PTL DEF SessionsSpec, OnlyARaceOrALossEndsALiveSession
=============================================================================
