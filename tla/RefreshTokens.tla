---------------------------- MODULE RefreshTokens ----------------------------
(***************************************************************************)
(* AuthService and UserService on the rows of refresh_tokens: login,       *)
(* rotation, logout, and everything that revokes all tokens of a user.     *)
(*                                                                         *)
(* Each operation is one transaction on the pool's one connection, so it   *)
(* is one step.  A refresh token is a JWT with the user, the family and    *)
(* its instant of issue in seconds and nothing else: two tokens of one     *)
(* family made in the same second are the same token, with the same hash.  *)
(* Time is counted in such seconds.                                        *)
(***************************************************************************)
EXTENDS Integers

CONSTANTS Users,
          Families,      \* bound: the UUIDs logins may draw
          AccessLife,    \* lifetime of an access token
          RefreshLife,   \* lifetime of a refresh token
          MaxTime        \* bound: the last second looked at

ASSUME TokenAssumption ==
  AccessLife \in Nat /\ RefreshLife \in Nat /\ MaxTime \in Nat

VARIABLES
  rows,      \* refresh_tokens
  enabled,   \* User.enabled
  now

store == <<rows, enabled, now>>

Instants == 0 .. MaxTime
Token == [family : Families, at : Instants]
Row == [user : Users, family : Families, at : Instants, revoked : BOOLEAN]

TypeOK ==
  /\ rows \subseteq Row
  /\ enabled \in [Users -> BOOLEAN]
  /\ now \in Instants

Init ==
  /\ rows = {}
  /\ enabled = [u \in Users |-> TRUE]
  /\ now = 0

\* findByTokenHash
IsFor(row, token) == row.family = token.family /\ row.at = token.at
Stored(token) == {row \in rows : IsFor(row, token)}

\* A mutant: the row is kept under the instant it expires.
NewRow_Expiry(u, f) == [user |-> u, family |-> f, at |-> now + RefreshLife, revoked |-> FALSE]

\* What hash the new row gets is the token's: tokenHash is unique.
NewRow(u, f) == [user |-> u, family |-> f, at |-> now, revoked |-> FALSE]

Issued(f) == [family |-> f, at |-> now]

Revoke(some) ==
  {[row EXCEPT !.revoked = TRUE] : row \in some} \cup (rows \ some)

AccessValid(at) == now <= at + AccessLife
Expired(at) == at + RefreshLife < now

-----------------------------------------------------------------------------
\* A login draws a fresh UUID as its family.
Login(u, f) ==
  /\ enabled[u]
  /\ \A row \in rows : row.family # f
  /\ rows' = rows \cup {NewRow(u, f)}
  /\ UNCHANGED <<enabled, now>>

\* A mutant: a token that was used may be used again.
Rotatable_Reuse(row) ==
  /\ ~Expired(row.at)
  /\ enabled[row.user]
  /\ Stored(Issued(row.family)) = {}

\* The checks of refresh, and the unique hash of the row it inserts.
Rotatable(row) ==
  /\ ~row.revoked
  /\ ~Expired(row.at)
  /\ enabled[row.user]
  /\ Stored(Issued(row.family)) = {}

\* Everything else throws, and the transaction rolls back what it had done:
\* revokeFamily for a token that was used before too.
Refusable(token) == \A row \in Stored(token) : ~Rotatable(row)

\* A mutant: the old token is left as it is.
Rotate_Keep(row) ==
  /\ Rotatable(row)
  /\ rows' = rows \cup {NewRow(row.user, row.family)}
  /\ UNCHANGED <<enabled, now>>

Rotate(row) ==
  /\ Rotatable(row)
  /\ rows' = Revoke({row}) \cup {NewRow(row.user, row.family)}
  /\ UNCHANGED <<enabled, now>>

Refresh(token) == \E row \in Stored(token) : Rotate(row)

\* Only the token it is given, and nothing if it has no row.
Logout(token) ==
  /\ rows' = Revoke(Stored(token))
  /\ UNCHANGED <<enabled, now>>

\* revokeAllForUser: changePassword, logoutAll, resetPassword.
RevokeAllForUser(u) ==
  /\ rows' = Revoke({row \in rows : row.user = u})
  /\ UNCHANGED <<enabled, now>>

\* A mutant: disabling leaves the sessions to run out.
Disable_Only(u) ==
  /\ enabled' = [enabled EXCEPT ![u] = FALSE]
  /\ UNCHANGED <<rows, now>>

\* updateUser with enabled in the request.
Disable(u) ==
  /\ enabled' = [enabled EXCEPT ![u] = FALSE]
  /\ rows' = Revoke({row \in rows : row.user = u})
  /\ UNCHANGED now

Enable(u) ==
  /\ enabled' = [enabled EXCEPT ![u] = TRUE]
  /\ UNCHANGED <<rows, now>>

Tick ==
  /\ now < MaxTime
  /\ now' = now + 1
  /\ UNCHANGED <<rows, enabled>>

Administer(u) == RevokeAllForUser(u) \/ Disable(u) \/ Enable(u)

Next ==
  \/ \E u \in Users : Administer(u) \/ \E f \in Families : Login(u, f)
  \/ \E token \in Token : Refresh(token) \/ Logout(token)
  \/ Tick

Spec == Init /\ [][Next]_store

-----------------------------------------------------------------------------
Working(f) == {t \in Instants : \E row \in rows : row.family = f /\ row.at = t /\ ~row.revoked}

\* Whatever tokens are presented, in any order and however often, a login has
\* at most one refresh token that is not revoked (refresh, logout).
OneUsableToken ==
  \A r, s \in rows : r.family = s.family /\ ~r.revoked /\ ~s.revoked => r = s

\* No refresh that was under way leaves a disabled user with a token that
\* works again once the user is enabled (updateUser, refresh, login).
DisabledHasNoToken ==
  \A row \in rows : ~enabled[row.user] => row.revoked

\* The rows keep the promise of TokenFamilies: in particular a family whose
\* token was revoked by logout, or for the user, never gets a working one again.
Family == INSTANCE TokenFamilies WITH
            opened <- {row.family : row \in rows},
            working <- [f \in Families |-> Working(f)]

FamilySpec == Family!Spec
=============================================================================
