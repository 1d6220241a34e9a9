---------------------------- MODULE TokenFamilies ----------------------------
(***************************************************************************)
(* What rotating refresh tokens promise of a login: the family it opens    *)
(* has one token that works, each use replaces it by another, and once the *)
(* family is closed nothing reopens it.                                    *)
(***************************************************************************)
CONSTANTS Families, Instants

VARIABLES opened,   \* families a login has begun
          working   \* the instants whose token of the family still works

vars == <<opened, working>>

Init ==
  /\ opened = {}
  /\ working = [f \in Families |-> {}]

Open(f) ==
  /\ f \notin opened
  /\ opened' = opened \cup {f}
  /\ \E t \in Instants : working' = [working EXCEPT ![f] = {t}]

Rotate(f) ==
  /\ \E s, t \in Instants :
       /\ working[f] = {s} /\ s # t
       /\ working' = [working EXCEPT ![f] = {t}]
  /\ UNCHANGED opened

Close(ended) ==
  /\ working' = [f \in Families |-> IF f \in ended THEN {} ELSE working[f]]
  /\ UNCHANGED opened

Next ==
  \/ \E f \in Families : Open(f) \/ Rotate(f)
  \/ \E ended \in SUBSET Families : Close(ended)

Spec == Init /\ [][Next]_vars
=============================================================================
