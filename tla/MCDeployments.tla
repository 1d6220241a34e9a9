---------------------------- MODULE MCDeployments ----------------------------
(* An instance of Deployments for TLC: a source that is pushed to, and      *)
(* another that the row may be changed to.                                  *)
EXTENDS Deployments

CONSTANTS a, b

Two == {a, b}
PushesToFirst == [s \in Two |-> IF s = a THEN 1 ELSE 0]
=============================================================================
