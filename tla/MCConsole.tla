------------------------------ MODULE MCConsole ------------------------------
(* Instances of Console for TLC.                                           *)
EXTENDS Console, TLC

MCSymmetry == {p @@ q : p \in Permutations(Hosts), q \in Permutations(Containers)}
=============================================================================
