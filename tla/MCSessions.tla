----------------------------- MODULE MCSessions -----------------------------
(* Instances of Sessions for TLC.                                          *)
EXTENDS Sessions, TLC

MCSymmetry ==
  {p @@ q @@ r : p \in Permutations(Calls), q \in Permutations(Families),
                 r \in Permutations(Tabs)}
=============================================================================
