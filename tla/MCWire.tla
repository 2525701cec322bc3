------------------------------- MODULE MCWire -------------------------------
(***************************************************************************)
(* Wire on small sets: every push runs in the repository of its own name.  *)
(***************************************************************************)
EXTENDS Wire

CONSTANTS main, s1, s2

OneName == <<main>>
TwoNames == <<main, s1>>
ThreeNames == <<main, s1, s2>>
OwnHome == [p \in Pushers |-> p]
Symmetry == Permutations(Blobs) \cup Permutations(Repos)
=============================================================================
