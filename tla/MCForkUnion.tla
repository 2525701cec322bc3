---------------------------- MODULE MCForkUnion ----------------------------
(* TLC instances of ForkUnion. *)
EXTENDS ForkUnion, TLC

\* A new file holds every text once.
FullFile == {[t \in Texts |-> 1]}

\* No line, read or state singles out a text, or a fork other than Main.
Symmetry == Permutations(Texts) \cup Permutations(Forks \ {Main})
=============================================================================
