----------------------------- MODULE MCLineage -----------------------------
(* TLC instances of Lineage. *)
EXTENDS Lineage

\* A new file holds its one line.
FullFile == {[t \in Texts |-> 1]}

\* Some order of the names.
NameOrder == SetToSeq(Forks)

\* Main begins empty, or at a commit that holds one file.
OneFile == {[x \in Paths |-> [t \in Texts |-> 1]]}
=============================================================================
