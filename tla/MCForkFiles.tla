---------------------------- MODULE MCForkFiles ----------------------------
(* TLC instances of ForkFiles. *)
EXTENDS ForkFiles, TLC

\* Processes are interchangeable.
Symmetry == Permutations(Procs)
=============================================================================
