----------------------------- MODULE MCLooseLog -----------------------------
(***************************************************************************)
(* LooseLog on small sets.  Processes, blobs and ids are only ever         *)
(* compared, so permuting them is sound for the safety runs.               *)
(***************************************************************************)
EXTENDS LooseLog, TLC

Symmetry ==
  Permutations(Procs) \cup Permutations(Blobs) \cup Permutations(Ids)
=============================================================================
