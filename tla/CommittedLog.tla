----------------------------- MODULE CommittedLog -----------------------------
(***************************************************************************)
(* What a fork log promises its callers (SPEC.md 2.1 I3, I8): a history    *)
(* that only ever grows, is valid end to end at every moment, and holds    *)
(* every line whose command was told Ok.  A command that fails or dies may *)
(* land some of its lines without being told.                              *)
(***************************************************************************)
EXTENDS LogLines

VARIABLES
  history,  \* the committed lines
  told      \* ids of the lines whose command returned Ok

Init == history = <<>> /\ told = {}

Land ==
  /\ Prefix(history, history')
  /\ Chained(history')
  /\ told \subseteq told'
  /\ told' \subseteq IdsOf(history')

Spec == Init /\ [][Land]_<<history, told>>
=============================================================================
