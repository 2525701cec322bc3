---------------------------- MODULE MCGitMirror ----------------------------
(* TLC instances of GitMirror. *)
EXTENDS GitMirror

FullFile == {[t \in Texts |-> 1]}

\* The trees upstream makes: every path with one line, or without it.
Filled == {[x \in Paths |-> [t \in Texts |-> 1]]}
Blank == {[x \in Paths |-> [t \in Texts |-> 0]]}
=============================================================================
