------------------------------ MODULE MCIngest ------------------------------
(* TLC instances of Ingest.  Bytes are letters; "n" ends a line. *)
EXTENDS Ingest

CONSTANTS one, two  \* a file of two lines, and a path that holds nothing at first

Edit(x, spans) == [tool |-> "Edit", path |-> x, spans |-> spans]
One(old, new) == [old |-> old, new |-> new, all |-> FALSE]
Write(x, content) == [tool |-> "Write", path |-> x, content |-> content]

OneFile == [x \in Paths |-> IF x = one THEN <<"a", "n", "b", "n">> ELSE NoFile]

\* An edit, one inside what it wrote, one across its edge, one that splits it
\* and changes a line elsewhere, every occurrence, and whole files.
PlanTools ==
  {Edit(one, <<One(<<"a">>, <<"x", "y", "z">>)>>),
   Edit(one, <<One(<<"x">>, <<"b", "x">>)>>),
   Edit(one, <<One(<<"z", "n">>, <<"n">>)>>),
   Edit(one, <<One(<<"y">>, <<>>), One(<<"b">>, <<"w">>)>>),
   Edit(one, <<[old |-> <<"n">>, new |-> <<"b", "n">>, all |-> TRUE]>>),
   Write(one, <<"a", "x">>), Write(two, <<"b">>)}

\* An edit, and one that rewrites it and could be made again.
LedgerTools ==
  {Edit(one, <<One(<<"a">>, <<"x">>)>>),
   Edit(one, <<One(<<"x">>, <<"x", "y">>)>>)}

\* A formatter at work on what the edits leave.
Formatter ==
  {[path |-> one, old |-> <<"x">>, new |-> <<"w", "x">>],
   [path |-> one, old |-> <<"n", "b">>, new |-> <<"n">>]}

\* No call, line or state singles out a session.
Symmetry == Permutations(Sessions)
=============================================================================
