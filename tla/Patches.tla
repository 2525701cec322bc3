------------------------------ MODULE Patches ------------------------------
(***************************************************************************)
(* Intents, realized deltas and the states they act on (src/src/patch.rs,  *)
(* union.rs, diff.rs).                                                     *)
(*                                                                         *)
(* A file is the bag of its lines.  An edit names one line, which must     *)
(* occur exactly once, and replaces it by zero or more lines; the line it  *)
(* names may be among them (an insertion).  An intent has at most one      *)
(* operation; element modes are left out.                                  *)
(***************************************************************************)
EXTENDS Integers, FiniteSets

CONSTANTS
  Paths,  \* element paths
  Texts,  \* what a line of a file may say
  NoFile, \* what a path holds when it holds nothing
  Seeds   \* the contents a create may carry

ASSUME PatchAssumption == NoFile \notin Seeds /\ Seeds \subseteq [Texts -> 0..1]

Content == [Texts -> Nat]
Manifest == [Paths -> Content \cup {NoFile}]
EmptyManifest == [x \in Paths |-> NoFile]

-----------------------------------------------------------------------------
(* Realized deltas: what some paths held and what they hold next.          *)

Entry == [path : Paths, old : Content \cup {NoFile},
          new : Content \cup {NoFile}]

\* apply_realized_to_manifest: every removed record must be a member.
Applies(m, delta) == \A e \in delta : m[e.path] = e.old

Result(m, delta) ==
  [x \in Paths |-> IF \E e \in delta : e.path = x
                   THEN (CHOOSE e \in delta : e.path = x).new
                   ELSE m[x]]

\* diff_manifests: the delta that carries m to n.
Delta(m, n) ==
  {[path |-> x, old |-> m[x], new |-> n[x]] : x \in {y \in Paths : m[y] # n[y]}}

WritePaths(delta) == {e.path : e \in delta}

-----------------------------------------------------------------------------
(* Intents.                                                                *)

NoIntent == [op |-> "none"]

Edits == [op : {"edit"}, path : Paths, old : Texts, new : SUBSET Texts]
Creates == [op : {"create"}, path : Paths, blob : Seeds]
Deletes == [op : {"delete"}, path : Paths, blob : Content]

Intents == Edits \cup Creates \cup Deletes \cup {NoIntent}

\* apply_intent's preconditions.  An intent without operations has none.
Valid(m, i) ==
  \/ i.op = "none"
  \/ i.op = "edit" /\ m[i.path] # NoFile /\ m[i.path][i.old] = 1
  \/ i.op = "create" /\ m[i.path] = NoFile
  \/ i.op = "delete" /\ m[i.path] = i.blob

\* replace_unique.
Replaced(c, old, new) ==
  [t \in Texts |-> c[t] - (IF t = old THEN 1 ELSE 0)
                        + (IF t \in new THEN 1 ELSE 0)]

\* apply_intent's realization of a valid intent.
Realized(m, i) ==
  CASE i.op = "none" -> {}
    [] i.op = "edit" ->
         {[path |-> i.path, old |-> m[i.path],
           new |-> Replaced(m[i.path], i.old, i.new)]}
    [] i.op = "create" -> {[path |-> i.path, old |-> NoFile, new |-> i.blob]}
    [] i.op = "delete" -> {[path |-> i.path, old |-> i.blob, new |-> NoFile]}

-----------------------------------------------------------------------------
(* Read sets.                                                              *)

\* A line's observed reads: none recorded; some lines of one file (the whole
\* of it when no span is named); or a search of the whole state.  `blob` is
\* what the file held, and `state` what the fork held, when they were read.
Reads ==
  [kind : {"none"}]
    \cup [kind : {"spans"}, path : Paths, blob : Content, spans : SUBSET Texts]
    \cup [kind : {"any"}, state : Manifest]

NoReads == [kind |-> "none"]

\* diff::changed_old_lines: the lines of c that did not survive into d.
Changed(c, d) == {t \in Texts : c[t] > d[t]}

\* read_is_stale: is a read of spans out of date in state m?  `own` is what
\* the reader's side had made of the file itself.
ReadIsStale(r, own, m) ==
  LET now == m[r.path]
      others == Changed(r.blob, now)
                  \ (IF own \in {NoFile, r.blob} THEN {}
                     ELSE Changed(r.blob, own))
  IN  \/ now = NoFile
      \/ /\ now # r.blob
         /\ \/ r.spans = {}
            \/ \E t \in r.spans : r.blob[t] # 1 \/ t \in others

\* stale_reads: did these writes invalidate the reads?
StaleReads(r, writes, m) ==
  /\ writes # {}
  /\ \/ r.kind = "any"
     \/ r.kind = "spans" /\ r.path \in writes /\ ReadIsStale(r, NoFile, m)

\* note_stranded_reads: would landing `written` strand the reads of a line
\* on a side that stood at `before`?
StrandedReads(r, written, before, after) ==
  /\ written # {}
  /\ \/ r.kind = "any"
     \/ /\ r.kind = "spans" /\ r.path \in written
        /\ ReadIsStale(r, before[r.path], after)

\* What was read is still so in state m.
StillSo(r, m) ==
  /\ r.kind = "any" => m = r.state
  /\ r.kind = "spans" =>
       /\ m[r.path] # NoFile
       /\ r.spans = {} => m[r.path] = r.blob
       /\ \A t \in r.spans : m[r.path][t] >= r.blob[t]
=============================================================================
