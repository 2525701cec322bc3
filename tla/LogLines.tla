------------------------------ MODULE LogLines ------------------------------
(***************************************************************************)
(* Log lines, the states they name, and the checks that make a sequence of *)
(* them a history (src/src/log.rs, patch.rs, repo.rs).                     *)
(*                                                                         *)
(* The state of a fork is a manifest: for each path, the blob it holds.  A *)
(* line's sum_after stands for that manifest (sums are collision-free on   *)
(* states), a line carries one realized entry, and the anchor is empty.    *)
(***************************************************************************)
EXTENDS Integers, Sequences

CONSTANTS
  Paths,   \* element paths
  Blobs,   \* blob hashes (a hash stands for its content)
  Ids,     \* line ids
  NoBlob, NoId

ASSUME LinesAssumption == NoBlob \notin Blobs /\ NoId \notin Ids

Manifest == [Paths -> Blobs \cup {NoBlob}]
EmptyManifest == [x \in Paths |-> NoBlob]

\* One realized entry: what a path held and what it holds next.
Entry == [path : Paths, old : Blobs \cup {NoBlob}, new : Blobs \cup {NoBlob}]

Line == [id : Ids, prev : Ids \cup {NoId}, entry : Entry, after : Manifest]

HeadId(l) == IF l = <<>> THEN NoId ELSE l[Len(l)].id
State(l) == IF l = <<>> THEN EmptyManifest ELSE l[Len(l)].after

\* Membership first: the remove half of an entry must be what the path holds.
Applies(m, e) == m[e.path] = e.old
Result(m, e) == [m EXCEPT ![e.path] = e.new]

\* LogLine::seal: the line that carries entry e after lines l.
Sealed(a, e, l) ==
  [id |-> a, prev |-> HeadId(l), entry |-> e, after |-> Result(State(l), e)]

\* Line x chains to a head with this id and this state.
Links(x, id, m) ==
  /\ x.prev = id
  /\ Applies(m, x.entry)
  /\ x.after = Result(m, x.entry)

\* What current_state verifies: prev linkage, per-line arithmetic, and the
\* replay from the anchor.
Chained(l) ==
  \A i \in 1..Len(l) :
    IF i = 1 THEN Links(l[1], NoId, EmptyManifest)
             ELSE Links(l[i], l[i - 1].id, l[i - 1].after)

IdsOf(l) == {l[i].id : i \in 1..Len(l)}

\* The blobs a log's realized adds name.
BlobsOf(l) == {l[i].entry.new : i \in 1..Len(l)} \ {NoBlob}

Prefix(s, t) == Len(s) <= Len(t) /\ \A i \in 1..Len(s) : s[i] = t[i]
=============================================================================
