------------------------------- MODULE Texts -------------------------------
(***************************************************************************)
(* Span replacement, the line diff and blame on the bytes of a file        *)
(* (src/src/patch.rs, diff.rs, blame.rs).                                  *)
(*                                                                         *)
(* A content is a sequence of bytes, one of which ends a line.  Offsets    *)
(* count from zero and ranges are half-open, as in the code.               *)
(***************************************************************************)
EXTENDS Integers, Sequences, FiniteSets, SequencesExt

CONSTANTS
  Bytes,  \* what contents are made of
  NL      \* the byte that ends a line

Content == Seq(Bytes)

Slice(c, from, to) == SubSeq(c, from + 1, to)
Splice(c, from, to, new) == Slice(c, 0, from) \o new \o Slice(c, to, Len(c))

-----------------------------------------------------------------------------
(* Occurrences.                                                            *)

\* count_occurrences, find_unique: every start, overlapping ones included.
Occurrences(c, s) ==
  IF s = <<>> THEN {}
  ELSE {i \in 0..Len(c) - Len(s) : Slice(c, i, i + Len(s)) = s}

Unique(c, s) == Cardinality(Occurrences(c, s)) = 1

\* Where a unique span sits.
Place(c, s) == CHOOSE i \in Occurrences(c, s) : TRUE

\* replace_unique, where `old` is unique.
Replaced(c, old, new) ==
  Splice(c, Place(c, old), Place(c, old) + Len(old), new)

LineStart(c, from) ==
  Max({0} \cup {i \in 1..from : c[i] = NL})
LineEnd(c, from) ==
  Min({Len(c)} \cup {i \in from + 1..Len(c) : c[i] = NL})

\* unique_window: whole lines around c[at..at+len), widened on both sides
\* until they occur once.
UniqueWindow(c, at, len) ==
  LET window[k \in 0..Len(c)] ==
        IF k = 0
        THEN [from |-> LineStart(c, at), to |-> LineEnd(c, at + len)]
        ELSE LET w == window[k - 1]
             IN  [from |-> IF w.from > 0 THEN LineStart(c, w.from - 1) ELSE 0,
                  to |-> LineEnd(c, w.to)]
      tight == {k \in 0..Len(c) :
                  Unique(c, Slice(c, window[k].from, window[k].to))}
  IN  window[Min(tight)]

\* The non-overlapping occurrences, left to right.
Starts(c, old) ==
  LET scan(acc, i) ==
        IF i >= acc.next /\ i \in Occurrences(c, old)
        THEN [next |-> i + Len(old), at |-> Append(acc.at, i)]
        ELSE acc
  IN  FoldLeft(scan, [next |-> 0, at |-> <<>>],
               [k \in 1..Len(c) |-> k - 1]).at

\* anchored_replace_all: one uniquely anchored edit for each occurrence, in
\* the content that edit will meet.  Empty when `old` does not occur.
AnchoredReplaceAll(c, old, new) ==
  LET anchor(acc, start) ==
        LET at == start + acc.shift
            w == UniqueWindow(acc.work, at, Len(old))
            span == Slice(acc.work, w.from, w.to)
            replaced == Slice(acc.work, w.from, at) \o new
                          \o Slice(acc.work, at + Len(old), w.to)
        IN  [work |-> Splice(acc.work, at, at + Len(old), new),
             shift |-> acc.shift + Len(new) - Len(old),
             edits |-> Append(acc.edits, [old |-> span, new |-> replaced])]
  IN  FoldLeft(anchor, [work |-> c, shift |-> 0, edits |-> <<>>],
               Starts(c, old)).edits

-----------------------------------------------------------------------------
(* The line diff.                                                          *)

\* split_keep_lines: the offset each line begins at, and the lines.
LineOffsets(c) ==
  FoldLeft(LAMBDA off, i : IF i = 0 \/ c[i] = NL THEN Append(off, i) ELSE off,
           <<>>, [k \in 1..Len(c) |-> k - 1])
Lines(c) ==
  LET off == LineOffsets(c)
  IN  [k \in 1..Len(off) |-> Slice(c, off[k], LineEnd(c, off[k]))]

\* lcs_edits: the edit script over lines, as "equal", "delete" and "insert".
LcsEdits(a, b) ==
  LET n == Len(a)
      m == Len(b)
      lcs[p \in (0..n) \X (0..m)] ==
        IF p[1] = n \/ p[2] = m THEN 0
        ELSE IF a[p[1] + 1] = b[p[2] + 1] THEN lcs[<<p[1] + 1, p[2] + 1>>] + 1
        ELSE Max({lcs[<<p[1] + 1, p[2]>>], lcs[<<p[1], p[2] + 1>>]})
      walk[p \in (0..n) \X (0..m)] ==
        LET i == p[1]
            j == p[2]
        IN  CASE i = n /\ j = m -> <<>>
              [] i < n /\ j < m /\ a[i + 1] = b[j + 1] ->
                   <<"equal">> \o walk[<<i + 1, j + 1>>]
              [] i < n /\ (j = m \/ (a[i + 1] # b[j + 1]
                   /\ lcs[<<i + 1, j>>] >= lcs[<<i, j + 1>>])) ->
                   <<"delete">> \o walk[<<i + 1, j>>]
              [] OTHER -> <<"insert">> \o walk[<<i, j + 1>>]
  IN  walk[<<0, 0>>]

\* Mutant of Offset: past the last line is where that line begins.
OffsetOfLast(c, k) == LineOffsets(c)[Min({k + 1, Len(LineOffsets(c))})]

\* Where line k, counted from zero, begins; past the last line, the end.
Offset(c, k) ==
  IF k < Len(LineOffsets(c)) THEN LineOffsets(c)[k + 1] ELSE Len(c)

\* changed_ranges: the hunks between two contents, as pairs of byte ranges.
ChangedRanges(old, new) ==
  LET edits == LcsEdits(Lines(old), Lines(new)) \o <<"equal">>
      walk(acc, e) ==
        LET o == acc.oi + (IF e \in {"equal", "delete"} THEN 1 ELSE 0)
            n == acc.ni + (IF e \in {"equal", "insert"} THEN 1 ELSE 0)
        IN  [oi |-> o, ni |-> n,
             open |-> CASE e = "equal" -> <<>>
                        [] e # "equal" /\ acc.open = <<>> -> <<acc.oi, acc.ni>>
                        [] OTHER -> acc.open,
             out |-> IF e = "equal" /\ acc.open # <<>>
                     THEN Append(acc.out,
                            [from |-> Offset(old, acc.open[1]),
                             to |-> Offset(old, acc.oi),
                             nfrom |-> Offset(new, acc.open[2]),
                             nto |-> Offset(new, acc.ni)])
                     ELSE acc.out]
  IN  FoldLeft(walk, [oi |-> 0, ni |-> 0, open |-> <<>>, out |-> <<>>],
               edits).out

\* Splicing hunks' new bytes into the old content, last one first.
Spliced(old, new, hunks) ==
  FoldRight(LAMBDA h, c :
              Splice(c, h.from, h.to, Slice(new, h.nfrom, h.nto)),
            hunks, old)

\* The bytes two contents share at the front, and those they share at the
\* back without overlapping the front.
CommonHead(a, b) ==
  Max({k \in 0..Min({Len(a), Len(b)}) : Slice(a, 0, k) = Slice(b, 0, k)})
CommonTail(a, b, head) ==
  Max({k \in 0..Min({Len(a), Len(b)}) - head :
         Slice(a, Len(a) - k, Len(a)) = Slice(b, Len(b) - k, Len(b))})

\* Mutant of SynthesizeEdit: the changed bytes, unique or not.
SynthesizeTight(old, new) ==
  LET p == CommonHead(old, new)
      s == CommonTail(old, new, p)
  IN  [old |-> Slice(old, p, Len(old) - s), new |-> Slice(new, p, Len(new) - s)]

\* synthesize_edit: the changed bytes of a non-empty content, widened on both
\* sides until they are unique in it.
SynthesizeEdit(old, new) ==
  LET head == CommonHead(old, new)
      tail == CommonTail(old, new, head)
      p(k) == Max({0, head - k})
      s(k) == Max({0, tail - k})
      tight == {k \in 0..Len(old) : Unique(old, Slice(old, p(k), Len(old) - s(k)))}
      k == Min(tight)
  IN  [old |-> Slice(old, p(k), Len(old) - s(k)),
       new |-> Slice(new, p(k), Len(new) - s(k))]

\* group_hunks: the changed edits and `context` edits around each, merged
\* where they touch; starts are counted from one, and are zero on a side the
\* hunk has no line of.
GroupHunks(edits, context) ==
  LET near == {i \in 1..Len(edits) : \E c \in 1..Len(edits) :
                 edits[c] # "equal" /\ c - context <= i /\ i <= c + context}
      hunk(lo) ==
        LET hi == Min({i \in lo..Len(edits) : i + 1 \notin near})
            count(from, to, kinds) ==
              Cardinality({i \in from..to : edits[i] \in kinds})
            side(kinds) ==
              LET len == count(lo, hi, kinds)
              IN  [start |-> IF len = 0 THEN 0 ELSE count(1, lo - 1, kinds) + 1,
                   len |-> len]
        IN  [old |-> side({"equal", "delete"}), new |-> side({"equal", "insert"}),
             edits |-> SubSeq(edits, lo, hi)]
      firsts == SetToSortSeq({i \in near : i - 1 \notin near}, <)
  IN  [k \in 1..Len(firsts) |-> hunk(firsts[k])]

-----------------------------------------------------------------------------
(* Blame.                                                                  *)

NoText == [exists |-> FALSE, content |-> <<>>, owners |-> <<>>]

\* blame_path: replay the operations on one path, each byte stamped with the
\* number of the line that wrote it.
Stamped(ops) ==
  LET stamp(acc, o) ==
        CASE o.op.op = "create" ->
               [exists |-> TRUE, content |-> o.op.content,
                owners |-> [k \in 1..Len(o.op.content) |-> o.line]]
          [] o.op.op = "delete" -> NoText
          [] o.op.op = "edit" ->
               LET at == Place(acc.content, o.op.old)
                   to == at + Len(o.op.old)
               IN  [acc EXCEPT
                      !.content = Splice(@, at, to, o.op.new),
                      !.owners = Splice(@, at, to,
                                        [k \in 1..Len(o.op.new) |-> o.line])]
  IN  FoldLeft(stamp, NoText, ops)

\* Mutant of RollUp: the oldest owner.
RollUpOldest(t) ==
  LET off == LineOffsets(t.content)
      end(k) == LineEnd(t.content, off[k])
  IN  [k \in 1..Len(off) |->
         [text |-> Slice(t.content, off[k], end(k)),
          owner |-> Min({t.owners[i] : i \in off[k] + 1..end(k)})]]

\* roll_up_lines: a line of text belongs to the newest owner of its bytes.
RollUp(t) ==
  LET off == LineOffsets(t.content)
      end(k) == LineEnd(t.content, off[k])
  IN  [k \in 1..Len(off) |->
         [text |-> Slice(t.content, off[k], end(k)),
          owner |-> Max({t.owners[i] : i \in off[k] + 1..end(k)})]]
=============================================================================
