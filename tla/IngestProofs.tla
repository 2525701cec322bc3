---------------------------- MODULE IngestProofs ----------------------------
(***************************************************************************)
(* Proofs about the ingestion of transcripts: the plan keeps account of    *)
(* every call, its tracks tell who wrote which bytes, what it lands lands, *)
(* and across ingests, kills and resumed sessions a call is recorded once. *)
(***************************************************************************)
EXTENDS Ingest, FoldFacts, FiniteSetTheorems

\* Induction over the naturals, as the folds take it.
LEMMA Inducting ==
  \A N : 0 \in N /\ (\A i \in Nat : i \in N => i + 1 \in N) => Nat \subseteq N
<1> SUFFICES ASSUME NEW N, 0 \in N, \A i \in Nat : i \in N => i + 1 \in N PROVE Nat \subseteq N
  OBVIOUS
<1> QED BY Induction

-----------------------------------------------------------------------------
(* Contents and spans.                                                     *)

\* A slice within a content (replace_unique: slices).
LEMMA SliceIs ==
  ASSUME NEW c \in Content, NEW i \in Nat, NEW j \in Nat, i <= j, j <= Len(c)
  PROVE  /\ Slice(c, i, j) \in Content
         /\ Len(Slice(c, i, j)) = j - i
         /\ \A k \in 1..j - i : Slice(c, i, j)[k] = c[i + k]
BY DEF Slice, Content

\* The bytes before, the new ones, the bytes after (replace_unique).
LEMMA SpliceIs ==
  ASSUME NEW c \in Content, NEW new \in Content,
         NEW i \in Nat, NEW j \in Nat, i <= j, j <= Len(c)
  PROVE  LET t == Splice(c, i, j, new)
         IN  /\ t \in Content
             /\ Len(new) \in Nat /\ Len(c) \in Nat
             /\ Len(t) = Len(c) - (j - i) + Len(new)
             /\ \A k \in 1..i : t[k] = c[k]
             /\ \A k \in 1..Len(new) : t[i + k] = new[k]
             /\ \A k \in 1..Len(c) - j : t[i + Len(new) + k] = c[j + k]
<1> DEFINE a == Slice(c, 0, i)
           b == Slice(c, j, Len(c))
<1>1. Len(c) \in Nat /\ Len(new) \in Nat
  BY DEF Content
<1>2. a \in Content /\ Len(a) = i /\ \A k \in 1..i : a[k] = c[k]
  BY <1>1 DEF Slice, Content
<1>3. b \in Content /\ Len(b) = Len(c) - j /\ \A k \in 1..Len(c) - j : b[k] = c[j + k]
  BY <1>1 DEF Slice, Content
<1> HIDE DEF a, b
<1> DEFINE u == a \o new
           t == u \o b
<1>4. /\ u \in Seq(Bytes) /\ Len(u) = i + Len(new)
      /\ \A k \in 1..i : u[k] = a[k]
      /\ \A k \in 1..Len(new) : u[i + k] = new[k]
  <2>1. a \in Seq(Bytes) /\ new \in Seq(Bytes)
    BY <1>2 DEF Content
  <2> QED BY <1>2, <2>1
<1> HIDE DEF u
<1>5. /\ t \in Seq(Bytes) /\ Len(t) = Len(u) + Len(b)
      /\ \A k \in 1..Len(u) : t[k] = u[k]
      /\ \A k \in 1..Len(b) : t[Len(u) + k] = b[k]
  <2>1. b \in Seq(Bytes)
    BY <1>3 DEF Content
  <2>2. u \in Seq(Bytes)
    BY <1>4
  <2> QED BY <2>1, <2>2
<1>6. Splice(c, i, j, new) = t
  BY DEF Splice, a, b, t, u
<1> HIDE DEF t
<1>7. Len(t) = Len(c) - (j - i) + Len(new)
  BY <1>1, <1>3, <1>4, <1>5
<1>8. \A k \in 1..i : t[k] = c[k]
  <2> TAKE k \in 1..i
  <2>1. k \in 1..Len(u)
    BY <1>1, <1>4
  <2> QED BY <1>2, <1>4, <1>5, <2>1
<1>9. \A k \in 1..Len(new) : t[i + k] = new[k]
  <2> TAKE k \in 1..Len(new)
  <2>1. i + k \in 1..Len(u)
    BY <1>1, <1>4
  <2> QED BY <1>4, <1>5, <2>1
<1>10. \A k \in 1..Len(c) - j : t[i + Len(new) + k] = c[j + k]
  BY <1>3, <1>4, <1>5
<1> QED BY <1>1, <1>5, <1>6, <1>7, <1>8, <1>9, <1>10 DEF Content

\* What a splice leaves is text again, of this length.
LEMMA SpliceSize ==
  ASSUME NEW c \in Content, NEW new \in Content,
         NEW i \in Nat, NEW j \in Nat, i <= j, j <= Len(c)
  PROVE  Splice(c, i, j, new) \in Content /\ Len(Splice(c, i, j, new)) = Len(c) - (j - i) + Len(new)
BY SpliceIs

\* Where a span that occurs once sits (find_unique).
LEMMA PlaceIs ==
  ASSUME NEW c \in Content, NEW s \in Content, Unique(c, s)
  PROVE  /\ Place(c, s) \in Nat /\ Len(s) \in Nat \ {0} /\ s # <<>>
         /\ Place(c, s) + Len(s) <= Len(c)
         /\ Slice(c, Place(c, s), Place(c, s) + Len(s)) = s
         /\ Occurrences(c, s) = {Place(c, s)}
<1> DEFINE O == Occurrences(c, s)
<1>1. s # <<>>
  <2> SUFFICES ASSUME s = <<>> PROVE FALSE
    OBVIOUS
  <2>1. O = {}
    BY DEF Occurrences
  <2> QED BY <2>1, FS_EmptySet DEF Unique
<1>2. Len(s) \in Nat \ {0} /\ Len(c) \in Nat
  BY <1>1 DEF Content
<1>3. O \subseteq 0..Len(c) - Len(s) /\ \A i \in O : Slice(c, i, i + Len(s)) = s
  BY <1>1 DEF Occurrences
<1>4. IsFiniteSet(O)
  <2>1. IsFiniteSet(0..Len(c) - Len(s))
    BY <1>2, FS_Interval
  <2> QED BY <1>3, <2>1, FS_Subset
<1>5. PICK x : O = {x}
  BY <1>4, FS_Singleton DEF Unique
<1>6. Place(c, s) = x
  BY <1>5 DEF Place
<1> QED BY <1>1, <1>2, <1>3, <1>5, <1>6

\* A span that occurs at one place is unique, and sits there.
LEMMA OnceIs ==
  ASSUME NEW c, NEW s, NEW x, Occurrences(c, s) = {x}
  PROVE  Unique(c, s) /\ Place(c, s) = x
BY FS_Singleton DEF Unique, Place

\* replace_unique makes a content.
LEMMA ReplacedType ==
  ASSUME NEW c \in Content, NEW old \in Content, NEW new \in Content, Unique(c, old)
  PROVE  Replaced(c, old, new) \in Content
<1>1. /\ Place(c, old) \in Nat /\ Len(old) \in Nat
      /\ Place(c, old) + Len(old) <= Len(c)
  BY PlaceIs
<1>2. Place(c, old) + Len(old) \in Nat /\ Place(c, old) <= Place(c, old) + Len(old)
  BY <1>1
<1> QED BY <1>1, <1>2, SpliceIs DEF Replaced

-----------------------------------------------------------------------------
(* Intents.                                                                *)

Edits == [op : {"edit"}, path : Paths, old : Content, new : Content]
Creates == [op : {"create"}, path : Paths, content : Content]
Deletes == [op : {"delete"}, path : Paths, content : Content]
Op == Edits \cup Creates \cup Deletes

State == [Paths -> Content \cup {NoFile}]
Applied == [ok : BOOLEAN, m : State]
Fresh(m) == [ok |-> TRUE, m |-> m]

\* What kinds of operations there are.
LEMMA OpKinds ==
  ASSUME NEW o \in Op
  PROVE  /\ o.path \in Paths
         /\ o.op \in {"edit", "create", "delete"}
         /\ o \in Edits <=> o.op = "edit"
         /\ o \in Creates <=> o.op = "create"
         /\ o \in Deletes <=> o.op = "delete"
BY DEF Op, Edits, Creates, Deletes

\* One operation leaves a state, and none after one that failed (apply_intent).
LEMMA ApplyOpType ==
  ASSUME NEW r \in Applied, NEW o \in Op
  PROVE  ApplyOp(r, o) \in Applied /\ (ApplyOp(r, o).ok => r.ok)
<1> DEFINE now == r.m[o.path]
<1>1. now \in Content \cup {NoFile} /\ o.path \in Paths
  BY OpKinds DEF Applied, State
<1>2. CASE r.ok /\ o.op = "edit" /\ now # NoFile /\ Unique(now, o.old)
  <2>1. o \in Edits
    BY <1>2, OpKinds
  <2>2. Replaced(now, o.old, o.new) \in Content
    BY <1>1, <1>2, <2>1, ReplacedType DEF Edits
  <2>3. ApplyOp(r, o) = [ok |-> TRUE, m |-> [r.m EXCEPT ![o.path] = Replaced(now, o.old, o.new)]]
    BY <1>1, <1>2 DEF ApplyOp, Applied, State
  <2> QED BY <1>1, <1>2, <2>2, <2>3 DEF Applied, State
<1>3. CASE r.ok /\ o.op = "create" /\ now = NoFile
  <2>1. o.content \in Content
    BY <1>3, OpKinds DEF Creates
  <2>2. ApplyOp(r, o) = [ok |-> TRUE, m |-> [r.m EXCEPT ![o.path] = o.content]]
    BY <1>1, <1>3 DEF ApplyOp, Applied, State
  <2> QED BY <1>1, <1>3, <2>1, <2>2 DEF Applied, State
<1>4. CASE r.ok /\ o.op = "delete" /\ now = o.content
  <2>1. ApplyOp(r, o) = [ok |-> TRUE, m |-> [r.m EXCEPT ![o.path] = NoFile]]
    BY <1>1, <1>4 DEF ApplyOp, Applied, State
  <2> QED BY <1>1, <1>4, <2>1 DEF Applied, State
<1>5. CASE ~(r.ok /\ CASE o.op = "edit" -> now # NoFile /\ Unique(now, o.old)
                       [] o.op = "create" -> now = NoFile
                       [] o.op = "delete" -> now = o.content)
  <2>1. ApplyOp(r, o) = [r EXCEPT !.ok = FALSE]
    BY <1>5 DEF ApplyOp
  <2> QED BY <2>1 DEF Applied
<1>6. o.op = "edit" \/ o.op = "create" \/ o.op = "delete"
  BY OpKinds
<1> QED BY <1>2, <1>3, <1>4, <1>5, <1>6

\* The operations of an intent, one after another.
Ran(r, ops) == FoldLeft(ApplyOp, r, ops)
ApplyStep(p, r, o) == ApplyOp(r, o)
ApplyInv(p, l, k, r) == r \in Applied /\ (r.ok => p)
ApplyLeft == INSTANCE StepFolds WITH FoldStep <- ApplyStep, FoldInv <- ApplyInv

\* Induction, for this fold.
LEMMA ApplyInducts == ApplyLeft!Inducts
BY Inducting DEF ApplyLeft!Inducts

\* As a fold.
LEMMA RanIs ==
  ASSUME NEW r, NEW ops, NEW p
  PROVE  Ran(r, ops) = ApplyLeft!FoldedLeft(p, r, ops)
BY DEF Ran, ApplyLeft!FoldedLeft, ApplyStep, FoldLeft, MapThenFoldSet,
       Max

\* None of them, and one more.
LEMMA RanOne ==
  ASSUME NEW r, NEW S, NEW ops \in Seq(S), NEW o \in S
  PROVE  Ran(r, <<>>) = r /\ Ran(r, Append(ops, o)) = ApplyOp(Ran(r, ops), o)
<1>1. /\ ApplyLeft!FoldedLeft(0, r, <<>>) = r
      /\ ApplyLeft!FoldedLeft(0, r, Append(ops, o)) = ApplyStep(0, ApplyLeft!FoldedLeft(0, r, ops), o)
  BY ApplyInducts, ApplyLeft!FoldOne
<1> QED BY <1>1, RanIs DEF ApplyStep

\* Some, then others.
LEMMA RanJoin ==
  ASSUME NEW r, NEW S, NEW ops \in Seq(S), NEW u \in Seq(S)
  PROVE  Ran(r, ops \o u) = Ran(Ran(r, ops), u)
<1>1. ApplyLeft!FoldedLeft(0, r, ops \o u) = ApplyLeft!FoldedLeft(0, ApplyLeft!FoldedLeft(0, r, ops), u)
  BY ApplyInducts, ApplyLeft!FoldJoin
<1> QED BY <1>1, RanIs

\* They make a state, and what has failed stays failed.
LEMMA RanType ==
  ASSUME NEW r \in Applied, NEW ops \in Seq(Op)
  PROVE  Ran(r, ops) \in Applied /\ (Ran(r, ops).ok => r.ok)
<1> DEFINE n == Len(ops)
<1>1. n \in Nat /\ DOMAIN ops = 1..n
  OBVIOUS
<1>2. ApplyInv(r.ok, ops, 0, r)
  BY DEF ApplyInv
<1>3. ASSUME NEW i \in 1..n, NEW x, ApplyInv(r.ok, ops, i - 1, x)
      PROVE  ApplyInv(r.ok, ops, i, ApplyStep(r.ok, x, ops[i]))
  <2>1. ops[i] \in Op
    BY <1>1
  <2> QED BY <1>3, <2>1, ApplyOpType DEF ApplyInv, ApplyStep
<1> HIDE DEF n
<1>4. ApplyInv(r.ok, ops, n, ApplyLeft!FoldedLeft(r.ok, r, ops))
  BY <1>1, <1>2, <1>3, ApplyInducts, ApplyLeft!FoldHolds
<1> QED BY <1>4, RanIs DEF ApplyInv

\* apply_intent: all of the operations, or the state as it was.
LEMMA ApplyIntentIs ==
  ASSUME NEW m \in State, NEW ops \in Seq(Op)
  PROVE  /\ ApplyIntent(m, ops) \in Applied
         /\ ApplyIntent(m, ops).ok <=> Ran(Fresh(m), ops).ok
         /\ ApplyIntent(m, ops).ok => ApplyIntent(m, ops) = Ran(Fresh(m), ops)
         /\ ApplyIntent(m, ops).ok => ApplyIntent(m, ops) = Fresh(ApplyIntent(m, ops).m)
<1> DEFINE r == Ran(Fresh(m), ops)
<1>1. r \in Applied
  BY RanType DEF Fresh, Applied
<1>2. ApplyIntent(m, ops) = IF r.ok THEN r ELSE [ok |-> FALSE, m |-> m]
  BY DEF ApplyIntent, Ran, Fresh
<1> HIDE DEF r
<1>3. r.ok => r = Fresh(r.m)
  BY <1>1 DEF Applied, Fresh
<1>4. [ok |-> FALSE, m |-> m] \in Applied
  BY DEF Applied
<1>5. CASE r.ok
  BY <1>1, <1>2, <1>3, <1>5 DEF r
<1>6. CASE ~r.ok
  BY <1>2, <1>4, <1>6 DEF r
<1> QED BY <1>5, <1>6

-----------------------------------------------------------------------------
(* Every occurrence of a span, each anchored.                              *)

\* The lines around a place lie around it (unique_window).
LEMMA LineStartIs ==
  ASSUME NEW c, NEW from \in Nat
  PROVE  LineStart(c, from) \in 0..from
<1> DEFINE S == {0} \cup {i \in 1..from : c[i] = NL}
<1>1. S \subseteq Nat /\ S # {} /\ \A x \in S : x <= from
  OBVIOUS
<1>2. Max(S) \in S
  BY <1>1, MaxIn
<1> QED BY <1>1, <1>2 DEF LineStart

\* The end of a line is further on, until the end of the file.
LEMMA LineEndIs ==
  ASSUME NEW c \in Content, NEW from \in Nat
  PROVE  /\ LineEnd(c, from) \in Nat /\ LineEnd(c, from) <= Len(c)
         /\ from < Len(c) => LineEnd(c, from) > from
         /\ from >= Len(c) => LineEnd(c, from) = Len(c)
<1> DEFINE S == {Len(c)} \cup {i \in from + 1..Len(c) : c[i] = NL}
<1>1. S \subseteq Nat /\ S # {} /\ Len(c) \in Nat
  BY DEF Content
<1>2. Min(S) \in S /\ \A y \in S : Min(S) <= y
  BY <1>1, MinIn
<1>3. Len(c) \in S
  OBVIOUS
<1>4. Min(S) = Len(c) \/ Min(S) \in from + 1..Len(c)
  BY <1>2
<1>5. from >= Len(c) => Min(S) = Len(c)
  BY <1>1, <1>4
<1> HIDE DEF S
<1>6. LineEnd(c, from) = Min(S)
  BY DEF LineEnd, S
<1> QED BY <1>1, <1>2, <1>3, <1>4, <1>5, <1>6

\* A content that is not empty occurs in itself, once.
LEMMA WholeOnce ==
  ASSUME NEW c \in Content, c # <<>>
  PROVE  Slice(c, 0, Len(c)) = c /\ Occurrences(c, c) = {0} /\ Unique(c, c) /\ Place(c, c) = 0
<1>1. Len(c) \in Nat /\ 0..Len(c) - Len(c) = {0} /\ 0 + Len(c) = Len(c)
  BY DEF Content
<1>2. Slice(c, 0, Len(c)) = c
  BY DEF Slice, Content
<1>3. Occurrences(c, c) = {0}
  BY <1>1, <1>2 DEF Occurrences
<1> QED BY <1>2, <1>3, OnceIs

\* One widening of a window, and the windows of unique_window.
WidenStep(c, w, k) ==
  [from |-> IF w.from > 0 THEN LineStart(c, w.from - 1) ELSE 0, to |-> LineEnd(c, w.to)]
Window == [from : Nat, to : Nat]
WidenInv(p, l, k, w) ==
  /\ w \in Window
  /\ w.from <= l.at /\ l.at + l.len <= w.to /\ w.to <= Len(p)
  /\ w.from = 0 \/ w.from + k <= l.at
  /\ w.to = Len(p) \/ l.at + l.len + k <= w.to
WidenLeft == INSTANCE StepFolds WITH FoldStep <- WidenStep, FoldInv <- WidenInv

\* Induction, for this fold.
LEMMA WidenInducts == WidenLeft!Inducts
BY Inducting DEF WidenLeft!Inducts

\* unique_window: a window around the span, within the file.
LEMMA UniqueWindowIs ==
  ASSUME NEW c \in Content, NEW at \in Nat, NEW len \in Nat \ {0}, at + len <= Len(c)
  PROVE  LET w == UniqueWindow(c, at, len)
         IN  w \in Window /\ w.from <= at /\ at + len <= w.to /\ w.to <= Len(c)
<1> DEFINE n == Len(c)
           b == [from |-> LineStart(c, at), to |-> LineEnd(c, at + len)]
           l == [at |-> at, len |-> len]
           F(g) == [k \in 0..n |-> IF k = 0 THEN b
                                   ELSE LET w == g[k - 1]
                                        IN  [from |-> IF w.from > 0 THEN LineStart(c, w.from - 1) ELSE 0,
                                             to |-> LineEnd(c, w.to)]]
           g == CHOOSE g : g = F(g)
           tight == {k \in 0..n : Unique(c, Slice(c, g[k].from, g[k].to))}
<1>1. n \in Nat /\ l.at = at /\ l.len = len /\ c # <<>>
  BY DEF Content
<1>2. UniqueWindow(c, at, len) = g[Min(tight)]
  BY DEF UniqueWindow
<1>3. g = F(g)
  <2> DEFINE u == [i \in 1..n |-> i]
  <2>1. DOMAIN u = 1..n
    OBVIOUS
  <2>2. PICK h : WidenLeft!Traces(h, c, b, u, n)
    BY <1>1, <2>1, WidenInducts, WidenLeft!FoldTrace
  <2> DEFINE f == [k \in 0..n |-> h[k]]
  <2>3. ASSUME NEW k \in 0..n PROVE f[k] = F(f)[k]
    <3>1. CASE k = 0
      BY <2>2, <3>1 DEF WidenLeft!Traces
    <3>2. CASE k # 0
      <4>1. k \in 1..n /\ k - 1 \in 0..n
        BY <1>1, <3>2
      <4>2. h[k] = WidenStep(c, h[k - 1], u[k])
        BY <2>2, <4>1 DEF WidenLeft!Traces
      <4>3. f[k - 1] = h[k - 1] /\ f[k] = h[k]
        BY <4>1
      <4> HIDE DEF b, f, u
      <4>4. F(f)[k] = WidenStep(c, f[k - 1], u[k])
        BY <3>2 DEF WidenStep
      <4> QED BY <4>2, <4>3, <4>4
    <3> QED BY <3>1, <3>2
  <2>4. f = F(f)
    <3> DEFINE e == F(f)
    <3>1. f = [k \in 0..n |-> f[k]] /\ e = [k \in 0..n |-> e[k]]
      OBVIOUS
    <3>2. \A k \in 0..n : f[k] = e[k]
      BY <2>3
    <3> HIDE DEF f, e
    <3>3. f = e
      BY <3>1, <3>2
    <3> QED BY <3>3 DEF e
  <2> HIDE DEF f
  <2> QED BY <2>4
<1> HIDE DEF g
<1>4. /\ g[0] = b
      /\ \A k \in 1..n : g[k] = WidenStep(c, g[k - 1], k)
  <2>1. 0 \in 0..n /\ \A k \in 1..n : k \in 0..n /\ k # 0
    BY <1>1
  <2> HIDE DEF b
  <2> QED BY <1>3, <2>1 DEF WidenStep
<1>5. WidenInv(c, l, 0, b)
  <2>1. at + len \in Nat
    OBVIOUS
  <2>2. LineStart(c, at) \in 0..at
    BY LineStartIs
  <2>3. /\ LineEnd(c, at + len) \in Nat /\ LineEnd(c, at + len) <= n
        /\ at + len <= LineEnd(c, at + len)
    BY <1>1, <2>1, LineEndIs
  <2> QED BY <1>1, <2>2, <2>3 DEF WidenInv, Window
<1>6. ASSUME NEW k \in 1..n, NEW w, WidenInv(c, l, k - 1, w)
      PROVE  WidenInv(c, l, k, WidenStep(c, w, k))
  <2> DEFINE from == IF w.from > 0 THEN LineStart(c, w.from - 1) ELSE 0
             to == LineEnd(c, w.to)
  <2>1. w.from \in Nat /\ w.to \in Nat /\ w.from <= at /\ at + len <= w.to /\ w.to <= n
    BY <1>1, <1>6 DEF WidenInv, Window
  <2>2. from \in Nat /\ (from = 0 \/ from <= w.from - 1)
    <3>1. CASE w.from > 0
      <4>1. w.from - 1 \in Nat
        BY <2>1, <3>1
      <4>2. LineStart(c, w.from - 1) \in 0..w.from - 1
        BY <4>1, LineStartIs
      <4> QED BY <2>1, <3>1, <4>1, <4>2
    <3>2. CASE ~(w.from > 0)
      BY <3>2
    <3> QED BY <3>1, <3>2
  <2>3. to \in Nat /\ to <= n /\ (to = n \/ w.to + 1 <= to) /\ w.to <= to
    <3>1. w.to \in Nat
      BY <2>1
    <3>2. /\ to \in Nat /\ to <= n
          /\ w.to < n => to > w.to
          /\ w.to >= n => to = n
      BY <3>1, LineEndIs
    <3> HIDE DEF to, n
    <3> QED BY <1>1, <2>1, <3>2
  <2>4. WidenStep(c, w, k) = [from |-> from, to |-> to]
    BY DEF WidenStep
  <2>5. /\ w.from = 0 \/ w.from + (k - 1) <= at
        /\ w.to = n \/ at + len + (k - 1) <= w.to
    BY <1>1, <1>6 DEF WidenInv
  <2> HIDE DEF from, to
  <2>6. from <= at /\ at + len <= to /\ (from = 0 \/ from + k <= at) /\ (to = n \/ at + len + k <= to)
    BY <1>1, <2>1, <2>2, <2>3, <2>5
  <2> QED BY <1>1, <2>2, <2>3, <2>4, <2>6 DEF WidenInv, Window
<1>7. \A k \in 0..n : WidenInv(c, l, k, g[k])
  <2> DEFINE u == [i \in 1..n |-> i]
             S == {k \in Nat : k <= n => WidenInv(c, l, k, g[k])}
  <2>1. 0 \in S
    BY <1>4, <1>5
  <2>2. ASSUME NEW k \in Nat, k \in S PROVE k + 1 \in S
    <3> SUFFICES ASSUME k + 1 <= n PROVE WidenInv(c, l, k + 1, g[k + 1])
      OBVIOUS
    <3>1. k + 1 \in 1..n /\ (k + 1) - 1 = k /\ k <= n
      BY <1>1
    <3>2. WidenInv(c, l, k, g[k])
      BY <2>2, <3>1
    <3> HIDE DEF b, l, n
    <3> QED BY <1>4, <1>6, <3>1, <3>2
  <2>3. Nat \subseteq S
    <3> HIDE DEF S
    <3> QED BY <2>1, <2>2, Induction
  <2> QED BY <2>3
<1>8. g[n].from = 0 /\ g[n].to = n
  <2>1. WidenInv(c, l, n, g[n])
    BY <1>1, <1>7
  <2>2. /\ g[n].from \in Nat /\ g[n].to \in Nat
        /\ g[n].from = 0 \/ g[n].from + n <= at
        /\ g[n].to = n \/ at + len + n <= g[n].to
        /\ g[n].to <= n
    BY <1>1, <2>1 DEF WidenInv, Window
  <2>3. at + len <= n
    OBVIOUS
  <2> HIDE DEF n
  <2> QED BY <1>1, <2>2, <2>3
<1>9. n \in tight
  <2>1. n \in 0..n
    BY <1>1
  <2> QED BY <1>1, <1>8, <2>1, WholeOnce
<1>10. Min(tight) \in tight
  <2>1. tight \subseteq Nat /\ tight # {}
    BY <1>9
  <2> QED BY <2>1, MinIn
<1>11. Min(tight) \in 0..n
  BY <1>10
<1>12. WidenInv(c, l, Min(tight), g[Min(tight)])
  BY <1>7, <1>11
<1> HIDE DEF tight
<1> QED BY <1>1, <1>2, <1>12 DEF WidenInv

\* The scan of anchored_replace_all for occurrences that do not overlap.
ScanStep(p, acc, i) ==
  IF i >= acc.next /\ i \in Occurrences(p.c, p.old)
  THEN [next |-> i + Len(p.old), at |-> Append(acc.at, i)]
  ELSE acc
Apart(c, old, at) ==
  /\ at \in Seq(Nat)
  /\ \A j \in 1..Len(at) : at[j] + Len(old) <= Len(c)
  /\ \A j \in 1..Len(at) - 1 : at[j] + Len(old) <= at[j + 1]
ScanInv(p, l, k, acc) ==
  /\ acc \in [next : Nat, at : Seq(Nat)]
  /\ Apart(p.c, p.old, acc.at)
  /\ acc.at # <<>> => acc.next = acc.at[Len(acc.at)] + Len(p.old)
ScanLeft == INSTANCE StepFolds WITH FoldStep <- ScanStep, FoldInv <- ScanInv

\* Induction, for this fold.
LEMMA ScanInducts == ScanLeft!Inducts
BY Inducting DEF ScanLeft!Inducts

\* The occurrences that are replaced do not overlap.
LEMMA StartsAre ==
  ASSUME NEW c \in Content, NEW old \in Content
  PROVE  Apart(c, old, Starts(c, old)) /\ (old = <<>> => Starts(c, old) = <<>>)
<1> DEFINE p == [c |-> c, old |-> old]
           b == [next |-> 0, at |-> <<>>]
           l == [k \in 1..Len(c) |-> k - 1]
           n == Len(c)
<1>1. Starts(c, old) = ScanLeft!FoldedLeft(p, b, l).at
  BY DEF Starts, ScanLeft!FoldedLeft, ScanStep, FoldLeft, MapThenFoldSet,
         Max
<1>2. n \in Nat /\ DOMAIN l = 1..n /\ Len(old) \in Nat
  BY DEF Content
<1>3. ScanInv(p, l, 0, b)
  BY DEF ScanInv, Apart
<1>4. ASSUME NEW i \in 1..n, NEW x, ScanInv(p, l, i - 1, x)
      PROVE  ScanInv(p, l, i, ScanStep(p, x, l[i]))
  <2> DEFINE s == l[i]
             y == [next |-> s + Len(old), at |-> Append(x.at, s)]
  <2>1. s \in Nat
    BY <1>2
  <2> HIDE DEF s, l
  <2>2. CASE ~(s >= x.next /\ s \in Occurrences(c, old))
    <3>1. ScanStep(p, x, s) = x
      BY <2>2 DEF ScanStep
    <3> QED BY <1>4, <3>1 DEF ScanInv, s
  <2>3. CASE s >= x.next /\ s \in Occurrences(c, old)
    <3>1. ScanStep(p, x, s) = y
      BY <2>3 DEF ScanStep
    <3>2. /\ x.next \in Nat /\ x.at \in Seq(Nat) /\ Apart(c, old, x.at)
          /\ x.at # <<>> => x.next = x.at[Len(x.at)] + Len(old)
      BY <1>4 DEF ScanInv
    <3>3. s + Len(old) <= n
      <4>1. s \in 0..Len(c) - Len(old)
        BY <2>3, FS_EmptySet DEF Occurrences
      <4> QED BY <1>2, <4>1
    <3> DEFINE at == Append(x.at, s)
    <3>4. /\ at \in Seq(Nat) /\ Len(at) = Len(x.at) + 1 /\ Len(x.at) \in Nat
          /\ at[Len(at)] = s /\ at # <<>>
          /\ \A j \in 1..Len(x.at) : at[j] = x.at[j]
      <4> DEFINE z == x.at
      <4>1. z \in Seq(Nat)
        BY <3>2
      <4> HIDE DEF z
      <4>2. /\ Append(z, s) \in Seq(Nat) /\ Len(Append(z, s)) = Len(z) + 1 /\ Len(z) \in Nat
            /\ Append(z, s)[Len(z) + 1] = s
            /\ \A j \in 1..Len(z) : Append(z, s)[j] = z[j]
        BY <2>1, <4>1
      <4>3. Append(z, s) # <<>>
        BY <2>1, <4>1
      <4> QED BY <4>2, <4>3 DEF z
    <3> HIDE DEF at, n
    <3>5. \A j \in 1..Len(at) : at[j] + Len(old) <= n
      <4>1. \A j \in 1..Len(x.at) : x.at[j] + Len(old) <= n
        BY <3>2 DEF Apart, n
      <4> TAKE j \in 1..Len(at)
      <4>2. j \in 1..Len(x.at) \/ j = Len(at)
        BY <3>4
      <4> QED BY <3>3, <3>4, <4>1, <4>2
    <3>6. \A j \in 1..Len(at) - 1 : at[j] + Len(old) <= at[j + 1]
      <4> TAKE j \in 1..Len(at) - 1
      <4>1. j \in 1..Len(x.at) /\ at[j] = x.at[j]
        BY <3>4
      <4>2. CASE j = Len(x.at)
        <5>1. x.at # <<>>
          BY <4>1, <4>2
        <5>2. at[j + 1] = s /\ x.next = x.at[j] + Len(old)
          BY <3>2, <3>4, <4>2, <5>1
        <5>3. x.next <= s
          BY <2>1, <2>3, <3>2
        <5> QED BY <4>1, <5>2, <5>3
      <4>3. CASE j # Len(x.at)
        <5>1. j \in 1..Len(x.at) - 1 /\ j + 1 \in 1..Len(x.at)
          BY <3>4, <4>1, <4>3
        <5>2. x.at[j] + Len(old) <= x.at[j + 1]
          BY <3>2, <5>1 DEF Apart
        <5> QED BY <3>4, <4>1, <5>1, <5>2
      <4> QED BY <4>2, <4>3
    <3>7. Apart(c, old, at)
      BY <3>4, <3>5, <3>6 DEF Apart, n
    <3>8. y.next \in Nat /\ y.next = at[Len(at)] + Len(old) /\ y.at = at /\ y \in [next : Nat, at : Seq(Nat)]
      BY <1>2, <2>1, <3>4 DEF at
    <3> HIDE DEF y
    <3>9. ScanInv(p, l, i, y)
      BY <3>7, <3>8 DEF ScanInv
    <3> QED BY <3>1, <3>9 DEF s
  <2> QED BY <2>2, <2>3
<1> HIDE DEF b, l, n
<1>5. ScanInv(p, l, n, ScanLeft!FoldedLeft(p, b, l))
  BY <1>2, <1>3, <1>4, ScanInducts, ScanLeft!FoldHolds
<1>6. Apart(c, old, Starts(c, old))
  BY <1>1, <1>5 DEF ScanInv
<1>7. old = <<>> => Starts(c, old) = <<>>
  <2> SUFFICES ASSUME old = <<>> PROVE Starts(c, old) = <<>>
    OBVIOUS
  <2>1. PICK h : ScanLeft!Traces(h, p, b, l, n) /\ ScanLeft!FoldedLeft(p, b, l) = h[n]
    BY <1>2, ScanInducts, ScanLeft!FoldTrace
  <2>2. Occurrences(c, old) = {}
    BY DEF Occurrences
  <2> DEFINE T == {i \in Nat : i <= n => h[i] = b}
  <2>3. 0 \in T
    BY <2>1 DEF ScanLeft!Traces
  <2>4. ASSUME NEW i \in Nat, i \in T PROVE i + 1 \in T
    <3> SUFFICES ASSUME i + 1 <= n PROVE h[i + 1] = b
      OBVIOUS
    <3>1. i + 1 \in 1..n /\ (i + 1) - 1 = i /\ i <= n
      BY <1>2
    <3>2. h[i + 1] = ScanStep(p, h[i], l[i + 1])
      BY <2>1, <3>1 DEF ScanLeft!Traces
    <3>3. h[i] = b
      BY <2>4, <3>1
    <3> QED BY <2>2, <3>2, <3>3 DEF ScanStep
  <2>5. Nat \subseteq T
    <3> HIDE DEF T
    <3> QED BY <2>3, <2>4, Induction
  <2>6. h[n] = b
    BY <1>2, <2>5
  <2> QED BY <1>1, <2>1, <2>6 DEF b
<1> QED BY <1>6, <1>7

Span2 == [old : Content, new : Content]

\* One anchored edit (anchored_replace_all).
AnchorStep(p, acc, start) ==
  LET at == start + acc.shift
      w == UniqueWindow(acc.work, at, Len(p.old))
      span == Slice(acc.work, w.from, w.to)
      replaced == Slice(acc.work, w.from, at) \o p.new
                    \o Slice(acc.work, at + Len(p.old), w.to)
  IN  [work |-> Splice(acc.work, at, at + Len(p.old), p.new),
       shift |-> acc.shift + Len(p.new) - Len(p.old),
       edits |-> Append(acc.edits, [old |-> span, new |-> replaced])]
AnchorInv(p, l, k, acc) ==
  /\ acc \in [work : Content, shift : Int, edits : Seq(Span2)]
  /\ Len(acc.work) = Len(p.c) + acc.shift
  /\ k = 0 => acc.shift = 0
  /\ k > 0 => l[k] + Len(p.old) + acc.shift >= 0
AnchorLeft == INSTANCE StepFolds WITH FoldStep <- AnchorStep, FoldInv <- AnchorInv

\* Induction, for this fold.
LEMMA AnchorInducts == AnchorLeft!Inducts
BY Inducting DEF AnchorLeft!Inducts

\* anchored_replace_all: a series of edits.
LEMMA AnchoredType ==
  ASSUME NEW c \in Content, NEW old \in Content, NEW new \in Content
  PROVE  AnchoredReplaceAll(c, old, new) \in Seq(Span2)
<1> DEFINE p == [c |-> c, old |-> old, new |-> new]
           b == [work |-> c, shift |-> 0, edits |-> <<>>]
           l == Starts(c, old)
           n == Len(l)
<1>1. AnchoredReplaceAll(c, old, new) = AnchorLeft!FoldedLeft(p, b, l).edits
  BY SMTT(30) DEF AnchoredReplaceAll, AnchorLeft!FoldedLeft, AnchorStep, FoldLeft, MapThenFoldSet, Max
<1>2. Apart(c, old, l) /\ (l # <<>> => old # <<>>)
  BY StartsAre
<1> HIDE DEF l
<1>3. /\ n \in Nat /\ DOMAIN l = 1..n /\ Len(old) \in Nat /\ Len(new) \in Nat /\ Len(c) \in Nat
      /\ n > 0 => Len(old) > 0
      /\ \A i \in 1..n : l[i] \in Nat
  BY <1>2 DEF Apart, Content
<1>4. AnchorInv(p, l, 0, b)
  BY DEF AnchorInv
<1>5. ASSUME NEW i \in 1..n, NEW x, AnchorInv(p, l, i - 1, x)
      PROVE  AnchorInv(p, l, i, AnchorStep(p, x, l[i]))
  <2> DEFINE at == l[i] + x.shift
             m == Len(old)
             end == at + m
             w == UniqueWindow(x.work, at, m)
             span == Slice(x.work, w.from, w.to)
             left == Slice(x.work, w.from, at)
             right == Slice(x.work, end, w.to)
             replaced == left \o new \o right
             work == Splice(x.work, at, end, new)
  <2>1. /\ x.work \in Content /\ x.shift \in Int /\ x.edits \in Seq(Span2)
        /\ Len(x.work) = Len(c) + x.shift /\ Len(x.work) \in Nat
        /\ i - 1 = 0 => x.shift = 0
        /\ i - 1 > 0 => l[i - 1] + m + x.shift >= 0
    BY <1>5 DEF AnchorInv, Content
  <2>2. /\ l[i] \in Nat /\ l[i] + m <= Len(c) /\ m \in Nat \ {0}
        /\ i # 1 => l[i - 1] \in Nat /\ l[i - 1] + m <= l[i]
    <3>1. n > 0 /\ (i # 1 => i - 1 \in 1..n - 1 /\ (i - 1) + 1 = i)
      BY <1>3
    <3> QED BY <1>2, <1>3, <3>1 DEF Apart
  <2>3. at \in Nat /\ end \in Nat /\ at + m <= Len(x.work) /\ at <= end
    <3>1. at >= 0
      <4>1. CASE i = 1
        BY <2>1, <2>2, <4>1
      <4>2. CASE i # 1
        <5>1. i - 1 > 0
          BY <4>2
        <5> HIDE DEF m
        <5> QED BY <2>1, <2>2, <4>2, <5>1
      <4> QED BY <4>1, <4>2
    <3>2. at \in Int /\ end = at + m
      BY <2>1, <2>2
    <3>3. at + m <= Len(x.work)
      <4> HIDE DEF m
      <4>1. l[i] + x.shift + m <= Len(c) + x.shift
        BY <1>3, <2>1, <2>2
      <4> QED BY <2>1, <4>1
    <3> HIDE DEF m, at, end
    <3> QED BY <2>2, <3>1, <3>2, <3>3
  <2> HIDE DEF at, m
  <2>4. w \in Window /\ w.from <= at /\ end <= w.to /\ w.to <= Len(x.work)
    BY <2>1, <2>2, <2>3, UniqueWindowIs
  <2> HIDE DEF w, end
  <2>5. /\ w.from \in Nat /\ w.to \in Nat /\ w.from <= w.to /\ at <= Len(x.work)
        /\ at <= end /\ end <= Len(x.work)
    BY <2>1, <2>3, <2>4 DEF Window, end
  <2>6. span \in Content /\ left \in Content /\ right \in Content
    <3>1. span \in Content
      BY <2>1, <2>4, <2>5, SliceIs
    <3>2. left \in Content
      BY <2>1, <2>3, <2>4, <2>5, SliceIs
    <3>3. right \in Content
      BY <2>1, <2>3, <2>4, <2>5, SliceIs
    <3> QED BY <3>1, <3>2, <3>3
  <2> HIDE DEF span, left, right
  <2>7. replaced \in Content
    BY <2>6 DEF Content
  <2>8. work \in Content /\ Len(work) = Len(x.work) - m + Len(new)
    <3>1. work \in Content /\ Len(work) = Len(x.work) - (end - at) + Len(new)
      <4>1. x.work \in Content
        BY <2>1
      <4>2. end \in Nat /\ at \in Nat /\ at <= end /\ end <= Len(x.work)
        BY <2>3, <2>5
      <4> DEFINE z == x.work
      <4> HIDE DEF end, work, z
      <4>3. Splice(z, at, end, new) \in Content /\ Len(Splice(z, at, end, new)) = Len(z) - (end - at) + Len(new)
        <5>1. z \in Content /\ new \in Content
          BY <4>1 DEF z
        <5>2. end <= Len(z)
          BY <4>2 DEF z
        <5> QED BY ONLY <4>2, <5>1, <5>2, SpliceSize
      <4> QED BY <4>3 DEF work, z
    <3>2. end - at = m
      BY <2>2, <2>3 DEF end
    <3> QED BY <3>1, <3>2
  <2> HIDE DEF replaced, work
  <2> DEFINE y == [work |-> work, shift |-> x.shift + Len(new) - m,
                   edits |-> Append(x.edits, [old |-> span, new |-> replaced])]
  <2>9. AnchorStep(p, x, l[i]) = y
    BY DEF AnchorStep, work, span, replaced, w, left, right, at, end, m
  <2>10. y \in [work : Content, shift : Int, edits : Seq(Span2)]
    <3>1. [old |-> span, new |-> replaced] \in Span2
      BY <2>6, <2>7 DEF Span2
    <3>2. Append(x.edits, [old |-> span, new |-> replaced]) \in Seq(Span2)
      BY <2>1, <3>1
    <3>3. x.shift + Len(new) - m \in Int
      BY <1>3, <2>1, <2>2
    <3> QED BY <2>8, <3>2, <3>3
  <2>11. Len(y.work) = Len(c) + y.shift
    <3>1. y.work = work /\ y.shift = x.shift + Len(new) - m
      OBVIOUS
    <3> HIDE DEF y
    <3>2. Len(work) = Len(c) + x.shift - m + Len(new)
      <4> DEFINE k == Len(x.work)
                 d == x.shift
      <4>1. k = Len(c) + d /\ k \in Nat /\ d \in Int /\ Len(work) = k - m + Len(new) /\ m \in Nat
        BY <2>1, <2>2, <2>8
      <4> HIDE DEF k, d
      <4>2. Len(work) = Len(c) + d - m + Len(new)
        BY <1>3, <4>1
      <4> QED BY <4>2 DEF d
    <3> QED BY <1>3, <2>1, <2>2, <3>1, <3>2
  <2>12. l[i] + m + y.shift >= 0
    <3>1. y.shift = x.shift + Len(new) - m
      OBVIOUS
    <3>2. l[i] + m + y.shift = at + Len(new)
      <4> HIDE DEF y
      <4> QED BY <1>3, <2>1, <2>2, <3>1 DEF at
    <3> QED BY <1>3, <2>3, <3>2
  <2>13. ~(i = 0)
    OBVIOUS
  <2>14. p.c = c /\ p.old = old /\ m = Len(old)
    BY DEF m
  <2> HIDE DEF y, p
  <2> QED BY <2>9, <2>10, <2>11, <2>12, <2>13, <2>14 DEF AnchorInv
<1> HIDE DEF b, n, p
<1>6. AnchorInv(p, l, n, AnchorLeft!FoldedLeft(p, b, l))
  BY <1>3, <1>4, <1>5, AnchorInducts, AnchorLeft!FoldHolds
<1> QED BY <1>1, <1>6 DEF AnchorInv

-----------------------------------------------------------------------------
(* What a call's tool asks applies where it was planned (intent_for).      *)

\* One operation run, and two.
LEMMA RanSingle ==
  ASSUME NEW r, NEW o
  PROVE  Ran(r, <<>>) = r /\ Ran(r, <<o>>) = ApplyOp(r, o)
<1> DEFINE X == {o}
           none == <<>>
<1>1. o \in X /\ none \in Seq(X)
  OBVIOUS
<1>2. <<o>> = Append(none, o)
  OBVIOUS
<1> HIDE DEF X, none
<1>3. Ran(r, <<>>) = r /\ Ran(r, Append(none, o)) = ApplyOp(Ran(r, none), o)
  BY <1>1, RanOne
<1> QED BY <1>2, <1>3 DEF none

\* Two operations.
LEMMA RanTwo ==
  ASSUME NEW r, NEW o, NEW q
  PROVE  Ran(r, <<o, q>>) = ApplyOp(ApplyOp(r, o), q)
<1> DEFINE X == {o, q}
           one == <<o>>
<1>1. o \in X /\ q \in X /\ one \in Seq(X)
  OBVIOUS
<1>2. <<o, q>> = Append(one, q)
  OBVIOUS
<1>3. Ran(r, one) = ApplyOp(r, o)
  BY RanSingle
<1> HIDE DEF X, one
<1>4. Ran(r, Append(one, q)) = ApplyOp(Ran(r, one), q)
  BY <1>1, RanOne
<1> QED BY <1>2, <1>3, <1>4

\* The operations of one call: on its path, a delete only at the head, and
\* edits only among edits.
Shape(ops, x) ==
  \A k \in 1..Len(ops) :
    /\ ops[k].path = x
    /\ ops[k].op = "delete" => k = 1
    /\ ops[k].op = "edit" => \A j \in 1..Len(ops) : ops[j].op = "edit"

EditsOn(x) == [op : {"edit"}, path : {x}, old : Content, new : Content]
Replay1 == [ok : BOOLEAN, content : Content, ops : Seq(Edits)]
EditStep(x, acc, e) ==
  IF acc.ok /\ Unique(acc.content, e.old)
  THEN [acc EXCEPT
          !.content = Replaced(@, e.old, e.new),
          !.ops = Append(@, [op |-> "edit", path |-> x, old |-> e.old, new |-> e.new])]
  ELSE [acc EXCEPT !.ok = FALSE]

\* What the edits so far made of the content, they make of the state.
Replays(m, x, acc) ==
  /\ acc \in Replay1
  /\ \A k \in 1..Len(acc.ops) : acc.ops[k].path = x
  /\ acc.ok => Ran(Fresh(m), acc.ops) = Fresh([m EXCEPT ![x] = acc.content])

\* One more edit of a series applies where the series led.
LEMMA EditReplays ==
  ASSUME NEW m \in State, NEW x \in Paths, NEW acc, Replays(m, x, acc), NEW e \in Span2
  PROVE  Replays(m, x, EditStep(x, acc, e))
<1>1. acc \in Replay1 /\ e.old \in Content /\ e.new \in Content
  BY DEF Replays, Span2
<1>2. CASE ~(acc.ok /\ Unique(acc.content, e.old))
  <2>1. EditStep(x, acc, e) = [acc EXCEPT !.ok = FALSE]
    BY <1>2 DEF EditStep
  <2> QED BY <1>1, <2>1 DEF Replays, Replay1
<1>3. CASE acc.ok /\ Unique(acc.content, e.old)
  <2> DEFINE o == [op |-> "edit", path |-> x, old |-> e.old, new |-> e.new]
             c == Replaced(acc.content, e.old, e.new)
             ops == Append(acc.ops, o)
             y == [ok |-> TRUE, content |-> c, ops |-> ops]
             s == [m EXCEPT ![x] = acc.content]
  <2>1. EditStep(x, acc, e) = y
    BY <1>1, <1>3 DEF EditStep, Replay1
  <2>2. c \in Content
    BY <1>1, <1>3, ReplacedType DEF Replay1
  <2>3. o \in Edits
    BY <1>1 DEF Edits
  <2>4. ops \in Seq(Edits) /\ \A k \in 1..Len(ops) : ops[k].path = x
    <3> DEFINE z == acc.ops
    <3>1. z \in Seq(Edits) /\ \A k \in 1..Len(z) : z[k].path = x
      BY <1>1 DEF Replay1, Replays
    <3>2. o.path = x
      OBVIOUS
    <3> HIDE DEF z, o
    <3>3. Append(z, o) \in Seq(Edits) /\ \A k \in 1..Len(Append(z, o)) : Append(z, o)[k].path = x
      BY <2>3, <3>1, <3>2
    <3> QED BY <3>3 DEF z
  <2>5. Ran(Fresh(m), ops) = Fresh([m EXCEPT ![x] = c])
    <3>1. acc.ops \in Seq(Edits)
      BY <1>1 DEF Replay1
    <3>2. Ran(Fresh(m), acc.ops) = Fresh(s)
      BY <1>3 DEF Replays
    <3>3. Ran(Fresh(m), ops) = ApplyOp(Fresh(s), o)
      <4> HIDE DEF o, s
      <4> QED BY <2>3, <3>1, <3>2, RanOne
    <3>4. s[x] = acc.content /\ acc.content # NoFile
      BY <1>1, PlanAssumption DEF State, Replay1
    <3>5. ApplyOp(Fresh(s), o) = Fresh([s EXCEPT ![x] = c])
      BY <1>3, <3>4 DEF ApplyOp, Fresh
    <3>6. [s EXCEPT ![x] = c] = [m EXCEPT ![x] = c]
      BY DEF State
    <3> QED BY <3>3, <3>5, <3>6
  <2> HIDE DEF c, ops
  <2> QED BY <2>1, <2>2, <2>4, <2>5 DEF Replays, Replay1
<1> QED BY <1>2, <1>3

EditInv(p, l, k, acc) == Replays(p.m, p.x, acc)
EditLeft == INSTANCE StepFolds WITH FoldStep <- EditStep, FoldInv <- EditInv

\* Induction, for this fold.
LEMMA EditInducts == EditLeft!Inducts
BY Inducting DEF EditLeft!Inducts

\* So does the series.
LEMMA SeriesReplays ==
  ASSUME NEW m \in State, NEW x \in Paths, NEW acc, Replays(m, x, acc), NEW l \in Seq(Span2)
  PROVE  Replays(m, x, EditLeft!FoldedLeft(x, acc, l))
<1> DEFINE p == [m |-> m, x |-> x]
           n == Len(l)
<1>1. n \in Nat /\ DOMAIN l = 1..n
  OBVIOUS
<1>2. EditInv(p, l, 0, acc)
  BY DEF EditInv
<1>3. ASSUME NEW i \in 1..n, NEW y, EditInv(p, l, i - 1, y)
      PROVE  EditInv(p, l, i, EditStep(x, y, l[i]))
  <2>1. l[i] \in Span2 /\ p.m = m /\ p.x = x
    BY <1>1
  <2> HIDE DEF p
  <2> QED BY <1>3, <2>1, EditReplays DEF EditInv
<1>4. p.m = m /\ p.x = x
  OBVIOUS
<1> HIDE DEF p, n
<1>5. EditInv(p, l, n, EditLeft!FoldedLeft(x, acc, l))
  BY <1>1, <1>2, <1>3, EditInducts, EditLeft!FoldHolds
<1> QED BY <1>4, <1>5 DEF EditInv, p

\* The edits of one span, and of all of a call's.
SpanStep(x, acc, span) ==
  LET series == SeriesOf(acc.content, span)
  IN  IF acc.ok /\ series # <<>> THEN EditLeft!FoldedLeft(x, acc, series)
                                 ELSE [acc EXCEPT !.ok = FALSE]
SpanInv(p, l, k, acc) == Replays(p.m, p.x, acc)
SpanLeft == INSTANCE StepFolds WITH FoldStep <- SpanStep, FoldInv <- SpanInv

\* Induction, for this fold.
LEMMA SpanInducts == SpanLeft!Inducts
BY Inducting DEF SpanLeft!Inducts

\* So do a call's spans, one series after another.
LEMMA SpansReplay ==
  ASSUME NEW m \in State, NEW x \in Paths, m[x] # NoFile, NEW l \in Seq(Span)
  PROVE  Replays(m, x, SpanLeft!FoldedLeft(x, [ok |-> TRUE, content |-> m[x], ops |-> <<>>], l))
<1> DEFINE p == [m |-> m, x |-> x]
           b == [ok |-> TRUE, content |-> m[x], ops |-> <<>>]
           n == Len(l)
<1>1. n \in Nat /\ DOMAIN l = 1..n /\ p.m = m /\ p.x = x
  OBVIOUS
<1>2. SpanInv(p, l, 0, b)
  <2>1. b \in Replay1
    BY DEF State, Replay1
  <2>2. [m EXCEPT ![x] = m[x]] = m
    BY DEF State
  <2>3. Ran(Fresh(m), <<>>) = Fresh(m)
    <3>1. <<>> \in Seq({0}) /\ 0 \in {0}
      OBVIOUS
    <3> QED BY <3>1, RanOne
  <2> QED BY <1>1, <2>1, <2>2, <2>3 DEF SpanInv, Replays
<1>3. ASSUME NEW i \in 1..n, NEW y, SpanInv(p, l, i - 1, y)
      PROVE  SpanInv(p, l, i, SpanStep(x, y, l[i]))
  <2> DEFINE series == SeriesOf(y.content, l[i])
  <2>1. l[i] \in Span /\ Replays(m, x, y)
    BY <1>1, <1>3 DEF SpanInv
  <2>2. series \in Seq(Span2)
    <3>1. l[i].old \in Content /\ l[i].new \in Content /\ y.content \in Content
      BY <2>1 DEF Span, Replays, Replay1
    <3>2. AnchoredReplaceAll(y.content, l[i].old, l[i].new) \in Seq(Span2)
      BY <3>1, AnchoredType
    <3>3. <<[old |-> l[i].old, new |-> l[i].new]>> \in Seq(Span2)
      <4>1. [old |-> l[i].old, new |-> l[i].new] \in Span2
        BY <3>1 DEF Span2
      <4> QED BY <4>1
    <3> QED BY <3>2, <3>3 DEF SeriesOf
  <2>3. SpanStep(x, y, l[i]) = IF y.ok /\ series # <<>> THEN EditLeft!FoldedLeft(x, y, series)
                               ELSE [y EXCEPT !.ok = FALSE]
    BY DEF SpanStep
  <2> HIDE DEF series
  <2>4. Replays(m, x, EditLeft!FoldedLeft(x, y, series))
    BY <2>1, <2>2, SeriesReplays
  <2>5. Replays(m, x, [y EXCEPT !.ok = FALSE])
    BY <2>1 DEF Replays, Replay1
  <2>6. Replays(m, x, SpanStep(x, y, l[i]))
    BY <2>3, <2>4, <2>5
  <2> HIDE DEF p
  <2> QED BY <1>1, <2>6 DEF SpanInv
<1> HIDE DEF p, b, n
<1>4. SpanInv(p, l, n, SpanLeft!FoldedLeft(x, b, l))
  BY <1>1, <1>2, <1>3, SpanInducts, SpanLeft!FoldHolds
<1> QED BY <1>1, <1>4 DEF SpanInv, p, b

\* intent_for: what it makes of a tool applies to the state it was made for.
LEMMA IntentIs ==
  ASSUME NEW m \in State, NEW tool \in Tool
  PROVE  LET i == IntentFor(m, tool)
         IN  /\ i.ok \in BOOLEAN /\ i.ops \in Seq(Op) /\ Shape(i.ops, tool.path)
             /\ i.ok => Ran(Fresh(m), i.ops).ok
<1> DEFINE x == tool.path
           create == [op |-> "create", path |-> x, content |-> tool.content]
           delete == [op |-> "delete", path |-> x, content |-> m[x]]
           b == [ok |-> TRUE, content |-> m[x], ops |-> <<>>]
           r == SpanLeft!FoldedLeft(x, b, tool.spans)
           whole == IF m[x] = NoFile THEN <<create>> ELSE <<delete, create>>
<1>1. x \in Paths /\ m[x] \in Content \cup {NoFile}
  BY DEF Tool, State
<1>2. CASE tool.tool = "Write"
  <2>1. tool.content \in Content
    BY <1>2 DEF Tool
  <2>2. IntentFor(m, tool) = [ok |-> TRUE, ops |-> whole]
    BY <1>2 DEF IntentFor
  <2>3. create \in Op /\ (m[x] # NoFile => delete \in Op)
    BY <1>1, <2>1 DEF Op, Creates, Deletes
  <2>4. create.path = x /\ create.op = "create" /\ delete.path = x /\ delete.op = "delete"
    OBVIOUS
  <2>5. ApplyOp(Fresh(m), delete) = Fresh([m EXCEPT ![x] = NoFile])
    BY <1>1 DEF ApplyOp, Fresh
  <2>6. \A s \in State : s[x] = NoFile => ApplyOp(Fresh(s), create).ok
    BY <1>1 DEF ApplyOp, Fresh
  <2>7. [m EXCEPT ![x] = NoFile] \in State /\ [m EXCEPT ![x] = NoFile][x] = NoFile
    BY <1>1 DEF State
  <2> HIDE DEF x, create, delete
  <2>8. CASE m[x] = NoFile
    <3>1. whole = Append(<<>>, create) /\ <<>> \in Seq(Op)
      BY <2>8
    <3>2. Ran(Fresh(m), whole).ok
      <4>1. whole = <<create>>
        BY <2>8
      <4>2. Ran(Fresh(m), whole) = ApplyOp(Fresh(m), create)
        BY <4>1, RanSingle
      <4> QED BY <2>6, <2>8, <4>2
    <3>3. whole \in Seq(Op) /\ Shape(whole, x)
      BY <2>3, <2>4, <3>1 DEF Shape
    <3> QED BY <2>2, <3>2, <3>3 DEF x
  <2>9. CASE m[x] # NoFile
    <3>2. Ran(Fresh(m), whole).ok
      <4>1. whole = <<delete, create>>
        BY <2>9
      <4>2. Ran(Fresh(m), whole) = ApplyOp(ApplyOp(Fresh(m), delete), create)
        BY <4>1, RanTwo
      <4> QED BY <2>5, <2>6, <2>7, <4>2
    <3>3. whole = <<delete, create>>
      BY <2>9
    <3> HIDE DEF whole
    <3>4. whole \in Seq(Op) /\ Shape(whole, x)
      BY <2>3, <2>4, <2>9, <3>3 DEF Shape
    <3> QED BY <2>2, <3>2, <3>4 DEF x
  <2> QED BY <2>8, <2>9
<1>3. CASE tool.tool # "Write" /\ m[x] = NoFile
  <2>1. IntentFor(m, tool) = [ok |-> FALSE, ops |-> <<>>]
    BY <1>3 DEF IntentFor
  <2> QED BY <2>1 DEF Shape
<1>4. CASE tool.tool # "Write" /\ m[x] # NoFile
  <2>1. tool.spans \in Seq(Span)
    BY <1>4 DEF Tool
  <2>2. IntentFor(m, tool) = [ok |-> r.ok, ops |-> r.ops]
    BY <1>4 DEF IntentFor, SpanLeft!FoldedLeft, SpanStep, EditLeft!FoldedLeft, EditStep, FoldLeft,
      MapThenFoldSet, Max
  <2>3. Replays(m, x, r)
    BY <1>1, <1>4, <2>1, SpansReplay
  <2> HIDE DEF r, x
  <2>4. r.ok \in BOOLEAN /\ r.ops \in Seq(Edits) /\ \A k \in 1..Len(r.ops) : r.ops[k].path = x
    BY <2>3 DEF Replays, Replay1
  <2>5. r.ops \in Seq(Op)
    BY <2>4 DEF Op
  <2>6. Shape(r.ops, x)
    <3> DEFINE z == r.ops
    <3>2. z \in Seq(Edits)
      BY <2>4
    <3> HIDE DEF z
    <3>3. \A k \in 1..Len(z) : z[k].op = "edit"
      <4> TAKE k \in 1..Len(z)
      <4>1. z[k] \in Edits
        BY <3>2
      <4> QED BY <4>1 DEF Edits
    <3>1. \A k \in 1..Len(r.ops) : r.ops[k].op = "edit"
      BY <3>3 DEF z
    <3> QED BY <2>4, <3>1 DEF Shape
  <2>7. r.ok => Ran(Fresh(m), r.ops).ok
    BY <2>3 DEF Replays, Fresh
  <2> QED BY <2>2, <2>4, <2>5, <2>6, <2>7 DEF x
<1> QED BY <1>2, <1>3, <1>4

-----------------------------------------------------------------------------
(* Tracks: who wrote which bytes.                                          *)

Run == [start : Nat, end : Nat, call : Nat, op : Nat, at : Nat]
SeatOf(r) == <<r.call, r.op>>

\* The run's bytes of content c are those of its operation's new text, N
\* being the new texts by seat.
RunOK(r, c, N) ==
  /\ r \in Run
  /\ SeatOf(r) \in DOMAIN N /\ N[SeatOf(r)] \in Content
  /\ r.start <= r.end /\ r.end <= Len(c)
  /\ r.at + (r.end - r.start) <= Len(N[SeatOf(r)])
  /\ \A j \in Nat : r.start < j /\ j <= r.end => c[j] = N[SeatOf(r)][r.at + (j - r.start)]

\* Two runs share no byte of the content, nor of one operation's new text.
Disjoint(r, s) ==
  /\ r.end <= s.start \/ s.end <= r.start
  /\ SeatOf(r) = SeatOf(s) =>
       r.at + (r.end - r.start) <= s.at \/ s.at + (s.end - s.start) <= r.at

TrackOK(t, c, N) ==
  /\ \A r \in t.runs : RunOK(r, c, N)
  /\ \A r, s \in t.runs : r = s \/ Disjoint(r, s)

\* A splice, byte by byte, in the places of the old content.
Moved(t, c, at, end, new, d) ==
  /\ t \in Content /\ d \in Int /\ Len(new) \in Nat /\ Len(c) \in Nat
  /\ Len(t) = Len(c) + d /\ d = Len(new) - (end - at) /\ Len(t) \in Nat
  /\ at + Len(new) <= Len(t)
  /\ \A j \in Nat : 0 < j /\ j <= at => t[j] = c[j]
  /\ \A j \in Nat : at < j /\ j <= at + Len(new) => t[j] = new[j - at]
  /\ \A j \in Nat : end < j /\ j <= Len(c) => t[j + d] = c[j]

\* Splice, byte by byte.
LEMMA SplicePoints ==
  ASSUME NEW c \in Content, NEW new \in Content,
         NEW at \in Nat, NEW end \in Nat, at <= end, end <= Len(c),
         NEW d, d = Len(new) - (end - at), NEW t, t = Splice(c, at, end, new)
  PROVE  Moved(t, c, at, end, new, d)
<1> DEFINE a == Slice(c, 0, at)
           b == Slice(c, end, Len(c))
<1>1. Len(c) \in Nat /\ Len(new) \in Nat
  BY DEF Content
<1>2. a \in Content /\ Len(a) = at /\ \A k \in 1..at : a[k] = c[k]
  BY <1>1 DEF Slice, Content
<1>3. b \in Content /\ Len(b) = Len(c) - end /\ \A k \in 1..Len(c) - end : b[k] = c[end + k]
  BY <1>1 DEF Slice, Content
<1> HIDE DEF a, b
<1> DEFINE u == a \o new
           v == u \o b
<1>4. /\ u \in Seq(Bytes) /\ Len(u) = at + Len(new)
      /\ \A k \in 1..at : u[k] = a[k]
      /\ \A k \in 1..Len(new) : u[at + k] = new[k]
  <2>1. a \in Seq(Bytes) /\ new \in Seq(Bytes)
    BY <1>2 DEF Content
  <2> QED BY <1>2, <2>1
<1> HIDE DEF u
<1>5. /\ v \in Seq(Bytes) /\ Len(v) = Len(u) + Len(b)
      /\ \A k \in 1..Len(u) : v[k] = u[k]
      /\ \A k \in 1..Len(b) : v[Len(u) + k] = b[k]
  <2>1. b \in Seq(Bytes)
    BY <1>3 DEF Content
  <2>2. u \in Seq(Bytes)
    BY <1>4
  <2> QED BY <2>1, <2>2
<1>6. t = v
  BY DEF Splice, a, b, u
<1> HIDE DEF v
<1>7. Len(t) = Len(c) - (end - at) + Len(new)
  BY <1>1, <1>3, <1>4, <1>5, <1>6
<1>8. \A k \in 1..at : t[k] = c[k]
  <2> TAKE k \in 1..at
  <2>1. k \in 1..Len(u)
    BY <1>1, <1>4
  <2> QED BY <1>2, <1>4, <1>5, <1>6, <2>1
<1>9. \A k \in 1..Len(new) : t[at + k] = new[k]
  <2> TAKE k \in 1..Len(new)
  <2>1. at + k \in 1..Len(u)
    BY <1>1, <1>4
  <2> QED BY <1>4, <1>5, <1>6, <2>1
<1>10. \A k \in 1..Len(c) - end : t[at + Len(new) + k] = c[end + k]
  BY <1>1, <1>3, <1>4, <1>5, <1>6
<1>11. ASSUME NEW j \in Nat, at < j, j <= at + Len(new) PROVE t[j] = new[j - at]
  <2>1. j - at \in 1..Len(new) /\ at + (j - at) = j
    BY <1>1, <1>11
  <2> QED BY <1>9, <2>1
<1>12. ASSUME NEW j \in Nat, end < j, j <= Len(c) PROVE t[j + d] = c[j]
  <2>1. j - end \in 1..Len(c) - end /\ end + (j - end) = j /\ at + Len(new) + (j - end) = j + d
    BY <1>1, <1>12
  <2> QED BY <1>10, <2>1
<1>13. d \in Int /\ Len(t) = Len(c) + d /\ t \in Content /\ Len(t) \in Nat
  BY <1>1, <1>5, <1>6, <1>7 DEF Content
<1>15. at + Len(new) <= Len(t)
  BY <1>1, <1>7
<1>14. \A j \in Nat : 0 < j /\ j <= at => t[j] = c[j]
  BY <1>8
<1> QED BY <1>1, <1>11, <1>12, <1>13, <1>14, <1>15 DEF Moved

\* What is left of a run in front of an edit of [at..end), and behind it.
IsLeft(p, r, at) ==
  /\ p.call = r.call /\ p.op = r.op /\ p.at = r.at /\ p.start = r.start
  /\ p.end = IF r.end <= at THEN r.end ELSE at
  /\ r.end <= at \/ r.start < at
IsRight(p, r, end, d) ==
  LET lo == IF r.start >= end THEN r.start ELSE end
  IN  /\ p.call = r.call /\ p.op = r.op /\ p.at = r.at + (lo - r.start)
      /\ p.start = lo + d /\ p.end = r.end + d
      /\ lo <= r.end

\* Track::edit leaves pieces of the runs, and the run it makes.
LEMMA PiecesAre ==
  ASSUME NEW t, t.runs \subseteq Run, NEW at \in Nat, NEW len \in Nat \ {0}, NEW n \in Nat,
         NEW call \in Nat, NEW op \in Nat, \A r \in t.runs : r.start <= r.end,
         NEW p \in TrackEdit(t, at, len, n, call, op).runs
  PROVE  /\ p \in Run
         /\ \/ p = [start |-> at, end |-> at + n, call |-> call, op |-> op, at |-> 0]
            \/ \E r \in t.runs : IsLeft(p, r, at) \/ IsRight(p, r, at + len, n - len)
<1> DEFINE end == at + len
           d == n - len
           before == {r \in t.runs : r.end <= at}
           after == {r \in t.runs \ before : r.start >= end}
           bitten == t.runs \ (before \cup after)
           own == [start |-> at, end |-> at + n, call |-> call, op |-> op, at |-> 0]
<1>1. end \in Nat /\ d \in Int /\ at < end /\ d + end = at + n
  OBVIOUS
<1>2. own \in Run
  BY DEF Run
<1>3. \/ p \in before
      \/ \E r \in after : p = [r EXCEPT !.start = @ + d, !.end = @ + d]
      \/ \E r \in bitten : r.start < at /\ p = [r EXCEPT !.end = at]
      \/ \E r \in bitten : r.end > end /\ p = [r EXCEPT !.start = at + n, !.end = @ + d,
                                                        !.at = @ + (end - r.start)]
      \/ p = own
  BY DEF TrackEdit
<1> HIDE DEF own, d, end
<1>4. CASE p \in before
  <2>1. p \in Run /\ IsLeft(p, p, at)
    BY <1>1, <1>4 DEF IsLeft
  <2> QED BY <1>4, <2>1
<1>5. ASSUME NEW r \in after, p = [r EXCEPT !.start = @ + d, !.end = @ + d]
      PROVE  p \in Run /\ IsRight(p, r, end, d)
  <2>1. r \in Run /\ r.start >= end /\ r.start <= r.end
    BY <1>1
  <2>2. /\ p.start = r.start + d /\ p.end = r.end + d /\ p.call = r.call /\ p.op = r.op /\ p.at = r.at
        /\ p = [start |-> r.start + d, end |-> r.end + d, call |-> r.call, op |-> r.op, at |-> r.at]
    BY <1>5, <2>1 DEF Run
  <2>3. r.start + d \in Nat /\ r.end + d \in Nat
    BY <1>1, <2>1 DEF Run
  <2>4. p \in Run
    BY <2>1, <2>2, <2>3 DEF Run
  <2>5. r.at + (r.start - r.start) = r.at
    BY <2>1 DEF Run
  <2> QED BY <2>1, <2>2, <2>4, <2>5 DEF IsRight
<1>6. ASSUME NEW r \in bitten, r.start < at, p = [r EXCEPT !.end = at]
      PROVE  p \in Run /\ IsLeft(p, r, at)
  <2>1. r \in Run /\ ~(r.end <= at)
    BY <1>1
  <2> QED BY <1>6, <2>1 DEF IsLeft, Run
<1>7. ASSUME NEW r \in bitten, r.end > end,
             p = [r EXCEPT !.start = at + n, !.end = @ + d, !.at = @ + (end - r.start)]
      PROVE  p \in Run /\ IsRight(p, r, end, d)
  <2>1. r \in Run /\ ~(r.start >= end)
    BY <1>1
  <2>2. /\ p.start = at + n /\ p.end = r.end + d /\ p.call = r.call /\ p.op = r.op
        /\ p.at = r.at + (end - r.start)
        /\ p = [start |-> at + n, end |-> r.end + d, call |-> r.call, op |-> r.op,
                at |-> r.at + (end - r.start)]
    BY <1>7, <2>1 DEF Run
  <2>3. r.end + d \in Nat /\ r.at + (end - r.start) \in Nat /\ at + n \in Nat
    BY <1>1, <1>7, <2>1 DEF Run
  <2>4. p \in Run
    BY <2>1, <2>2, <2>3 DEF Run
  <2>5. end + d = at + n /\ end <= r.end
    BY <1>1, <1>7, <2>1 DEF Run
  <2> QED BY <2>1, <2>2, <2>4, <2>5 DEF IsRight
<1>8. CASE p = own
  BY <1>2, <1>8 DEF own
<1> QED BY <1>3, <1>4, <1>5, <1>6, <1>7, <1>8 DEF end, d

\* What is left of a run in front of an edit is still its operation's text.
OnLeft(p, r, t, N, at) ==
  /\ RunOK(p, t, N) /\ SeatOf(p) = SeatOf(r) /\ p \in Run /\ r \in Run
  /\ p.end <= at /\ p.start = r.start /\ p.end <= r.end /\ p.at = r.at
  /\ p.at + (p.end - p.start) <= r.at + (r.end - r.start)
\* The part of a run left of an edit is where it was.
LEMMA LeftOK ==
  ASSUME NEW c, NEW N, NEW r, RunOK(r, c, N), NEW p \in Run, NEW at \in Nat, IsLeft(p, r, at),
         NEW t, NEW end, NEW w, NEW d, Moved(t, c, at, end, w, d), at <= Len(t)
  PROVE  OnLeft(p, r, t, N, at)
<1>1. /\ r \in Run /\ SeatOf(r) \in DOMAIN N /\ N[SeatOf(r)] \in Content
      /\ r.start \in Nat /\ r.end \in Nat /\ r.at \in Nat /\ r.start <= r.end
      /\ Len(N[SeatOf(r)]) \in Nat /\ r.at + (r.end - r.start) <= Len(N[SeatOf(r)])
      /\ \A j \in Nat : r.start < j /\ j <= r.end => c[j] = N[SeatOf(r)][r.at + (j - r.start)]
  BY DEF RunOK, Run, Content
<1>0. Len(t) \in Nat /\ \A j \in Nat : 0 < j /\ j <= at => t[j] = c[j]
  BY DEF Moved
<1>2. SeatOf(p) = SeatOf(r) /\ p.at = r.at /\ p.start = r.start
  BY DEF IsLeft, SeatOf
<1>3. p.end \in Nat /\ p.start <= p.end /\ p.end <= at /\ p.end <= r.end
  BY <1>1 DEF IsLeft
<1> DEFINE new == N[SeatOf(r)]
<1> HIDE DEF new
<1>4. p.end <= Len(t)
  BY <1>0, <1>3
<1>9. p.at + (p.end - p.start) <= r.at + (r.end - r.start)
  BY <1>1, <1>2, <1>3
<1>5. p.at + (p.end - p.start) <= Len(new)
  <2>1. p.at + (p.end - p.start) <= r.at + (r.end - r.start)
    BY <1>9
  <2>2. Len(new) \in Nat /\ r.at + (r.end - r.start) <= Len(new)
    BY <1>1 DEF new
  <2> QED BY <1>1, <1>2, <1>3, <2>1, <2>2
<1>6. ASSUME NEW j \in Nat, p.start < j, j <= p.end
      PROVE  t[j] = new[p.at + (j - p.start)]
  <2>1. 0 < j /\ j <= at /\ r.start < j /\ j <= r.end
    BY <1>1, <1>2, <1>3, <1>6
  <2>2. t[j] = c[j] /\ c[j] = new[r.at + (j - r.start)]
    BY <1>0, <1>1, <2>1 DEF new
  <2> QED BY <1>2, <2>2
<1>7. N[SeatOf(p)] = new /\ SeatOf(p) \in DOMAIN N /\ N[SeatOf(p)] \in Content
  BY <1>1, <1>2 DEF new
<1>8. RunOK(p, t, N)
  BY <1>3, <1>4, <1>5, <1>6, <1>7 DEF RunOK
<1> QED BY <1>1, <1>2, <1>3, <1>8, <1>9 DEF OnLeft

\* And so is what is left of it behind the edit, which moved.
OnRight(p, r, t, N, end, d) ==
  /\ RunOK(p, t, N) /\ SeatOf(p) = SeatOf(r) /\ p \in Run /\ r \in Run /\ p.at >= r.at
  /\ p.start >= end + d /\ p.start >= r.start + d /\ p.end = r.end + d
  /\ p.at + (p.end - p.start) = r.at + (r.end - r.start)
\* The part right of it is moved along.
LEMMA RightOK ==
  ASSUME NEW c, NEW N, NEW r, RunOK(r, c, N), NEW p \in Run, NEW at, NEW end \in Nat, NEW d,
         IsRight(p, r, end, d), NEW t, NEW w, Moved(t, c, at, end, w, d)
  PROVE  OnRight(p, r, t, N, end, d)
<1>20. /\ d \in Int /\ Len(c) \in Nat /\ Len(t) = Len(c) + d /\ Len(t) \in Nat
       /\ \A j \in Nat : end < j /\ j <= Len(c) => t[j + d] = c[j]
  BY DEF Moved
<1> DEFINE lo == IF r.start >= end THEN r.start ELSE end
           new == N[SeatOf(r)]
<1>1. /\ r \in Run /\ SeatOf(r) \in DOMAIN N /\ N[SeatOf(r)] \in Content
      /\ r.start \in Nat /\ r.end \in Nat /\ r.at \in Nat /\ r.start <= r.end /\ r.end <= Len(c)
      /\ Len(N[SeatOf(r)]) \in Nat /\ r.at + (r.end - r.start) <= Len(N[SeatOf(r)])
      /\ \A j \in Nat : r.start < j /\ j <= r.end => c[j] = N[SeatOf(r)][r.at + (j - r.start)]
  BY DEF RunOK, Run, Content
<1>2. /\ SeatOf(p) = SeatOf(r) /\ p.at = r.at + (lo - r.start)
      /\ p.start = lo + d /\ p.end = r.end + d /\ lo <= r.end
      /\ p.start \in Nat /\ p.end \in Nat /\ p.at \in Nat
  BY <1>20 DEF IsRight, SeatOf, Run
<1>3. lo \in Nat /\ lo >= r.start /\ lo >= end
  BY <1>1
<1> HIDE DEF lo, new
<1>0. /\ r.start \in Nat /\ r.end \in Nat /\ r.at \in Nat /\ lo \in Nat
      /\ p.start \in Nat /\ p.end \in Nat /\ p.at \in Nat
      /\ p.at = r.at + (lo - r.start) /\ p.start = lo + d /\ p.end = r.end + d
  BY <1>1, <1>2, <1>3
<1>4. p.start <= p.end /\ p.end <= Len(t)
  <2> DEFINE re == r.end
             lc == Len(c)
  <2>1. /\ p.start = lo + d /\ p.end = re + d /\ Len(t) = lc + d
        /\ lo \in Nat /\ re \in Nat /\ lc \in Nat /\ d \in Int /\ lo <= re /\ re <= lc
    BY ONLY <1>20, <1>1, <1>2, <1>3
  <2> HIDE DEF re, lc
  <2>2. lo + d <= re + d /\ re + d <= lc + d
    BY ONLY <2>1
  <2> QED BY ONLY <2>1, <2>2
<1>5. p.at + (p.end - p.start) = r.at + (r.end - r.start)
  <2> DEFINE rs == r.start
             re == r.end
             ra == r.at
  <2>1. ra \in Int /\ rs \in Int /\ re \in Int /\ lo \in Int /\ d \in Int
    BY <1>0, <1>20
  <2>2. p.at = ra + (lo - rs) /\ p.end = re + d /\ p.start = lo + d
    BY <1>0
  <2> HIDE DEF ra, rs, re
  <2>3. (ra + (lo - rs)) + ((re + d) - (lo + d)) = ra + (re - rs)
    BY <2>1
  <2> QED BY <2>2, <2>3 DEF ra, rs, re
<1>6. p.at + (p.end - p.start) <= Len(new)
  BY <1>1, <1>5 DEF new
<1>7. ASSUME NEW j \in Nat, p.start < j, j <= p.end
      PROVE  t[j] = new[p.at + (j - p.start)]
  <2> DEFINE i == j - d
  <2>1. i \in Nat /\ end < i /\ i <= Len(c) /\ r.start < i /\ i <= r.end /\ i + d = j
    <3>1. p.start = lo + d /\ p.end = r.end + d /\ lo >= r.start /\ lo >= end /\ r.end <= Len(c)
      BY <1>1, <1>2, <1>3
    <3>2. i \in Int /\ lo < i /\ i <= r.end /\ i + d = j
      <4> DEFINE re == r.end
      <4>1. lo + d < j /\ j <= re + d /\ re \in Int /\ lo \in Int
        BY <1>0, <1>7, <3>1
      <4> HIDE DEF re
      <4>2. i \in Int /\ lo < i /\ i <= re /\ i + d = j
        BY <1>20, <4>1
      <4> QED BY <4>2 DEF re
    <3> HIDE DEF i
    <3> DEFINE rs == r.start
               re == r.end
               lc == Len(c)
    <3>3. /\ rs \in Nat /\ re \in Nat /\ lc \in Nat /\ lo \in Nat /\ end \in Nat
          /\ lo >= rs /\ lo >= end /\ re <= lc /\ lo < i /\ i <= re /\ i \in Int
      BY ONLY <1>1, <1>0, <3>1, <3>2, end \in Nat
    <3> HIDE DEF rs, re, lc
    <3>4. i \in Nat /\ end < i /\ i <= lc /\ rs < i /\ i <= re
      BY ONLY <3>3
    <3> QED BY ONLY <3>2, <3>4 DEF rs, re, lc
  <2>2. p.at + (j - p.start) = r.at + (i - r.start)
    <3> DEFINE rs == r.start
               ra == r.at
    <3>1. p.at = ra + (lo - rs) /\ p.start = lo + d
      BY ONLY <1>0
    <3>2. ra \in Nat /\ rs \in Nat /\ lo \in Nat /\ d \in Int /\ j \in Nat
      BY ONLY <1>0, <1>20, j \in Nat
    <3> HIDE DEF rs, ra
    <3>3. (ra + (lo - rs)) + (j - (lo + d)) = ra + ((j - d) - rs)
      BY ONLY <3>2
    <3> QED BY ONLY <3>1, <3>3 DEF rs, ra
  <2> HIDE DEF i
  <2>3. t[i + d] = c[i] /\ c[i] = new[r.at + (i - r.start)]
    BY <1>1, <1>20, <2>1 DEF new
  <2> QED BY <2>1, <2>2, <2>3
<1>8. N[SeatOf(p)] = new /\ SeatOf(p) \in DOMAIN N /\ N[SeatOf(p)] \in Content
  BY <1>1, <1>2 DEF new
<1>9. RunOK(p, t, N)
  BY <1>4, <1>6, <1>7, <1>8 DEF RunOK
<1>10. p.start >= end + d /\ p.start >= r.start + d /\ p.at >= r.at
  <2> DEFINE rs == r.start
             ra == r.at
  <2>1. ra \in Nat /\ rs \in Nat /\ p.at = ra + (lo - rs) /\ p.start = lo + d /\ lo >= rs /\ lo >= end
    BY <1>0, <1>3
  <2> HIDE DEF rs, ra
  <2>2. lo + d >= end + d /\ lo + d >= rs + d /\ ra + (lo - rs) >= ra
    BY <1>3, <1>20, <2>1
  <2> QED BY <2>1, <2>2 DEF rs, ra
<1> QED BY <1>1, <1>2, <1>5, <1>9, <1>10 DEF OnRight

-----------------------------------------------------------------------------
(* Tracks stay honest.                                                     *)

\* Pieces of two runs that shared no byte share none.
LEMMA PartsApart ==
  ASSUME NEW r \in Run, NEW s \in Run, NEW p \in Run, NEW q \in Run, NEW e \in Int,
         Disjoint(r, s), SeatOf(p) = SeatOf(r), SeatOf(q) = SeatOf(s),
         p.start >= r.start + e, p.end <= r.end + e, q.start >= s.start + e, q.end <= s.end + e,
         p.at >= r.at, p.at + (p.end - p.start) <= r.at + (r.end - r.start),
         q.at >= s.at, q.at + (q.end - q.start) <= s.at + (s.end - s.start)
  PROVE  Disjoint(p, q)
<1> DEFINE rs == r.start
           re == r.end
           ra == r.at
           ss == s.start
           se == s.end
           sa == s.at
           ps == p.start
           pe == p.end
           pa == p.at
           qs == q.start
           qe == q.end
           qa == q.at
           same == SeatOf(r) = SeatOf(s)
<1>1. /\ rs \in Nat /\ re \in Nat /\ ra \in Nat /\ ss \in Nat /\ se \in Nat /\ sa \in Nat
      /\ ps \in Nat /\ pe \in Nat /\ pa \in Nat /\ qs \in Nat /\ qe \in Nat /\ qa \in Nat
  BY DEF Run
<1>2. /\ ps >= rs + e /\ pe <= re + e /\ qs >= ss + e /\ qe <= se + e
      /\ pa >= ra /\ pa + (pe - ps) <= ra + (re - rs)
      /\ qa >= sa /\ qa + (qe - qs) <= sa + (se - ss)
  OBVIOUS
<1>3. /\ re <= ss \/ se <= rs
      /\ same => (ra + (re - rs) <= sa \/ sa + (se - ss) <= ra)
      /\ same <=> SeatOf(p) = SeatOf(q)
  BY DEF Disjoint
<1> HIDE DEF rs, re, ra, ss, se, sa, ps, pe, pa, qs, qe, qa, same
<1>4. pe <= qs \/ qe <= ps
  BY <1>1, <1>2, <1>3
<1>5. same => (pa + (pe - ps) <= qa \/ qa + (qe - qs) <= pa)
  BY <1>1, <1>2, <1>3
<1> QED BY <1>3, <1>4, <1>5 DEF Disjoint, ps, pe, pa, qs, qe, qa

\* What lies in front of an edit and what lies behind it share no byte.
LEMMA SidesApart ==
  ASSUME NEW r, NEW s, NEW p, NEW q, NEW u, NEW N,
         NEW at \in Nat, NEW end \in Nat, NEW d \in Int, at <= end + d, at <= end,
         r = s \/ Disjoint(r, s), IsLeft(p, r, at), IsRight(q, s, end, d),
         OnLeft(p, r, u, N, at), OnRight(q, s, u, N, end, d), r.start <= r.end
  PROVE  Disjoint(p, q) /\ Disjoint(q, p)
<1> DEFINE rs == r.start
           re == r.end
           ra == r.at
           ss == s.start
           se == s.end
           sa == s.at
           ps == p.start
           pe == p.end
           pa == p.at
           qs == q.start
           qe == q.end
           qa == q.at
           same == SeatOf(p) = SeatOf(q)
           lo == IF ss >= end THEN ss ELSE end
<1>1. /\ rs \in Nat /\ re \in Nat /\ ra \in Nat /\ ss \in Nat /\ se \in Nat /\ sa \in Nat
      /\ ps \in Nat /\ pe \in Nat /\ pa \in Nat /\ qs \in Nat /\ qe \in Nat /\ qa \in Nat
  BY DEF Run, OnLeft, OnRight
<1>2. pe <= at /\ qs >= end + d /\ pa + (pe - ps) <= ra + (re - rs)
      /\ qa >= sa /\ qa + (qe - qs) = sa + (se - ss) /\ rs <= re
  BY DEF OnLeft, OnRight
<1>3. ps = rs /\ pa = ra /\ qa = sa + (lo - ss) /\ qs = lo + d /\ pe <= re
  BY <1>1 DEF IsLeft, IsRight
<1>4. same /\ r # s => (ra + (re - rs) <= sa \/ sa + (se - ss) <= ra)
  BY DEF Disjoint, IsLeft, IsRight, SeatOf
<1>5. r = s => ra = sa /\ rs = ss /\ re = se
  OBVIOUS
<1>6. lo \in Nat /\ lo >= end /\ lo >= ss
  BY <1>1
<1> HIDE DEF rs, re, ra, ss, se, sa, ps, pe, pa, qs, qe, qa, same, lo
<1>7. pe <= qs
  BY <1>1, <1>2
<1>8. same => (pa + (pe - ps) <= qa \/ qa + (qe - qs) <= pa)
  <2>1. CASE r = s
    BY <1>1, <1>2, <1>3, <1>5, <1>6, <2>1
  <2>2. CASE r # s
    BY <1>1, <1>2, <1>3, <1>4, <2>2
  <2> QED BY <2>1, <2>2
<1>9. same <=> SeatOf(q) = SeatOf(p)
  BY DEF same
<1> QED BY <1>7, <1>8, <1>9 DEF Disjoint, ps, pe, pa, qs, qe, qa, same

\* Two pieces on one side of an edit share no byte either.
LEMMA LeftsApart ==
  ASSUME NEW r, NEW s, NEW p, NEW q, NEW u, NEW N, NEW at \in Nat, p # q,
         r = s \/ Disjoint(r, s), IsLeft(p, r, at), IsLeft(q, s, at),
         OnLeft(p, r, u, N, at), OnLeft(q, s, u, N, at)
  PROVE  Disjoint(p, q)
<1>1. /\ r \in Run /\ s \in Run /\ p \in Run /\ q \in Run /\ SeatOf(p) = SeatOf(r) /\ SeatOf(q) = SeatOf(s)
      /\ p.at >= r.at /\ p.at + (p.end - p.start) <= r.at + (r.end - r.start)
      /\ q.at >= s.at /\ q.at + (q.end - q.start) <= s.at + (s.end - s.start)
      /\ p.start >= r.start + 0 /\ p.end <= r.end + 0 /\ q.start >= s.start + 0 /\ q.end <= s.end + 0
  BY DEF Run, OnLeft
<1>2. r # s
  <2> SUFFICES ASSUME r = s PROVE p = q
    OBVIOUS
  <2>1. p.call = q.call /\ p.op = q.op /\ p.at = q.at /\ p.start = q.start /\ p.end = q.end
    BY DEF IsLeft
  <2> QED BY <1>1, <2>1 DEF Run
<1>3. Disjoint(r, s) /\ 0 \in Int
  BY <1>2
<1> QED BY <1>1, <1>3, PartsApart

\* Two such parts do not overlap.
LEMMA RightsApart ==
  ASSUME NEW r, NEW s, NEW p, NEW q, NEW u, NEW N, NEW end \in Nat, NEW d \in Int, p # q,
         r = s \/ Disjoint(r, s), IsRight(p, r, end, d), IsRight(q, s, end, d),
         OnRight(p, r, u, N, end, d), OnRight(q, s, u, N, end, d)
  PROVE  Disjoint(p, q)
<1>1. /\ r \in Run /\ s \in Run /\ p \in Run /\ q \in Run /\ SeatOf(p) = SeatOf(r) /\ SeatOf(q) = SeatOf(s)
      /\ p.at >= r.at /\ q.at >= s.at /\ p.start >= r.start + d /\ q.start >= s.start + d
  BY DEF OnRight
<1>2. p.end <= r.end + d /\ q.end <= s.end + d
  <2>1. p.end = r.end + d /\ q.end = s.end + d /\ p.end \in Int /\ q.end \in Int
    BY DEF Run, OnRight
  <2> QED BY <2>1
<1>3. /\ p.at + (p.end - p.start) <= r.at + (r.end - r.start)
      /\ q.at + (q.end - q.start) <= s.at + (s.end - s.start)
  <2>1. p.at + (p.end - p.start) \in Int /\ q.at + (q.end - q.start) \in Int
    BY <1>1 DEF Run
  <2> QED BY <2>1 DEF OnRight
<1>4. r # s
  <2> SUFFICES ASSUME r = s PROVE p = q
    OBVIOUS
  <2>1. p.call = q.call /\ p.op = q.op /\ p.at = q.at /\ p.start = q.start /\ p.end = q.end
    BY DEF IsRight
  <2> QED BY <1>1, <2>1 DEF Run
<1>5. Disjoint(r, s)
  BY <1>4
<1> QED BY <1>1, <1>2, <1>3, <1>5, PartsApart

\* Track::edit: the bytes go where the edit puts them, the run's own text
\* included.
LEMMA EditHonest ==
  ASSUME NEW t, NEW c \in Content, NEW N, TrackOK(t, c, N),
         NEW at \in Nat, NEW len \in Nat \ {0}, at + len <= Len(c), NEW new \in Content,
         NEW call \in Nat, NEW op \in Nat, <<call, op>> \in DOMAIN N, N[<<call, op>>] = new,
         \A r \in t.runs : SeatOf(r) # <<call, op>>,
         NEW u, u = Splice(c, at, at + len, new),
         NEW v, v = TrackEdit(t, at, len, Len(new), call, op)
  PROVE  /\ TrackOK(v, u, N)
         /\ \A p \in v.runs : SeatOf(p) = <<call, op>> \/ \E r \in t.runs : SeatOf(r) = SeatOf(p)
<1> DEFINE end == at + len
           n == Len(new)
           d == n - len
           own == [start |-> at, end |-> at + n, call |-> call, op |-> op, at |-> 0]
<1>1. /\ end \in Nat /\ d \in Int /\ at < end /\ at <= end /\ end + d = at + n /\ n \in Nat /\ at <= end + d
      /\ end <= Len(c) /\ d = Len(new) - (end - at)
  BY DEF Content
<1>2. own \in Run /\ SeatOf(own) = <<call, op>> /\ own.start = at /\ own.end = at + n /\ own.at = 0
  BY <1>1 DEF Run, SeatOf
<1>3. \A r \in t.runs : RunOK(r, c, N) /\ r \in Run /\ r.start <= r.end
  BY DEF TrackOK, RunOK
<1>4. \A r, s \in t.runs : r = s \/ Disjoint(r, s)
  BY DEF TrackOK
<1>5. \A p \in v.runs : p \in Run /\ (p = own \/ \E r \in t.runs : IsLeft(p, r, at) \/ IsRight(p, r, end, d))
  <2>1. t.runs \subseteq Run /\ \A r \in t.runs : r.start <= r.end
    BY <1>3
  <2> QED BY <1>1, <2>1, PiecesAre
<1> HIDE DEF own, d, end
<1>6. Moved(u, c, at, end, new, d)
  <2>1. u = Splice(c, at, end, new)
    BY DEF end
  <2> QED BY <1>1, <2>1, SplicePoints
<1>7. at <= Len(u) /\ at + n <= Len(u) /\ \A j \in Nat : at < j /\ j <= at + n => u[j] = new[j - at]
  <2>1. /\ at + n <= Len(u) /\ Len(u) \in Nat
        /\ \A j \in Nat : at < j /\ j <= at + n => u[j] = new[j - at]
    BY ONLY <1>6 DEF Moved, n
  <2>2. n \in Nat /\ at \in Nat
    BY <1>1
  <2> HIDE DEF n
  <2>3. at <= Len(u)
    BY ONLY <2>1, <2>2
  <2> QED BY ONLY <2>1, <2>3
<1> HIDE DEF n
<1>8. ASSUME NEW p \in v.runs, NEW r \in t.runs, IsLeft(p, r, at)
      PROVE  OnLeft(p, r, u, N, at)
  BY <1>3, <1>5, <1>6, <1>7, <1>8, LeftOK
<1>9. ASSUME NEW p \in v.runs, NEW r \in t.runs, IsRight(p, r, end, d)
      PROVE  OnRight(p, r, u, N, end, d)
  BY <1>1, <1>3, <1>5, <1>6, <1>9, RightOK
<1>10. RunOK(own, u, N)
  <2>1. /\ SeatOf(own) \in DOMAIN N /\ N[SeatOf(own)] = new /\ new \in Content
    BY <1>2
  <2>2. own.start <= own.end /\ own.end <= Len(u) /\ own.at + (own.end - own.start) <= Len(new)
    BY <1>1, <1>2, <1>7 DEF n
  <2>3. ASSUME NEW j \in Nat, own.start < j, j <= own.end
        PROVE  u[j] = new[own.at + (j - own.start)]
    <3>1. at < j /\ j <= at + n /\ own.at + (j - own.start) = j - at
      BY <1>2, <2>3
    <3> QED BY <1>7, <3>1
  <2> QED BY <1>2, <2>1, <2>2, <2>3 DEF RunOK
<1>11. ASSUME NEW p \in v.runs PROVE RunOK(p, u, N)
  <2>1. CASE p = own
    BY <1>10, <2>1
  <2>2. CASE p # own
    BY <1>5, <1>8, <1>9, <2>2 DEF OnLeft, OnRight
  <2> QED BY <2>1, <2>2
<1>12. ASSUME NEW p \in v.runs, NEW q \in v.runs, p # q, q = own
       PROVE  Disjoint(p, q) /\ Disjoint(q, p)
  <2>1. PICK r \in t.runs : IsLeft(p, r, at) \/ IsRight(p, r, end, d)
    BY <1>5, <1>12
  <2>2. SeatOf(p) # SeatOf(q)
    BY <1>2, <1>8, <1>9, <1>12, <2>1 DEF OnLeft, OnRight
  <2>3. p.end <= at \/ p.start >= at + n
    BY <1>1, <1>8, <1>9, <2>1 DEF OnLeft, OnRight
  <2> QED BY <1>2, <1>12, <2>2, <2>3 DEF Disjoint
<1>13. ASSUME NEW p \in v.runs, NEW q \in v.runs, NEW r \in t.runs, NEW s \in t.runs,
              IsLeft(p, r, at), IsRight(q, s, end, d)
       PROVE  Disjoint(p, q) /\ Disjoint(q, p)
  <2>1. (r = s \/ Disjoint(r, s)) /\ OnLeft(p, r, u, N, at) /\ OnRight(q, s, u, N, end, d) /\ r.start <= r.end
    BY <1>3, <1>4, <1>8, <1>9, <1>13
  <2> QED BY <1>1, <1>13, <2>1, SidesApart
<1>14. ASSUME NEW p \in v.runs, NEW q \in v.runs, NEW r \in t.runs, NEW s \in t.runs,
              IsLeft(p, r, at), IsLeft(q, s, at), p # q
       PROVE  Disjoint(p, q)
  <2>1. (r = s \/ Disjoint(r, s)) /\ OnLeft(p, r, u, N, at) /\ OnLeft(q, s, u, N, at)
    BY <1>4, <1>8, <1>14
  <2> QED BY <1>14, <2>1, LeftsApart
<1>15. ASSUME NEW p \in v.runs, NEW q \in v.runs, NEW r \in t.runs, NEW s \in t.runs,
              IsRight(p, r, end, d), IsRight(q, s, end, d), p # q
       PROVE  Disjoint(p, q)
  <2>1. (r = s \/ Disjoint(r, s)) /\ OnRight(p, r, u, N, end, d) /\ OnRight(q, s, u, N, end, d)
    BY <1>4, <1>9, <1>15
  <2> QED BY <1>1, <1>15, <2>1, RightsApart
<1>16. ASSUME NEW p \in v.runs, NEW q \in v.runs, p # q PROVE Disjoint(p, q)
  <2>1. CASE p = own \/ q = own
    BY <1>12, <1>16, <2>1
  <2>2. CASE p # own /\ q # own
    <3>1. /\ \E r \in t.runs : IsLeft(p, r, at) \/ IsRight(p, r, end, d)
          /\ \E r \in t.runs : IsLeft(q, r, at) \/ IsRight(q, r, end, d)
      BY <1>5, <2>2
    <3> QED BY <1>13, <1>14, <1>15, <1>16, <3>1
  <2> QED BY <2>1, <2>2
<1>17. ASSUME NEW p \in v.runs
       PROVE  SeatOf(p) = <<call, op>> \/ \E r \in t.runs : SeatOf(r) = SeatOf(p)
  <2>1. CASE p = own
    BY <1>2, <2>1
  <2>2. CASE p # own
    BY <1>5, <1>8, <1>9, <2>2 DEF OnLeft, OnRight
  <2> QED BY <2>1, <2>2
<1> QED BY <1>11, <1>16, <1>17 DEF TrackOK

\* A run that is not the rewritten one: it lies before or behind it, in the
\* content and, if it is of the same operation, in its new text.
Beside(p, r, w, d) ==
  /\ p \in Run /\ r \in Run /\ SeatOf(p) = SeatOf(r) /\ r.start <= r.end
  /\ p.end - p.start = r.end - r.start
  /\ \/ r.end <= w.start /\ p.start = r.start /\ p.end = r.end
     \/ w.end <= r.start /\ p.start = r.start + d /\ p.end = r.end + d
  /\ SeatOf(r) # SeatOf(w) => p.at = r.at
  /\ SeatOf(r) = SeatOf(w) =>
       \/ r.at + (r.end - r.start) <= w.at /\ p.at = r.at
       \/ w.at + (w.end - w.start) <= r.at /\ p.at = r.at + d

\* rewrite_within: another run is moved by as much as its text.
LEMMA BesideIs ==
  ASSUME NEW w \in Run, NEW r \in Run, r.start <= r.end, Disjoint(r, w),
         NEW at \in Nat, NEW len \in Nat \ {0}, NEW n \in Nat, w.start <= at, at + len <= w.end,
         NEW e \in Int, e = IF r.start >= at + len THEN n - len ELSE 0,
         NEW p, p = [r EXCEPT !.start = @ + e, !.end = @ + e, !.at = @ + Slide(r, w, n - len)]
  PROVE  Beside(p, r, w, n - len)
<1> DEFINE d == n - len
           z == Slide(r, w, d)
           rs == r.start
           re == r.end
           ra == r.at
           ws == w.start
           we == w.end
           wa == w.at
           same == SeatOf(r) = SeatOf(w)
<1>1. /\ rs \in Nat /\ re \in Nat /\ ra \in Nat /\ ws \in Nat /\ we \in Nat /\ wa \in Nat
      /\ r.call \in Nat /\ r.op \in Nat
  BY DEF Run
<1>2. /\ rs <= re /\ ws <= at /\ at + len <= we /\ d \in Int /\ d >= 0 - len
      /\ re <= ws \/ we <= rs
      /\ same => ra + (re - rs) <= wa \/ wa + (we - ws) <= ra
  BY DEF Disjoint
<1>3. e = IF rs >= at + len THEN d ELSE 0
  OBVIOUS
<1>4. same <=> r.call = w.call /\ r.op = w.op
  BY DEF SeatOf
<1>5. z = IF same /\ ra > wa THEN d ELSE 0
  BY <1>4 DEF Slide
<1>6. p = [start |-> rs + e, end |-> re + e, call |-> r.call, op |-> r.op, at |-> ra + z]
  BY DEF Run
<1>7. p.start = rs + e /\ p.end = re + e /\ p.at = ra + z /\ SeatOf(p) = SeatOf(r)
  BY <1>6 DEF SeatOf
<1> HIDE DEF z, same, rs, re, ra, ws, we, wa, d
<1>8. (re <= ws /\ e = 0) \/ (we <= rs /\ e = d)
  BY <1>1, <1>2, <1>3
<1>9. /\ same => (ra + (re - rs) <= wa /\ z = 0) \/ (wa + (we - ws) <= ra /\ z = d)
      /\ ~same => z = 0
  BY <1>1, <1>2, <1>5
<1>10. rs + e \in Nat /\ re + e \in Nat
  BY <1>1, <1>2, <1>8
<1>11. ra + z \in Nat
  BY <1>1, <1>2, <1>9
<1>12. p \in Run
  <2> DEFINE x == rs + e
             y == re + e
             g == ra + z
  <2>1. x \in Nat /\ y \in Nat /\ g \in Nat
    BY <1>10, <1>11
  <2>2. p = [start |-> x, end |-> y, call |-> r.call, op |-> r.op, at |-> g]
    BY <1>6
  <2> HIDE DEF x, y, g
  <2> QED BY <1>1, <2>1, <2>2 DEF Run
<1>13. (re + e) - (rs + e) = re - rs
  BY <1>1
<1>14. CASE re <= ws /\ e = 0
  <2>1. rs + e = rs /\ re + e = re
    BY <1>1, <1>14
  <2>2. ~same => ra + z = ra
    BY <1>1, <1>9
  <2>3. same => (ra + (re - rs) <= wa /\ ra + z = ra) \/ (wa + (we - ws) <= ra /\ ra + z = ra + d)
    BY <1>1, <1>9
  <2> QED BY <1>2, <1>7, <1>12, <1>13, <1>14, <2>1, <2>2, <2>3
          DEF Beside, rs, re, ra, ws, we, wa, same, d
<1>15. CASE we <= rs /\ e = d
  <2>2. ~same => ra + z = ra
    BY <1>1, <1>9
  <2>3. same => (ra + (re - rs) <= wa /\ ra + z = ra) \/ (wa + (we - ws) <= ra /\ ra + z = ra + d)
    BY <1>1, <1>9
  <2> QED BY <1>2, <1>7, <1>12, <1>13, <1>15, <2>2, <2>3
          DEF Beside, rs, re, ra, ws, we, wa, same, d
<1> QED BY <1>8, <1>14, <1>15

\* The bytes of a run beside the rewritten one are still its operation's.
LEMMA BesideOK ==
  ASSUME NEW c \in Content, NEW D, NEW N \in [D -> Content], NEW r, RunOK(r, c, N), NEW w \in Run,
         NEW at \in Nat, NEW end \in Nat, NEW new, NEW d, NEW u, Moved(u, c, at, end, new, d),
         w.start <= at, at <= end, end <= w.end,
         NEW from \in Nat, NEW to \in Nat, w.at <= from, from <= to, to <= w.at + (w.end - w.start),
         NEW M, SeatOf(r) = SeatOf(w) => Moved(M, N[SeatOf(w)], from, to, new, d),
         NEW p, Beside(p, r, w, d)
  PROVE  RunOK(p, u, [N EXCEPT ![SeatOf(w)] = M])
<1> DEFINE same == SeatOf(r) = SeatOf(w)
           old == N[SeatOf(r)]
           text == [N EXCEPT ![SeatOf(w)] = M][SeatOf(r)]
           rs == r.start
           re == r.end
           ra == r.at
           ws == w.start
           we == w.end
           wa == w.at
           ps == p.start
           pe == p.end
           pa == p.at
<1>1. /\ rs \in Nat /\ re \in Nat /\ ra \in Nat /\ ws \in Nat /\ we \in Nat /\ wa \in Nat
      /\ ps \in Nat /\ pe \in Nat /\ pa \in Nat /\ rs <= re
  BY DEF Run, Beside
<1>2. /\ SeatOf(r) \in D /\ old \in Content /\ re <= Len(c) /\ ra + (re - rs) <= Len(old)
      /\ \A j \in Nat : rs < j /\ j <= re => c[j] = old[ra + (j - rs)]
  BY DEF RunOK
<1>3. /\ d \in Int /\ Len(c) \in Nat /\ Len(u) = Len(c) + d /\ Len(u) \in Nat /\ at <= Len(u)
      /\ \A j \in Nat : 0 < j /\ j <= at => u[j] = c[j]
      /\ \A j \in Nat : end < j /\ j <= Len(c) => u[j + d] = c[j]
  BY DEF Moved
<1>4. /\ pe - ps = re - rs /\ SeatOf(p) = SeatOf(r) /\ p \in Run
      /\ \/ re <= ws /\ ps = rs /\ pe = re
         \/ we <= rs /\ ps = rs + d /\ pe = re + d
      /\ ~same => pa = ra
      /\ same => (ra + (re - rs) <= wa /\ pa = ra) \/ (wa + (we - ws) <= ra /\ pa = ra + d)
  BY DEF Beside
<1>5. Len(old) \in Nat
  BY <1>2 DEF Content
<1>6. same => /\ text = M /\ M \in Content /\ Len(M) = Len(old) + d /\ Len(M) \in Nat /\ from <= Len(M)
              /\ \A j \in Nat : 0 < j /\ j <= from => M[j] = old[j]
              /\ \A j \in Nat : to < j /\ j <= Len(old) => M[j + d] = old[j]
  BY <1>2 DEF Moved
<1>7. ~same => text = old
  BY <1>2
<1>8. text \in Content
  BY <1>2, <1>6, <1>7
<1>9. SeatOf(p) \in DOMAIN [N EXCEPT ![SeatOf(w)] = M] /\ [N EXCEPT ![SeatOf(w)] = M][SeatOf(p)] = text
  BY <1>2, <1>4
<1>10. ws <= at /\ end <= we /\ wa <= from /\ to <= wa + (we - ws)
  OBVIOUS
<1> HIDE DEF same, old, text, rs, re, ra, ws, we, wa, ps, pe, pa
<1>11. ps <= pe /\ pe <= Len(u)
  BY <1>1, <1>2, <1>3, <1>4, <1>10
<1>12. pa + (pe - ps) <= Len(text)
  <2>1. CASE same /\ ra + (re - rs) <= wa /\ pa = ra
    <3>1. ra + (re - rs) <= Len(M)
      \* the rewritten run lies behind, within the old text
      <4>1. Len(M) = Len(old) + d /\ Len(M) \in Nat /\ from <= to
        BY <1>6, <2>1
      <4>2. from <= Len(M)
        BY <1>6, <2>1
      <4> QED BY <1>1, <1>10, <2>1, <4>1, <4>2
    <3> QED BY <1>1, <1>4, <1>6, <2>1, <3>1
  <2>2. CASE same /\ wa + (we - ws) <= ra /\ pa = ra + d
    <3>1. Len(text) = Len(old) + d
      BY <1>6, <2>2
    <3>2. pa + (pe - ps) = ra + d + (re - rs)
      BY <1>4, <2>2
    <3> QED BY <1>1, <1>2, <1>3, <1>5, <3>1, <3>2
  <2>3. CASE ~same
    <3>1. pa + (pe - ps) = ra + (re - rs)
      BY <1>4, <2>3
    <3> QED BY <1>2, <1>7, <2>3, <3>1
  <2> QED BY <1>4, <2>1, <2>2, <2>3
<1>13. ASSUME NEW j \in Nat, ps < j, j <= pe PROVE u[j] = text[pa + (j - ps)]
  <2> DEFINE o == j - ps
             i == rs + o
  <2>1. o \in Nat /\ 0 < o /\ o <= re - rs /\ i \in Nat /\ rs < i /\ i <= re /\ i - rs = o
    <3>1. o \in Nat /\ 0 < o /\ o <= re - rs
      BY <1>1, <1>4, <1>13
    <3> HIDE DEF o
    <3> QED BY <1>1, <3>1
  <2>2. c[i] = old[ra + o]
    <3>1. c[i] = old[ra + (i - rs)]
      BY <1>2, <2>1
    <3> QED BY <2>1, <3>1
  <2>3. u[j] = c[i]
    <3>1. CASE re <= ws /\ ps = rs /\ pe = re
      <4>1. j = i
        BY <1>1, <3>1
      <4>2. 0 < i /\ i <= at
        <5> HIDE DEF i
        <5> QED BY <1>1, <1>10, <2>1, <3>1
      <4> HIDE DEF i
      <4> QED BY <1>3, <2>1, <4>1, <4>2
    <3>2. CASE we <= rs /\ ps = rs + d /\ pe = re + d
      <4>1. j = i + d
        BY <1>1, <1>3, <3>2
      <4>2. end < i /\ i <= Len(c)
        <5> HIDE DEF i
        <5> QED BY <1>1, <1>2, <1>3, <1>10, <2>1, <3>2
      <4> HIDE DEF i
      <4> QED BY <1>3, <2>1, <4>1, <4>2
    <3> QED BY <1>4, <3>1, <3>2
  <2>4. text[pa + o] = old[ra + o]
    <3> HIDE DEF o
    <3> DEFINE x == ra + o
    <3>0. x \in Nat /\ 0 < x /\ x <= ra + (re - rs) /\ ra < x
      BY <1>1, <2>1
    <3>1. CASE same /\ ra + (re - rs) <= wa /\ pa = ra
      <4>1. x <= from /\ pa + o = x
        <5>1. pa + o = x
          BY <3>1
        <5> HIDE DEF x
        <5> QED BY <1>1, <1>10, <3>0, <3>1, <5>1
      <4>2. M[x] = old[x]
        <5> HIDE DEF x
        <5> QED BY <1>6, <3>0, <3>1, <4>1
      <4> QED BY <1>6, <3>1, <4>1, <4>2
    <3>2. CASE same /\ wa + (we - ws) <= ra /\ pa = ra + d
      <4>1. pa + o = x + d
        BY <1>1, <1>3, <2>1, <3>2
      <4>2. to < x /\ x <= Len(old)
        <5> HIDE DEF x
        <5> QED BY <1>1, <1>2, <1>5, <1>10, <3>0, <3>2
      <4>3. M[x + d] = old[x]
        <5> HIDE DEF x
        <5> QED BY <1>6, <3>0, <3>2, <4>2
      <4> QED BY <1>6, <3>2, <4>1, <4>3
    <3>3. CASE ~same
      BY <1>4, <1>7, <3>3
    <3> QED BY <1>4, <3>1, <3>2, <3>3
  <2> QED BY <2>2, <2>3, <2>4
<1> QED BY <1>4, <1>8, <1>9, <1>11, <1>12, <1>13 DEF RunOK, ps, pe, pa

\* The rewritten run, longer or shorter, is its operation's rewritten text.
Within(w, at, end, from, to) ==
  /\ w.start <= at /\ at <= end /\ end <= w.end
  /\ from = w.at + (at - w.start) /\ to = from + (end - at)
GrowsTo(p, w, d) == p = [w EXCEPT !.end = @ + d]
GrownOK(p, w, u, N, d, from, to) ==
  /\ RunOK(p, u, N) /\ p \in Run /\ SeatOf(p) = SeatOf(w)
  /\ p.start = w.start /\ p.end = w.end + d /\ p.at = w.at
  /\ to <= w.at + (w.end - w.start) /\ w.at <= from
\* The run that was rewritten within holds its new text.
LEMMA RewrittenOK ==
  ASSUME NEW c \in Content, NEW D, NEW N \in [D -> Content], NEW w \in Run, RunOK(w, c, N),
         NEW at \in Nat, NEW end \in Nat, NEW new, NEW d \in Int, NEW u, Moved(u, c, at, end, new, d),
         NEW from \in Nat, NEW to \in Nat, Within(w, at, end, from, to),
         NEW M, Moved(M, N[SeatOf(w)], from, to, new, d), NEW p, GrowsTo(p, w, d)
  PROVE  GrownOK(p, w, u, [N EXCEPT ![SeatOf(w)] = M], d, from, to)
<1> DEFINE old == N[SeatOf(w)]
           text == [N EXCEPT ![SeatOf(w)] = M][SeatOf(w)]
           ws == w.start
           we == w.end
           wa == w.at
           n == Len(new)
<1>1. /\ ws \in Nat /\ we \in Nat /\ wa \in Nat /\ w.call \in Nat /\ w.op \in Nat
      /\ SeatOf(w) \in D /\ old \in Content /\ we <= Len(c) /\ wa + (we - ws) <= Len(old)
      /\ \A j \in Nat : ws < j /\ j <= we => c[j] = old[wa + (j - ws)]
  BY DEF RunOK, Run
<1>2. /\ d \in Int /\ Len(c) \in Nat /\ Len(u) = Len(c) + d /\ Len(u) \in Nat /\ n \in Nat
      /\ d = n - (end - at)
      /\ \A j \in Nat : 0 < j /\ j <= at => u[j] = c[j]
      /\ \A j \in Nat : at < j /\ j <= at + n => u[j] = new[j - at]
      /\ \A j \in Nat : end < j /\ j <= Len(c) => u[j + d] = c[j]
  BY DEF Moved
<1>3. /\ M \in Content /\ Len(M) = Len(old) + d /\ Len(M) \in Nat /\ Len(old) \in Nat
      /\ \A j \in Nat : 0 < j /\ j <= from => M[j] = old[j]
      /\ \A j \in Nat : from < j /\ j <= from + n => M[j] = new[j - from]
      /\ \A j \in Nat : to < j /\ j <= Len(old) => M[j + d] = old[j]
  BY DEF Moved
<1>4. text = M
  BY <1>1
<1>5. ws <= at /\ at <= end /\ end <= we /\ from = wa + (at - ws) /\ to = from + (end - at)
  BY DEF Within
<1> HIDE DEF old, text, ws, we, wa, n
<1>0. /\ ws \in Nat /\ we \in Nat /\ wa \in Nat /\ n \in Nat /\ we <= Len(c) /\ wa + (we - ws) <= Len(old)
      /\ Len(c) \in Nat /\ Len(u) \in Nat /\ Len(old) \in Nat /\ Len(M) \in Nat
      /\ Len(u) = Len(c) + d /\ Len(M) = Len(old) + d /\ d = n - (end - at)
      /\ ws <= at /\ at <= end /\ end <= we /\ from = wa + (at - ws) /\ to = from + (end - at)
  BY <1>1, <1>2, <1>3, <1>5
<1>8. we + d \in Nat /\ ws <= we + d /\ we + d <= Len(u)
  BY <1>0
<1>10. wa + (we + d - ws) <= Len(M)
  BY <1>0
<1>11. ASSUME NEW j \in Nat, ws < j, j <= we + d PROVE u[j] = M[wa + (j - ws)]
  <2> DEFINE x == wa + (j - ws)
  <2>1. x \in Nat /\ 0 < x
    BY <1>0, <1>11
  <2>2. CASE j <= at
    <3>1. x <= from /\ j <= we /\ 0 < j
      BY <1>0, <1>11, <2>2
    <3>2. u[j] = c[j] /\ c[j] = old[x]
      BY <1>1, <1>2, <1>11, <2>2, <3>1
    <3>3. M[x] = old[x]
      <4> HIDE DEF x
      <4> QED BY <1>3, <2>1, <3>1
    <3> QED BY <3>2, <3>3
  <2>3. CASE at < j /\ j <= at + n
    <3>1. from < x /\ x <= from + n /\ x - from = j - at
      BY <1>0, <2>3
    <3>2. M[x] = new[x - from]
      <4> HIDE DEF x
      <4> QED BY <1>3, <2>1, <3>1
    <3>3. u[j] = new[j - at]
      BY <1>2, <2>3
    <3>4. M[x] = new[j - at]
      BY <3>1, <3>2
    <3> QED BY <3>3, <3>4
  <2>4. CASE at + n < j
    <3> DEFINE i == j - d
               y == wa + (i - ws)
    <3>1. i \in Nat /\ end < i /\ i <= we /\ ws < i /\ i <= Len(c)
      BY <1>0, <1>11, <2>4
    <3>2. i + d = j /\ y + d = x
      BY <1>0
    <3>3. y \in Nat /\ to < y /\ y <= Len(old)
      <4> HIDE DEF i
      <4> QED BY <1>0, <3>1
    <3>4. c[i] = old[y]
      <4> HIDE DEF i
      <4> QED BY <1>1, <3>1
    <3>5. u[i + d] = c[i]
      <4> HIDE DEF i
      <4> QED BY <1>2, <3>1
    <3>6. M[y + d] = old[y]
      <4> HIDE DEF y
      <4> QED BY <1>3, <3>3
    <3> QED BY <3>2, <3>4, <3>5, <3>6
  <2> QED BY <1>0, <2>2, <2>3, <2>4
<1>12. to <= wa + (we - ws) /\ wa <= from
  BY <1>1, <1>5
<1>13. /\ RunOK(p, u, [N EXCEPT ![SeatOf(w)] = M])
       /\ p \in Run /\ SeatOf(p) = SeatOf(w)
       /\ p.start = ws /\ p.end = we + d /\ p.at = wa
  <2> DEFINE F == [N EXCEPT ![SeatOf(w)] = M]
             x == we + d
  <2>1. p = [start |-> ws, end |-> x, call |-> w.call, op |-> w.op, at |-> wa]
    BY DEF GrowsTo, Run, ws, we, wa
  <2>5. x = we + d
    OBVIOUS
  <2>2. x \in Nat /\ ws <= x /\ x <= Len(u) /\ wa + (x - ws) <= Len(M)
    BY <1>0, <1>8, <1>10, <2>5
  <2>3. \A j \in Nat : ws < j /\ j <= x => u[j] = M[wa + (j - ws)]
    BY <1>11, <2>5
  <2>4. SeatOf(w) \in DOMAIN F /\ F[SeatOf(w)] = M
    BY <1>1, <1>4 DEF text
  <2> HIDE DEF F, x
  <2>6. p \in Run /\ p.start = ws /\ p.end = x /\ p.at = wa /\ SeatOf(p) = SeatOf(w)
    BY <1>1, <2>1, <2>2 DEF Run, SeatOf
  <2>7. RunOK(p, u, F)
    BY <1>3, <2>2, <2>3, <2>4, <2>6 DEF RunOK
  <2> QED BY <2>5, <2>6, <2>7 DEF F
<1> QED BY <1>12, <1>13 DEF GrownOK, ws, we, wa

\* Two runs beside the rewritten one, and each of them and that run, still
\* share no byte.
LEMMA BesidesApart ==
  ASSUME NEW r, NEW s, NEW p, NEW q, NEW w \in Run, NEW d \in Int, w.start <= w.end + d,
         w.start <= w.end, Beside(p, r, w, d), Beside(q, s, w, d), Disjoint(r, s)
  PROVE  Disjoint(p, q)
<1> DEFINE rs == r.start
           re == r.end
           ra == r.at
           ss == s.start
           se == s.end
           sa == s.at
           ps == p.start
           pe == p.end
           pa == p.at
           qs == q.start
           qe == q.end
           qa == q.at
           ws == w.start
           we == w.end
           wa == w.at
           same == SeatOf(r) = SeatOf(s)
           ours == SeatOf(r) = SeatOf(w)
           theirs == SeatOf(s) = SeatOf(w)
<1>1. /\ rs \in Nat /\ re \in Nat /\ ra \in Nat /\ ss \in Nat /\ se \in Nat /\ sa \in Nat
      /\ ps \in Nat /\ pe \in Nat /\ pa \in Nat /\ qs \in Nat /\ qe \in Nat /\ qa \in Nat
      /\ ws \in Nat /\ we \in Nat /\ wa \in Nat
  BY DEF Run, Beside
<1>2. /\ rs <= re /\ ss <= se /\ ws <= we /\ ws <= we + d
      /\ pe - ps = re - rs /\ qe - qs = se - ss
      /\ (re <= ws /\ ps = rs /\ pe = re) \/ (we <= rs /\ ps = rs + d /\ pe = re + d)
      /\ (se <= ws /\ qs = ss /\ qe = se) \/ (we <= ss /\ qs = ss + d /\ qe = se + d)
      /\ ~ours => pa = ra
      /\ ~theirs => qa = sa
      /\ ours => (ra + (re - rs) <= wa /\ pa = ra) \/ (wa + (we - ws) <= ra /\ pa = ra + d)
      /\ theirs => (sa + (se - ss) <= wa /\ qa = sa) \/ (wa + (we - ws) <= sa /\ qa = sa + d)
  BY DEF Beside
<1>3. /\ re <= ss \/ se <= rs
      /\ same => (ra + (re - rs) <= sa \/ sa + (se - ss) <= ra)
  BY DEF Disjoint
<1>4. (same <=> SeatOf(p) = SeatOf(q)) /\ (same => (ours <=> theirs))
  BY DEF Beside
<1> HIDE DEF rs, re, ra, ss, se, sa, ps, pe, pa, qs, qe, qa, ws, we, wa, same, ours, theirs
<1>5. pe <= qs \/ qe <= ps
  BY <1>1, <1>2, <1>3
<1>6. same => (pa + (pe - ps) <= qa \/ qa + (qe - qs) <= pa)
  <2>1. CASE ~ours /\ same
    BY <1>1, <1>2, <1>3, <1>4, <2>1
  <2>2. CASE ours /\ same
    BY <1>1, <1>2, <1>3, <1>4, <2>2
  <2> QED BY <2>1, <2>2
<1> QED BY <1>4, <1>5, <1>6 DEF Disjoint, ps, pe, pa, qs, qe, qa

\* The others do not overlap it.
LEMMA BesideIt ==
  ASSUME NEW r, NEW p, NEW w \in Run, NEW d \in Int, w.start <= w.end + d, w.start <= w.end,
         Beside(p, r, w, d), NEW q \in Run,
         SeatOf(q) = SeatOf(w) /\ q.start = w.start /\ q.end = w.end + d /\ q.at = w.at
  PROVE  Disjoint(p, q) /\ Disjoint(q, p)
<1> DEFINE rs == r.start
           re == r.end
           ra == r.at
           ps == p.start
           pe == p.end
           pa == p.at
           ws == w.start
           we == w.end
           wa == w.at
           ours == SeatOf(r) = SeatOf(w)
<1>1. /\ rs \in Nat /\ re \in Nat /\ ra \in Nat /\ ps \in Nat /\ pe \in Nat /\ pa \in Nat
      /\ ws \in Nat /\ we \in Nat /\ wa \in Nat
  BY DEF Run, Beside
<1>2. /\ rs <= re /\ ws <= we /\ ws <= we + d /\ pe - ps = re - rs
      /\ (re <= ws /\ ps = rs /\ pe = re) \/ (we <= rs /\ ps = rs + d /\ pe = re + d)
      /\ ours => (ra + (re - rs) <= wa /\ pa = ra) \/ (wa + (we - ws) <= ra /\ pa = ra + d)
  BY DEF Beside
<1>3. ours <=> SeatOf(p) = SeatOf(q)
  BY DEF Beside
<1>4. q.start = ws /\ q.end = we + d /\ q.at = wa
  OBVIOUS
<1> HIDE DEF rs, re, ra, ps, pe, pa, ws, we, wa, ours
<1>5. pe <= ws \/ we + d <= ps
  BY <1>1, <1>2
<1>6. ours => (pa + (pe - ps) <= wa \/ wa + (we + d - ws) <= pa)
  BY <1>1, <1>2
<1>7. (ours => (pa + (pe - ps) <= q.at \/ q.at + (q.end - q.start) <= pa))
  BY <1>1, <1>4, <1>6 DEF Run
<1>8. ours <=> SeatOf(q) = SeatOf(p)
  BY <1>3
<1> QED BY <1>3, <1>4, <1>5, <1>7, <1>8 DEF Disjoint, ps, pe, pa

\* Track::rewrite_within: the run's operation takes the rewrite, and every
\* run still is the text it says.
Rewrites(t, c, N, w, at, len, new, u, M, v) ==
  /\ w \in t.runs /\ at \in Nat /\ len \in Nat \ {0} /\ new \in Content
  /\ w.start <= at /\ at + len <= w.end
  /\ u = Splice(c, at, at + len, new)
  /\ LET from == w.at + (at - w.start)
     IN  M = Splice(N[SeatOf(w)], from, from + len, new)
  /\ v = RewriteWithin(t, w, at, len, Len(new))
SeatsOf(v, t) == \A p \in v.runs : \E r \in t.runs : SeatOf(r) = SeatOf(p)
\* Track::rewrite_within: the track stays honest, of the rewritten text.
LEMMA RewriteHonest ==
  ASSUME NEW t, NEW c \in Content, NEW D, NEW N \in [D -> Content], TrackOK(t, c, N),
         NEW w, NEW at \in Nat, NEW len \in Nat, NEW new, NEW u, NEW M, NEW v,
         Rewrites(t, c, N, w, at, len, new, u, M, v)
  PROVE  /\ TrackOK(v, u, [N EXCEPT ![SeatOf(w)] = M])
         /\ [N EXCEPT ![SeatOf(w)] = M] \in [D -> Content]
         /\ SeatsOf(v, t)
<1> DEFINE end == at + len
           n == Len(new)
           d == n - len
           from == w.at + (at - w.start)
           to == from + len
           N2 == [N EXCEPT ![SeatOf(w)] = M]
           shift(r) == IF r.start >= end THEN d ELSE 0
           moved(r) == [r EXCEPT !.start = @ + shift(r), !.end = @ + shift(r), !.at = @ + Slide(r, w, d)]
           grown == [w EXCEPT !.end = @ + d]
<1>0. /\ w \in t.runs /\ len # 0 /\ new \in Content /\ n \in Nat /\ end \in Nat
      /\ w.start <= at /\ end <= w.end /\ at <= end
      /\ u = Splice(c, at, end, new) /\ M = Splice(N[SeatOf(w)], from, to, new)
      /\ v = RewriteWithin(t, w, at, len, n)
  BY DEF Rewrites, Content
<1>1. \A r \in t.runs : RunOK(r, c, N) /\ r \in Run /\ r.start <= r.end
  BY DEF TrackOK, RunOK
<1>2. \A r, s \in t.runs : r = s \/ Disjoint(r, s)
  BY DEF TrackOK
<1>20. w \in Run /\ RunOK(w, c, N)
  BY <1>0, <1>1
<1>21. from \in Nat /\ to \in Nat /\ Within(w, at, end, from, to)
  <2> DEFINE ws == w.start
             we == w.end
             wa == w.at
  <2>1. ws \in Nat /\ we \in Nat /\ wa \in Nat /\ ws <= at /\ at + len <= we
    BY <1>0, <1>20 DEF Run
  <2>2. from = wa + (at - ws) /\ to = from + len /\ end = at + len
    OBVIOUS
  <2> HIDE DEF ws, we, wa, from, to, end
  <2>3. from \in Nat
    BY <2>1, <2>2
  <2>4. to \in Nat /\ to = from + (end - at) /\ at <= end /\ end <= we
    BY <2>1, <2>2, <2>3
  <2> QED BY <2>1, <2>2, <2>3, <2>4 DEF Within, ws, we, wa
<1> HIDE DEF from, to
<1>3. /\ w.start <= at /\ at <= end /\ end <= w.end /\ end \in Nat /\ w \in Run /\ RunOK(w, c, N)
      /\ Within(w, at, end, from, to) /\ end = at + len
      /\ from \in Nat /\ to \in Nat
  BY <1>0, <1>20, <1>21
<1>4. /\ SeatOf(w) \in D /\ N[SeatOf(w)] \in Content /\ w.end <= Len(c)
      /\ w.at + (w.end - w.start) <= Len(N[SeatOf(w)])
  BY <1>3 DEF RunOK
<1>5. n \in Nat /\ d \in Int /\ d = Len(new) - (end - at)
  BY <1>0
<1>6. end <= Len(c)
  <2>1. w.end \in Nat /\ Len(c) \in Nat
    BY <1>3 DEF Run, Content
  <2> QED BY <1>3, <1>4, <2>1
<1>7. from <= to /\ to <= Len(N[SeatOf(w)]) /\ d = Len(new) - (to - from)
  <2> DEFINE ws == w.start
             we == w.end
             wa == w.at
             L == Len(N[SeatOf(w)])
  <2>1. ws \in Nat /\ we \in Nat /\ wa \in Nat /\ L \in Nat
    BY <1>3, <1>4 DEF Run, Content
  <2>2. ws <= at /\ at <= end /\ end <= we /\ from = wa + (at - ws) /\ to = from + (end - at)
        /\ wa + (we - ws) <= L
    BY <1>3, <1>4 DEF Within
  <2> HIDE DEF ws, we, wa, L, end, n
  <2>3. from <= to /\ to <= L
    BY <1>3, <2>1, <2>2
  <2>4. to - from = end - at
    BY <1>3, <2>2
  <2> QED BY <1>5, <2>3, <2>4 DEF L
<1>8. v.runs = {grown} \cup {moved(r) : r \in t.runs \ {w}}
  BY <1>0 DEF RewriteWithin
<1> HIDE DEF d, end, n
<1>9. Moved(u, c, at, end, new, d)
  <2>1. u = Splice(c, at, end, new)
    BY <1>0
  <2> QED BY <1>0, <1>3, <1>5, <1>6, <2>1, SplicePoints
<1>10. Moved(M, N[SeatOf(w)], from, to, new, d)
  BY <1>0, <1>3, <1>4, <1>7, SplicePoints
<1>11. N2 \in [D -> Content]
  <2>1. M \in Content
    BY <1>10 DEF Moved
  <2> QED BY <1>4, <2>1
<1>12. /\ RunOK(grown, u, N2) /\ grown \in Run /\ SeatOf(grown) = SeatOf(w)
       /\ grown.start = w.start /\ grown.end = w.end + d /\ grown.at = w.at
       /\ to <= w.at + (w.end - w.start) /\ w.at <= from
  <2>1. GrowsTo(grown, w, d)
    BY DEF GrowsTo
  <2> HIDE DEF grown
  <2>2. GrownOK(grown, w, u, N2, d, from, to)
    BY <1>3, <1>5, <1>9, <1>10, <2>1, RewrittenOK
  <2> HIDE DEF N2
  <2> QED BY <2>2 DEF GrownOK
<1>13. w.start <= w.end + d /\ w.start <= w.end
  <2>1. grown.start <= grown.end
    BY <1>12 DEF RunOK
  <2> QED BY <1>0, <1>1, <1>12, <2>1
<1> HIDE DEF N2, grown
<1>14. ASSUME NEW r \in t.runs \ {w} PROVE Beside(moved(r), r, w, d)
  <2>1. r \in Run /\ r.start <= r.end /\ Disjoint(r, w)
    BY <1>0, <1>1, <1>2, <1>14
  <2> DEFINE e == shift(r)
  <2>2. e \in Int /\ e = IF r.start >= at + len THEN n - len ELSE 0
    BY <1>3, <1>5 DEF d, end
  <2>3. w.start <= at /\ at + len <= w.end
    BY <1>3
  <2>4. \A p : p = [r EXCEPT !.start = @ + e, !.end = @ + e, !.at = @ + Slide(r, w, n - len)]
                 => Beside(p, r, w, n - len)
    <3> HIDE DEF e
    <3>1. len \in Nat \ {0}
      BY <1>0
    <3> QED BY <1>3, <1>5, <2>1, <2>2, <2>3, <3>1, BesideIs
  <2> QED BY <2>4 DEF d
<1> HIDE DEF moved
<1>15. ASSUME NEW r \in t.runs \ {w} PROVE RunOK(moved(r), u, N2)
  <2>1. RunOK(r, c, N) /\ Beside(moved(r), r, w, d)
    BY <1>1, <1>14, <1>15
  <2>2. SeatOf(r) = SeatOf(w) => Moved(M, N[SeatOf(w)], from, to, new, d)
    BY <1>10
  <2> DEFINE p == moved(r)
  <2> HIDE DEF p
  <2>3. Beside(p, r, w, d)
    BY <2>1 DEF p
  <2>4. RunOK(p, u, [N EXCEPT ![SeatOf(w)] = M])
    BY <1>3, <1>7, <1>9, <1>12, <2>1, <2>2, <2>3, BesideOK
  <2> QED BY <2>4 DEF p, N2
<1>16. \A p \in v.runs : p = grown \/ \E r \in t.runs \ {w} : p = moved(r)
  BY <1>8
<1>17. \A p \in v.runs : RunOK(p, u, N2)
  BY <1>12, <1>15, <1>16
<1>18. ASSUME NEW p \in v.runs, NEW q \in v.runs, p # q PROVE Disjoint(p, q)
  <2>1. ASSUME NEW a \in v.runs, NEW r \in t.runs \ {w}, a = moved(r)
        PROVE  Disjoint(a, grown) /\ Disjoint(grown, a)
    BY <1>3, <1>5, <1>12, <1>13, <1>14, <2>1, BesideIt
  <2>2. ASSUME NEW r \in t.runs \ {w}, NEW s \in t.runs \ {w}, p = moved(r), q = moved(s)
        PROVE  Disjoint(p, q)
    <3>1. r # s
      BY <1>18, <2>2
    <3>2. Disjoint(r, s) /\ Beside(p, r, w, d) /\ Beside(q, s, w, d)
      BY <1>2, <1>14, <2>2, <3>1
    <3> QED BY <1>3, <1>5, <1>13, <3>2, BesidesApart
  <2> QED BY <1>16, <1>18, <2>1, <2>2
<1>19. \A p \in v.runs : \E r \in t.runs : SeatOf(r) = SeatOf(p)
  <2> TAKE p \in v.runs
  <2>1. CASE p = grown
    BY <1>0, <1>12, <2>1
  <2>2. ASSUME NEW r \in t.runs \ {w}, p = moved(r) PROVE SeatOf(r) = SeatOf(p)
    BY <1>14, <2>2 DEF Beside
  <2> QED BY <1>16, <2>1, <2>2
<1> QED BY <1>11, <1>17, <1>18, <1>19 DEF TrackOK, N2, SeatsOf

\* Tracks say nothing of the new texts no run is of.
LEMMA SameTexts ==
  ASSUME NEW t, NEW c, NEW N, NEW N2, TrackOK(t, c, N),
         \A r \in t.runs : SeatOf(r) \in DOMAIN N2 /\ N2[SeatOf(r)] = N[SeatOf(r)]
  PROVE  TrackOK(t, c, N2)
<1>1. \A r \in t.runs : RunOK(r, c, N2)
  BY DEF TrackOK, RunOK
<1> QED BY <1>1 DEF TrackOK

\* The states an intent that applies goes through.
Steps(h, m, ops) ==
  /\ h[0] = Fresh(m)
  /\ \A k \in 0..Len(ops) : h[k] \in Applied /\ h[k].ok
  /\ \A k \in 1..Len(ops) : h[k] = ApplyOp(h[k - 1], ops[k])

AnyInv(q, l, k, r) == r \in Applied
BuildLeft == INSTANCE StepFolds WITH FoldStep <- ApplyStep, FoldInv <- AnyInv

\* Induction, for this fold.
LEMMA BuildInducts == BuildLeft!Inducts
BY Inducting DEF BuildLeft!Inducts

\* The states between the operations.
LEMMA RanSteps ==
  ASSUME NEW m \in State, NEW ops \in Seq(Op), Ran(Fresh(m), ops).ok
  PROVE  \E h : Steps(h, m, ops) /\ Ran(Fresh(m), ops) = h[Len(ops)]
<1> DEFINE n == Len(ops)
           b == Fresh(m)
<1>1. n \in Nat /\ DOMAIN ops = 1..n /\ \A k \in 1..n : ops[k] \in Op
  OBVIOUS
<1>2. Ran(b, ops) = BuildLeft!FoldedLeft(0, b, ops)
  BY DEF Ran, BuildLeft!FoldedLeft, ApplyStep, FoldLeft, MapThenFoldSet,
         Max
<1>3. PICK h : BuildLeft!Traces(h, 0, b, ops, n) /\ BuildLeft!FoldedLeft(0, b, ops) = h[n]
  BY <1>1, BuildInducts, BuildLeft!FoldTrace
<1>4. b \in Applied
  BY DEF Fresh, Applied
<1> HIDE DEF n, b
<1>5. \A k \in 0..n : h[k] \in Applied
  <2>1. AnyInv(0, ops, 0, b)
    BY <1>4 DEF AnyInv
  <2>2. ASSUME NEW i \in 1..n, NEW x, AnyInv(0, ops, i - 1, x)
        PROVE  AnyInv(0, ops, i, ApplyStep(0, x, ops[i]))
    BY <1>1, <2>2, ApplyOpType DEF AnyInv, ApplyStep
  <2>3. \A i \in 0..n : AnyInv(0, ops, i, h[i])
    BY <1>1, <1>3, <2>1, <2>2, BuildInducts, BuildLeft!TraceHolds
  <2> QED BY <2>3 DEF AnyInv
<1>6. h[0] = b /\ \A k \in 1..n : h[k] = ApplyOp(h[k - 1], ops[k])
  BY <1>3 DEF BuildLeft!Traces, ApplyStep
<1>7. \A k \in 0..n : h[k].ok
  <2> DEFINE S == {j \in Nat : j <= n => h[n - j].ok}
  <2>1. 0 \in S
    <3>1. n - 0 = n /\ h[n].ok
      BY <1>1, <1>2, <1>3 DEF b
    <3> QED BY <3>1
  <2>2. ASSUME NEW j \in Nat, j \in S PROVE j + 1 \in S
    <3> SUFFICES ASSUME j + 1 <= n PROVE h[n - (j + 1)].ok
      OBVIOUS
    <3>1. n - j \in 1..n /\ (n - j) - 1 = n - (j + 1) /\ n - (j + 1) \in 0..n
      BY <1>1
    <3>2. h[n - j].ok
      BY <1>1, <2>2
    <3>3. h[n - j] = ApplyOp(h[n - (j + 1)], ops[n - j])
      BY <1>6, <3>1
    <3> QED BY <1>1, <1>5, <3>1, <3>2, <3>3, ApplyOpType
  <2>3. Nat \subseteq S
    <3> HIDE DEF S
    <3> QED BY <2>1, <2>2, Induction
  <2> TAKE k \in 0..n
  <2>4. n - k \in Nat /\ n - k <= n /\ n - (n - k) = k
    BY <1>1
  <2> QED BY <2>3, <2>4
<1> QED BY <1>2, <1>3, <1>5, <1>6, <1>7 DEF Steps, n, b

\* An edit that applies: where its span sits and what it leaves.
EditAt(c, o, u) ==
  /\ c \in Content /\ u \in Content
  /\ Unique(c, o.old) /\ o.old \in Content /\ o.new \in Content
  /\ Place(c, o.old) \in Nat /\ Len(o.old) \in Nat \ {0}
  /\ Place(c, o.old) + Len(o.old) <= Len(c)
  /\ u = Splice(c, Place(c, o.old), Place(c, o.old) + Len(o.old), o.new)

\* An edit that applied replaced the one place of its old text.
LEMMA EditApplies ==
  ASSUME NEW r \in Applied, NEW o \in Op, o.op = "edit", ApplyOp(r, o).ok
  PROVE  EditAt(r.m[o.path], o, ApplyOp(r, o).m[o.path])
<1> DEFINE c == r.m[o.path]
           u == Replaced(c, o.old, o.new)
<1>1. o \in Edits /\ o.path \in Paths /\ o.old \in Content /\ o.new \in Content
  BY OpKinds DEF Edits
<1>2. c \in Content \cup {NoFile} /\ DOMAIN r.m = Paths
  BY <1>1 DEF Applied, State
<1>3. c # NoFile /\ Unique(c, o.old) /\ r.ok
  <2> SUFFICES ASSUME ~(c # NoFile /\ Unique(c, o.old) /\ r.ok) PROVE FALSE
    OBVIOUS
  <2>1. ApplyOp(r, o) = [r EXCEPT !.ok = FALSE]
    BY DEF ApplyOp
  <2> QED BY <2>1 DEF Applied
<1>4. ApplyOp(r, o) = [ok |-> TRUE, m |-> [r.m EXCEPT ![o.path] = u]]
  BY <1>3 DEF ApplyOp
<1>5. ApplyOp(r, o).m[o.path] = u
  BY <1>1, <1>2, <1>4
<1>6. c \in Content
  BY <1>2, <1>3
<1>7. u \in Content
  BY <1>1, <1>3, <1>6, ReplacedType
<1>8. u = Splice(c, Place(c, o.old), Place(c, o.old) + Len(o.old), o.new)
  BY DEF Replaced
<1> HIDE DEF u, c
<1>9. /\ Place(c, o.old) \in Nat /\ Len(o.old) \in Nat \ {0}
      /\ Place(c, o.old) + Len(o.old) <= Len(c)
  BY <1>1, <1>3, <1>6, PlaceIs
<1> QED BY <1>1, <1>3, <1>5, <1>6, <1>7, <1>8, <1>9 DEF EditAt, c

\* A call absorbed so far: what its spans made of the content, in the texts
\* of one owner.
AbsorbStep(p, acc, o) == AbsorbOp(p, acc, o)
AbsorbRec(acc) ==
  /\ acc.ok \in BOOLEAN
  /\ acc = [ok |-> acc.ok, owner |-> acc.owner, track |-> acc.track, content |-> acc.content,
            news |-> acc.news]
AbsorbInv(q, l, k, acc) ==
  /\ AbsorbRec(acc)
  /\ acc.ok =>
       /\ acc.content = q.h[k].m[q.x]
       /\ acc.news \in [q.D -> Content]
       /\ TrackOK(acc.track, acc.content, acc.news)
       /\ SeatsOf(acc.track, q.t)
       /\ acc.owner = NoOwner => acc.news = q.N
       /\ k > 0 => acc.content \in Content /\ \E r \in q.t.runs : r.call = acc.owner
       /\ \A s \in q.D : s[1] # acc.owner => acc.news[s] = q.N[s]
AbsorbLeft == INSTANCE StepFolds WITH FoldStep <- AbsorbStep, FoldInv <- AbsorbInv

\* Induction, for this fold.
LEMMA AbsorbInducts == AbsorbLeft!Inducts
BY Inducting DEF AbsorbLeft!Inducts

AbsorbNext(acc, y, u, D) ==
  /\ AbsorbRec(y)
  /\ y.ok =>
       /\ y.content = u /\ y.news \in [D -> Content] /\ TrackOK(y.track, y.content, y.news)
       /\ SeatsOf(y.track, acc.track)
       /\ acc.owner = NoOwner \/ y.owner = acc.owner
       /\ \E r \in acc.track.runs : y.owner = r.call
       /\ \A s \in D : s[1] # y.owner => y.news[s] = acc.news[s]

\* One operation of a call that is absorbed.
LEMMA AbsorbOne ==
  ASSUME NEW c \in Content, NEW u, NEW o \in Op, o.op = "edit" => EditAt(c, o, u),
         NEW D, NEW acc, AbsorbRec(acc), acc.ok, acc.content = c, acc.news \in [D -> Content],
         TrackOK(acc.track, c, acc.news), NEW p, NEW y, y = AbsorbOp(p, acc, o)
  PROVE  AbsorbNext(acc, y, u, D)
<1> DEFINE at == Place(acc.content, o.old)
           end == at + Len(o.old)
           within == {r \in acc.track.runs : r.start <= at /\ end <= r.end}
           w == CHOOSE r \in within : TRUE
           target == acc.news[<<w.call, w.op>>]
           from == w.at + (at - w.start)
           bad == \/ ~acc.ok \/ o.op # "edit" \/ within = {}
                  \/ acc.owner \notin {NoOwner, w.call}
                  \/ Slice(target, from, from + Len(o.old)) # o.old
           M == Splice(target, from, from + Len(o.old), o.new)
           v == RewriteWithin(acc.track, w, at, Len(o.old), Len(o.new))
           z == [ok |-> TRUE, owner |-> w.call, track |-> v,
                 content |-> Replaced(acc.content, o.old, o.new),
                 news |-> [acc.news EXCEPT ![<<w.call, w.op>>] = M]]
<1>1. y = IF bad THEN [acc EXCEPT !.ok = FALSE] ELSE z
  BY DEF AbsorbOp
<1>2. CASE bad
  <2>1. y = [acc EXCEPT !.ok = FALSE]
    BY <1>1, <1>2
  <2> HIDE DEF bad
  <2>2. y = [ok |-> FALSE, owner |-> acc.owner, track |-> acc.track, content |-> acc.content,
             news |-> acc.news]
    BY <2>1 DEF AbsorbRec
  <2> QED BY <2>2 DEF AbsorbRec, AbsorbNext
<1>3. CASE ~bad
  <2>1. y = z
    BY <1>1, <1>3
  <2>2. o.op = "edit" /\ w \in within /\ acc.owner \in {NoOwner, w.call}
    BY <1>3
  <2>3. EditAt(c, o, u) /\ at = Place(c, o.old)
    BY <2>2
  <2>4. /\ at \in Nat /\ Len(o.old) \in Nat \ {0} /\ o.old \in Content /\ o.new \in Content
        /\ at + Len(o.old) <= Len(c) /\ u = Splice(c, at, at + Len(o.old), o.new)
    BY <2>3 DEF EditAt
  <2>5. w \in acc.track.runs /\ w.start <= at /\ at + Len(o.old) <= w.end
    BY <2>2
  <2>6. w \in Run
    BY <2>5 DEF TrackOK, RunOK
  <2>7. y = [ok |-> TRUE, owner |-> w.call, track |-> v, content |-> Replaced(acc.content, o.old, o.new),
             news |-> [acc.news EXCEPT ![<<w.call, w.op>>] = M]]
    BY <2>1
  <2>8. Replaced(acc.content, o.old, o.new) = u
    BY <2>3, <2>4 DEF Replaced
  <2>9. <<w.call, w.op>> = SeatOf(w)
    BY DEF SeatOf
  <2> DEFINE len == Len(o.old)
             N == acc.news
             t == acc.track
  <2>10. Rewrites(t, c, N, w, at, len, o.new, u, M, v)
    BY <2>4, <2>5, <2>9 DEF Rewrites
  <2>11. at \in Nat /\ len \in Nat /\ N \in [D -> Content] /\ TrackOK(t, c, N)
    BY <2>4
  <2> HIDE DEF w, bad, z, M, v, within, at, len, N, t
  <2>12. /\ TrackOK(v, u, [N EXCEPT ![SeatOf(w)] = M])
         /\ [N EXCEPT ![SeatOf(w)] = M] \in [D -> Content]
         /\ SeatsOf(v, t)
    <3>1. PICK a \in Nat, l \in Nat, F \in [D -> Content] : a = at /\ l = len /\ F = N
      BY <2>11
    <3>2. Rewrites(t, c, F, w, a, l, o.new, u, M, v) /\ TrackOK(t, c, F)
      BY <2>10, <2>11, <3>1
    <3>3. /\ TrackOK(v, u, [F EXCEPT ![SeatOf(w)] = M])
          /\ [F EXCEPT ![SeatOf(w)] = M] \in [D -> Content]
          /\ SeatsOf(v, t)
      BY <3>2, RewriteHonest
    <3> QED BY <3>1, <3>3
  <2>13. /\ TrackOK(v, u, [acc.news EXCEPT ![SeatOf(w)] = M])
         /\ [acc.news EXCEPT ![SeatOf(w)] = M] \in [D -> Content]
         /\ SeatsOf(v, acc.track)
    BY <2>12 DEF N, t
  <2>14. y.news = [acc.news EXCEPT ![SeatOf(w)] = M] /\ y.track = v /\ y.content = u /\ y.owner = w.call
    BY <2>7, <2>8, <2>9
  <2>15. \A s \in D : s[1] # y.owner => y.news[s] = acc.news[s]
    <3> TAKE s \in D
    <3> HAVE s[1] # y.owner
    <3>1. s # SeatOf(w)
      BY <2>14 DEF SeatOf
    <3> QED BY <2>14, <3>1
  <2>16. AbsorbRec(y)
    BY <2>7 DEF AbsorbRec
  <2> QED BY <2>2, <2>5, <2>13, <2>14, <2>15, <2>16 DEF AbsorbNext
<1> QED BY <1>2, <1>3

AbsorbBase(t, c, ops, N) == [ok |-> ops # <<>>, owner |-> NoOwner, track |-> t, content |-> c, news |-> N]

\* absorb, as a fold.
LEMMA AbsorbFolds ==
  ASSUME NEW planned, NEW t, NEW c, NEW ops
  PROVE  Absorb(planned, t, c, ops) = AbsorbLeft!FoldedLeft(planned, AbsorbBase(t, c, ops, NewsOf(planned)), ops)
BY DEF Absorb, AbsorbBase, AbsorbLeft!FoldedLeft, AbsorbStep, FoldLeft, MapThenFoldSet,
       Max

\* absorb: when every span of a call lies in what one earlier call wrote,
\* that call's new texts, so rewritten, give the content the call left.
LEMMA AbsorbHonest ==
  ASSUME NEW m \in State, NEW x \in Paths, m[x] # NoFile, NEW ops \in Seq(Op), Shape(ops, x),
         Ran(Fresh(m), ops).ok, NEW D, NEW N \in [D -> Content], NEW t, TrackOK(t, m[x], N),
         \A r \in t.runs : r.call # NoOwner, NEW planned, NewsOf(planned) = N,
         NEW y, y = Absorb(planned, t, m[x], ops), y.ok
  PROVE  /\ y.content = Ran(Fresh(m), ops).m[x] /\ y.content \in Content /\ y.news \in [D -> Content]
         /\ TrackOK(y.track, y.content, y.news) /\ SeatsOf(y.track, t)
         /\ \E r \in t.runs : r.call = y.owner
         /\ \A s \in D : s[1] # y.owner => y.news[s] = N[s]
<1> DEFINE n == Len(ops)
           b == AbsorbBase(t, m[x], ops, N)
<1>1. n \in Nat /\ DOMAIN ops = 1..n /\ \A k \in 1..n : ops[k] \in Op
  OBVIOUS
<1>2. PICK h : Steps(h, m, ops) /\ Ran(Fresh(m), ops) = h[n]
  BY RanSteps
<1> DEFINE q == [h |-> h, x |-> x, D |-> D, N |-> N, t |-> t]
<1>3. q.h = h /\ q.x = x /\ q.D = D /\ q.N = N /\ q.t = t
  OBVIOUS
<1> HIDE DEF q, n
<1>4. h[0] = Fresh(m) /\ \A k \in 1..n : h[k] = ApplyOp(h[k - 1], ops[k])
  BY <1>2 DEF Steps, n
<1>5. \A k \in 0..n : h[k] \in Applied /\ h[k].ok
  BY <1>2 DEF Steps, n
<1>6. AbsorbInv(q, ops, 0, b)
  <2>1. b = [ok |-> ops # <<>>, owner |-> NoOwner, track |-> t, content |-> m[x], news |-> N]
    BY DEF AbsorbBase
  <2> DEFINE some == ops # <<>>
  <2>2. some \in BOOLEAN
    OBVIOUS
  <2> HIDE DEF b
  <2>3. b.ok = some /\ b.owner = NoOwner /\ b.track = t /\ b.content = m[x] /\ b.news = N
    BY <2>1
  <2>4. AbsorbRec(b)
    <3>1. b = [ok |-> b.ok, owner |-> b.owner, track |-> b.track, content |-> b.content, news |-> b.news]
      BY <2>1
    <3> QED BY <2>2, <2>3, <3>1 DEF AbsorbRec
  <2>5. b.content = q.h[0].m[q.x]
    BY <1>3, <1>4, <2>3 DEF Fresh
  <2>6. SeatsOf(b.track, q.t)
    BY <1>3, <2>3 DEF SeatsOf
  <2>7. /\ b.news \in [q.D -> Content] /\ TrackOK(b.track, b.content, b.news)
        /\ b.owner = NoOwner => b.news = q.N
        /\ \A s \in q.D : s[1] # b.owner => b.news[s] = q.N[s]
    BY <1>3, <2>3
  <2>8. ~(0 > 0)
    OBVIOUS
  <2> QED BY <2>4, <2>5, <2>6, <2>7, <2>8 DEF AbsorbInv
<1>7. ASSUME NEW i \in 1..n, NEW acc, AbsorbInv(q, ops, i - 1, acc)
      PROVE  AbsorbInv(q, ops, i, AbsorbStep(planned, acc, ops[i]))
  <2> DEFINE z == AbsorbStep(planned, acc, ops[i])
  <2>1. z = AbsorbOp(planned, acc, ops[i])
    BY DEF AbsorbStep
  <2> HIDE DEF z
  <2>2. CASE ~acc.ok
    <3>1. z = [acc EXCEPT !.ok = FALSE]
      BY <2>1, <2>2 DEF AbsorbOp
    <3>2. AbsorbRec(acc)
      BY <1>7 DEF AbsorbInv
    <3>3. z = [ok |-> FALSE, owner |-> acc.owner, track |-> acc.track, content |-> acc.content,
               news |-> acc.news]
      BY <3>1, <3>2 DEF AbsorbRec
    <3>4. z.ok = FALSE /\ AbsorbRec(z)
      BY <3>3 DEF AbsorbRec
    <3> QED BY <3>4 DEF AbsorbInv, z
  <2>3. CASE acc.ok
    <3>1. /\ AbsorbRec(acc) /\ acc.content = h[i - 1].m[x] /\ acc.news \in [D -> Content]
          /\ TrackOK(acc.track, acc.content, acc.news) /\ SeatsOf(acc.track, t)
          /\ acc.owner = NoOwner => acc.news = N
          /\ \A s \in D : s[1] # acc.owner => acc.news[s] = N[s]
      BY <1>3, <1>7, <2>3 DEF AbsorbInv
    <3>2. ops[i] \in Op /\ ops[i].path = x /\ i - 1 \in 0..n /\ i \in 0..n
      BY <1>1 DEF Shape, n
    <3>3. h[i - 1] \in Applied /\ h[i] = ApplyOp(h[i - 1], ops[i]) /\ h[i].ok
      BY <1>4, <1>5, <3>2
    <3>4. ops[i].op = "edit" => EditAt(acc.content, ops[i], h[i].m[x])
      BY <3>1, <3>2, <3>3, EditApplies
    <3>5. CASE ops[i].op # "edit"
      <4>1. z = [acc EXCEPT !.ok = FALSE]
        BY <2>1, <3>5 DEF AbsorbOp
      <4>2. z = [ok |-> FALSE, owner |-> acc.owner, track |-> acc.track, content |-> acc.content,
                 news |-> acc.news]
        BY <3>1, <4>1 DEF AbsorbRec
      <4>3. z.ok = FALSE /\ AbsorbRec(z)
        BY <4>2 DEF AbsorbRec
      <4> QED BY <4>3 DEF AbsorbInv, z
    <3>6. CASE ops[i].op = "edit"
      <4>1. acc.content \in Content
        BY <3>4, <3>6 DEF EditAt
      <4> DEFINE u == h[i].m[x]
      <4>2. /\ AbsorbRec(z)
            /\ z.ok =>
                 /\ z.content = u /\ z.news \in [D -> Content] /\ TrackOK(z.track, z.content, z.news)
                 /\ SeatsOf(z.track, acc.track)
                 /\ acc.owner = NoOwner \/ z.owner = acc.owner
                 /\ \E r \in acc.track.runs : z.owner = r.call
                 /\ \A s \in D : s[1] # z.owner => z.news[s] = acc.news[s]
        <5> HIDE DEF u
        <5>1. ops[i].op = "edit" => EditAt(acc.content, ops[i], u)
          BY <3>4 DEF u
        <5>2. PICK c \in Content, o \in Op : c = acc.content /\ o = ops[i]
          BY <3>2, <4>1
        <5>3. (o.op = "edit" => EditAt(c, o, u)) /\ acc.content = c /\ TrackOK(acc.track, c, acc.news)
          BY <3>1, <5>1, <5>2
        <5>4. AbsorbRec(acc) /\ acc.ok /\ acc.news \in [D -> Content] /\ z = AbsorbOp(planned, acc, o)
          BY <2>1, <2>3, <3>1, <5>2
        <5>5. AbsorbNext(acc, z, u, D)
          BY <5>3, <5>4, AbsorbOne
        <5> QED BY <5>5 DEF AbsorbNext
      <4> SUFFICES ASSUME z.ok PROVE AbsorbInv(q, ops, i, z)
        BY <4>2 DEF AbsorbInv, z
      <4>3. SeatsOf(z.track, t)
        BY <3>1, <4>2 DEF SeatsOf
      <4>4. \E r \in t.runs : r.call = z.owner
        <5>1. PICK r \in acc.track.runs : z.owner = r.call
          BY <4>2
        <5>2. PICK e \in t.runs : SeatOf(e) = SeatOf(r)
          BY <3>1 DEF SeatsOf
        <5>3. e.call = r.call
          BY <5>2 DEF SeatOf
        <5> QED BY <5>1, <5>3
      <4>5. z.owner # NoOwner
        BY <4>4
      <4>6. \A s \in D : s[1] # z.owner => z.news[s] = N[s]
        BY <3>1, <4>2
      <4>8. z.content \in Content
        BY <3>4, <3>6, <4>2 DEF EditAt
      <4>7. z.content = q.h[i].m[q.x] /\ z.news \in [q.D -> Content]
            /\ TrackOK(z.track, z.content, z.news) /\ SeatsOf(z.track, q.t)
            /\ (\A s \in q.D : s[1] # z.owner => z.news[s] = q.N[s])
            /\ (\E r \in q.t.runs : r.call = z.owner)
        BY <1>3, <4>2, <4>3, <4>4, <4>6
      <4> QED BY <4>2, <4>5, <4>7, <4>8 DEF AbsorbInv
    <3> QED BY <3>5, <3>6
  <2> QED BY <2>2, <2>3
<1> HIDE DEF b
<1>8. AbsorbInv(q, ops, n, AbsorbLeft!FoldedLeft(planned, b, ops))
  BY <1>1, <1>6, <1>7, AbsorbInducts, AbsorbLeft!FoldHolds
<1>9. y = AbsorbLeft!FoldedLeft(planned, b, ops)
  BY AbsorbFolds DEF b
<1>10. AbsorbInv(q, ops, n, y)
  BY <1>8, <1>9
<1>11. ops # <<>>
  <2> SUFFICES ASSUME ops = <<>> PROVE FALSE
    OBVIOUS
  <2>1. y = b
    <3>1. <<>> \in Seq({0}) /\ 0 \in {0}
      OBVIOUS
    <3>2. AbsorbLeft!FoldedLeft(planned, b, <<>>) = b
      BY <3>1, AbsorbInducts, AbsorbLeft!FoldOne
    <3> QED BY <1>9, <3>2
  <2>2. b.ok = FALSE
    BY DEF b, AbsorbBase
  <2> QED BY <2>1, <2>2
<1>12. n > 0
  BY <1>1, <1>11 DEF n
<1> QED BY <1>2, <1>3, <1>10, <1>12 DEF AbsorbInv

\* A call's own bytes attributed so far.
AttributeStep(p, acc, k) ==
  IF p.ops[k].op # "edit" THEN [t |-> NoTrack, c |-> <<>>]
  ELSE LET at == Place(acc.c, p.ops[k].old)
       IN  [t |-> TrackEdit(acc.t, at, Len(p.ops[k].old), Len(p.ops[k].new), p.seat, k),
            c |-> Replaced(acc.c, p.ops[k].old, p.ops[k].new)]
OwnRuns(y, t, seat, ops, k) ==
  \A r \in y.runs : \/ r.call = seat /\ r.op \in 1..k /\ ops[r.op].op = "edit"
                    \/ \E o \in t.runs : SeatOf(o) = SeatOf(r)
AttributeInv(q, l, k, acc) ==
  /\ acc.t.runs # {} => q.h[k].m[q.x] \in Content
  /\ TrackOK(acc.t, q.h[k].m[q.x], q.N)
  /\ OwnRuns(acc.t, q.t, q.seat, q.ops, k)
  /\ (\A i \in 1..Len(q.ops) : q.ops[i].op = "edit") => acc.c = q.h[k].m[q.x]
AttributeLeft == INSTANCE StepFolds WITH FoldStep <- AttributeStep, FoldInv <- AttributeInv

\* Induction, for this fold.
LEMMA AttributeInducts == AttributeLeft!Inducts
BY Inducting DEF AttributeLeft!Inducts

\* attribute, as a fold.
LEMMA AttributeFolds ==
  ASSUME NEW t, NEW c, NEW seat, NEW ops
  PROVE  Attribute(t, c, seat, ops)
           = AttributeLeft!FoldedLeft([seat |-> seat, ops |-> ops], [t |-> t, c |-> c], [k \in 1..Len(ops) |-> k]).t
BY SMTT(30) DEF Attribute, AttributeLeft!FoldedLeft, AttributeStep, FoldLeft, MapThenFoldSet,
       Max

\* One edit of a call, attributed.
LEMMA AttributeOne ==
  ASSUME NEW c \in Content, NEW o, NEW u, EditAt(c, o, u), NEW N, NEW t, TrackOK(t, c, N),
         NEW seat \in Nat, NEW k \in Nat, <<seat, k>> \in DOMAIN N, N[<<seat, k>>] = o.new,
         \A r \in t.runs : SeatOf(r) # <<seat, k>>,
         NEW v, v = TrackEdit(t, Place(c, o.old), Len(o.old), Len(o.new), seat, k)
  PROVE  /\ TrackOK(v, u, N)
         /\ \A p \in v.runs : SeatOf(p) = <<seat, k>> \/ \E r \in t.runs : SeatOf(r) = SeatOf(p)
<1>1. PICK at \in Nat, len \in Nat \ {0}, new \in Content :
        at = Place(c, o.old) /\ len = Len(o.old) /\ new = o.new
  BY DEF EditAt
<1>2. at + len <= Len(c) /\ u = Splice(c, at, at + len, new)
  BY <1>1 DEF EditAt
<1>3. v = TrackEdit(t, at, len, Len(new), seat, k)
  BY <1>1
<1>4. N[<<seat, k>>] = new
  BY <1>1
<1> QED BY <1>2, <1>3, <1>4, EditHonest

\* attribute: a track that was honest of what a path held is honest of what the
\* call leaves there, and the new runs are the call's.
LEMMA AttributeHonest ==
  ASSUME NEW m \in State, NEW x \in Paths, NEW ops \in Seq(Op), Shape(ops, x), Ran(Fresh(m), ops).ok,
         NEW N, NEW t, TrackOK(t, m[x], N),
         t.runs # {} => m[x] \in Content, NEW seat \in Nat,
         \A k \in 1..Len(ops) : ops[k].op = "edit" =>
            <<seat, k>> \in DOMAIN N /\ N[<<seat, k>>] = ops[k].new,
         \A r \in t.runs : r.call # seat, NEW y, y = Attribute(t, m[x], seat, ops)
  PROVE  /\ TrackOK(y, Ran(Fresh(m), ops).m[x], N) /\ OwnRuns(y, t, seat, ops, Len(ops))
         /\ y.runs # {} => Ran(Fresh(m), ops).m[x] \in Content
<1> DEFINE n == Len(ops)
           b == [t |-> t, c |-> m[x]]
           l == [k \in 1..n |-> k]
           p == [seat |-> seat, ops |-> ops]
<1>1. n \in Nat /\ DOMAIN ops = 1..n /\ DOMAIN l = 1..n /\ \A k \in 1..n : ops[k] \in Op /\ l[k] = k
  OBVIOUS
<1>2. PICK h : Steps(h, m, ops) /\ Ran(Fresh(m), ops) = h[n]
  BY RanSteps
<1> DEFINE q == [h |-> h, x |-> x, N |-> N, t |-> t, seat |-> seat, ops |-> ops]
<1>3. q.h = h /\ q.x = x /\ q.N = N /\ q.t = t /\ q.seat = seat /\ q.ops = ops /\ p.seat = seat /\ p.ops = ops
  OBVIOUS
<1>4. b.t = t /\ b.c = m[x]
  OBVIOUS
<1> HIDE DEF q, n, p, b, l
<1>5. /\ h[0] = Fresh(m)
      /\ \A k \in 1..n : h[k] = ApplyOp(h[k - 1], ops[k])
      /\ \A k \in 0..n : h[k] \in Applied /\ h[k].ok
  BY <1>2 DEF Steps, n
<1>6. AttributeInv(q, l, 0, b)
  <2>1. h[0].m = m
    BY <1>5 DEF Fresh
  <2>2. OwnRuns(t, t, seat, ops, 0)
    BY DEF OwnRuns
  <2> QED BY <1>3, <1>4, <2>1, <2>2 DEF AttributeInv
<1>7. ASSUME NEW i \in 1..n, NEW acc, AttributeInv(q, l, i - 1, acc)
      PROVE  AttributeInv(q, l, i, AttributeStep(p, acc, l[i]))
  <2> DEFINE z == AttributeStep(p, acc, l[i])
             o == ops[i]
  <2>1. /\ TrackOK(acc.t, h[i - 1].m[x], N) /\ OwnRuns(acc.t, t, seat, ops, i - 1)
        /\ (\A j \in 1..n : ops[j].op = "edit") => acc.c = h[i - 1].m[x]
    BY <1>3, <1>7 DEF AttributeInv, n
  <2>2. o \in Op /\ o.path = x /\ l[i] = i /\ i - 1 \in 0..n /\ i \in 0..n /\ i \in Nat
    BY <1>1 DEF Shape, n
  <2>3. CASE o.op # "edit"
    <3>1. z = [t |-> NoTrack, c |-> <<>>]
      BY <1>3, <2>2, <2>3 DEF AttributeStep
    <3>2. z.t.runs = {}
      BY <3>1 DEF NoTrack
    <3> HIDE DEF z
    <3>3. TrackOK(z.t, h[i].m[x], N) /\ OwnRuns(z.t, t, seat, ops, i)
      BY <3>2 DEF TrackOK, OwnRuns
    <3>4. ~\A j \in 1..n : ops[j].op = "edit"
      BY <2>3
    <3> QED BY <1>3, <3>2, <3>3, <3>4 DEF AttributeInv, z, n
  <2>4. CASE o.op = "edit"
    <3> DEFINE c == acc.c
               u == h[i].m[x]
    <3>1. \A j \in 1..n : ops[j].op = "edit"
      BY <2>4 DEF Shape, n
    <3>2. c = h[i - 1].m[x]
      BY <2>1, <3>1
    <3>3. h[i - 1] \in Applied /\ h[i] = ApplyOp(h[i - 1], o) /\ h[i].ok
      BY <1>5, <2>2
    <3>4. EditAt(c, o, u)
      BY <2>2, <2>4, <3>2, <3>3, EditApplies
    <3>5. /\ z.t = TrackEdit(acc.t, Place(c, o.old), Len(o.old), Len(o.new), seat, i)
          /\ z.c = Replaced(c, o.old, o.new)
      BY <1>3, <2>2, <2>4 DEF AttributeStep
    <3> HIDE DEF z, o, c, u
    <3>6. z.c = u
      BY <3>4, <3>5 DEF EditAt, Replaced
    <3>7. \A r \in acc.t.runs : SeatOf(r) # <<seat, i>>
      <4> TAKE r \in acc.t.runs
      <4>1. CASE r.call = seat /\ r.op \in 1..i - 1
        <5>1. r.op # i
          BY <2>2, <4>1
        <5> QED BY <5>1 DEF SeatOf
      <4>2. CASE \E e \in t.runs : SeatOf(e) = SeatOf(r)
        BY <4>2 DEF SeatOf
      <4> QED BY <2>1, <4>1, <4>2 DEF OwnRuns
    <3>8. <<seat, i>> \in DOMAIN N /\ N[<<seat, i>>] = o.new
      BY <2>4 DEF o, n
    <3>9. /\ TrackOK(z.t, u, N)
          /\ \A e \in z.t.runs : SeatOf(e) = <<seat, i>> \/ \E r \in acc.t.runs : SeatOf(r) = SeatOf(e)
      <4>1. c \in Content /\ TrackOK(acc.t, c, N)
        BY <2>1, <3>2, <3>4 DEF EditAt
      <4>2. PICK d \in Content : d = c
        BY <4>1
      <4>3. /\ EditAt(d, o, u) /\ TrackOK(acc.t, d, N)
            /\ z.t = TrackEdit(acc.t, Place(d, o.old), Len(o.old), Len(o.new), seat, i)
        BY <3>4, <3>5, <4>1, <4>2
      <4> QED BY <2>2, <3>7, <3>8, <4>3, AttributeOne
    <3>10. OwnRuns(z.t, t, seat, ops, i)
      <4> SUFFICES ASSUME NEW e \in z.t.runs
                   PROVE  \/ e.call = seat /\ e.op \in 1..i /\ ops[e.op].op = "edit"
                          \/ \E r \in t.runs : SeatOf(r) = SeatOf(e)
        BY DEF OwnRuns
      <4>1. CASE SeatOf(e) = <<seat, i>>
        <5>1. e.call = seat /\ e.op = i
          BY <4>1 DEF SeatOf
        <5> QED BY <2>2, <2>4, <5>1 DEF o
      <4>2. CASE \E r \in acc.t.runs : SeatOf(r) = SeatOf(e)
        <5>1. PICK r \in acc.t.runs : SeatOf(r) = SeatOf(e)
          BY <4>2
        <5>2. r.call = e.call /\ r.op = e.op
          BY <5>1 DEF SeatOf
        <5>3. r.op \in 1..i - 1 => e.op \in 1..i
          BY <2>2, <5>2
        <5> QED BY <2>1, <5>1, <5>2, <5>3 DEF OwnRuns
      <4> QED BY <3>9, <4>1, <4>2
    <3>11. u \in Content
      BY <3>4 DEF EditAt
    <3> QED BY <1>3, <3>6, <3>9, <3>10, <3>11 DEF AttributeInv, z, u
  <2> QED BY <2>3, <2>4
<1>8. AttributeInv(q, l, n, AttributeLeft!FoldedLeft(p, b, l))
  BY <1>1, <1>6, <1>7, AttributeInducts, AttributeLeft!FoldHolds
<1>9. y = AttributeLeft!FoldedLeft(p, b, l).t
  BY AttributeFolds DEF p, b, l, n
<1> QED BY <1>2, <1>3, <1>8, <1>9 DEF AttributeInv, n

-----------------------------------------------------------------------------
(* The plan's lines.                                                       *)

Call == [id : Sessions \X Nat, tool : Tool, reads : SUBSET Paths]
Reading == [path : Paths, blob : Content \cup {NoFile}, spans : SUBSET (Content \cup WholeFile)]
Line == [call : Call, kind : {"land", "skip", "absorbed"}, ops : Seq(Op), faithful : Seq(Op),
         reads : SUBSET Reading, aligned : BOOLEAN, absorbed : Seq(Nat)]

\* The lines a call is planned as.
LEMMA LandingIs ==
  ASSUME NEW call \in Call, NEW ops \in Seq(Op)
  PROVE  /\ Landing(call, ops) \in Line
         /\ [Landing(call, ops) EXCEPT !.kind = "skip"] \in Line
         /\ [Landing(call, ops) EXCEPT !.kind = "absorbed"] \in Line
<1>1. {} \in SUBSET Reading /\ <<>> \in Seq(Nat)
  OBVIOUS
<1>2. Landing(call, ops) \in Line
  BY <1>1 DEF Landing, Line
<1> DEFINE l == Landing(call, ops)
<1> HIDE DEF l
<1>3. [l EXCEPT !.kind = "skip"] \in Line /\ [l EXCEPT !.kind = "absorbed"] \in Line
  BY <1>2 DEF Line, l
<1> QED BY <1>2, <1>3 DEF l

\* The owner's line, once it absorbed a call, differs in the texts its edits
\* write and in the call it names.
Absorbs(a, p, owner, news, seat) ==
  /\ a \in Line
  /\ a.call = p.call /\ a.kind = p.kind /\ a.faithful = p.faithful /\ a.reads = p.reads
  /\ a.aligned = p.aligned
  /\ a.absorbed = Append(p.absorbed, seat)
  /\ Len(a.ops) = Len(p.ops)
  /\ \A k \in 1..Len(p.ops) :
       /\ a.ops[k].op = p.ops[k].op /\ a.ops[k].path = p.ops[k].path
       /\ p.ops[k].op = "edit" => a.ops[k].new = news[<<owner, k>>]

\* The owner's line, once it absorbed a call.
LEMMA AbsorbingIs ==
  ASSUME NEW p \in Line, NEW owner, NEW news, NEW seat \in Nat,
         \A k \in 1..Len(p.ops) : p.ops[k].op = "edit" => news[<<owner, k>>] \in Content
  PROVE  Absorbs(Absorbing(p, owner, news, seat), p, owner, news, seat)
<1> DEFINE ops == p.ops
           n == Len(ops)
           u == [k \in 1..n |-> IF ops[k].op = "edit" THEN [ops[k] EXCEPT !.new = news[<<owner, k>>]]
                                                      ELSE ops[k]]
           a == Absorbing(p, owner, news, seat)
<1>1. ops \in Seq(Op) /\ n \in Nat /\ p.absorbed \in Seq(Nat)
  BY DEF Line
<1>2. a = [p EXCEPT !.ops = u, !.absorbed = Append(p.absorbed, seat)]
  BY DEF Absorbing
<1>3. ASSUME NEW k \in 1..n
      PROVE  /\ u[k] \in Op /\ u[k].op = ops[k].op /\ u[k].path = ops[k].path
             /\ ops[k].op = "edit" => u[k].new = news[<<owner, k>>]
  <2> DEFINE o == ops[k]
  <2>1. o \in Op
    BY <1>1
  <2>2. CASE o.op = "edit"
    <3>1. o \in Edits /\ news[<<owner, k>>] \in Content
      BY <2>1, <2>2, OpKinds
    <3>2. u[k] = [o EXCEPT !.new = news[<<owner, k>>]]
      BY <2>2
    <3> HIDE DEF u, o
    <3>3. u[k] \in Edits /\ u[k].op = o.op /\ u[k].path = o.path /\ u[k].new = news[<<owner, k>>]
      BY <3>1, <3>2 DEF Edits
    <3> QED BY <3>3 DEF Op, o
  <2>3. CASE o.op # "edit"
    BY <2>1, <2>3
  <2> QED BY <2>2, <2>3
<1>4. u \in Seq(Op) /\ Len(u) = n
  <2>1. DOMAIN u = 1..n /\ u = [k \in 1..n |-> u[k]]
    OBVIOUS
  <2> HIDE DEF u, n
  <2>2. u \in [1..n -> Op]
    BY <1>3, <2>1
  <2> QED BY <1>1, <2>1, <2>2
<1> HIDE DEF u, a
<1>5. /\ a \in Line /\ a.call = p.call /\ a.kind = p.kind /\ a.faithful = p.faithful
      /\ a.reads = p.reads /\ a.aligned = p.aligned
      /\ a.absorbed = Append(p.absorbed, seat) /\ a.ops = u
  <2>1. Append(p.absorbed, seat) \in Seq(Nat)
    BY <1>1
  <2> QED BY <1>2, <1>4, <2>1 DEF Line
<1> QED BY <1>3, <1>4, <1>5 DEF Absorbs, a

\* The seats of a plan, and the new texts of its edits by seat.
PlanSeats(planned) == UNION {{<<s, k>> : k \in 1..Len(planned[s].ops)} : s \in 1..Len(planned)}

\* The places of operations in a plan.
LEMMA SeatIs ==
  ASSUME NEW planned, NEW s, NEW k
  PROVE  <<s, k>> \in PlanSeats(planned) <=> s \in 1..Len(planned) /\ k \in 1..Len(planned[s].ops)
<1>1. ASSUME s \in 1..Len(planned), k \in 1..Len(planned[s].ops) PROVE <<s, k>> \in PlanSeats(planned)
  BY <1>1 DEF PlanSeats
<1>2. ASSUME <<s, k>> \in PlanSeats(planned)
      PROVE  s \in 1..Len(planned) /\ k \in 1..Len(planned[s].ops)
  <2>1. PICK i \in 1..Len(planned) : <<s, k>> \in {<<i, j>> : j \in 1..Len(planned[i].ops)}
    BY <1>2 DEF PlanSeats
  <2>2. PICK j \in 1..Len(planned[i].ops) : <<s, k>> = <<i, j>>
    BY <2>1
  <2> QED BY <2>2
<1> QED BY <1>1, <1>2

\* Their new texts.
LEMMA NewsIs ==
  ASSUME NEW planned \in Seq(Line)
  PROVE  /\ NewsOf(planned) \in [PlanSeats(planned) -> Content]
         /\ \A s \in 1..Len(planned) : \A k \in 1..Len(planned[s].ops) :
              /\ <<s, k>> \in PlanSeats(planned)
              /\ planned[s].ops[k].op = "edit" => NewsOf(planned)[<<s, k>>] = planned[s].ops[k].new
<1> DEFINE N == NewsOf(planned)
           D == PlanSeats(planned)
           val(p) == IF planned[p[1]].ops[p[2]].op = "edit" THEN planned[p[1]].ops[p[2]].new ELSE <<>>
<1>1. N = [p \in D |-> val(p)]
  BY DEF NewsOf, PlanSeats
<1>2. ASSUME NEW p \in D PROVE val(p) \in Content
  <2>1. PICK s \in 1..Len(planned) : p \in {<<s, k>> : k \in 1..Len(planned[s].ops)}
    BY DEF PlanSeats
  <2>2. PICK k \in 1..Len(planned[s].ops) : p = <<s, k>>
    BY <2>1
  <2>3. planned[s] \in Line
    OBVIOUS
  <2>4. planned[s].ops \in Seq(Op)
    BY <2>3 DEF Line
  <2>5. planned[s].ops[k] \in Op
    BY <2>4
  <2>6. p[1] = s /\ p[2] = k
    BY <2>2
  <2>7. CASE planned[s].ops[k].op = "edit"
    <3>1. planned[s].ops[k] \in Edits
      BY <2>5, <2>7, OpKinds
    <3>2. planned[s].ops[k].new \in Content
      BY <3>1 DEF Edits
    <3> QED BY <2>6, <2>7, <3>2
  <2>8. CASE planned[s].ops[k].op # "edit"
    <3>1. <<>> \in Content
      BY DEF Content
    <3> QED BY <2>6, <2>8, <3>1
  <2> QED BY <2>7, <2>8
<1>3. N \in [D -> Content]
  <2> HIDE DEF D, N, val
  <2> QED BY <1>1, <1>2
<1>4. ASSUME NEW s \in 1..Len(planned), NEW k \in 1..Len(planned[s].ops)
      PROVE  <<s, k>> \in D /\ (planned[s].ops[k].op = "edit" => N[<<s, k>>] = planned[s].ops[k].new)
  <2>1. <<s, k>> \in D
    BY SeatIs
  <2>2. N[<<s, k>>] = val(<<s, k>>)
    <3> HIDE DEF N, D, val
    <3> QED BY <1>1, <2>1
  <2> QED BY <2>1, <2>2
<1> QED BY <1>3, <1>4

-----------------------------------------------------------------------------
(* The first pass over a session's calls.                                  *)

\* An intent on one path leaves the others alone.
LEMMA RanElsewhere ==
  ASSUME NEW m \in State, NEW x \in Paths, NEW ops \in Seq(Op), Shape(ops, x), Ran(Fresh(m), ops).ok,
         NEW z \in Paths, z # x
  PROVE  Ran(Fresh(m), ops).m[z] = m[z]
<1> DEFINE n == Len(ops)
<1>1. PICK h : Steps(h, m, ops) /\ Ran(Fresh(m), ops) = h[n]
  BY RanSteps
<1>2. n \in Nat /\ \A k \in 1..n : ops[k] \in Op /\ ops[k].path = x
  BY DEF Shape
<1> HIDE DEF n
<1> DEFINE S == {k \in Nat : k <= n => h[k].m[z] = m[z]}
<1>3. h[0] = Fresh(m) /\ \A k \in 0..n : h[k] \in Applied /\ h[k].ok
  BY <1>1 DEF Steps, n
<1>4. 0 \in S
  BY <1>3 DEF Fresh
<1>5. ASSUME NEW k \in Nat, k \in S PROVE k + 1 \in S
  <2> SUFFICES ASSUME k + 1 <= n PROVE h[k + 1].m[z] = m[z]
    OBVIOUS
  <2>1. k + 1 \in 1..n /\ k \in 0..n /\ (k + 1) - 1 = k /\ k <= n
    BY <1>2
  <2>2. h[k + 1] = ApplyOp(h[k], ops[k + 1])
    BY <1>1, <2>1 DEF Steps, n
  <2>3. h[k].m[z] = m[z] /\ h[k] \in Applied
    BY <1>3, <1>5, <2>1
  <2> DEFINE o == ops[k + 1]
             r == h[k]
  <2>4. o.path = x
    BY <1>2, <2>1
  <2>5. ApplyOp(r, o).m[z] = r.m[z]
    <3>0. r \in Applied
      BY <2>3
    <3> HIDE DEF o, r
    <3> DEFINE v == CASE o.op = "edit" -> Replaced(r.m[o.path], o.old, o.new)
                      [] o.op = "create" -> o.content
                      [] o.op = "delete" -> NoFile
               u == [r.m EXCEPT ![o.path] = v]
    <3>1. ApplyOp(r, o) = [r EXCEPT !.ok = FALSE] \/ ApplyOp(r, o) = [ok |-> TRUE, m |-> u]
      BY DEF ApplyOp
    <3> HIDE DEF v
    <3>2. u[z] = r.m[z]
      BY <2>4, <3>0 DEF Applied, State
    <3>3. CASE ApplyOp(r, o) = [ok |-> TRUE, m |-> u]
      <4> HIDE DEF u
      <4> QED BY <3>2, <3>3
    <3>4. CASE ApplyOp(r, o) = [r EXCEPT !.ok = FALSE]
      BY <3>0, <3>4 DEF Applied
    <3> QED BY <3>1, <3>3, <3>4
  <2> QED BY <2>2, <2>3, <2>5
<1>6. Nat \subseteq S
  <2> HIDE DEF S
  <2> QED BY <1>4, <1>5, Induction
<1>7. n \in Nat /\ n <= n
  BY <1>2
<1> QED BY <1>1, <1>6, <1>7

\* What the first pass has, call by call.
Obs(acc) ==
  /\ acc = [m |-> acc.m, tracks |-> acc.tracks, planned |-> acc.planned]
  /\ acc.m \in State /\ acc.planned \in Seq(Line)
  /\ acc.tracks = [x \in Paths |-> acc.tracks[x]]

\* The run is of an edit of a call that lands, on path x.
Owns(planned, x, r) ==
  /\ r.call \in 1..Len(planned)
  /\ planned[r.call].kind = "land" /\ planned[r.call].call.tool.path = x
  /\ r.op \in 1..Len(planned[r.call].ops) /\ planned[r.call].ops[r.op].op = "edit"

TrackedOn(planned, x, t, c) ==
  /\ TrackOK(t, c, NewsOf(planned)) /\ \A r \in t.runs : Owns(planned, x, r)
  /\ t.runs # {} => c \in Content
Tracked(acc) == \A x \in Paths : TrackedOn(acc.planned, x, acc.tracks[x], acc.m[x])

\* The s-th line of plan p is in plan q with the same call and texts.
Stays(p, q, s) ==
  /\ s \in 1..Len(q) /\ q[s].kind = p[s].kind /\ q[s].call = p[s].call /\ Len(q[s].ops) = Len(p[s].ops)
  /\ \A k \in 1..Len(p[s].ops) :
       /\ q[s].ops[k].op = p[s].ops[k].op
       /\ p[s].ops[k].op = "edit" => q[s].ops[k].new = p[s].ops[k].new

\* Runs of a line that stays are still its runs.
LEMMA OwnsStays ==
  ASSUME NEW p \in Seq(Line), NEW q \in Seq(Line), NEW x, NEW r, Owns(p, x, r), Stays(p, q, r.call)
  PROVE  Owns(q, x, r)
BY DEF Owns, Stays

\* A track whose lines stay is still a track.
LEMMA KeepTrack ==
  ASSUME NEW p \in Seq(Line), NEW q \in Seq(Line), NEW x, NEW t, NEW c, TrackedOn(p, x, t, c),
         \A r \in t.runs : Stays(p, q, r.call)
  PROVE  TrackedOn(q, x, t, c)
<1> DEFINE N == NewsOf(p)
           M == NewsOf(q)
<1>1. \A r \in t.runs : Owns(q, x, r)
  BY OwnsStays DEF TrackedOn
<1>2. ASSUME NEW r \in t.runs PROVE SeatOf(r) \in DOMAIN M /\ M[SeatOf(r)] = N[SeatOf(r)]
  <2>1. Owns(p, x, r) /\ Owns(q, x, r) /\ Stays(p, q, r.call)
    BY <1>1 DEF TrackedOn
  <2> DEFINE s == r.call
             k == r.op
  <2>2. /\ s \in 1..Len(p) /\ k \in 1..Len(p[s].ops) /\ p[s].ops[k].op = "edit"
        /\ s \in 1..Len(q) /\ k \in 1..Len(q[s].ops) /\ q[s].ops[k].op = "edit"
    BY <2>1 DEF Owns
  <2>3. q[s].ops[k].new = p[s].ops[k].new
    BY <2>1, <2>2 DEF Stays
  <2>4. SeatOf(r) = <<s, k>>
    BY DEF SeatOf
  <2> HIDE DEF s, k, N, M
  <2>5. N[<<s, k>>] = p[s].ops[k].new
    BY <2>2, NewsIs DEF N
  <2>6. <<s, k>> \in DOMAIN M /\ M[<<s, k>>] = q[s].ops[k].new
    BY <2>2, NewsIs DEF M
  <2> QED BY <2>3, <2>4, <2>5, <2>6
<1>3. TrackOK(t, c, N)
  BY DEF TrackedOn
<1> HIDE DEF N, M
<1>4. TrackOK(t, c, M)
  BY <1>2, <1>3, SameTexts
<1> QED BY <1>1, <1>4 DEF TrackedOn, M

\* A line more leaves the others as they are.
LEMMA AppendStays ==
  ASSUME NEW p \in Seq(Line), NEW l \in Line
  PROVE  /\ Append(p, l) \in Seq(Line) /\ Len(Append(p, l)) = Len(p) + 1 /\ Append(p, l)[Len(p) + 1] = l
         /\ \A s \in 1..Len(p) : Append(p, l)[s] = p[s] /\ Stays(p, Append(p, l), s)
<1> DEFINE q == Append(p, l)
<1>1. q \in Seq(Line) /\ Len(q) = Len(p) + 1 /\ Len(p) \in Nat /\ q[Len(p) + 1] = l
      /\ \A s \in 1..Len(p) : q[s] = p[s]
  OBVIOUS
<1> HIDE DEF q
<1>2. \A s \in 1..Len(p) : Stays(p, q, s)
  BY <1>1 DEF Stays
<1> QED BY <1>1, <1>2 DEF q

\* A call that is skipped, one that is absorbed, and one that lands.
Skips(acc, call, ops, y) ==
  /\ y.m = acc.m /\ y.tracks = acc.tracks
  /\ y.planned = Append(acc.planned, [Landing(call, ops) EXCEPT !.kind = "skip"])
Folds(acc, call, ops, f, y) ==
  /\ y.m = ApplyIntent(acc.m, ops).m
  /\ y.tracks = [acc.tracks EXCEPT ![call.tool.path] = f.track]
  /\ y.planned = Append([acc.planned EXCEPT ![f.owner] =
                           Absorbing(acc.planned[f.owner], f.owner, f.news, Len(acc.planned) + 1)],
                        [Landing(call, ops) EXCEPT !.kind = "absorbed"])
Lands(acc, call, ops, y) ==
  /\ y.m = ApplyIntent(acc.m, ops).m
  /\ y.tracks = [acc.tracks EXCEPT ![call.tool.path] =
                   Attribute(acc.tracks[call.tool.path], acc.m[call.tool.path], Len(acc.planned) + 1, ops)]
  /\ y.planned = Append(acc.planned, Landing(call, ops))

\* What the call's tool asks of the state, as IntentIs has it.
Intends(acc, call, ok, ops) ==
  /\ ops \in Seq(Op) /\ Shape(ops, call.tool.path) /\ ok \in BOOLEAN
  /\ ok => Ran(Fresh(acc.m), ops).ok

\* observe: a call is skipped, folded into another, or planned to land.
LEMMA ObserveCases ==
  ASSUME NEW acc, Obs(acc), NEW call \in Call, NEW y, y = Observe(acc, call)
  PROVE  /\ y = [m |-> y.m, tracks |-> y.tracks, planned |-> y.planned]
         /\ \E ok, ops :
              /\ Intends(acc, call, ok, ops)
              /\ \/ ~ok /\ Skips(acc, call, ops, y)
                 \/ ok /\ acc.m[call.tool.path] # NoFile
                       /\ \E f : /\ f = Absorb(acc.planned, acc.tracks[call.tool.path],
                                               acc.m[call.tool.path], ops)
                                 /\ f.ok /\ Folds(acc, call, ops, f, y)
                 \/ ok /\ Lands(acc, call, ops, y)
<1> DEFINE i == IntentFor(acc.m, call.tool)
           x == call.tool.path
           f == Absorb(acc.planned, acc.tracks[x], acc.m[x], i.ops)
<1>1. call.tool \in Tool /\ acc.m \in State
  BY DEF Call, Obs
<1>2. Intends(acc, call, i.ok, i.ops)
  BY <1>1, IntentIs DEF Intends
<1>3. y = Take(acc, call, i, f)
  BY DEF Observe, Meet
<1> HIDE DEF i, f
<1>4. CASE ~i.ok
  <2>1. y = [acc EXCEPT !.planned = Append(@, [Landing(call, i.ops) EXCEPT !.kind = "skip"])]
    BY <1>3, <1>4 DEF Take
  <2> DEFINE l == [Landing(call, i.ops) EXCEPT !.kind = "skip"]
  <2> HIDE DEF l
  <2>2. y = [m |-> acc.m, tracks |-> acc.tracks, planned |-> Append(acc.planned, l)]
    BY <2>1 DEF Obs, l
  <2>3. Skips(acc, call, i.ops, y)
    BY <2>2 DEF Skips, l
  <2> QED BY <1>2, <1>4, <2>2, <2>3
<1>5. CASE i.ok /\ acc.m[x] # NoFile /\ f.ok
  <2>1. y = [m |-> ApplyIntent(acc.m, i.ops).m,
            tracks |-> [acc.tracks EXCEPT ![x] = f.track],
            planned |-> Append([acc.planned EXCEPT ![f.owner] =
                                  Absorbing(acc.planned[f.owner], f.owner, f.news, Len(acc.planned) + 1)],
                               [Landing(call, i.ops) EXCEPT !.kind = "absorbed"])]
    BY <1>3, <1>5 DEF Take
  <2>2. Folds(acc, call, i.ops, f, y)
    BY <2>1 DEF Folds
  <2>3. f = Absorb(acc.planned, acc.tracks[call.tool.path], acc.m[call.tool.path], i.ops)
    BY DEF f
  <2>4. y = [m |-> y.m, tracks |-> y.tracks, planned |-> y.planned]
    BY <2>1
  <2> QED BY <1>2, <1>5, <2>2, <2>3, <2>4
<1>6. CASE i.ok /\ ~(acc.m[x] # NoFile /\ f.ok)
  <2>1. y = [m |-> ApplyIntent(acc.m, i.ops).m,
            tracks |-> [acc.tracks EXCEPT ![x] = Attribute(acc.tracks[x], acc.m[x], Len(acc.planned) + 1, i.ops)],
            planned |-> Append(acc.planned, Landing(call, i.ops))]
    BY <1>3, <1>6 DEF Take
  <2>2. Lands(acc, call, i.ops, y)
    BY <2>1 DEF Lands
  <2>4. y = [m |-> y.m, tracks |-> y.tracks, planned |-> y.planned]
    BY <2>1
  <2> QED BY <1>2, <1>6, <2>2, <2>4
<1> QED BY <1>2, <1>4, <1>5, <1>6 DEF Intends

\* A call that is skipped leaves the tracks honest.
LEMMA SkipNext ==
  ASSUME NEW acc, Obs(acc), Tracked(acc), NEW call \in Call, NEW ops \in Seq(Op), NEW y,
         y = [m |-> y.m, tracks |-> y.tracks, planned |-> y.planned], Skips(acc, call, ops, y)
  PROVE  Obs(y) /\ Tracked(y)
<1> DEFINE l == [Landing(call, ops) EXCEPT !.kind = "skip"]
<1>1. l \in Line
  BY LandingIs
<1> HIDE DEF l
<1>2. y.m = acc.m /\ y.tracks = acc.tracks /\ y.planned = Append(acc.planned, l)
  BY DEF Skips, l
<1>3. acc.planned \in Seq(Line) /\ acc.m \in State /\ acc.tracks = [x \in Paths |-> acc.tracks[x]]
  BY DEF Obs
<1>4. /\ y.planned \in Seq(Line)
      /\ \A s \in 1..Len(acc.planned) : Stays(acc.planned, y.planned, s)
  BY <1>1, <1>2, <1>3, AppendStays
<1>5. Obs(y)
  BY <1>2, <1>3, <1>4 DEF Obs
<1>6. ASSUME NEW x \in Paths PROVE TrackedOn(y.planned, x, y.tracks[x], y.m[x])
  <2>1. TrackedOn(acc.planned, x, acc.tracks[x], acc.m[x])
    BY DEF Tracked
  <2>2. \A r \in acc.tracks[x].runs : Stays(acc.planned, y.planned, r.call)
    BY <1>4, <2>1 DEF TrackedOn, Owns
  <2>3. TrackedOn(y.planned, x, acc.tracks[x], acc.m[x])
    BY <1>3, <1>4, <2>1, <2>2, KeepTrack
  <2> QED BY <1>2, <2>3
<1> QED BY <1>5, <1>6 DEF Tracked

\* The state a call that applies leaves.
LEMMA IntendedState ==
  ASSUME NEW acc, Obs(acc), NEW call \in Call, NEW ops, Intends(acc, call, TRUE, ops)
  PROVE  /\ ApplyIntent(acc.m, ops).m = Ran(Fresh(acc.m), ops).m
         /\ ApplyIntent(acc.m, ops).m \in State
         /\ \A z \in Paths : z # call.tool.path => ApplyIntent(acc.m, ops).m[z] = acc.m[z]
<1>1. acc.m \in State /\ ops \in Seq(Op) /\ Shape(ops, call.tool.path) /\ Ran(Fresh(acc.m), ops).ok
  BY DEF Obs, Intends
<1>2. call.tool.path \in Paths
  BY DEF Call, Tool
<1>3. ApplyIntent(acc.m, ops).ok /\ ApplyIntent(acc.m, ops) \in Applied
  BY <1>1, ApplyIntentIs
<1>4. ApplyIntent(acc.m, ops) = Ran(Fresh(acc.m), ops)
  BY <1>1, <1>3, ApplyIntentIs
<1>5. \A z \in Paths : z # call.tool.path => Ran(Fresh(acc.m), ops).m[z] = acc.m[z]
  BY <1>1, <1>2, RanElsewhere
<1> QED BY <1>3, <1>4, <1>5 DEF Applied

\* So does one that is planned to land.
LEMMA LandNext ==
  ASSUME NEW acc, Obs(acc), Tracked(acc), NEW call \in Call, NEW ops, Intends(acc, call, TRUE, ops), NEW y,
         y = [m |-> y.m, tracks |-> y.tracks, planned |-> y.planned], Lands(acc, call, ops, y)
  PROVE  Obs(y) /\ Tracked(y)
<1> DEFINE m == acc.m
           p == acc.planned
           x == call.tool.path
           l == Landing(call, ops)
           q == Append(p, l)
           t == acc.tracks[x]
           c == m[x]
           seat == Len(p) + 1
           v == Attribute(t, c, seat, ops)
           N == NewsOf(q)
<1>1. x \in Paths /\ ops \in Seq(Op) /\ Shape(ops, x) /\ Ran(Fresh(m), ops).ok
  BY DEF Call, Tool, Intends
<1>2. l \in Line /\ l.call = call /\ l.kind = "land" /\ l.ops = ops
  <2>1. l \in Line
    BY <1>1, LandingIs
  <2> QED BY <2>1 DEF Landing
<1>3. p \in Seq(Line) /\ m \in State /\ acc.tracks = [z \in Paths |-> acc.tracks[z]] /\ Len(p) \in Nat
  BY DEF Obs
<1>4. /\ y.m = ApplyIntent(m, ops).m /\ y.planned = q
      /\ y.tracks = [acc.tracks EXCEPT ![x] = v]
  BY DEF Lands
<1>5. /\ y.m[x] = Ran(Fresh(m), ops).m[x] /\ y.m \in State
      /\ \A z \in Paths : z # x => y.m[z] = m[z]
  <2>1. /\ ApplyIntent(m, ops).m = Ran(Fresh(m), ops).m /\ ApplyIntent(m, ops).m \in State
        /\ \A z \in Paths : z # x => ApplyIntent(m, ops).m[z] = m[z]
    BY IntendedState
  <2> HIDE DEF x, m
  <2> QED BY <1>4, <2>1
<1>6. \A z \in Paths : TrackedOn(p, z, acc.tracks[z], m[z])
  BY DEF Tracked
<1> HIDE DEF l, q, p, m
<1>7. q \in Seq(Line) /\ Len(q) = seat /\ q[seat] = l /\ seat \in Nat
      /\ \A s \in 1..Len(p) : q[s] = p[s] /\ Stays(p, q, s)
  BY <1>2, <1>3, AppendStays DEF q
<1>8. \A z \in Paths : TrackedOn(q, z, acc.tracks[z], m[z])
  <2> TAKE z \in Paths
  <2>1. TrackedOn(p, z, acc.tracks[z], m[z])
    BY <1>6
  <2>2. \A r \in acc.tracks[z].runs : Stays(p, q, r.call)
    BY <1>7, <2>1 DEF TrackedOn, Owns
  <2> QED BY <1>3, <1>7, <2>1, <2>2, KeepTrack
<1>9. TrackedOn(q, x, v, y.m[x])
  <2>1. /\ TrackOK(t, c, N) /\ \A r \in t.runs : Owns(q, x, r)
        /\ t.runs # {} => c \in Content
    <3> HIDE DEF x
    <3>1. TrackedOn(q, x, t, c)
      BY <1>1, <1>8
    <3> QED BY <3>1 DEF TrackedOn
  <2>2. \A k \in 1..Len(ops) : ops[k].op = "edit" => <<seat, k>> \in DOMAIN N /\ N[<<seat, k>>] = ops[k].new
    <3>1. seat \in 1..Len(q) /\ q[seat].ops = ops
      BY <1>2, <1>3, <1>7
    <3> HIDE DEF seat
    <3> QED BY <1>7, <3>1, NewsIs
  <2>3. \A r \in t.runs : r.call # seat
    <3>1. \A r \in t.runs : Owns(p, x, r)
      <4> HIDE DEF x
      <4>1. TrackedOn(p, x, t, c)
        BY <1>1, <1>6
      <4> QED BY <4>1 DEF TrackedOn
    <3> HIDE DEF t
    <3>2. \A r \in t.runs : r.call \in 1..Len(p)
      BY <3>1 DEF Owns
    <3> QED BY <1>3, <3>2
  <2> HIDE DEF N, v, seat, t, x
  <2>4. /\ TrackOK(v, Ran(Fresh(m), ops).m[x], N) /\ OwnRuns(v, t, seat, ops, Len(ops))
        /\ v.runs # {} => Ran(Fresh(m), ops).m[x] \in Content
    <3>1. /\ v = Attribute(t, m[x], seat, ops) /\ TrackOK(t, m[x], N)
          /\ t.runs # {} => m[x] \in Content
      BY <2>1 DEF v
    <3>2. m \in State /\ x \in Paths /\ ops \in Seq(Op) /\ seat \in Nat
      BY <1>1, <1>3, <1>7
    <3>3. Shape(ops, x) /\ Ran(Fresh(m), ops).ok
      BY <1>1
    <3> QED BY ONLY <2>2, <2>3, <3>1, <3>2, <3>3, AttributeHonest
  <2>5. ASSUME NEW r \in v.runs PROVE Owns(q, x, r)
    <3>1. CASE r.call = seat /\ r.op \in 1..Len(ops) /\ ops[r.op].op = "edit"
      <4>1. seat \in 1..Len(q) /\ q[seat] = l
        BY <1>3, <1>7 DEF seat
      <4> QED BY <1>2, <3>1, <4>1 DEF Owns, x
    <3>2. CASE \E o \in t.runs : SeatOf(o) = SeatOf(r)
      <4>1. PICK o \in t.runs : SeatOf(o) = SeatOf(r)
        BY <3>2
      <4>2. Owns(q, x, o) /\ o.call = r.call /\ o.op = r.op
        BY <2>1, <4>1 DEF SeatOf
      <4> QED BY <4>2 DEF Owns
    <3> QED BY <2>4, <3>1, <3>2 DEF OwnRuns
  <2> QED BY <1>5, <2>4, <2>5 DEF TrackedOn, N
<1> HIDE DEF v, x
<1>10. y.tracks[x] = v /\ (\A z \in Paths : z # x => y.tracks[z] = acc.tracks[z])
       /\ y.tracks = [z \in Paths |-> y.tracks[z]]
  BY <1>1, <1>3, <1>4
<1>11. \A z \in Paths : TrackedOn(y.planned, z, y.tracks[z], y.m[z])
  BY <1>4, <1>5, <1>8, <1>9, <1>10
<1> QED BY <1>4, <1>5, <1>7, <1>10, <1>11 DEF Obs, Tracked

\* The plan with one more call absorbed by the line in seat `owner`.
Taken(p, q, owner, news, l) ==
  /\ q \in Seq(Line) /\ Len(q) = Len(p) + 1 /\ Len(p) \in Nat
  /\ owner \in 1..Len(p) /\ p[owner].kind = "land"
  /\ Absorbs(q[owner], p[owner], owner, news, Len(p) + 1)
  /\ \A s \in 1..Len(p) : s # owner => q[s] = p[s]
  /\ q[Len(p) + 1] = l

\* The plan after a call was absorbed.
LEMMA TakenIs ==
  ASSUME NEW p \in Seq(Line), NEW owner \in 1..Len(p), p[owner].kind = "land", NEW news, NEW l \in Line,
         \A k \in 1..Len(p[owner].ops) : p[owner].ops[k].op = "edit" => news[<<owner, k>>] \in Content
  PROVE  Taken(p, Append([p EXCEPT ![owner] = Absorbing(p[owner], owner, news, Len(p) + 1)], l), owner, news, l)
<1> DEFINE a == Absorbing(p[owner], owner, news, Len(p) + 1)
           q == [p EXCEPT ![owner] = a]
<1>1. Len(p) \in Nat /\ Len(p) + 1 \in Nat /\ p[owner] \in Line
  OBVIOUS
<1>2. Absorbs(a, p[owner], owner, news, Len(p) + 1)
  BY <1>1, AbsorbingIs
<1> HIDE DEF a
<1>3. a \in Line
  BY <1>2 DEF Absorbs
<1>4. q \in Seq(Line) /\ Len(q) = Len(p) /\ q[owner] = a /\ \A s \in 1..Len(p) : s # owner => q[s] = p[s]
  BY <1>3
<1> HIDE DEF q
<1> DEFINE z == Append(q, l)
<1>5. z \in Seq(Line) /\ Len(z) = Len(p) + 1 /\ z[Len(p) + 1] = l /\ \A s \in 1..Len(p) : z[s] = q[s]
  BY ONLY <1>1, <1>4, l \in Line
<1> HIDE DEF z
<1>6. Taken(p, z, owner, news, l)
  BY <1>1, <1>2, <1>4, <1>5 DEF Taken
<1> QED BY <1>6 DEF z, q, a

\* What absorb found: one owner of what the call rewrote, and its texts.
Found(p, t, c, x, f) ==
  /\ f.owner \in 1..Len(p) /\ p[f.owner].kind = "land" /\ p[f.owner].call.tool.path = x
  /\ c \in Content /\ f.news \in [PlanSeats(p) -> Content] /\ TrackOK(f.track, c, f.news) /\ SeatsOf(f.track, t)
  /\ \A s \in PlanSeats(p) : s[1] # f.owner => f.news[s] = NewsOf(p)[s]

\* absorb finds one line, rewrites its texts, and leaves the track honest.
LEMMA AbsorbFound ==
  ASSUME NEW m \in State, NEW x \in Paths, m[x] # NoFile, NEW ops \in Seq(Op), Shape(ops, x),
         Ran(Fresh(m), ops).ok, NEW p \in Seq(Line), NEW t, TrackedOn(p, x, t, m[x]),
         NEW f, f = Absorb(p, t, m[x], ops), f.ok
  PROVE  Found(p, t, Ran(Fresh(m), ops).m[x], x, f)
<1> DEFINE D == PlanSeats(p)
           N == NewsOf(p)
<1>1. N \in [D -> Content]
  BY NewsIs
<1>2. TrackOK(t, m[x], N) /\ \A r \in t.runs : Owns(p, x, r)
  BY DEF TrackedOn
<1>3. \A r \in t.runs : r.call # NoOwner
  BY <1>2 DEF Owns, NoOwner
<1>4. PICK F \in [D -> Content] : F = N
  BY <1>1
<1>5. NewsOf(p) = F /\ TrackOK(t, m[x], F)
  BY <1>2, <1>4
<1> HIDE DEF D, N
<1>6. /\ f.content = Ran(Fresh(m), ops).m[x] /\ f.content \in Content /\ f.news \in [D -> Content]
      /\ TrackOK(f.track, f.content, f.news) /\ SeatsOf(f.track, t)
      /\ \E r \in t.runs : r.call = f.owner
      /\ \A s \in D : s[1] # f.owner => f.news[s] = F[s]
  BY <1>3, <1>5, AbsorbHonest
<1>7. f.owner \in 1..Len(p) /\ p[f.owner].kind = "land" /\ p[f.owner].call.tool.path = x
  BY <1>2, <1>6 DEF Owns
<1> QED BY <1>4, <1>6, <1>7 DEF Found, D, N

\* With that line rewritten, the plan has taken the call.
LEMMA FoundTaken ==
  ASSUME NEW p \in Seq(Line), NEW t, NEW c, NEW x, NEW f, Found(p, t, c, x, f), NEW l \in Line,
         NEW q, q = Append([p EXCEPT ![f.owner] = Absorbing(p[f.owner], f.owner, f.news, Len(p) + 1)], l)
  PROVE  Taken(p, q, f.owner, f.news, l)
<1>1. f.owner \in 1..Len(p) /\ p[f.owner].kind = "land" /\ f.news \in [PlanSeats(p) -> Content]
  BY DEF Found
<1> DEFINE o == f.owner
<1>2. \A k \in 1..Len(p[o].ops) : p[o].ops[k].op = "edit" => f.news[<<o, k>>] \in Content
  <2> TAKE k \in 1..Len(p[o].ops)
  <2>1. <<o, k>> \in PlanSeats(p)
    BY <1>1, SeatIs
  <2> HIDE DEF o
  <2> QED BY <1>1, <2>1
<1> HIDE DEF o
<1>3. PICK w \in 1..Len(p) : w = o
  BY <1>1 DEF o
<1>4. Taken(p, Append([p EXCEPT ![w] = Absorbing(p[w], w, f.news, Len(p) + 1)], l), w, f.news, l)
  BY <1>1, <1>2, <1>3, TakenIs DEF o
<1> QED BY <1>3, <1>4 DEF o

\* The lines of other calls stay as they were.
LEMMA TakenStays ==
  ASSUME NEW p \in Seq(Line), NEW q, NEW owner, NEW news, NEW l, Taken(p, q, owner, news, l),
         NEW s \in 1..Len(p), s # owner
  PROVE  Stays(p, q, s)
<1>1. q[s] = p[s] /\ s \in 1..Len(q)
  BY DEF Taken
<1> QED BY <1>1 DEF Stays

\* The tracks of the path follow the rewritten text.
LEMMA TakenTrack ==
  ASSUME NEW p \in Seq(Line), NEW t, NEW c, NEW d, NEW x, NEW f, Found(p, t, c, x, f), NEW q, NEW l,
         Taken(p, q, f.owner, f.news, l), TrackedOn(p, x, t, d)
  PROVE  TrackedOn(q, x, f.track, c)
<1> DEFINE M == NewsOf(q)
           N == NewsOf(p)
           F == f.news
           v == f.track
<1>1. /\ F \in [PlanSeats(p) -> Content] /\ TrackOK(v, c, F) /\ SeatsOf(v, t)
      /\ \A s \in PlanSeats(p) : s[1] # f.owner => F[s] = N[s]
  BY DEF Found
<1>2. q \in Seq(Line) /\ Len(q) = Len(p) + 1 /\ Len(p) \in Nat
  BY DEF Taken
<1>3. ASSUME NEW r \in v.runs
      PROVE  Owns(q, x, r) /\ SeatOf(r) \in DOMAIN M /\ M[SeatOf(r)] = F[SeatOf(r)]
  <2>1. PICK e \in t.runs : SeatOf(e) = SeatOf(r)
    BY <1>1 DEF SeatsOf
  <2>2. Owns(p, x, e) /\ e.call = r.call /\ e.op = r.op
    BY <2>1 DEF TrackedOn, SeatOf
  <2> DEFINE s == r.call
             k == r.op
  <2>3. /\ s \in 1..Len(p) /\ p[s].kind = "land" /\ p[s].call.tool.path = x
        /\ k \in 1..Len(p[s].ops) /\ p[s].ops[k].op = "edit"
    BY <2>2 DEF Owns
  <2>4. SeatOf(r) = <<s, k>>
    BY DEF SeatOf
  <2> HIDE DEF M, N, F, v
  <2>5. CASE s = f.owner
    <3>1. Absorbs(q[s], p[s], s, f.news, Len(p) + 1)
      BY <2>5 DEF Taken
    <3>2. /\ q[s].call = p[s].call /\ q[s].kind = p[s].kind /\ Len(q[s].ops) = Len(p[s].ops)
          /\ q[s].ops[k].op = "edit" /\ q[s].ops[k].new = F[<<s, k>>]
      BY <2>3, <3>1 DEF Absorbs, F
    <3>3. s \in 1..Len(q) /\ k \in 1..Len(q[s].ops)
      BY <1>2, <2>3, <3>2
    <3>4. Owns(q, x, r)
      BY <2>3, <3>2, <3>3 DEF Owns
    <3> HIDE DEF s, k
    <3>5. <<s, k>> \in DOMAIN M /\ M[<<s, k>>] = q[s].ops[k].new
      BY <1>2, <3>2, <3>3, NewsIs DEF M
    <3> QED BY <2>4, <3>2, <3>4, <3>5
  <2>6. CASE s # f.owner
    <3>1. q[s] = p[s] /\ s \in 1..Len(q)
      BY <1>2, <2>3, <2>6 DEF Taken
    <3>2. Owns(q, x, r)
      BY <2>3, <3>1 DEF Owns
    <3> HIDE DEF s, k
    <3>3. <<s, k>> \in DOMAIN M /\ M[<<s, k>>] = q[s].ops[k].new
      BY <1>2, <2>3, <3>1, NewsIs DEF M
    <3>4. <<s, k>> \in PlanSeats(p) /\ N[<<s, k>>] = p[s].ops[k].new
      BY <2>3, NewsIs DEF N
    <3>5. <<s, k>>[1] = s
      OBVIOUS
    <3>6. F[<<s, k>>] = N[<<s, k>>]
      BY <1>1, <2>6, <3>4, <3>5
    <3> QED BY <2>4, <3>1, <3>2, <3>3, <3>4, <3>6
  <2> QED BY <2>5, <2>6
<1> HIDE DEF M, N, F, v
<1>4. TrackOK(v, c, M)
  BY <1>1, <1>3, SameTexts
<1>5. c \in Content
  BY DEF Found
<1> QED BY <1>3, <1>4, <1>5 DEF TrackedOn, M, v

\* A call that is absorbed leaves the tracks honest.
LEMMA FoldNext ==
  ASSUME NEW acc, Obs(acc), Tracked(acc), NEW call \in Call, NEW ops, Intends(acc, call, TRUE, ops),
         acc.m[call.tool.path] # NoFile, NEW f,
         f = Absorb(acc.planned, acc.tracks[call.tool.path], acc.m[call.tool.path], ops), f.ok, NEW y,
         y = [m |-> y.m, tracks |-> y.tracks, planned |-> y.planned], Folds(acc, call, ops, f, y)
  PROVE  /\ Obs(y) /\ Tracked(y)
         /\ Taken(acc.planned, y.planned, f.owner, f.news, [Landing(call, ops) EXCEPT !.kind = "absorbed"])
<1> DEFINE m == acc.m
           p == acc.planned
           q == y.planned
           x == call.tool.path
           t == acc.tracks[x]
           l == [Landing(call, ops) EXCEPT !.kind = "absorbed"]
           c == Ran(Fresh(m), ops).m[x]
<1>1. x \in Paths /\ ops \in Seq(Op) /\ Shape(ops, x) /\ Ran(Fresh(m), ops).ok
  BY DEF Call, Tool, Intends
<1>2. l \in Line
  BY <1>1, LandingIs
<1>3. p \in Seq(Line) /\ m \in State /\ acc.tracks = [z \in Paths |-> acc.tracks[z]]
  BY DEF Obs
<1>4. /\ y.m = ApplyIntent(m, ops).m
      /\ y.tracks = [acc.tracks EXCEPT ![x] = f.track]
      /\ q = Append([p EXCEPT ![f.owner] = Absorbing(p[f.owner], f.owner, f.news, Len(p) + 1)], l)
  BY DEF Folds
<1>5. y.m[x] = c /\ y.m \in State /\ \A z \in Paths : z # x => y.m[z] = m[z]
  <2>1. /\ ApplyIntent(m, ops).m = Ran(Fresh(m), ops).m /\ ApplyIntent(m, ops).m \in State
        /\ \A z \in Paths : z # x => ApplyIntent(m, ops).m[z] = m[z]
    <3>1. Obs(acc) /\ call \in Call /\ Intends(acc, call, TRUE, ops)
      OBVIOUS
    <3> QED BY ONLY <3>1, IntendedState DEF x, m
  <2> HIDE DEF x, m
  <2> QED BY <1>4, <2>1
<1>6. \A z \in Paths : TrackedOn(p, z, acc.tracks[z], m[z])
  BY DEF Tracked
<1>7. f = Absorb(p, t, m[x], ops) /\ f.ok /\ m[x] # NoFile
  OBVIOUS
<1> HIDE DEF x, l, p, q, m, t, c
<1>8. TrackedOn(p, x, t, m[x])
  BY <1>1, <1>6 DEF t
<1>9. Found(p, t, c, x, f)
  BY <1>1, <1>3, <1>7, <1>8, AbsorbFound DEF c
<1>10. Taken(p, q, f.owner, f.news, l)
  BY <1>2, <1>3, <1>4, <1>9, FoundTaken
<1>11. q \in Seq(Line)
  BY <1>10 DEF Taken
<1>12. TrackedOn(q, x, f.track, c)
  <2> DEFINE d == m[x]
  <2>1. TrackedOn(p, x, t, d)
    BY <1>8
  <2> HIDE DEF d
  <2>2. p \in Seq(Line)
    BY <1>3
  <2> QED BY ONLY <1>9, <1>10, <2>1, <2>2, TakenTrack
<1>13. ASSUME NEW z \in Paths, z # x PROVE TrackedOn(q, z, acc.tracks[z], m[z])
  <2>1. TrackedOn(p, z, acc.tracks[z], m[z])
    BY <1>6
  <2>2. p[f.owner].call.tool.path = x
    BY <1>9 DEF Found
  <2>3. ASSUME NEW r \in acc.tracks[z].runs PROVE Stays(p, q, r.call)
    <3>1. r.call \in 1..Len(p) /\ p[r.call].call.tool.path = z
      BY <2>1 DEF TrackedOn, Owns
    <3>2. r.call # f.owner
      BY <1>13, <2>2, <3>1
    <3> QED BY <1>3, <1>10, <3>1, <3>2, TakenStays
  <2> QED BY <1>3, <1>11, <2>1, <2>3, KeepTrack
<1>14. y.tracks[x] = f.track /\ (\A z \in Paths : z # x => y.tracks[z] = acc.tracks[z])
       /\ y.tracks = [z \in Paths |-> y.tracks[z]]
  BY <1>1, <1>3, <1>4
<1>15. \A z \in Paths : TrackedOn(q, z, y.tracks[z], y.m[z])
  BY <1>5, <1>12, <1>13, <1>14
<1> QED BY <1>5, <1>10, <1>11, <1>14, <1>15 DEF Obs, Tracked, q, p, l

\* A call that is absorbed comes after the one line that names it.
Names(p, s, k, j) == s \in 1..Len(p) /\ k \in 1..Len(p[s].absorbed) /\ p[s].absorbed[k] = j
Absorbings(p) ==
  /\ \A s, k, j : Names(p, s, k, j) =>
       j \in 1..Len(p) /\ s < j /\ p[j].kind = "absorbed" /\ p[s].kind = "land"
  /\ \A j \in 1..Len(p) : p[j].kind = "absorbed" => \E s, k : Names(p, s, k, j)
  /\ \A s, k, t, i, j : Names(p, s, k, j) /\ Names(p, t, i, j) => s = t /\ k = i

\* The lines' operations, as they land and as their calls wrote them.
Shaped(p) == Shape(p.ops, p.call.tool.path) /\ Shape(p.faithful, p.call.tool.path)

\* One more call, the others' lines the same but for what they absorb.
Grows(p, q) ==
  /\ q \in Seq(Line) /\ Len(q) = Len(p) + 1 /\ Len(p) \in Nat
  /\ \A s \in 1..Len(p) :
       /\ q[s].call = p[s].call /\ q[s].kind = p[s].kind /\ q[s].faithful = p[s].faithful
       /\ Shaped(p[s]) => Shaped(q[s])

\* A plan grows by a line of its own,
LEMMA AppendGrows ==
  ASSUME NEW p \in Seq(Line), NEW l \in Line, l.absorbed = <<>>, l.kind # "absorbed", Absorbings(p)
  PROVE  Grows(p, Append(p, l)) /\ Absorbings(Append(p, l))
<1> DEFINE q == Append(p, l)
           n == Len(p)
<1>1. q \in Seq(Line) /\ Len(q) = n + 1 /\ n \in Nat /\ q[n + 1] = l
      /\ \A s \in 1..n : q[s] = p[s]
  OBVIOUS
<1> HIDE DEF q
<1>2. Grows(p, q)
  BY <1>1 DEF Grows
<1>3. Len(l.absorbed) = 0
  OBVIOUS
<1> HIDE DEF n
<1>4. \A s, k, j : Names(q, s, k, j) <=> Names(p, s, k, j)
  <2> TAKE s, k, j
  <2>1. CASE s \in 1..n
    <3>1. q[s] = p[s] /\ s \in 1..Len(q)
      BY <1>1, <2>1
    <3> QED BY <2>1, <3>1 DEF Names, n
  <2>2. CASE s = n + 1
    <3>1. q[s] = l /\ ~(s \in 1..n)
      BY <1>1, <2>2
    <3>2. ~(k \in 1..Len(q[s].absorbed))
      BY <1>3, <3>1
    <3> QED BY <3>1, <3>2 DEF Names, n
  <2>3. CASE s \notin 1..n /\ s # n + 1
    <3>1. s \notin 1..Len(q)
      BY <1>1, <2>3
    <3> QED BY <2>3, <3>1 DEF Names, n
  <2> QED BY <2>1, <2>2, <2>3
<1>5. \A s, k, j : Names(q, s, k, j) =>
        j \in 1..Len(q) /\ s < j /\ q[j].kind = "absorbed" /\ q[s].kind = "land"
  <2> SUFFICES ASSUME NEW s, NEW k, NEW j, Names(p, s, k, j)
               PROVE  j \in 1..Len(q) /\ s < j /\ q[j].kind = "absorbed" /\ q[s].kind = "land"
    BY <1>4
  <2>1. j \in 1..n /\ s < j /\ p[j].kind = "absorbed" /\ p[s].kind = "land" /\ s \in 1..n
    BY DEF Absorbings, Names, n
  <2> QED BY <1>1, <2>1
<1>6. \A j \in 1..Len(q) : q[j].kind = "absorbed" => \E s, k : Names(q, s, k, j)
  <2> SUFFICES ASSUME NEW j \in 1..Len(q), q[j].kind = "absorbed" PROVE \E s, k : Names(p, s, k, j)
    BY <1>4
  <2>1. j \in 1..n /\ p[j].kind = "absorbed"
    BY <1>1
  <2> QED BY <2>1 DEF Absorbings, n
<1>7. \A s, k, t, i, j : Names(q, s, k, j) /\ Names(q, t, i, j) => s = t /\ k = i
  BY <1>4 DEF Absorbings
<1> QED BY <1>2, <1>5, <1>6, <1>7 DEF Absorbings, q

\* or by one that is absorbed.
LEMMA TakenGrows ==
  ASSUME NEW p \in Seq(Line), NEW q, NEW owner, NEW news, NEW l \in Line, l.absorbed = <<>>, l.kind = "absorbed",
         Taken(p, q, owner, news, l), Absorbings(p)
  PROVE  Grows(p, q) /\ Absorbings(q)
<1> DEFINE n == Len(p)
           a == p[owner].absorbed
           e == Len(a) + 1
<1>1. /\ q \in Seq(Line) /\ Len(q) = n + 1 /\ n \in Nat /\ q[n + 1] = l
      /\ owner \in 1..n /\ p[owner].kind = "land"
      /\ \A s \in 1..n : s # owner => q[s] = p[s]
  BY DEF Taken
<1>2. Absorbs(q[owner], p[owner], owner, news, n + 1)
  BY DEF Taken
<1>3. /\ q[owner].call = p[owner].call /\ q[owner].kind = p[owner].kind
      /\ q[owner].faithful = p[owner].faithful /\ q[owner].absorbed = Append(a, n + 1)
  BY <1>2 DEF Absorbs
<1>4. Shaped(p[owner]) => Shaped(q[owner])
  <2> DEFINE s == p[owner]
             t == q[owner]
  <2>1. /\ t.call = s.call /\ t.faithful = s.faithful /\ Len(t.ops) = Len(s.ops)
        /\ \A k \in 1..Len(s.ops) : t.ops[k].op = s.ops[k].op /\ t.ops[k].path = s.ops[k].path
    BY ONLY <1>2 DEF Absorbs
  <2> HIDE DEF s, t
  <2>2. Shaped(s) => Shaped(t)
    BY ONLY <2>1 DEF Shaped, Shape
  <2> QED BY ONLY <2>2 DEF s, t
<1>5. Grows(p, q)
  BY <1>1, <1>3, <1>4 DEF Grows
<1>6. a \in Seq(Nat)
  <2>1. p[owner] \in Line
    BY <1>1
  <2> QED BY <2>1 DEF Line
<1>7. /\ Len(q[owner].absorbed) = e /\ e \in Nat /\ q[owner].absorbed[e] = n + 1
      /\ \A k \in 1..e - 1 : q[owner].absorbed[k] = a[k]
  BY <1>1, <1>3, <1>6
<1>8. Len(l.absorbed) = 0 /\ Len(a) = e - 1
  BY <1>6
<1> HIDE DEF n, e
<1>9. \A s, k, j : Names(q, s, k, j) <=> Names(p, s, k, j) \/ (s = owner /\ k = e /\ j = n + 1)
  <2> TAKE s, k, j
  <2>1. CASE s \in 1..n /\ s # owner
    <3>1. q[s] = p[s] /\ s \in 1..Len(q) /\ s \in 1..Len(p)
      BY <1>1, <2>1 DEF n
    <3>2. Names(q, s, k, j) <=> Names(p, s, k, j)
      BY ONLY <3>1 DEF Names
    <3> QED BY <2>1, <3>2
  <2>2. CASE s = owner
    <3>1. s \in 1..Len(q) /\ s \in 1..Len(p)
      BY <1>1, <2>2 DEF n
    <3>2. Names(q, s, k, j) <=> k \in 1..e /\ q[owner].absorbed[k] = j
      BY <1>7, <2>2, <3>1 DEF Names
    <3>3. Names(p, s, k, j) <=> k \in 1..e - 1 /\ a[k] = j
      BY <1>8, <2>2, <3>1 DEF Names
    <3>4. k \in 1..e <=> k \in 1..e - 1 \/ k = e
      BY <1>6, <1>7, <1>8
    <3>5. ~(e \in 1..e - 1)
      BY <1>7
    <3>6. CASE k = e
      BY <1>7, <2>2, <3>2, <3>3, <3>4, <3>5, <3>6
    <3>7. CASE k # e
      <4>1. k \in 1..e - 1 => q[owner].absorbed[k] = a[k]
        BY <1>7
      <4> HIDE DEF a
      <4> QED BY <3>2, <3>3, <3>4, <3>7, <4>1
    <3> QED BY <3>6, <3>7
  <2>3. CASE s = n + 1
    <3>1. q[s] = l /\ ~(s \in 1..n) /\ s # owner
      BY <1>1, <2>3
    <3>2. ~(k \in 1..Len(q[s].absorbed))
      BY <1>8, <3>1
    <3> QED BY <3>1, <3>2 DEF Names, n
  <2>4. CASE s \notin 1..n /\ s # n + 1
    <3>1. s \notin 1..Len(q) /\ s # owner
      BY <1>1, <2>4
    <3> QED BY <2>4, <3>1 DEF Names, n
  <2> QED BY <2>1, <2>2, <2>3, <2>4
<1>10. \A s, k, j : Names(p, s, k, j) =>
         j \in 1..n /\ s < j /\ p[j].kind = "absorbed" /\ p[s].kind = "land" /\ s \in 1..n
  BY DEF Absorbings, Names, n
<1>11. \A s \in 1..n : q[s].kind = p[s].kind
  BY <1>1, <1>3
<1>12. \A s, k, j : Names(q, s, k, j) =>
         j \in 1..Len(q) /\ s < j /\ q[j].kind = "absorbed" /\ q[s].kind = "land"
  <2> SUFFICES ASSUME NEW s, NEW k, NEW j, Names(q, s, k, j)
               PROVE  j \in 1..Len(q) /\ s < j /\ q[j].kind = "absorbed" /\ q[s].kind = "land"
    OBVIOUS
  <2>1. CASE Names(p, s, k, j)
    <3>1. j \in 1..n /\ s < j /\ p[j].kind = "absorbed" /\ p[s].kind = "land" /\ s \in 1..n
      BY <1>10, <2>1
    <3> QED BY <1>1, <1>11, <3>1
  <2>2. CASE s = owner /\ k = e /\ j = n + 1
    BY <1>1, <1>11, <2>2
  <2> QED BY <1>9, <2>1, <2>2
<1>13. \A j \in 1..Len(q) : q[j].kind = "absorbed" => \E s, k : Names(q, s, k, j)
  <2> SUFFICES ASSUME NEW j \in 1..Len(q), q[j].kind = "absorbed" PROVE \E s, k : Names(q, s, k, j)
    OBVIOUS
  <2>1. CASE j = n + 1
    BY <1>9, <2>1
  <2>2. CASE j \in 1..n
    <3>1. p[j].kind = "absorbed"
      BY <1>11, <2>2
    <3>2. PICK s, k : Names(p, s, k, j)
      BY <2>2, <3>1 DEF Absorbings, n
    <3>3. Names(q, s, k, j)
      BY <1>9, <3>2
    <3> QED BY <3>3
  <2> QED BY <1>1, <2>1, <2>2
<1>14. \A s, k, t, i, j : Names(q, s, k, j) /\ Names(q, t, i, j) => s = t /\ k = i
  <2>1. \A s, k : ~Names(p, s, k, n + 1)
    BY <1>1, <1>10
  <2>2. \A s, k, t, i, j : Names(p, s, k, j) /\ Names(p, t, i, j) => s = t /\ k = i
    BY DEF Absorbings
  <2> QED BY <1>9, <2>1, <2>2
<1> QED BY <1>5, <1>12, <1>13, <1>14 DEF Absorbings

\* What a line's call made of the state, by its own fields.
Wrote(p, a, b) == IF p.kind = "skip" THEN b = a ELSE Ran(Fresh(a), p.faithful) = Fresh(b)

\* The first pass, one call on: l is the call's line.
Observes(acc, y, call) ==
  /\ Obs(y) /\ Tracked(y) /\ Absorbings(y.planned) /\ Grows(acc.planned, y.planned)
  /\ LET l == y.planned[Len(acc.planned) + 1]
     IN  l.call = call /\ Shaped(l) /\ Wrote(l, acc.m, y.m)

Lined(l, call, kind, ops) ==
  /\ l \in Line /\ l.call = call /\ l.kind = kind /\ l.ops = ops /\ l.faithful = ops
  /\ l.absorbed = <<>>

\* What a line says of its call.
LEMMA LineIs ==
  ASSUME NEW call \in Call, NEW ops \in Seq(Op)
  PROVE  /\ Lined(Landing(call, ops), call, "land", ops)
         /\ Lined([Landing(call, ops) EXCEPT !.kind = "skip"], call, "skip", ops)
         /\ Lined([Landing(call, ops) EXCEPT !.kind = "absorbed"], call, "absorbed", ops)
<1> DEFINE z == Landing(call, ops)
<1>1. z \in Line
  BY LandingIs
<1>2. /\ z.call = call /\ z.kind = "land" /\ z.ops = ops /\ z.faithful = ops
      /\ z.absorbed = <<>>
  BY DEF Landing
<1> HIDE DEF z
<1>3. Lined(z, call, "land", ops)
  BY <1>1, <1>2 DEF Lined
<1>4. ASSUME NEW kind \in {"skip", "absorbed"}, NEW l, l = [z EXCEPT !.kind = kind]
      PROVE  Lined(l, call, kind, ops)
  <2>1. /\ l \in Line /\ l.call = z.call /\ l.kind = kind /\ l.ops = z.ops /\ l.faithful = z.faithful
        /\ l.absorbed = z.absorbed
    BY <1>1, <1>4 DEF Line
  <2> QED BY <1>2, <2>1 DEF Lined
<1>5. Lined([z EXCEPT !.kind = "skip"], call, "skip", ops)
  <2> DEFINE l == [z EXCEPT !.kind = "skip"]
  <2>1. l = [z EXCEPT !.kind = "skip"] /\ "skip" \in {"skip", "absorbed"}
    OBVIOUS
  <2> HIDE DEF l
  <2>2. Lined(l, call, "skip", ops)
    BY <1>4, <2>1
  <2> QED BY <2>2 DEF l
<1>6. Lined([z EXCEPT !.kind = "absorbed"], call, "absorbed", ops)
  <2> DEFINE l == [z EXCEPT !.kind = "absorbed"]
  <2>1. l = [z EXCEPT !.kind = "absorbed"] /\ "absorbed" \in {"skip", "absorbed"}
    OBVIOUS
  <2> HIDE DEF l
  <2>2. Lined(l, call, "absorbed", ops)
    BY <1>4, <2>1
  <2> QED BY <2>2 DEF l
<1> QED BY <1>3, <1>5, <1>6 DEF z

\* A call's intent makes what the call wrote.
LEMMA IntendedWrote ==
  ASSUME NEW acc, Obs(acc), NEW call \in Call, NEW ops, Intends(acc, call, TRUE, ops)
  PROVE  Ran(Fresh(acc.m), ops) = Fresh(ApplyIntent(acc.m, ops).m)
<1>1. acc.m \in State /\ ops \in Seq(Op) /\ Ran(Fresh(acc.m), ops).ok
  BY DEF Obs, Intends
<1>2. ApplyIntent(acc.m, ops).ok
  BY <1>1, ApplyIntentIs
<1>3. ApplyIntent(acc.m, ops) = Ran(Fresh(acc.m), ops)
  BY <1>1, <1>2, ApplyIntentIs
<1>4. ApplyIntent(acc.m, ops) = Fresh(ApplyIntent(acc.m, ops).m)
  BY <1>1, <1>2, ApplyIntentIs
<1> QED BY <1>3, <1>4

\* observe, in whichever case: tracks stay honest and absorbed lines named once.
LEMMA ObserveNext ==
  ASSUME NEW acc, Obs(acc), Tracked(acc), Absorbings(acc.planned), NEW call \in Call,
         NEW y, y = Observe(acc, call)
  PROVE  Observes(acc, y, call)
<1>1. y = [m |-> y.m, tracks |-> y.tracks, planned |-> y.planned]
  BY ObserveCases
<1>2. PICK ok, ops :
        /\ Intends(acc, call, ok, ops)
        /\ \/ ~ok /\ Skips(acc, call, ops, y)
           \/ ok /\ acc.m[call.tool.path] # NoFile
                 /\ \E f : /\ f = Absorb(acc.planned, acc.tracks[call.tool.path],
                                         acc.m[call.tool.path], ops)
                           /\ f.ok /\ Folds(acc, call, ops, f, y)
           \/ ok /\ Lands(acc, call, ops, y)
  BY ObserveCases
<1>3. /\ ops \in Seq(Op) /\ Shape(ops, call.tool.path) /\ ok \in BOOLEAN
      /\ acc.planned \in Seq(Line) /\ Len(acc.planned) \in Nat
  BY <1>2 DEF Intends, Obs
<1> DEFINE p == acc.planned
           l == y.planned[Len(p) + 1]
<1>4. CASE ~ok /\ Skips(acc, call, ops, y)
  <2> DEFINE d == [Landing(call, ops) EXCEPT !.kind = "skip"]
  <2>1. d \in Line /\ d.call = call /\ d.kind = "skip" /\ d.ops = ops /\ d.faithful = ops /\ d.absorbed = <<>>
    <3>1. Lined(d, call, "skip", ops)
      BY <1>3, LineIs
    <3> QED BY <3>1 DEF Lined
  <2>2. y.planned = Append(p, d) /\ y.m = acc.m
    BY <1>4 DEF Skips
  <2>3. Obs(y) /\ Tracked(y)
    BY <1>1, <1>3, <1>4, SkipNext
  <2> HIDE DEF d
  <2>4. Grows(p, y.planned) /\ Absorbings(y.planned)
    BY <1>3, <2>1, <2>2, AppendGrows
  <2>5. l = d
    BY <1>3, <2>1, <2>2
  <2> HIDE DEF l
  <2>6. l.call = call /\ Shaped(l) /\ Wrote(l, acc.m, y.m)
    BY <1>3, <2>1, <2>2, <2>5 DEF Shaped, Wrote
  <2> QED BY <2>3, <2>4, <2>6 DEF Observes, l
<1>5. CASE ok /\ acc.m[call.tool.path] # NoFile
              /\ \E f : /\ f = Absorb(acc.planned, acc.tracks[call.tool.path],
                                      acc.m[call.tool.path], ops)
                        /\ f.ok /\ Folds(acc, call, ops, f, y)
  <2>1. PICK f : /\ f = Absorb(acc.planned, acc.tracks[call.tool.path], acc.m[call.tool.path], ops)
                 /\ f.ok /\ Folds(acc, call, ops, f, y)
    BY <1>5
  <2> DEFINE d == [Landing(call, ops) EXCEPT !.kind = "absorbed"]
  <2>2. d \in Line /\ d.call = call /\ d.kind = "absorbed" /\ d.ops = ops /\ d.faithful = ops /\ d.absorbed = <<>>
    <3>1. Lined(d, call, "absorbed", ops)
      BY <1>3, LineIs
    <3> QED BY <3>1 DEF Lined
  <2>3. Intends(acc, call, TRUE, ops)
    BY <1>2, <1>3, <1>5
  <2>4. Obs(y) /\ Tracked(y) /\ Taken(p, y.planned, f.owner, f.news, d)
    BY <1>1, <1>5, <2>1, <2>3, FoldNext
  <2> HIDE DEF d
  <2>5. Grows(p, y.planned) /\ Absorbings(y.planned)
    BY ONLY <1>3, <2>2, <2>4, Absorbings(acc.planned), TakenGrows
  <2>6. l = d
    BY <2>4 DEF Taken
  <2>7. Ran(Fresh(acc.m), ops) = Fresh(y.m)
    <3>1. y.m = ApplyIntent(acc.m, ops).m
      BY <2>1 DEF Folds
    <3> QED BY <2>3, <3>1, IntendedWrote
  <2> HIDE DEF l
  <2>8. l.call = call /\ Shaped(l) /\ Wrote(l, acc.m, y.m)
    BY <1>3, <2>2, <2>6, <2>7 DEF Shaped, Wrote
  <2> QED BY <2>4, <2>5, <2>8 DEF Observes, l
<1>6. CASE ok /\ Lands(acc, call, ops, y)
  <2> DEFINE d == Landing(call, ops)
  <2>1. d \in Line /\ d.call = call /\ d.kind = "land" /\ d.ops = ops /\ d.faithful = ops /\ d.absorbed = <<>>
    <3>1. Lined(d, call, "land", ops)
      BY <1>3, LineIs
    <3> QED BY <3>1 DEF Lined
  <2>2. y.planned = Append(p, d) /\ y.m = ApplyIntent(acc.m, ops).m
    BY <1>6 DEF Lands
  <2>3. Intends(acc, call, TRUE, ops)
    BY <1>2, <1>3, <1>6
  <2>4. Obs(y) /\ Tracked(y)
    BY <1>1, <1>6, <2>3, LandNext
  <2> HIDE DEF d
  <2>5. Grows(p, y.planned) /\ Absorbings(y.planned)
    BY <1>3, <2>1, <2>2, AppendGrows
  <2>6. l = d
    BY <1>3, <2>1, <2>2
  <2>7. Ran(Fresh(acc.m), ops) = Fresh(y.m)
    BY <2>2, <2>3, IntendedWrote
  <2> HIDE DEF l
  <2>8. l.call = call /\ Shaped(l) /\ Wrote(l, acc.m, y.m)
    BY <1>3, <2>1, <2>6, <2>7 DEF Shaped, Wrote
  <2> QED BY <2>4, <2>5, <2>8 DEF Observes, l
<1> QED BY <1>2, <1>4, <1>5, <1>6

\* The states between the calls, as their own fields made them.
Chained(start, p, m) ==
  \E g : /\ g[0] = start /\ g[Len(p)] = m
         /\ \A k \in 0..Len(p) : g[k] \in State
         /\ \A k \in 1..Len(p) : Wrote(p[k], g[k - 1], g[k])

\* The lines are the calls that were not recorded, in their order.
FromCalls(recorded, l, k, p) ==
  \E f : /\ \A s \in 1..Len(p) : /\ f[s] \in 1..k /\ p[s].call = l[f[s]]
                                 /\ l[f[s]].id \notin recorded
         /\ \A s, t \in 1..Len(p) : s < t => f[s] < f[t]
         /\ \A i \in 1..k : l[i].id \notin recorded => \E s \in 1..Len(p) : f[s] = i

\* The chain of states grows with the plan.
LEMMA ChainGrows ==
  ASSUME NEW start, NEW p, NEW m, Chained(start, p, m), NEW q, Grows(p, q), NEW n \in State,
         Wrote(q[Len(p) + 1], m, n)
  PROVE  Chained(start, q, n)
<1> DEFINE e == Len(p)
<1>1. e \in Nat /\ Len(q) = e + 1
      /\ \A s \in 1..e : q[s].kind = p[s].kind /\ q[s].faithful = p[s].faithful
  BY DEF Grows
<1>2. PICK g : /\ g[0] = start /\ g[e] = m
               /\ \A k \in 0..e : g[k] \in State
               /\ \A k \in 1..e : Wrote(p[k], g[k - 1], g[k])
  BY DEF Chained
<1>3. Wrote(q[e + 1], m, n)
  OBVIOUS
<1> HIDE DEF e
<1> DEFINE h == [k \in 0..e + 1 |-> IF k = e + 1 THEN n ELSE g[k]]
<1>4. h[e + 1] = n /\ \A k \in 0..e : h[k] = g[k]
  BY <1>1
<1> HIDE DEF h
<1>5. h[0] = start /\ h[Len(q)] = n
  BY <1>1, <1>2, <1>4
<1>6. \A k \in 0..Len(q) : h[k] \in State
  BY <1>1, <1>2, <1>4
<1>7. ASSUME NEW k \in 1..Len(q) PROVE Wrote(q[k], h[k - 1], h[k])
  <2>1. CASE k = e + 1
    <3>1. h[k - 1] = m /\ h[k] = n
      BY <1>1, <1>2, <1>4, <2>1
    <3> QED BY <1>3, <2>1, <3>1
  <2>2. CASE k # e + 1
    <3>1. k \in 1..e /\ k \in 0..e /\ k - 1 \in 0..e
      BY <1>1, <2>2
    <3>2. Wrote(p[k], g[k - 1], g[k]) /\ h[k - 1] = g[k - 1] /\ h[k] = g[k]
      BY <1>2, <1>4, <3>1
    <3>3. q[k].kind = p[k].kind /\ q[k].faithful = p[k].faithful
      BY <1>1, <3>1
    <3> QED BY <3>2, <3>3 DEF Wrote
  <2> QED BY <2>1, <2>2
<1> QED BY <1>5, <1>6, <1>7 DEF Chained

\* A call that is not on the fork adds its line;
LEMMA CallsGrow ==
  ASSUME NEW rec, NEW l, NEW k \in Nat, NEW p, FromCalls(rec, l, k, p), NEW q, Grows(p, q),
         q[Len(p) + 1].call = l[k + 1], l[k + 1].id \notin rec
  PROVE  FromCalls(rec, l, k + 1, q)
<1> DEFINE e == Len(p)
<1>1. e \in Nat /\ Len(q) = e + 1 /\ \A s \in 1..e : q[s].call = p[s].call
  BY DEF Grows
<1>2. PICK f : /\ \A s \in 1..e : f[s] \in 1..k /\ p[s].call = l[f[s]] /\ l[f[s]].id \notin rec
               /\ \A s, t \in 1..e : s < t => f[s] < f[t]
               /\ \A i \in 1..k : l[i].id \notin rec => \E s \in 1..e : f[s] = i
  BY DEF FromCalls
<1>3. q[e + 1].call = l[k + 1] /\ l[k + 1].id \notin rec
  OBVIOUS
<1> HIDE DEF e
<1> DEFINE h == [s \in 1..e + 1 |-> IF s = e + 1 THEN k + 1 ELSE f[s]]
<1>4. h[e + 1] = k + 1 /\ \A s \in 1..e : h[s] = f[s]
  BY <1>1
<1> HIDE DEF h
<1>5. ASSUME NEW s \in 1..Len(q)
      PROVE  h[s] \in 1..k + 1 /\ q[s].call = l[h[s]] /\ l[h[s]].id \notin rec
  <2>1. CASE s = e + 1
    BY <1>3, <1>4, <2>1
  <2>2. CASE s \in 1..e
    BY <1>1, <1>2, <1>4, <2>2
  <2> QED BY <1>1, <2>1, <2>2
<1>6. ASSUME NEW s \in 1..Len(q), NEW t \in 1..Len(q), s < t PROVE h[s] < h[t]
  <2>1. s \in 1..e /\ h[s] = f[s] /\ f[s] \in 1..k
    BY <1>1, <1>2, <1>4, <1>6
  <2>2. CASE t = e + 1
    BY <1>4, <2>1, <2>2
  <2>3. CASE t \in 1..e
    BY <1>2, <1>4, <1>6, <2>1, <2>3
  <2> QED BY <1>1, <2>2, <2>3
<1>7. ASSUME NEW i \in 1..k + 1, l[i].id \notin rec PROVE \E s \in 1..Len(q) : h[s] = i
  <2>1. CASE i = k + 1
    <3>1. e + 1 \in 1..Len(q)
      BY <1>1
    <3> QED BY <1>4, <2>1, <3>1
  <2>2. CASE i \in 1..k
    <3>1. PICK s \in 1..e : f[s] = i
      BY <1>2, <1>7, <2>2
    <3>2. s \in 1..Len(q) /\ h[s] = i
      BY <1>1, <1>4, <3>1
    <3> QED BY <3>2
  <2> QED BY <2>1, <2>2
<1> QED BY <1>5, <1>6, <1>7 DEF FromCalls

\* one that is adds none.
LEMMA CallsWait ==
  ASSUME NEW rec, NEW l, NEW k \in Nat, NEW p, FromCalls(rec, l, k, p), l[k + 1].id \in rec
  PROVE  FromCalls(rec, l, k + 1, p)
<1>1. PICK f : /\ \A s \in 1..Len(p) : f[s] \in 1..k /\ p[s].call = l[f[s]] /\ l[f[s]].id \notin rec
               /\ \A s, t \in 1..Len(p) : s < t => f[s] < f[t]
               /\ \A i \in 1..k : l[i].id \notin rec => \E s \in 1..Len(p) : f[s] = i
  BY DEF FromCalls
<1>2. \A s \in 1..Len(p) : f[s] \in 1..k + 1 /\ p[s].call = l[f[s]] /\ l[f[s]].id \notin rec
  BY <1>1
<1>3. ASSUME NEW i \in 1..k + 1, l[i].id \notin rec PROVE \E s \in 1..Len(p) : f[s] = i
  <2>1. i \in 1..k
    BY <1>3
  <2> QED BY <1>1, <1>3, <2>1
<1> QED BY <1>1, <1>2, <1>3 DEF FromCalls

ObserveStep(recorded, acc, c) == IF c.id \in recorded THEN acc ELSE Observe(acc, c)

\* The first pass: tracks that tell who wrote which bytes, every call
\* accounted for, and the states the calls made.
Passed(start, recorded, l, k, acc) ==
  /\ Obs(acc) /\ Tracked(acc) /\ Absorbings(acc.planned)
  /\ \A s \in 1..Len(acc.planned) : Shaped(acc.planned[s])
  /\ Chained(start, acc.planned, acc.m)
  /\ FromCalls(recorded, l, k, acc.planned)
PassInv(q, l, k, acc) == Passed(q.start, q.recorded, l, k, acc)
ObserveLeft == INSTANCE StepFolds WITH FoldStep <- ObserveStep, FoldInv <- PassInv

\* Induction, for this fold.
LEMMA ObserveInducts == ObserveLeft!Inducts
BY Inducting DEF ObserveLeft!Inducts

\* The first pass, over all calls.
LEMMA ObservedIs ==
  ASSUME NEW start \in State, NEW calls \in Seq(Call), NEW recorded
  PROVE  Passed(start, recorded, calls, Len(calls), Observed(start, calls, recorded))
<1> DEFINE b == [m |-> start, tracks |-> [x \in Paths |-> NoTrack], planned |-> <<>>]
           n == Len(calls)
           q == [start |-> start, recorded |-> recorded]
<1>1. n \in Nat /\ DOMAIN calls = 1..n /\ q.start = start /\ q.recorded = recorded
  OBVIOUS
<1>2. b.m = start /\ b.tracks = [x \in Paths |-> NoTrack] /\ b.planned = <<>>
      /\ b = [m |-> b.m, tracks |-> b.tracks, planned |-> b.planned]
  OBVIOUS
<1> HIDE DEF b, q, n
<1>3. b.planned \in Seq(Line) /\ Len(b.planned) = 0
  BY <1>2
<1>4. Passed(start, recorded, calls, 0, b)
  <2>1. Obs(b)
    BY <1>2, <1>3 DEF Obs
  <2>2. Tracked(b)
    <3>1. \A x \in Paths : b.tracks[x].runs = {}
      BY <1>2 DEF NoTrack
    <3> QED BY <3>1 DEF Tracked, TrackedOn, TrackOK
  <2>3. Absorbings(b.planned)
    BY <1>3 DEF Absorbings, Names
  <2>4. Chained(start, b.planned, b.m)
    <3> DEFINE g == [k \in 0..0 |-> start]
    <3>1. g[0] = start /\ g[0] \in State
      OBVIOUS
    <3> HIDE DEF g
    <3>2. /\ g[0] = start /\ g[Len(b.planned)] = b.m
          /\ \A k \in 0..Len(b.planned) : g[k] \in State
          /\ \A k \in 1..Len(b.planned) : Wrote(b.planned[k], g[k - 1], g[k])
      BY <1>2, <1>3, <3>1
    <3> QED BY <3>2 DEF Chained
  <2>5. FromCalls(recorded, calls, 0, b.planned)
    <3> DEFINE f == <<>>
    <3>1. /\ \A s \in 1..Len(b.planned) : f[s] \in 1..0 /\ b.planned[s].call = calls[f[s]]
                                          /\ calls[f[s]].id \notin recorded
          /\ \A s, t \in 1..Len(b.planned) : s < t => f[s] < f[t]
          /\ \A i \in 1..0 : calls[i].id \notin recorded => \E s \in 1..Len(b.planned) : f[s] = i
      BY <1>3
    <3> HIDE DEF f
    <3> QED BY <3>1 DEF FromCalls
  <2> QED BY <1>3, <2>1, <2>2, <2>3, <2>4, <2>5 DEF Passed
<1>5. ASSUME NEW i \in 1..n, NEW acc, PassInv(q, calls, i - 1, acc)
      PROVE  PassInv(q, calls, i, ObserveStep(recorded, acc, calls[i]))
  <2> DEFINE c == calls[i]
  <2>1. c \in Call /\ i - 1 \in Nat /\ (i - 1) + 1 = i
    BY <1>1
  <2>2. Passed(start, recorded, calls, i - 1, acc)
    BY <1>1, <1>5 DEF PassInv
  <2>3. CASE c.id \in recorded
    <3>1. ObserveStep(recorded, acc, c) = acc
      BY <2>3 DEF ObserveStep
    <3>2. FromCalls(recorded, calls, i, acc.planned)
      <4>1. FromCalls(recorded, calls, i - 1, acc.planned)
        BY <2>2 DEF Passed
      <4> QED BY <2>1, <2>3, <4>1, CallsWait
    <3> HIDE DEF c
    <3> QED BY <1>1, <2>2, <3>1, <3>2 DEF PassInv, Passed, c
  <2>4. CASE c.id \notin recorded
    <3> DEFINE y == Observe(acc, c)
    <3>1. ObserveStep(recorded, acc, c) = y
      BY <2>4 DEF ObserveStep
    <3>2. y = Observe(acc, c)
      OBVIOUS
    <3>3. Obs(acc) /\ Tracked(acc) /\ Absorbings(acc.planned)
      BY <2>2 DEF Passed
    <3>4. c = calls[i]
      OBVIOUS
    <3> HIDE DEF y, c
    <3>5. Observes(acc, y, c)
      BY <2>1, <3>2, <3>3, ObserveNext
    <3> DEFINE p == acc.planned
               r == y.planned
               l == r[Len(p) + 1]
    <3>6. /\ Obs(y) /\ Tracked(y) /\ Absorbings(r) /\ Grows(p, r)
          /\ l.call = c /\ Shaped(l) /\ Wrote(l, acc.m, y.m)
      BY <3>5 DEF Observes
    <3>7. Chained(start, p, acc.m) /\ FromCalls(recorded, calls, i - 1, p) /\ \A s \in 1..Len(p) : Shaped(p[s])
      BY <2>2 DEF Passed
    <3> HIDE DEF p, r
    <3>8. y.m \in State
      BY <3>6 DEF Obs
    <3>9. Chained(start, r, y.m)
      BY <3>6, <3>7, <3>8, ChainGrows
    <3>10. FromCalls(recorded, calls, i, r)
      BY <2>1, <2>4, <3>4, <3>6, <3>7, CallsGrow
    <3>11. \A s \in 1..Len(r) : Shaped(r[s])
      BY <3>6, <3>7 DEF Grows
    <3>12. Passed(start, recorded, calls, i, y)
      BY <3>6, <3>9, <3>10, <3>11 DEF Passed, r
    <3> QED BY <1>1, <3>1, <3>4, <3>12 DEF PassInv
  <2> QED BY <2>3, <2>4
<1>6. PassInv(q, calls, 0, b)
  BY <1>1, <1>4 DEF PassInv
<1>7. PassInv(q, calls, n, ObserveLeft!FoldedLeft(recorded, b, calls))
  BY <1>1, <1>5, <1>6, ObserveInducts, ObserveLeft!FoldHolds
<1>8. Observed(start, calls, recorded) = ObserveLeft!FoldedLeft(recorded, b, calls)
  BY DEF Observed, b, ObserveLeft!FoldedLeft, ObserveStep, FoldLeft, MapThenFoldSet,
         Max
<1> QED BY <1>1, <1>7, <1>8 DEF PassInv, n

\* What the first pass keeps is what TracksHonest asks of it.
LEMMA PassedHonest ==
  ASSUME NEW obs, Obs(obs), Tracked(obs)
  PROVE  Honest(obs)
<1> SUFFICES ASSUME NEW x \in Paths, NEW r \in obs.tracks[x].runs
             PROVE  /\ obs.planned[r.call].kind = "land"
                    /\ r.end <= Len(obs.m[x])
                    /\ Slice(obs.m[x], r.start, r.end)
                         = Slice(obs.planned[r.call].ops[r.op].new, r.at, r.at + (r.end - r.start))
  BY DEF Honest
<1> DEFINE p == obs.planned
           c == obs.m[x]
           t == obs.tracks[x]
           N == NewsOf(p)
           new == p[r.call].ops[r.op].new
<1>1. p \in Seq(Line)
  BY DEF Obs
<1>2. TrackedOn(p, x, t, c)
  BY DEF Tracked
<1> HIDE DEF p, c, N, t
<1>3. Owns(p, x, r) /\ RunOK(r, c, N) /\ c \in Content
  <2>1. r \in t.runs
    BY DEF t
  <2> QED BY <1>2, <2>1 DEF TrackedOn, TrackOK, N
<1>4. N[SeatOf(r)] = new
  <2>1. r.call \in 1..Len(p) /\ r.op \in 1..Len(p[r.call].ops) /\ p[r.call].ops[r.op].op = "edit"
    BY <1>3 DEF Owns
  <2>2. SeatOf(r) = <<r.call, r.op>>
    BY DEF SeatOf
  <2> QED BY <1>1, <2>1, <2>2, NewsIs DEF N
<1> HIDE DEF new
<1>5. /\ r \in Run /\ new \in Content /\ r.start <= r.end /\ r.end <= Len(c)
      /\ r.at + (r.end - r.start) <= Len(new)
      /\ \A j \in Nat : r.start < j /\ j <= r.end => c[j] = new[r.at + (j - r.start)]
  BY <1>3, <1>4 DEF RunOK
<1>6. PICK i \in Nat, j \in Nat, k \in Nat : i = r.start /\ j = r.end /\ k = r.at
  BY <1>5 DEF Run
<1>7. Slice(c, i, j) = Slice(new, k, k + (j - i))
  <2>1. i <= j /\ j <= Len(c) /\ k + (j - i) <= Len(new) /\ k + (j - i) \in Nat /\ k <= k + (j - i)
    BY <1>5, <1>6
  <2>2. \A n \in Nat : i < n /\ n <= j => c[n] = new[k + (n - i)]
    BY <1>5, <1>6
  <2> DEFINE a == Slice(c, i, j)
             e == k + (j - i)
             b == Slice(new, k, e)
  <2>3. a \in Content /\ Len(a) = j - i /\ \A n \in 1..j - i : a[n] = c[i + n]
    BY <1>3, <2>1, SliceIs
  <2>4. e - k = j - i /\ e \in Nat /\ k <= e /\ e <= Len(new)
    BY <2>1
  <2> HIDE DEF a, e
  <2>5. b \in Content /\ Len(b) = e - k /\ \A n \in 1..e - k : b[n] = new[k + n]
    BY <1>5, <2>4, SliceIs
  <2> HIDE DEF b
  <2>6. \A n \in 1..j - i : a[n] = b[n]
    <3> TAKE n \in 1..j - i
    <3>1. i + n \in Nat /\ i < i + n /\ i + n <= j /\ k + ((i + n) - i) = k + n
      BY <2>1
    <3> QED BY <2>2, <2>3, <2>4, <2>5, <3>1
  <2>7. a = b
    BY <2>3, <2>4, <2>5, <2>6 DEF Content
  <2> QED BY <2>7 DEF a, b, e
<1>8. p[r.call].kind = "land"
  BY <1>3 DEF Owns
<1> QED BY <1>5, <1>6, <1>7, <1>8 DEF p, c, new

-----------------------------------------------------------------------------
(* The diff's ranges.                                                      *)

\* A slice is a content as long as it ends within one.
LEMMA SliceType ==
  ASSUME NEW c \in Content, NEW i \in Nat, NEW j \in Int, j <= Len(c)
  PROVE  Slice(c, i, j) \in Content /\ Len(Slice(c, i, j)) = IF i <= j THEN j - i ELSE 0
<1>1. CASE i <= j
  BY <1>1, SliceIs
<1>2. CASE ~(i <= j)
  <2>1. Slice(c, i, j) = <<>>
    BY <1>2 DEF Slice, Content
  <2> QED BY <1>2, <2>1 DEF Content
<1> QED BY <1>1, <1>2

\* Where lines begin: within the content, in order, the first at its head.
OffsetStep(c, off, i) == IF i = 0 \/ c[i] = NL THEN Append(off, i) ELSE off
Offsets(c, k, off) ==
  /\ off \in Seq(Nat)
  /\ \A i \in 1..Len(off) : off[i] < k
  /\ \A i, j \in 1..Len(off) : i < j => off[i] < off[j]
  /\ k > 0 => off # <<>> /\ off[1] = 0
OffsetInv(c, l, k, off) == Offsets(c, k, off)
OffsetLeft == INSTANCE StepFolds WITH FoldStep <- OffsetStep, FoldInv <- OffsetInv

\* Induction, for this fold.
LEMMA OffsetInducts == OffsetLeft!Inducts
BY Inducting DEF OffsetLeft!Inducts

\* split_keep_lines: the offsets of the lines, from the first to the end.
LEMMA OffsetsAre ==
  ASSUME NEW c \in Content
  PROVE  Offsets(c, Len(c), LineOffsets(c))
<1> DEFINE n == Len(c)
           l == [k \in 1..n |-> k - 1]
<1>1. n \in Nat /\ DOMAIN l = 1..n /\ \A k \in 1..n : l[k] = k - 1
  BY DEF Content
<1>2. LineOffsets(c) = OffsetLeft!FoldedLeft(c, <<>>, l)
  BY DEF LineOffsets, OffsetLeft!FoldedLeft, OffsetStep, FoldLeft, MapThenFoldSet,
         Max
<1> HIDE DEF l, n
<1>3. OffsetInv(c, l, 0, <<>>)
  BY DEF OffsetInv, Offsets
<1>4. ASSUME NEW i \in 1..n, NEW off, OffsetInv(c, l, i - 1, off)
      PROVE  OffsetInv(c, l, i, OffsetStep(c, off, l[i]))
  <2>1. l[i] = i - 1 /\ i - 1 \in Nat /\ i > 0
    BY <1>1
  <2>2. /\ off \in Seq(Nat) /\ (\A j \in 1..Len(off) : off[j] < i - 1)
        /\ (\A j, k \in 1..Len(off) : j < k => off[j] < off[k])
        /\ (i - 1 > 0 => off # <<>> /\ off[1] = 0)
    BY <1>4 DEF OffsetInv, Offsets
  <2>3. CASE ~(i - 1 = 0 \/ c[i - 1] = NL)
    <3>1. OffsetStep(c, off, l[i]) = off
      BY <2>1, <2>3 DEF OffsetStep
    <3>2. \A j \in 1..Len(off) : off[j] < i
      BY <2>1, <2>2
    <3>3. off # <<>> /\ off[1] = 0
      BY <2>1, <2>2, <2>3
    <3> QED BY <2>2, <3>1, <3>2, <3>3 DEF OffsetInv, Offsets
  <2>4. CASE i - 1 = 0 \/ c[i - 1] = NL
    <3> DEFINE y == Append(off, i - 1)
    <3>1. OffsetStep(c, off, l[i]) = y
      BY <2>1, <2>4 DEF OffsetStep
    <3>2. /\ y \in Seq(Nat) /\ Len(y) = Len(off) + 1 /\ Len(off) \in Nat /\ y[Len(off) + 1] = i - 1
          /\ \A j \in 1..Len(off) : y[j] = off[j] /\ off[j] \in Nat
      BY <2>1, <2>2
    <3> HIDE DEF y
    <3>3. \A j \in 1..Len(y) : y[j] < i
      <4> TAKE j \in 1..Len(y)
      <4>1. CASE j = Len(off) + 1
        BY <2>1, <3>2, <4>1
      <4>2. CASE j \in 1..Len(off)
        BY <2>1, <2>2, <3>2, <4>2
      <4> QED BY <3>2, <4>1, <4>2
    <3>4. \A j, k \in 1..Len(y) : j < k => y[j] < y[k]
      <4> TAKE j, k \in 1..Len(y)
      <4> HAVE j < k
      <4>1. j \in 1..Len(off)
        BY <3>2
      <4>2. CASE k = Len(off) + 1
        BY <2>2, <3>2, <4>1, <4>2
      <4>3. CASE k \in 1..Len(off)
        BY <2>2, <3>2, <4>1, <4>3
      <4>4. k = Len(off) + 1 \/ k \in 1..Len(off)
        <5>1. Len(y) = Len(off) + 1 /\ Len(off) \in Nat
          BY <3>2
        <5>2. k \in 1..Len(y)
          OBVIOUS
        <5> QED BY ONLY <5>1, <5>2
      <4> QED BY <4>2, <4>3, <4>4
    <3>5. y # <<>> /\ y[1] = 0
      <4>1. CASE off = <<>>
        <5>1. i - 1 = 0 /\ Len(off) = 0
          BY <2>1, <2>2, <4>1
        <5> QED BY <3>2, <5>1
      <4>2. CASE off # <<>>
        <5>1. 1 \in 1..Len(off)
          BY <2>2, <4>2
        <5>2. i - 1 > 0
          BY <2>1, <2>2, <5>1
        <5> QED BY <2>2, <3>2, <5>1, <5>2
      <4> QED BY <4>1, <4>2
    <3> QED BY <3>1, <3>2, <3>3, <3>4, <3>5 DEF OffsetInv, Offsets
  <2> QED BY <2>3, <2>4
<1>5. OffsetInv(c, l, n, OffsetLeft!FoldedLeft(c, <<>>, l))
  BY <1>1, <1>3, <1>4, OffsetInducts, OffsetLeft!FoldHolds
<1> QED BY <1>2, <1>5 DEF OffsetInv, n

\* Where line k begins, or the end.
LEMMA OffsetIs ==
  ASSUME NEW c \in Content, NEW k \in Nat
  PROVE  /\ Offset(c, k) \in Nat /\ Offset(c, k) <= Len(c)
         /\ \A i \in Nat : i <= k => Offset(c, i) <= Offset(c, k)
<1> DEFINE off == LineOffsets(c)
<1>1. /\ off \in Seq(Nat) /\ (\A i \in 1..Len(off) : off[i] < Len(c))
      /\ \A i, j \in 1..Len(off) : i < j => off[i] < off[j]
  BY OffsetsAre DEF Offsets
<1>2. Len(c) \in Nat /\ Len(off) \in Nat
  BY <1>1 DEF Content
<1>3. \A i \in Nat : Offset(c, i) = IF i < Len(off) THEN off[i + 1] ELSE Len(c)
  BY DEF Offset
<1> HIDE DEF off
<1>4. ASSUME NEW i \in Nat PROVE Offset(c, i) \in Nat /\ Offset(c, i) <= Len(c)
  <2>1. CASE i < Len(off)
    <3>1. i + 1 \in 1..Len(off)
      BY <1>2, <2>1
    <3>2. off[i + 1] \in Nat /\ off[i + 1] < Len(c)
      BY <1>1, <3>1
    <3> QED BY <1>2, <1>3, <2>1, <3>2
  <2>2. CASE ~(i < Len(off))
    BY <1>2, <1>3, <2>2
  <2> QED BY <2>1, <2>2
<1>5. ASSUME NEW i \in Nat, i <= k PROVE Offset(c, i) <= Offset(c, k)
  <2>1. CASE k < Len(off) /\ i < k
    <3>1. i + 1 \in 1..Len(off) /\ k + 1 \in 1..Len(off) /\ i + 1 < k + 1 /\ i < Len(off)
      BY <1>2, <2>1
    <3>2. off[i + 1] < off[k + 1] /\ off[i + 1] \in Nat /\ off[k + 1] \in Nat
      BY <1>1, <3>1
    <3> QED BY <1>3, <2>1, <3>1, <3>2
  <2>2. CASE i = k
    BY <1>4, <2>2
  <2>3. CASE ~(k < Len(off))
    <3>1. Offset(c, k) = Len(c)
      BY <1>3, <2>3
    <3> QED BY <1>4, <3>1
  <2> QED BY <1>5, <2>1, <2>2, <2>3
<1> QED BY <1>4, <1>5

-----------------------------------------------------------------------------
(* The edit script.                                                        *)

\* The script from a pair of places on, told what it is from the next ones on.
ScriptStep(a, b, L, h, p) ==
  LET i == p[1]
      j == p[2]
      n == Len(a)
      m == Len(b)
  IN  CASE i = n /\ j = m -> <<>>
        [] i < n /\ j < m /\ a[i + 1] = b[j + 1] -> <<"equal">> \o h[<<i + 1, j + 1>>]
        [] i < n /\ (j = m \/ (a[i + 1] # b[j + 1] /\ L[<<i + 1, j>>] >= L[<<i, j + 1>>])) ->
             <<"delete">> \o h[<<i + 1, j>>]
        [] OTHER -> <<"insert">> \o h[<<i, j + 1>>]

\* A step of the walk reads three neighbours of the grid.
LEMMA ScriptLocal ==
  ASSUME NEW a, NEW b, NEW L, NEW g, NEW h, Len(a) \in Nat, Len(b) \in Nat,
         NEW i \in 0..Len(a), NEW j \in 0..Len(b),
         i < Len(a) /\ j < Len(b) => g[<<i + 1, j + 1>>] = h[<<i + 1, j + 1>>],
         i < Len(a) => g[<<i + 1, j>>] = h[<<i + 1, j>>],
         j < Len(b) => g[<<i, j + 1>>] = h[<<i, j + 1>>]
  PROVE  ScriptStep(a, b, L, g, <<i, j>>) = ScriptStep(a, b, L, h, <<i, j>>)
<1> DEFINE n == Len(a)
           m == Len(b)
           E1 == i < n /\ j < m /\ a[i + 1] = b[j + 1]
           D1 == i < n /\ (j = m \/ (a[i + 1] # b[j + 1] /\ L[<<i + 1, j>>] >= L[<<i, j + 1>>]))
<1>1. \A f : ScriptStep(a, b, L, f, <<i, j>>) =
               CASE i = n /\ j = m -> <<>>
                 [] E1 -> <<"equal">> \o f[<<i + 1, j + 1>>]
                 [] D1 -> <<"delete">> \o f[<<i + 1, j>>]
                 [] OTHER -> <<"insert">> \o f[<<i, j + 1>>]
  BY DEF ScriptStep
<1>2. CASE i = n /\ j = m
  <2>1. ~E1 /\ ~D1
    BY <1>2
  <2> HIDE DEF E1, D1
  <2> QED BY <1>1, <1>2, <2>1
<1>3. CASE E1
  <2>1. ~(i = n /\ j = m) /\ i < n /\ j < m
    BY <1>3
  <2>2. ~D1
    BY <1>3
  <2> HIDE DEF E1, D1
  <2> QED BY <1>1, <1>3, <2>1, <2>2
<1>4. CASE D1
  <2>1. ~(i = n /\ j = m) /\ i < n
    BY <1>4
  <2>2. ~E1
    BY <1>4
  <2> HIDE DEF E1, D1
  <2> QED BY <1>1, <1>4, <2>1, <2>2
<1>5. CASE ~(i = n /\ j = m) /\ ~E1 /\ ~D1
  <2>1. j < m
    BY <1>5
  <2> HIDE DEF E1, D1
  <2> QED BY <1>1, <1>5, <2>1
<1> QED BY <1>2, <1>3, <1>4, <1>5

\* What a script does: x and y are how far it is in either sequence.
EditKinds == {"equal", "delete", "insert"}
Walks(a, b, s, x, y) ==
  /\ \A k \in 0..Len(s) : x[k] \in 0..Len(a) /\ y[k] \in 0..Len(b)
  /\ x[Len(s)] = Len(a) /\ y[Len(s)] = Len(b)
  /\ \A k \in 1..Len(s) :
       /\ x[k] = x[k - 1] + (IF s[k] \in {"equal", "delete"} THEN 1 ELSE 0)
       /\ y[k] = y[k - 1] + (IF s[k] \in {"equal", "insert"} THEN 1 ELSE 0)
       /\ s[k] = "equal" => a[x[k]] = b[y[k]]
Script(a, b, s, i, j) ==
  s \in Seq(EditKinds) /\ \E x, y : x[0] = i /\ y[0] = j /\ Walks(a, b, s, x, y)

\* A script with an edit before it.
LEMMA ScriptMore ==
  ASSUME NEW a, NEW b, Len(a) \in Nat, Len(b) \in Nat, NEW i \in 0..Len(a), NEW j \in 0..Len(b),
         NEW e \in EditKinds, NEW s, NEW u \in 0..Len(a), NEW v \in 0..Len(b), Script(a, b, s, u, v),
         u = i + (IF e \in {"equal", "delete"} THEN 1 ELSE 0),
         v = j + (IF e \in {"equal", "insert"} THEN 1 ELSE 0),
         e = "equal" => a[u] = b[v]
  PROVE  Script(a, b, <<e>> \o s, i, j)
<1> DEFINE n == Len(s)
           t == <<e>> \o s
<1>1. s \in Seq(EditKinds) /\ n \in Nat
  BY DEF Script
<1>2. PICK x, y : x[0] = u /\ y[0] = v /\ Walks(a, b, s, x, y)
  BY DEF Script
<1>3. /\ t \in Seq(EditKinds) /\ Len(t) = n + 1 /\ t[1] = e
      /\ \A k \in 1..n : t[k + 1] = s[k]
  BY <1>1
<1> HIDE DEF t, n
<1> DEFINE z == [k \in 0..n + 1 |-> IF k = 0 THEN i ELSE x[k - 1]]
           w == [k \in 0..n + 1 |-> IF k = 0 THEN j ELSE y[k - 1]]
<1>4. /\ z[0] = i /\ w[0] = j
      /\ \A k \in 1..n + 1 : z[k] = x[k - 1] /\ w[k] = y[k - 1]
  BY <1>1
<1> HIDE DEF z, w
<1>5. /\ \A k \in 0..n : x[k] \in 0..Len(a) /\ y[k] \in 0..Len(b)
      /\ x[n] = Len(a) /\ y[n] = Len(b)
      /\ \A k \in 1..n :
           /\ x[k] = x[k - 1] + (IF s[k] \in {"equal", "delete"} THEN 1 ELSE 0)
           /\ y[k] = y[k - 1] + (IF s[k] \in {"equal", "insert"} THEN 1 ELSE 0)
           /\ s[k] = "equal" => a[x[k]] = b[y[k]]
  BY <1>2 DEF Walks, n
<1>6. \A k \in 0..n + 1 : z[k] \in 0..Len(a) /\ w[k] \in 0..Len(b)
  <2> TAKE k \in 0..n + 1
  <2>1. CASE k = 0
    BY <1>4, <2>1
  <2>2. CASE k # 0
    <3>1. k \in 1..n + 1 /\ k - 1 \in 0..n
      BY <1>1, <2>2
    <3> QED BY <1>4, <1>5, <3>1
  <2> QED BY <2>1, <2>2
<1>7. z[n + 1] = Len(a) /\ w[n + 1] = Len(b)
  <2>1. n + 1 \in 1..n + 1 /\ (n + 1) - 1 = n
    BY <1>1
  <2> QED BY <1>4, <1>5, <2>1
<1>8. ASSUME NEW k \in 1..n + 1
      PROVE  /\ z[k] = z[k - 1] + (IF t[k] \in {"equal", "delete"} THEN 1 ELSE 0)
             /\ w[k] = w[k - 1] + (IF t[k] \in {"equal", "insert"} THEN 1 ELSE 0)
             /\ t[k] = "equal" => a[z[k]] = b[w[k]]
  <2>1. CASE k = 1
    <3>1. z[k] = u /\ w[k] = v /\ z[k - 1] = i /\ w[k - 1] = j /\ t[k] = e
      BY <1>1, <1>2, <1>3, <1>4, <2>1
    <3> QED BY <3>1
  <2>2. CASE k # 1
    <3>1. k - 1 \in 1..n /\ k \in 1..n + 1 /\ k - 1 \in 1..n + 1 /\ (k - 1) + 1 = k
      BY <1>1, <2>2
    <3>2. z[k] = x[k - 1] /\ w[k] = y[k - 1] /\ z[k - 1] = x[(k - 1) - 1] /\ w[k - 1] = y[(k - 1) - 1]
      BY <1>4, <3>1
    <3>3. t[k] = s[k - 1]
      BY <1>3, <3>1
    <3> QED BY <1>5, <3>1, <3>2, <3>3
  <2> QED BY <2>1, <2>2
<1>9. Walks(a, b, t, z, w)
  BY <1>3, <1>6, <1>7, <1>8 DEF Walks
<1> QED BY <1>3, <1>4, <1>9 DEF Script, t

\* Where both are at an end, nothing is left to do.
LEMMA ScriptDone ==
  ASSUME NEW a, NEW b, Len(a) \in Nat, Len(b) \in Nat
  PROVE  Script(a, b, <<>>, Len(a), Len(b))
<1> DEFINE s == <<>>
           x == [k \in 0..0 |-> Len(a)]
           y == [k \in 0..0 |-> Len(b)]
<1>1. s \in Seq(EditKinds) /\ Len(s) = 0
  OBVIOUS
<1>2. x[0] = Len(a) /\ y[0] = Len(b)
  OBVIOUS
<1> HIDE DEF s, x, y
<1>3. Walks(a, b, s, x, y)
  BY <1>1, <1>2 DEF Walks
<1> QED BY <1>1, <1>2, <1>3 DEF Script, s

\* Scripts from the next places on make one from here on.
LEMMA ScriptNext ==
  ASSUME NEW a, NEW b, NEW L, NEW h, Len(a) \in Nat, Len(b) \in Nat,
         NEW i \in 0..Len(a), NEW j \in 0..Len(b),
         i < Len(a) /\ j < Len(b) => Script(a, b, h[<<i + 1, j + 1>>], i + 1, j + 1),
         i < Len(a) => Script(a, b, h[<<i + 1, j>>], i + 1, j),
         j < Len(b) => Script(a, b, h[<<i, j + 1>>], i, j + 1)
  PROVE  Script(a, b, ScriptStep(a, b, L, h, <<i, j>>), i, j)
<1> DEFINE n == Len(a)
           m == Len(b)
           E1 == i < n /\ j < m /\ a[i + 1] = b[j + 1]
           D1 == i < n /\ (j = m \/ (a[i + 1] # b[j + 1] /\ L[<<i + 1, j>>] >= L[<<i, j + 1>>]))
           r == ScriptStep(a, b, L, h, <<i, j>>)
<1>1. r = CASE i = n /\ j = m -> <<>>
            [] E1 -> <<"equal">> \o h[<<i + 1, j + 1>>]
            [] D1 -> <<"delete">> \o h[<<i + 1, j>>]
            [] OTHER -> <<"insert">> \o h[<<i, j + 1>>]
  BY DEF ScriptStep
<1> HIDE DEF r
<1>2. CASE i = n /\ j = m
  <2>1. r = <<>>
    <3>1. ~E1 /\ ~D1
      BY <1>2
    <3> HIDE DEF E1, D1
    <3> QED BY <1>1, <1>2, <3>1
  <2> QED BY <1>2, <2>1, ScriptDone DEF r
<1>3. CASE E1
  <2>1. ~(i = n /\ j = m) /\ i < n /\ j < m /\ ~D1 /\ a[i + 1] = b[j + 1]
    BY <1>3
  <2>2. r = <<"equal">> \o h[<<i + 1, j + 1>>]
    <3> HIDE DEF E1, D1
    <3> QED BY <1>1, <1>3, <2>1
  <2> DEFINE s == h[<<i + 1, j + 1>>]
             e == "equal"
  <2>3. Script(a, b, s, i + 1, j + 1) /\ i + 1 \in 0..n /\ j + 1 \in 0..m /\ e \in EditKinds
        /\ i + 1 = i + (IF e \in {"equal", "delete"} THEN 1 ELSE 0)
        /\ j + 1 = j + (IF e \in {"equal", "insert"} THEN 1 ELSE 0)
    BY <2>1 DEF EditKinds
  <2>4. Script(a, b, <<e>> \o s, i, j)
    <3> HIDE DEF s, e
    <3> QED BY <2>1, <2>3, ScriptMore
  <2> QED BY <2>2, <2>4 DEF r
<1>4. CASE D1
  <2>1. ~(i = n /\ j = m) /\ i < n /\ ~E1
    BY <1>4
  <2>2. r = <<"delete">> \o h[<<i + 1, j>>]
    <3> HIDE DEF E1, D1
    <3> QED BY <1>1, <1>4, <2>1
  <2> DEFINE s == h[<<i + 1, j>>]
             e == "delete"
  <2>3. Script(a, b, s, i + 1, j) /\ i + 1 \in 0..n /\ e \in EditKinds /\ e # "equal"
        /\ i + 1 = i + (IF e \in {"equal", "delete"} THEN 1 ELSE 0)
        /\ j = j + (IF e \in {"equal", "insert"} THEN 1 ELSE 0)
    BY <2>1 DEF EditKinds
  <2>4. Script(a, b, <<e>> \o s, i, j)
    <3> HIDE DEF s, e
    <3> QED BY <2>3, ScriptMore
  <2> QED BY <2>2, <2>4 DEF r
<1>5. CASE ~(i = n /\ j = m) /\ ~E1 /\ ~D1
  <2>1. j < m
    BY <1>5
  <2>2. r = <<"insert">> \o h[<<i, j + 1>>]
    <3> HIDE DEF E1, D1
    <3> QED BY <1>1, <1>5
  <2> DEFINE s == h[<<i, j + 1>>]
             e == "insert"
  <2>3. Script(a, b, s, i, j + 1) /\ j + 1 \in 0..m /\ e \in EditKinds /\ e # "equal"
        /\ i = i + (IF e \in {"equal", "delete"} THEN 1 ELSE 0)
        /\ j + 1 = j + (IF e \in {"equal", "insert"} THEN 1 ELSE 0)
    BY <2>1 DEF EditKinds
  <2>4. Script(a, b, <<e>> \o s, i, j)
    <3> HIDE DEF s, e
    <3> QED BY <2>3, ScriptMore
  <2> QED BY <2>2, <2>4 DEF r
<1> QED BY <1>2, <1>3, <1>4, <1>5 DEF r

Grid(a, b) == (0..Len(a)) \X (0..Len(b))
WalkOf(q, h) == [p \in Grid(q.a, q.b) |-> ScriptStep(q.a, q.b, q.L, h, p)]
WalkStep(q, h, k) == WalkOf(q, h)
WalkInv(q, l, k, h) == TRUE
Sizes(q, n, m) == n = Len(q.a) /\ m = Len(q.b)
Iterates(q, h, K) == \A k \in 1..K : h[k] = WalkOf(q, h[k - 1])
Rested(h, n, m, k) == \A i \in 0..n, j \in 0..m : (n - i) + (m - j) < k => h[k + 1][<<i, j>>] = h[k][<<i, j>>]
WalkLeft == INSTANCE StepFolds WITH FoldStep <- WalkStep, FoldInv <- WalkInv

\* Induction, for this fold.
LEMMA WalkInducts == WalkLeft!Inducts
BY Inducting DEF WalkLeft!Inducts

\* Iterated, the recursion comes to rest: at a pair of places after as many
\* steps as lie before it.
LEMMA WalkRests ==
  ASSUME NEW q, NEW n \in Nat, NEW m \in Nat, Sizes(q, n, m), NEW h, NEW K \in Nat,
         Iterates(q, h, K)
  PROVE  \A k \in Nat : k + 1 <= K => Rested(h, n, m, k)
<1> DEFINE Rest(k) == \A i \in 0..n, j \in 0..m :
                        (n - i) + (m - j) < k => h[k + 1][<<i, j>>] = h[k][<<i, j>>]
           S == {k \in Nat : k + 1 <= K => Rest(k)}
<1>1. 0 \in S
  <2>1. \A i \in 0..n, j \in 0..m : ~((n - i) + (m - j) < 0)
    BY ONLY n \in Nat, m \in Nat
  <2> QED BY <2>1
<1>2. \A k \in 1..K : \A i \in 0..n, j \in 0..m :
        h[k][<<i, j>>] = ScriptStep(q.a, q.b, q.L, h[k - 1], <<i, j>>)
  BY ONLY ZenonT(30), n \in Nat, m \in Nat, K \in Nat, Sizes(q, n, m), Iterates(q, h, K)
     DEF WalkOf, Grid, Sizes, Iterates
<1>3. ASSUME NEW k \in Nat, k \in S, (k + 1) + 1 <= K PROVE Rest(k + 1)
  <2>0. k + 1 \in 1..K /\ (k + 1) + 1 \in 1..K /\ (k + 1) - 1 = k /\ ((k + 1) + 1) - 1 = k + 1 /\ k + 1 <= K
    BY ONLY k \in Nat, K \in Nat, (k + 1) + 1 <= K
  <2>1. Rest(k)
    <3> HIDE DEF Rest
    <3> QED BY ONLY <1>3, <2>0
  <2>2. ASSUME NEW i \in 0..n, NEW j \in 0..m, (n - i) + (m - j) < k + 1
        PROVE  h[(k + 1) + 1][<<i, j>>] = h[k + 1][<<i, j>>]
    <3> DEFINE g == h[k + 1]
               f == h[k]
    <3>1. /\ h[(k + 1) + 1][<<i, j>>] = ScriptStep(q.a, q.b, q.L, g, <<i, j>>)
          /\ h[k + 1][<<i, j>>] = ScriptStep(q.a, q.b, q.L, f, <<i, j>>)
      BY ONLY <1>2, <2>0, i \in 0..n, j \in 0..m
    <3>2. \A u \in 0..n, v \in 0..m : (n - u) + (m - v) < k => g[<<u, v>>] = f[<<u, v>>]
      BY <2>1
    <3>3. /\ i < n => i + 1 \in 0..n
          /\ j < m => j + 1 \in 0..m
          /\ i < n /\ j < m => (n - (i + 1)) + (m - (j + 1)) < k
          /\ i < n => (n - (i + 1)) + (m - j) < k
          /\ j < m => (n - i) + (m - (j + 1)) < k
      BY ONLY <2>2, n \in Nat, m \in Nat, k \in Nat, i \in 0..n, j \in 0..m
    <3> HIDE DEF g, f
    <3>4. /\ i < n /\ j < m => g[<<i + 1, j + 1>>] = f[<<i + 1, j + 1>>]
          /\ i < n => g[<<i + 1, j>>] = f[<<i + 1, j>>]
          /\ j < m => g[<<i, j + 1>>] = f[<<i, j + 1>>]
      BY ONLY <3>2, <3>3, i \in 0..n, j \in 0..m
    <3>5. ScriptStep(q.a, q.b, q.L, g, <<i, j>>) = ScriptStep(q.a, q.b, q.L, f, <<i, j>>)
      <4>1. Len(q.a) \in Nat /\ Len(q.b) \in Nat /\ i \in 0..Len(q.a) /\ j \in 0..Len(q.b)
        BY DEF Sizes
      <4>2. /\ i < Len(q.a) /\ j < Len(q.b) => g[<<i + 1, j + 1>>] = f[<<i + 1, j + 1>>]
            /\ i < Len(q.a) => g[<<i + 1, j>>] = f[<<i + 1, j>>]
            /\ j < Len(q.b) => g[<<i, j + 1>>] = f[<<i, j + 1>>]
        BY <3>4 DEF Sizes
      <4> DEFINE a == q.a
                 b == q.b
                 L == q.L
      <4> HIDE DEF a, b, L
      <4>3. ScriptStep(a, b, L, g, <<i, j>>) = ScriptStep(a, b, L, f, <<i, j>>)
        <5>1. Len(a) \in Nat /\ Len(b) \in Nat /\ i \in 0..Len(a) /\ j \in 0..Len(b)
          BY <4>1 DEF a, b
        <5>2. /\ i < Len(a) /\ j < Len(b) => g[<<i + 1, j + 1>>] = f[<<i + 1, j + 1>>]
              /\ i < Len(a) => g[<<i + 1, j>>] = f[<<i + 1, j>>]
              /\ j < Len(b) => g[<<i, j + 1>>] = f[<<i, j + 1>>]
          BY <4>2 DEF a, b
        <5> QED BY ONLY <5>1, <5>2, ScriptLocal
      <4> QED BY <4>3 DEF a, b, L
    <3> QED BY <3>1, <3>5
  <2> QED BY <2>2
<1>4. ASSUME NEW k \in Nat, k \in S PROVE k + 1 \in S
  <2> HIDE DEF Rest
  <2> QED BY <1>3, <1>4
<1>5. Nat \subseteq S
  <2> HIDE DEF S
  <2> QED BY <1>1, <1>4, Induction
<1>6. \A k \in Nat : k + 1 <= K => Rest(k)
  <2> HIDE DEF Rest
  <2> QED BY ONLY <1>5
<1> QED BY <1>6 DEF Rested

\* The walk over the grid is well-defined.
LEMMA WalkExists ==
  ASSUME NEW q, NEW n \in Nat, NEW m \in Nat, Sizes(q, n, m)
  PROVE  \E h : h = WalkOf(q, h)
<1>1. PICK K \in Nat : K = n + m + 1
  BY ONLY n \in Nat, m \in Nat
<1>2. /\ K + 1 \in Nat /\ K \in 1..K + 1 /\ K + 1 \in 1..K + 1 /\ (K + 1) - 1 = K /\ K + 1 <= K + 1
      /\ \A i \in 0..n, j \in 0..m : (n - i) + (m - j) < K
  BY ONLY <1>1, n \in Nat, m \in Nat
<1> DEFINE u == [i \in 1..K + 1 |-> i]
<1>3. DOMAIN u = 1..K + 1
  OBVIOUS
<1> HIDE DEF u
<1>4. PICK h : WalkLeft!Traces(h, q, {}, u, K + 1)
  BY <1>2, <1>3, WalkInducts, WalkLeft!FoldTrace
<1>5. \A k \in 1..K + 1 : h[k] = WalkOf(q, h[k - 1])
  BY <1>4 DEF WalkLeft!Traces, WalkStep
<1> DEFINE f == h[K]
           g == h[K + 1]
<1>6. \A i \in 0..n, j \in 0..m : g[<<i, j>>] = f[<<i, j>>]
  <2>1. PICK M \in Nat : M = K + 1
    BY <1>2
  <2>2. Iterates(q, h, M)
    BY <1>5, <2>1 DEF Iterates
  <2>3. \A k \in Nat : k + 1 <= M => Rested(h, n, m, k)
    BY ONLY <2>2, WalkRests, n \in Nat, m \in Nat, Sizes(q, n, m), M \in Nat
  <2>4. Rested(h, n, m, K)
    <3>1. K + 1 <= M
      BY ONLY <1>2, <2>1
    <3> QED BY ONLY <2>3, <3>1, K \in Nat
  <2> QED BY <1>2, <2>4 DEF Rested
<1>7. g = WalkOf(q, f) /\ f = WalkOf(q, h[K - 1])
  BY <1>2, <1>5
<1> HIDE DEF f, g
<1>8. g = [p \in Grid(q.a, q.b) |-> g[p]] /\ f = [p \in Grid(q.a, q.b) |-> f[p]]
  BY <1>7 DEF WalkOf
<1>9. \A p \in Grid(q.a, q.b) : g[p] = f[p]
  BY <1>6 DEF Grid, Sizes
<1>10. g = f
  BY <1>8, <1>9
<1> QED BY <1>7, <1>10

\* What the recursion has from a pair of places on is a script from there.
LEMMA WalkScripts ==
  ASSUME NEW q, NEW n \in Nat, NEW m \in Nat, Sizes(q, n, m), NEW h, h = WalkOf(q, h)
  PROVE  Script(q.a, q.b, h[<<0, 0>>], 0, 0)
<1> DEFINE a == q.a
           b == q.b
           L == q.L
           S == {k \in Nat : \A i \in 0..n, j \in 0..m :
                               (n - i) + (m - j) < k => Script(a, b, h[<<i, j>>], i, j)}
<1>1. \A i \in 0..n, j \in 0..m : h[<<i, j>>] = ScriptStep(a, b, L, h, <<i, j>>)
  BY DEF WalkOf, Grid, Sizes
<1>2. 0 \in S
  <2>1. \A i \in 0..n, j \in 0..m : ~((n - i) + (m - j) < 0)
    BY ONLY n \in Nat, m \in Nat
  <2> QED BY <2>1
<1>3. n = Len(a) /\ m = Len(b) /\ Len(a) \in Nat /\ Len(b) \in Nat
  BY DEF Sizes
<1> HIDE DEF a, b, L
<1>4. ASSUME NEW k \in Nat, k \in S, NEW i \in 0..n, NEW j \in 0..m, (n - i) + (m - j) < k + 1
      PROVE  Script(a, b, h[<<i, j>>], i, j)
  <2>1. \A u \in 0..n, v \in 0..m : (n - u) + (m - v) < k => Script(a, b, h[<<u, v>>], u, v)
    BY <1>4
  <2>2. /\ i < n => i + 1 \in 0..n
        /\ j < m => j + 1 \in 0..m
        /\ i < n /\ j < m => (n - (i + 1)) + (m - (j + 1)) < k
        /\ i < n => (n - (i + 1)) + (m - j) < k
        /\ j < m => (n - i) + (m - (j + 1)) < k
    BY ONLY <1>4, n \in Nat, m \in Nat, k \in Nat, i \in 0..n, j \in 0..m
  <2>3. /\ i < n /\ j < m => Script(a, b, h[<<i + 1, j + 1>>], i + 1, j + 1)
        /\ i < n => Script(a, b, h[<<i + 1, j>>], i + 1, j)
        /\ j < m => Script(a, b, h[<<i, j + 1>>], i, j + 1)
    BY ONLY <2>1, <2>2, i \in 0..n, j \in 0..m
  <2>4. Script(a, b, ScriptStep(a, b, L, h, <<i, j>>), i, j)
    <3>1. Len(a) \in Nat /\ Len(b) \in Nat /\ i \in 0..Len(a) /\ j \in 0..Len(b)
      BY <1>3
    <3>2. /\ i < Len(a) /\ j < Len(b) => Script(a, b, h[<<i + 1, j + 1>>], i + 1, j + 1)
          /\ i < Len(a) => Script(a, b, h[<<i + 1, j>>], i + 1, j)
          /\ j < Len(b) => Script(a, b, h[<<i, j + 1>>], i, j + 1)
      BY <1>3, <2>3
    <3> QED BY ONLY <3>1, <3>2, ScriptNext
  <2> QED BY <1>1, <2>4
<1>5. ASSUME NEW k \in Nat, k \in S PROVE k + 1 \in S
  <2>1. \A i \in 0..n, j \in 0..m : (n - i) + (m - j) < k + 1 => Script(a, b, h[<<i, j>>], i, j)
    BY ONLY <1>4, <1>5
  <2>2. k + 1 \in Nat
    BY ONLY <1>5
  <2> QED BY ONLY <2>1, <2>2
<1>6. Nat \subseteq S
  <2> HIDE DEF S
  <2> QED BY <1>2, <1>5, Induction
<1>7. PICK K \in Nat : K = n + m + 1
  BY ONLY n \in Nat, m \in Nat
<1>8. 0 \in 0..n /\ 0 \in 0..m /\ (n - 0) + (m - 0) < K
  BY ONLY <1>7, n \in Nat, m \in Nat
<1>9. K \in S
  BY <1>6
<1> QED BY <1>8, <1>9 DEF a, b

\* lcs_edits: whatever the table said, the script leads from all of the one
\* sequence to all of the other, and keeps only what is equal.
LEMMA LcsScript ==
  ASSUME NEW a, NEW b, Len(a) \in Nat, Len(b) \in Nat
  PROVE  Script(a, b, LcsEdits(a, b), 0, 0)
<1> DEFINE lcs == CHOOSE lcs : lcs = [p \in (0..Len(a)) \X (0..Len(b)) |->
                    IF p[1] = Len(a) \/ p[2] = Len(b) THEN 0
                    ELSE IF a[p[1] + 1] = b[p[2] + 1] THEN lcs[<<p[1] + 1, p[2] + 1>>] + 1
                    ELSE Max({lcs[<<p[1] + 1, p[2]>>], lcs[<<p[1], p[2] + 1>>]})]
           q == [a |-> a, b |-> b, L |-> lcs]
           walk == CHOOSE w : w = [p \in (0..Len(a)) \X (0..Len(b)) |->
                     LET i == p[1]
                         j == p[2]
                     IN  CASE i = Len(a) /\ j = Len(b) -> <<>>
                           [] i < Len(a) /\ j < Len(b) /\ a[i + 1] = b[j + 1] ->
                                <<"equal">> \o w[<<i + 1, j + 1>>]
                           [] i < Len(a) /\ (j = Len(b) \/ (a[i + 1] # b[j + 1]
                                /\ lcs[<<i + 1, j>>] >= lcs[<<i, j + 1>>])) ->
                                <<"delete">> \o w[<<i + 1, j>>]
                           [] OTHER -> <<"insert">> \o w[<<i, j + 1>>]]
<1>1. LcsEdits(a, b) = walk[<<0, 0>>]
  BY DEF LcsEdits
<1> HIDE DEF lcs
<1>2. q.a = a /\ q.b = b /\ q.L = lcs
  OBVIOUS
<1> HIDE DEF q
<1>3. walk = CHOOSE w : w = WalkOf(q, w)
  BY <1>2 DEF WalkOf, ScriptStep, Grid
<1> HIDE DEF walk
<1>4. PICK n \in Nat, m \in Nat : Sizes(q, n, m)
  BY <1>2 DEF Sizes
<1>5. \E h : h = WalkOf(q, h)
  BY <1>4, WalkExists
<1>6. walk = WalkOf(q, walk)
  BY <1>3, <1>5
<1>7. Script(q.a, q.b, walk[<<0, 0>>], 0, 0)
  BY <1>4, <1>6, WalkScripts
<1> QED BY <1>1, <1>2, <1>7

\* Hunks lie within their contents.
Hunk == [from : Nat, to : Nat, nfrom : Nat, nto : Nat]
Fits(h, c, d) == h.from <= h.to /\ h.to <= Len(c) /\ h.nfrom <= h.nto /\ h.nto <= Len(d)
Hunks(c, d) == {h \in Hunk : Fits(h, c, d)}

RangeStep(p, acc, e) ==
  LET o == acc.oi + (IF e \in {"equal", "delete"} THEN 1 ELSE 0)
      n == acc.ni + (IF e \in {"equal", "insert"} THEN 1 ELSE 0)
  IN  [oi |-> o, ni |-> n,
       open |-> CASE e = "equal" -> <<>>
                  [] e # "equal" /\ acc.open = <<>> -> <<acc.oi, acc.ni>>
                  [] OTHER -> acc.open,
       out |-> IF e = "equal" /\ acc.open # <<>>
               THEN Append(acc.out,
                      [from |-> Offset(p.old, acc.open[1]),
                       to |-> Offset(p.old, acc.oi),
                       nfrom |-> Offset(p.new, acc.open[2]),
                       nto |-> Offset(p.new, acc.ni)])
               ELSE acc.out]
\* How far the walk is, and the hunk it may be in.
OpenAt(open, i, j) == open = <<>> \/ \E u \in 0..i, v \in 0..j : open = <<u, v>>
Upto(acc, i, j) == acc.oi = i /\ acc.ni = j /\ i \in Nat /\ j \in Nat /\ OpenAt(acc.open, i, j)
RangeInv(q, l, k, acc) ==
  /\ acc.out \in Seq(Hunks(q.old, q.new))
  /\ k <= q.n => Upto(acc, q.x[k], q.y[k])
RangeLeft == INSTANCE StepFolds WITH FoldStep <- RangeStep, FoldInv <- RangeInv

\* Induction, for this fold.
LEMMA RangeInducts == RangeLeft!Inducts
BY Inducting DEF RangeLeft!Inducts

\* changed_ranges follows the script, and the hunk that is open.
LEMMA OpenNext ==
  ASSUME NEW acc, NEW i, NEW j, Upto(acc, i, j), NEW e \in EditKinds, NEW p
  PROVE  LET y == RangeStep(p, acc, e)
             u == i + (IF e \in {"equal", "delete"} THEN 1 ELSE 0)
             v == j + (IF e \in {"equal", "insert"} THEN 1 ELSE 0)
         IN  Upto(y, u, v)
<1> DEFINE y == RangeStep(p, acc, e)
           u == i + (IF e \in {"equal", "delete"} THEN 1 ELSE 0)
           v == j + (IF e \in {"equal", "insert"} THEN 1 ELSE 0)
<1>1. y.oi = u /\ y.ni = v
  BY DEF RangeStep, Upto
<1>2. y.open = IF e = "equal" THEN <<>> ELSE IF acc.open = <<>> THEN <<i, j>> ELSE acc.open
  <2>1. acc.oi = i /\ acc.ni = j
    BY DEF Upto
  <2>2. y.open = CASE e = "equal" -> <<>>
                   [] e # "equal" /\ acc.open = <<>> -> <<i, j>>
                   [] OTHER -> acc.open
    BY <2>1 DEF RangeStep
  <2> QED BY ONLY <2>2
<1> HIDE DEF y
<1>3. i \in Nat /\ j \in Nat /\ OpenAt(acc.open, i, j)
  BY DEF Upto
<1>4. u \in Nat /\ v \in Nat /\ i \in 0..u /\ j \in 0..v
      /\ (\A z \in 0..i : z \in 0..u) /\ \A z \in 0..j : z \in 0..v
  BY ONLY <1>3
<1> HIDE DEF u, v
<1>5. OpenAt(y.open, u, v)
  BY <1>2, <1>3, <1>4 DEF OpenAt
<1> QED BY <1>1, <1>4, <1>5 DEF Upto, u, v, y

\* The hunk it closes is within both texts.
LEMMA HunkNext ==
  ASSUME NEW c \in Content, NEW d \in Content, NEW i \in Nat, NEW j \in Nat, NEW u \in 0..i, NEW v \in 0..j
  PROVE  [from |-> Offset(c, u), to |-> Offset(c, i), nfrom |-> Offset(d, v), nto |-> Offset(d, j)]
           \in Hunks(c, d)
<1>1. u \in Nat /\ v \in Nat /\ u <= i /\ v <= j
  OBVIOUS
<1> DEFINE a == Offset(c, u)
           b == Offset(c, i)
           e == Offset(d, v)
           f == Offset(d, j)
<1>2. a \in Nat /\ b \in Nat /\ a <= b /\ b <= Len(c)
  BY <1>1, OffsetIs
<1>3. e \in Nat /\ f \in Nat /\ e <= f /\ f <= Len(d)
  BY <1>1, OffsetIs
<1> HIDE DEF a, b, e, f
<1>4. [from |-> a, to |-> b, nfrom |-> e, nto |-> f] \in Hunks(c, d)
  BY <1>2, <1>3 DEF Hunks, Hunk, Fits
<1> QED BY <1>4 DEF a, b, e, f

\* There are as many lines as offsets.
LEMMA LinesAre ==
  ASSUME NEW c \in Content
  PROVE  Len(Lines(c)) \in Nat /\ Len(Lines(c)) = Len(LineOffsets(c))
<1>1. Len(LineOffsets(c)) \in Nat
  BY OffsetsAre DEF Offsets
<1> QED BY <1>1 DEF Lines

\* changed_ranges, as a fold.
LEMMA RangesFold ==
  ASSUME NEW p
  PROVE  ChangedRanges(p.old, p.new) =
           RangeLeft!FoldedLeft(p, [oi |-> 0, ni |-> 0, open |-> <<>>, out |-> <<>>],
                    LcsEdits(Lines(p.old), Lines(p.new)) \o <<"equal">>).out
BY DEF ChangedRanges, RangeLeft!FoldedLeft, RangeStep, FoldLeft, MapThenFoldSet,
       Max

\* changed_ranges: hunks of the two contents.
LEMMA RangesType ==
  ASSUME NEW old \in Content, NEW new \in Content
  PROVE  ChangedRanges(old, new) \in Seq(Hunks(old, new))
<1> DEFINE a == Lines(old)
           b == Lines(new)
           s == LcsEdits(a, b)
           e == s \o <<"equal">>
           n == Len(s)
           start == [oi |-> 0, ni |-> 0, open |-> <<>>, out |-> <<>>]
           p == [old |-> old, new |-> new]
<1>1. Len(a) \in Nat /\ Len(b) \in Nat
  BY LinesAre
<1>2. Script(a, b, s, 0, 0)
  BY <1>1, LcsScript
<1>3. PICK x, y : x[0] = 0 /\ y[0] = 0 /\ Walks(a, b, s, x, y)
  BY <1>2 DEF Script
<1> DEFINE q == [old |-> old, new |-> new, n |-> n, x |-> x, y |-> y]
<1>4. ChangedRanges(old, new) = RangeLeft!FoldedLeft(p, start, e).out
  <2>1. p.old = old /\ p.new = new
    OBVIOUS
  <2> HIDE DEF p
  <2>2. ChangedRanges(p.old, p.new) =
           RangeLeft!FoldedLeft(p, [oi |-> 0, ni |-> 0, open |-> <<>>, out |-> <<>>],
                    LcsEdits(Lines(p.old), Lines(p.new)) \o <<"equal">>).out
    BY RangesFold
  <2> QED BY <2>1, <2>2
<1>5. s \in Seq(EditKinds) /\ n \in Nat
  BY <1>2 DEF Script
<1> HIDE DEF s
<1>6. /\ DOMAIN e = 1..n + 1 /\ Len(e) = n + 1 /\ e[n + 1] = "equal"
      /\ \A k \in 1..n : e[k] = s[k] /\ s[k] \in EditKinds
  BY <1>5
<1> HIDE DEF e
<1>7. /\ \A k \in 1..n :
           /\ x[k] = x[k - 1] + (IF e[k] \in {"equal", "delete"} THEN 1 ELSE 0)
           /\ y[k] = y[k - 1] + (IF e[k] \in {"equal", "insert"} THEN 1 ELSE 0)
  BY <1>3, <1>6 DEF Walks
<1>8. q.old = old /\ q.new = new /\ q.n = n /\ q.x = x /\ q.y = y /\ p.old = old /\ p.new = new
  OBVIOUS
<1> HIDE DEF q, p, n
<1>9. RangeInv(q, e, 0, start)
  <2>1. start.out \in Seq(Hunks(old, new)) /\ Upto(start, 0, 0)
    BY DEF Upto, OpenAt
  <2> QED BY <1>3, <1>8, <2>1 DEF RangeInv
<1>10. ASSUME NEW k \in 1..n + 1, NEW acc, RangeInv(q, e, k - 1, acc)
       PROVE  RangeInv(q, e, k, RangeStep(p, acc, e[k]))
  <2> DEFINE z == RangeStep(p, acc, e[k])
             i == x[k - 1]
             j == y[k - 1]
  <2>1. acc.out \in Seq(Hunks(old, new))
    BY <1>8, <1>10 DEF RangeInv
  <2>2. Upto(acc, i, j)
    <3>1. k - 1 <= n
      BY <1>5
    <3> QED BY <1>8, <1>10, <3>1 DEF RangeInv
  <2> HIDE DEF i, j
  <2>3. z.out \in Seq(Hunks(old, new))
    <3>1. CASE ~(e[k] = "equal" /\ acc.open # <<>>)
      <4>1. z.out = acc.out
        BY <3>1 DEF RangeStep
      <4> QED BY <2>1, <4>1
    <3>2. CASE e[k] = "equal" /\ acc.open # <<>>
      <4>1. PICK u \in 0..i, v \in 0..j : acc.open = <<u, v>>
        BY <2>2, <3>2 DEF Upto, OpenAt
      <4>2. acc.open[1] = u /\ acc.open[2] = v /\ acc.oi = i /\ acc.ni = j /\ i \in Nat /\ j \in Nat
        BY <2>2, <4>1 DEF Upto
      <4> DEFINE h == [from |-> Offset(old, u), to |-> Offset(old, i), nfrom |-> Offset(new, v), nto |-> Offset(new, j)]
      <4>3. h \in Hunks(old, new)
        BY <4>2, HunkNext
      <4>4. z.out = Append(acc.out, h)
        BY <1>8, <3>2, <4>2 DEF RangeStep
      <4> HIDE DEF h, z
      <4> QED BY <2>1, <4>3, <4>4
    <3> QED BY <3>1, <3>2
  <2>4. k <= n => Upto(z, x[k], y[k])
    <3> SUFFICES ASSUME k <= n PROVE Upto(z, x[k], y[k])
      OBVIOUS
    <3>1. k \in 1..n
      BY <1>5
    <3>2. e[k] \in EditKinds
      BY <1>6, <3>1
    <3> HIDE DEF z
    <3>3. /\ x[k] = i + (IF e[k] \in {"equal", "delete"} THEN 1 ELSE 0)
          /\ y[k] = j + (IF e[k] \in {"equal", "insert"} THEN 1 ELSE 0)
      BY <1>7, <3>1 DEF i, j
    <3> DEFINE f == e[k]
    <3> HIDE DEF f
    <3>4. Upto(RangeStep(p, acc, f), i + (IF f \in {"equal", "delete"} THEN 1 ELSE 0),
               j + (IF f \in {"equal", "insert"} THEN 1 ELSE 0))
      <4>1. f \in EditKinds
        BY <3>2 DEF f
      <4> QED BY <2>2, <4>1, OpenNext
    <3> QED BY <3>3, <3>4 DEF f, z
  <2> QED BY <1>8, <2>3, <2>4 DEF RangeInv
<1> HIDE DEF start
<1>11. n + 1 \in Nat
  BY <1>5 DEF n
<1>12. RangeInv(q, e, n + 1, RangeLeft!FoldedLeft(p, start, e))
  BY <1>6, <1>9, <1>10, <1>11, RangeInducts, RangeLeft!FoldHolds DEF n
<1> QED BY <1>4, <1>8, <1>12 DEF RangeInv

\* The least of two lengths.
LEMMA Least2 ==
  ASSUME NEW i \in Nat, NEW j \in Nat
  PROVE  Min({i, j}) \in Nat /\ Min({i, j}) <= i /\ Min({i, j}) <= j
<1>1. {i, j} \subseteq Nat /\ {i, j} # {}
  OBVIOUS
<1>2. Min({i, j}) \in {i, j} /\ \A y \in {i, j} : Min({i, j}) <= y
  BY <1>1, MinIn
<1> QED BY <1>2

\* What two contents share at their ends (trim, synthesize_edit).
LEMMA CommonIs ==
  ASSUME NEW a \in Content, NEW b \in Content
  PROVE  LET head == CommonHead(a, b)
             tail == CommonTail(a, b, head)
         IN  /\ head \in Nat /\ tail \in Nat
             /\ head + tail <= Len(a) /\ head + tail <= Len(b)
             /\ Slice(a, 0, head) = Slice(b, 0, head)
             /\ Slice(a, Len(a) - tail, Len(a)) = Slice(b, Len(b) - tail, Len(b))
<1> DEFINE n == Min({Len(a), Len(b)})
           H == {k \in 0..n : Slice(a, 0, k) = Slice(b, 0, k)}
           head == CommonHead(a, b)
           T == {k \in 0..n - head : Slice(a, Len(a) - k, Len(a)) = Slice(b, Len(b) - k, Len(b))}
           tail == CommonTail(a, b, head)
<1>1. Len(a) \in Nat /\ Len(b) \in Nat
  BY DEF Content
<1>2. n \in Nat /\ n <= Len(a) /\ n <= Len(b)
  BY <1>1, Least2
<1>3. head = Max(H)
  BY DEF CommonHead
<1>4. tail = Max(T)
  BY DEF CommonTail
<1> HIDE DEF n, tail, head
<1>5. 0 \in H
  <2>1. Slice(a, 0, 0) = <<>> /\ Slice(b, 0, 0) = <<>>
    BY DEF Slice, Content
  <2> QED BY <1>2, <2>1
<1>6. H \subseteq Nat /\ H # {} /\ \A k \in H : k <= n
  BY <1>2, <1>5
<1>7. head \in H
  <2> HIDE DEF H
  <2> QED BY <1>2, <1>3, <1>6, MaxIn
<1>8. head \in 0..n /\ Slice(a, 0, head) = Slice(b, 0, head)
  BY <1>7
<1>9. 0 \in T
  <2>1. Slice(a, Len(a) - 0, Len(a)) = <<>> /\ Slice(b, Len(b) - 0, Len(b)) = <<>>
    BY <1>1 DEF Slice, Content
  <2>2. 0 \in 0..n - head
    BY <1>2, <1>8
  <2> QED BY <2>1, <2>2
<1>10. T \subseteq Nat /\ T # {} /\ \A k \in T : k <= n
  <2>1. \A k \in 0..n - head : k \in Nat /\ k <= n
    BY <1>2, <1>8
  <2> QED BY <1>9, <2>1
<1>11. tail \in T
  <2> HIDE DEF T
  <2> QED BY <1>2, <1>4, <1>10, MaxIn
<1>12. tail \in 0..n - head /\ Slice(a, Len(a) - tail, Len(a)) = Slice(b, Len(b) - tail, Len(b))
  BY <1>11
<1>13. head + tail <= Len(a) /\ head + tail <= Len(b) /\ head \in Nat /\ tail \in Nat
  BY ONLY <1>1, <1>2, <1>8, <1>12
<1> QED BY <1>8, <1>12, <1>13 DEF head, tail

\* trim: a hunk within the hunk.
LEMMA TrimType ==
  ASSUME NEW c \in Content, NEW d \in Content, NEW h \in Hunks(c, d)
  PROVE  Trim(c, d, h) \in Hunks(c, d)
<1> DEFINE a == Slice(c, h.from, h.to)
           b == Slice(d, h.nfrom, h.nto)
           head == CommonHead(a, b)
           tail == CommonTail(a, b, head)
<1>1. /\ h.from \in Nat /\ h.to \in Nat /\ h.nfrom \in Nat /\ h.nto \in Nat
      /\ h.from <= h.to /\ h.to <= Len(c) /\ h.nfrom <= h.nto /\ h.nto <= Len(d)
  BY DEF Hunks, Hunk, Fits
<1>2. a \in Content /\ Len(a) = h.to - h.from /\ b \in Content /\ Len(b) = h.nto - h.nfrom
  BY <1>1, SliceIs
<1> DEFINE t == Trim(c, d, h)
<1>3. t = [from |-> h.from + head, to |-> h.to - tail,
           nfrom |-> h.nfrom + head, nto |-> h.nto - tail]
  BY DEF Trim
<1> HIDE DEF a, b, t
<1>4. head \in Nat /\ tail \in Nat /\ head + tail <= Len(a) /\ head + tail <= Len(b)
  BY <1>2, CommonIs
<1> HIDE DEF head, tail
<1>5. PICK f \in Nat, g \in Nat, u \in Nat, v \in Nat :
        f = h.from /\ g = h.to /\ u = h.nfrom /\ v = h.nto
  BY <1>1
<1>6. /\ f + head \in Nat /\ g - tail \in Nat /\ u + head \in Nat /\ v - tail \in Nat
      /\ f + head <= g - tail /\ g - tail <= g /\ u + head <= v - tail /\ v - tail <= v
  <2>1. head + tail <= g - f /\ head + tail <= v - u
    BY <1>2, <1>4, <1>5
  <2> QED BY ONLY <2>1, <1>4, f \in Nat, g \in Nat, u \in Nat, v \in Nat
<1> DEFINE w == f + head
           x == g - tail
           y == u + head
           z == v - tail
<1>7. t = [from |-> w, to |-> x, nfrom |-> y, nto |-> z]
  BY <1>3, <1>5
<1>8. /\ w \in Nat /\ x \in Nat /\ y \in Nat /\ z \in Nat
      /\ w <= x /\ x <= Len(c) /\ y <= z /\ z <= Len(d)
  <2>1. Len(c) \in Nat /\ Len(d) \in Nat /\ g <= Len(c) /\ v <= Len(d)
    BY <1>1, <1>5 DEF Content
  <2> QED BY <1>6, <2>1
<1> HIDE DEF w, x, y, z
<1>9. t \in Hunks(c, d)
  BY <1>7, <1>8 DEF Hunks, Hunk, Fits
<1> QED BY <1>9 DEF t

-----------------------------------------------------------------------------
(* Alignment.                                                              *)

Range0(c) == {r \in [from : Nat, to : Nat] : r.from <= r.to /\ r.to <= Len(c)}
Owning(t, c, d) == {w \in [run : t.runs, hunk : Hunks(c, d)] : w.run.start <= w.hunk.to}
Widening(D, t, c, d) == [pre : [D -> Range0(c)], suf : [D -> Range0(c)], owned : Seq(Owning(t, c, d))]
RunIn(r, c, D) == r \in Run /\ r.start <= r.end /\ r.end <= Len(c) /\ SeatOf(r) \in D

\* One more owned hunk.
LEMMA OwnsMore ==
  ASSUME NEW D, NEW t, NEW c, NEW d, NEW acc \in Widening(D, t, c, d),
         NEW r \in t.runs, NEW h \in Hunks(c, d), r.start <= h.to
  PROVE  [acc EXCEPT !.owned = Append(@, [run |-> r, hunk |-> h])] \in Widening(D, t, c, d)
<1> DEFINE w == [run |-> r, hunk |-> h]
<1>1. w \in Owning(t, c, d)
  BY DEF Owning
<1> HIDE DEF w
<1>2. acc.owned \in Seq(Owning(t, c, d))
  BY DEF Widening
<1>3. Append(acc.owned, w) \in Seq(Owning(t, c, d))
  BY <1>1, <1>2
<1>4. [acc EXCEPT !.owned = Append(@, w)] \in Widening(D, t, c, d)
  BY <1>3 DEF Widening
<1> QED BY <1>4 DEF w

\* A text widened on one side.
LEMMA WidensMore ==
  ASSUME NEW D, NEW t, NEW c, NEW d, NEW acc \in Widening(D, t, c, d), NEW s \in D,
         NEW v, NEW b \in BOOLEAN, b => v \in Range0(c)
  PROVE  /\ [acc EXCEPT !.pre[s] = IF b THEN v ELSE @] \in Widening(D, t, c, d)
         /\ [acc EXCEPT !.suf[s] = IF b THEN v ELSE @] \in Widening(D, t, c, d)
<1>1. acc.pre \in [D -> Range0(c)] /\ acc.suf \in [D -> Range0(c)]
  BY DEF Widening
<1>2. [acc.pre EXCEPT ![s] = IF b THEN v ELSE @] \in [D -> Range0(c)]
  BY <1>1
<1>3. [acc.suf EXCEPT ![s] = IF b THEN v ELSE @] \in [D -> Range0(c)]
  BY <1>1
<1> QED BY <1>2, <1>3 DEF Widening

\* align, one hunk: the widenings and the owned hunks lie within.
LEMMA OwnType ==
  ASSUME NEW D, NEW t, NEW c, NEW d, NEW news, NEW acc \in Widening(D, t, c, d),
         NEW hunk \in Hunks(c, d), NEW o \in Hunks(c, d), \A r \in t.runs : RunIn(r, c, D)
  PROVE  Own(t, news, acc, hunk, o) \in Widening(D, t, c, d)
<1> DEFINE owns(r, h) == [acc EXCEPT !.owned = Append(@, [run |-> r, hunk |-> h])]
           W == Widening(D, t, c, d)
           overlapping == {r \in t.runs : r.start < o.to /\ o.from < r.end}
           held == CHOOSE r \in overlapping : TRUE
           seat == <<held.call, held.op>>
           before == o.from < held.start
           after == o.to > held.end
           mayWidenBefore ==
             /\ held.at = 0
             /\ acc.pre[seat] = NoRange
             /\ Unowned(t, o.from, held.start)
             /\ ~Scarred(t, o.from + 1, held.start)
           mayWidenAfter ==
             /\ held.at + (held.end - held.start) = Len(news[seat])
             /\ acc.suf[seat] = NoRange
             /\ Unowned(t, held.end, o.to)
             /\ ~Scarred(t, held.end, o.to - 1)
           widened ==
             [acc EXCEPT !.pre[seat] = IF before
                                       THEN [from |-> o.from, to |-> held.start] ELSE @]
           E1 == Containing(t, hunk) # {}
           D1 == Containing(t, hunk) = {} /\ Containing(t, o) # {}
           F1 == o.from = o.to \/ Cardinality(overlapping) # 1 \/ (before /\ ~mayWidenBefore)
           r1 == CHOOSE r \in Containing(t, hunk) : TRUE
           r2 == CHOOSE r \in Containing(t, o) : TRUE
           last == [widened EXCEPT
                      !.owned = Append(@, [run |-> held, hunk |-> o]),
                      !.suf[seat] = IF after THEN [from |-> held.end, to |-> o.to] ELSE @]
           y == Own(t, news, acc, hunk, o)
<1>1. y = CASE E1 -> owns(r1, hunk)
            [] D1 -> owns(r2, o)
            [] OTHER -> IF F1 THEN acc ELSE IF after /\ ~mayWidenAfter THEN widened ELSE last
  BY DEF Own
<1> HIDE DEF y, W
<1>2. \A h \in Hunks(c, d) : \A r \in Containing(t, h) : r \in t.runs /\ r.start <= h.to
  <2> SUFFICES ASSUME NEW h \in Hunks(c, d), NEW r \in Containing(t, h)
               PROVE  r \in t.runs /\ r.start <= h.to
    OBVIOUS
  <2>1. h.from \in Nat /\ h.to \in Nat /\ h.from <= h.to
    BY DEF Hunks, Hunk, Fits
  <2>2. r \in t.runs /\ (r.start < h.from \/ r.start <= h.from)
    BY DEF Containing
  <2>3. r.start \in Nat
    BY <2>2 DEF RunIn, Run
  <2> QED BY <2>1, <2>2, <2>3
<1>3. CASE E1
  <2>0. ~D1
    BY <1>3
  <2>1. y = owns(r1, hunk)
    <3> HIDE DEF E1, D1, F1, owns, r1, r2, last, widened, mayWidenAfter, after
    <3> QED BY <1>1, <1>3, <2>0
  <2>2. r1 \in t.runs /\ r1.start <= hunk.to
    BY <1>2, <1>3
  <2> HIDE DEF r1
  <2>3. owns(r1, hunk) \in W
    BY <2>2, OwnsMore DEF W
  <2> QED BY <2>1, <2>3 DEF y, W
<1>4. CASE D1
  <2>0. ~E1
    BY <1>4
  <2>1. y = owns(r2, o)
    <3> HIDE DEF E1, D1, F1, owns, r1, r2, last, widened, mayWidenAfter, after
    <3> QED BY <1>1, <1>4, <2>0
  <2>2. r2 \in t.runs /\ r2.start <= o.to
    BY <1>2, <1>4
  <2> HIDE DEF r2
  <2>3. owns(r2, o) \in W
    BY <2>2, OwnsMore DEF W
  <2> QED BY <2>1, <2>3 DEF y, W
<1>5. CASE ~E1 /\ ~D1
  <2>1. y = IF F1 THEN acc ELSE IF after /\ ~mayWidenAfter THEN widened ELSE last
    <3> HIDE DEF E1, D1, F1, owns, r1, r2, last, widened, mayWidenAfter, after
    <3> QED BY <1>1, <1>5
  <2>2. CASE F1
    <3>1. y = acc
      <4> HIDE DEF F1, last, widened, mayWidenAfter, after
      <4> QED BY <2>1, <2>2
    <3> QED BY <3>1 DEF y
  <2>3. CASE ~F1
    <3>1. overlapping # {}
      <4>1. SUFFICES ASSUME overlapping = {} PROVE FALSE
        OBVIOUS
      <4>2. Cardinality(overlapping) = 0
        BY <4>1, FS_EmptySet
      <4> QED BY <2>3, <4>2
    <3>2. held \in overlapping
      BY <3>1
    <3>3. held \in t.runs /\ held.start < o.to /\ o.from < held.end /\ RunIn(held, c, D)
      BY <3>2
    <3>4. /\ o.from \in Nat /\ o.to \in Nat /\ o.from <= o.to /\ o.to <= Len(c)
          /\ held.start \in Nat /\ held.end \in Nat /\ held.start <= held.end /\ held.end <= Len(c) /\ seat \in D
      BY <3>3 DEF Hunks, Hunk, Fits, RunIn, Run, SeatOf
    <3> DEFINE v == [from |-> o.from, to |-> held.start]
               w == [from |-> held.end, to |-> o.to]
    <3>5. before \in BOOLEAN /\ (before => v \in Range0(c))
      <4>1. before => held.start <= Len(c) /\ o.from <= held.start
        <5> DEFINE l == Len(c)
        <5>1. c = c /\ held.start <= held.end /\ held.end <= l
          BY <3>4
        <5>2. l \in Int \/ l \notin Int
          OBVIOUS
        <5> QED BY <3>4
      <4> QED BY <3>4, <4>1 DEF Range0
    <3>6. after \in BOOLEAN /\ (after => w \in Range0(c))
      BY <3>4 DEF Range0
    <3>7. held.start <= o.to
      BY <3>3, <3>4
    <3>8. last = [[widened EXCEPT !.owned = Append(@, [run |-> held, hunk |-> o])] EXCEPT
                     !.suf[seat] = IF after THEN w ELSE @]
      <4> HIDE DEF widened, after, held, seat
      <4> QED OBVIOUS
    <3> HIDE DEF held, seat, before, after, v, w, last
    <3>9. widened \in W
      BY <3>4, <3>5, WidensMore DEF W, v
    <3> HIDE DEF widened
    <3> DEFINE z == [widened EXCEPT !.owned = Append(@, [run |-> held, hunk |-> o])]
    <3>10. z \in W
      BY <3>3, <3>7, <3>9, OwnsMore DEF W
    <3>11. last = [z EXCEPT !.suf[seat] = IF after THEN w ELSE @]
      BY <3>8
    <3> HIDE DEF z
    <3>12. last \in W
      BY <3>4, <3>6, <3>10, <3>11, WidensMore DEF W
    <3>13. y = widened \/ y = last
      <4> HIDE DEF F1, mayWidenAfter
      <4> QED BY <2>1, <2>3
    <3> QED BY <3>9, <3>12, <3>13 DEF y, W
  <2> QED BY <2>2, <2>3
<1> QED BY <1>3, <1>4, <1>5

OwnStep(p, acc, h) == Own(p.t, p.news, acc, h, Trim(p.old, p.new, h))
OwnInv(q, l, k, acc) == acc \in Widening(q.D, q.t, q.old, q.new)
OwnLeft == INSTANCE StepFolds WITH FoldStep <- OwnStep, FoldInv <- OwnInv

\* Induction, for this fold.
LEMMA OwnInducts == OwnLeft!Inducts
BY Inducting DEF OwnLeft!Inducts

\* align: who owns the hunks, as a fold.
LEMMA OwnedFold ==
  ASSUME NEW p
  PROVE  Owned(p.t, p.old, p.new, p.news) =
           OwnLeft!FoldedLeft(p, [pre |-> [s \in DOMAIN p.news |-> NoRange],
                        suf |-> [s \in DOMAIN p.news |-> NoRange], owned |-> <<>>],
                    ChangedRanges(p.old, p.new))
BY DEF Owned, OwnLeft!FoldedLeft, OwnStep, FoldLeft, MapThenFoldSet, Max

\* The hunks that are owned lie within the texts.
LEMMA OwnedType ==
  ASSUME NEW t, NEW old \in Content, NEW new \in Content, NEW news,
         \A r \in t.runs : RunIn(r, old, DOMAIN news)
  PROVE  Owned(t, old, new, news) \in Widening(DOMAIN news, t, old, new)
<1> DEFINE D == DOMAIN news
           b == [pre |-> [s \in D |-> NoRange], suf |-> [s \in D |-> NoRange], owned |-> <<>>]
           l == ChangedRanges(old, new)
           p == [t |-> t, old |-> old, new |-> new, news |-> news, D |-> D]
<1>1. l \in Seq(Hunks(old, new))
  BY RangesType
<1>2. p.t = t /\ p.old = old /\ p.new = new /\ p.news = news /\ p.D = D
  OBVIOUS
<1> HIDE DEF l, p
<1>3. Owned(t, old, new, news) = OwnLeft!FoldedLeft(p, b, l)
  <2>1. Owned(p.t, p.old, p.new, p.news) =
           OwnLeft!FoldedLeft(p, [pre |-> [s \in DOMAIN p.news |-> NoRange],
                        suf |-> [s \in DOMAIN p.news |-> NoRange], owned |-> <<>>],
                    ChangedRanges(p.old, p.new))
    BY OwnedFold
  <2> QED BY <1>2, <2>1 DEF l
<1>4. OwnInv(p, l, 0, b)
  <2>1. NoRange \in Range0(old)
    BY DEF NoRange, Range0, Content
  <2>2. b \in Widening(D, t, old, new)
    BY <2>1 DEF Widening
  <2> HIDE DEF D, b
  <2> QED BY <1>2, <2>2 DEF OwnInv
<1>5. \A k \in 1..Len(l) : l[k] \in Hunks(old, new)
  BY <1>1
<1>6. DOMAIN l = 1..Len(l) /\ Len(l) \in Nat
  BY <1>1
<1> HIDE DEF D, b
<1>7. ASSUME NEW k \in 1..Len(l), NEW acc, OwnInv(p, l, k - 1, acc)
      PROVE  OwnInv(p, l, k, OwnStep(p, acc, l[k]))
  <2> DEFINE h == l[k]
             o == Trim(old, new, h)
  <2>1. h \in Hunks(old, new)
    BY <1>5
  <2>2. o \in Hunks(old, new)
    BY <2>1, TrimType
  <2>3. acc \in Widening(D, t, old, new)
    BY <1>2, <1>7 DEF OwnInv
  <2>4. OwnStep(p, acc, h) = Own(t, news, acc, h, o)
    BY <1>2 DEF OwnStep
  <2> HIDE DEF h, o
  <2>5. Own(t, news, acc, h, o) \in Widening(D, t, old, new)
    BY <2>1, <2>2, <2>3, OwnType DEF D
  <2> QED BY <1>2, <2>4, <2>5 DEF OwnInv, h
<1>8. OwnInv(p, l, Len(l), OwnLeft!FoldedLeft(p, b, l))
  BY <1>4, <1>6, <1>7, OwnInducts, OwnLeft!FoldHolds
<1> QED BY <1>2, <1>3, <1>8 DEF OwnInv, D

\* A hunk moved to where its bytes sit in an operation's new text.
Shifted(d) == {h \in [from : Int, to : Nat, nfrom : Nat, nto : Nat] :
                 h.from <= h.to /\ h.nfrom <= h.nto /\ h.nto <= Len(d)}
SpliceStep(d, c, h) == Splice(c, h.from, h.to, Slice(d, h.nfrom, h.nto))
SpliceInv(q, l, k, c) == c \in Content /\ (k > 0 => l[k].to <= Len(c))
SpliceLeft == INSTANCE StepFolds WITH FoldStep <- SpliceStep, FoldInv <- SpliceInv

\* Induction, for this fold.
LEMMA SpliceInducts == SpliceLeft!Inducts
BY Inducting DEF SpliceLeft!Inducts

\* The hunks spliced in from the last to the first, as a fold.
LEMMA SplicedFold ==
  ASSUME NEW c, NEW d, NEW hunks
  PROVE  Spliced(c, d, hunks) = SpliceLeft!FoldedRight(d, c, hunks)
BY DEF Spliced, SpliceLeft!FoldedRight, SpliceStep, FoldRight, MapThenFoldSet,
       Min

\* A splice that may begin before the text, which align does not exclude.
LEMMA SpliceLoose ==
  ASSUME NEW c \in Content, NEW e \in Content, NEW i \in Int, NEW j \in Nat, i <= Len(c)
  PROVE  Splice(c, i, j, e) \in Content /\ (i >= 0 => i <= Len(Splice(c, i, j, e)))
<1> DEFINE a == Slice(c, 0, i)
           b == Slice(c, j, Len(c))
<1>1. Len(c) \in Nat
  BY DEF Content
<1>2. a \in Content /\ Len(a) = IF 0 <= i THEN i - 0 ELSE 0
  BY SliceType
<1>3. b \in Content
  BY <1>1, SliceType
<1>4. Splice(c, i, j, e) = a \o e \o b
  BY DEF Splice
<1> HIDE DEF a, b
<1>5. a \o e \o b \in Content /\ Len(a \o e \o b) >= Len(a)
  <2>1. a \in Seq(Bytes) /\ e \in Seq(Bytes) /\ b \in Seq(Bytes)
    BY <1>2, <1>3 DEF Content
  <2>2. a \o e \in Seq(Bytes) /\ Len(a \o e) = Len(a) + Len(e)
    BY <2>1
  <2> DEFINE u == a \o e
  <2> HIDE DEF u
  <2>3. u \o b \in Seq(Bytes) /\ Len(u \o b) = Len(u) + Len(b)
    BY <2>1, <2>2 DEF u
  <2>4. Len(u) >= Len(a) /\ Len(a) \in Nat /\ Len(b) \in Nat /\ Len(u) \in Nat
    BY <2>1, <2>2 DEF u
  <2> QED BY <2>3, <2>4 DEF Content, u
<1> QED BY <1>1, <1>2, <1>4, <1>5

Fitting(hunks, text) ==
  /\ \A k \in 2..Len(hunks) : hunks[k - 1].to <= hunks[k].from
  /\ \A k \in 1..Len(hunks) : hunks[k].to <= Len(text)

\* Splicing hunks in order that do not overrun.
LEMMA SplicedType ==
  ASSUME NEW text \in Content, NEW d \in Content, NEW hunks \in Seq(Shifted(d)), Fitting(hunks, text)
  PROVE  Spliced(text, d, hunks) \in Content
<1> DEFINE n == Len(hunks)
<1>1. n \in Nat /\ DOMAIN hunks = 1..n /\ \A k \in 1..n : hunks[k] \in Shifted(d)
  OBVIOUS
<1>2. /\ \A k \in 2..n : hunks[k - 1].to <= hunks[k].from
      /\ \A k \in 1..n : hunks[k].to <= Len(text)
  BY DEF Fitting
<1> HIDE DEF n
<1>3. SpliceInv(d, hunks, n, text)
  <2>1. n > 0 => n \in 1..n
    BY <1>1
  <2> QED BY <1>2, <2>1 DEF SpliceInv
<1>4. ASSUME NEW k \in 1..n, NEW c, SpliceInv(d, hunks, k, c)
      PROVE  SpliceInv(d, hunks, k - 1, SpliceStep(d, c, hunks[k]))
  <2> DEFINE h == hunks[k]
             y == SpliceStep(d, c, h)
             e == Slice(d, h.nfrom, h.nto)
  <2>1. /\ h.from \in Int /\ h.to \in Nat /\ h.nfrom \in Nat /\ h.nto \in Nat
        /\ h.from <= h.to /\ h.nfrom <= h.nto /\ h.nto <= Len(d)
    BY <1>1 DEF Shifted
  <2>2. c \in Content /\ h.to <= Len(c)
    <3>1. k > 0
      BY <1>1
    <3> QED BY <1>4, <3>1 DEF SpliceInv
  <2>3. e \in Content
    BY <2>1, SliceIs
  <2>4. y = Splice(c, h.from, h.to, e)
    BY DEF SpliceStep
  <2>5. Len(c) \in Nat
    BY <2>2 DEF Content
  <2> HIDE DEF h, e, y
  <2>6. PICK i \in Int, j \in Nat : i = h.from /\ j = h.to
    BY <2>1
  <2>7. i <= Len(c)
    BY <2>1, <2>2, <2>5, <2>6
  <2>8. y \in Content /\ (i >= 0 => i <= Len(y))
    BY <2>2, <2>3, <2>4, <2>6, <2>7, SpliceLoose
  <2>9. k - 1 > 0 => hunks[k - 1].to <= Len(y)
    <3> SUFFICES ASSUME k - 1 > 0 PROVE hunks[k - 1].to <= Len(y)
      OBVIOUS
    <3>1. k \in 2..n /\ k - 1 \in 1..n
      BY <1>1
    <3>2. hunks[k - 1].to <= i /\ hunks[k - 1].to \in Nat
      <4>1. hunks[k - 1].to <= hunks[k].from
        BY <1>2, <3>1
      <4>2. hunks[k - 1] \in Shifted(d)
        BY <1>1, <3>1
      <4>3. hunks[k - 1].to \in Nat
        BY <4>2 DEF Shifted
      <4> QED BY <2>6, <4>1, <4>3 DEF h
    <3> DEFINE u == hunks[k - 1].to
    <3>3. u <= i /\ u \in Nat
      BY <3>2
    <3> HIDE DEF u
    <3>4. Len(y) \in Nat
      BY <2>8 DEF Content
    <3>5. u <= Len(y)
      BY <2>8, <3>3, <3>4
    <3> QED BY <3>5 DEF u
  <2> QED BY <2>8, <2>9 DEF SpliceInv, y, h
<1>5. SpliceInv(d, hunks, 0, SpliceLeft!FoldedRight(d, text, hunks))
  BY <1>1, <1>3, <1>4, SpliceInducts, SpliceLeft!FoldRightHolds
<1> QED BY <1>5, SplicedFold DEF SpliceInv

\* Placing one more hunk among those of the operation.
PrefixOf(p) == Slice(p.old, p.own.pre[p.seat].from, p.own.pre[p.seat].to)
SortStep(p, acc, w) ==
  LET lead == Lead(PrefixOf(p), w.run)
      h == [w.hunk EXCEPT !.from = @ + lead, !.to = @ + lead]
      before == {k \in 1..Len(acc) : acc[k].from <= h.from}
  IN  IF <<w.run.call, w.run.op>> # p.seat THEN acc
      ELSE InsertAt(acc, Cardinality(before) + 1, h)
SortInv(q, l, k, acc) == acc \in Seq(Shifted(q))
SortLeft == INSTANCE StepFolds WITH FoldStep <- SortStep, FoldInv <- SortInv

\* Induction, for this fold.
LEMMA SortInducts == SortLeft!Inducts
BY Inducting DEF SortLeft!Inducts

\* One more in its order.
LEMMA InsertType ==
  ASSUME NEW X, NEW s \in Seq(X), NEW e \in X, NEW B \in SUBSET (1..Len(s))
  PROVE  InsertAt(s, Cardinality(B) + 1, e) \in Seq(X)
<1> DEFINE n == Len(s)
           c == Cardinality(B)
<1>1. n \in Nat
  OBVIOUS
<1>2. IsFiniteSet(1..n) /\ Cardinality(1..n) = n
  <2> HIDE DEF n
  <2> QED BY ONLY <1>1, FS_Interval
<1>3. IsFiniteSet(B) /\ c \in Nat /\ c <= n
  BY <1>2, FS_Subset, FS_CardinalityType
<1> HIDE DEF c
<1> DEFINE a == SubSeq(s, 1, (c + 1) - 1)
           b == SubSeq(s, c + 1, Len(s))
<1>4. a \in Seq(X)
  BY <1>1, <1>3
<1>5. b \in Seq(X)
  BY <1>1, <1>3
<1> HIDE DEF a, b
<1>6. a \o <<e>> \o b \in Seq(X)
  BY <1>4, <1>5
<1> QED BY <1>6 DEF InsertAt, a, b, c

\* A hunk in the coordinates of the text it is in.
LEMMA MoveHunk ==
  ASSUME NEW g \in Hunk, NEW u \in Int, NEW v \in Nat
  PROVE  LET h == [g EXCEPT !.from = u, !.to = v]
         IN  /\ h \in [from : Int, to : Nat, nfrom : Nat, nto : Nat]
             /\ h.from = u /\ h.to = v /\ h.nfrom = g.nfrom /\ h.nto = g.nto
BY DEF Hunk

\* The hunks of one operation, in their order.
LEMMA SortType ==
  ASSUME NEW t, NEW c \in Content, NEW d \in Content, NEW D, \A r \in t.runs : RunIn(r, c, D),
         NEW p, PrefixOf(p) \in Content, NEW w \in Owning(t, c, d), NEW acc \in Seq(Shifted(d))
  PROVE  SortStep(p, acc, w) \in Seq(Shifted(d))
<1> DEFINE prefix == PrefixOf(p)
           seat == p.seat
           lead == Lead(prefix, w.run)
           h == [w.hunk EXCEPT !.from = @ + lead, !.to = @ + lead]
           before == {k \in 1..Len(acc) : acc[k].from <= h.from}
           y == SortStep(p, acc, w)
<1>1. y = IF <<w.run.call, w.run.op>> # seat THEN acc
          ELSE InsertAt(acc, Cardinality(before) + 1, h)
  BY DEF SortStep
<1>2. before \in SUBSET (1..Len(acc))
  OBVIOUS
<1>3. /\ w.run \in t.runs /\ w.hunk \in Hunks(c, d) /\ w.run.start <= w.hunk.to
  BY DEF Owning
<1>4. /\ w.run.start \in Nat /\ w.run.at \in Nat
  BY <1>3 DEF RunIn, Run
<1>5. /\ w.hunk \in Hunk /\ w.hunk.from <= w.hunk.to /\ w.hunk.nfrom <= w.hunk.nto /\ w.hunk.nto <= Len(d)
  BY <1>3 DEF Hunks, Fits
<1>6. w.hunk.from \in Nat /\ w.hunk.to \in Nat /\ w.hunk.nfrom \in Nat /\ w.hunk.nto \in Nat
  BY <1>5 DEF Hunk
<1>0. Len(prefix) \in Nat
  BY DEF Content
<1> HIDE DEF prefix
<1>7. PICK i \in Nat, j \in Nat, s \in Nat, a \in Nat, n \in Nat :
        i = w.hunk.from /\ j = w.hunk.to /\ s = w.run.start /\ a = w.run.at /\ n = Len(prefix)
  BY <1>0, <1>4, <1>6
<1>8. lead = n + a - s
  BY <1>7 DEF Lead
<1>9. i <= j /\ s <= j
  BY <1>3, <1>5, <1>7
<1> HIDE DEF lead, before, y
<1>10. i + lead \in Int /\ j + lead \in Nat /\ i + lead <= j + lead
  BY ONLY <1>8, <1>9, i \in Nat, j \in Nat, s \in Nat, a \in Nat, n \in Nat
<1> DEFINE u == i + lead
           v == j + lead
<1>11. h = [w.hunk EXCEPT !.from = u, !.to = v]
  BY <1>7
<1>12. u \in Int /\ v \in Nat /\ u <= v
  BY <1>10
<1> HIDE DEF u, v, h
<1>13. h \in Shifted(d)
  <2>1. /\ h \in [from : Int, to : Nat, nfrom : Nat, nto : Nat]
        /\ h.from = u /\ h.to = v /\ h.nfrom = w.hunk.nfrom /\ h.nto = w.hunk.nto
    <3>1. w.hunk \in Hunk
      BY <1>5
    <3> DEFINE g == w.hunk
               x == [g EXCEPT !.from = u, !.to = v]
    <3>2. g \in Hunk
      BY <3>1
    <3> HIDE DEF g
    <3>3. /\ x \in [from : Int, to : Nat, nfrom : Nat, nto : Nat]
          /\ x.from = u /\ x.to = v /\ x.nfrom = g.nfrom /\ x.nto = g.nto
      BY ONLY <3>2, <1>12, MoveHunk
    <3>4. h = x
      BY <1>11 DEF g
    <3> HIDE DEF x
    <3> QED BY <3>3, <3>4 DEF g
  <2> QED BY <1>5, <1>12, <2>1 DEF Shifted
<1>14. InsertAt(acc, Cardinality(before) + 1, h) \in Seq(Shifted(d))
  BY <1>2, <1>13, InsertType
<1> QED BY <1>1, <1>14 DEF y

Aligned(o, p, new, seats) ==
  LET own == p.own
      range(r) == Slice(p.old, r.from, r.to)
      prefix == range(own.pre[p.seat])
      suffix == range(own.suf[p.seat])
      text == prefix \o o.new \o suffix
      fits == /\ \A k \in 2..Len(seats) : seats[k - 1].to <= seats[k].from
              /\ \A k \in 1..Len(seats) : seats[k].to <= Len(text)
  IN  IF seats = <<>> \/ ~fits THEN o
      ELSE [o EXCEPT !.old = prefix \o @ \o suffix,
                     !.new = Spliced(text, new, seats)]

\* align_op, as a fold.
LEMMA AlignOpFold ==
  ASSUME NEW o, NEW p, NEW new
  PROVE  AlignOp(o, p.own, p.seat, p.old, new) = Aligned(o, p, new, SortLeft!FoldedLeft(p, <<>>, p.own.owned))
BY DEF AlignOp, Aligned, SortLeft!FoldedLeft, SortStep, PrefixOf, FoldLeft, MapThenFoldSet, Max

\* align_op: the operation, or one that edits the same path.
LEMMA AlignOpType ==
  ASSUME NEW o \in Edits, NEW t, NEW old \in Content, NEW new \in Content, NEW D, NEW seat \in D,
         \A r \in t.runs : RunIn(r, old, D), NEW own \in Widening(D, t, old, new)
  PROVE  /\ AlignOp(o, own, seat, old, new) \in Edits
         /\ AlignOp(o, own, seat, old, new).path = o.path
<1> DEFINE pre == own.pre[seat]
           suf == own.suf[seat]
           prefix == Slice(old, pre.from, pre.to)
           suffix == Slice(old, suf.from, suf.to)
           text == prefix \o o.new \o suffix
           p == [own |-> own, seat |-> seat, old |-> old]
           seats == SortLeft!FoldedLeft(p, <<>>, own.owned)
           fits == /\ \A k \in 2..Len(seats) : seats[k - 1].to <= seats[k].from
                   /\ \A k \in 1..Len(seats) : seats[k].to <= Len(text)
           z == [o EXCEPT !.old = prefix \o @ \o suffix, !.new = Spliced(text, new, seats)]
           y == AlignOp(o, own, seat, old, new)
<1>1. y = IF seats = <<>> \/ ~fits THEN o ELSE z
  <2>1. p.own = own /\ p.seat = seat /\ p.old = old
    OBVIOUS
  <2> HIDE DEF p
  <2>2. AlignOp(o, p.own, p.seat, p.old, new) = Aligned(o, p, new, SortLeft!FoldedLeft(p, <<>>, p.own.owned))
    BY AlignOpFold
  <2> QED BY <2>1, <2>2 DEF Aligned
<1>2. pre \in Range0(old) /\ suf \in Range0(old) /\ own.owned \in Seq(Owning(t, old, new))
  BY DEF Widening
<1>3. prefix \in Content /\ suffix \in Content
  <2>1. /\ pre.from \in Nat /\ pre.to \in Nat /\ pre.from <= pre.to /\ pre.to <= Len(old)
        /\ suf.from \in Nat /\ suf.to \in Nat /\ suf.from <= suf.to /\ suf.to <= Len(old)
    BY <1>2 DEF Range0
  <2> HIDE DEF pre, suf
  <2> QED BY <2>1, SliceIs
<1>10. PrefixOf(p) \in Content
  BY <1>3 DEF PrefixOf
<1> HIDE DEF prefix, suffix, y
<1>4. o.old \in Content /\ o.new \in Content
  BY DEF Edits
<1>5. text \in Content /\ prefix \o o.old \o suffix \in Content
  BY <1>3, <1>4 DEF Content
<1> DEFINE l == own.owned
<1> HIDE DEF l
<1>6. /\ Len(l) \in Nat /\ DOMAIN l = 1..Len(l)
      /\ \A k \in 1..Len(l) : l[k] \in Owning(t, old, new)
  BY <1>2 DEF l
<1> HIDE DEF text
<1>7. seats \in Seq(Shifted(new))
  <2>1. SortInv(new, l, 0, <<>>)
    BY DEF SortInv
  <2>2. ASSUME NEW k \in 1..Len(l), NEW acc, SortInv(new, l, k - 1, acc)
        PROVE  SortInv(new, l, k, SortStep(p, acc, l[k]))
    <3>1. l[k] \in Owning(t, old, new)
      BY <1>6
    <3> DEFINE w == l[k]
    <3> HIDE DEF w
    <3>2. SortStep(p, acc, w) \in Seq(Shifted(new))
      <4>1. w \in Owning(t, old, new) /\ acc \in Seq(Shifted(new))
        BY <2>2, <3>1 DEF SortInv, w
      <4> QED BY <1>10, <4>1, SortType
    <3> QED BY <3>2 DEF SortInv, w
  <2>3. SortInv(new, l, Len(l), SortLeft!FoldedLeft(p, <<>>, l))
    <3> HIDE DEF p
    <3> QED BY <1>6, <2>1, <2>2, SortInducts, SortLeft!FoldHolds
  <2> QED BY <2>3 DEF SortInv, l
<1> HIDE DEF seats, fits
<1>8. CASE seats = <<>> \/ ~fits
  <2>1. y = o
    BY <1>1, <1>8
  <2> QED BY <2>1 DEF y
<1>9. CASE ~(seats = <<>> \/ ~fits)
  <2>1. Spliced(text, new, seats) \in Content
    <3>1. Fitting(seats, text)
      BY <1>9 DEF fits, Fitting
    <3> QED BY <1>5, <1>7, <3>1, SplicedType
  <2>2. y = z
    BY <1>1, <1>9
  <2>3. z \in Edits /\ z.path = o.path
    BY <1>5, <2>1 DEF Edits
  <2> QED BY <2>2, <2>3 DEF y
<1> QED BY <1>8, <1>9

\* The line of the same call, its edits perhaps with other texts.
Similar(l, p) ==
  /\ l \in Line /\ l.call = p.call /\ l.kind = p.kind /\ l.faithful = p.faithful /\ l.absorbed = p.absorbed
  /\ Len(l.ops) = Len(p.ops)
  /\ \A k \in 1..Len(p.ops) : l.ops[k].op = p.ops[k].op /\ l.ops[k].path = p.ops[k].path

\* A line is like itself.
LEMMA SimilarSelf ==
  ASSUME NEW p \in Line
  PROVE  Similar(p, p)
BY DEF Similar

\* A line with other texts is like it.
LEMMA WithOps ==
  ASSUME NEW p \in Line, NEW ops \in Seq(Op), Len(ops) = Len(p.ops),
         \A k \in 1..Len(p.ops) : ops[k].op = p.ops[k].op /\ ops[k].path = p.ops[k].path
  PROVE  Similar([p EXCEPT !.ops = ops, !.aligned = ops # p.ops], p)
<1> DEFINE b == ops # p.ops
           l == [p EXCEPT !.ops = ops, !.aligned = b]
<1>1. b \in BOOLEAN
  OBVIOUS
<1> HIDE DEF b
<1>2. l \in Line
  BY <1>1 DEF Line
<1>3. /\ l.ops = ops /\ l.call = p.call /\ l.kind = p.kind /\ l.faithful = p.faithful /\ l.absorbed = p.absorbed
  BY DEF Line
<1> HIDE DEF l
<1>4. Similar(l, p)
  BY <1>2, <1>3 DEF Similar
<1> QED BY <1>4 DEF l, b

\* What is like a line has its shape.
LEMMA SimilarShape ==
  ASSUME NEW l, NEW p, Similar(l, p), Shaped(p)
  PROVE  Shaped(l)
BY DEF Similar, Shaped, Shape

\* A track's runs lie within the content, and are of planned operations.
LEMMA RunsIn ==
  ASSUME NEW planned \in Seq(Line), NEW x, NEW t, NEW c, TrackedOn(planned, x, t, c)
  PROVE  \A r \in t.runs : RunIn(r, c, DOMAIN NewsOf(planned))
BY DEF TrackedOn, TrackOK, RunOK, RunIn

\* align: the same lines, edits of spans that are contents.
LEMMA AlignIs ==
  ASSUME NEW obs, Obs(obs), Tracked(obs), NEW live \in State
  PROVE  LET a == Align(obs, live)
         IN  /\ a \in Seq(Line) /\ Len(a) = Len(obs.planned)
             /\ \A s \in 1..Len(obs.planned) : Similar(a[s], obs.planned[s])
<1> DEFINE planned == obs.planned
           n == Len(planned)
           news == NewsOf(planned)
           L == {x \in Paths : /\ obs.tracks[x].runs # {}
                               /\ obs.m[x] # NoFile /\ live[x] # NoFile
                               /\ obs.m[x] # live[x]}
           own == [x \in L |-> Owned(obs.tracks[x], obs.m[x], live[x], news)]
           opsOf(s) == [k \in 1..Len(planned[s].ops) |->
                          IF planned[s].call.tool.path \in L /\ planned[s].ops[k].op = "edit"
                          THEN AlignOp(planned[s].ops[k], own[planned[s].call.tool.path], <<s, k>>,
                                       obs.m[planned[s].call.tool.path], live[planned[s].call.tool.path])
                          ELSE planned[s].ops[k]]
           val(s) == IF planned[s].kind = "land"
                     THEN [planned[s] EXCEPT !.ops = opsOf(s), !.aligned = opsOf(s) # planned[s].ops]
                     ELSE planned[s]
           a == Align(obs, live)
<1>1. a = [s \in 1..n |-> val(s)]
  BY DEF Align
<1>2. planned \in Seq(Line) /\ n \in Nat /\ obs.m \in State
  BY DEF Obs
<1> HIDE DEF planned, n, news, L, own, a
<1>3. ASSUME NEW s \in 1..n PROVE Similar(val(s), planned[s])
  <2> DEFINE p == planned[s]
             ops == p.ops
             x == p.call.tool.path
  <2>1. p \in Line
    BY <1>2 DEF n
  <2>2. ops \in Seq(Op) /\ Len(ops) \in Nat /\ x \in Paths
    <3>1. ops \in Seq(Op) /\ p.call \in Call
      BY <2>1 DEF Line
    <3>2. p.call.tool \in Tool
      BY <3>1 DEF Call
    <3> QED BY <3>1, <3>2 DEF Tool
  <2> DEFINE u == opsOf(s)
  <2>3. ASSUME NEW k \in 1..Len(ops)
        PROVE  u[k] \in Op /\ u[k].op = ops[k].op /\ u[k].path = ops[k].path
    <3> DEFINE o == ops[k]
    <3>1. o \in Op
      BY <2>2
    <3>2. u[k] = IF x \in L /\ o.op = "edit"
                 THEN AlignOp(o, own[x], <<s, k>>, obs.m[x], live[x]) ELSE o
      OBVIOUS
    <3>3. CASE ~(x \in L /\ o.op = "edit")
      <4>1. u[k] = o
        BY <3>2, <3>3
      <4> QED BY <3>1, <4>1
    <3>4. CASE x \in L /\ o.op = "edit"
      <4>1. o \in Edits
        BY <3>1, <3>4, OpKinds
      <4> DEFINE t == obs.tracks[x]
                 c == obs.m[x]
                 d == live[x]
                 D == DOMAIN news
                 w == own[x]
                 seat == <<s, k>>
      <4>2. c \in Content /\ d \in Content
        BY <1>2, <2>2, <3>4 DEF L, State
      <4>3. TrackedOn(planned, x, t, c)
        BY <2>2 DEF Tracked, planned
      <4>4. seat \in D
        <5>1. seat \in PlanSeats(planned)
          BY SeatIs DEF n
        <5>2. D = PlanSeats(planned)
          BY <1>2, NewsIs DEF news
        <5> QED BY <5>1, <5>2
      <4>5. w = Owned(t, c, d, news)
        BY <3>4 DEF own
      <4>6. u[k] = AlignOp(o, w, seat, c, d)
        BY <3>2, <3>4
      <4> HIDE DEF t, c, d, w, u, o, seat, D
      <4>7. \A r \in t.runs : RunIn(r, c, D)
        BY <1>2, <4>3, RunsIn DEF D, news
      <4>8. w \in Widening(D, t, c, d)
        BY <4>2, <4>5, <4>7, OwnedType DEF D
      <4>9. u[k] \in Edits /\ u[k].path = o.path
        BY <4>1, <4>2, <4>4, <4>6, <4>7, <4>8, AlignOpType
      <4>10. u[k].op = "edit" /\ o.op = "edit"
        BY <3>4, <4>1, <4>9 DEF Edits
      <4> QED BY <4>9, <4>10 DEF Op, o
    <3> QED BY <3>3, <3>4
  <2>4. u \in Seq(Op) /\ Len(u) = Len(ops)
    <3>1. u \in [1..Len(ops) -> Op]
      <4>1. \A k \in 1..Len(ops) : u[k] \in Op
        BY <2>3
      <4> DEFINE f(k) == IF planned[s].call.tool.path \in L /\ planned[s].ops[k].op = "edit"
                          THEN AlignOp(planned[s].ops[k], own[planned[s].call.tool.path], <<s, k>>,
                                       obs.m[planned[s].call.tool.path], live[planned[s].call.tool.path])
                          ELSE planned[s].ops[k]
      <4>2. u = [k \in 1..Len(ops) |-> f(k)]
        OBVIOUS
      <4> HIDE DEF f, u
      <4> QED BY <4>1, <4>2
    <3> HIDE DEF u
    <3> QED BY <2>2, <3>1
  <2>5. CASE p.kind = "land"
    <3>1. val(s) = [p EXCEPT !.ops = u, !.aligned = u # ops]
      BY <2>5
    <3> HIDE DEF val, u, p
    <3>2. Similar([p EXCEPT !.ops = u, !.aligned = u # p.ops], p)
      BY <2>1, <2>3, <2>4, WithOps
    <3> QED BY <3>1, <3>2 DEF p
  <2>6. CASE p.kind # "land"
    <3>1. val(s) = p
      BY <2>6
    <3> HIDE DEF val, p
    <3> QED BY <2>1, <3>1, SimilarSelf DEF p
  <2> QED BY <2>5, <2>6
<1> HIDE DEF val
<1>4. \A s \in 1..n : val(s) \in Line
  BY <1>3 DEF Similar
<1>5. a \in Seq(Line) /\ Len(a) = n /\ \A s \in 1..n : a[s] = val(s)
  BY <1>1, <1>2, <1>4
<1> QED BY <1>3, <1>5 DEF a, n, planned

-----------------------------------------------------------------------------
(* The replay of a plan.                                                   *)

\* Readings name what the state holds.
ReadOf(m, reads) == \A r \in reads : r \in Reading /\ r.blob = m[r.path]

\* reads_for: a file that a line deletes is deleted first, so as it was met.
LEMMA ReadsAre ==
  ASSUME NEW m \in State, NEW ops \in Seq(Op), NEW x, Shape(ops, x), Ran(Fresh(m), ops).ok,
         NEW paths \in SUBSET Paths
  PROVE  ReadOf(m, ReadsFor(m, ops, paths))
<1> DEFINE n == Len(ops)
           written == {ops[k].path : k \in 1..Len(ops)}
           on(z, kind) == {k \in 1..Len(ops) : ops[k].path = z /\ ops[k].op = kind}
           dels == {j \in 1..Len(ops) : ops[j].op = "delete"}
           deleted == {[path |-> ops[k].path, blob |-> ops[k].content, spans |-> WholeFile] : k \in dels}
           heads == {y \in written : on(y, "delete") = {} /\ on(y, "edit") # {}}
           edited == {[path |-> z, blob |-> m[z],
                       spans |-> {ops[k].old : k \in on(z, "edit")}] : z \in heads}
           own == deleted \cup edited
           rest == paths \ {r.path : r \in own}
           other == {[path |-> z, blob |-> m[z], spans |-> WholeFile] : z \in rest}
<1>1. ReadsFor(m, ops, paths) = own \cup other
  BY DEF ReadsFor
<1>2. n \in Nat /\ \A k \in 1..n : ops[k] \in Op
  OBVIOUS
<1>3. \A z \in Paths : m[z] \in Content \cup {NoFile}
  BY DEF State
<1>4. WholeFile \in SUBSET (Content \cup WholeFile)
  OBVIOUS
<1>5. ASSUME NEW r \in deleted PROVE r \in Reading /\ r.blob = m[r.path]
  <2>1. PICK k \in dels : r = [path |-> ops[k].path, blob |-> ops[k].content, spans |-> WholeFile]
    OBVIOUS
  <2>2. k \in 1..n /\ ops[k].op = "delete" /\ k = 1
    BY DEF Shape
  <2> DEFINE o == ops[k]
  <2>3. o \in Deletes
    BY <1>2, <2>2, OpKinds
  <2>4. PICK h : Steps(h, m, ops)
    BY RanSteps
  <2>5. h[0] = Fresh(m) /\ h[k] = ApplyOp(h[0], o) /\ h[k].ok
    <3>1. k - 1 = 0 /\ k \in 0..n
      BY <1>2, <2>2
    <3> QED BY <2>2, <2>4, <3>1 DEF Steps
  <2>6. ApplyOp(Fresh(m), o).ok
    BY <2>5
  <2> HIDE DEF o
  <2>7. o.op = "delete" /\ o.content \in Content /\ o.path \in Paths
    BY <2>3 DEF Deletes
  <2>8. m[o.path] = o.content
    <3> SUFFICES ASSUME m[o.path] # o.content PROVE FALSE
      OBVIOUS
    <3>1. ApplyOp(Fresh(m), o) = [Fresh(m) EXCEPT !.ok = FALSE]
      BY <2>7 DEF ApplyOp, Fresh
    <3> QED BY <2>6, <3>1 DEF Fresh
  <2>9. r = [path |-> o.path, blob |-> o.content, spans |-> WholeFile]
    BY <2>1 DEF o
  <2>10. r \in Reading
    BY <1>4, <2>7, <2>9 DEF Reading
  <2> QED BY <2>8, <2>9, <2>10
<1>6. ASSUME NEW r \in edited PROVE r \in Reading /\ r.blob = m[r.path]
  <2>1. PICK z \in heads : r = [path |-> z, blob |-> m[z], spans |-> {ops[k].old : k \in on(z, "edit")}]
    OBVIOUS
  <2>2. z \in Paths
    <3>1. PICK k \in 1..n : z = ops[k].path
      OBVIOUS
    <3> QED BY <1>2, <3>1, OpKinds
  <2>3. \A k \in on(z, "edit") : ops[k].old \in Content
    <3> TAKE k \in on(z, "edit")
    <3>1. ops[k] \in Edits
      BY <1>2, OpKinds
    <3> QED BY <3>1 DEF Edits
  <2> DEFINE spans == {ops[k].old : k \in on(z, "edit")}
  <2>4. spans \in SUBSET (Content \cup WholeFile)
    BY <2>3
  <2>5. r = [path |-> z, blob |-> m[z], spans |-> spans]
    BY <2>1
  <2> HIDE DEF spans
  <2> QED BY <1>3, <2>2, <2>4, <2>5 DEF Reading
<1>7. ASSUME NEW r \in other PROVE r \in Reading /\ r.blob = m[r.path]
  <2>1. PICK z \in rest : r = [path |-> z, blob |-> m[z], spans |-> WholeFile]
    OBVIOUS
  <2>2. z \in Paths
    OBVIOUS
  <2> HIDE DEF rest
  <2> QED BY <1>3, <1>4, <2>1, <2>2 DEF Reading
<1> HIDE DEF deleted, edited, other
<1> QED BY <1>1, <1>5, <1>6, <1>7 DEF ReadOf

\* A line's part in the replay, from state a to state b.
Landed(l, a, b) ==
  IF l.kind = "land" THEN ApplyIntent(a, l.ops) = Fresh(b) /\ ReadOf(a, l.reads) ELSE b = a
Runs(start, lines, k, m) ==
  \E g : /\ g[0] = start /\ g[k] = m
         /\ \A j \in 0..k : g[j] \in State
         /\ \A j \in 1..k : Landed(lines[j], g[j - 1], g[j])

\* A replay that got to a line gets to the next.
LEMMA RunsOn ==
  ASSUME NEW start, NEW lines, NEW news, NEW k \in Nat, NEW m, NEW n \in State, Runs(start, lines, k, m),
         \A j \in 1..k : news[j] = lines[j], Landed(news[k + 1], m, n)
  PROVE  Runs(start, news, k + 1, n)
<1>1. PICK g : /\ g[0] = start /\ g[k] = m
               /\ \A j \in 0..k : g[j] \in State
               /\ \A j \in 1..k : Landed(lines[j], g[j - 1], g[j])
  BY DEF Runs
<1> DEFINE h == [j \in 0..k + 1 |-> IF j = k + 1 THEN n ELSE g[j]]
<1>2. h[k + 1] = n /\ \A j \in 0..k : h[j] = g[j]
  <2>1. k + 1 \in 0..k + 1 /\ \A j \in 0..k : j \in 0..k + 1 /\ j # k + 1
    OBVIOUS
  <2> QED BY <2>1
<1> HIDE DEF h
<1>3. \A j \in 0..k + 1 : h[j] \in State
  <2> TAKE j \in 0..k + 1
  <2>1. j = k + 1 \/ j \in 0..k
    OBVIOUS
  <2> QED BY <1>1, <1>2, <2>1
<1>4. \A j \in 1..k + 1 : Landed(news[j], h[j - 1], h[j])
  <2> TAKE j \in 1..k + 1
  <2>1. CASE j = k + 1
    <3>1. j - 1 = k /\ k \in 0..k
      BY <2>1
    <3> QED BY <1>1, <1>2, <2>1, <3>1
  <2>2. CASE j # k + 1
    <3>1. j \in 1..k /\ j - 1 \in 0..k /\ j \in 0..k
      BY <2>2
    <3> QED BY <1>1, <1>2, <3>1
  <2> QED BY <2>1, <2>2
<1>5. h[0] = start
  <2>1. 0 \in 0..k
    OBVIOUS
  <2> QED BY <1>1, <1>2, <2>1
<1> QED BY <1>2, <1>3, <1>4, <1>5 DEF Runs

\* A plan with one line changed.
LEMMA SetLine ==
  ASSUME NEW X, NEW l \in Seq(X), NEW s \in 1..Len(l), NEW e \in X
  PROVE  /\ [l EXCEPT ![s] = e] \in Seq(X) /\ Len([l EXCEPT ![s] = e]) = Len(l)
         /\ [l EXCEPT ![s] = e][s] = e
         /\ \A j \in 1..Len(l) : j # s => [l EXCEPT ![s] = e][j] = l[j]
OBVIOUS

\* What the replay keeps of a line.
Keeps(l, p) ==
  /\ l \in Line /\ l.call = p.call /\ l.ops = p.ops /\ l.faithful = p.faithful /\ l.absorbed = p.absorbed

\* A line keeps what it has.
LEMMA KeepsSelf ==
  ASSUME NEW p \in Line
  PROVE  Keeps(p, p)
BY DEF Keeps

\* A plan that can be replayed.
Playable(p) ==
  /\ p \in Seq(Line)
  /\ \A s \in 1..Len(p) : Shaped(p[s]) /\ \A k \in 1..Len(p[s].absorbed) : p[s].absorbed[k] \in 1..Len(p)

ReplayStep(q, acc, s) ==
  LET p == q.planned[s]
      carried == {s} \cup {p.absorbed[k] : k \in 1..Len(p.absorbed)}
      r == ApplyIntent(acc.m, p.ops)
  IN  IF p.kind # "land" \/ ~acc.ok THEN acc
      ELSE IF r.ok
      THEN [acc EXCEPT
              !.m = r.m,
              !.planned[s].reads =
                 ReadsFor(acc.m, p.ops, UNION {q.planned[c].call.reads : c \in carried})]
      ELSE IF q.strict THEN [acc EXCEPT !.ok = FALSE]
      ELSE [acc EXCEPT !.planned[s].kind = "skip"]

Accs == [ok : BOOLEAN, m : State, planned : Seq(Line)]
\* How far a replay is.
Replaying(planned, start, strict, k, acc) ==
  /\ acc \in Accs /\ Len(acc.planned) = Len(planned)
  /\ \A s \in 1..Len(planned) :
       /\ Keeps(acc.planned[s], planned[s])
       /\ acc.planned[s].kind = planned[s].kind
            \/ (~strict /\ planned[s].kind = "land" /\ acc.planned[s].kind = "skip")
       /\ s > k => acc.planned[s] = planned[s]
  /\ ~strict => acc.ok
  /\ acc.ok => Runs(start, acc.planned, k, acc.m)

\* The reads of a line and of those it absorbed are of paths.
LEMMA CarriedReads ==
  ASSUME NEW p, Playable(p), NEW s \in 1..Len(p)
  PROVE  UNION {p[c].call.reads : c \in {s} \cup {p[s].absorbed[k] : k \in 1..Len(p[s].absorbed)}}
           \in SUBSET Paths
<1>1. \A c \in {s} \cup {p[s].absorbed[k] : k \in 1..Len(p[s].absorbed)} : c \in 1..Len(p)
  BY DEF Playable
<1>2. \A c \in 1..Len(p) : p[c].call.reads \in SUBSET Paths
  <2> TAKE c \in 1..Len(p)
  <2>1. p[c] \in Line
    BY DEF Playable
  <2>2. p[c].call \in Call
    BY <2>1 DEF Line
  <2> QED BY <2>2 DEF Call
<1> QED BY <1>1, <1>2

\* replay: a line that applies lands.
LEMMA ReplayLands ==
  ASSUME NEW planned, Playable(planned), NEW start, NEW strict \in BOOLEAN, NEW s \in 1..Len(planned),
         NEW acc, Replaying(planned, start, strict, s - 1, acc), planned[s].kind = "land", acc.ok,
         ApplyIntent(acc.m, planned[s].ops).ok, NEW reads, ReadOf(acc.m, reads)
  PROVE  Replaying(planned, start, strict, s,
                   [acc EXCEPT !.m = ApplyIntent(acc.m, planned[s].ops).m, !.planned[s].reads = reads])
<1> DEFINE n == Len(planned)
           p == planned[s]
           l == acc.planned[s]
           e == [l EXCEPT !.reads = reads]
           r == ApplyIntent(acc.m, p.ops)
           u == [acc.planned EXCEPT ![s] = e]
           y == [acc EXCEPT !.m = r.m, !.planned[s].reads = reads]
<1>1. /\ acc \in Accs /\ Len(acc.planned) = n /\ n \in Nat /\ planned \in Seq(Line)
      /\ Keeps(l, p) /\ l = p
  <2>1. s > s - 1
    OBVIOUS
  <2> QED BY <2>1 DEF Replaying, Playable
<1>2. \A j \in 1..n :
        /\ Keeps(acc.planned[j], planned[j])
        /\ acc.planned[j].kind = planned[j].kind
             \/ (~strict /\ planned[j].kind = "land" /\ acc.planned[j].kind = "skip")
        /\ j > s - 1 => acc.planned[j] = planned[j]
  BY DEF Replaying
<1>3. acc.planned \in Seq(Line) /\ acc.m \in State /\ acc.ok \in BOOLEAN
  BY <1>1 DEF Accs
<1>4. p \in Line /\ p.ops \in Seq(Op)
  <2>1. p \in Line
    BY <1>1
  <2> HIDE DEF p
  <2> QED BY <2>1 DEF Line
<1>5. r.m \in State /\ r = Fresh(r.m)
  <2>1. ApplyIntent(acc.m, p.ops) \in Applied
    BY <1>3, <1>4, ApplyIntentIs
  <2>2. ApplyIntent(acc.m, p.ops) = Fresh(ApplyIntent(acc.m, p.ops).m)
    BY <1>3, <1>4, ApplyIntentIs
  <2> QED BY <2>1, <2>2 DEF Applied
<1>6. e \in Line /\ Keeps(e, p) /\ e.kind = "land" /\ e.reads = reads /\ e.ops = p.ops
  <2>1. l \in Line /\ l.kind = "land"
    BY <1>1, <1>4
  <2>2. reads \in SUBSET Reading
    BY DEF ReadOf
  <2> HIDE DEF l, p
  <2>3. e \in Line /\ e.kind = "land" /\ e.reads = reads /\ e.call = l.call /\ e.ops = l.ops
        /\ e.faithful = l.faithful /\ e.absorbed = l.absorbed
    BY <2>1, <2>2 DEF Line
  <2> HIDE DEF e
  <2> QED BY <1>1, <2>3 DEF Keeps
<1>7. y = [acc EXCEPT !.m = r.m, !.planned = u]
  BY <1>1, <1>3 DEF Accs
<1> HIDE DEF p, l, e, y
<1>8. u \in Seq(Line) /\ Len(u) = n /\ u[s] = e /\ \A j \in 1..n : j # s => u[j] = acc.planned[j]
  BY <1>1, <1>3, <1>6, SetLine
<1> HIDE DEF u, r
<1>9. y \in Accs /\ y.m = r.m /\ y.planned = u /\ y.ok = acc.ok
  BY <1>1, <1>5, <1>7, <1>8 DEF Accs
<1>10. Runs(start, u, s, r.m)
  <2>1. s - 1 \in Nat /\ (s - 1) + 1 = s
    OBVIOUS
  <2>2. Runs(start, acc.planned, s - 1, acc.m)
    BY DEF Replaying
  <2>3. \A j \in 1..s - 1 : u[j] = acc.planned[j]
    <3>1. \A j \in 1..s - 1 : j \in 1..n /\ j # s
      BY <1>1
    <3> QED BY <1>8, <3>1
  <2>4. Landed(u[s], acc.m, r.m)
    <3>1. ApplyIntent(acc.m, p.ops) = Fresh(r.m)
      BY <1>5 DEF r
    <3> QED BY <1>6, <1>8, <3>1 DEF Landed
  <2> QED BY <1>5, <2>1, <2>2, <2>3, <2>4, RunsOn
<1>11. \A j \in 1..n :
        /\ Keeps(u[j], planned[j])
        /\ u[j].kind = planned[j].kind
             \/ (~strict /\ planned[j].kind = "land" /\ u[j].kind = "skip")
        /\ j > s => u[j] = planned[j]
  <2> TAKE j \in 1..n
  <2>1. CASE j = s
    <3>1. planned[s].kind = "land" /\ planned[s] = p /\ ~(s > s)
      BY DEF p
    <3> QED BY <1>6, <1>8, <2>1, <3>1
  <2>2. CASE j # s
    <3>1. j > s => j > s - 1
      OBVIOUS
    <3> QED BY <1>2, <1>8, <2>2, <3>1
  <2> QED BY <2>1, <2>2
<1>12. ~strict => y.ok
  BY <1>9
<1>13. Replaying(planned, start, strict, s, y)
  BY <1>8, <1>9, <1>10, <1>11, <1>12 DEF Replaying, n
<1> QED BY <1>13 DEF y, r, p

\* A line that is not to land changes nothing.
LEMMA ReplayWaits ==
  ASSUME NEW planned, NEW start, NEW strict \in BOOLEAN, NEW s \in 1..Len(planned),
         NEW acc, Replaying(planned, start, strict, s - 1, acc), planned[s].kind # "land" \/ ~acc.ok
  PROVE  Replaying(planned, start, strict, s, acc)
<1>1. /\ acc \in Accs /\ Len(acc.planned) = Len(planned)
      /\ \A j \in 1..Len(planned) :
           /\ Keeps(acc.planned[j], planned[j])
           /\ acc.planned[j].kind = planned[j].kind
                \/ (~strict /\ planned[j].kind = "land" /\ acc.planned[j].kind = "skip")
           /\ j > s - 1 => acc.planned[j] = planned[j]
      /\ ~strict => acc.ok
      /\ acc.ok => Runs(start, acc.planned, s - 1, acc.m)
  BY DEF Replaying
<1>2. \A j \in 1..Len(planned) : j > s => acc.planned[j] = planned[j]
  <2>1. \A j \in 1..Len(planned) : j > s => j > s - 1
    OBVIOUS
  <2> QED BY <1>1, <2>1
<1>3. ASSUME acc.ok PROVE Runs(start, acc.planned, s, acc.m)
  <2>1. s - 1 \in Nat /\ (s - 1) + 1 = s /\ s > s - 1
    OBVIOUS
  <2>2. acc.planned[s].kind # "land"
    BY <1>1, <1>3, <2>1
  <2>3. Landed(acc.planned[s], acc.m, acc.m)
    BY <2>2 DEF Landed
  <2>4. acc.m \in State
    BY <1>1 DEF Accs
  <2>5. Runs(start, acc.planned, s - 1, acc.m)
    BY <1>1, <1>3
  <2> QED BY <2>1, <2>3, <2>4, <2>5, RunsOn
<1> QED BY <1>1, <1>2, <1>3 DEF Replaying

\* Strict, a line that does not apply ends it.
LEMMA ReplayDeclines ==
  ASSUME NEW planned, NEW start, NEW s \in 1..Len(planned),
         NEW acc, Replaying(planned, start, TRUE, s - 1, acc)
  PROVE  Replaying(planned, start, TRUE, s, [acc EXCEPT !.ok = FALSE])
<1> DEFINE y == [acc EXCEPT !.ok = FALSE]
<1>1. acc \in Accs
  BY DEF Replaying
<1>2. y \in Accs /\ y.planned = acc.planned /\ y.m = acc.m /\ ~y.ok
  BY <1>1 DEF Accs
<1> HIDE DEF y
<1>3. /\ Len(acc.planned) = Len(planned)
      /\ \A j \in 1..Len(planned) :
           /\ Keeps(acc.planned[j], planned[j])
           /\ acc.planned[j].kind = planned[j].kind
           /\ j > s - 1 => acc.planned[j] = planned[j]
  BY DEF Replaying
<1>4. \A j \in 1..Len(planned) : j > s => acc.planned[j] = planned[j]
  <2>1. \A j \in 1..Len(planned) : j > s => j > s - 1
    OBVIOUS
  <2> QED BY <1>3, <2>1
<1>5. Replaying(planned, start, TRUE, s, y)
  BY <1>2, <1>3, <1>4 DEF Replaying
<1> QED BY <1>5 DEF y

\* Else the line is skipped.
LEMMA ReplaySkips ==
  ASSUME NEW planned, Playable(planned), NEW start, NEW s \in 1..Len(planned),
         NEW acc, Replaying(planned, start, FALSE, s - 1, acc), planned[s].kind = "land"
  PROVE  Replaying(planned, start, FALSE, s, [acc EXCEPT !.planned[s].kind = "skip"])
<1> DEFINE n == Len(planned)
           p == planned[s]
           l == acc.planned[s]
           e == [l EXCEPT !.kind = "skip"]
           u == [acc.planned EXCEPT ![s] = e]
           y == [acc EXCEPT !.planned[s].kind = "skip"]
<1>1. /\ acc \in Accs /\ Len(acc.planned) = n /\ n \in Nat /\ planned \in Seq(Line)
      /\ Keeps(l, p) /\ l = p
  <2>1. s > s - 1
    OBVIOUS
  <2> QED BY <2>1 DEF Replaying, Playable
<1>2. \A j \in 1..n :
        /\ Keeps(acc.planned[j], planned[j])
        /\ acc.planned[j].kind = planned[j].kind
             \/ (planned[j].kind = "land" /\ acc.planned[j].kind = "skip")
        /\ j > s - 1 => acc.planned[j] = planned[j]
  BY DEF Replaying
<1>3. acc.planned \in Seq(Line) /\ acc.m \in State /\ acc.ok
  BY <1>1 DEF Accs, Replaying
<1>4. e \in Line /\ Keeps(e, p) /\ e.kind = "skip"
  <2>1. l \in Line
    BY <1>1 DEF Keeps
  <2> HIDE DEF l, p
  <2>3. e \in Line /\ e.kind = "skip" /\ e.call = l.call /\ e.ops = l.ops
        /\ e.faithful = l.faithful /\ e.absorbed = l.absorbed
    BY <2>1 DEF Line
  <2> HIDE DEF e
  <2> QED BY <1>1, <2>3 DEF Keeps
<1>5. y = [acc EXCEPT !.planned = u]
  BY <1>1, <1>3 DEF Accs
<1> HIDE DEF p, l, e, y
<1>6. u \in Seq(Line) /\ Len(u) = n /\ u[s] = e /\ \A j \in 1..n : j # s => u[j] = acc.planned[j]
  BY <1>1, <1>3, <1>4, SetLine
<1> HIDE DEF u
<1>7. y \in Accs /\ y.m = acc.m /\ y.planned = u /\ y.ok = acc.ok
  BY <1>1, <1>5, <1>6 DEF Accs
<1>8. Runs(start, u, s, acc.m)
  <2>1. s - 1 \in Nat /\ (s - 1) + 1 = s
    OBVIOUS
  <2>2. Runs(start, acc.planned, s - 1, acc.m)
    BY <1>3 DEF Replaying
  <2>3. \A j \in 1..s - 1 : u[j] = acc.planned[j]
    <3>1. \A j \in 1..s - 1 : j \in 1..n /\ j # s
      BY <1>1
    <3> QED BY <1>6, <3>1
  <2>4. Landed(u[s], acc.m, acc.m)
    BY <1>4, <1>6 DEF Landed
  <2> QED BY <1>3, <2>1, <2>2, <2>3, <2>4, RunsOn
<1>9. \A j \in 1..n :
        /\ Keeps(u[j], planned[j])
        /\ u[j].kind = planned[j].kind
             \/ (planned[j].kind = "land" /\ u[j].kind = "skip")
        /\ j > s => u[j] = planned[j]
  <2> TAKE j \in 1..n
  <2>1. CASE j = s
    <3>1. planned[s].kind = "land" /\ planned[s] = p /\ ~(s > s)
      BY DEF p
    <3> QED BY <1>4, <1>6, <2>1, <3>1
  <2>2. CASE j # s
    <3>1. j > s => j > s - 1
      OBVIOUS
    <3> QED BY <1>2, <1>6, <2>2, <3>1
  <2> QED BY <2>1, <2>2
<1>10. Replaying(planned, start, FALSE, s, y)
  BY <1>3, <1>6, <1>7, <1>8, <1>9 DEF Replaying, n
<1> QED BY <1>10 DEF y

\* The states a plan goes through when every line that is to land does.
Leads(g, planned, start) ==
  /\ g[0] = start
  /\ \A s \in 1..Len(planned) :
       IF planned[s].kind = "land" THEN ApplyIntent(g[s - 1], planned[s].ops) = Fresh(g[s])
       ELSE g[s] = g[s - 1]
\* Then the replay is at them, and has skipped nothing.
Follows(planned, g, k, acc) ==
  acc.ok /\ acc.m = g[k] /\ \A s \in 1..Len(planned) : acc.planned[s].kind = planned[s].kind
ReplayInv(q, l, k, acc) ==
  /\ Replaying(q.planned, q.start, q.strict, k, acc)
  /\ Leads(q.g, q.planned, q.start) => Follows(q.planned, q.g, k, acc)

ReplayLeft == INSTANCE StepFolds WITH FoldStep <- ReplayStep, FoldInv <- ReplayInv

\* Induction, for this fold.
LEMMA ReplayInducts == ReplayLeft!Inducts
BY Inducting DEF ReplayLeft!Inducts

\* One line more, in whichever case.
LEMMA ReplayNext ==
  ASSUME NEW planned, Playable(planned), NEW start, NEW strict \in BOOLEAN, NEW s \in 1..Len(planned),
         NEW q, q.planned = planned, q.strict = strict,
         NEW acc, Replaying(planned, start, strict, s - 1, acc)
  PROVE  Replaying(planned, start, strict, s, ReplayStep(q, acc, s))
<1> DEFINE p == planned[s]
           carried == {s} \cup {p.absorbed[k] : k \in 1..Len(p.absorbed)}
           r == ApplyIntent(acc.m, p.ops)
           reads == ReadsFor(acc.m, p.ops, UNION {planned[c].call.reads : c \in carried})
<1>0. /\ Playable(planned) /\ strict \in BOOLEAN /\ s \in 1..Len(planned)
      /\ Replaying(planned, start, strict, s - 1, acc)
  OBVIOUS
<1>1. ReplayStep(q, acc, s)
        = IF p.kind # "land" \/ ~acc.ok THEN acc
          ELSE IF r.ok THEN [acc EXCEPT !.m = r.m, !.planned[s].reads = reads]
          ELSE IF strict THEN [acc EXCEPT !.ok = FALSE]
          ELSE [acc EXCEPT !.planned[s].kind = "skip"]
  BY DEF ReplayStep
<1>2. CASE p.kind # "land" \/ ~acc.ok
  BY <1>1, <1>2, ReplayWaits
<1>3. CASE p.kind = "land" /\ acc.ok /\ r.ok
  <2>1. acc.m \in State /\ p.ops \in Seq(Op) /\ Shape(p.ops, p.call.tool.path)
    <3>1. p \in Line /\ Shaped(p)
      BY DEF Playable
    <3>2. acc \in Accs
      BY DEF Replaying
    <3> HIDE DEF p
    <3> QED BY <3>1, <3>2 DEF Accs, Line, Shaped
  <2>2. Ran(Fresh(acc.m), p.ops).ok
    BY <1>3, <2>1, ApplyIntentIs
  <2>3. UNION {planned[c].call.reads : c \in carried} \subseteq Paths
    <3>1. UNION {planned[c].call.reads : c \in carried} \in SUBSET Paths
      BY CarriedReads
    <3> QED BY <3>1
  <2>4. ReadOf(acc.m, reads)
    BY <2>1, <2>2, <2>3, ReadsAre
  <2>5. Replaying(planned, start, strict, s,
                  [acc EXCEPT !.m = ApplyIntent(acc.m, planned[s].ops).m, !.planned[s].reads = reads])
    <3>1. planned[s].kind = "land" /\ ApplyIntent(acc.m, planned[s].ops).ok
      BY <1>3
    <3> HIDE DEF reads
    <3>2. \A w : ReadOf(acc.m, w) =>
            Replaying(planned, start, strict, s,
                      [acc EXCEPT !.m = ApplyIntent(acc.m, planned[s].ops).m, !.planned[s].reads = w])
      <4> TAKE w
      <4> HAVE ReadOf(acc.m, w)
      <4> QED BY ONLY <1>0, <1>3, <3>1, ReadOf(acc.m, w), ReplayLands
    <3> QED BY ONLY <2>4, <3>2
  <2> HIDE DEF reads
  <2> QED BY <1>1, <1>3, <2>5
<1>4. CASE p.kind = "land" /\ acc.ok /\ ~r.ok
  <2>1. CASE strict
    <3>1. strict = TRUE
      BY <2>1
    <3>2. Replaying(planned, start, TRUE, s - 1, acc)
      BY <1>0, <3>1
    <3>3. Replaying(planned, start, TRUE, s, [acc EXCEPT !.ok = FALSE])
      BY ONLY <1>0, <3>2, ReplayDeclines
    <3>4. ReplayStep(q, acc, s) = [acc EXCEPT !.ok = FALSE]
      BY <1>1, <1>4, <2>1
    <3> QED BY <3>1, <3>3, <3>4
  <2>2. CASE ~strict
    <3>1. strict = FALSE
      BY <2>2
    <3>2. Replaying(planned, start, FALSE, s - 1, acc) /\ planned[s].kind = "land"
      BY <1>0, <1>4, <3>1
    <3>3. Replaying(planned, start, FALSE, s, [acc EXCEPT !.planned[s].kind = "skip"])
      BY ONLY <1>0, <3>2, ReplaySkips
    <3>4. ReplayStep(q, acc, s) = [acc EXCEPT !.planned[s].kind = "skip"]
      BY <1>1, <1>4, <2>2
    <3> QED BY <3>1, <3>3, <3>4
  <2> QED BY <2>1, <2>2
<1> QED BY <1>2, <1>3, <1>4

\* A replay of lines that lead from state to state follows them.
LEMMA ReplayFollows ==
  ASSUME NEW planned, NEW start, NEW strict, NEW s \in 1..Len(planned), NEW g, Leads(g, planned, start),
         NEW q, q.planned = planned,
         NEW acc, Replaying(planned, start, strict, s - 1, acc), Follows(planned, g, s - 1, acc)
  PROVE  Follows(planned, g, s, ReplayStep(q, acc, s))
<1> DEFINE p == planned[s]
           carried == {s} \cup {p.absorbed[k] : k \in 1..Len(p.absorbed)}
           r == ApplyIntent(acc.m, p.ops)
           reads == ReadsFor(acc.m, p.ops, UNION {planned[c].call.reads : c \in carried})
           e == [acc.planned[s] EXCEPT !.reads = reads]
           u == [acc.planned EXCEPT ![s] = e]
           y == [acc EXCEPT !.m = r.m, !.planned[s].reads = reads]
<1>1. /\ acc.ok /\ acc.m = g[s - 1]
      /\ \A j \in 1..Len(planned) : acc.planned[j].kind = planned[j].kind
  BY DEF Follows
<1>2. CASE p.kind # "land"
  <2>1. g[s] = g[s - 1]
    BY <1>2 DEF Leads
  <2>2. ReplayStep(q, acc, s) = acc
    BY <1>2 DEF ReplayStep
  <2> QED BY <1>1, <2>1, <2>2 DEF Follows
<1>3. CASE p.kind = "land"
  <2>1. r = Fresh(g[s])
    BY <1>1, <1>3 DEF Leads
  <2>2. r.ok /\ r.m = g[s]
    BY <2>1 DEF Fresh
  <2>3. ReplayStep(q, acc, s) = y
    BY <1>1, <1>3, <2>2 DEF ReplayStep
  <2>4. acc \in Accs /\ acc.planned \in Seq(Line) /\ Len(acc.planned) = Len(planned)
    BY DEF Replaying, Accs
  <2>5. y = [acc EXCEPT !.m = r.m, !.planned = u]
    BY <2>4 DEF Accs
  <2>6. acc.planned[s] \in Line
    BY <2>4
  <2>7. e.kind = acc.planned[s].kind
    <3> HIDE DEF reads
    <3> QED BY <2>6 DEF Line
  <2> HIDE DEF y, e, r
  <2>8. y.ok = acc.ok /\ y.m = r.m /\ y.planned = u
    BY <2>4, <2>5 DEF Accs
  <2>9. \A j \in 1..Len(planned) : u[j] = IF j = s THEN e ELSE acc.planned[j]
    <3>1. DOMAIN acc.planned = 1..Len(planned)
      BY <2>4
    <3> QED BY <3>1
  <2> HIDE DEF u
  <2> QED BY <1>1, <2>2, <2>3, <2>7, <2>8, <2>9 DEF Follows
<1> QED BY <1>2, <1>3

\* replay, as a fold.
LEMMA ReplayFold ==
  ASSUME NEW q
  PROVE  Replay(q.planned, q.start, q.strict)
           = ReplayLeft!FoldedLeft(q, [ok |-> TRUE, m |-> q.start, planned |-> q.planned],
                      [s \in 1..Len(q.planned) |-> s])
BY DEF Replay, ReplayLeft!FoldedLeft, ReplayStep, FoldLeft, MapThenFoldSet, Max

\* What a fold with that step keeps.
LEMMA ReplayHolds ==
  ASSUME NEW q, NEW b, NEW l, NEW n \in Nat, DOMAIN l = 1..n, ReplayInv(q, l, 0, b),
         \A i \in 1..n : \A x : ReplayInv(q, l, i - 1, x) => ReplayInv(q, l, i, ReplayStep(q, x, l[i]))
  PROVE  ReplayInv(q, l, n, ReplayLeft!FoldedLeft(q, b, l))
BY ReplayInducts, ReplayLeft!FoldHolds

\* What replay makes of a plan.
LEMMA ReplayIs ==
  ASSUME NEW planned, Playable(planned), NEW start \in State, NEW strict \in BOOLEAN
  PROVE  /\ Replaying(planned, start, strict, Len(planned), Replay(planned, start, strict))
         /\ \A g : Leads(g, planned, start) =>
              Follows(planned, g, Len(planned), Replay(planned, start, strict))
<1> DEFINE n == Len(planned)
           l == [s \in 1..n |-> s]
           b == [ok |-> TRUE, m |-> start, planned |-> planned]
<1>1. planned \in Seq(Line) /\ n \in Nat /\ DOMAIN l = 1..n /\ \A s \in 1..n : l[s] = s
  BY DEF Playable
<1>2. Replaying(planned, start, strict, 0, b)
  <2>1. \A s \in 1..n : Keeps(planned[s], planned[s])
    <3> TAKE s \in 1..n
    <3>1. planned[s] \in Line
      BY <1>1
    <3> QED BY <3>1, KeepsSelf
  <2>2. Runs(start, planned, 0, start)
    <3> DEFINE g == [j \in {0} |-> start]
    <3>1. g[0] = start /\ \A j \in 0..0 : g[j] \in State
      OBVIOUS
    <3>2. 1..0 = {}
      OBVIOUS
    <3> QED BY <3>1, <3>2 DEF Runs
  <2>3. b \in Accs /\ b.m = start /\ b.planned = planned /\ b.ok
    BY <1>1 DEF Accs
  <2> QED BY <2>1, <2>2, <2>3 DEF Replaying
<1>3. ASSUME NEW g
      PROVE  /\ Replaying(planned, start, strict, n, Replay(planned, start, strict))
             /\ Leads(g, planned, start) => Follows(planned, g, n, Replay(planned, start, strict))
  <2> DEFINE q == [planned |-> planned, start |-> start, strict |-> strict, g |-> g]
  <2>1. q.planned = planned /\ q.start = start /\ q.strict = strict /\ q.g = g
    OBVIOUS
  <2> HIDE DEF q
  <2>2. ReplayInv(q, l, 0, b)
    <3>1. Leads(g, planned, start) => Follows(planned, g, 0, b)
      BY DEF Leads, Follows
    <3> HIDE DEF b, l
    <3> QED BY <1>2, <2>1, <3>1 DEF ReplayInv
  <2>3. \A i \in 1..n : \A x : ReplayInv(q, l, i - 1, x) => ReplayInv(q, l, i, ReplayStep(q, x, l[i]))
    <3> TAKE i \in 1..n
    <3> TAKE x
    <3> HAVE ReplayInv(q, l, i - 1, x)
    <3>1. /\ Replaying(planned, start, strict, i - 1, x)
          /\ Leads(g, planned, start) => Follows(planned, g, i - 1, x)
      BY <2>1 DEF ReplayInv
    <3>2. Replaying(planned, start, strict, i, ReplayStep(q, x, i))
      BY <2>1, <3>1, ReplayNext
    <3>3. Leads(g, planned, start) => Follows(planned, g, i, ReplayStep(q, x, i))
      BY <2>1, <3>1, ReplayFollows
    <3>4. l[i] = i
      OBVIOUS
    <3> HIDE DEF l
    <3> QED BY <2>1, <3>2, <3>3, <3>4 DEF ReplayInv
  <2> HIDE DEF l, b, n
  <2>4. ReplayInv(q, l, n, ReplayLeft!FoldedLeft(q, b, l))
    BY <1>1, <2>2, <2>3, ReplayHolds
  <2>5. Replay(planned, start, strict) = ReplayLeft!FoldedLeft(q, b, l)
    <3>1. Replay(q.planned, q.start, q.strict)
           = ReplayLeft!FoldedLeft(q, [ok |-> TRUE, m |-> q.start, planned |-> q.planned],
                      [s \in 1..Len(q.planned) |-> s])
      BY ReplayFold
    <3> QED BY <2>1, <3>1 DEF b, l, n
  <2> QED BY <2>1, <2>4, <2>5 DEF ReplayInv, n
<1> QED BY <1>3

\* What is planned of the calls of a first pass: the same lines, in order,
\* skipped where the first pass skipped them, and absorbed as it absorbed
\* them or not at all.
Plans(first, p) ==
  /\ p \in Seq(Line) /\ Len(p) = Len(first)
  /\ \A s \in 1..Len(p) : p[s].call = first[s].call /\ (p[s].kind = "skip" <=> first[s].kind = "skip")
  /\ Absorbings(p)

\* Calls unwound are replayable, and lead where the first pass went.
LEMMA UnwindIs ==
  ASSUME NEW p \in Seq(Line), Absorbings(p), \A s \in 1..Len(p) : Shaped(p[s])
  PROVE  Playable(Unwind(p)) /\ Plans(p, Unwind(p))
<1> DEFINE u == Unwind(p)
<1>1. DOMAIN u = 1..Len(p) /\ Len(p) \in Nat /\ u = [s \in 1..Len(p) |-> u[s]]
  BY DEF Unwind
<1>2. ASSUME NEW s \in 1..Len(p)
      PROVE  /\ u[s] \in Line /\ Shaped(u[s]) /\ u[s].call = p[s].call
             /\ u[s].kind = IF p[s].kind = "skip" THEN "skip" ELSE "land"
             /\ u[s].absorbed = <<>>
  <2>1. p[s] \in Line /\ Shaped(p[s])
    OBVIOUS
  <2>2. p[s].call \in Call /\ p[s].faithful \in Seq(Op) /\ p[s].absorbed \in Seq(Nat)
    <3> DEFINE e == p[s]
    <3>1. e \in Line
      OBVIOUS
    <3> HIDE DEF e
    <3>2. e.call \in Call /\ e.faithful \in Seq(Op) /\ e.absorbed \in Seq(Nat)
      BY <3>1 DEF Line
    <3> QED BY <3>2 DEF e
  <2>3. CASE p[s].kind = "skip"
    <3>1. u[s] = p[s]
      BY <2>3 DEF Unwind
    <3>2. \A k \in 1..Len(p[s].absorbed) : FALSE
      <4> TAKE k \in 1..Len(p[s].absorbed)
      <4>1. Names(p, s, k, p[s].absorbed[k])
        BY DEF Names
      <4> QED BY <2>3, <4>1 DEF Absorbings
    <3>3. p[s].absorbed = <<>>
      BY <2>2, <3>2
    <3> QED BY <2>1, <2>3, <3>1, <3>3
  <2>4. CASE p[s].kind # "skip"
    <3>1. u[s] = Landing(p[s].call, p[s].faithful)
      BY <2>4 DEF Unwind
    <3>2. Lined(u[s], p[s].call, "land", p[s].faithful)
      BY <2>2, <3>1, LineIs
    <3>3. /\ u[s] \in Line /\ u[s].call = p[s].call /\ u[s].kind = "land" /\ u[s].ops = p[s].faithful
          /\ u[s].faithful = p[s].faithful /\ u[s].absorbed = <<>>
      BY <3>2 DEF Lined
    <3> HIDE DEF u
    <3> QED BY <2>1, <2>4, <3>3 DEF Shaped
  <2> QED BY <2>3, <2>4
<1> HIDE DEF u
<1>3. u \in Seq(Line) /\ Len(u) = Len(p)
  <2>1. \A s \in 1..Len(p) : u[s] \in Line
    BY <1>2
  <2>2. u \in [1..Len(p) -> Line]
    BY <1>1, <2>1
  <2> QED BY <1>1, <2>2
<1>4. \A s \in 1..Len(p) : u[s].absorbed = <<>> /\ u[s].kind # "absorbed"
  <2> TAKE s \in 1..Len(p)
  <2> QED BY <1>2
<1>5. Playable(u)
  <2>1. \A s \in 1..Len(p) : Shaped(u[s]) /\ \A k \in 1..Len(u[s].absorbed) : u[s].absorbed[k] \in 1..Len(u)
    <3> TAKE s \in 1..Len(p)
    <3>1. u[s].absorbed = <<>> /\ Shaped(u[s])
      BY <1>2
    <3> QED BY <3>1
  <2> QED BY <1>3, <2>1 DEF Playable
<1>6. Absorbings(u)
  <2>1. \A s, k, j : ~Names(u, s, k, j)
    <3> TAKE s, k, j
    <3>1. s \in 1..Len(p) => u[s].absorbed = <<>>
      BY <1>4
    <3> QED BY <1>3, <3>1 DEF Names
  <2> QED BY <1>3, <1>4, <2>1 DEF Absorbings
<1>7. \A s \in 1..Len(u) : u[s].call = p[s].call /\ (u[s].kind = "skip" <=> p[s].kind = "skip")
  <2> TAKE s \in 1..Len(u)
  <2>1. s \in 1..Len(p)
    BY <1>3
  <2> QED BY <1>2, <2>1
<1> QED BY <1>3, <1>5, <1>6, <1>7 DEF Plans, u

\* unwind: the calls as written apply one after another.
LEMMA UnwindLeads ==
  ASSUME NEW p \in Seq(Line), NEW start, NEW m, Chained(start, p, m)
  PROVE  \E g : Leads(g, Unwind(p), start)
<1>1. PICK g : g[0] = start /\ \A k \in 1..Len(p) : Wrote(p[k], g[k - 1], g[k])
  BY DEF Chained
<1>2. Len(Unwind(p)) = Len(p)
  <2>1. Unwind(p) = [s \in 1..Len(p) |-> Unwind(p)[s]] /\ Len(p) \in Nat
    BY DEF Unwind
  <2> QED BY <2>1
<1>3. ASSUME NEW s \in 1..Len(p)
      PROVE  IF Unwind(p)[s].kind = "land" THEN ApplyIntent(g[s - 1], Unwind(p)[s].ops) = Fresh(g[s])
             ELSE g[s] = g[s - 1]
  <2>1. Wrote(p[s], g[s - 1], g[s])
    BY <1>1
  <2>2. CASE p[s].kind = "skip"
    <3>1. Unwind(p)[s] = p[s]
      BY <2>2 DEF Unwind
    <3> QED BY <2>1, <2>2, <3>1 DEF Wrote
  <2>3. CASE p[s].kind # "skip"
    <3>1. Unwind(p)[s] = Landing(p[s].call, p[s].faithful)
      BY <2>3 DEF Unwind
    <3>2. Unwind(p)[s].kind = "land" /\ Unwind(p)[s].ops = p[s].faithful
      BY <3>1 DEF Landing
    <3>3. Ran(Fresh(g[s - 1]), p[s].faithful) = Fresh(g[s])
      BY <2>1, <2>3 DEF Wrote
    <3>4. ApplyIntent(g[s - 1], p[s].faithful) = Fresh(g[s])
      BY <3>3 DEF ApplyIntent, Ran, Fresh
    <3> QED BY <3>2, <3>4
  <2> QED BY <2>2, <2>3
<1> QED BY <1>1, <1>2, <1>3 DEF Leads

-----------------------------------------------------------------------------
(* Sequences joined.                                                       *)

\* Each element of a joined sequence is in one of the sequences, each of
\* theirs is in it, and when no two of theirs are equal no two of its are.
Joined(f, l, n) ==
  /\ \A i \in DOMAIN f : \E s \in 1..n : \E k \in DOMAIN l[s] : f[i] = l[s][k]
  /\ \A s \in 1..n : \A k \in DOMAIN l[s] : \E i \in DOMAIN f : f[i] = l[s][k]
DistinctIn(l, n) ==
  \A s, t \in 1..n : \A k \in DOMAIN l[s] : \A i \in DOMAIN l[t] : l[s][k] = l[t][i] => s = t /\ k = i

\* One more sequence joined to the others.
LEMMA JoinedMore ==
  ASSUME NEW X, NEW l, NEW n \in Nat, NEW f \in Seq(X), l[n + 1] \in Seq(X), Joined(f, l, n),
         DistinctIn(l, n) => IsInjective(f)
  PROVE  /\ f \o l[n + 1] \in Seq(X) /\ Joined(f \o l[n + 1], l, n + 1)
         /\ DistinctIn(l, n + 1) => IsInjective(f \o l[n + 1])
<1> DEFINE e == l[n + 1]
           g == f \o e
<1>1. /\ g \in Seq(X) /\ Len(f) \in Nat /\ Len(e) \in Nat
      /\ DOMAIN f = 1..Len(f) /\ DOMAIN e = 1..Len(e) /\ DOMAIN g = 1..Len(f) + Len(e)
      /\ \A i \in 1..Len(f) : g[i] = f[i]
      /\ \A i \in 1..Len(e) : g[Len(f) + i] = e[i]
  OBVIOUS
<1> HIDE DEF g
<1>2. \A i \in DOMAIN g : i \in DOMAIN f \/ \E k \in DOMAIN e : i = Len(f) + k
  <2> TAKE i \in DOMAIN g
  <2>1. CASE i <= Len(f)
    BY <1>1, <2>1
  <2>2. CASE ~(i <= Len(f))
    <3>1. i - Len(f) \in 1..Len(e) /\ i = Len(f) + (i - Len(f))
      BY <1>1, <2>2
    <3> QED BY <1>1, <3>1
  <2> QED BY <2>1, <2>2
<1>3. /\ \A i \in DOMAIN f : i \in DOMAIN g /\ g[i] = f[i]
      /\ \A k \in DOMAIN e : Len(f) + k \in DOMAIN g /\ g[Len(f) + k] = e[k]
  BY <1>1
<1>4. 1..n \subseteq 1..n + 1 /\ n + 1 \in 1..n + 1 /\ \A s \in 1..n + 1 : s \in 1..n \/ s = n + 1
  OBVIOUS
<1>5. \A s \in 1..n : s # n + 1
  OBVIOUS
<1>6. Joined(g, l, n + 1)
  <2>1. \A i \in DOMAIN g : \E s \in 1..n + 1 : \E k \in DOMAIN l[s] : g[i] = l[s][k]
    <3> TAKE i \in DOMAIN g
    <3>1. CASE i \in DOMAIN f
      BY <1>3, <1>4, <3>1 DEF Joined
    <3>2. ASSUME NEW k \in DOMAIN e, i = Len(f) + k PROVE \E s \in 1..n + 1 : \E j \in DOMAIN l[s] : g[i] = l[s][j]
      BY <1>3, <1>4, <3>2
    <3> QED BY <1>2, <3>1, <3>2
  <2>2. \A s \in 1..n + 1 : \A k \in DOMAIN l[s] : \E i \in DOMAIN g : g[i] = l[s][k]
    <3> TAKE s \in 1..n + 1
    <3> TAKE k \in DOMAIN l[s]
    <3>1. CASE s \in 1..n
      BY <1>3, <3>1 DEF Joined
    <3>2. CASE s = n + 1
      BY <1>3, <3>2
    <3> QED BY <1>4, <3>1, <3>2
  <2> QED BY <2>1, <2>2 DEF Joined
<1>7. ASSUME DistinctIn(l, n + 1) PROVE IsInjective(g)
  <2>1. DistinctIn(l, n) /\ IsInjective(f)
    BY <1>4, <1>7 DEF DistinctIn
  <2>2. ASSUME NEW i \in DOMAIN f, NEW k \in DOMAIN e, f[i] = e[k] PROVE FALSE
    <3>1. PICK s \in 1..n : \E j \in DOMAIN l[s] : f[i] = l[s][j]
      BY DEF Joined
    <3> QED BY <1>4, <1>5, <1>7, <2>2, <3>1 DEF DistinctIn
  <2>3. \A j, k \in DOMAIN e : e[j] = e[k] => j = k
    BY <1>4, <1>7 DEF DistinctIn
  <2>4. ASSUME NEW i \in DOMAIN g, NEW j \in DOMAIN g, g[i] = g[j] PROVE i = j
    <3>1. CASE i \in DOMAIN f /\ j \in DOMAIN f
      BY <1>3, <2>1, <2>4, <3>1 DEF IsInjective
    <3>2. ASSUME i \in DOMAIN f, NEW k \in DOMAIN e, j = Len(f) + k PROVE FALSE
      BY <1>3, <2>2, <2>4, <3>2
    <3>3. ASSUME j \in DOMAIN f, NEW k \in DOMAIN e, i = Len(f) + k PROVE FALSE
      BY <1>3, <2>2, <2>4, <3>3
    <3>4. ASSUME NEW k \in DOMAIN e, i = Len(f) + k, NEW m \in DOMAIN e, j = Len(f) + m PROVE i = j
      BY <1>3, <2>3, <2>4, <3>4
    <3> QED BY <1>2, <3>1, <3>2, <3>3, <3>4
  <2> QED BY <2>4 DEF IsInjective
<1> QED BY <1>1, <1>6, <1>7 DEF g

\* The join of the first k sequences of l.
Flats(f, l, k, X) == f \in Seq(X) /\ Joined(f, l, k) /\ (DistinctIn(l, k) => IsInjective(f))

\* Sequences flattened are joined.
LEMMA FlattenIs ==
  ASSUME NEW X, NEW l \in Seq(Seq(X))
  PROVE  Flats(FlattenSeq(l), l, Len(l), X)
<1> DEFINE n == Len(l)
<1>1. n \in Nat /\ DOMAIN l = 1..n /\ \A s \in 1..n : l[s] \in Seq(X)
  OBVIOUS
<1>2. PICK h : Flattens(h, l) /\ FlattenSeq(l) = h[n]
  BY FlatIs
<1>3. h[0] = <<>> /\ \A i \in 1..n : h[i] = h[i - 1] \o l[i]
  BY <1>2 DEF Flattens
<1> HIDE DEF n
<1> DEFINE Done == {k \in Nat : k <= n => Flats(h[k], l, k, X)}
<1>4. 0 \in Done
  <2>1. <<>> \in Seq(X) /\ DOMAIN <<>> = {} /\ 1..0 = {}
    OBVIOUS
  <2>2. Flats(<<>>, l, 0, X)
    BY <2>1 DEF Flats, Joined, IsInjective
  <2> QED BY <1>3, <2>2
<1>5. \A k \in Nat : k \in Done => k + 1 \in Done
  <2> TAKE k \in Nat
  <2> HAVE k \in Done
  <2> SUFFICES ASSUME k + 1 <= n PROVE Flats(h[k + 1], l, k + 1, X)
    OBVIOUS
  <2>1. k <= n /\ k + 1 \in 1..n /\ (k + 1) - 1 = k
    BY <1>1
  <2>2. h[k + 1] = h[k] \o l[k + 1]
    BY <1>3, <2>1
  <2>3. Flats(h[k], l, k, X) /\ l[k + 1] \in Seq(X)
    BY <1>1, <2>1
  <2> QED BY <2>2, <2>3, JoinedMore DEF Flats
<1>6. Nat \subseteq Done
  <2> HIDE DEF Done
  <2> QED BY <1>4, <1>5, Induction
<1>7. Flats(h[n], l, n, X)
  BY <1>1, <1>6
<1> QED BY <1>2, <1>7 DEF n

\* Lines of the same calls, landing and absorbed as in plan p.
Same(p, q) ==
  /\ q \in Seq(Line) /\ Len(q) = Len(p) /\ Len(p) \in Nat
  /\ \A s \in 1..Len(p) : q[s].call = p[s].call /\ q[s].kind = p[s].kind /\ q[s].absorbed = p[s].absorbed

\* Plans that are the same but for texts absorb the same;
LEMMA SameAbsorbings ==
  ASSUME NEW p, NEW q, Same(p, q), Absorbings(p)
  PROVE  Absorbings(q)
<1>1. \A s, k, j : Names(q, s, k, j) <=> Names(p, s, k, j)
  BY DEF Same, Names
<1>2. \A s \in 1..Len(p) : q[s].kind = p[s].kind
  BY DEF Same
<1>3. \A s, k, j : Names(p, s, k, j) => s \in 1..Len(p)
  BY DEF Names
<1>4. Len(q) = Len(p)
  BY DEF Same
<1>5. \A s, k, j : Names(q, s, k, j) =>
        j \in 1..Len(q) /\ s < j /\ q[j].kind = "absorbed" /\ q[s].kind = "land"
  <2> TAKE s, k, j
  <2> HAVE Names(q, s, k, j)
  <2>1. Names(p, s, k, j) /\ s \in 1..Len(p)
    BY <1>1, <1>3
  <2>2. j \in 1..Len(p) /\ s < j /\ p[j].kind = "absorbed" /\ p[s].kind = "land"
    BY <2>1 DEF Absorbings
  <2> QED BY <1>2, <1>4, <2>1, <2>2
<1>6. \A j \in 1..Len(q) : q[j].kind = "absorbed" => \E s, k : Names(q, s, k, j)
  <2> TAKE j \in 1..Len(q)
  <2> HAVE q[j].kind = "absorbed"
  <2>1. j \in 1..Len(p) /\ p[j].kind = "absorbed"
    BY <1>2, <1>4
  <2>2. PICK s, k : Names(p, s, k, j)
    BY <2>1 DEF Absorbings
  <2> QED BY <1>1, <2>2
<1>7. \A s, k, t, i, j : Names(q, s, k, j) /\ Names(q, t, i, j) => s = t /\ k = i
  <2> TAKE s, k, t, i, j
  <2> HAVE Names(q, s, k, j) /\ Names(q, t, i, j)
  <2>1. Names(p, s, k, j) /\ Names(p, t, i, j)
    BY <1>1
  <2> QED BY <2>1 DEF Absorbings
<1> QED BY <1>5, <1>6, <1>7 DEF Absorbings

\* they account for the same calls,
LEMMA SamePlans ==
  ASSUME NEW p, NEW q, Same(p, q), Absorbings(p)
  PROVE  Plans(p, q)
<1>1. Absorbings(q)
  BY SameAbsorbings
<1>2. \A s \in 1..Len(q) : q[s].call = p[s].call /\ (q[s].kind = "skip" <=> p[s].kind = "skip")
  BY DEF Same
<1> QED BY <1>1, <1>2 DEF Plans, Same

\* also one after another.
LEMMA PlansOn ==
  ASSUME NEW p, NEW q, NEW r, Plans(p, q), Same(q, r)
  PROVE  Plans(p, r)
<1>1. Absorbings(r)
  BY SameAbsorbings DEF Plans
<1>2. \A s \in 1..Len(r) : r[s].call = p[s].call /\ (r[s].kind = "skip" <=> p[s].kind = "skip")
  <2> TAKE s \in 1..Len(r)
  <2>1. s \in 1..Len(q)
    BY DEF Same
  <2> QED BY <2>1 DEF Same, Plans
<1> QED BY <1>1, <1>2 DEF Plans, Same

\* A replay that skipped nothing has the same lines.
LEMMA ReplaySame ==
  ASSUME NEW p, Playable(p), NEW start, NEW strict, NEW acc, Replaying(p, start, strict, Len(p), acc),
         \A s \in 1..Len(p) : acc.planned[s].kind = p[s].kind
  PROVE  Same(p, acc.planned)
<1>1. acc.planned \in Seq(Line) /\ Len(acc.planned) = Len(p) /\ Len(p) \in Nat
  BY DEF Replaying, Accs, Playable
<1>2. \A s \in 1..Len(p) : Keeps(acc.planned[s], p[s])
  BY DEF Replaying
<1> QED BY <1>1, <1>2 DEF Same, Keeps

\* align leaves a plan that can be replayed, the same but for its texts.
LEMMA AlignPlayable ==
  ASSUME NEW obs, Obs(obs), Tracked(obs), Absorbings(obs.planned),
         \A s \in 1..Len(obs.planned) : Shaped(obs.planned[s]), NEW live \in State
  PROVE  Playable(Align(obs, live)) /\ Same(obs.planned, Align(obs, live))
<1> DEFINE p == obs.planned
           a == Align(obs, live)
<1>1. p \in Seq(Line) /\ Len(p) \in Nat
  BY DEF Obs
<1>2. a \in Seq(Line) /\ Len(a) = Len(p) /\ \A s \in 1..Len(p) : Similar(a[s], p[s])
  BY AlignIs
<1> HIDE DEF a
<1>3. Same(p, a)
  BY <1>1, <1>2 DEF Same, Similar
<1>4. Absorbings(a)
  BY <1>3, SameAbsorbings
<1>5. \A s \in 1..Len(a) : Shaped(a[s]) /\ \A k \in 1..Len(a[s].absorbed) : a[s].absorbed[k] \in 1..Len(a)
  <2> TAKE s \in 1..Len(a)
  <2>1. s \in 1..Len(p)
    BY <1>2
  <2>2. Shaped(a[s])
    BY <1>2, <2>1, SimilarShape
  <2>3. \A k \in 1..Len(a[s].absorbed) : Names(a, s, k, a[s].absorbed[k])
    BY DEF Names
  <2> QED BY <1>4, <2>2, <2>3 DEF Absorbings
<1>6. Playable(a)
  BY <1>2, <1>5 DEF Playable
<1> QED BY <1>3, <1>6 DEF a

\* A plan to land on `start`, of the calls of a first pass.
Planned(start, first, plan) ==
  /\ Plans(first, plan.planned) /\ plan.m \in State
  /\ Runs(start, plan.planned, Len(plan.planned), plan.m)

\* plan: what is settled on, aligned or unwound.
LEMMA SettledIs ==
  ASSUME NEW start \in State, NEW obs, Obs(obs), Tracked(obs), Absorbings(obs.planned),
         \A s \in 1..Len(obs.planned) : Shaped(obs.planned[s]), Chained(start, obs.planned, obs.m),
         NEW live \in State
  PROVE  Planned(start, obs.planned, Against(obs, start, live))
<1> DEFINE p == obs.planned
           a == Align(obs, live)
           u == Unwind(p)
           sa == Replay(a, start, TRUE)
           su == Replay(u, start, FALSE)
<1>1. p \in Seq(Line)
  BY DEF Obs
<1>2. Playable(a) /\ Same(p, a)
  BY AlignPlayable
<1>3. Playable(u) /\ Plans(p, u)
  BY <1>1, UnwindIs
<1>4. Replaying(a, start, TRUE, Len(a), sa)
  BY <1>2, ReplayIs
<1>5. Replaying(u, start, FALSE, Len(u), su)
  BY <1>3, ReplayIs
<1>6. PICK g : Leads(g, u, start)
  BY <1>1, UnwindLeads
<1>7. Follows(u, g, Len(u), su)
  BY <1>3, <1>6, ReplayIs
<1>8. Against(obs, start, live) = IF sa.ok THEN sa ELSE su
  BY DEF Against, Settled
<1> HIDE DEF a, u, sa, su
<1>9. CASE sa.ok
  <2>1. /\ Len(sa.planned) = Len(a)
        /\ \A s \in 1..Len(a) : sa.planned[s].kind = a[s].kind
        /\ sa.m \in State /\ Runs(start, sa.planned, Len(a), sa.m)
    BY <1>4, <1>9 DEF Replaying, Accs
  <2>2. Same(a, sa.planned)
    BY <1>2, <1>4, <2>1, ReplaySame
  <2>3. Plans(p, sa.planned)
    BY <1>2, <2>2, SamePlans, PlansOn
  <2> QED BY <1>8, <1>9, <2>1, <2>3 DEF Planned
<1>10. CASE ~sa.ok
  <2>1. /\ Len(su.planned) = Len(u)
        /\ \A s \in 1..Len(u) : su.planned[s].kind = u[s].kind
        /\ su.m \in State /\ Runs(start, su.planned, Len(u), su.m)
    BY <1>5, <1>7 DEF Replaying, Accs, Follows
  <2>2. Same(u, su.planned)
    BY <1>3, <1>5, <2>1, ReplaySame
  <2>3. Plans(p, su.planned)
    BY <1>3, <2>2, PlansOn
  <2> QED BY <1>8, <1>10, <2>1, <2>3 DEF Planned
<1> QED BY <1>9, <1>10

\* plan: what it yields of the calls that were not recorded.
LEMMA PlanIs ==
  ASSUME NEW start \in State, NEW calls \in Seq(Call), NEW recorded, NEW live \in State
  PROVE  /\ Planned(start, Observed(start, calls, recorded).planned, Plan(start, calls, recorded, live))
         /\ Passed(start, recorded, calls, Len(calls), Observed(start, calls, recorded))
<1> DEFINE obs == Observed(start, calls, recorded)
<1>1. Passed(start, recorded, calls, Len(calls), obs)
  BY ObservedIs
<1>2. Plan(start, calls, recorded, live) = Against(obs, start, live)
  BY DEF Plan
<1> HIDE DEF obs
<1>3. Planned(start, obs.planned, Against(obs, start, live))
  BY <1>1, SettledIs DEF Passed
<1> QED BY <1>1, <1>2, <1>3 DEF obs

-----------------------------------------------------------------------------
(* Every call is accounted for.                                            *)

\* A plan that follows from a first pass accounts for its calls.
LEMMA AccountedIs ==
  ASSUME NEW first, NEW p, Plans(first, p)
  PROVE  Accounted(p, first)
<1> DEFINE n == Len(p)
           l == [k \in 1..n |-> IF p[k].kind = "land" THEN p[k].absorbed ELSE <<>>]
<1>1. n \in Nat /\ p \in Seq(Line) /\ Absorbings(p)
  BY DEF Plans
<1>2. l \in Seq(Seq(Nat)) /\ Len(l) = n
  <2>1. ASSUME NEW k \in 1..n PROVE p[k].absorbed \in Seq(Nat)
    <3> DEFINE e == p[k]
    <3>1. e \in Line
      BY <1>1
    <3> HIDE DEF e
    <3>2. e.absorbed \in Seq(Nat)
      BY <3>1 DEF Line
    <3> QED BY <3>2 DEF e
  <2>2. \A k \in 1..n : l[k] \in Seq(Nat)
    BY <2>1
  <2>3. l = [k \in 1..n |-> l[k]]
    OBVIOUS
  <2> HIDE DEF l
  <2>4. l \in [1..n -> Seq(Nat)]
    BY <2>2, <2>3
  <2> QED BY <1>1, <2>3, <2>4
<1>3. /\ FlattenSeq(l) \in Seq(Nat) /\ Joined(FlattenSeq(l), l, n)
      /\ DistinctIn(l, n) => IsInjective(FlattenSeq(l))
  BY <1>2, FlattenIs DEF Flats
<1>4. \A s \in 1..n : \A k \in DOMAIN l[s] : Names(p, s, k, l[s][k]) /\ l[s] = p[s].absorbed
  <2> TAKE s \in 1..n
  <2> TAKE k \in DOMAIN l[s]
  <2>1. CASE p[s].kind = "land"
    <3>1. l[s] = p[s].absorbed /\ l[s] \in Seq(Nat)
      BY <1>2, <2>1
    <3>2. k \in 1..Len(p[s].absorbed)
      BY <3>1
    <3> QED BY <3>1, <3>2 DEF Names
  <2>2. CASE p[s].kind # "land"
    <3>1. l[s] = <<>>
      BY <2>2
    <3> QED BY <3>1
  <2> QED BY <2>1, <2>2
<1>5. \A s, k, j : Names(p, s, k, j) => s \in 1..n /\ k \in DOMAIN l[s] /\ l[s][k] = j
  <2> TAKE s, k, j
  <2> HAVE Names(p, s, k, j)
  <2>1. s \in 1..n /\ p[s].kind = "land" /\ k \in 1..Len(p[s].absorbed) /\ p[s].absorbed[k] = j
    BY <1>1 DEF Names, Absorbings
  <2>2. l[s] = p[s].absorbed /\ l[s] \in Seq(Nat)
    BY <1>2, <2>1
  <2> QED BY <2>1, <2>2
<1> HIDE DEF l, n
<1>6. DistinctIn(l, n)
  <2> SUFFICES ASSUME NEW s \in 1..n, NEW t \in 1..n, NEW k \in DOMAIN l[s], NEW i \in DOMAIN l[t],
                      l[s][k] = l[t][i]
               PROVE  s = t /\ k = i
    BY DEF DistinctIn
  <2>1. Names(p, s, k, l[s][k]) /\ Names(p, t, i, l[s][k])
    BY <1>4
  <2> QED BY <1>1, <2>1 DEF Absorbings
<1>7. Range(FlattenSeq(l)) = {k \in 1..n : p[k].kind = "absorbed"}
  <2>1. ASSUME NEW i \in DOMAIN FlattenSeq(l)
        PROVE  FlattenSeq(l)[i] \in {k \in 1..n : p[k].kind = "absorbed"}
    <3>1. PICK s \in 1..n : \E k \in DOMAIN l[s] : FlattenSeq(l)[i] = l[s][k]
      BY <1>3 DEF Joined
    <3>2. PICK k \in DOMAIN l[s] : FlattenSeq(l)[i] = l[s][k]
      BY <3>1
    <3>3. Names(p, s, k, l[s][k])
      BY <1>4
    <3>4. l[s][k] \in 1..n /\ p[l[s][k]].kind = "absorbed"
      BY <1>1, <3>3 DEF Absorbings, n
    <3> QED BY <3>2, <3>4
  <2>2. ASSUME NEW j \in 1..n, p[j].kind = "absorbed" PROVE \E i \in DOMAIN FlattenSeq(l) : FlattenSeq(l)[i] = j
    <3>1. PICK s, k : Names(p, s, k, j)
      BY <1>1, <2>2 DEF Absorbings, n
    <3>2. s \in 1..n /\ k \in DOMAIN l[s] /\ l[s][k] = j
      BY <1>5, <3>1
    <3> QED BY <1>3, <3>2 DEF Joined
  <2> QED BY <2>1, <2>2 DEF Range
<1>8. \A k \in {k \in 1..n : p[k].kind = "land"} : \A j \in Range(p[k].absorbed) : k < j
  <2> TAKE k \in {k \in 1..n : p[k].kind = "land"}
  <2> TAKE j \in Range(p[k].absorbed)
  <2>1. PICK i \in DOMAIN p[k].absorbed : p[k].absorbed[i] = j
    BY DEF Range
  <2>2. p[k].absorbed \in Seq(Nat)
    <3> DEFINE e == p[k]
    <3>1. e \in Line
      BY <1>1 DEF n
    <3> HIDE DEF e
    <3>2. e.absorbed \in Seq(Nat)
      BY <3>1 DEF Line
    <3> QED BY <3>2 DEF e
  <2>3. Names(p, k, i, j)
    BY <2>1, <2>2 DEF Names, n
  <2> QED BY <1>1, <2>3 DEF Absorbings
<1>9. {k \in 1..n : p[k].kind = "skip"} = {k \in 1..n : first[k].kind = "skip"}
  BY DEF Plans, n
<1> QED BY <1>3, <1>6, <1>7, <1>8, <1>9 DEF Accounted, l, n

-----------------------------------------------------------------------------
(* The intent synthesized for a change.                                    *)

\* SetToSeq lists a finite set, each element once.
LEMMA ListIs ==
  ASSUME NEW T, IsFiniteSet(T)
  PROVE  /\ SetToSeq(T) \in Seq(T) /\ IsInjective(SetToSeq(T))
         /\ DOMAIN SetToSeq(T) = 1..Len(SetToSeq(T)) /\ Len(SetToSeq(T)) \in Nat
         /\ \A x \in T : \E i \in 1..Len(SetToSeq(T)) : SetToSeq(T)[i] = x
<1> DEFINE n == Cardinality(T)
           l == SetToSeq(T)
<1>1. n \in Nat /\ \E f : f \in Bijection(1..n, T)
  BY FS_CardinalityType DEF ExistsBijection
<1>2. PICK f : f \in [1..n -> T] /\ IsInjective(f)
  BY <1>1 DEF Bijection, Injection
<1>3. l \in [1..n -> T] /\ IsInjective(l)
  BY <1>2 DEF SetToSeq
<1> HIDE DEF l
<1>4. l \in Seq(T) /\ Len(l) = n /\ DOMAIN l = 1..n
  BY <1>1, <1>3
<1>5. l \in Surjection(1..n, T)
  <2>1. l \in Injection(1..n, T)
    BY <1>3 DEF Injection
  <2>2. Cardinality(1..n) = n
    BY <1>1, FS_Interval
  <2> QED BY <2>1, <2>2, FS_Injection
<1>6. \A x \in T : \E i \in 1..n : l[i] = x
  BY <1>5 DEF Surjection
<1> QED BY <1>1, <1>3, <1>4, <1>6 DEF l

\* The pieces of a content put together.
LEMMA WholeIs ==
  ASSUME NEW c \in Content, NEW i \in Nat, NEW j \in Nat, i <= j, j <= Len(c)
  PROVE  Slice(c, 0, i) \o Slice(c, i, j) \o Slice(c, j, Len(c)) = c
<1> DEFINE w == Slice(c, i, j)
           t == Splice(c, i, j, w)
           d == Len(w) - (j - i)
<1>1. w \in Content /\ Len(w) = j - i /\ \A k \in 1..j - i : w[k] = c[i + k]
  BY SliceIs
<1> HIDE DEF w
<1>2. Moved(t, c, i, j, w, d)
  BY <1>1, SplicePoints
<1>3. d = 0
  BY <1>1
<1> HIDE DEF t, d
<1>4. /\ t \in Content /\ Len(c) \in Nat /\ Len(t) = Len(c)
      /\ \A k \in Nat : 0 < k /\ k <= i => t[k] = c[k]
      /\ \A k \in Nat : i < k /\ k <= j => t[k] = w[k - i]
      /\ \A k \in Nat : j < k /\ k <= Len(c) => t[k] = c[k]
  <2>1. i + Len(w) = j
    BY <1>1
  <2>2. \A k \in Nat : j < k /\ k <= Len(c) => t[k + d] = c[k]
    BY <1>2 DEF Moved
  <2>3. \A k \in Nat : k + d = k
    BY <1>3
  <2>4. \A k \in Nat : j < k /\ k <= Len(c) => t[k] = c[k]
    BY <2>2, <2>3
  <2>5. \A k \in Nat : i < k /\ k <= j => t[k] = w[k - i]
    BY <1>2, <2>1 DEF Moved
  <2>6. Len(t) = Len(c) /\ t \in Content /\ Len(c) \in Nat
    BY <1>2, <1>3 DEF Moved
  <2>7. \A k \in Nat : 0 < k /\ k <= i => t[k] = c[k]
    BY <1>2 DEF Moved
  <2> QED BY <2>4, <2>5, <2>6, <2>7
<1>5. \A k \in 1..Len(c) : t[k] = c[k]
  <2> TAKE k \in 1..Len(c)
  <2>1. k \in Nat /\ 0 < k /\ k <= Len(c)
    BY <1>4
  <2>2. CASE i < k /\ k <= j
    <3>1. k - i \in 1..j - i /\ i + (k - i) = k
      BY <2>1, <2>2
    <3>2. w[k - i] = c[i + (k - i)]
      BY <1>1, <3>1
    <3> QED BY <1>4, <2>1, <2>2, <3>1, <3>2
  <2> QED BY <1>4, <2>1, <2>2
<1>6. t \in Seq(Bytes) /\ c \in Seq(Bytes)
  BY <1>4 DEF Content
<1>7. t = c
  BY ONLY <1>4, <1>5, <1>6
<1> QED BY <1>7 DEF t, w, Splice

Spans(c, i, j) == c \in Content /\ i \in Nat /\ j \in Nat /\ i <= j /\ j <= Len(c)
Alike(c, i, j, d, u, v) == j - i = v - u /\ \A k \in 1..j - i : c[i + k] = d[u + k]

\* Slices that are alike byte by byte are the same,
LEMMA SlicesAgree ==
  ASSUME NEW c, NEW i, NEW j, NEW d, NEW u, NEW v, Spans(c, i, j), Spans(d, u, v), Alike(c, i, j, d, u, v)
  PROVE  Slice(c, i, j) = Slice(d, u, v)
<1> DEFINE a == Slice(c, i, j)
           b == Slice(d, u, v)
<1>1. a \in Content /\ Len(a) = j - i /\ \A k \in 1..j - i : a[k] = c[i + k]
  BY SliceIs DEF Spans
<1>2. b \in Content /\ Len(b) = v - u /\ \A k \in 1..v - u : b[k] = d[u + k]
  BY SliceIs DEF Spans
<1> HIDE DEF a, b
<1>3. a \in Seq(Bytes) /\ b \in Seq(Bytes) /\ Len(a) = Len(b) /\ \A k \in 1..Len(a) : a[k] = b[k]
  BY <1>1, <1>2 DEF Content, Alike
<1>4. a = b
  BY <1>3
<1> QED BY <1>4 DEF a, b

\* and the same ones are alike.
LEMMA SlicesSay ==
  ASSUME NEW c, NEW i, NEW j, NEW d, NEW u, NEW v, Spans(c, i, j), Spans(d, u, v), j - i = v - u,
         Slice(c, i, j) = Slice(d, u, v)
  PROVE  Alike(c, i, j, d, u, v)
<1>1. \A k \in 1..j - i : Slice(c, i, j)[k] = c[i + k]
  BY SliceIs DEF Spans
<1>2. \A k \in 1..v - u : Slice(d, u, v)[k] = d[u + k]
  BY SliceIs DEF Spans
<1> QED BY <1>1, <1>2 DEF Alike

\* synthesize_edit: a span that occurs once, whose replacement gives the new
\* content.
LEMMA SynthesizeIs ==
  ASSUME NEW old \in Content, NEW new \in Content, old # <<>>
  PROVE  LET e == SynthesizeEdit(old, new)
         IN  /\ e.old \in Content /\ e.new \in Content
             /\ Unique(old, e.old) /\ Replaced(old, e.old, e.new) = new
<1> DEFINE head == CommonHead(old, new)
           tail == CommonTail(old, new, head)
           n == Len(old)
           m == Len(new)
           p(k) == Max({0, head - k})
           s(k) == Max({0, tail - k})
           tight == {k \in 0..n : Unique(old, Slice(old, p(k), n - s(k)))}
           j == Min(tight)
           e == SynthesizeEdit(old, new)
<1>1. /\ head \in Nat /\ tail \in Nat /\ head + tail <= n /\ head + tail <= m
      /\ Slice(old, 0, head) = Slice(new, 0, head)
      /\ Slice(old, n - tail, n) = Slice(new, m - tail, m)
  BY CommonIs
<1>2. n \in Nat /\ m \in Nat
  BY DEF Content
<1>3. e = [old |-> Slice(old, p(j), n - s(j)), new |-> Slice(new, p(j), m - s(j))]
  BY DEF SynthesizeEdit
<1>0. n = Len(old) /\ m = Len(new)
  OBVIOUS
<1> HIDE DEF head, tail, e, n, m
<1>4. \A k \in Nat : p(k) = (IF head <= k THEN 0 ELSE head - k) /\ s(k) = (IF tail <= k THEN 0 ELSE tail - k)
  <2> TAKE k \in Nat
  <2>1. ASSUME NEW h \in Nat PROVE Max({0, h - k}) = IF h <= k THEN 0 ELSE h - k
    <3>1. CASE h <= k
      <4>1. \A x \in {0, h - k} : 0 >= x
        BY <3>1
      <4>2. \A y \in {0, h - k} : (\A x \in {0, h - k} : y >= x) => y = 0
        BY <3>1
      <4> QED BY <3>1, <4>1, <4>2 DEF Max
    <3>2. CASE ~(h <= k)
      <4>1. h - k \in Nat /\ \A x \in {0, h - k} : h - k >= x
        BY <3>2
      <4>2. \A y \in {0, h - k} : (\A x \in {0, h - k} : y >= x) => y = h - k
        BY <3>2
      <4> QED BY <3>2, <4>1, <4>2 DEF Max
    <3> QED BY <3>1, <3>2
  <2> QED BY <1>1, <2>1
<1> HIDE DEF p, s
<1>5. j \in 0..n /\ Unique(old, Slice(old, p(j), n - s(j)))
  <2>1. tight \subseteq Nat
    BY <1>2
  <2>2. n \in tight
    <3>1. p(n) = 0 /\ s(n) = 0
      BY <1>1, <1>2, <1>4
    <3>2. Slice(old, 0, n) = old /\ Unique(old, old)
      BY WholeOnce DEF n
    <3> QED BY <1>2, <3>1, <3>2
  <2>3. j \in tight
    BY <2>1, <2>2, MinIn
  <2> QED BY <2>3
<1> HIDE DEF j, tight
<1> DEFINE a == p(j)
           b == s(j)
<1>6. a \in Nat /\ b \in Nat /\ a <= head /\ b <= tail
  <2>1. j \in Nat
    BY <1>2, <1>5
  <2> QED BY <1>1, <1>4, <2>1
<1> HIDE DEF a, b
<1> DEFINE o == Slice(old, a, n - b)
           w == Slice(new, a, m - b)
<1>7. /\ a <= n - b /\ a <= m - b /\ n - b \in Nat /\ m - b \in Nat /\ n - b <= n /\ m - b <= m
      /\ a <= n /\ a <= m
  BY <1>1, <1>2, <1>6
<1>8. e.old = o /\ e.new = w /\ Unique(old, o)
  BY <1>3, <1>5 DEF a, b
<1>9. o \in Content /\ w \in Content /\ Len(o) = n - b - a
  BY <1>6, <1>7, SliceIs DEF n, m
<1>10. Place(old, o) = a
  <2>1. a + Len(o) = n - b
    BY <1>6, <1>7, <1>9, <1>2
  <2>2. Slice(old, a, a + Len(o)) = o
    BY <2>1
  <2>3. o # <<>>
    BY <1>8, <1>9, PlaceIs
  <2>4. a \in 0..Len(old) - Len(o)
    BY <1>2, <1>6, <1>7, <1>9 DEF n
  <2> HIDE DEF o
  <2>5. a \in Occurrences(old, o)
    BY <2>2, <2>3, <2>4 DEF Occurrences
  <2>6. Occurrences(old, o) = {Place(old, o)}
    BY <1>8, <1>9, PlaceIs
  <2> QED BY <2>5, <2>6
<1>11. Slice(old, 0, a) = Slice(new, 0, a)
  <2>1. Spans(old, 0, head) /\ Spans(new, 0, head) /\ Spans(old, 0, a) /\ Spans(new, 0, a)
    BY <1>0, <1>1, <1>2, <1>6, <1>7 DEF Spans
  <2>2. Alike(old, 0, head, new, 0, head)
    BY <1>1, <2>1, SlicesSay
  <2>3. Alike(old, 0, a, new, 0, a)
    <3>1. \A k \in 1..head - 0 : old[0 + k] = new[0 + k]
      BY <2>2 DEF Alike
    <3>2. \A k \in 1..a - 0 : old[0 + k] = new[0 + k]
      <4> TAKE k \in 1..a - 0
      <4>1. k \in 1..head - 0
        BY <1>1, <1>6
      <4> QED BY <3>1, <4>1
    <3> QED BY <3>2 DEF Alike
  <2> QED BY <2>1, <2>3, SlicesAgree
<1>12. Slice(old, n - b, n) = Slice(new, m - b, m)
  <2> DEFINE x == n - tail
             y == m - tail
             u == n - b
             v == m - b
  <2>1. /\ x \in Nat /\ y \in Nat /\ x <= n /\ y <= m /\ u \in Nat /\ v \in Nat /\ u <= n /\ v <= m
        /\ n - x = tail /\ m - y = tail /\ n - u = b /\ m - v = b
        /\ \A k \in 1..b : tail - b + k \in 1..tail /\ x + (tail - b + k) = u + k /\ y + (tail - b + k) = v + k
    BY <1>1, <1>2, <1>6
  <2>2. Slice(old, x, n) = Slice(new, y, m)
    BY <1>1
  <2> HIDE DEF x, y, u, v
  <2>3. Spans(old, x, n) /\ Spans(new, y, m) /\ Spans(old, u, n) /\ Spans(new, v, m)
    BY <1>0, <1>2, <2>1 DEF Spans
  <2>4. Alike(old, x, n, new, y, m)
    BY <2>1, <2>2, <2>3, SlicesSay
  <2>5. Alike(old, u, n, new, v, m)
    <3>1. \A k \in 1..n - x : old[x + k] = new[y + k]
      BY <2>4 DEF Alike
    <3>2. \A k \in 1..n - u : old[u + k] = new[v + k]
      <4> TAKE k \in 1..n - u
      <4>1. /\ tail - b + k \in 1..n - x /\ x + (tail - b + k) = u + k
            /\ y + (tail - b + k) = v + k
        BY <2>1
      <4> QED BY <3>1, <4>1
    <3>3. n - u = m - v
      BY <2>1
    <3> QED BY <3>2, <3>3 DEF Alike
  <2>6. Slice(old, u, n) = Slice(new, v, m)
    BY <2>3, <2>5, SlicesAgree
  <2> QED BY <2>6 DEF u, v
<1>13. Replaced(old, o, w) = new
  <2>1. a + Len(o) = n - b
    BY <1>6, <1>7, <1>9, <1>2
  <2>2. Replaced(old, o, w) = Slice(old, 0, a) \o w \o Slice(old, n - b, n)
    BY <1>10, <2>1 DEF Replaced, Splice, n
  <2>3. Slice(new, 0, a) \o Slice(new, a, m - b) \o Slice(new, m - b, m) = new
    BY <1>6, <1>7, WholeIs DEF m
  <2> QED BY <1>11, <1>12, <2>2, <2>3
<1> QED BY <1>8, <1>9, <1>13 DEF e

\* What each kind of operation does where it applies (apply_intent).
Create(x, c) == [op |-> "create", path |-> x, content |-> c]
Delete(x, c) == [op |-> "delete", path |-> x, content |-> c]
Edit(x, e) == [op |-> "edit", path |-> x, old |-> e.old, new |-> e.new]

\* A create applies where nothing is,
LEMMA CreateRuns ==
  ASSUME NEW w \in State, NEW x \in Paths, w[x] = NoFile, NEW c
  PROVE  ApplyOp(Fresh(w), Create(x, c)) = Fresh([w EXCEPT ![x] = c])
BY DEF ApplyOp, Create, Fresh

\* a delete where its content is,
LEMMA DeleteRuns ==
  ASSUME NEW w \in State, NEW x \in Paths
  PROVE  ApplyOp(Fresh(w), Delete(x, w[x])) = Fresh([w EXCEPT ![x] = NoFile])
BY DEF ApplyOp, Delete, Fresh

\* an edit where its old text occurs once.
LEMMA EditRuns ==
  ASSUME NEW w \in State, NEW x \in Paths, w[x] # NoFile, NEW e, Unique(w[x], e.old)
  PROVE  ApplyOp(Fresh(w), Edit(x, e)) = Fresh([w EXCEPT ![x] = Replaced(w[x], e.old, e.new)])
BY DEF ApplyOp, Edit, Fresh

\* The operations of synthesize_intent on one path.
OpsAt(m, n, x) ==
  LET create == [op |-> "create", path |-> x, content |-> n[x]]
      delete == [op |-> "delete", path |-> x, content |-> m[x]]
      e == SynthesizeEdit(m[x], n[x])
  IN  CASE m[x] = n[x] -> <<>>
        [] m[x] # n[x] /\ m[x] = NoFile -> <<create>>
        [] m[x] # n[x] /\ n[x] = NoFile -> <<delete>>
        [] m[x] = <<>> /\ n[x] \notin {NoFile, <<>>} -> <<delete, create>>
        [] OTHER -> <<[op |-> "edit", path |-> x, old |-> e.old, new |-> e.new]>>

\* synthesize_intent, at one path.
LEMMA OpsAtCases ==
  ASSUME NEW m \in State, NEW n \in State, NEW x \in Paths
  PROVE  \/ m[x] = n[x] /\ OpsAt(m, n, x) = <<>>
         \/ m[x] = NoFile /\ n[x] \in Content /\ OpsAt(m, n, x) = <<Create(x, n[x])>>
         \/ m[x] \in Content /\ n[x] = NoFile /\ OpsAt(m, n, x) = <<Delete(x, m[x])>>
         \/ /\ m[x] \in Content /\ n[x] \in Content
            /\ OpsAt(m, n, x) = <<Delete(x, m[x]), Create(x, n[x])>>
         \/ /\ m[x] \in Content /\ n[x] \in Content /\ m[x] # <<>>
            /\ OpsAt(m, n, x) = <<Edit(x, SynthesizeEdit(m[x], n[x]))>>
<1> DEFINE a == m[x]
           b == n[x]
           e == SynthesizeEdit(a, b)
           create == [op |-> "create", path |-> x, content |-> b]
           delete == [op |-> "delete", path |-> x, content |-> a]
           edit == [op |-> "edit", path |-> x, old |-> e.old, new |-> e.new]
           D1 == a = b
           D2 == a # b /\ a = NoFile
           D3 == a # b /\ b = NoFile
           D4 == a = <<>> /\ b \notin {NoFile, <<>>}
<1>1. OpsAt(m, n, x) = CASE D1 -> <<>>
                         [] D2 -> <<create>>
                         [] D3 -> <<delete>>
                         [] D4 -> <<delete, create>>
                         [] OTHER -> <<edit>>
  BY DEF OpsAt
<1>2. a \in Content \cup {NoFile} /\ b \in Content \cup {NoFile}
  BY DEF State
<1>3. create = Create(x, b) /\ delete = Delete(x, a) /\ edit = Edit(x, e)
  BY DEF Create, Delete, Edit
<1>4. NoFile # <<>>
  <2>1. <<>> \in Seq(Bytes)
    OBVIOUS
  <2> QED BY <2>1, PlanAssumption DEF Content
<1>0. NoFile \notin Content
  BY PlanAssumption
<1> HIDE DEF a, b
<1>5. /\ D1 => ~D2 /\ ~D3 /\ ~D4
      /\ D2 => ~D1 /\ ~D3 /\ ~D4
      /\ D3 => ~D1 /\ ~D2 /\ ~D4
      /\ D4 => ~D1 /\ ~D2 /\ ~D3
  BY <1>4
<1>6. /\ D1 => a = b
      /\ D2 => a = NoFile /\ b \in Content
      /\ D3 => a \in Content /\ b = NoFile
      /\ D4 => a \in Content /\ b \in Content
      /\ ~D1 /\ ~D2 /\ ~D3 /\ ~D4 => a \in Content /\ b \in Content /\ a # <<>>
  <2>1. (D1 => a = b) /\ (D2 => a = NoFile /\ b \in Content) /\ (D3 => a \in Content /\ b = NoFile)
    BY ONLY <1>2
  <2>2. D4 => a \in Content /\ b \in Content
    BY ONLY <1>2, <1>4
  <2>3. ~D1 /\ ~D2 /\ ~D3 /\ ~D4 => a \in Content /\ b \in Content /\ a # <<>>
    BY ONLY <1>2, <1>4
  <2> QED BY ONLY <2>1, <2>2, <2>3
<1> HIDE DEF create, delete, edit, D1, D2, D3, D4, e
<1>7. CASE D1
  <2>1. OpsAt(m, n, x) = <<>>
    BY <1>1, <1>5, <1>7
  <2> QED BY <1>6, <1>7, <2>1 DEF a, b
<1>8. CASE D2
  <2>1. OpsAt(m, n, x) = <<create>>
    BY <1>1, <1>5, <1>8
  <2> QED BY <1>3, <1>6, <1>8, <2>1 DEF a, b
<1>9. CASE D3
  <2>1. OpsAt(m, n, x) = <<delete>>
    BY <1>1, <1>5, <1>9
  <2> QED BY <1>3, <1>6, <1>9, <2>1 DEF a, b
<1>10. CASE D4
  <2>1. OpsAt(m, n, x) = <<delete, create>>
    BY <1>1, <1>5, <1>10
  <2> QED BY <1>3, <1>6, <1>10, <2>1 DEF a, b
<1>11. CASE ~D1 /\ ~D2 /\ ~D3 /\ ~D4
  <2>1. OpsAt(m, n, x) = <<edit>>
    BY <1>1, <1>11
  <2>2. e = SynthesizeEdit(m[x], n[x])
    BY DEF e, a, b
  <2> QED BY <1>3, <1>6, <1>11, <2>1, <2>2 DEF a, b
<1> QED BY <1>7, <1>8, <1>9, <1>10, <1>11

\* They are operations, and turn what the path held into what it is to hold.
Turned(w, n, x) == [w EXCEPT ![x] = n[x]]

\* The operations at a path turn it into what it is to hold.
LEMMA OpsAtRun ==
  ASSUME NEW m \in State, NEW n \in State, NEW x \in Paths, NEW w \in State, w[x] = m[x]
  PROVE  /\ OpsAt(m, n, x) \in Seq(Op)
         /\ Ran(Fresh(w), OpsAt(m, n, x)) = Fresh(Turned(w, n, x))
<1> DEFINE v == [w EXCEPT ![x] = n[x]]
<1>0. v = Turned(w, n, x)
  BY DEF Turned
<1>1. CASE m[x] = n[x] /\ OpsAt(m, n, x) = <<>>
  <2>1. v = w
    BY <1>1 DEF State
  <2>2. Ran(Fresh(w), <<>>) = Fresh(w)
    BY RanSingle
  <2> QED BY <1>0, <1>1, <2>1, <2>2
<1>2. CASE m[x] = NoFile /\ n[x] \in Content /\ OpsAt(m, n, x) = <<Create(x, n[x])>>
  <2>1. Create(x, n[x]) \in Op
    BY <1>2 DEF Create, Op, Creates
  <2>2. Ran(Fresh(w), <<Create(x, n[x])>>) = Fresh(v)
    BY <1>2, CreateRuns, RanSingle
  <2>3. <<Create(x, n[x])>> \in Seq(Op)
    BY <2>1
  <2> QED BY <1>0, <1>2, <2>2, <2>3
<1>3. CASE m[x] \in Content /\ n[x] = NoFile /\ OpsAt(m, n, x) = <<Delete(x, m[x])>>
  <2>1. Delete(x, m[x]) \in Op
    BY <1>3 DEF Delete, Op, Deletes
  <2>2. Ran(Fresh(w), <<Delete(x, m[x])>>) = Fresh(v)
    BY <1>3, DeleteRuns, RanSingle
  <2>3. <<Delete(x, m[x])>> \in Seq(Op)
    BY <2>1
  <2> QED BY <1>0, <1>3, <2>2, <2>3
<1>4. CASE m[x] \in Content /\ n[x] \in Content /\ OpsAt(m, n, x) = <<Delete(x, m[x]), Create(x, n[x])>>
  <2> DEFINE d == Delete(x, m[x])
             c == Create(x, n[x])
             z == [w EXCEPT ![x] = NoFile]
  <2>1. d \in Op /\ c \in Op
    BY <1>4 DEF Delete, Create, Op, Creates, Deletes
  <2>2. ApplyOp(Fresh(w), d) = Fresh(z)
    BY DeleteRuns
  <2>3. z \in State /\ z[x] = NoFile
    BY DEF State
  <2>4. ApplyOp(Fresh(z), c) = Fresh([z EXCEPT ![x] = n[x]])
    BY <2>3, CreateRuns
  <2>5. [z EXCEPT ![x] = n[x]] = v
    BY DEF State
  <2> HIDE DEF d, c, z
  <2>6. Ran(Fresh(w), <<d, c>>) = Fresh(v)
    BY <2>2, <2>4, <2>5, RanTwo
  <2>7. <<d, c>> \in Seq(Op)
    BY <2>1
  <2> QED BY <1>0, <1>4, <2>6, <2>7 DEF d, c
<1>5. CASE /\ m[x] \in Content /\ n[x] \in Content /\ m[x] # <<>>
           /\ OpsAt(m, n, x) = <<Edit(x, SynthesizeEdit(m[x], n[x]))>>
  <2> DEFINE e == SynthesizeEdit(m[x], n[x])
  <2>1. e.old \in Content /\ e.new \in Content /\ Unique(m[x], e.old) /\ Replaced(m[x], e.old, e.new) = n[x]
    BY <1>5, SynthesizeIs
  <2> HIDE DEF e
  <2>2. Edit(x, e) \in Op
    BY <2>1 DEF Edit, Op, Edits
  <2>3. w[x] # NoFile
    BY <1>5, PlanAssumption
  <2>4. ApplyOp(Fresh(w), Edit(x, e)) = Fresh(v)
    BY <2>1, <2>3, EditRuns
  <2>5. Ran(Fresh(w), <<Edit(x, e)>>) = Fresh(v)
    BY <2>4, RanSingle
  <2>6. <<Edit(x, e)>> \in Seq(Op)
    BY <2>2
  <2> QED BY <1>0, <1>5, <2>5, <2>6 DEF e
<1> QED BY <1>1, <1>2, <1>3, <1>4, <1>5, OpsAtCases DEF Turned

\* synthesize_intent: path by path, from one state to the other.
SynthStep(p, acc, x) == acc \o OpsAt(p.m, p.n, x)
Halfway(m, n, l, k) == [x \in Paths |-> IF \E i \in 1..k : l[i] = x THEN n[x] ELSE m[x]]
SynthInv(p, l, k, acc) == acc \in Seq(Op) /\ Ran(Fresh(p.m), acc) = Fresh(Halfway(p.m, p.n, l, k))
SynthLeft == INSTANCE StepFolds WITH FoldStep <- SynthStep, FoldInv <- SynthInv

\* Induction, for this fold.
LEMMA SynthInducts == SynthLeft!Inducts
BY Inducting DEF SynthLeft!Inducts

\* synthesize_intent, as a fold.
LEMMA SynthFold ==
  ASSUME NEW p
  PROVE  SynthesizeIntent(p.m, p.n) = SynthLeft!FoldedLeft(p, <<>>, SetToSeq(Paths))
BY DEF SynthesizeIntent, SynthLeft!FoldedLeft, SynthStep, OpsAt, FoldLeft, MapThenFoldSet, Max

\* The state when some of the paths are turned, and one more.
LEMMA HalfwayNext ==
  ASSUME NEW m \in State, NEW n \in State, NEW l \in Seq(Paths), IsInjective(l), NEW k \in 1..Len(l)
  PROVE  /\ Halfway(m, n, l, k - 1) \in State /\ Halfway(m, n, l, k - 1)[l[k]] = m[l[k]]
         /\ Halfway(m, n, l, k) = Turned(Halfway(m, n, l, k - 1), n, l[k])
<1> DEFINE w == Halfway(m, n, l, k - 1)
           v == Halfway(m, n, l, k)
<1>1. /\ l[k] \in Paths /\ DOMAIN l = 1..Len(l)
      /\ \A i \in 1..k : i \in DOMAIN l /\ (i \in 1..k - 1 \/ i = k)
      /\ \A i \in 1..k - 1 : i \in 1..k /\ i # k
  OBVIOUS
<1>2. \A i \in 1..k - 1 : l[i] # l[k]
  BY <1>1 DEF IsInjective
<1>3. w \in State
  BY DEF Halfway, State
<1>4. w[l[k]] = m[l[k]]
  BY <1>1, <1>2 DEF Halfway
<1>5. \A x \in Paths : v[x] = IF x = l[k] THEN n[l[k]] ELSE w[x]
  <2> TAKE x \in Paths
  <2>1. k \in 1..k
    OBVIOUS
  <2>2. (\E i \in 1..k : l[i] = x) <=> ((\E i \in 1..k - 1 : l[i] = x) \/ x = l[k])
    BY <1>1, <2>1
  <2>3. v[x] = IF \E i \in 1..k : l[i] = x THEN n[x] ELSE m[x]
    BY DEF Halfway
  <2>4. w[x] = IF \E i \in 1..k - 1 : l[i] = x THEN n[x] ELSE m[x]
    BY DEF Halfway
  <2> HIDE DEF v, w
  <2> QED BY <2>2, <2>3, <2>4
<1>6. v = [x \in Paths |-> v[x]] /\ w = [x \in Paths |-> w[x]]
  BY DEF Halfway
<1> HIDE DEF v, w
<1>7. v = [w EXCEPT ![l[k]] = n[l[k]]]
  BY <1>1, <1>5, <1>6
<1> QED BY <1>3, <1>4, <1>7 DEF v, w, Turned

\* synthesize_intent tells the difference of any two states.
LEMMA SynthesizeIntentIs ==
  ASSUME NEW m \in State, NEW n \in State
  PROVE  /\ SynthesizeIntent(m, n) \in Seq(Op)
         /\ ApplyIntent(m, SynthesizeIntent(m, n)) = Fresh(n)
<1> DEFINE l == SetToSeq(Paths)
           p == [m |-> m, n |-> n]
           z == Len(l)
<1>1. /\ l \in Seq(Paths) /\ IsInjective(l) /\ DOMAIN l = 1..z /\ z \in Nat
      /\ \A x \in Paths : \E i \in 1..z : l[i] = x
  BY ListIs, PlanAssumption
<1>2. p.m = m /\ p.n = n
  OBVIOUS
<1> HIDE DEF l, p, z
<1>3. SynthInv(p, l, 0, <<>>)
  <2>1. 1..0 = {}
    OBVIOUS
  <2>2. Halfway(m, n, l, 0) = [x \in Paths |-> m[x]]
    BY <2>1 DEF Halfway
  <2>3. Halfway(m, n, l, 0) = m
    BY <2>2 DEF State
  <2>4. Ran(Fresh(m), <<>>) = Fresh(m)
    BY RanSingle
  <2> QED BY <1>2, <2>3, <2>4 DEF SynthInv
<1>4. \A i \in 1..z : \A x : SynthInv(p, l, i - 1, x) => SynthInv(p, l, i, SynthStep(p, x, l[i]))
  <2> TAKE i \in 1..z
  <2> TAKE x
  <2> HAVE SynthInv(p, l, i - 1, x)
  <2> DEFINE w == Halfway(m, n, l, i - 1)
             y == l[i]
  <2>1. x \in Seq(Op) /\ Ran(Fresh(m), x) = Fresh(w)
    BY <1>2 DEF SynthInv
  <2>2. w \in State /\ w[y] = m[y] /\ Halfway(m, n, l, i) = Turned(w, n, y) /\ y \in Paths
    <3>1. i \in 1..Len(l) /\ l \in Seq(Paths) /\ IsInjective(l) /\ m \in State /\ n \in State
      BY <1>1 DEF z
    <3>2. y \in Paths
      BY <1>1
    <3> QED BY ONLY <3>1, <3>2, HalfwayNext
  <2> HIDE DEF w, y
  <2>3. OpsAt(m, n, y) \in Seq(Op) /\ Ran(Fresh(w), OpsAt(m, n, y)) = Fresh(Turned(w, n, y))
    BY ONLY <2>2, m \in State, n \in State, OpsAtRun
  <2>4. x \o OpsAt(m, n, y) \in Seq(Op)
    BY <2>1, <2>3
  <2>5. Ran(Fresh(m), x \o OpsAt(m, n, y)) = Ran(Ran(Fresh(m), x), OpsAt(m, n, y))
    BY <2>1, <2>3, RanJoin
  <2>6. Ran(Fresh(m), x \o OpsAt(m, n, y)) = Fresh(Halfway(m, n, l, i))
    BY <2>1, <2>2, <2>3, <2>5
  <2>7. SynthStep(p, x, l[i]) = x \o OpsAt(m, n, y)
    BY <1>2 DEF SynthStep, y
  <2> QED BY <1>2, <2>4, <2>6, <2>7 DEF SynthInv
<1>5. SynthInv(p, l, z, SynthLeft!FoldedLeft(p, <<>>, l))
  BY <1>1, <1>3, <1>4, SynthInducts, SynthLeft!FoldHolds
<1> DEFINE r == SynthesizeIntent(m, n)
<1>6. r = SynthLeft!FoldedLeft(p, <<>>, l)
  <2>1. SynthesizeIntent(p.m, p.n) = SynthLeft!FoldedLeft(p, <<>>, SetToSeq(Paths))
    BY SynthFold
  <2> QED BY <1>2, <2>1 DEF l
<1> HIDE DEF r
<1>7. r \in Seq(Op) /\ Ran(Fresh(m), r) = Fresh(Halfway(m, n, l, z))
  BY <1>2, <1>5, <1>6 DEF SynthInv
<1>8. Halfway(m, n, l, z) = n
  <2>1. Halfway(m, n, l, z) = [x \in Paths |-> n[x]]
    BY <1>1 DEF Halfway
  <2> QED BY <2>1 DEF State
<1>9. ApplyIntent(m, r) = Fresh(n)
  BY <1>7, <1>8 DEF ApplyIntent, Ran, Fresh
<1> QED BY <1>7, <1>9 DEF r

-----------------------------------------------------------------------------
(* What the editor makes of a content.                                     *)

SweepStep(p, c, at) == Splice(c, at, at + Len(p.old), p.new)
SweepInv(p, l, k, c) == c \in Content /\ (k > 0 => l[k] <= Len(c))
SweepLeft == INSTANCE StepFolds WITH FoldStep <- SweepStep, FoldInv <- SweepInv

\* Induction, for this fold.
LEMMA SweepInducts == SweepLeft!Inducts
BY Inducting DEF SweepLeft!Inducts

\* One pass of replacements, as a fold from the right.
LEMMA SweepFold ==
  ASSUME NEW c, NEW p
  PROVE  OnePass(c, p.old, p.new) = SweepLeft!FoldedRight(p, c, Starts(c, p.old))
BY DEF OnePass, SweepLeft!FoldedRight, SweepStep, FoldRight, MapThenFoldSet, Min

\* It makes a content.
LEMMA OnePassType ==
  ASSUME NEW c \in Content, NEW old \in Content, NEW new \in Content
  PROVE  OnePass(c, old, new) \in Content
<1> DEFINE p == [old |-> old, new |-> new]
           l == Starts(c, old)
           n == Len(l)
<1>1. p.old = old /\ p.new = new
  OBVIOUS
<1>2. Apart(c, old, l)
  BY StartsAre
<1>3. l \in Seq(Nat) /\ n \in Nat /\ DOMAIN l = 1..n /\ \A k \in 1..n : l[k] \in Nat
  BY <1>2 DEF Apart
<1>4. Len(old) \in Nat /\ Len(c) \in Nat
  BY DEF Content
<1>5. \A k \in 1..n : l[k] <= Len(c)
  <2> TAKE k \in 1..n
  <2>1. l[k] + Len(old) <= Len(c)
    BY <1>2 DEF Apart
  <2> QED BY <1>3, <1>4, <2>1
<1>6. \A k \in 1..n : k - 1 > 0 => l[k - 1] <= l[k]
  <2> TAKE k \in 1..n
  <2> HAVE k - 1 > 0
  <2> DEFINE j == k - 1
  <2>1. j \in 1..n - 1 /\ j + 1 = k /\ j \in 1..n
    BY <1>3
  <2>2. l[j] + Len(old) <= l[j + 1]
    BY <1>2, <2>1 DEF Apart
  <2> HIDE DEF j
  <2>3. l[j] \in Nat /\ l[k] \in Nat
    BY <1>3, <2>1
  <2>4. l[j] <= l[k]
    BY <1>4, <2>1, <2>2, <2>3
  <2> QED BY <2>4 DEF j
<1> HIDE DEF l, n, p
<1>7. SweepInv(p, l, n, c)
  <2>1. n > 0 => n \in 1..n
    BY <1>3
  <2> QED BY <1>5, <2>1 DEF SweepInv
<1>8. \A k \in 1..n : \A d : SweepInv(p, l, k, d) => SweepInv(p, l, k - 1, SweepStep(p, d, l[k]))
  <2> TAKE k \in 1..n
  <2> TAKE d
  <2> HAVE SweepInv(p, l, k, d)
  <2> DEFINE y == SweepStep(p, d, l[k])
  <2>1. d \in Content /\ l[k] <= Len(d)
    <3>1. k > 0
      BY <1>3
    <3> QED BY <3>1 DEF SweepInv
  <2>2. PICK i \in Nat : i = l[k]
    BY <1>3
  <2>3. y = Splice(d, i, i + Len(old), new)
    BY <1>1, <2>2 DEF SweepStep
  <2>4. i + Len(old) \in Nat /\ i \in Int /\ i >= 0
    BY <1>4
  <2> HIDE DEF y
  <2>5. y \in Content /\ i <= Len(y)
    BY <2>1, <2>2, <2>3, <2>4, SpliceLoose
  <2>6. k - 1 > 0 => l[k - 1] <= Len(y)
    <3> SUFFICES ASSUME k - 1 > 0 PROVE l[k - 1] <= Len(y)
      OBVIOUS
    <3>1. k - 1 \in 1..n
      BY <1>3
    <3>2. PICK u \in Nat : u = l[k - 1]
      BY <1>3, <3>1
    <3>3. u <= i
      BY <1>6, <2>2, <3>2
    <3>4. Len(y) \in Nat
      BY <2>5 DEF Content
    <3>5. u <= Len(y)
      BY <2>5, <3>3, <3>4
    <3> QED BY <3>2, <3>5
  <2> QED BY <2>5, <2>6 DEF SweepInv, y
<1>9. SweepInv(p, l, 0, SweepLeft!FoldedRight(p, c, l))
  BY <1>3, <1>7, <1>8, SweepInducts, SweepLeft!FoldRightHolds
<1>10. OnePass(c, old, new) = SweepLeft!FoldedRight(p, c, l)
  <2>1. OnePass(c, p.old, p.new) = SweepLeft!FoldedRight(p, c, Starts(c, p.old))
    BY SweepFold
  <2> QED BY <1>1, <2>1 DEF l
<1> QED BY <1>9, <1>10 DEF SweepInv

EditorStep(p, d, sp) ==
  IF \/ d = NoFile \/ Occurrences(d, sp.old) = {}
     \/ ~sp.all /\ ~Unique(d, sp.old)
  THEN NoFile
  ELSE OnePass(d, sp.old, sp.new)
EditorInv(p, l, k, d) == d \in Content \cup {NoFile}
EditorLeft == INSTANCE StepFolds WITH FoldStep <- EditorStep, FoldInv <- EditorInv

\* Induction, for this fold.
LEMMA EditorInducts == EditorLeft!Inducts
BY Inducting DEF EditorLeft!Inducts

\* The edits of a tool, as a fold.
LEMMA EditorFold ==
  ASSUME NEW c, NEW spans
  PROVE  Edited(c, spans) = EditorLeft!FoldedLeft(0, c, spans)
BY DEF Edited, EditorLeft!FoldedLeft, EditorStep, FoldLeft, MapThenFoldSet, Max

\* They make a content, or nothing.
LEMMA EditedType ==
  ASSUME NEW c \in Content \cup {NoFile}, NEW spans \in Seq(Span)
  PROVE  Edited(c, spans) \in Content \cup {NoFile}
<1> DEFINE n == Len(spans)
<1>1. n \in Nat /\ DOMAIN spans = 1..n /\ \A k \in 1..n : spans[k] \in Span
  OBVIOUS
<1>2. EditorInv(0, spans, 0, c)
  BY DEF EditorInv
<1> HIDE DEF n
<1>3. \A k \in 1..n : \A d : EditorInv(0, spans, k - 1, d) => EditorInv(0, spans, k, EditorStep(0, d, spans[k]))
  <2> TAKE k \in 1..n
  <2> TAKE d
  <2> HAVE EditorInv(0, spans, k - 1, d)
  <2> DEFINE sp == spans[k]
  <2>1. sp \in Span
    BY <1>1
  <2> HIDE DEF sp
  <2>2. sp.old \in Content /\ sp.new \in Content
    BY <2>1 DEF Span
  <2>3. CASE d = NoFile
    BY <2>3 DEF EditorInv, EditorStep
  <2>4. CASE d # NoFile
    <3>1. d \in Content
      BY <2>4 DEF EditorInv
    <3>2. OnePass(d, sp.old, sp.new) \in Content
      BY <2>2, <3>1, OnePassType
    <3>3. EditorStep(0, d, sp) = NoFile \/ EditorStep(0, d, sp) = OnePass(d, sp.old, sp.new)
      BY DEF EditorStep
    <3> QED BY <3>2, <3>3 DEF EditorInv, sp
  <2> QED BY <2>3, <2>4
<1>4. EditorInv(0, spans, n, EditorLeft!FoldedLeft(0, c, spans))
  BY <1>1, <1>2, <1>3, EditorInducts, EditorLeft!FoldHolds
<1> QED BY <1>4, EditorFold DEF EditorInv

-----------------------------------------------------------------------------
(* Transcripts, and the calls read from them.                              *)

Stamps == Sessions \X Nat
ReadEntry == [uuid : Stamps, kind : {"read"}, path : Paths]
CallEntry == [uuid : Stamps, kind : {"call"}, tool : Tools]
ResultEntry == [uuid : Stamps, kind : {"result"}, id : Stamps, error : BOOLEAN]
Entry == ReadEntry \cup CallEntry \cup ResultEntry

\* An entry's uuid has its place, in the transcript it was written to and in
\* those that continue it.
Transcript(l) == l \in Seq(Entry) /\ \A i \in 1..Len(l) : l[i].uuid[2] = i

\* What entries of a transcript hold.
LEMMA EntryKinds ==
  ASSUME NEW e \in Entry
  PROVE  /\ e.uuid \in Stamps /\ e.uuid[1] \in Sessions
         /\ e.kind = "read" => e.path \in Paths
         /\ e.kind = "call" => e.tool \in Tools
<1>1. CASE e \in ReadEntry
  BY <1>1 DEF ReadEntry, Stamps
<1>2. CASE e \in CallEntry
  BY <1>2 DEF CallEntry, Stamps
<1>3. CASE e \in ResultEntry
  BY <1>3 DEF ResultEntry, Stamps
<1> QED BY <1>1, <1>2, <1>3 DEF Entry

\* A transcript with an entry of its own more.
LEMMA TranscriptGrows ==
  ASSUME NEW l, Transcript(l), NEW e \in Entry, e.uuid[2] = Len(l) + 1
  PROVE  Transcript(Append(l, e))
BY DEF Transcript

CallsWith(errored, l) ==
  LET step(acc, e) ==
        CASE e.kind = "read" -> [acc EXCEPT !.reads = @ \cup {e.path}]
          [] e.kind = "call" /\ e.uuid \notin errored ->
               [reads |-> {},
                out |-> Append(acc.out, [id |-> e.uuid, tool |-> e.tool, reads |-> acc.reads])]
          [] OTHER -> acc
  IN  FoldLeft(step, [reads |-> {}, out |-> <<>>], l).out

ScribeStep(errored, acc, e) ==
  CASE e.kind = "read" -> [acc EXCEPT !.reads = @ \cup {e.path}]
    [] e.kind = "call" /\ e.uuid \notin errored ->
         [reads |-> {},
          out |-> Append(acc.out, [id |-> e.uuid, tool |-> e.tool, reads |-> acc.reads])]
    [] OTHER -> acc
Apiece(out) == \A i, j \in 1..Len(out) : out[i].id = out[j].id => i = j
ScribeInv(p, l, k, acc) ==
  /\ acc \in [reads : SUBSET Paths, out : Seq(Call)]
  /\ Apiece(acc.out)
  /\ \A i \in 1..Len(acc.out) : \E j \in 1..k : acc.out[i].id = l[j].uuid
  /\ \A j \in 1..k : l[j].kind = "call" /\ l[j].uuid \notin p
       => \E i \in 1..Len(acc.out) : acc.out[i].id = l[j].uuid
ScribeLeft == INSTANCE StepFolds WITH FoldStep <- ScribeStep, FoldInv <- ScribeInv

\* Induction, for this fold.
LEMMA ScribeInducts == ScribeLeft!Inducts
BY Inducting DEF ScribeLeft!Inducts

\* calls, as a fold.
LEMMA ScribeFold ==
  ASSUME NEW errored, NEW l
  PROVE  CallsWith(errored, l) = ScribeLeft!FoldedLeft(errored, [reads |-> {}, out |-> <<>>], l).out
BY DEF CallsWith, ScribeLeft!FoldedLeft, ScribeStep, FoldLeft, MapThenFoldSet, Max

\* A call more, with an id of its own.
LEMMA ApieceMore ==
  ASSUME NEW out \in Seq(Call), Apiece(out), NEW c \in Call, \A i \in 1..Len(out) : out[i].id # c.id
  PROVE  Append(out, c) \in Seq(Call) /\ Apiece(Append(out, c))
<1> DEFINE new == Append(out, c)
           n == Len(out)
<1>1. /\ new \in Seq(Call) /\ Len(new) = n + 1 /\ new[n + 1] = c /\ n \in Nat
      /\ \A i \in 1..n : new[i] = out[i]
      /\ \A i \in 1..n + 1 : i \in 1..n \/ i = n + 1
  OBVIOUS
<1>2. \A i \in 1..n : out[i].id # c.id
  OBVIOUS
<1>3. \A i, j \in 1..n : out[i].id = out[j].id => i = j
  BY DEF Apiece
<1> HIDE DEF new, n
<1>4. \A i, j \in 1..n + 1 : new[i].id = new[j].id => i = j
  BY <1>1, <1>2, <1>3
<1> QED BY <1>1, <1>4 DEF Apiece, new

\* Calls read from entries have ids of their own, and are all there.
Listing(errored, l, calls) ==
  /\ calls \in Seq(Call) /\ Apiece(calls)
  /\ \A j \in 1..Len(l) : l[j].kind = "call" /\ l[j].uuid \notin errored
       => \E i \in 1..Len(calls) : calls[i].id = l[j].uuid
LEMMA CallsWithIs ==
  ASSUME NEW errored, NEW l \in Seq(Entry), \A i, j \in 1..Len(l) : l[i].uuid = l[j].uuid => i = j
  PROVE  Listing(errored, l, CallsWith(errored, l))
<1> DEFINE n == Len(l)
           b == [reads |-> {}, out |-> <<>>]
<1>1. n \in Nat /\ DOMAIN l = 1..n /\ \A i \in 1..n : l[i] \in Entry
  OBVIOUS
<1>2. \A i, j \in 1..n : l[i].uuid = l[j].uuid => i = j
  OBVIOUS
<1>3. ScribeInv(errored, l, 0, b)
  BY DEF ScribeInv, Apiece
<1> HIDE DEF n, b
<1>4. \A i \in 1..n : \A x : ScribeInv(errored, l, i - 1, x) => ScribeInv(errored, l, i, ScribeStep(errored, x, l[i]))
  <2> TAKE i \in 1..n
  <2> TAKE x
  <2> HAVE ScribeInv(errored, l, i - 1, x)
  <2> DEFINE e == l[i]
             y == ScribeStep(errored, x, e)
  <2>1. e \in Entry
    BY <1>1
  <2>2. /\ x \in [reads : SUBSET Paths, out : Seq(Call)] /\ Apiece(x.out)
        /\ \A k \in 1..Len(x.out) : \E j \in 1..i - 1 : x.out[k].id = l[j].uuid
        /\ \A j \in 1..i - 1 : l[j].kind = "call" /\ l[j].uuid \notin errored
             => \E k \in 1..Len(x.out) : x.out[k].id = l[j].uuid
    BY DEF ScribeInv
  <2>3. x.reads \in SUBSET Paths /\ x.out \in Seq(Call)
    BY <2>2
  <2>4. \A j \in 1..i - 1 : j \in 1..i /\ j \in 1..n /\ j # i
    BY <1>1
  <2>a. i \in 1..i /\ \A j \in 1..i : j \in 1..i - 1 \/ j = i
    BY <1>1
  <2> HIDE DEF e
  <2>5. CASE e.kind = "read"
    <3>1. y = [x EXCEPT !.reads = @ \cup {e.path}]
      BY <2>5 DEF ScribeStep
    <3>2. e.path \in Paths
      BY <2>1, <2>5, EntryKinds
    <3>3. y \in [reads : SUBSET Paths, out : Seq(Call)] /\ y.out = x.out
      BY <2>2, <3>1, <3>2
    <3> HIDE DEF y
    <3>4. ~(l[i].kind = "call" /\ l[i].uuid \notin errored)
      BY <2>5 DEF e
    <3> QED BY <2>2, <2>4, <2>a, <3>3, <3>4 DEF ScribeInv, y, e
  <2>6. CASE e.kind = "call" /\ e.uuid \notin errored
    <3> DEFINE c == [id |-> e.uuid, tool |-> e.tool, reads |-> x.reads]
    <3>1. y = [reads |-> {}, out |-> Append(x.out, c)]
      BY <2>6 DEF ScribeStep
    <3>2. e.uuid \in Stamps /\ e.tool \in Tool
      BY <2>1, <2>6, EntryKinds, IngestAssumption
    <3>3. c \in Call /\ c.id = e.uuid
      BY <2>3, <3>2 DEF Call, Stamps
    <3> HIDE DEF c, y
    <3>4. \A k \in 1..Len(x.out) : x.out[k].id # c.id
      BY <1>1, <1>2, <2>2, <2>4, <3>3 DEF e
    <3>5. Append(x.out, c) \in Seq(Call) /\ Apiece(Append(x.out, c))
      BY <2>2, <2>3, <3>3, <3>4, ApieceMore
    <3>6. y \in [reads : SUBSET Paths, out : Seq(Call)] /\ y.out = Append(x.out, c)
      BY <3>1, <3>5
    <3>7. \A k \in 1..Len(y.out) : \E j \in 1..i : y.out[k].id = l[j].uuid
      <4> TAKE k \in 1..Len(y.out)
      <4>1. CASE k = Len(x.out) + 1
        <5>1. y.out[k] = c
          BY <2>3, <3>6, <4>1
        <5> QED BY <2>a, <3>3, <5>1 DEF e
      <4>2. CASE k # Len(x.out) + 1
        <5>1. k \in 1..Len(x.out) /\ y.out[k] = x.out[k]
          BY <2>3, <3>6, <4>2
        <5> QED BY <2>2, <2>4, <5>1
      <4> QED BY <4>1, <4>2
    <3>8. ASSUME NEW j \in 1..i, l[j].kind = "call", l[j].uuid \notin errored
          PROVE  \E k \in 1..Len(y.out) : y.out[k].id = l[j].uuid
      <4>1. Len(x.out) + 1 \in 1..Len(y.out) /\ y.out[Len(x.out) + 1] = c
            /\ \A k \in 1..Len(x.out) : k \in 1..Len(y.out) /\ y.out[k] = x.out[k]
        BY <2>3, <3>3, <3>6
      <4>2. CASE j = i
        BY <3>3, <4>1, <4>2 DEF e
      <4>3. CASE j # i
        <5>1. PICK k \in 1..Len(x.out) : x.out[k].id = l[j].uuid
          BY <2>2, <2>a, <3>8, <4>3
        <5> QED BY <4>1, <5>1
      <4> QED BY <4>2, <4>3
    <3> QED BY <3>5, <3>6, <3>7, <3>8 DEF ScribeInv, y, e
  <2>7. CASE e.kind # "read" /\ ~(e.kind = "call" /\ e.uuid \notin errored)
    <3>1. y = x
      BY <2>7 DEF ScribeStep
    <3>2. ~(l[i].kind = "call" /\ l[i].uuid \notin errored)
      BY <2>7 DEF e
    <3> QED BY <2>2, <2>4, <2>a, <3>1, <3>2 DEF ScribeInv, e
  <2> QED BY <2>5, <2>6, <2>7
<1>5. ScribeInv(errored, l, n, ScribeLeft!FoldedLeft(errored, b, l))
  BY <1>1, <1>3, <1>4, ScribeInducts, ScribeLeft!FoldHolds
<1>6. CallsWith(errored, l) = ScribeLeft!FoldedLeft(errored, b, l).out
  BY ScribeFold DEF b
<1> QED BY <1>5, <1>6 DEF ScribeInv, Listing, n

\* read_transcript: the origin is a place in the transcript, or past it, and
\* what the session wrote and no other has is not before it.
LEMMA OriginIs ==
  ASSUME NEW s \in Sessions, Transcript(entries[s])
  PROVE  /\ Origin(s) \in 1..Len(entries[s]) + 1
         /\ \A i \in 1..Len(entries[s]) :
              entries[s][i].uuid \notin Siblings(s) /\ entries[s][i].uuid[1] = s => Origin(s) <= i
<1> DEFINE T == {i \in 1..Len(entries[s]) : /\ entries[s][i].uuid \notin Siblings(s)
                                            /\ entries[s][i].uuid[1] = s}
           U == {Len(entries[s]) + 1} \cup T
<1>1. Len(entries[s]) \in Nat
  BY DEF Transcript
<1>2. T \subseteq 1..Len(entries[s])
  OBVIOUS
<1>3. Origin(s) = Min(U)
  BY DEF Origin
<1>a. \A i \in 1..Len(entries[s]) :
        entries[s][i].uuid \notin Siblings(s) /\ entries[s][i].uuid[1] = s => i \in T
  OBVIOUS
<1> HIDE DEF T
<1> DEFINE n == Len(entries[s])
<1> HIDE DEF n
<1>4. U \subseteq 1..n + 1 /\ U \subseteq Nat /\ U # {}
  <2>1. T \subseteq 1..n /\ n \in Nat /\ U = {n + 1} \cup T
    BY <1>1, <1>2 DEF n
  <2> HIDE DEF U
  <2> QED BY <2>1
<1>b. T \subseteq U
  OBVIOUS
<1> HIDE DEF U
<1>5. Min(U) \in U /\ \A i \in U : Min(U) <= i
  BY <1>4, MinIn
<1> QED BY <1>3, <1>4, <1>5, <1>a, <1>b DEF n

\* So are those of a session: the ones it made and no other has are there.
LEMMA CallsAre ==
  ASSUME NEW s \in Sessions, Transcript(entries[s])
  PROVE  /\ Calls(s) \in Seq(Call) /\ Apiece(Calls(s))
         /\ \A e \in OwnCalls(s) : e.uuid \notin Siblings(s)
              => \E i \in 1..Len(Calls(s)) : Calls(s)[i].id = e.uuid
<1> DEFINE t == entries[s]
           o == Origin(s)
           l == SubSeq(t, o, Len(t))
<1>1. o \in 1..Len(t) + 1
  BY OriginIs
<1>2. t \in Seq(Entry) /\ \A i \in 1..Len(t) : t[i].uuid[2] = i
  BY DEF Transcript
<1>3. Calls(s) = CallsWith(Errored(s), l)
  BY DEF Calls, CallsWith
<1>a. ASSUME NEW e \in OwnCalls(s), e.uuid \notin Siblings(s)
      PROVE  /\ e.kind = "call" /\ e.uuid \notin Errored(s)
             /\ \E i \in 1..Len(t) : t[i] = e /\ o <= i
  <2>1. e \in Range(t) /\ e.kind = "call" /\ e.uuid[1] = s /\ e.uuid \notin Errored(s)
    BY DEF OwnCalls
  <2>2. PICK i \in DOMAIN t : t[i] = e
    BY <2>1 DEF Range
  <2>3. i \in 1..Len(t)
    BY <1>2
  <2>4. o <= i
    BY <1>a, <2>1, <2>2, <2>3, OriginIs
  <2> QED BY <2>1, <2>2, <2>3, <2>4
<1> HIDE DEF t, o
<1>4. /\ l \in Seq(Entry) /\ Len(l) = Len(t) - o + 1
      /\ \A i \in 1..Len(l) : l[i] = t[o + i - 1] /\ o + i - 1 \in 1..Len(t)
  BY <1>1, <1>2
<1>b. \A i \in 1..Len(t) : o <= i => i - o + 1 \in 1..Len(l) /\ l[i - o + 1] = t[i]
  BY <1>1, <1>2
<1> HIDE DEF l
<1>5. \A i, j \in 1..Len(l) : l[i].uuid = l[j].uuid => i = j
  <2> TAKE i, j \in 1..Len(l)
  <2> HAVE l[i].uuid = l[j].uuid
  <2>1. o + i - 1 = o + j - 1
    BY <1>2, <1>4
  <2>2. i \in Int /\ j \in Int /\ o \in Int
    BY <1>1, <1>4
  <2> QED BY <2>1, <2>2
<1> DEFINE errored == Errored(s)
           calls == CallsWith(errored, l)
<1> HIDE DEF errored
<1>6. Listing(errored, l, calls)
  BY ONLY <1>4, <1>5, CallsWithIs
<1> HIDE DEF calls
<1>7. ASSUME NEW e \in OwnCalls(s), e.uuid \notin Siblings(s)
      PROVE  \E j \in 1..Len(l) : l[j] = e /\ l[j].kind = "call" /\ l[j].uuid \notin errored
  <2>1. PICK i \in 1..Len(t) : t[i] = e /\ o <= i
    BY <1>a, <1>7
  <2>2. i - o + 1 \in 1..Len(l) /\ l[i - o + 1] = e
    BY <1>b, <2>1
  <2> QED BY <1>a, <1>7, <2>2 DEF errored
<1> QED BY <1>3, <1>6, <1>7 DEF Listing, calls, errored

\* A session resumes one there is.
LEMMA InheritedIs ==
  ASSUME NEW s \in Sessions, Transcript(entries[s]), Inherited(s) # NoSession
  PROVE  Inherited(s) \in Sessions
<1> DEFINE t == entries[s]
           o == Origin(s)
<1>1. o \in 1..Len(t) + 1
  BY OriginIs
<1>2. o # 1 /\ Inherited(s) = t[o - 1].uuid[1]
  BY DEF Inherited
<1>3. t \in Seq(Entry)
  BY DEF Transcript
<1> HIDE DEF t, o
<1>4. o - 1 \in 1..Len(t)
  BY <1>1, <1>2, <1>3
<1>5. t[o - 1] \in Entry
  BY <1>3, <1>4
<1> QED BY <1>2, <1>5, EntryKinds

-----------------------------------------------------------------------------
(* Forks.                                                                  *)

ForkLine == [ops : Seq(Op), after : State, calls : Seq(Stamps), reads : SUBSET Reading]
Fork == [exists : BOOLEAN, prior : Seq(ForkLine), lines : Seq(ForkLine)]
More(f, e) == [f EXCEPT !.lines = Append(@, e)]

\* What a fork starts with is a line.
LEMMA SeedIs == SeedLine \in ForkLine
<1> DEFINE T == {x \in Paths : Start[x] # NoFile}
           made == SetToSeq(T)
           ops == [k \in 1..Len(made) |->
                     [op |-> "create", path |-> made[k], content |-> Start[made[k]]]]
<1>1. SeedLine = [ops |-> ops, after |-> Start, calls |-> <<>>, reads |-> {}]
  BY DEF SeedLine
<1>2. Start \in State
  BY IngestAssumption DEF State
<1>3. IsFiniteSet(T)
  <2>1. T \subseteq Paths
    OBVIOUS
  <2> QED BY <2>1, PlanAssumption, FS_Subset
<1>4. made \in Seq(T) /\ Len(made) \in Nat /\ DOMAIN made = 1..Len(made)
  BY <1>3, ListIs
<1>5. \A k \in 1..Len(made) : made[k] \in T
  BY <1>4
<1> HIDE DEF made
<1>6. \A k \in 1..Len(made) : ops[k] \in Op
  <2> TAKE k \in 1..Len(made)
  <2>1. made[k] \in Paths /\ Start[made[k]] \in Content
    BY <1>2, <1>5 DEF State
  <2>2. [op |-> "create", path |-> made[k], content |-> Start[made[k]]] \in Creates
    BY <2>1 DEF Creates
  <2> QED BY <2>2 DEF Op
<1>7. ops \in Seq(Op)
  <2>1. ops \in [1..Len(made) -> Op]
    BY <1>6
  <2> HIDE DEF ops
  <2> QED BY <1>4, <2>1
<1> HIDE DEF ops
<1> QED BY <1>1, <1>2, <1>7 DEF ForkLine

\* Two sequences joined.
LEMMA JoinIs ==
  ASSUME NEW X, NEW a \in Seq(X), NEW b \in Seq(X)
  PROVE  /\ a \o b \in Seq(X) /\ Len(a \o b) = Len(a) + Len(b)
         /\ \A k \in 1..Len(a) : (a \o b)[k] = a[k]
         /\ \A k \in 1..Len(b) : (a \o b)[Len(a) + k] = b[k]
OBVIOUS

\* The lines of a fork, inherited ones first.
LEMMA HistoryIs ==
  ASSUME NEW f \in Fork
  PROVE  /\ History(f) \in Seq(ForkLine)
         /\ Len(f.prior) \in Nat /\ Len(f.lines) \in Nat
         /\ Len(History(f)) = 1 + Len(f.prior) + Len(f.lines)
<1>1. f.prior \in Seq(ForkLine) /\ f.lines \in Seq(ForkLine) /\ <<SeedLine>> \in Seq(ForkLine)
  BY SeedIs DEF Fork
<1> DEFINE p == f.prior
           l == f.lines
           a == <<SeedLine>> \o p
<1>2. History(f) = a \o l
  BY DEF History
<1> HIDE DEF p, l
<1>3. p \in Seq(ForkLine) /\ l \in Seq(ForkLine)
  BY <1>1 DEF p, l
<1>4. a \in Seq(ForkLine) /\ Len(a) = 1 + Len(p)
  BY <1>1, <1>3
<1> HIDE DEF a
<1>5. a \o l \in Seq(ForkLine) /\ Len(a \o l) = 1 + Len(p) + Len(l) /\ Len(p) \in Nat /\ Len(l) \in Nat
  BY <1>3, <1>4
<1> QED BY <1>2, <1>5 DEF p, l

\* A fork leads to a state.
LEMMA StateOfType ==
  ASSUME NEW f \in Fork
  PROVE  StateOf(f) \in State
<1> DEFINE h == History(f)
<1>1. h \in Seq(ForkLine) /\ Len(h) \in 1..Len(h)
  <2> DEFINE z == Len(f.prior)
             n == Len(f.lines)
  <2>1. h \in Seq(ForkLine) /\ Len(h) = 1 + z + n /\ z \in Nat /\ n \in Nat
    BY HistoryIs
  <2> HIDE DEF h, z, n
  <2> QED BY <2>1
<1> HIDE DEF h
<1>2. h[Len(h)] \in ForkLine
  BY <1>1
<1> QED BY <1>2 DEF StateOf, ForkLine, h

\* A fork with one more line.
LEMMA MoreIs ==
  ASSUME NEW f \in Fork, NEW e \in ForkLine
  PROVE  /\ More(f, e) \in Fork /\ More(f, e).lines = Append(f.lines, e)
         /\ StateOf(More(f, e)) = e.after
         /\ \A k \in 1..Len(f.lines) : Before(More(f, e), k) = Before(f, k)
         /\ Before(More(f, e), Len(f.lines) + 1) = StateOf(f)
         /\ RecordedCalls(More(f, e)) = RecordedCalls(f) \cup Range(e.calls)
<1> DEFINE g == More(f, e)
           h == History(f)
           n == Len(f.lines)
           z == Len(f.prior)
<1>1. g \in Fork /\ g.lines = Append(f.lines, e) /\ g.prior = f.prior
  <2> DEFINE a == Append(f.lines, e)
  <2>1. f.lines \in Seq(ForkLine)
    BY ONLY f \in Fork DEF Fork
  <2>2. a \in Seq(ForkLine)
    BY ONLY <2>1, e \in ForkLine
  <2>3. g = [f EXCEPT !.lines = a]
    BY ONLY f \in Fork DEF More
  <2> HIDE DEF a, g
  <2>4. g \in Fork /\ g.lines = a /\ g.prior = f.prior
    BY ONLY <2>2, <2>3, f \in Fork DEF Fork
  <2> QED BY <2>4 DEF a
<1>2. h \in Seq(ForkLine) /\ Len(h) = 1 + z + n /\ n \in Nat /\ z \in Nat
  BY HistoryIs
<1>3. History(g) = Append(h, e)
  <2>1. f.prior \in Seq(ForkLine) /\ f.lines \in Seq(ForkLine) /\ <<SeedLine>> \in Seq(ForkLine)
    BY SeedIs DEF Fork
  <2> DEFINE a == <<SeedLine>> \o f.prior
  <2>2. a \in Seq(ForkLine)
    BY <2>1
  <2>3. History(f) = a \o f.lines /\ History(g) = a \o Append(f.lines, e)
    BY <1>1 DEF History
  <2> HIDE DEF a
  <2>4. a \o Append(f.lines, e) = Append(a \o f.lines, e)
    BY <2>1, <2>2
  <2> QED BY <2>3, <2>4
<1>4. Len(History(g)) = 2 + z + n /\ Len(g.lines) = n + 1
  <2>1. f.lines \in Seq(ForkLine)
    BY DEF Fork
  <2>2. Len(Append(f.lines, e)) = n + 1
    BY <2>1
  <2> HIDE DEF h, n, z, g
  <2>a. Len(Append(h, e)) = Len(h) + 1
    BY ONLY <1>2, e \in ForkLine
  <2>3. Len(Append(h, e)) = 2 + z + n
    BY <1>2, <2>a
  <2> QED BY <1>1, <1>3, <2>2, <2>3
<1>5. /\ Append(h, e)[2 + z + n] = e
      /\ \A k \in 1..1 + z + n : Append(h, e)[k] = h[k]
  <2> HIDE DEF h, n, z
  <2> QED BY <1>2
<1>6. /\ StateOf(g) = Append(h, e)[2 + z + n].after /\ StateOf(f) = h[1 + z + n].after
      /\ \A k \in Int : Before(g, k) = Append(h, e)[(2 + z + n) - (n + 1) + k - 1].after
      /\ \A k \in Int : Before(f, k) = h[(1 + z + n) - n + k - 1].after
  BY <1>2, <1>3, <1>4 DEF StateOf, Before
<1>7. RecordedCalls(g) = RecordedCalls(f) \cup Range(e.calls)
  <2>1. Range(Append(h, e)) = Range(h) \cup {e}
    <3> HIDE DEF h, n, z, g
    <3>1. DOMAIN h = 1..1 + z + n /\ DOMAIN Append(h, e) = 1..2 + z + n
      BY <1>2
    <3>2. \A k \in 1..2 + z + n : k \in 1..1 + z + n \/ k = 2 + z + n
      BY <1>2
    <3>3. 1..1 + z + n \subseteq 1..2 + z + n /\ 2 + z + n \in 1..2 + z + n
      BY <1>2
    <3> QED BY <1>5, <3>1, <3>2, <3>3 DEF Range
  <2> QED BY <1>3, <2>1 DEF RecordedCalls
<1> HIDE DEF g, h, n, z
<1>8. \A k \in 1..n : Before(g, k) = Before(f, k)
  <2> TAKE k \in 1..n
  <2>1. (2 + z + n) - (n + 1) + k - 1 = z + k /\ (1 + z + n) - n + k - 1 = z + k /\ z + k \in 1..1 + z + n /\ k \in Int
    BY <1>2
  <2> QED BY <1>5, <1>6, <2>1
<1>9. Before(g, n + 1) = StateOf(f)
  <2>1. (2 + z + n) - (n + 1) + (n + 1) - 1 = 1 + z + n /\ 1 + z + n \in 1..1 + z + n /\ n + 1 \in Int
    BY <1>2
  <2> QED BY <1>5, <1>6, <2>1
<1> QED BY <1>1, <1>5, <1>6, <1>7, <1>8, <1>9 DEF g, h, n, z

\* The calls that lines have recorded are recorded calls.
LEMMA LedgerIn ==
  ASSUME NEW f \in Fork, NEW k \in 1..Len(f.lines)
  PROVE  Range(f.lines[k].calls) \subseteq RecordedCalls(f)
<1> DEFINE a == <<SeedLine>> \o f.prior
<1>1. f.prior \in Seq(ForkLine) /\ f.lines \in Seq(ForkLine) /\ <<SeedLine>> \in Seq(ForkLine)
  BY SeedIs DEF Fork
<1>2. a \in Seq(ForkLine)
  BY <1>1
<1>3. History(f) = a \o f.lines
  BY DEF History
<1> HIDE DEF a
<1>4. Len(a) + k \in DOMAIN (a \o f.lines) /\ (a \o f.lines)[Len(a) + k] = f.lines[k]
  BY <1>1, <1>2
<1>5. f.lines[k] \in Range(History(f))
  BY <1>3, <1>4 DEF Range
<1> QED BY <1>5 DEF RecordedCalls

-----------------------------------------------------------------------------
(* What holds of a fork's own lines.                                       *)

\* Replayed on the state it met, a line makes the state it left, and its reads
\* are of that state.
Told(m, e) == ApplyIntent(m, e.ops) = Fresh(e.after) /\ ReadOf(m, e.reads)
Tells(f) == \A k \in 1..Len(f.lines) : Told(Before(f, k), f.lines[k])
Ledger(f) == [k \in 1..Len(f.lines) |-> f.lines[k].calls]
Once(f) == DistinctIn(Ledger(f), Len(f.lines))

\* A line more that tells its delta, of the state it meets.
LEMMA TellsMore ==
  ASSUME NEW f \in Fork, Tells(f), NEW e \in ForkLine, Told(StateOf(f), e)
  PROVE  Tells(More(f, e))
<1> DEFINE g == More(f, e)
           n == Len(f.lines)
<1>1. /\ g.lines = Append(f.lines, e) /\ Before(g, n + 1) = StateOf(f)
      /\ \A k \in 1..n : Before(g, k) = Before(f, k)
  BY MoreIs
<1>2. f.lines \in Seq(ForkLine)
  BY DEF Fork
<1>3. /\ Len(g.lines) = n + 1 /\ g.lines[n + 1] = e /\ \A k \in 1..n : g.lines[k] = f.lines[k]
      /\ \A k \in 1..n + 1 : k \in 1..n \/ k = n + 1
  <2> HIDE DEF g
  <2> QED BY <1>1, <1>2
<1>4. \A k \in 1..n : Told(Before(f, k), f.lines[k])
  BY DEF Tells
<1> HIDE DEF g, n
<1>5. \A k \in 1..n + 1 : Told(Before(g, k), g.lines[k])
  BY <1>1, <1>3, <1>4
<1> QED BY <1>3, <1>5 DEF Tells, g

\* A line more whose calls are new.
LEMMA OnceMore ==
  ASSUME NEW f \in Fork, Once(f), NEW e \in ForkLine, IsInjective(e.calls),
         Range(e.calls) \cap RecordedCalls(f) = {}
  PROVE  Once(More(f, e))
<1> DEFINE g == More(f, e)
           n == Len(f.lines)
           a == Ledger(f)
           b == Ledger(g)
<1>1. g.lines = Append(f.lines, e) /\ f.lines \in Seq(ForkLine)
  BY MoreIs DEF Fork
<1>2. /\ Len(g.lines) = n + 1 /\ g.lines[n + 1] = e /\ \A k \in 1..n : g.lines[k] = f.lines[k]
      /\ n \in Nat
  <2> HIDE DEF g
  <2> QED BY <1>1
<1>3. b[n + 1] = e.calls /\ \A k \in 1..n : b[k] = a[k] /\ a[k] = f.lines[k].calls
  <2> HIDE DEF g
  <2>1. n + 1 \in 1..n + 1 /\ \A k \in 1..n : k \in 1..n + 1
    BY <1>2
  <2> QED BY <1>2, <2>1 DEF Ledger
<1>4. \A k \in 1..n : \A i \in DOMAIN a[k], j \in DOMAIN e.calls : a[k][i] # e.calls[j]
  <2> TAKE k \in 1..n
  <2> TAKE i \in DOMAIN a[k], j \in DOMAIN e.calls
  <2>1. f.lines[k].calls[i] \in RecordedCalls(f)
    BY <1>3, LedgerIn DEF Range
  <2>2. e.calls[j] \in Range(e.calls)
    BY DEF Range
  <2> QED BY <1>3, <2>1, <2>2
<1>5. \A s, t \in 1..n : \A k \in DOMAIN a[s] : \A i \in DOMAIN a[t] : a[s][k] = a[t][i] => s = t /\ k = i
  BY DEF Once, DistinctIn
<1>6. \A k, i \in DOMAIN e.calls : e.calls[k] = e.calls[i] => k = i
  BY DEF IsInjective
<1>7. \A k \in 1..n + 1 : k \in 1..n \/ k = n + 1
  BY <1>2
<1> HIDE DEF a, b, n, g
<1>8. \A s, t \in 1..n + 1 : \A k \in DOMAIN b[s] : \A i \in DOMAIN b[t] : b[s][k] = b[t][i] => s = t /\ k = i
  <2> TAKE s, t \in 1..n + 1
  <2> TAKE k \in DOMAIN b[s]
  <2> TAKE i \in DOMAIN b[t]
  <2> HAVE b[s][k] = b[t][i]
  <2>1. CASE s \in 1..n /\ t \in 1..n
    BY <1>3, <1>5, <2>1
  <2>2. CASE s = n + 1 /\ t = n + 1
    BY <1>3, <1>6, <2>2
  <2>3. CASE s \in 1..n /\ t = n + 1
    <3>1. b[s] = a[s] /\ b[t] = e.calls
      BY <1>3, <2>3
    <3>2. a[s][k] # e.calls[i]
      BY <1>4, <2>3, <3>1
    <3> QED BY <3>1, <3>2
  <2>4. CASE s = n + 1 /\ t \in 1..n
    <3>1. b[t] = a[t] /\ b[s] = e.calls
      BY <1>3, <2>4
    <3>2. a[t][i] # e.calls[k]
      BY <1>4, <2>4, <3>1
    <3> QED BY <3>1, <3>2
  <2> QED BY <1>7, <2>1, <2>2, <2>3, <2>4
<1> QED BY <1>2, <1>8 DEF Once, DistinctIn, b, g

-----------------------------------------------------------------------------
(* Landing a plan.                                                         *)

\* From state m, the lines from the k-th on run.
Ahead(m, lines, k) ==
  \E g : /\ g[k - 1] = m
         /\ \A j \in k - 1..Len(lines) : g[j] \in State
         /\ \A j \in k..Len(lines) : Landed(lines[j], g[j - 1], g[j])

\* Lines a replay ran through apply ahead.
LEMMA AheadFirst ==
  ASSUME NEW start, NEW lines, NEW m, Runs(start, lines, Len(lines), m)
  PROVE  Ahead(start, lines, 1)
<1>1. 1 - 1 = 0
  OBVIOUS
<1> QED BY <1>1 DEF Runs, Ahead

\* The next of them lands, and the rest still apply.
LEMMA AheadNext ==
  ASSUME NEW lines, Len(lines) \in Nat, NEW m, NEW k \in 1..Len(lines), NEW s \in k..Len(lines),
         \A j \in k..s - 1 : lines[j].kind # "land", lines[s].kind = "land", Ahead(m, lines, k)
  PROVE  \E w \in State : /\ ApplyIntent(m, lines[s].ops) = Fresh(w) /\ ReadOf(m, lines[s].reads)
                          /\ Ahead(w, lines, s + 1)
<1> DEFINE n == Len(lines)
<1>1. n \in Nat /\ k \in 1..n /\ s \in k..n
  OBVIOUS
<1>2. PICK g : /\ g[k - 1] = m
               /\ \A j \in k - 1..n : g[j] \in State
               /\ \A j \in k..n : Landed(lines[j], g[j - 1], g[j])
  BY DEF Ahead
<1> HIDE DEF n
<1> DEFINE T == {i \in Nat : k - 1 + i <= s - 1 => g[k - 1 + i] = m}
<1>3. 0 \in T
  BY <1>1, <1>2
<1>4. ASSUME NEW i \in Nat, i \in T PROVE i + 1 \in T
  <2> SUFFICES ASSUME k - 1 + (i + 1) <= s - 1 PROVE g[k - 1 + (i + 1)] = m
    OBVIOUS
  <2> DEFINE j == k - 1 + (i + 1)
  <2>1. j \in k..s - 1 /\ j \in k..n /\ j - 1 = k - 1 + i /\ k - 1 + i <= s - 1
    BY <1>1
  <2>2. g[j - 1] = m
    BY <1>4, <2>1
  <2> HIDE DEF j
  <2>3. Landed(lines[j], g[j - 1], g[j]) /\ lines[j].kind # "land"
    BY <1>2, <2>1
  <2>4. g[j] = m
    BY <2>2, <2>3 DEF Landed
  <2> QED BY <2>4 DEF j
<1>5. Nat \subseteq T
  <2> HIDE DEF T
  <2> QED BY <1>3, <1>4, Induction
<1>7. g[s - 1] = m
  <2>1. PICK i \in Nat : i = s - k
    BY <1>1
  <2>2. k - 1 + i = s - 1 /\ s - 1 <= s - 1
    BY <1>1, <2>1
  <2>3. i \in T
    BY <1>5
  <2>4. k - 1 + i <= s - 1 => g[k - 1 + i] = m
    BY <2>3
  <2> QED BY <2>2, <2>4
<1> HIDE DEF T
<1>8. s \in k..n /\ s \in k - 1..n
  BY <1>1
<1>9. Landed(lines[s], m, g[s]) /\ g[s] \in State
  BY <1>2, <1>7, <1>8
<1>10. Ahead(g[s], lines, s + 1)
  <2>1. (s + 1) - 1 = s
    BY <1>1
  <2>2. (\A j \in s..n : j \in k - 1..n) /\ (\A j \in s + 1..n : j \in k..n)
    BY <1>1
  <2>3. \A j \in (s + 1) - 1..n : g[j] \in State
    BY <1>2, <2>1, <2>2
  <2>4. \A j \in s + 1..n : Landed(lines[j], g[j - 1], g[j])
    BY <1>2, <2>2
  <2> QED BY <2>1, <2>3, <2>4 DEF Ahead, n
<1> QED BY <1>9, <1>10 DEF Landed

\* The calls that a line of the plan records (CallsOf).
IdsOf(lines, p) ==
  <<p.call.id>> \o [k \in 1..Len(p.absorbed) |-> lines[p.absorbed[k]].call.id]
Singly(lines) == \A s, t \in 1..Len(lines) : lines[s].call.id = lines[t].call.id => s = t
\* The calls are those of the lines in seats T.
Has(lines, s, j) == j \in 1..Len(lines) /\ (j = s \/ \E k : Names(lines, s, k, j))

\* The ids a line records are of the calls it carries, each once.
LEMMA IdsAre ==
  ASSUME NEW lines \in Seq(Line), Absorbings(lines), Singly(lines), NEW s \in 1..Len(lines), lines[s].kind = "land"
  PROVE  /\ IdsOf(lines, lines[s]) \in Seq(Stamps) /\ IsInjective(IdsOf(lines, lines[s]))
         /\ \A id : id \in Range(IdsOf(lines, lines[s])) <=> \E j : Has(lines, s, j) /\ id = lines[j].call.id
<1> DEFINE p == lines[s]
           ab == p.absorbed
           z == Len(ab)
           n == Len(lines)
           t == [k \in 1..z |-> lines[ab[k]].call.id]
           h == <<p.call.id>>
           ids == h \o t
<1>1. n \in Nat /\ s \in 1..n /\ \A j \in 1..n : lines[j] \in Line
  OBVIOUS
<1>2. \A j \in 1..n : lines[j].call.id \in Stamps
  <2> TAKE j \in 1..n
  <2> DEFINE e == lines[j]
  <2>1. e \in Line
    BY <1>1
  <2> HIDE DEF e
  <2>2. e.call.id \in Stamps
    BY <2>1 DEF Line, Call, Stamps
  <2> QED BY <2>2 DEF e
<1>3. p \in Line
  BY <1>1
<1> HIDE DEF p
<1>4. ab \in Seq(Nat) /\ z \in Nat /\ DOMAIN ab = 1..z
  BY <1>3 DEF Line
<1>5. \A k \in 1..z : Names(lines, s, k, ab[k])
  BY DEF Names, p
<1>6. \A k, j : Names(lines, s, k, j) => k \in 1..z /\ j = ab[k]
  BY DEF Names, p
<1> HIDE DEF ab, z, n
<1>7. \A k \in 1..z : ab[k] \in 1..n /\ s < ab[k]
  BY <1>5 DEF Absorbings, n
<1>8. \A k, i \in 1..z : ab[k] = ab[i] => k = i
  BY <1>5 DEF Absorbings
<1>9. t \in Seq(Stamps) /\ Len(t) = z
  <2>1. \A k \in 1..z : lines[ab[k]].call.id \in Stamps
    BY <1>2, <1>7
  <2>2. t \in [1..z -> Stamps]
    BY <2>1
  <2> HIDE DEF t
  <2> QED BY <1>4, <2>2
<1>10. h \in Seq(Stamps) /\ Len(h) = 1 /\ h[1] = p.call.id
  <2>1. p.call.id \in Stamps
    BY <1>1, <1>2 DEF p
  <2> QED BY <2>1
<1>11. \A k \in 1..z : t[k] = lines[ab[k]].call.id
  OBVIOUS
<1>12. IdsOf(lines, p) = ids
  BY DEF IdsOf, ab, z
<1> HIDE DEF t, h
<1>13. /\ ids \in Seq(Stamps) /\ Len(ids) = z + 1 /\ ids[1] = p.call.id
       /\ \A k \in 2..z + 1 : ids[k] = t[k - 1] /\ k - 1 \in 1..z
  <2>1. /\ ids \in Seq(Stamps) /\ Len(ids) = z + 1
        /\ \A k \in 1..1 : ids[k] = h[k]
        /\ \A k \in 1..z : ids[1 + k] = t[k]
    <3>1. /\ ids \in Seq(Stamps) /\ Len(ids) = Len(h) + Len(t)
          /\ \A k \in 1..Len(h) : ids[k] = h[k]
          /\ \A k \in 1..Len(t) : ids[Len(h) + k] = t[k]
      <4>1. h \in Seq(Stamps) /\ t \in Seq(Stamps)
        BY <1>9, <1>10
      <4> QED BY ONLY <4>1, JoinIs DEF ids
    <3> HIDE DEF ids
    <3>2. Len(h) = 1 /\ Len(t) = z /\ 1 + z = z + 1
      BY <1>4, <1>9, <1>10
    <3> QED BY <3>1, <3>2
  <2> HIDE DEF ids
  <2>2. \A k \in 2..z + 1 : k - 1 \in 1..z /\ 1 + (k - 1) = k
    BY <1>4
  <2>3. 1 \in 1..1
    OBVIOUS
  <2> QED BY <1>10, <2>1, <2>2, <2>3
<1> HIDE DEF ids
<1> DEFINE seat == [k \in 1..z + 1 |-> IF k = 1 THEN s ELSE ab[k - 1]]
<1>14. /\ DOMAIN ids = 1..z + 1 /\ 1 \in 1..z + 1 /\ seat[1] = s
       /\ \A k \in 1..z + 1 : k = 1 \/ k \in 2..z + 1
       /\ \A k \in 2..z + 1 : k \in 1..z + 1 /\ k # 1 /\ seat[k] = ab[k - 1]
       /\ \A k \in 1..z : k + 1 \in 2..z + 1 /\ (k + 1) - 1 = k
  BY <1>4, <1>13
<1> HIDE DEF seat
<1>15. \A k \in 1..z + 1 : seat[k] \in 1..n /\ ids[k] = lines[seat[k]].call.id
  <2> TAKE k \in 1..z + 1
  <2>1. CASE k = 1
    BY <1>1, <1>13, <1>14, <2>1 DEF p
  <2>2. CASE k \in 2..z + 1
    BY <1>7, <1>11, <1>13, <1>14, <2>2
  <2> QED BY <1>14, <2>1, <2>2
<1>16. \A k, i \in 1..z + 1 : seat[k] = seat[i] => k = i
  <2> TAKE k, i \in 1..z + 1
  <2> HAVE seat[k] = seat[i]
  <2>1. CASE k = 1 /\ i \in 2..z + 1
    <3>1. s = ab[i - 1] /\ s < ab[i - 1]
      BY <1>7, <1>13, <1>14, <2>1
    <3> QED BY <1>1, <3>1
  <2>2. CASE i = 1 /\ k \in 2..z + 1
    <3>1. s = ab[k - 1] /\ s < ab[k - 1]
      BY <1>7, <1>13, <1>14, <2>2
    <3> QED BY <1>1, <3>1
  <2>3. CASE k \in 2..z + 1 /\ i \in 2..z + 1
    <3>1. k - 1 = i - 1
      BY <1>8, <1>13, <1>14, <2>3
    <3> QED BY <3>1
  <2> QED BY <1>14, <2>1, <2>2, <2>3
<1>17. IsInjective(ids)
  <2>1. \A k, i \in 1..z + 1 : ids[k] = ids[i] => k = i
    BY <1>15, <1>16 DEF Singly, n
  <2> QED BY <1>14, <2>1 DEF IsInjective
<1>18. ASSUME NEW id, id \in Range(ids) PROVE \E j : Has(lines, s, j) /\ id = lines[j].call.id
  <2>1. PICK k \in 1..z + 1 : id = ids[k]
    BY <1>14, <1>18 DEF Range
  <2>2. seat[k] \in 1..Len(lines) /\ id = lines[seat[k]].call.id
    BY <1>15, <2>1 DEF n
  <2>3. seat[k] = s \/ \E i : Names(lines, s, i, seat[k])
    BY <1>5, <1>13, <1>14
  <2> QED BY <2>2, <2>3 DEF Has
<1>19. ASSUME NEW id, NEW j, Has(lines, s, j), id = lines[j].call.id PROVE id \in Range(ids)
  <2>1. CASE j = s
    BY <1>13, <1>14, <1>19, <2>1 DEF Range, p
  <2>2. CASE \E k : Names(lines, s, k, j)
    <3>1. PICK k \in 1..z : j = ab[k]
      BY <1>6, <2>2
    <3>2. k + 1 \in DOMAIN ids /\ ids[k + 1] = t[k]
      BY <1>13, <1>14, <3>1
    <3> QED BY <1>11, <1>19, <3>1, <3>2 DEF Range
  <2> QED BY <1>19, <2>1, <2>2 DEF Has
<1> QED BY <1>12, <1>13, <1>17, <1>18, <1>19 DEF p

\* Two lines record no call in common.
LEMMA IdsApart ==
  ASSUME NEW lines \in Seq(Line), Absorbings(lines), Singly(lines),
         NEW s \in 1..Len(lines), lines[s].kind = "land",
         NEW t \in 1..Len(lines), lines[t].kind = "land", s # t
  PROVE  Range(IdsOf(lines, lines[s])) \cap Range(IdsOf(lines, lines[t])) = {}
<1> SUFFICES ASSUME NEW id, id \in Range(IdsOf(lines, lines[s])), id \in Range(IdsOf(lines, lines[t]))
             PROVE  FALSE
  OBVIOUS
<1>a. \A x : x \in Range(IdsOf(lines, lines[s])) <=> \E j : Has(lines, s, j) /\ x = lines[j].call.id
  BY IdsAre, Zenon
<1>b. \A x : x \in Range(IdsOf(lines, lines[t])) <=> \E j : Has(lines, t, j) /\ x = lines[j].call.id
  BY IdsAre, Zenon
<1>1. PICK i : Has(lines, s, i) /\ id = lines[i].call.id
  BY <1>a
<1>2. PICK j : Has(lines, t, j) /\ id = lines[j].call.id
  BY <1>b
<1>3. i = j
  BY <1>1, <1>2 DEF Singly, Has
<1>4. (\A k : ~Names(lines, s, k, t)) /\ (\A k : ~Names(lines, t, k, s))
  BY DEF Absorbings
<1>5. \A k, l : ~(Names(lines, s, k, i) /\ Names(lines, t, l, i))
  BY DEF Absorbings
<1> QED BY <1>1, <1>2, <1>3, <1>4, <1>5 DEF Has

\* What a plan still to be landed from its k-th line on records is new to the
\* fork, and with what the fork has, it is all the calls.
Waiting(lines, k, f) ==
  \A j \in k..Len(lines) : lines[j].kind = "land" =>
    Range(IdsOf(lines, lines[j])) \cap RecordedCalls(f) = {}
Covered(calls, lines, k, f) ==
  \A i \in 1..Len(calls) :
    \/ calls[i].id \in RecordedCalls(f)
    \/ \E j \in k..Len(lines) : lines[j].kind = "land" /\ calls[i].id \in Range(IdsOf(lines, lines[j]))
Landable(f, lines, k) ==
  /\ lines \in Seq(Line) /\ Absorbings(lines) /\ Singly(lines)
  /\ k \in 1..Len(lines) + 1
  /\ Ahead(StateOf(f), lines, k) /\ Waiting(lines, k, f)

\* A plan for a fork can be landed on it, is new to it, and covers the calls.
LEMMA PlanLands ==
  ASSUME NEW f \in Fork, NEW calls \in Seq(Call), Apiece(calls), NEW live \in State
  PROVE  LET p == Plan(StateOf(f), calls, RecordedCalls(f), live).planned
         IN  /\ Landable(f, p, 1)
             /\ (\A s \in 1..Len(p) : p[s].kind # "skip") => Covered(calls, p, 1, f)
             /\ (\A i \in 1..Len(calls) : calls[i].id \in RecordedCalls(f)) => Len(p) = 0
<1> DEFINE rec == RecordedCalls(f)
           start == StateOf(f)
           obs == Observed(start, calls, rec)
           plan == Plan(start, calls, rec, live)
           p == plan.planned
           n == Len(p)
<1>1. start \in State
  BY StateOfType
<1> HIDE DEF start, rec
<1>2. Planned(start, obs.planned, plan) /\ Passed(start, rec, calls, Len(calls), obs)
  BY <1>1, PlanIs
<1> HIDE DEF plan
<1> DEFINE first == obs.planned
<1> HIDE DEF obs
<1>3. Plans(first, p) /\ Runs(start, p, n, plan.m) /\ FromCalls(rec, calls, Len(calls), first)
  BY <1>2 DEF Planned, Passed
<1> HIDE DEF first, p
<1>4. /\ p \in Seq(Line) /\ n = Len(first) /\ Absorbings(p)
      /\ \A s \in 1..n : p[s].call = first[s].call
  BY <1>3 DEF Plans
<1>5. n \in Nat
  BY <1>4
<1> HIDE DEF n
<1>a. PICK g : /\ \A s \in 1..Len(first) : g[s] \in 1..Len(calls) /\ first[s].call = calls[g[s]] /\ calls[g[s]].id \notin rec
               /\ \A s, t \in 1..Len(first) : s < t => g[s] < g[t]
               /\ \A i \in 1..Len(calls) : calls[i].id \notin rec => \E s \in 1..Len(first) : g[s] = i
  BY ONLY <1>3 DEF FromCalls
<1>6. /\ \A s \in 1..n : g[s] \in 1..Len(calls) /\ first[s].call = calls[g[s]] /\ calls[g[s]].id \notin rec
      /\ \A s, t \in 1..n : s < t => g[s] < g[t]
      /\ \A i \in 1..Len(calls) : calls[i].id \notin rec => \E s \in 1..n : g[s] = i
  <2>1. n = Len(first)
    BY <1>4
  <2> QED BY ONLY <1>a, <2>1
<1>7. \A s, t \in 1..n : g[s] = g[t] => s = t
  <2> TAKE s, t \in 1..n
  <2> HAVE g[s] = g[t]
  <2>1. s < t \/ t < s \/ s = t
    BY <1>5
  <2>2. g[s] \in Nat /\ g[t] \in Nat
    BY <1>6
  <2>3. ~(g[s] < g[t]) /\ ~(g[t] < g[s])
    BY <2>2
  <2> QED BY <1>6, <2>1, <2>3
<1>8. \A s \in 1..n : p[s].call.id = calls[g[s]].id /\ p[s].call.id \notin rec
  BY <1>4, <1>6
<1>9. Singly(p)
  <2>1. \A i, j \in 1..Len(calls) : calls[i].id = calls[j].id => i = j
    BY DEF Apiece
  <2>2. \A s, t \in 1..n : p[s].call.id = p[t].call.id => s = t
    BY <1>6, <1>7, <1>8, <2>1
  <2> QED BY <2>2 DEF Singly, n
<1>10. Ahead(start, p, 1)
  BY <1>3, AheadFirst DEF n
<1>11. ASSUME NEW j \in 1..n, p[j].kind = "land", NEW id, id \in Range(IdsOf(p, p[j])), id \in rec
       PROVE  FALSE
  <2>1. PICK i : Has(p, j, i) /\ id = p[i].call.id
    <3>1. j \in 1..Len(p)
      BY DEF n
    <3>2. \A x : x \in Range(IdsOf(p, p[j])) <=> \E i : Has(p, j, i) /\ x = p[i].call.id
      BY ONLY <1>4, <1>9, <1>11, <3>1, IdsAre, Zenon
    <3> QED BY <1>11, <3>2
  <2>2. i \in 1..n
    BY <2>1 DEF Has, n
  <2> QED BY <1>8, <1>11, <2>1, <2>2
<1>12. Waiting(p, 1, f)
  BY <1>11 DEF Waiting, n, rec
<1>13. Landable(f, p, 1)
  <2>1. 1 \in 1..n + 1
    BY <1>5
  <2> QED BY <1>4, <1>9, <1>10, <1>12, <2>1 DEF Landable, n, start
<1>14. ASSUME \A s \in 1..n : p[s].kind # "skip" PROVE Covered(calls, p, 1, f)
  <2> SUFFICES ASSUME NEW i \in 1..Len(calls), calls[i].id \notin rec
               PROVE  \E j \in 1..n : p[j].kind = "land" /\ calls[i].id \in Range(IdsOf(p, p[j]))
    BY DEF Covered, n, rec
  <2>1. PICK s \in 1..n : g[s] = i
    BY <1>6
  <2>2. p[s].call.id = calls[i].id
    BY <1>8, <2>1
  <2>3. p[s].kind \in {"land", "absorbed"}
    <3> DEFINE e == p[s]
    <3>1. e \in Line /\ e.kind # "skip"
      BY <1>4, <1>14 DEF n
    <3> HIDE DEF e
    <3>2. e.kind \in {"land", "absorbed"}
      BY <3>1 DEF Line
    <3> QED BY <3>2 DEF e
  <2>4. \E j \in 1..n : p[j].kind = "land" /\ Has(p, j, s)
    <3>1. CASE p[s].kind = "land"
      BY <3>1 DEF Has, n
    <3>2. CASE p[s].kind = "absorbed"
      <4>1. \E j, k : Names(p, j, k, s)
        BY <1>4, <3>2 DEF Absorbings, n
      <4>2. PICK j, k : Names(p, j, k, s)
        BY <4>1
      <4>3. p[j].kind = "land" /\ j \in 1..n
        BY <1>4, <4>2 DEF Absorbings, Names, n
      <4>4. Has(p, j, s)
        BY <4>2 DEF Has, n
      <4> QED BY <4>3, <4>4
    <3> QED BY <2>3, <3>1, <3>2
  <2>5. PICK j \in 1..n : p[j].kind = "land" /\ Has(p, j, s)
    BY <2>4
  <2>6. calls[i].id \in Range(IdsOf(p, p[j]))
    <3>1. j \in 1..Len(p)
      BY DEF n
    <3>2. \A x : x \in Range(IdsOf(p, p[j])) <=> \E k : Has(p, j, k) /\ x = p[k].call.id
      BY ONLY <1>4, <1>9, <2>5, <3>1, IdsAre, Zenon
    <3> QED BY <2>2, <2>5, <3>2
  <2> QED BY <2>5, <2>6
<1>15. ASSUME \A i \in 1..Len(calls) : calls[i].id \in rec PROVE n = 0
  <2> SUFFICES ASSUME n # 0 PROVE FALSE
    OBVIOUS
  <2>1. 1 \in 1..n
    BY <1>5
  <2> QED BY <1>6, <1>15, <2>1
<1> QED BY <1>13, <1>14, <1>15 DEF n, p, plan, rec, start

AllIn(calls, f) == \A i \in 1..Len(calls) : calls[i].id \in RecordedCalls(f)

\* Land: the next line of a plan lands.
LEMMA LandsNext ==
  ASSUME NEW f \in Fork, Tells(f), Once(f), NEW lines, NEW k, Landable(f, lines, k),
         NEW s \in k..Len(lines), lines[s].kind = "land", \A j \in k..s - 1 : lines[j].kind # "land"
  PROVE  LET r == ApplyIntent(StateOf(f), lines[s].ops)
             e == [ops |-> lines[s].ops, after |-> r.m, calls |-> IdsOf(lines, lines[s]), reads |-> lines[s].reads]
         IN  /\ r.ok = TRUE /\ e \in ForkLine
             /\ Tells(More(f, e)) /\ Once(More(f, e)) /\ Landable(More(f, e), lines, s + 1)
             /\ \A calls : Covered(calls, lines, k, f) => Covered(calls, lines, s + 1, More(f, e))
<1> DEFINE n == Len(lines)
           p == lines[s]
           r == ApplyIntent(StateOf(f), p.ops)
           ids == IdsOf(lines, p)
           e == [ops |-> p.ops, after |-> r.m, calls |-> ids, reads |-> p.reads]
           g == More(f, e)
<1>1. /\ lines \in Seq(Line) /\ Absorbings(lines) /\ Singly(lines) /\ k \in 1..n + 1
      /\ Ahead(StateOf(f), lines, k) /\ Waiting(lines, k, f)
  BY DEF Landable
<1>2. n \in Nat
  BY <1>1
<1>3. k \in 1..n /\ s \in 1..n /\ s \in k..n /\ s + 1 \in 1..n + 1 /\ \A j \in s + 1..n : j \in k..n /\ j # s /\ j \in 1..n
  <2>1. s \in k..n
    OBVIOUS
  <2> HIDE DEF n
  <2> QED BY <1>1, <1>2, <2>1
<1>4. PICK w \in State : ApplyIntent(StateOf(f), p.ops) = Fresh(w) /\ ReadOf(StateOf(f), p.reads) /\ Ahead(w, lines, s + 1)
  <2>1. p.kind = "land"
    OBVIOUS
  <2> HIDE DEF p
  <2>2. \E w \in State : /\ ApplyIntent(StateOf(f), lines[s].ops) = Fresh(w) /\ ReadOf(StateOf(f), lines[s].reads)
                         /\ Ahead(w, lines, s + 1)
    BY <1>1, <1>2, <1>3, AheadNext
  <2> QED BY <2>2 DEF p
<1>5. r = Fresh(w)
  BY <1>4
<1> HIDE DEF r
<1>6. r.ok = TRUE /\ r.m = w
  BY <1>5 DEF Fresh
<1>7. p \in Line
  BY <1>1, <1>3
<1>8. /\ ids \in Seq(Stamps) /\ IsInjective(ids)
      /\ \A id : id \in Range(ids) <=> \E j : Has(lines, s, j) /\ id = lines[j].call.id
  <2>1. lines \in Seq(Line) /\ Absorbings(lines) /\ Singly(lines) /\ s \in 1..Len(lines) /\ lines[s].kind = "land"
    BY <1>1, <1>3
  <2> QED BY ONLY <2>1, IdsAre, Zenon DEF ids, p
<1>9. Range(ids) \cap RecordedCalls(f) = {}
  BY <1>1, <1>3 DEF Waiting
<1>b. \A j \in s + 1..n : lines[j].kind = "land" => Range(IdsOf(lines, lines[j])) \cap Range(ids) = {}
  <2> TAKE j \in s + 1..n
  <2> HAVE lines[j].kind = "land"
  <2>1. /\ lines \in Seq(Line) /\ Absorbings(lines) /\ Singly(lines) /\ s \in 1..Len(lines) /\ lines[s].kind = "land"
        /\ j \in 1..Len(lines) /\ lines[j].kind = "land" /\ j # s
    BY <1>1, <1>3
  <2> QED BY ONLY <2>1, IdsApart DEF ids, p
<1> HIDE DEF ids
<1>10. p.ops \in Seq(Op) /\ p.reads \in SUBSET Reading
  <2> HIDE DEF p
  <2> QED BY <1>7 DEF Line
<1>11. e \in ForkLine /\ e.ops = p.ops /\ e.after = w /\ e.calls = ids /\ e.reads = p.reads
  <2> HIDE DEF p
  <2> QED BY <1>6, <1>8, <1>10 DEF ForkLine
<1> HIDE DEF e
<1>12. Told(StateOf(f), e)
  BY <1>4, <1>11 DEF Told
<1>13. Tells(g) /\ Once(g)
  BY <1>8, <1>9, <1>11, <1>12, TellsMore, OnceMore
<1>14. StateOf(g) = w /\ RecordedCalls(g) = RecordedCalls(f) \cup Range(ids)
  BY <1>11, MoreIs
<1> HIDE DEF g
<1>15. Waiting(lines, s + 1, g)
  <2> SUFFICES ASSUME NEW j \in s + 1..n, lines[j].kind = "land"
               PROVE  Range(IdsOf(lines, lines[j])) \cap RecordedCalls(g) = {}
    BY DEF Waiting
  <2>1. Range(IdsOf(lines, lines[j])) \cap RecordedCalls(f) = {}
    BY <1>1, <1>3 DEF Waiting
  <2> QED BY <1>b, <1>14, <2>1
<1>16. Landable(g, lines, s + 1)
  BY <1>1, <1>3, <1>4, <1>14, <1>15 DEF Landable
<1>17. ASSUME NEW calls, Covered(calls, lines, k, f) PROVE Covered(calls, lines, s + 1, g)
  <2> SUFFICES ASSUME NEW i \in 1..Len(calls), calls[i].id \notin RecordedCalls(g)
               PROVE  \E j \in s + 1..n : lines[j].kind = "land" /\ calls[i].id \in Range(IdsOf(lines, lines[j]))
    BY DEF Covered
  <2>1. calls[i].id \notin RecordedCalls(f) /\ calls[i].id \notin Range(ids)
    BY <1>14
  <2>2. PICK j \in k..n : lines[j].kind = "land" /\ calls[i].id \in Range(IdsOf(lines, lines[j]))
    BY <1>17, <2>1 DEF Covered
  <2>3. j # s
    BY <2>1, <2>2 DEF ids
  <2>4. j \notin k..s - 1
    BY <2>2
  <2>5. j \in s + 1..n
    <3> HIDE DEF n
    <3> QED BY <1>1, <1>2, <1>3, <2>3, <2>4
  <2> QED BY <2>2, <2>5
<1> QED BY <1>6, <1>11, <1>13, <1>16, <1>17 DEF g, e, r, ids

\* Once nothing is left to land, all calls are on the fork.
LEMMA LandsDone ==
  ASSUME NEW f, NEW lines, NEW k, NEW calls, Covered(calls, lines, k, f),
         \A j \in k..Len(lines) : lines[j].kind # "land"
  PROVE  AllIn(calls, f)
BY DEF Covered, AllIn

\* Reconcile: what was scanned is recorded, with an intent that tells it.
LEMMA ReconciledIs ==
  ASSUME NEW f \in Fork, Tells(f), Once(f), NEW n \in State
  PROVE  LET e == [ops |-> SynthesizeIntent(StateOf(f), n), after |-> n, calls |-> <<>>, reads |-> {}]
         IN  /\ e \in ForkLine /\ Tells(More(f, e)) /\ Once(More(f, e))
             /\ StateOf(More(f, e)) = n
             /\ \A calls : AllIn(calls, f) => AllIn(calls, More(f, e))
<1> DEFINE m == StateOf(f)
           ops == SynthesizeIntent(m, n)
           e == [ops |-> ops, after |-> n, calls |-> <<>>, reads |-> {}]
           g == More(f, e)
<1>1. m \in State
  BY StateOfType
<1> HIDE DEF m
<1>2. ops \in Seq(Op) /\ ApplyIntent(m, ops) = Fresh(n)
  BY <1>1, SynthesizeIntentIs
<1> HIDE DEF ops
<1>3. e \in ForkLine /\ e.ops = ops /\ e.after = n /\ e.calls = <<>> /\ e.reads = {}
  <2>1. <<>> \in Seq(Stamps) /\ {} \in SUBSET Reading
    OBVIOUS
  <2> QED BY <1>2, <2>1 DEF ForkLine
<1> HIDE DEF e
<1>4. Told(StateOf(f), e)
  BY <1>2, <1>3 DEF Told, ReadOf, m
<1>5. IsInjective(e.calls) /\ Range(e.calls) = {}
  BY <1>3 DEF IsInjective, Range
<1>6. Tells(g) /\ Once(g)
  BY <1>3, <1>4, <1>5, TellsMore, OnceMore
<1>7. StateOf(g) = n /\ RecordedCalls(g) = RecordedCalls(f)
  BY <1>3, <1>5, MoreIs
<1> HIDE DEF g
<1>8. \A calls : AllIn(calls, f) => AllIn(calls, g)
  BY <1>7 DEF AllIn
<1> QED BY <1>3, <1>6, <1>7, <1>8 DEF g, e, ops, m

-----------------------------------------------------------------------------
(* The inductive invariant.                                                *)

RunState == [pc : {"idle", "plan", "land", "scan", "commit", "done"}, s : Sessions,
        mode : {"full", "dry", "keep"}, calls : Seq(Call), to : Fork,
        planned : Seq(Line), next : Nat, skipped : Nat, appended : Nat, scan : State]

\* What a transcript, the tree, a fork and a run can hold.
Typed(e, t, f, r) ==
  /\ e = [s \in Sessions |-> e[s]] /\ \A s \in Sessions : Transcript(e[s])
  /\ t \in State
  /\ f \in [Sessions -> Fork]
  /\ r = NoRun \/ r \in RunState

\* What a run relies on, from one step of commit to the next: its own fork is
\* as it left it, what is left of its plan still lands on it and is new to it,
\* and covers the calls the fork does not have.
Recording(f, r) ==
  /\ \A s \in Sessions : Tells(f[s]) /\ Once(f[s])
  /\ r.pc = "plan" => Tells(r.to) /\ Once(r.to) /\ Apiece(r.calls) /\ r.next = 1
  /\ r.pc = "land" => /\ Landable(f[r.s], r.planned, r.next)
                      /\ r.skipped = 0 => Covered(r.calls, r.planned, r.next, f[r.s])
  /\ r.pc \in {"scan", "commit"} => (r.skipped = 0 => AllIn(r.calls, f[r.s]))
  /\ r.pc = "done" => /\ r.mode \in {"full", "keep"} /\ r.skipped = 0 => AllIn(r.calls, f[r.s])
                      /\ r.mode = "full" => StateOf(f[r.s]) = r.scan

IInv == Typed(entries, tree, fork, run) /\ Recording(fork, run)

\* A run of an ingest that is under way.
LEMMA RunIs ==
  ASSUME NEW r \in RunState
  PROVE  /\ r.s \in Sessions /\ r.mode \in {"full", "dry", "keep"} /\ r.calls \in Seq(Call) /\ r.to \in Fork
         /\ r.planned \in Seq(Line) /\ r.next \in Nat /\ r.skipped \in Nat /\ r.appended \in Nat
         /\ r.scan \in State
         /\ r.pc \in {"idle", "plan", "land", "scan", "commit", "done"}
BY DEF RunState

\* Only an idle one is none.
LEMMA RunUnderWay ==
  ASSUME NEW r, r = NoRun \/ r \in RunState, r.pc # "idle"
  PROVE  r \in RunState
BY DEF NoRun

\* A fork not made yet tells nothing wrong.
LEMMA NoForkIs == NoFork \in Fork /\ Tells(NoFork) /\ Once(NoFork)
<1>1. NoFork \in Fork
  <2>1. <<>> \in Seq(ForkLine)
    OBVIOUS
  <2> QED BY <2>1 DEF NoFork, Fork
<1>2. Len(NoFork.lines) = 0
  BY DEF NoFork
<1>3. \A k : k \notin 1..0
  OBVIOUS
<1> QED BY <1>1, <1>2, <1>3 DEF Tells, Once, DistinctIn

\* The invariant holds at first.
LEMMA IngestStarts == Init => IInv
<1> SUFFICES ASSUME Init PROVE IInv
  OBVIOUS
<1>1. /\ entries = [s \in Sessions |-> <<>>] /\ tree = Start
      /\ fork = [s \in Sessions |-> NoFork] /\ run = NoRun
  BY DEF Init
<1>2. \A s \in Sessions : entries[s] = <<>> /\ fork[s] = NoFork
  BY <1>1
<1>3. Transcript(<<>>)
  BY DEF Transcript
<1>4. entries = [s \in Sessions |-> entries[s]]
  BY <1>1
<1>5. tree \in State
  BY <1>1, IngestAssumption DEF State
<1>6. fork \in [Sessions -> Fork]
  BY <1>1, NoForkIs
<1>7. Typed(entries, tree, fork, run)
  BY <1>1, <1>2, <1>3, <1>4, <1>5, <1>6 DEF Typed
<1>8. Recording(fork, run)
  <2>1. run.pc = "idle"
    BY <1>1 DEF NoRun
  <2> QED BY <1>2, <2>1, NoForkIs DEF Recording
<1> QED BY <1>7, <1>8 DEF IInv

-----------------------------------------------------------------------------
(* The harness keeps it.                                                   *)

\* An entry written to a transcript keeps it.
LEMMA LogKeeps ==
  ASSUME Typed(entries, tree, fork, run), NEW s \in Sessions, NEW e \in Entry, e.uuid = NewId(s), Log(s, e),
         UNCHANGED <<tree, fork, run>>
  PROVE  Typed(entries, tree, fork, run)'
<1>1. /\ entries = [t \in Sessions |-> entries[t]] /\ \A t \in Sessions : Transcript(entries[t])
      /\ entries' = [entries EXCEPT ![s] = Append(entries[s], e)]
  BY DEF Typed, Log
<1>2. Transcript(Append(entries[s], e))
  <2>1. e.uuid[2] = Len(entries[s]) + 1
    BY DEF NewId
  <2> QED BY <1>1, <2>1, TranscriptGrows
<1>3. entries' = [t \in Sessions |-> entries'[t]]
  BY <1>1
<1>4. \A t \in Sessions : entries'[t] = IF t = s THEN Append(entries[s], e) ELSE entries[t]
  BY <1>1
<1>5. \A t \in Sessions : Transcript(entries'[t])
  BY <1>1, <1>2, <1>4
<1> QED BY <1>3, <1>5 DEF Typed

\* An entry has a uuid no other has.
LEMMA NewIdIs ==
  ASSUME Typed(entries, tree, fork, run), NEW s \in Sessions
  PROVE  NewId(s) \in Stamps
<1>1. entries[s] \in Seq(Entry)
  BY DEF Typed, Transcript
<1> QED BY <1>1 DEF NewId, Stamps

\* A call under way is one of the tools.
LEMMA PendingIs ==
  ASSUME Typed(entries, tree, fork, run), NEW s \in Sessions, NEW e \in Pending(s)
  PROVE  e.uuid \in Stamps /\ e.tool \in Tool
<1>1. entries[s] \in Seq(Entry)
  BY DEF Typed, Transcript
<1>2. e \in Range(entries[s]) /\ e.kind = "call"
  BY DEF Pending
<1>3. e \in Entry
  BY <1>1, <1>2 DEF Range
<1> QED BY <1>2, <1>3, EntryKinds, IngestAssumption

\* What only writes to a transcript keeps it.
LEMMA HarnessKeeps ==
  ASSUME Typed(entries, tree, fork, run), NEW s \in Sessions
  PROVE  /\ \A x \in Paths : Read(s, x) => Typed(entries, tree, fork, run)'
         /\ \A t \in Tools : Ask(s, t) => Typed(entries, tree, fork, run)'
         /\ \A e \in Pending(s) : Refuse(s, e) => Typed(entries, tree, fork, run)'
         /\ \A t \in Sessions : Resume(s, t) => Typed(entries, tree, fork, run)'
<1> DEFINE id == NewId(s)
<1>1. id \in Stamps
  BY NewIdIs
<1>2. ASSUME NEW x \in Paths, Read(s, x) PROVE Typed(entries, tree, fork, run)'
  <2> DEFINE e == [uuid |-> id, kind |-> "read", path |-> x]
  <2>1. Log(s, e) /\ UNCHANGED <<tree, fork, run>>
    BY <1>2 DEF Read
  <2> HIDE DEF id
  <2>2. e \in Entry /\ e.uuid = id
    BY <1>1 DEF Entry, ReadEntry
  <2> HIDE DEF e
  <2> QED BY <2>1, <2>2, LogKeeps DEF id
<1>3. ASSUME NEW t \in Tools, Ask(s, t) PROVE Typed(entries, tree, fork, run)'
  <2> DEFINE e == [uuid |-> id, kind |-> "call", tool |-> t]
  <2>1. Log(s, e) /\ UNCHANGED <<tree, fork, run>>
    BY <1>3 DEF Ask
  <2> HIDE DEF id
  <2>2. e \in Entry /\ e.uuid = id
    BY <1>1 DEF Entry, CallEntry
  <2> HIDE DEF e
  <2> QED BY <2>1, <2>2, LogKeeps DEF id
<1>4. ASSUME NEW c \in Pending(s), Refuse(s, c) PROVE Typed(entries, tree, fork, run)'
  <2> DEFINE e == [uuid |-> id, kind |-> "result", id |-> c.uuid, error |-> TRUE]
  <2>1. Log(s, e) /\ UNCHANGED <<tree, fork, run>>
    BY <1>4 DEF Refuse, Answer
  <2>2. c.uuid \in Stamps
    BY PendingIs
  <2> HIDE DEF id
  <2>3. e \in Entry /\ e.uuid = id
    BY <1>1, <2>2 DEF Entry, ResultEntry
  <2> HIDE DEF e
  <2> QED BY <2>1, <2>3, LogKeeps DEF id
<1>5. ASSUME NEW t \in Sessions, Resume(s, t) PROVE Typed(entries, tree, fork, run)'
  <2>1. entries' = [entries EXCEPT ![t] = entries[s]] /\ UNCHANGED <<tree, fork, run>>
    BY <1>5 DEF Resume
  <2>2. entries = [u \in Sessions |-> entries[u]] /\ \A u \in Sessions : Transcript(entries[u])
    BY DEF Typed
  <2>3. entries' = [u \in Sessions |-> entries'[u]] /\ \A u \in Sessions : entries'[u] = IF u = t THEN entries[s] ELSE entries[u]
    BY <2>1, <2>2
  <2>4. \A u \in Sessions : Transcript(entries'[u])
    BY <2>2, <2>3
  <2> QED BY <2>1, <2>3, <2>4 DEF Typed
<1> QED BY <1>2, <1>3, <1>4, <1>5

\* So does a call that is made,
LEMMA MakeKeeps ==
  ASSUME Typed(entries, tree, fork, run), NEW s \in Sessions, NEW c \in Pending(s), Make(s, c)
  PROVE  Typed(entries, tree, fork, run)'
<1> DEFINE tool == c.tool
           x == tool.path
           d == After(tool)
           e == [uuid |-> NewId(s), kind |-> "result", id |-> c.uuid, error |-> FALSE]
<1>1. /\ d # NoFile /\ tree' = [tree EXCEPT ![x] = d]
      /\ Log(s, e) /\ UNCHANGED <<fork, run>>
  BY DEF Make, Answer
<1>2. c.uuid \in Stamps /\ tool \in Tool /\ NewId(s) \in Stamps
  BY PendingIs, NewIdIs
<1>3. tree \in State
  BY DEF Typed
<1> HIDE DEF tool
<1>4. x \in Paths /\ (tool.tool = "Write" => tool.content \in Content)
      /\ (tool.tool # "Write" => tool.spans \in Seq(Span))
  BY <1>2 DEF Tool
<1>5. d \in Content \cup {NoFile}
  <2>1. tree[x] \in Content \cup {NoFile}
    BY <1>3, <1>4 DEF State
  <2>2. CASE tool.tool = "Write"
    BY <1>4, <2>2 DEF After
  <2>3. CASE tool.tool # "Write"
    <3>1. d = Edited(tree[x], tool.spans)
      BY <2>3 DEF After
    <3> HIDE DEF d, x
    <3> QED BY <1>4, <2>1, <2>3, <3>1, EditedType
  <2> QED BY <2>2, <2>3
<1> HIDE DEF d, x
<1>6. tree' \in State
  BY <1>1, <1>3, <1>4, <1>5 DEF State
<1>7. e \in Entry /\ e.uuid = NewId(s)
  BY <1>2 DEF Entry, ResultEntry
<1> HIDE DEF e
<1>8. /\ entries = [t \in Sessions |-> entries[t]] /\ \A t \in Sessions : Transcript(entries[t])
      /\ entries' = [entries EXCEPT ![s] = Append(entries[s], e)]
  BY <1>1 DEF Typed, Log
<1>9. Transcript(Append(entries[s], e))
  <2>1. e.uuid[2] = Len(entries[s]) + 1
    BY <1>7 DEF NewId
  <2> QED BY <1>7, <1>8, <2>1, TranscriptGrows
<1>10. /\ entries' = [t \in Sessions |-> entries'[t]]
       /\ \A t \in Sessions : entries'[t] = IF t = s THEN Append(entries[s], e) ELSE entries[t]
  BY <1>8
<1>11. \A t \in Sessions : Transcript(entries'[t])
  BY <1>8, <1>9, <1>10
<1> QED BY <1>1, <1>6, <1>10, <1>11 DEF Typed

\* and a shell that edits the tree.
LEMMA ShellKeeps ==
  ASSUME Typed(entries, tree, fork, run), NEW ed \in ShellEdits, Shell(ed)
  PROVE  Typed(entries, tree, fork, run)'
<1> DEFINE x == ed.path
           c == tree[x]
           d == Replaced(c, ed.old, ed.new)
<1>1. /\ c # NoFile /\ Unique(c, ed.old) /\ tree' = [tree EXCEPT ![x] = d]
      /\ UNCHANGED <<entries, fork, run>>
  BY DEF Shell
<1>2. x \in Paths /\ ed.old \in Content /\ ed.new \in Content
  BY IngestAssumption
<1>3. tree \in State
  BY DEF Typed
<1>4. c \in Content
  BY <1>1, <1>2, <1>3 DEF State
<1> HIDE DEF c
<1>5. d \in Content
  BY <1>1, <1>2, <1>4, ReplacedType
<1> HIDE DEF d, x
<1>6. tree' \in State
  BY <1>1, <1>2, <1>3, <1>5 DEF State
<1> QED BY <1>1, <1>6 DEF Typed

-----------------------------------------------------------------------------
(* An ingest keeps it.                                                     *)

\* commit: the fork an ingest starts from.
LEMMA EnsuredIs ==
  ASSUME Typed(entries, tree, fork, run), Recording(fork, run), NEW s \in Sessions
  PROVE  Ensured(s) \in Fork /\ Tells(Ensured(s)) /\ Once(Ensured(s))
<1>1. fork \in [Sessions -> Fork] /\ \A t \in Sessions : Transcript(entries[t])
  BY DEF Typed
<1>2. CASE fork[s].exists
  <2>1. Ensured(s) = fork[s]
    BY <1>2 DEF Ensured
  <2> QED BY <1>1, <2>1 DEF Recording
<1>3. CASE ~fork[s].exists
  <2>1. Basis(s) \in Seq(ForkLine)
    <3> DEFINE b == Inherited(s)
    <3>1. CASE b # NoSession /\ fork[b].exists
      <4>1. b \in Sessions
        BY <1>1, <3>1, InheritedIs
      <4>2. Basis(s) = fork[b].prior \o fork[b].lines
        BY <3>1 DEF Basis
      <4> HIDE DEF b
      <4>3. fork[b] \in Fork
        BY <1>1, <4>1
      <4>4. fork[b].prior \in Seq(ForkLine) /\ fork[b].lines \in Seq(ForkLine)
        BY <4>3 DEF Fork
      <4> QED BY <4>2, <4>4
    <3>2. CASE ~(b # NoSession /\ fork[b].exists)
      BY <3>2 DEF Basis
    <3> QED BY <3>1, <3>2
  <2>2. Ensured(s) = [exists |-> TRUE, prior |-> Basis(s), lines |-> <<>>]
    BY <1>3 DEF Ensured
  <2> DEFINE f == Ensured(s)
  <2>3. f \in Fork /\ f.lines = <<>>
    BY <2>1, <2>2 DEF Fork
  <2> HIDE DEF f
  <2>4. Len(f.lines) = 0 /\ \A k : k \notin 1..0
    BY <2>3
  <2>5. Tells(f) /\ Once(f)
    BY <2>4 DEF Tells, Once, DistinctIn
  <2> QED BY <2>3, <2>5 DEF f
<1> QED BY <1>2, <1>3

\* commit begins: it reads the transcript and what is recorded.
LEMMA BeginKeeps ==
  ASSUME IInv, NEW s \in Sessions, NEW mode \in Modes, Begin(s, mode)
  PROVE  IInv'
<1> DEFINE f == Ensured(s)
           l == Calls(s)
           r == [pc |-> "plan", s |-> s, mode |-> mode, calls |-> l,
                 to |-> f, planned |-> <<>>, next |-> 1, skipped |-> 0,
                 appended |-> 0, scan |-> Start]
<1>1. Typed(entries, tree, fork, run) /\ Recording(fork, run)
  BY DEF IInv
<1>2. run' = r /\ UNCHANGED <<entries, tree, fork>>
  BY DEF Begin
<1>3. f \in Fork /\ Tells(f) /\ Once(f)
  BY <1>1, EnsuredIs
<1>4. l \in Seq(Call) /\ Apiece(l)
  BY <1>1, CallsAre DEF Typed
<1>5. Start \in State /\ mode \in {"full", "dry", "keep"} /\ <<>> \in Seq(Line)
  BY IngestAssumption DEF State
<1> HIDE DEF f, l
<1>6. r \in RunState
  BY <1>3, <1>4, <1>5 DEF RunState
<1>7. r.pc = "plan" /\ r.to = f /\ r.calls = l /\ r.next = 1
  OBVIOUS
<1> HIDE DEF r
<1>8. Typed(entries, tree, fork, r)
  BY <1>1, <1>6 DEF Typed
<1>9. Recording(fork, r)
  BY <1>1, <1>3, <1>4, <1>7 DEF Recording
<1> QED BY <1>2, <1>8, <1>9 DEF IInv

\* It plans.
LEMMA MakePlanKeeps ==
  ASSUME IInv, MakePlan
  PROVE  IInv'
<1> DEFINE p == PlanNow.planned
           T == {k \in 1..Len(p) : p[k].kind = "skip"}
           pc == IF run.mode = "dry" THEN "done" ELSE "land"
<1>1. Typed(entries, tree, fork, run) /\ Recording(fork, run)
  BY DEF IInv
<1>2. /\ run.pc = "plan" /\ UNCHANGED <<entries, tree>>
      /\ run' = [run EXCEPT !.planned = p, !.pc = pc, !.skipped = Cardinality(T)]
      /\ fork' = IF run.mode = "dry" THEN fork ELSE [fork EXCEPT ![run.s] = run.to]
  BY DEF MakePlan
<1>3. run \in RunState /\ fork \in [Sessions -> Fork] /\ tree \in State
  BY <1>1, <1>2, RunUnderWay DEF Typed
<1>4. /\ run.s \in Sessions /\ run.mode \in {"full", "dry", "keep"} /\ run.calls \in Seq(Call) /\ run.to \in Fork
      /\ run.next \in Nat /\ run.scan \in State /\ run.appended \in Nat
  BY <1>3, RunIs
<1>5. Tells(run.to) /\ Once(run.to) /\ Apiece(run.calls) /\ run.next = 1
  BY <1>1, <1>2 DEF Recording
<1>6. /\ Landable(run.to, p, 1)
      /\ (\A s \in 1..Len(p) : p[s].kind # "skip") => Covered(run.calls, p, 1, run.to)
  BY <1>3, <1>4, <1>5, PlanLands DEF PlanNow
<1> HIDE DEF p
<1>7. p \in Seq(Line)
  BY <1>6 DEF Landable
<1>8. IsFiniteSet(T) /\ Cardinality(T) \in Nat /\ (Cardinality(T) = 0 => T = {})
  <2>1. IsFiniteSet(1..Len(p)) /\ T \subseteq 1..Len(p)
    BY <1>7, FS_Interval
  <2>2. IsFiniteSet(T)
    BY <2>1, FS_Subset
  <2> QED BY <2>2, FS_CardinalityType, FS_EmptySet
<1>9. Cardinality(T) = 0 => Covered(run.calls, p, 1, run.to)
  BY <1>6, <1>8
<1> DEFINE c == Cardinality(T)
<1> HIDE DEF T, c
<1>10. pc \in {"done", "land"}
  OBVIOUS
<1>11. /\ run' \in RunState
       /\ run'.s = run.s /\ run'.mode = run.mode /\ run'.calls = run.calls /\ run'.pc = pc
       /\ run'.planned = p /\ run'.next = run.next /\ run'.skipped = c
  BY <1>2, <1>3, <1>4, <1>7, <1>8 DEF RunState, c
<1>12. /\ run.mode = "dry" => fork' = fork /\ pc = "done"
       /\ run.mode # "dry" => pc = "land" /\ fork' = [fork EXCEPT ![run.s] = run.to]
  BY <1>2, <1>4
<1> HIDE DEF pc
<1>13. fork' \in [Sessions -> Fork]
  BY <1>3, <1>4, <1>12
<1>14. \A s \in Sessions : Tells(fork'[s]) /\ Once(fork'[s])
  <2> TAKE s \in Sessions
  <2>1. fork'[s] = fork[s] \/ fork'[s] = run.to
    BY <1>3, <1>4, <1>12
  <2> QED BY <1>1, <1>5, <2>1 DEF Recording
<1>15. run.mode # "dry" => fork'[run.s] = run.to
  BY <1>3, <1>4, <1>12
<1>16. Recording(fork', run')
  <2>1. CASE run.mode = "dry"
    <3>1. run'.pc = "done" /\ run'.mode = "dry"
      BY <1>11, <1>12, <2>1
    <3> QED BY <1>14, <3>1 DEF Recording
  <2>2. CASE run.mode # "dry"
    <3>1. run'.pc = "land" /\ fork'[run'.s] = run.to /\ run'.next = 1
      BY <1>5, <1>11, <1>12, <1>15, <2>2
    <3>2. Landable(fork'[run'.s], run'.planned, run'.next)
      BY <1>6, <1>11, <3>1
    <3>3. run'.skipped = 0 => Covered(run'.calls, run'.planned, run'.next, fork'[run'.s])
      BY <1>9, <1>11, <3>1 DEF c
    <3> QED BY <1>14, <3>1, <3>2, <3>3 DEF Recording
  <2> QED BY <2>1, <2>2
<1>17. Typed(entries', tree', fork', run')
  BY <1>1, <1>2, <1>11, <1>13 DEF Typed
<1> QED BY <1>16, <1>17 DEF IInv

\* A line appended to the fork.
LEMMA AppendedIs ==
  ASSUME fork \in [Sessions -> Fork], run.s \in Sessions, NEW ops, NEW after, NEW calls, NEW reads,
         Appended(ops, after, calls, reads),
         [ops |-> ops, after |-> after, calls |-> calls, reads |-> reads] \in ForkLine
  PROVE  LET e == [ops |-> ops, after |-> after, calls |-> calls, reads |-> reads]
         IN  /\ fork' \in [Sessions -> Fork] /\ fork'[run.s] = More(fork[run.s], e)
             /\ \A s \in Sessions : s # run.s => fork'[s] = fork[s]
<1> DEFINE e == [ops |-> ops, after |-> after, calls |-> calls, reads |-> reads]
           t == run.s
           g == More(fork[t], e)
<1>1. fork' = [fork EXCEPT ![t] = g]
  BY DEF Appended, More
<1>2. e \in ForkLine /\ t \in Sessions /\ fork[t] \in Fork
  OBVIOUS
<1> HIDE DEF e, t
<1>3. g \in Fork
  BY <1>2, MoreIs
<1> HIDE DEF g
<1>4. fork' \in [Sessions -> Fork] /\ fork'[t] = g /\ \A s \in Sessions : s # t => fork'[s] = fork[s]
  BY <1>1, <1>2, <1>3
<1> QED BY <1>4 DEF e, t, g

\* It lands the next line, which applies because it was ahead and new.
LEMMA LandKeeps ==
  ASSUME IInv, Land
  PROVE  IInv'
<1> DEFINE k == Min(Seats)
           lines == run.planned
           n == Len(lines)
           p == lines[k]
           f == fork[run.s]
           r == ApplyIntent(StateOf(f), p.ops)
           ids == IdsOf(lines, p)
           e == [ops |-> p.ops, after |-> r.m, calls |-> ids, reads |-> p.reads]
           g == More(f, e)
<1>1. Typed(entries, tree, fork, run) /\ Recording(fork, run)
  BY DEF IInv
<1>2. /\ run.pc = "land" /\ Seats # {} /\ UNCHANGED <<entries, tree>>
      /\ run' = [run EXCEPT !.next = k + 1,
                            !.skipped = run.skipped + (IF r.ok THEN 0 ELSE 1),
                            !.appended = run.appended + (IF r.ok THEN 1 ELSE 0)]
      /\ r.ok => Appended(p.ops, r.m, CallsOf(p), p.reads)
  BY DEF Land
<1>3. run \in RunState /\ fork \in [Sessions -> Fork]
  BY <1>1, <1>2, RunUnderWay DEF Typed
<1>4. /\ run.s \in Sessions /\ run.next \in Nat /\ run.skipped \in Nat /\ run.appended \in Nat
      /\ lines \in Seq(Line) /\ f \in Fork
  BY <1>3, RunIs
<1>5. /\ Landable(f, lines, run.next) /\ Tells(f) /\ Once(f)
      /\ run.skipped = 0 => Covered(run.calls, lines, run.next, f)
  BY <1>1, <1>2, <1>4 DEF Recording
<1>6. run.next \in 1..n + 1 /\ n \in Nat
  BY <1>4, <1>5 DEF Landable
<1>7. Seats = {j \in run.next..n : lines[j].kind = "land"}
  BY DEF Seats
<1> DEFINE x == run.next
<1> HIDE DEF n, x
<1>8. /\ k \in Seats /\ k \in x..n /\ k \in Nat /\ lines[k].kind = "land"
      /\ \A j \in x..k - 1 : lines[j].kind # "land"
  <2> DEFINE T == Seats
  <2>1. T = {j \in x..n : lines[j].kind = "land"} /\ T # {} /\ x \in Nat
    BY <1>2, <1>4, <1>7 DEF x
  <2> HIDE DEF T
  <2>2. T \subseteq Nat
    BY <2>1
  <2>3. Min(T) \in T /\ \A y \in T : Min(T) <= y
    BY <2>1, <2>2, MinIn
  <2> DEFINE z == Min(T)
  <2> HIDE DEF z
  <2>4. z \in x..n /\ lines[z].kind = "land" /\ z \in T
    BY <2>1, <2>3 DEF z
  <2>5. \A j \in x..z - 1 : lines[j].kind # "land"
    <3> TAKE j \in x..z - 1
    <3>1. j \in x..n /\ ~(z <= j)
      BY <1>6, <2>1, <2>4
    <3> QED BY <2>1, <2>3, <3>1 DEF z
  <2>6. z \in Nat
    BY <2>1, <2>4
  <2> QED BY <2>4, <2>5, <2>6 DEF z, T
<1> HIDE DEF k
<1>9. ids = CallsOf(p)
  BY DEF CallsOf, IdsOf
<1>10. /\ r.ok = TRUE /\ e \in ForkLine
       /\ Tells(g) /\ Once(g) /\ Landable(g, lines, k + 1)
       /\ \A calls : Covered(calls, lines, x, f) => Covered(calls, lines, k + 1, g)
  <2>1. Landable(f, lines, x) /\ Tells(f) /\ Once(f) /\ f \in Fork /\ k \in x..Len(lines)
    BY <1>4, <1>5, <1>8 DEF n, x
  <2> HIDE DEF f, lines, x
  <2> QED BY ONLY <1>8, <2>1, LandsNext DEF g, e, ids, r, p
<1> HIDE DEF r, ids
<1>11. /\ fork' \in [Sessions -> Fork] /\ fork'[run.s] = g
       /\ \A s \in Sessions : s # run.s => fork'[s] = fork[s]
  <2>1. Appended(p.ops, r.m, ids, p.reads)
    BY <1>2, <1>9, <1>10
  <2> QED BY <1>3, <1>4, <1>10, <2>1, AppendedIs
<1>12. /\ run' \in RunState
       /\ run'.s = run.s /\ run'.pc = "land" /\ run'.planned = lines /\ run'.calls = run.calls
       /\ run'.next = k + 1 /\ run'.skipped = run.skipped
  <2>1. run' = [run EXCEPT !.next = k + 1, !.skipped = run.skipped + 0, !.appended = run.appended + 1]
    BY <1>2, <1>10
  <2>2. run.skipped + 0 = run.skipped /\ run.appended + 1 \in Nat /\ k + 1 \in Nat
    BY <1>4, <1>8
  <2> DEFINE u == k + 1
             v == run.appended + 1
             w == run.skipped + 0
  <2>3. u \in Nat /\ v \in Nat /\ w \in Nat /\ w = run.skipped
    BY <1>4, <2>2
  <2> HIDE DEF u, v, w
  <2>4. run' = [run EXCEPT !.next = u, !.skipped = w, !.appended = v]
    BY <2>1 DEF u, v, w
  <2>5. /\ run' \in RunState /\ run'.s = run.s /\ run'.pc = run.pc /\ run'.planned = lines
        /\ run'.calls = run.calls /\ run'.next = u /\ run'.skipped = w
    BY <1>3, <2>3, <2>4 DEF RunState
  <2> QED BY <1>2, <2>3, <2>5 DEF u
<1> HIDE DEF g, e
<1>13. \A s \in Sessions : Tells(fork'[s]) /\ Once(fork'[s])
  BY <1>1, <1>10, <1>11 DEF Recording
<1>14. Recording(fork', run')
  <2>1. run'.skipped = 0 => Covered(run'.calls, run'.planned, run'.next, fork'[run'.s])
    BY <1>5, <1>10, <1>11, <1>12 DEF x
  <2>2. Landable(fork'[run'.s], run'.planned, run'.next)
    BY <1>10, <1>11, <1>12
  <2> QED BY <1>12, <1>13, <2>1, <2>2 DEF Recording
<1>15. Typed(entries', tree', fork', run')
  BY <1>1, <1>2, <1>11, <1>12 DEF Typed
<1> QED BY <1>14, <1>15 DEF IInv

\* It scans what the tree still differs in,
LEMMA ResidueKeeps ==
  ASSUME IInv, Residue
  PROVE  IInv'
<1> DEFINE pc == IF tree = StateOf(fork[run.s]) \/ run.mode = "keep" THEN "done" ELSE "scan"
<1>1. Typed(entries, tree, fork, run) /\ Recording(fork, run)
  BY DEF IInv
<1>2. /\ run.pc = "land" /\ Seats = {} /\ UNCHANGED <<entries, tree, fork>>
      /\ run' = [run EXCEPT !.scan = tree, !.pc = pc]
  BY DEF Residue
<1>3. run \in RunState /\ tree \in State
  BY <1>1, <1>2, RunUnderWay DEF Typed
<1>4. pc \in {"done", "scan"} /\ (pc = "done" /\ run.mode = "full" => StateOf(fork[run.s]) = tree)
  OBVIOUS
<1> HIDE DEF pc
<1>5. /\ run' \in RunState /\ run'.s = run.s /\ run'.pc = pc /\ run'.scan = tree /\ run'.mode = run.mode
      /\ run'.calls = run.calls /\ run'.skipped = run.skipped
  BY <1>2, <1>3, <1>4 DEF RunState
<1>6. run.skipped = 0 => AllIn(run.calls, fork[run.s])
  <2>1. \A j \in run.next..Len(run.planned) : run.planned[j].kind # "land"
    BY <1>2 DEF Seats
  <2>2. run.skipped = 0 => Covered(run.calls, run.planned, run.next, fork[run.s])
    BY <1>1, <1>2 DEF Recording
  <2> QED BY <2>1, <2>2, LandsDone
<1>7. Recording(fork, run')
  BY <1>1, <1>4, <1>5, <1>6 DEF Recording
<1>8. Typed(entries, tree, fork, run')
  BY <1>1, <1>5 DEF Typed
<1> QED BY <1>2, <1>7, <1>8 DEF IInv

\* again before it reconciles,
LEMMA ScanKeeps ==
  ASSUME IInv, Scan
  PROVE  IInv'
<1> DEFINE pc == IF tree = StateOf(fork[run.s]) THEN "idle" ELSE "commit"
<1>1. Typed(entries, tree, fork, run) /\ Recording(fork, run)
  BY DEF IInv
<1>2. /\ run.pc = "scan" /\ UNCHANGED <<entries, tree, fork>>
      /\ run' = [run EXCEPT !.scan = tree, !.pc = pc]
  BY DEF Scan
<1>3. run \in RunState /\ tree \in State
  BY <1>1, <1>2, RunUnderWay DEF Typed
<1>4. pc \in {"idle", "commit"}
  OBVIOUS
<1> HIDE DEF pc
<1>5. /\ run' \in RunState /\ run'.s = run.s /\ run'.pc = pc /\ run'.calls = run.calls /\ run'.skipped = run.skipped
  BY <1>2, <1>3, <1>4 DEF RunState
<1>6. run.skipped = 0 => AllIn(run.calls, fork[run.s])
  BY <1>1, <1>2 DEF Recording
<1>7. Recording(fork, run')
  BY <1>1, <1>4, <1>5, <1>6 DEF Recording
<1>8. Typed(entries, tree, fork, run')
  BY <1>1, <1>5 DEF Typed
<1> QED BY <1>2, <1>7, <1>8 DEF IInv

\* records that,
LEMMA ReconcileKeeps ==
  ASSUME IInv, Reconcile
  PROVE  IInv'
<1> DEFINE f == fork[run.s]
           ops == SynthesizeIntent(StateOf(f), run.scan)
           e == [ops |-> ops, after |-> run.scan, calls |-> <<>>, reads |-> {}]
           g == More(f, e)
<1>1. Typed(entries, tree, fork, run) /\ Recording(fork, run)
  BY DEF IInv
<1>2. /\ run.pc = "commit" /\ UNCHANGED <<entries, tree>>
      /\ run' = [run EXCEPT !.pc = "done", !.appended = run.appended + 1]
      /\ Appended(ops, run.scan, <<>>, {})
  BY DEF Reconcile
<1>3. run \in RunState /\ fork \in [Sessions -> Fork]
  BY <1>1, <1>2, RunUnderWay DEF Typed
<1>4. run.s \in Sessions /\ run.scan \in State /\ run.appended \in Nat /\ f \in Fork
  BY <1>3, RunIs
<1>5. Tells(f) /\ Once(f) /\ (run.skipped = 0 => AllIn(run.calls, f))
  BY <1>1, <1>2, <1>4 DEF Recording
<1> DEFINE n == run.scan
<1> HIDE DEF n
<1>6. /\ e \in ForkLine /\ Tells(g) /\ Once(g) /\ StateOf(g) = n
      /\ \A calls : AllIn(calls, f) => AllIn(calls, g)
  <2>1. n \in State /\ f \in Fork
    BY <1>4 DEF n
  <2>2. n = run.scan
    BY DEF n
  <2> HIDE DEF f
  <2>3. LET d == [ops |-> SynthesizeIntent(StateOf(f), n), after |-> n, calls |-> <<>>, reads |-> {}]
        IN  /\ d \in ForkLine /\ Tells(More(f, d)) /\ Once(More(f, d)) /\ StateOf(More(f, d)) = n
            /\ \A calls : AllIn(calls, f) => AllIn(calls, More(f, d))
    BY ONLY <1>5, <2>1, ReconciledIs
  <2> QED BY ONLY <2>2, <2>3 DEF g, e, ops
<1> HIDE DEF ops
<1>7. /\ fork' \in [Sessions -> Fork] /\ fork'[run.s] = g
      /\ \A s \in Sessions : s # run.s => fork'[s] = fork[s]
  BY <1>2, <1>3, <1>4, <1>6, AppendedIs
<1> HIDE DEF g, e
<1>8. /\ run' \in RunState /\ run'.s = run.s /\ run'.pc = "done" /\ run'.scan = n /\ run'.calls = run.calls
      /\ run'.skipped = run.skipped
  <2> DEFINE v == run.appended + 1
  <2>1. v \in Nat
    BY <1>4
  <2> HIDE DEF v
  <2>2. run' = [run EXCEPT !.pc = "done", !.appended = v]
    BY <1>2 DEF v
  <2> QED BY <1>3, <2>1, <2>2 DEF RunState, n
<1>9. \A s \in Sessions : Tells(fork'[s]) /\ Once(fork'[s])
  BY <1>1, <1>6, <1>7 DEF Recording
<1>10. Recording(fork', run')
  <2>1. run'.skipped = 0 => AllIn(run'.calls, fork'[run'.s])
    BY <1>5, <1>6, <1>7, <1>8
  <2>2. StateOf(fork'[run'.s]) = run'.scan
    BY <1>6, <1>7, <1>8
  <2> QED BY <1>8, <1>9, <2>1, <2>2 DEF Recording
<1>11. Typed(entries', tree', fork', run')
  BY <1>1, <1>2, <1>7, <1>8 DEF Typed
<1> QED BY <1>10, <1>11 DEF IInv

\* or is killed on the way.
LEMMA KillKeeps ==
  ASSUME IInv, Kill
  PROVE  IInv'
<1>1. Typed(entries, tree, fork, run) /\ Recording(fork, run)
  BY DEF IInv
<1>2. /\ run.pc \notin {"idle", "done"} /\ UNCHANGED <<entries, tree, fork>>
      /\ run' = [run EXCEPT !.pc = "idle"]
  BY DEF Kill
<1>3. run \in RunState
  BY <1>1, <1>2, RunUnderWay DEF Typed
<1>4. run' \in RunState /\ run'.pc = "idle"
  BY <1>2, <1>3 DEF RunState
<1>5. Recording(fork, run')
  BY <1>1, <1>4 DEF Recording
<1>6. Typed(entries, tree, fork, run')
  BY <1>1, <1>4 DEF Typed
<1> QED BY <1>2, <1>5, <1>6 DEF IInv

-----------------------------------------------------------------------------
(* The theorems.                                                           *)

\* The invariant is inductive.
LEMMA IngestStep == IInv /\ [Next]_vars => IInv'
<1> SUFFICES ASSUME IInv, [Next]_vars PROVE IInv'
  OBVIOUS
<1>1. Typed(entries, tree, fork, run) /\ Recording(fork, run)
  BY DEF IInv
<1>2. ASSUME Typed(entries, tree, fork, run)', UNCHANGED <<fork, run>> PROVE IInv'
  BY <1>1, <1>2 DEF IInv
<1>3. CASE UNCHANGED vars
  BY <1>1, <1>3 DEF vars, IInv
<1>4. ASSUME NEW s \in Sessions, NEW x \in Paths, Read(s, x) PROVE IInv'
  BY <1>1, <1>2, <1>4, HarnessKeeps DEF Read
<1>5. ASSUME NEW s \in Sessions, NEW t \in Tools, Ask(s, t) PROVE IInv'
  BY <1>1, <1>2, <1>5, HarnessKeeps DEF Ask
<1>6. ASSUME NEW s \in Sessions, NEW e \in Pending(s), Make(s, e) PROVE IInv'
  BY <1>1, <1>2, <1>6, MakeKeeps DEF Make, Answer
<1>7. ASSUME NEW s \in Sessions, NEW e \in Pending(s), Refuse(s, e) PROVE IInv'
  BY <1>1, <1>2, <1>7, HarnessKeeps DEF Refuse, Answer
<1>8. ASSUME NEW s \in Sessions, NEW t \in Sessions, Resume(s, t) PROVE IInv'
  BY <1>1, <1>2, <1>8, HarnessKeeps DEF Resume
<1>9. ASSUME NEW ed \in ShellEdits, Shell(ed) PROVE IInv'
  BY <1>1, <1>2, <1>9, ShellKeeps DEF Shell
<1> QED BY <1>3, <1>4, <1>5, <1>6, <1>7, <1>8, <1>9, BeginKeeps, MakePlanKeeps, LandKeeps,
           ResidueKeeps, ScanKeeps, ReconcileKeeps, KillKeeps DEF Next

\* The invariant: what transcripts, forks and runs hold, and what a run relies
\* on from one step of commit to the next.
THEOREM IngestInvariant == Spec => []IInv
<1> QED BY IngestStarts, IngestStep, PTL DEF Spec

\* A plan is made of a state, of calls and of a tree.
LEMMA PlanningIs ==
  ASSUME IInv, run.pc = "plan"
  PROVE  StateOf(run.to) \in State /\ run.calls \in Seq(Call) /\ tree \in State
<1>1. run \in RunState /\ tree \in State
  BY RunUnderWay DEF IInv, Typed
<1> QED BY <1>1, RunIs, StateOfType

\* Track (attribute, edit, rewrite_within): whatever the calls, every run of
\* bytes is what its operation wrote, at the place it says.
THEOREM TracksAlwaysHonest == Spec => []TracksHonest
<1>1. IInv => TracksHonest
  <2> SUFFICES ASSUME IInv, run.pc = "plan" PROVE Honest(FirstPass)
    BY DEF TracksHonest
  <2> DEFINE m == StateOf(run.to)
             calls == run.calls
             rec == RecordedCalls(run.to)
             obs == Observed(m, calls, rec)
  <2>1. m \in State /\ calls \in Seq(Call)
    BY PlanningIs
  <2>2. obs = FirstPass
    BY DEF FirstPass
  <2> HIDE DEF m, calls, rec
  <2>3. Passed(m, rec, calls, Len(calls), obs)
    BY <2>1, ObservedIs
  <2> HIDE DEF obs
  <2>4. Obs(obs) /\ Tracked(obs)
    BY <2>3 DEF Passed
  <2>5. Honest(obs)
    BY <2>4, PassedHonest
  <2> QED BY <2>2, <2>5
<1> QED BY <1>1, IngestInvariant, PTL

\* plan: through absorption, alignment, replay and unwinding, whatever the tree
\* holds, no call is lost.
THEOREM CallsAlwaysAccounted == Spec => []CallsAccounted
<1>1. IInv => CallsAccounted
  <2> SUFFICES ASSUME IInv, run.pc = "plan" PROVE Accounted(PlanNow.planned, FirstPass.planned)
    BY DEF CallsAccounted
  <2> DEFINE m == StateOf(run.to)
             calls == run.calls
             rec == RecordedCalls(run.to)
             obs == Observed(m, calls, rec)
             plan == Plan(m, calls, rec, tree)
  <2>1. m \in State /\ calls \in Seq(Call) /\ tree \in State
    BY PlanningIs
  <2>2. obs = FirstPass /\ plan = PlanNow
    BY DEF FirstPass, PlanNow
  <2> HIDE DEF m, calls, rec
  <2>3. Planned(m, obs.planned, plan)
    BY <2>1, PlanIs
  <2> HIDE DEF obs, plan
  <2>4. Accounted(plan.planned, obs.planned)
    BY <2>3, AccountedIs DEF Planned
  <2> QED BY <2>2, <2>4
<1> QED BY <1>1, IngestInvariant, PTL

\* reads_for, and the reads replay gives a line: they are of the state that the
\* line landed on.
THEOREM ReadsAlwaysMet == Spec => []ReadsNameMet
<1>1. IInv => ReadsNameMet
  BY DEF IInv, Recording, Tells, Told, ReadOf, ReadsNameMet
<1> QED BY <1>1, IngestInvariant, PTL

\* record_observed and synthesize_intent: a line's intent makes its delta of the
\* state it met, also the intent that is synthesized for what the tree held.
THEOREM IntentsTellDeltas == Spec => []IntentTellsDelta
<1>1. IInv => IntentTellsDelta
  BY DEF IInv, Recording, Tells, Told, Fresh, IntentTellsDelta
<1> QED BY <1>1, IngestInvariant, PTL

\* recorded_calls: however ingests die and are run again, no call is recorded
\* twice, one that skipped nothing leaves every call the session made recorded,
\* but those another transcript carries, and one after it has nothing to add.
THEOREM CallsRecordedOnce == Spec => []RecordedOnce
<1>1. IInv => RecordedOnce
  <2> SUFFICES ASSUME IInv PROVE RecordedOnce
    OBVIOUS
  <2>1. fork \in [Sessions -> Fork]
    BY DEF IInv, Typed
  <2>2. ASSUME NEW s \in Sessions
        PROVE  IsInjective(FlattenSeq([k \in 1..Len(fork[s].lines) |-> fork[s].lines[k].calls]))
    <3> DEFINE f == fork[s]
               l == Ledger(f)
               n == Len(f.lines)
    <3>1. f \in Fork /\ Once(f)
      BY <2>1 DEF IInv, Recording
    <3> HIDE DEF f
    <3>2. f.lines \in Seq(ForkLine) /\ n \in Nat
      BY <3>1 DEF Fork
    <3>3. \A k \in 1..n : f.lines[k].calls \in Seq(Stamps)
      <4> TAKE k \in 1..n
      <4>1. f.lines[k] \in ForkLine
        BY <3>2
      <4> QED BY <4>1 DEF ForkLine
    <3>4. l \in [1..n -> Seq(Stamps)]
      BY <3>3 DEF Ledger
    <3> HIDE DEF l
    <3>5. l \in Seq(Seq(Stamps)) /\ Len(l) = n
      BY <3>2, <3>4
    <3>6. Flats(FlattenSeq(l), l, Len(l), Stamps)
      BY <3>5, FlattenIs
    <3>7. DistinctIn(l, Len(l))
      BY <3>1, <3>5 DEF Once, l
    <3>8. IsInjective(FlattenSeq(l))
      BY <3>6, <3>7 DEF Flats
    <3> QED BY <3>8 DEF l, f, Ledger
  <2>3. ASSUME run.pc = "done", run.mode = "full", run.skipped = 0, tree = run.scan, Calls(run.s) = run.calls
        PROVE  LET f == fork[run.s]
                   again == Plan(StateOf(f), Calls(run.s), RecordedCalls(f), tree)
               IN  StateOf(f) = tree /\ \A p \in Range(again.planned) : p.kind # "land"
    <3> DEFINE f == fork[run.s]
               calls == run.calls
               again == Plan(StateOf(f), calls, RecordedCalls(f), tree).planned
    <3>1. run \in RunState /\ tree \in State
      BY <2>3, RunUnderWay DEF IInv, Typed
    <3>2. run.s \in Sessions /\ calls \in Seq(Call)
      BY <3>1, RunIs
    <3>3. StateOf(f) = tree /\ AllIn(calls, f)
      BY <2>3 DEF IInv, Recording
    <3>4. f \in Fork
      BY <2>1, <3>2
    <3>5. Apiece(calls)
      BY <2>3, <3>2, CallsAre DEF IInv, Typed
    <3> HIDE DEF calls, f
    <3>6. Len(again) = 0 /\ again \in Seq(Line)
      BY <3>1, <3>2, <3>3, <3>4, <3>5, PlanLands DEF AllIn, Landable
    <3> HIDE DEF again
    <3>7. Range(again) = {}
      BY <3>6 DEF Range
    <3> QED BY <2>3, <3>3, <3>7 DEF again, calls, f
  <2>4. ASSUME run.pc = "done", run.mode # "dry", run.skipped = 0, Calls(run.s) = run.calls
        PROVE  \A e \in OwnCalls(run.s) : e.uuid \in RecordedCalls(fork[run.s]) \cup Siblings(run.s)
    <3> DEFINE f == fork[run.s]
               calls == run.calls
    <3>1. run \in RunState
      BY <2>4, RunUnderWay DEF IInv, Typed
    <3>2. run.s \in Sessions /\ run.mode \in {"full", "keep"}
      BY <2>4, <3>1, RunIs
    <3>3. AllIn(calls, f)
      BY <2>4, <3>2 DEF IInv, Recording
    <3>4. \A e \in OwnCalls(run.s) : e.uuid \notin Siblings(run.s)
            => \E i \in 1..Len(calls) : calls[i].id = e.uuid
      <4>1. Transcript(entries[run.s])
        BY <3>2 DEF IInv, Typed
      <4> QED BY <2>4, <3>2, <4>1, CallsAre
    <3> QED BY <3>3, <3>4 DEF AllIn
  <2> QED BY <2>2, <2>3, <2>4 DEF RecordedOnce
<1> QED BY <1>1, IngestInvariant, PTL
=============================================================================
