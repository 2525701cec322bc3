----------------------------- MODULE WireProofs -----------------------------
(***************************************************************************)
(* Proofs about the store: what is published only ever extends what was,   *)
(* bounds its construct chains, is a set, and restores; and a push that    *)
(* says Ok has stored what it read.                                        *)
(*                                                                         *)
(* First about one manifest of the store and the next, assembled from it:  *)
(* what one push makes of one manifest.  Then that goes through the steps  *)
(* of racing pushes, in four invariants, each on those before it: of the   *)
(* store, of logs, of caches, and of anchors.                              *)
(***************************************************************************)
EXTENDS Wire, FoldFacts, FiniteSetTheorems

-----------------------------------------------------------------------------
(* What a manifest satisfies.                                              *)

\* A line a command wrote: its number is its id.
Written == {x \in Line : x.id # NoId}

\* Lines a live segment holds are on a fork whose head names the segment.
Named(m) ==
  \A f \in Forks : \A s \in m.live :
    s.spans[f] # <<>> => m.forks[f] # NoFork /\ s \in ToSet(m.forks[f].segs)

\* d says how deep each blob is: 0 if it is whole, one more than its base if
\* it is a construct.
Ranks(d, m) ==
  /\ d \in [{NoBlob} \cup Stored(m) -> 0..Interval]
  /\ d[NoBlob] = 0
  /\ \A e \in Items(m) :
       IF e.line = NoId THEN d[e.blob] = 0
       ELSE /\ e.blob \notin Opaque
            /\ e.base \in DOMAIN d
            /\ d[e.blob] = d[e.base] + 1
Ranked(m) == \E d \in [{NoBlob} \cup Stored(m) -> 0..Interval] : Ranks(d, m)

\* The line of each construct travelled too.
Replayable(m) ==
  \A e \in Items(m) : e.line # NoId =>
    \E s \in m.live, f \in Forks : \E x \in ToSet(s.spans[f]) :
      x.id = e.line /\ x.new = e.blob

LogsWritten(m) ==
  /\ \A s \in m.live : \A f \in Forks : s.spans[f] \in Seq(Written)
  /\ \A f \in Forks : LogOf(m, f) \in Seq(Written)

Packed(m) ==
  /\ m \in Manifest
  /\ IsSet(m) /\ Named(m) /\ Ranked(m) /\ Replayable(m) /\ LogsWritten(m)

\* The logs and blobs of m are those of n, or their beginnings.
Extends(m, n) ==
  /\ \A f \in Forks : IsPrefix(LogOf(m, f), LogOf(n, f))
  /\ Stored(m) \subseteq Stored(n)

-----------------------------------------------------------------------------
(* Sequences of segments.                                                  *)

Spans(l, f) == [i \in 1..Len(l) |-> l[i].spans[f]]

\* Within keeps the type, and the elements that are in the set.
LEMMA WithinIs ==
  ASSUME NEW X, NEW l \in Seq(X), NEW S
  PROVE  /\ Within(l, S) \in Seq(X)
         /\ \A x : (\E k \in 1..Len(Within(l, S)) : Within(l, S)[k] = x)
                     <=> x \in S /\ \E i \in 1..Len(l) : l[i] = x
<1> DEFINE ss == [i \in 1..Len(l) |-> IF l[i] \in S THEN <<l[i]>> ELSE <<>>]
<1>1. ss \in Seq(Seq(X)) /\ Len(ss) = Len(l)
  <2>1. \A i \in 1..Len(l) : (IF l[i] \in S THEN <<l[i]>> ELSE <<>>) \in Seq(X)
    OBVIOUS
  <2> QED BY <2>1
<1>2. Within(l, S) = FlattenSeq(ss)
  BY DEF Within
<1>3. FlattenSeq(ss) \in Seq(X)
  <2> HIDE DEF ss
  <2> QED BY <1>1, FlatTyped
<1>4. ASSUME NEW x
      PROVE  (\E i \in 1..Len(ss) : \E j \in 1..Len(ss[i]) : ss[i][j] = x)
               <=> x \in S /\ \E i \in 1..Len(l) : l[i] = x
  <2>1. ASSUME NEW i \in 1..Len(l), NEW j \in 1..Len(ss[i]), ss[i][j] = x
        PROVE  x \in S /\ l[i] = x
    <3>1. CASE l[i] \in S
      <4>1. ss[i] = <<l[i]>>
        BY <3>1
      <4>2. Len(ss[i]) = 1 /\ ss[i][1] = l[i]
        BY <4>1
      <4>3. j = 1
        BY <4>2, <2>1
      <4> QED BY <2>1, <3>1, <4>2, <4>3
    <3>2. CASE l[i] \notin S
      <4>1. ss[i] = <<>>
        BY <3>2
      <4>2. Len(ss[i]) = 0
        BY <4>1
      <4> QED BY <2>1, <4>2
    <3> QED BY <3>1, <3>2
  <2>2. ASSUME NEW i \in 1..Len(l), l[i] \in S
        PROVE  1 \in 1..Len(ss[i]) /\ ss[i][1] = l[i]
    BY <2>2
  <2> QED BY <1>1, <2>1, <2>2
<1>5. \A x : (\E k \in 1..Len(FlattenSeq(ss)) : FlattenSeq(ss)[k] = x)
               <=> \E i \in 1..Len(ss) : \E j \in 1..Len(ss[i]) : ss[i][j] = x
  <2> HIDE DEF ss
  <2> QED BY <1>1, FlatHas
<1> HIDE DEF ss
<1> QED BY <1>2, <1>3, <1>4, <1>5

\* If the set has the first c elements and no other, it is they.
LEMMA WithinHead ==
  ASSUME NEW X, NEW l \in Seq(X), NEW S, NEW c \in 0..Len(l),
         \A i \in 1..Len(l) : l[i] \in S <=> i <= c
  PROVE  Within(l, S) = SubSeq(l, 1, c)
<1> DEFINE ss == [i \in 1..Len(l) |-> IF l[i] \in S THEN <<l[i]>> ELSE <<>>]
           h == [i \in 0..Len(l) |-> SubSeq(l, 1, IF i <= c THEN i ELSE c)]
<1>1. ss \in Seq(Seq(X)) /\ Len(ss) = Len(l)
  <2>1. \A i \in 1..Len(l) : (IF l[i] \in S THEN <<l[i]>> ELSE <<>>) \in Seq(X)
    OBVIOUS
  <2> QED BY <2>1
<1>2. h \in [0..Len(l) -> Seq(X)]
  <2>1. \A k \in 0..Len(l) : SubSeq(l, 1, k) \in Seq(X)
    OBVIOUS
  <2> QED BY <2>1
<1>3. h[0] = <<>>
  OBVIOUS
<1>4. ASSUME NEW i \in 1..Len(l) PROVE h[i] = h[i - 1] \o ss[i]
  <2>1. CASE i <= c
    <3>1. h[i] = SubSeq(l, 1, i) /\ h[i - 1] = SubSeq(l, 1, i - 1) /\ ss[i] = <<l[i]>>
      BY <2>1
    <3>2. SubSeq(l, 1, i) = SubSeq(l, 1, i - 1) \o <<l[i]>>
      OBVIOUS
    <3> QED BY <3>1, <3>2
  <2>2. CASE ~(i <= c)
    <3>1. h[i] = SubSeq(l, 1, c) /\ h[i - 1] = SubSeq(l, 1, c) /\ ss[i] = <<>>
      BY <2>2
    <3>2. SubSeq(l, 1, c) \o <<>> = SubSeq(l, 1, c)
      OBVIOUS
    <3> QED BY <3>1, <3>2
  <2> QED BY <2>1, <2>2
<1>5. h[Len(l)] = SubSeq(l, 1, c)
  <2>1. Len(l) <= c => Len(l) = c
    OBVIOUS
  <2> QED BY <2>1
<1>6. Flattens(h, ss)
  <2> HIDE DEF h, ss
  <2> QED BY <1>1, <1>3, <1>4 DEF Flattens
<1>7. FlattenSeq(ss) = h[Len(ss)]
  <2> HIDE DEF h, ss
  <2> QED BY <1>1, <1>2, <1>6, FlatOnce
<1> QED BY <1>1, <1>5, <1>7 DEF Within

\* If it has those after the first c, it is they.
LEMMA WithinTail ==
  ASSUME NEW X, NEW l \in Seq(X), NEW S, NEW c \in 0..Len(l),
         \A i \in 1..Len(l) : l[i] \in S <=> i > c
  PROVE  Within(l, S) = SubSeq(l, c + 1, Len(l))
<1> DEFINE ss == [i \in 1..Len(l) |-> IF l[i] \in S THEN <<l[i]>> ELSE <<>>]
           h == [i \in 0..Len(l) |-> IF i <= c THEN <<>> ELSE SubSeq(l, c + 1, i)]
<1>1. ss \in Seq(Seq(X)) /\ Len(ss) = Len(l)
  <2>1. \A i \in 1..Len(l) : (IF l[i] \in S THEN <<l[i]>> ELSE <<>>) \in Seq(X)
    OBVIOUS
  <2> QED BY <2>1
<1>2. h \in [0..Len(l) -> Seq(X)]
  <2>1. \A k \in 0..Len(l) : SubSeq(l, c + 1, k) \in Seq(X)
    OBVIOUS
  <2> QED BY <2>1
<1>3. h[0] = <<>>
  OBVIOUS
<1>4. ASSUME NEW i \in 1..Len(l) PROVE h[i] = h[i - 1] \o ss[i]
  <2>1. CASE i <= c
    <3>1. h[i] = <<>> /\ h[i - 1] = <<>> /\ ss[i] = <<>>
      BY <2>1
    <3>2. <<>> \o <<>> = <<>>
      OBVIOUS
    <3> QED BY <3>1, <3>2
  <2>2. CASE i = c + 1
    <3>1. h[i] = SubSeq(l, i, i) /\ h[i - 1] = <<>> /\ ss[i] = <<l[i]>>
      BY <2>2
    <3>2. SubSeq(l, i, i) = <<l[i]>>
      <4>1. SubSeq(l, i, i) \in Seq(X) /\ Len(SubSeq(l, i, i)) = 1 /\ SubSeq(l, i, i)[1] = l[i]
        OBVIOUS
      <4>2. <<l[i]>> \in Seq(X) /\ Len(<<l[i]>>) = 1 /\ <<l[i]>>[1] = l[i]
        OBVIOUS
      <4>3. \A k \in 1..Len(SubSeq(l, i, i)) : SubSeq(l, i, i)[k] = <<l[i]>>[k]
        <5>1. \A k \in 1..1 : k = 1
          OBVIOUS
        <5> QED BY <4>1, <4>2, <5>1
      <4> DEFINE u == SubSeq(l, i, i)
                 v == <<l[i]>>
      <4>4. u \in Seq(X) /\ v \in Seq(X) /\ Len(u) = Len(v) /\ \A k \in 1..Len(u) : u[k] = v[k]
        BY <4>1, <4>2, <4>3
      <4> HIDE DEF u, v
      <4>5. u = v
        BY <4>4, SameSeq
      <4> QED BY <4>5 DEF u, v
    <3>3. <<>> \o <<l[i]>> = <<l[i]>>
      OBVIOUS
    <3> QED BY <3>1, <3>2, <3>3
  <2>3. CASE i > c + 1
    <3>1. /\ h[i] = SubSeq(l, c + 1, i) /\ h[i - 1] = SubSeq(l, c + 1, i - 1)
          /\ ss[i] = <<l[i]>>
      BY <2>3
    <3>2. SubSeq(l, c + 1, i) = SubSeq(l, c + 1, i - 1) \o <<l[i]>>
      BY <2>3
    <3> QED BY <3>1, <3>2
  <2>4. i <= c \/ i = c + 1 \/ i > c + 1
    OBVIOUS
  <2> QED BY <2>1, <2>2, <2>3, <2>4
<1>5. h[Len(l)] = SubSeq(l, c + 1, Len(l))
  <2>1. Len(l) <= c => SubSeq(l, c + 1, Len(l)) = <<>>
    OBVIOUS
  <2> QED BY <2>1
<1>6. Flattens(h, ss)
  <2> HIDE DEF h, ss
  <2> QED BY <1>1, <1>3, <1>4 DEF Flattens
<1>7. FlattenSeq(ss) = h[Len(ss)]
  <2> HIDE DEF h, ss
  <2> QED BY <1>1, <1>2, <1>6, FlatOnce
<1> QED BY <1>1, <1>5, <1>7 DEF Within

\* The spans of two sequences of segments joined.
LEMMA SpansJoin ==
  ASSUME NEW a \in Seq(Segment), NEW b \in Seq(Segment), NEW f \in Forks
  PROVE  /\ Spans(a, f) \in Seq(Seq(Line)) /\ Spans(b, f) \in Seq(Seq(Line))
         /\ FlattenSeq(Spans(a \o b, f)) = FlattenSeq(Spans(a, f)) \o FlattenSeq(Spans(b, f))
<1>1. \A s \in Segment : s.spans[f] \in Seq(Line)
  BY DEF Segment
<1>2. \A l \in Seq(Segment) : Spans(l, f) \in Seq(Seq(Line))
  BY <1>1 DEF Spans
<1>3. Spans(a \o b, f) = Spans(a, f) \o Spans(b, f)
  <2>1. /\ a \o b \in Seq(Segment) /\ Len(a \o b) = Len(a) + Len(b)
        /\ Len(a) \in Nat /\ Len(b) \in Nat
        /\ \A i \in 1..Len(a) : (a \o b)[i] = a[i]
        /\ \A i \in 1..Len(b) : (a \o b)[Len(a) + i] = b[i]
    BY Joins
  <2> DEFINE t == a \o b
  <2> HIDE DEF t
  <2>2. Spans(t, f) = Spans(a, f) \o Spans(b, f)
    <3>1. Len(t) = Len(a) + Len(b) /\ Len(a) \in Nat /\ Len(b) \in Nat
      BY <2>1 DEF t
    <3>2. ASSUME NEW i \in 1..Len(t) PROVE Spans(t, f)[i] = (Spans(a, f) \o Spans(b, f))[i]
      <4>1. CASE i <= Len(a)
        <5>1. t[i] = a[i]
          BY <2>1, <3>1, <4>1 DEF t
        <5> QED BY <3>1, <4>1, <5>1 DEF Spans
      <4>2. CASE ~(i <= Len(a))
        <5>1. i - Len(a) \in 1..Len(b) /\ Len(a) + (i - Len(a)) = i
          BY <3>1, <4>2
        <5>2. t[i] = b[i - Len(a)]
          BY <2>1, <5>1 DEF t
        <5> QED BY <3>1, <4>2, <5>1, <5>2 DEF Spans
      <4> QED BY <4>1, <4>2
    <3>3. /\ Spans(t, f) \in Seq(Seq(Line)) /\ Spans(a, f) \o Spans(b, f) \in Seq(Seq(Line))
          /\ Len(Spans(t, f)) = Len(t) /\ Len(Spans(a, f) \o Spans(b, f)) = Len(t)
      <4>1. t \in Seq(Segment)
        BY <2>1 DEF t
      <4>2. Spans(t, f) \in Seq(Seq(Line)) /\ Len(Spans(t, f)) = Len(t)
        BY <1>2, <4>1 DEF Spans
      <4>3. /\ Spans(a, f) \in Seq(Seq(Line)) /\ Spans(b, f) \in Seq(Seq(Line))
            /\ Len(Spans(a, f)) = Len(a) /\ Len(Spans(b, f)) = Len(b)
        BY <1>2 DEF Spans
      <4> QED BY <3>1, <4>2, <4>3, Joins
    <3>4. \A i \in 1..Len(Spans(t, f)) : Spans(t, f)[i] = (Spans(a, f) \o Spans(b, f))[i]
      BY <3>2, <3>3
    <3> QED BY <3>3, <3>4, SameSeq
  <2> QED BY <2>2 DEF t
<1> QED BY <1>2, <1>3, FlatJoin

\* LogOf, with Spans.
LEMMA LogSpans ==
  ASSUME NEW m, NEW f
  PROVE  LogOf(m, f) = IF m.forks[f] = NoFork THEN <<>>
                       ELSE FlattenSeq(Spans(m.forks[f].segs, f))
BY DEF LogOf, Spans

\* One sequence alone.
LEMMA FlatOne ==
  ASSUME NEW X, NEW l \in Seq(X)
  PROVE  FlattenSeq(<<l>>) = l
<1> DEFINE h == [i \in 0..1 |-> IF i = 0 THEN <<>> ELSE l]
<1>1. <<l>> \in Seq(Seq(X)) /\ Len(<<l>>) = 1 /\ <<l>>[1] = l
  OBVIOUS
<1>2. h \in [0..1 -> Seq(X)] /\ h[0] = <<>> /\ h[1] = l
  OBVIOUS
<1>3. <<>> \o l = l
  OBVIOUS
<1>4. \A i \in 1..1 : i = 1 /\ i - 1 = 0
  OBVIOUS
<1> HIDE DEF h
<1>5. Flattens(h, <<l>>)
  BY <1>1, <1>2, <1>3, <1>4 DEF Flattens
<1> QED BY <1>1, <1>2, <1>5, FlatOnce

-----------------------------------------------------------------------------
(* Folding and cutting.                                                    *)

\* A command fills in every log it reads before it plans.
ReadWhole(seen) ==
  /\ DOMAIN seen \subseteq Forks
  /\ \A f \in DOMAIN seen : seen[f] \in [anchor : States, head : Nat, log : Seq(Written)]

\* What a push sends of fork f.
Sent(m, seen, f) ==
  IF f \in DOMAIN seen THEN NewLines(m.forks[f], seen[f]) ELSE <<>>

\* What is folded is live.
LEMMA FoldedLive ==
  ASSUME NEW m, m \in Manifest
  PROVE  Folded(m) \subseteq m.live
BY DEF Folded, Foldable

\* Of every fork's segments, the folded ones are the last.
LEMMA FoldCut ==
  ASSUME NEW m, m \in Manifest, NEW f \in Forks, m.forks[f] # NoFork
  PROVE  LET segs == m.forks[f].segs
         IN  \E c \in 0..Len(segs) :
               \A i \in 1..Len(segs) : segs[i] \in Folded(m) <=> i > c
<1> DEFINE segs == m.forks[f].segs
           at == {i \in 1..Len(segs) : segs[i] \in Folded(m)}
<1>1. segs \in Seq(Segment)
  BY DEF Manifest, ForkHead
<1>2. \A i, j \in 1..Len(segs) : i < j /\ segs[i] \in Folded(m) => segs[j] \in Folded(m)
  <2> SUFFICES ASSUME NEW i \in 1..Len(segs), NEW j \in 1..Len(segs),
                      i < j, segs[i] \in Folded(m)
               PROVE  segs[j] \in Folded(m)
    OBVIOUS
  <2>1. Folded(m) = Foldable(m) /\ segs[i] \in Foldable(m)
    BY DEF Folded
  <2>2. PICK c \in SUBSET {s \in m.live : s.small} :
          /\ segs[i] \in c
          /\ \A g \in Forks : m.forks[g] # NoFork =>
               \A a, b \in 1..Len(m.forks[g].segs) :
                 a < b /\ m.forks[g].segs[a] \in c => m.forks[g].segs[b] \in c
    BY <2>1 DEF Foldable
  <2>3. segs[j] \in c
    BY <2>2
  <2>4. c \subseteq Foldable(m)
    BY <2>2 DEF Foldable
  <2> QED BY <2>1, <2>3, <2>4
<1> HIDE DEF segs
<1>3. CASE at = {}
  <2>1. Len(segs) \in 0..Len(segs)
    BY <1>1
  <2>2. \A i \in 1..Len(segs) : segs[i] \in Folded(m) <=> i > Len(segs)
    BY <1>1, <1>3
  <2> QED BY <2>1, <2>2 DEF segs
<1>4. CASE at # {}
  <2>1. at \subseteq Nat
    BY <1>1
  <2>2. Min(at) \in at /\ \A y \in at : Min(at) <= y
    BY <1>4, <2>1, MinIn
  <2> DEFINE n == Min(at)
  <2> HIDE DEF n
  <2>3. n \in 1..Len(segs) /\ segs[n] \in Folded(m)
        /\ \A i \in 1..Len(segs) : segs[i] \in Folded(m) => n <= i
    BY <2>2 DEF n
  <2>4. n - 1 \in 0..Len(segs) /\ \A i \in Nat : i > n - 1 <=> (i = n \/ n < i)
    BY <1>1, <2>3
  <2>5. \A i \in 1..Len(segs) : segs[i] \in Folded(m) <=> i > n - 1
    <3> SUFFICES ASSUME NEW i \in 1..Len(segs)
                 PROVE  segs[i] \in Folded(m) <=> i > n - 1
      OBVIOUS
    <3>1. segs[i] \in Folded(m) => i > n - 1
      BY <1>1, <2>3
    <3>2. i = n \/ n < i => segs[i] \in Folded(m)
      BY <1>2, <2>3
    <3> QED BY <2>4, <3>1, <3>2
  <2> QED BY <2>4, <2>5 DEF segs
<1> QED BY <1>3, <1>4

\* The log of a fork: the spans that stay, then those that are folded.
LEMMA FoldSplits ==
  ASSUME NEW m, m \in Manifest, NEW f \in Forks, m.forks[f] # NoFork
  PROVE  LET segs == m.forks[f].segs
             kept == Within(segs, ToSet(segs) \ Folded(m))
             folded == Within(segs, Folded(m))
         IN  /\ kept \in Seq(Segment) /\ folded \in Seq(Segment)
             /\ LogOf(m, f) = FlattenSeq(Spans(kept, f)) \o FlattenSeq(Spans(folded, f))
             /\ FlattenSeq(Spans(kept, f)) \in Seq(Line)
             /\ FlattenSeq(Spans(folded, f)) \in Seq(Line)
<1> DEFINE segs == m.forks[f].segs
           kept == Within(segs, ToSet(segs) \ Folded(m))
           folded == Within(segs, Folded(m))
<1>1. segs \in Seq(Segment)
  BY DEF Manifest, ForkHead
<1>2. PICK c \in 0..Len(segs) : \A i \in 1..Len(segs) : segs[i] \in Folded(m) <=> i > c
  BY FoldCut
<1>3. LogOf(m, f) = FlattenSeq(Spans(segs, f))
  BY LogSpans
<1> HIDE DEF segs
<1>4. folded = SubSeq(segs, c + 1, Len(segs))
  BY <1>1, <1>2, WithinTail
<1>5. \A i \in 1..Len(segs) : segs[i] \in ToSet(segs) \ Folded(m) <=> i <= c
  <2>1. \A i \in 1..Len(segs) : segs[i] \in ToSet(segs)
    BY <1>1 DEF ToSet
  <2> QED BY <1>1, <1>2, <2>1
<1>6. kept = SubSeq(segs, 1, c)
  BY <1>1, <1>5, WithinHead
<1>7. segs = SubSeq(segs, 1, c) \o SubSeq(segs, c + 1, Len(segs))
  BY <1>1, Parts
<1>8. kept \in Seq(Segment) /\ folded \in Seq(Segment)
  BY <1>1, WithinIs
<1>9. FlattenSeq(Spans(segs, f)) = FlattenSeq(Spans(kept, f)) \o FlattenSeq(Spans(folded, f))
  <2> HIDE DEF kept, folded
  <2>1. segs = kept \o folded
    BY <1>4, <1>6, <1>7
  <2> QED BY <1>8, <2>1, SpansJoin
<1>10. \A l \in Seq(Segment) : FlattenSeq(Spans(l, f)) \in Seq(Line)
  <2> SUFFICES ASSUME NEW l \in Seq(Segment) PROVE FlattenSeq(Spans(l, f)) \in Seq(Line)
    OBVIOUS
  <2>1. Spans(l, f) \in Seq(Seq(Line))
    BY SpansJoin
  <2> QED BY <2>1, FlatTyped
<1> HIDE DEF kept, folded
<1>11. /\ kept \in Seq(Segment) /\ folded \in Seq(Segment)
       /\ LogOf(m, f) = FlattenSeq(Spans(kept, f)) \o FlattenSeq(Spans(folded, f))
       /\ FlattenSeq(Spans(kept, f)) \in Seq(Line)
       /\ FlattenSeq(Spans(folded, f)) \in Seq(Line)
  BY <1>3, <1>8, <1>9, <1>10
<1> QED BY <1>11 DEF kept, folded, segs

\* What the segments cut from some input hold.
IsCut(in, segs) ==
  /\ segs \in Seq(Segment) /\ Len(segs) <= 2
  /\ \A f \in Forks :
       FlattenSeq(Spans(Within(segs, {s \in ToSet(segs) : s.spans[f] # <<>>}), f)) = in.spans[f]
  /\ UNION {s.items : s \in ToSet(segs)} = in.items
  /\ \A s, t \in ToSet(segs) : s.items \cap t.items # {} => s = t
  /\ \A s \in ToSet(segs) : \A f \in Forks : s.spans[f] # <<>> => s.spans = in.spans
  /\ in.spans # NoSpans => \E s \in ToSet(segs) : s.spans = in.spans

\* A sequence of one segment lists it where it has lines.
LEMMA ListOne ==
  ASSUME NEW s \in Segment, NEW f \in Forks
  PROVE  FlattenSeq(Spans(Within(<<s>>, {x \in ToSet(<<s>>) : x.spans[f] # <<>>}), f))
           = s.spans[f]
<1> DEFINE l == <<s>>
           S == {x \in ToSet(<<s>>) : x.spans[f] # <<>>}
<1>1. l \in Seq(Segment) /\ Len(l) = 1 /\ l[1] = s /\ ToSet(l) = {s} /\ s.spans[f] \in Seq(Line)
  BY DEF ToSet, Segment
<1>2. CASE s.spans[f] # <<>>
  <2>1. \A i \in 1..Len(l) : l[i] \in S <=> i <= 1
    BY <1>1, <1>2
  <2>2. 1 \in 0..Len(l)
    BY <1>1
  <2> HIDE DEF l, S
  <2>3. Within(l, S) = SubSeq(l, 1, 1)
    BY <1>1, <2>1, <2>2, WithinHead
  <2> USE DEF l
  <2>4. SubSeq(l, 1, 1) = l
    <3>1. SubSeq(l, 1, 1) \in Seq(Segment) /\ Len(SubSeq(l, 1, 1)) = 1
          /\ SubSeq(l, 1, 1)[1] = l[1]
      BY <1>1
    <3>2. \A i \in 1..1 : i = 1
      OBVIOUS
    <3> DEFINE u == SubSeq(l, 1, 1)
    <3> HIDE DEF u, l
    <3>3. u \in Seq(Segment) /\ Len(u) = Len(l) /\ \A i \in 1..Len(u) : u[i] = l[i]
      BY <1>1, <3>1, <3>2 DEF u
    <3>4. u = l
      BY <1>1, <3>3, SameSeq
    <3> QED BY <3>4 DEF u
  <2>5. Spans(l, f) = <<s.spans[f]>>
    BY <1>1 DEF Spans
  <2>6. FlattenSeq(<<s.spans[f]>>) = s.spans[f]
    BY <1>1, FlatOne
  <2> QED BY <2>3, <2>4, <2>5, <2>6 DEF S
<1>3. CASE s.spans[f] = <<>>
  <2>1. \A i \in 1..Len(l) : l[i] \in S <=> i <= 0
    BY <1>1, <1>3
  <2>2. 0 \in 0..Len(l)
    BY <1>1
  <2> HIDE DEF l, S
  <2>3. Within(l, S) = SubSeq(l, 1, 0)
    BY <1>1, <2>1, <2>2, WithinHead
  <2>4. SubSeq(l, 1, 0) = <<>>
    BY <1>1
  <2>5. Spans(<<>>, f) = <<>>
    BY DEF Spans
  <2>6. FlattenSeq(<<>>) = <<>>
    BY DEF FlattenSeq
  <2> QED BY <1>3, <2>3, <2>4, <2>5, <2>6 DEF S, l
<1> QED BY <1>2, <1>3

\* What build_segments makes is a cut of its input.
LEMMA CutsAre ==
  ASSUME NEW items \in SUBSET Item, NEW spans \in [Forks -> Seq(Line)],
         NEW segs \in Cuts([items |-> items, spans |-> spans])
  PROVE  IsCut([items |-> items, spans |-> spans], segs)
<1> DEFINE in == [items |-> items, spans |-> spans]
           Seg(i, s, small) == [items |-> i, spans |-> s, small |-> small]
<1>1. NoSpans \in [Forks -> Seq(Line)] /\ \A f \in Forks : NoSpans[f] = <<>>
  BY DEF NoSpans
<1>2. \A i \in SUBSET Item : \A s \in [Forks -> Seq(Line)] : \A b \in BOOLEAN :
       Seg(i, s, b) \in Segment
  BY DEF Segment
<1>3. ASSUME in.items = {}, in.spans = NoSpans, segs = <<>> PROVE IsCut(in, segs)
  <2>1. segs \in Seq(Segment) /\ Len(segs) = 0 /\ ToSet(segs) = {} /\ UNION {} = {}
    BY <1>3 DEF ToSet
  <2>2. ASSUME NEW f \in Forks
        PROVE  FlattenSeq(Spans(Within(segs, {s \in ToSet(segs) : s.spans[f] # <<>>}), f)) = <<>>
    <3> DEFINE S == {s \in ToSet(segs) : s.spans[f] # <<>>}
    <3>1. Within(segs, S) = FlattenSeq(<<>>)
      BY <1>3, <2>1 DEF Within
    <3>2. FlattenSeq(<<>>) = <<>>
      BY DEF FlattenSeq
    <3>3. Spans(<<>>, f) = <<>>
      BY DEF Spans
    <3> QED BY <3>1, <3>2, <3>3
  <2> QED BY <1>1, <1>3, <2>1, <2>2 DEF IsCut
<1>4. ASSUME NEW b \in BOOLEAN, segs = <<Seg(items, spans, b)>> PROVE IsCut(in, segs)
  <2> DEFINE s == Seg(items, spans, b)
  <2>1. s \in Segment /\ s.items = items /\ s.spans = spans
    BY <1>2
  <2> HIDE DEF s
  <2>2. segs = <<s>> /\ segs \in Seq(Segment) /\ Len(segs) = 1 /\ ToSet(segs) = {s}
    BY <1>4, <2>1 DEF ToSet, s
  <2>3. \A f \in Forks :
          FlattenSeq(Spans(Within(segs, {t \in ToSet(segs) : t.spans[f] # <<>>}), f)) = spans[f]
    BY <2>1, <2>2, ListOne
  <2>4. UNION {t.items : t \in ToSet(segs)} = items
    BY <2>1, <2>2
  <2> QED BY <2>1, <2>2, <2>3, <2>4 DEF IsCut
<1>5. ASSUME segs = <<Seg(items, NoSpans, FALSE), Seg({}, spans, TRUE)>> PROVE IsCut(in, segs)
  <2> DEFINE s == Seg(items, NoSpans, FALSE)
             t == Seg({}, spans, TRUE)
  <2>1. /\ s \in Segment /\ s.items = items /\ s.spans = NoSpans
        /\ t \in Segment /\ t.items = {} /\ t.spans = spans
    BY <1>1, <1>2
  <2> HIDE DEF s, t
  <2>2. /\ segs = <<s, t>> /\ segs \in Seq(Segment) /\ Len(segs) = 2 /\ ToSet(segs) = {s, t}
        /\ segs[1] = s /\ segs[2] = t
    <3>1. segs = <<s, t>>
      BY <1>5 DEF s, t
    <3>2. segs \in Seq(Segment) /\ Len(segs) = 2 /\ segs[1] = s /\ segs[2] = t
      BY <2>1, <3>1
    <3>3. DOMAIN segs = {1, 2}
      BY <3>2
    <3>4. ToSet(segs) = {s, t}
      BY <3>2, <3>3 DEF ToSet
    <3> QED BY <3>1, <3>2, <3>4
  <2>3. ASSUME NEW f \in Forks
        PROVE  FlattenSeq(Spans(Within(segs, {u \in ToSet(segs) : u.spans[f] # <<>>}), f))
                 = spans[f]
    <3> DEFINE S == {u \in ToSet(segs) : u.spans[f] # <<>>}
    <3>1. segs[1] \notin S /\ (segs[2] \in S <=> spans[f] # <<>>) /\ spans[f] \in Seq(Line)
      BY <1>1, <2>1, <2>2
    <3> HIDE DEF S
    <3>2. \A i \in 1..Len(segs) : i = 1 \/ i = 2
      BY <2>2
    <3>3. CASE spans[f] = <<>>
      <4>1. 2 \in 0..Len(segs) /\ \A i \in 1..Len(segs) : segs[i] \in S <=> i > 2
        BY <2>2, <3>1, <3>2, <3>3
      <4>2. Within(segs, S) = SubSeq(segs, 2 + 1, Len(segs))
        BY <2>2, <4>1, WithinTail
      <4>3. SubSeq(segs, 2 + 1, Len(segs)) = <<>>
        BY <2>2
      <4>4. FlattenSeq(<<>>) = <<>> /\ Spans(<<>>, f) = <<>>
        BY DEF FlattenSeq, Spans
      <4> QED BY <3>3, <4>2, <4>3, <4>4 DEF S
    <3>4. CASE spans[f] # <<>>
      <4>1. 1 \in 0..Len(segs) /\ \A i \in 1..Len(segs) : segs[i] \in S <=> i > 1
        BY <2>2, <3>1, <3>2, <3>4
      <4>2. Within(segs, S) = SubSeq(segs, 1 + 1, Len(segs))
        BY <2>2, <4>1, WithinTail
      <4>3. SubSeq(segs, 2, 2) \in Seq(Segment) /\ Len(SubSeq(segs, 2, 2)) = 1
            /\ SubSeq(segs, 2, 2)[1] = t
        BY <2>2
      <4>4. 1 + 1 = 2 /\ \A i \in 1..1 : i = 1
        OBVIOUS
      <4> DEFINE u == SubSeq(segs, 2, 2)
      <4>5. Within(segs, S) = u
        BY <2>2, <4>2, <4>4
      <4> HIDE DEF u
      <4>6. Len(u) = 1 /\ u[1] = t
        BY <4>3 DEF u
      <4>7. Spans(u, f) = <<spans[f]>>
        BY <2>1, <4>4, <4>6 DEF Spans
      <4>8. FlattenSeq(<<spans[f]>>) = spans[f]
        BY <3>1, FlatOne
      <4> QED BY <4>5, <4>7, <4>8 DEF S
    <3> QED BY <3>3, <3>4
  <2>4. UNION {u.items : u \in ToSet(segs)} = items
    <3>1. ASSUME NEW x PROVE (\E u \in ToSet(segs) : x \in u.items) <=> x \in items
      BY <2>1, <2>2
    <3> QED BY <3>1
  <2>5. /\ \A f \in Forks : s.spans[f] = <<>>
        /\ s.items \cap t.items = {} /\ t.spans = spans
    BY <1>1, <2>1
  <2>6. \A x, y \in ToSet(segs) : x.items \cap y.items # {} => x = y
    BY <2>2, <2>5
  <2>7. \A x \in ToSet(segs) : \A f \in Forks : x.spans[f] # <<>> => x.spans = spans
    BY <2>2, <2>5
  <2>8. \E x \in ToSet(segs) : x.spans = spans
    BY <2>2, <2>5
  <2>9. in.items = items /\ in.spans = spans /\ segs \in Seq(Segment) /\ Len(segs) <= 2
    BY <2>2
  <2> HIDE DEF in
  <2> QED BY <2>3, <2>4, <2>6, <2>7, <2>8, <2>9 DEF IsCut
<1> QED BY <1>3, <1>4, <1>5 DEF Cuts
-----------------------------------------------------------------------------
(* What travels.                                                           *)

\* Lines written are lines.
LEMMA LinesAre ==
  ASSUME NEW l \in Seq(Written)
  PROVE  l \in Seq(Line)
<1>1. \A i \in 1..Len(l) : l[i] \in Line
  BY DEF Written
<1>2. l = [i \in 1..Len(l) |-> l[i]] /\ Len(l) \in Nat
  OBVIOUS
<1> QED BY <1>1, <1>2

\* What is sent of a fork are lines of its log.
LEMMA SentIs ==
  ASSUME NEW m, NEW seen, ReadWhole(seen), NEW f \in Forks
  PROVE  /\ Sent(m, seen, f) \in Seq(Written)
         /\ f \in DOMAIN seen =>
              \A i \in 1..Len(Sent(m, seen, f)) :
                \E j \in 1..Len(seen[f].log) : seen[f].log[j] = Sent(m, seen, f)[i]
<1>1. CASE f \notin DOMAIN seen
  BY <1>1 DEF Sent
<1>2. CASE f \in DOMAIN seen
  <2> DEFINE s == seen[f]
             rm == m.forks[f]
             at == CHOOSE i \in 1..Len(s.log) : s.log[i].id = rm.head
  <2>1. s.log \in Seq(Written)
    BY <1>2 DEF ReadWhole
  <2>2. CASE ~Advances(rm, s)
    BY <1>2, <2>2 DEF Sent, NewLines
  <2>3. CASE Advances(rm, s) /\ (rm = NoFork \/ rm.head = NoId)
    BY <1>2, <2>1, <2>3 DEF Sent, NewLines
  <2>4. CASE Advances(rm, s) /\ ~(rm = NoFork \/ rm.head = NoId)
    <3>1. at \in 1..Len(s.log)
      BY <2>4 DEF Advances, Knows
    <3>2. Sent(m, seen, f) = SubSeq(s.log, at + 1, Len(s.log))
      BY <1>2, <2>4 DEF Sent, NewLines
    <3> HIDE DEF at, s
    <3>3. /\ SubSeq(s.log, at + 1, Len(s.log)) \in Seq(Written)
          /\ \A i \in 1..Len(SubSeq(s.log, at + 1, Len(s.log))) :
               /\ at + i \in 1..Len(s.log)
               /\ SubSeq(s.log, at + 1, Len(s.log))[i] = s.log[at + i]
      BY <2>1, <3>1
    <3> QED BY <3>2, <3>3 DEF s
  <2> QED BY <2>2, <2>3, <2>4
<1> QED BY <1>1, <1>2

\* The pushed lines are those sent of some fork.
LEMMA PushedIs ==
  ASSUME NEW m, NEW seen, ReadWhole(seen)
  PROVE  /\ Pushed(m, seen) \in Seq(Written)
         /\ \A i \in 1..Len(Pushed(m, seen)) :
              \E f \in Forks : \E j \in 1..Len(Sent(m, seen, f)) :
                Sent(m, seen, f)[j] = Pushed(m, seen)[i]
<1> DEFINE ss == [i \in 1..Len(Names) |-> Sent(m, seen, Names[i])]
<1>1. Names \in Seq(Forks) /\ Len(Names) \in Nat
  BY PacksAssumption
<1>2. \A i \in 1..Len(Names) : Names[i] \in Forks
  BY <1>1
<1>3. ss \in Seq(Seq(Written)) /\ Len(ss) = Len(Names)
  BY <1>1, <1>2, SentIs
<1>4. Pushed(m, seen) = FlattenSeq(ss)
  BY DEF Pushed, Sent
<1>5. \A i \in 1..Len(Names) : ss[i] = Sent(m, seen, Names[i])
  OBVIOUS
<1> HIDE DEF ss
<1>6. FlattenSeq(ss) \in Seq(Written)
  BY <1>3, FlatTyped
<1>7. \A x : (\E k \in 1..Len(FlattenSeq(ss)) : FlattenSeq(ss)[k] = x)
               <=> \E i \in 1..Len(ss) : \E j \in 1..Len(ss[i]) : ss[i][j] = x
  BY <1>3, FlatHas
<1>8. ASSUME NEW i \in 1..Len(FlattenSeq(ss))
      PROVE  \E f \in Forks : \E j \in 1..Len(Sent(m, seen, f)) :
               Sent(m, seen, f)[j] = FlattenSeq(ss)[i]
  <2> DEFINE x == FlattenSeq(ss)[i]
  <2>1. \E k \in 1..Len(FlattenSeq(ss)) : FlattenSeq(ss)[k] = x
    OBVIOUS
  <2> HIDE DEF x
  <2>2. \E k \in 1..Len(ss) : \E j \in 1..Len(ss[k]) : ss[k][j] = x
    BY <1>7, <2>1
  <2> QED BY <1>2, <1>3, <1>5, <2>2 DEF x
<1> QED BY <1>4, <1>6, <1>8

\* A construct candidate is a blob to send, with a pushed line that led to it.
LEMMA CandidatesAre ==
  ASSUME NEW m, NEW lines \in Seq(Written), NEW send \in SUBSET Blobs
  PROVE  LET cand == Candidates(m, lines, send)
         IN  /\ cand \subseteq Item
             /\ \A e \in cand :
                  /\ e.blob \in send /\ e.line # NoId
                  /\ \E i \in 1..Len(lines) : lines[i].id = e.line /\ lines[i].new = e.blob
             /\ \A e1, e2 \in cand : e1.blob = e2.blob => e1 = e2
<1> DEFINE cand == Candidates(m, lines, send)
           I(b) == {i \in 1..Len(lines) : Adds(lines[i], b)}
           Adder(b) == lines[SelectInSeq(lines, LAMBDA x : Adds(x, b))]
           Of(b) == [blob |-> b, base |-> Adder(b).old, line |-> Adder(b).id]
<1>1. cand = {Of(b) : b \in {c \in send : \E i \in 1..Len(lines) : Adds(lines[i], c)}}
  BY DEF Candidates
<1>2. ASSUME NEW b \in send, \E i \in 1..Len(lines) : Adds(lines[i], b)
      PROVE  \E i \in 1..Len(lines) : Adder(b) = lines[i] /\ lines[i].new = b
  <2>1. I(b) # {} /\ I(b) \subseteq Nat
    BY <1>2
  <2>2. Min(I(b)) \in I(b)
    BY <2>1, MinIn
  <2>3. SelectInSeq(lines, LAMBDA x : Adds(x, b)) = Min(I(b))
    BY <2>1 DEF SelectInSeq
  <2> QED BY <2>2, <2>3 DEF Adds
<1>3. ASSUME NEW e \in cand
      PROVE  /\ e.blob \in send /\ e = Of(e.blob)
             /\ \E i \in 1..Len(lines) : /\ lines[i].id = e.line /\ lines[i].new = e.blob
                                         /\ lines[i].old = e.base
  <2>1. PICK b \in send : e = Of(b) /\ \E i \in 1..Len(lines) : Adds(lines[i], b)
    BY <1>1, <1>3
  <2>2. PICK i \in 1..Len(lines) : Adder(b) = lines[i] /\ lines[i].new = b
    BY <1>2, <2>1
  <2> HIDE DEF Adder
  <2>3. e.blob = b /\ e.base = Adder(b).old /\ e.line = Adder(b).id
    BY <2>1
  <2> QED BY <2>1, <2>2, <2>3
<1>4. ASSUME NEW e \in cand PROVE e \in Item /\ e.line # NoId
  <2>1. PICK i \in 1..Len(lines) : /\ lines[i].id = e.line /\ lines[i].new = e.blob
                                   /\ lines[i].old = e.base
    BY <1>3
  <2>2. lines[i] \in Line /\ lines[i].id # NoId
    BY DEF Written
  <2>3. e.line \in Nat /\ e.line # NoId /\ e.base \in States /\ e.blob \in Blobs
    BY <1>3, <2>1, <2>2 DEF Line
  <2>4. e = [blob |-> e.blob, base |-> e.base, line |-> e.line]
    <3> HIDE DEF Adder
    <3>1. \A b : Of(b) = [blob |-> Of(b).blob, base |-> Of(b).base, line |-> Of(b).line]
      OBVIOUS
    <3> QED BY <1>3, <3>1
  <2> QED BY <2>3, <2>4 DEF Item
<1>5. \A e1, e2 \in cand : e1.blob = e2.blob => e1 = e2
  <2> HIDE DEF Of
  <2> QED BY <1>3
<1> HIDE DEF cand, Of, Adder
<1>6. cand \subseteq Item
  BY <1>4
<1> QED BY <1>3, <1>4, <1>5, <1>6 DEF cand
-----------------------------------------------------------------------------
(* Depths.                                                                 *)

DepthMaps == UNION {[D -> Nat] : D \in SUBSET States}

\* One round of Depths.
Settle(d, items, limit) ==
  LET ready == {e \in items : e.base \in DOMAIN d}
  IN  [b \in DOMAIN d \cup {e.blob : e \in ready} |->
         IF b \in DOMAIN d THEN d[b]
         ELSE LET e == CHOOSE x \in ready : x.blob = b
              IN  IF d[e.base] < limit /\ b \notin Opaque THEN d[e.base] + 1 ELSE 0]

\* What a round keeps and what it adds.
Settled(n, d, items, limit) ==
  /\ n \in DepthMaps
  /\ DOMAIN n = DOMAIN d \cup {e.blob : e \in {x \in items : x.base \in DOMAIN d}}
  /\ \A b \in DOMAIN d : n[b] = d[b]
  /\ \A b \in DOMAIN n \ DOMAIN d :
       \E e \in items :
         /\ e.blob = b /\ e.base \in DOMAIN d
         /\ n[b] = IF d[e.base] < limit /\ b \notin Opaque THEN d[e.base] + 1 ELSE 0

\* Settle settles what is ready.
LEMMA SettleIs ==
  ASSUME NEW d \in DepthMaps, NEW items \in SUBSET Item, NEW limit \in Nat
  PROVE  Settled(Settle(d, items, limit), d, items, limit)
<1> DEFINE n == Settle(d, items, limit)
           ready == {e \in items : e.base \in DOMAIN d}
           Of(b) == CHOOSE x \in ready : x.blob = b
           V(e, b) == IF d[e.base] < limit /\ b \notin Opaque THEN d[e.base] + 1 ELSE 0
<1>1. PICK D \in SUBSET States : d \in [D -> Nat]
  BY DEF DepthMaps
<1>2. DOMAIN d = D /\ \A b \in D : d[b] \in Nat
  BY <1>1
<1>3. n = [b \in DOMAIN d \cup {e.blob : e \in ready} |->
             IF b \in DOMAIN d THEN d[b] ELSE V(Of(b), b)]
  BY DEF Settle
<1>4. ASSUME NEW b \in {e.blob : e \in ready}
      PROVE  Of(b) \in ready /\ Of(b).blob = b
  <2>1. \E x \in ready : x.blob = b
    OBVIOUS
  <2> QED BY <2>1
<1>5. \A e \in ready : \A b : V(e, b) \in Nat
  BY <1>2
<1>6. \A e \in items : e.blob \in States
  BY DEF Item, States
<1> HIDE DEF n, Of, V
<1>7. DOMAIN n = DOMAIN d \cup {e.blob : e \in ready}
  BY <1>3
<1>8. \A b \in DOMAIN n : n[b] = IF b \in DOMAIN d THEN d[b] ELSE V(Of(b), b)
  BY <1>3
<1>9. \A b \in DOMAIN n : n[b] \in Nat
  BY <1>2, <1>4, <1>5, <1>7, <1>8
<1>10. n \in DepthMaps
  <2>1. DOMAIN n \in SUBSET States
    BY <1>2, <1>6, <1>7
  <2>2. n \in [DOMAIN n -> Nat]
    BY <1>3, <1>9
  <2> QED BY <2>1, <2>2 DEF DepthMaps
<1>11. ASSUME NEW b \in DOMAIN n \ DOMAIN d
       PROVE  \E e \in items : e.blob = b /\ e.base \in DOMAIN d /\ n[b] = V(e, b)
  BY <1>4, <1>7, <1>8
<1>12. \A b \in DOMAIN d : n[b] = d[b]
  BY <1>7, <1>8
<1> USE DEF V
<1>13. Settled(n, d, items, limit)
  BY <1>7, <1>10, <1>11, <1>12 DEF Settled
<1> QED BY <1>13 DEF n

\* Depths is as many rounds as there are blobs.
Rounds(h, start, items, limit) ==
  LET n == Cardinality(Blobs)
  IN  /\ h \in [0..n -> DepthMaps]
      /\ h[0] = start /\ Depths(start, items, limit) = h[n]
      /\ \A i \in 1..n : h[i] = Settle(h[i - 1], items, limit)

\* The rounds of a recursive function exist: Depths is a fold.
LEMMA DepthsRounds ==
  ASSUME NEW start \in DepthMaps, NEW items \in SUBSET Item, NEW limit \in Nat
  PROVE  \E h : Rounds(h, start, items, limit)
<1> DEFINE n == Cardinality(Blobs)
           F == [z \in DepthMaps \X (1..n) |-> Settle(z[1], items, limit)]
           Is(g) == g = [i \in 0..n |-> IF i = 0 THEN start ELSE Settle(g[i - 1], items, limit)]
           g == CHOOSE k : Is(k)
<1>1. n \in Nat
  BY PacksAssumption, FS_CardinalityType
<1>2. F \in [DepthMaps \X (1..n) -> DepthMaps]
  <2>1. ASSUME NEW z \in DepthMaps \X (1..n) PROVE Settle(z[1], items, limit) \in DepthMaps
    <3>1. z[1] \in DepthMaps
      OBVIOUS
    <3> QED BY <3>1, SettleIs DEF Settled
  <2> QED BY <2>1
<1>3. PICK h : Recurs(h, DepthMaps, start, n, F)
  <2> HIDE DEF F, n
  <2> QED BY <1>1, <1>2, StepsExist
<1>4. h \in [0..n -> DepthMaps] /\ h[0] = start /\ \A i \in 1..n : h[i] = F[<<h[i - 1], i>>]
  BY <1>3 DEF Recurs
<1>5. \A i \in 1..n : h[i] = Settle(h[i - 1], items, limit)
  <2> SUFFICES ASSUME NEW i \in 1..n PROVE h[i] = Settle(h[i - 1], items, limit)
    OBVIOUS
  <2> HIDE DEF n
  <2>1. i - 1 \in 0..n
    BY <1>1
  <2>2. <<h[i - 1], i>> \in DepthMaps \X (1..n)
    BY <1>4, <2>1
  <2> QED BY <1>4, <2>2
<1>6. Depths(start, items, limit) = g[n]
  BY DEF Depths, Settle
<1> HIDE DEF n, F
<1>7. Is(h)
  <2>1. \A i \in 0..n : i # 0 => i \in 1..n
    BY <1>1
  <2>2. \A i \in 0..n : h[i] = IF i = 0 THEN start ELSE Settle(h[i - 1], items, limit)
    BY <1>4, <1>5, <2>1
  <2> QED BY <1>4, <2>2
<1>8. Is(g)
  BY <1>7
<1> HIDE DEF g
<1>9. \A i \in 0..n : g[i] = IF i = 0 THEN start ELSE Settle(g[i - 1], items, limit)
  BY <1>8
<1> DEFINE S == {i \in Nat : i \in 0..n => g[i] = h[i]}
<1>10. 0 \in S
  BY <1>1, <1>4, <1>9
<1>11. ASSUME NEW i \in Nat, i \in S PROVE i + 1 \in S
  <2> SUFFICES ASSUME i + 1 \in 0..n PROVE g[i + 1] = h[i + 1]
    OBVIOUS
  <2>1. i \in 0..n /\ i + 1 \in 1..n /\ (i + 1) - 1 = i /\ i + 1 # 0
    BY <1>1
  <2>2. g[i] = h[i]
    BY <1>11, <2>1
  <2>3. g[i + 1] = Settle(g[i], items, limit)
    BY <1>9, <2>1
  <2>4. h[i + 1] = Settle(h[i], items, limit)
    BY <1>5, <2>1
  <2> QED BY <2>2, <2>3, <2>4
<1>12. Nat \subseteq S
  <2> HIDE DEF S
  <2> QED BY <1>10, <1>11, Induction
<1>13. g[n] = h[n]
  BY <1>1, <1>12
<1> QED BY <1>4, <1>5, <1>6, <1>13 DEF Rounds, n

\* Depths keeps what it started from; any other blob has an item, and is one
\* deeper than its base unless that is too deep or it does not replay.
Fixpoint(d, start, items, limit) ==
  /\ d \in DepthMaps /\ DOMAIN start \subseteq DOMAIN d
  /\ \A b \in DOMAIN start : d[b] = start[b]
  /\ \A b \in DOMAIN d \ DOMAIN start :
       \E e \in items :
         /\ e.blob = b /\ e.base \in DOMAIN d
         /\ d[b] = IF d[e.base] < limit /\ b \notin Opaque THEN d[e.base] + 1 ELSE 0

\* Depths settles only what is ready, each blob once.
LEMMA DepthsAre ==
  ASSUME NEW start \in DepthMaps, NEW items \in SUBSET Item, NEW limit \in Nat
  PROVE  Fixpoint(Depths(start, items, limit), start, items, limit)
<1> DEFINE n == Cardinality(Blobs)
           V(d, e, b) == IF d[e.base] < limit /\ b \notin Opaque THEN d[e.base] + 1 ELSE 0
           Good(d) == /\ DOMAIN start \subseteq DOMAIN d
                      /\ \A b \in DOMAIN start : d[b] = start[b]
                      /\ \A b \in DOMAIN d \ DOMAIN start :
                           \E e \in items : e.blob = b /\ e.base \in DOMAIN d /\ d[b] = V(d, e, b)
<1>1. n \in Nat
  BY PacksAssumption, FS_CardinalityType
<1>2. PICK h : Rounds(h, start, items, limit)
  BY DepthsRounds
<1>3. /\ h \in [0..n -> DepthMaps]
      /\ h[0] = start /\ Depths(start, items, limit) = h[n]
      /\ \A i \in 1..n : h[i] = Settle(h[i - 1], items, limit)
  BY <1>2 DEF Rounds
<1> HIDE DEF n
<1> DEFINE S == {i \in Nat : i \in 0..n => Good(h[i])}
<1>4. 0 \in S
  <2>1. Good(start)
    OBVIOUS
  <2> QED BY <1>3, <2>1
<1>5. ASSUME NEW i \in Nat, i \in S PROVE i + 1 \in S
  <2> SUFFICES ASSUME i + 1 \in 0..n PROVE Good(h[i + 1])
    OBVIOUS
  <2>1. i \in 0..n /\ i + 1 \in 1..n /\ (i + 1) - 1 = i
    BY <1>1
  <2> DEFINE d == h[i]
             k == h[i + 1]
  <2>2. d \in DepthMaps /\ k = Settle(d, items, limit) /\ Good(d)
    BY <1>3, <1>5, <2>1
  <2> HIDE DEF d, k
  <2>3. /\ DOMAIN k = DOMAIN d \cup {e.blob : e \in {x \in items : x.base \in DOMAIN d}}
        /\ \A b \in DOMAIN d : k[b] = d[b]
        /\ \A b \in DOMAIN k \ DOMAIN d :
             \E e \in items : e.blob = b /\ e.base \in DOMAIN d /\ k[b] = V(d, e, b)
    <3>1. Settled(k, d, items, limit)
      BY <2>2, SettleIs
    <3> QED BY <3>1 DEF Settled
  <2>4. \A e, b : e.base \in DOMAIN d => V(k, e, b) = V(d, e, b)
    BY <2>3
  <2> HIDE DEF V
  <2>5. DOMAIN start \subseteq DOMAIN k /\ \A b \in DOMAIN start : k[b] = start[b]
    BY <2>2, <2>3
  <2>6. ASSUME NEW b \in DOMAIN k \ DOMAIN start
        PROVE  \E e \in items : e.blob = b /\ e.base \in DOMAIN k /\ k[b] = V(k, e, b)
    <3>1. CASE b \in DOMAIN d
      <4>1. PICK e \in items : e.blob = b /\ e.base \in DOMAIN d /\ d[b] = V(d, e, b)
        BY <2>2, <3>1
      <4> QED BY <2>3, <2>4, <3>1, <4>1
    <3>2. CASE b \notin DOMAIN d
      <4>1. PICK e \in items : e.blob = b /\ e.base \in DOMAIN d /\ k[b] = V(d, e, b)
        BY <2>3, <3>2
      <4> QED BY <2>3, <2>4, <4>1
    <3> QED BY <3>1, <3>2
  <2> QED BY <2>5, <2>6 DEF k
<1>6. Nat \subseteq S
  <2> HIDE DEF S
  <2> QED BY <1>4, <1>5, Induction
<1>7. Good(h[n]) /\ h[n] \in DepthMaps
  BY <1>1, <1>3, <1>6
<1> QED BY <1>3, <1>7 DEF Fixpoint

\* No chain is longer than there are blobs.
LEMMA RankSmall ==
  ASSUME NEW m, m \in Manifest, NEW d, Ranks(d, m), NEW b \in DOMAIN d
  PROVE  d[b] <= Cardinality(Blobs)
<1> DEFINE k == d[b]
<1>1. DOMAIN d = {NoBlob} \cup Stored(m) /\ \A c \in DOMAIN d : d[c] \in Nat
  BY PacksAssumption DEF Ranks
<1>2. Stored(m) \subseteq Blobs
  BY DEF Stored, Items, Manifest, Segment, Item
<1>3. k \in Nat
  BY <1>1
<1> HIDE DEF k
<1> DEFINE S == {j \in Nat : j <= k => \E c \in DOMAIN d : d[c] = k - j}
<1>4. 0 \in S
  BY <1>3 DEF k
<1>5. ASSUME NEW j \in Nat, j \in S PROVE j + 1 \in S
  <2> SUFFICES ASSUME j + 1 <= k PROVE \E c \in DOMAIN d : d[c] = k - (j + 1)
    OBVIOUS
  <2>1. PICK c \in DOMAIN d : d[c] = k - j
    BY <1>3, <1>5
  <2>2. d[c] # 0
    BY <1>3, <2>1
  <2>3. c \in Stored(m)
    BY <1>1, <2>2 DEF Ranks
  <2>4. PICK e \in Items(m) : e.blob = c
    BY <2>3 DEF Stored
  <2>5. e.base \in DOMAIN d /\ d[c] = d[e.base] + 1
    BY <2>2, <2>4 DEF Ranks
  <2>6. d[e.base] = k - (j + 1)
    BY <1>1, <1>3, <2>1, <2>5
  <2> QED BY <2>5, <2>6
<1>6. Nat \subseteq S
  <2> HIDE DEF S
  <2> QED BY <1>4, <1>5, Induction
<1>7. ASSUME NEW j \in 1..k PROVE \E c \in Blobs : c \in DOMAIN d /\ d[c] = j
  <2>1. k - j \in Nat /\ k - j <= k /\ k - (k - j) = j /\ j # 0
    BY <1>3
  <2>2. k - j \in S
    BY <1>6, <2>1
  <2>3. PICK c \in DOMAIN d : d[c] = j
    BY <2>1, <2>2
  <2>4. c \in Stored(m)
    BY <1>1, <2>1, <2>3 DEF Ranks
  <2> QED BY <1>2, <2>3, <2>4
<1> DEFINE g == [j \in 1..k |-> CHOOSE c \in Blobs : c \in DOMAIN d /\ d[c] = j]
<1>8. \A j \in 1..k : g[j] \in Blobs /\ d[g[j]] = j
  BY <1>7
<1>9. g \in Injection(1..k, Blobs)
  BY <1>8 DEF Injection, IsInjective
<1>10. Cardinality(1..k) <= Cardinality(Blobs)
  <2> HIDE DEF g
  <2> QED BY <1>9, PacksAssumption, FS_Injection
<1>11. Cardinality(1..k) = k
  <2>1. Cardinality(1..k) = IF 1 > k THEN 0 ELSE k - 1 + 1
    BY <1>3, FS_Interval
  <2> QED BY <1>3, <2>1
<1> QED BY <1>10, <1>11 DEF k

\* What RemoteView::load computes is the depth of each live blob.
LEMMA LiveIs ==
  ASSUME NEW m, m \in Manifest, IsSet(m), NEW d, Ranks(d, m)
  PROVE  LiveDepths(m) = d
<1> DEFINE n == Cardinality(Blobs)
           items == {e \in Items(m) : e.line # NoId}
           start == [b \in {NoBlob} \cup {e.blob : e \in {x \in Items(m) : x.line = NoId}} |-> 0]
<1>1. n \in Nat
  BY PacksAssumption, FS_CardinalityType
<1>2. /\ DOMAIN d = {NoBlob} \cup Stored(m) /\ \A c \in DOMAIN d : d[c] \in Nat
      /\ d = [c \in DOMAIN d |-> d[c]] /\ d[NoBlob] = 0
  BY PacksAssumption DEF Ranks
<1>3. Items(m) \subseteq Item /\ DOMAIN d \subseteq States
  BY <1>2 DEF Stored, Items, Manifest, Segment, Item, States
<1>4. items \in SUBSET Item
  BY <1>3
<1>5. ASSUME NEW e \in Items(m)
      PROVE  /\ e.blob \in DOMAIN d
             /\ e.line = NoId => d[e.blob] = 0
             /\ e.line # NoId => /\ e.blob \notin Opaque /\ e.base \in DOMAIN d
                                 /\ d[e.blob] = d[e.base] + 1
  BY <1>2 DEF Stored, Ranks
<1>6. \A b \in DOMAIN d : d[b] <= n
  BY RankSmall
<1>7. start \in DepthMaps
  <2> DEFINE D == {NoBlob} \cup {e.blob : e \in {x \in Items(m) : x.line = NoId}}
  <2>1. D \in SUBSET States
    BY <1>3 DEF Item, States
  <2>2. start \in [D -> Nat]
    OBVIOUS
  <2> HIDE DEF D, start
  <2> QED BY <2>1, <2>2 DEF DepthMaps
<1>8. LiveDepths(m) = Depths(start, items, n)
  BY DEF LiveDepths
<1>9. \A b : b \in DOMAIN start <=> b \in DOMAIN d /\ d[b] <= 0
  <2>1. ASSUME NEW b \in DOMAIN start PROVE b \in DOMAIN d /\ d[b] <= 0
    BY <1>2, <1>5
  <2>2. ASSUME NEW b \in DOMAIN d, d[b] <= 0 PROVE b \in DOMAIN start
    <3>1. d[b] = 0
      BY <1>2, <2>2
    <3>2. CASE b = NoBlob
      BY <3>2
    <3>3. CASE b # NoBlob
      <4>1. PICK e \in Items(m) : e.blob = b
        BY <1>2, <3>3 DEF Stored
      <4>2. e.line = NoId
        <5> SUFFICES ASSUME e.line # NoId PROVE FALSE
          OBVIOUS
        <5>1. d[b] = d[e.base] + 1 /\ e.base \in DOMAIN d
          BY <1>5, <4>1
        <5> QED BY <1>2, <3>1, <5>1
      <4> QED BY <4>1, <4>2
    <3> QED BY <3>2, <3>3
  <2> QED BY <2>1, <2>2
<1>10. \A b \in DOMAIN start : start[b] = d[b]
  BY <1>2, <1>9
<1> HIDE DEF items, start, n
<1>11. PICK h : Rounds(h, start, items, n)
  BY <1>1, <1>4, <1>7, DepthsRounds
<1>12. /\ h \in [0..n -> DepthMaps]
       /\ h[0] = start /\ Depths(start, items, n) = h[n]
       /\ \A i \in 1..n : h[i] = Settle(h[i - 1], items, n)
  BY <1>11 DEF Rounds, n
<1> DEFINE Good(i) == /\ \A b : b \in DOMAIN h[i] <=> b \in DOMAIN d /\ d[b] <= i
                      /\ \A b \in DOMAIN h[i] : h[i][b] = d[b]
           S == {i \in Nat : i \in 0..n => Good(i)}
<1>13. 0 \in S
  BY <1>9, <1>10, <1>12
<1>14. ASSUME NEW i \in Nat, i \in S PROVE i + 1 \in S
  <2> SUFFICES ASSUME i + 1 \in 0..n PROVE Good(i + 1)
    OBVIOUS
  <2>1. i \in 0..n /\ i + 1 \in 1..n /\ (i + 1) - 1 = i
    BY <1>1
  <2> DEFINE c == h[i]
             k == h[i + 1]
  <2>2. c \in DepthMaps /\ k = Settle(c, items, n) /\ Good(i)
    BY <1>12, <1>14, <2>1
  <2>3. /\ \A b : b \in DOMAIN c <=> b \in DOMAIN d /\ d[b] <= i
        /\ \A b \in DOMAIN c : c[b] = d[b]
    BY <2>2
  <2> HIDE DEF c, k
  <2>4. /\ DOMAIN k = DOMAIN c \cup {e.blob : e \in {x \in items : x.base \in DOMAIN c}}
        /\ \A b \in DOMAIN c : k[b] = c[b]
        /\ \A b \in DOMAIN k \ DOMAIN c :
             \E e \in items :
               /\ e.blob = b /\ e.base \in DOMAIN c
               /\ k[b] = IF c[e.base] < n /\ b \notin Opaque THEN c[e.base] + 1 ELSE 0
    <3>1. Settled(k, c, items, n)
      BY <1>1, <1>4, <2>2, SettleIs
    <3> QED BY <3>1 DEF Settled
  <2>5. ASSUME NEW b \in DOMAIN k
        PROVE  b \in DOMAIN d /\ d[b] <= i + 1 /\ k[b] = d[b]
    <3>1. CASE b \in DOMAIN c
      <4>1. d[b] \in Nat /\ d[b] <= i
        BY <1>2, <2>3, <3>1
      <4> QED BY <2>3, <2>4, <3>1, <4>1
    <3>2. CASE b \notin DOMAIN c
      <4>1. PICK e \in items :
              /\ e.blob = b /\ e.base \in DOMAIN c
              /\ k[b] = IF c[e.base] < n /\ b \notin Opaque THEN c[e.base] + 1 ELSE 0
        BY <2>4, <3>2
      <4>2. e \in Items(m) /\ e.line # NoId
        BY DEF items
      <4>3. /\ b \in DOMAIN d /\ b \notin Opaque /\ e.base \in DOMAIN d
            /\ d[b] = d[e.base] + 1 /\ d[b] <= n
        BY <1>5, <1>6, <4>1, <4>2
      <4>4. d[e.base] <= i /\ c[e.base] = d[e.base] /\ d[e.base] \in Nat
        BY <1>2, <2>3, <4>1
      <4> QED BY <1>1, <4>1, <4>3, <4>4
    <3> QED BY <3>1, <3>2
  <2>6. ASSUME NEW b \in DOMAIN d, d[b] <= i + 1
        PROVE  b \in DOMAIN k
    <3>1. CASE d[b] <= i
      BY <2>3, <2>4, <3>1
    <3>2. CASE ~(d[b] <= i)
      <4>1. d[b] = i + 1 /\ d[b] # 0
        BY <1>2, <2>6, <3>2
      <4>2. PICK e \in Items(m) : e.blob = b
        BY <1>2, <4>1 DEF Stored
      <4>3. e.line # NoId /\ e.base \in DOMAIN d /\ d[b] = d[e.base] + 1
        BY <1>5, <4>1, <4>2
      <4>4. e \in items /\ d[e.base] <= i
        BY <1>2, <4>1, <4>2, <4>3 DEF items
      <4>5. e.base \in DOMAIN c
        BY <2>3, <4>3, <4>4
      <4> QED BY <2>4, <4>2, <4>4, <4>5
    <3> QED BY <3>1, <3>2
  <2> QED BY <2>5, <2>6 DEF k
<1>15. Nat \subseteq S
  <2> HIDE DEF S
  <2> QED BY <1>13, <1>14, Induction
<1>16. Good(n) /\ h[n] \in DepthMaps
  BY <1>1, <1>12, <1>15
<1>17. DOMAIN h[n] = DOMAIN d /\ \A b \in DOMAIN d : h[n][b] = d[b]
  BY <1>6, <1>16 DEF n
<1>18. h[n] = [b \in DOMAIN h[n] |-> h[n][b]]
  BY <1>16 DEF DepthMaps
<1>19. h[n] = d
  BY <1>2, <1>17, <1>18
<1> QED BY <1>8, <1>12, <1>19
-----------------------------------------------------------------------------
(* Construct or whole.                                                     *)

\* Each blob to send travels once, as a construct whose line travels with it
\* or whole; and the depths extend those of what is stored.
Sorted(C, m, lines, send, d) ==
  /\ C \subseteq Item
  /\ \A b : b \in send <=> \E e \in C : e.blob = b
  /\ \A e1, e2 \in C : e1.blob = e2.blob => e1 = e2
  /\ \A e \in C : e.line # NoId =>
       \E i \in 1..Len(lines) : lines[i].id = e.line /\ lines[i].new = e.blob
  /\ \E k \in [DOMAIN d \cup send -> 0..Interval] :
       /\ \A b \in DOMAIN d : k[b] = d[b]
       /\ \A e \in C :
            IF e.line = NoId THEN k[e.blob] = 0
            ELSE /\ e.blob \notin Opaque
                 /\ e.base \in DOMAIN k
                 /\ k[e.blob] = k[e.base] + 1

\* What Classified makes of a push is sorted.
LEMMA ClassifiedAre ==
  ASSUME NEW m, m \in Manifest, IsSet(m), NEW d, Ranks(d, m),
         NEW lines \in Seq(Written), NEW send \in SUBSET Blobs, send \cap Stored(m) = {}
  PROVE  Sorted(Classified(m, lines, send), m, lines, send, d)
<1> DEFINE C == Classified(m, lines, send)
           cand == Candidates(m, lines, send)
           loose == {e.blob : e \in {c \in cand : c.base \notin send \cup DOMAIN d}}
           start == [b \in DOMAIN d \cup loose |-> IF b \in loose THEN 0 ELSE d[b]]
           w == Depths(start, cand, Interval)
           built == {e \in cand : e.blob \in DOMAIN w /\ w[e.blob] > 0}
           Whole(b) == [blob |-> b, base |-> NoBlob, line |-> NoId]
<1>1. LiveDepths(m) = d
  BY LiveIs
<1>2. C = built \cup {Whole(b) : b \in send \ {e.blob : e \in built}}
  BY <1>1 DEF Classified
<1>3. /\ cand \subseteq Item
      /\ \A e \in cand :
           /\ e.blob \in send /\ e.line # NoId
           /\ \E i \in 1..Len(lines) : lines[i].id = e.line /\ lines[i].new = e.blob
      /\ \A e1, e2 \in cand : e1.blob = e2.blob => e1 = e2
  BY CandidatesAre
<1>4. /\ DOMAIN d = {NoBlob} \cup Stored(m) /\ \A b \in DOMAIN d : d[b] \in 0..Interval
      /\ Interval \in Nat /\ NoBlob \notin Blobs
  BY PacksAssumption DEF Ranks
<1>5. send \cap DOMAIN d = {} /\ DOMAIN d \subseteq States /\ send \subseteq States
  BY <1>4 DEF Stored, Items, Manifest, Segment, Item, States
<1>6. \A b : Whole(b).blob = b /\ Whole(b).line = NoId
  OBVIOUS
<1>7. \A b \in send : Whole(b) \in Item
  BY DEF Item, States, NoId
<1> HIDE DEF cand, C, Whole
<1>8. loose \subseteq send
  BY <1>3
<1>9. \A b \in DOMAIN start : start[b] = IF b \in loose THEN 0 ELSE d[b]
  OBVIOUS
<1>10. DOMAIN start = DOMAIN d \cup loose
  OBVIOUS
<1>11. start \in DepthMaps
  <2> DEFINE D == DOMAIN d \cup loose
  <2>1. D \in SUBSET States
    BY <1>5, <1>8
  <2>2. start \in [D -> Nat]
    BY <1>4
  <2> HIDE DEF D, start
  <2> QED BY <2>1, <2>2 DEF DepthMaps
<1> HIDE DEF start
<1>12. /\ w \in DepthMaps /\ DOMAIN start \subseteq DOMAIN w
       /\ \A b \in DOMAIN start : w[b] = start[b]
       /\ \A b \in DOMAIN w \ DOMAIN start :
            \E e \in cand :
              /\ e.blob = b /\ e.base \in DOMAIN w
              /\ w[b] = IF w[e.base] < Interval /\ b \notin Opaque THEN w[e.base] + 1 ELSE 0
  <2>1. Fixpoint(w, start, cand, Interval)
    BY <1>3, <1>4, <1>11, DepthsAre
  <2> HIDE DEF w
  <2> QED BY <2>1 DEF Fixpoint
<1> HIDE DEF w
<1>13. \A b \in DOMAIN w : w[b] \in Nat
  BY <1>12 DEF DepthMaps
<1>14. \A b \in DOMAIN d : b \in DOMAIN w /\ w[b] = d[b]
  BY <1>5, <1>8, <1>9, <1>10, <1>12
<1>15. \A b \in loose : b \in DOMAIN w /\ w[b] = 0
  BY <1>9, <1>10, <1>12
<1>16. DOMAIN w \subseteq DOMAIN d \cup send
  BY <1>3, <1>8, <1>10, <1>12
<1>17. ASSUME NEW b \in DOMAIN w PROVE w[b] \in 0..Interval
  <2>1. CASE b \in DOMAIN d
    BY <1>4, <1>14, <2>1
  <2>2. CASE b \in loose
    BY <1>4, <1>15, <2>2
  <2>3. CASE b \notin DOMAIN start
    <3>1. PICK e \in cand :
            /\ e.blob = b /\ e.base \in DOMAIN w
            /\ w[b] = IF w[e.base] < Interval /\ b \notin Opaque THEN w[e.base] + 1 ELSE 0
      BY <1>12, <2>3
    <3>2. w[e.base] \in Nat
      BY <1>13, <3>1
    <3> QED BY <1>4, <3>1, <3>2
  <2> QED BY <1>10, <2>1, <2>2, <2>3
<1>18. ASSUME NEW e \in built
       PROVE  e.blob \notin Opaque /\ e.base \in DOMAIN w /\ w[e.blob] = w[e.base] + 1
  <2>1. e.blob \notin DOMAIN start
    BY <1>3, <1>5, <1>10, <1>15
  <2>2. PICK x \in cand :
          /\ x.blob = e.blob /\ x.base \in DOMAIN w
          /\ w[e.blob] = IF w[x.base] < Interval /\ e.blob \notin Opaque THEN w[x.base] + 1 ELSE 0
    BY <1>12, <2>1
  <2>3. x = e
    BY <1>3, <2>2
  <2>4. w[e.blob] # 0
    BY <1>13
  <2> QED BY <2>2, <2>3, <2>4
<1> DEFINE k == [b \in DOMAIN d \cup send |-> IF b \in DOMAIN w THEN w[b] ELSE 0]
<1>19. k \in [DOMAIN d \cup send -> 0..Interval]
  BY <1>4, <1>17
<1>20. \A b \in DOMAIN d : k[b] = d[b]
  BY <1>14
<1>21. ASSUME NEW e \in C
       PROVE  /\ e \in Item
              /\ e.blob \in send
              /\ e.line # NoId => e \in built
              /\ e \notin built => e.line = NoId /\ e.blob \notin {x.blob : x \in built}
                                     /\ e = Whole(e.blob)
  BY <1>2, <1>3, <1>6, <1>7
<1>22. ASSUME NEW e \in C
       PROVE  IF e.line = NoId THEN k[e.blob] = 0
              ELSE /\ e.blob \notin Opaque
                   /\ e.base \in DOMAIN k
                   /\ k[e.blob] = k[e.base] + 1
  <2>1. CASE e \in built
    <3>1. e.line # NoId /\ e.blob \in DOMAIN w /\ e.blob \in send
      BY <1>3, <2>1
    <3>2. e.blob \notin Opaque /\ e.base \in DOMAIN w /\ w[e.blob] = w[e.base] + 1
      BY <1>18, <2>1
    <3>3. e.base \in DOMAIN k /\ k[e.base] = w[e.base] /\ k[e.blob] = w[e.blob]
      BY <1>16, <3>1, <3>2
    <3> QED BY <3>1, <3>2, <3>3
  <2>2. CASE e \notin built
    <3>1. e.line = NoId /\ e.blob \in send /\ e.blob \notin {x.blob : x \in built}
      BY <1>21, <2>2
    <3>2. ASSUME e.blob \in DOMAIN w PROVE w[e.blob] = 0
      <4>1. CASE e.blob \in DOMAIN start
        BY <1>5, <1>10, <1>15, <3>1, <4>1
      <4>2. CASE e.blob \notin DOMAIN start
        <5>1. PICK x \in cand : x.blob = e.blob
          BY <1>12, <3>2, <4>2
        <5>2. ~(w[e.blob] > 0)
          BY <3>1, <3>2, <5>1
        <5> QED BY <1>13, <3>2, <5>2
      <4> QED BY <4>1, <4>2
    <3> QED BY <3>1, <3>2
  <2> QED BY <2>1, <2>2
<1>23. \A e1, e2 \in C : e1.blob = e2.blob => e1 = e2
  <2> SUFFICES ASSUME NEW e1 \in C, NEW e2 \in C, e1.blob = e2.blob PROVE e1 = e2
    OBVIOUS
  <2>1. CASE e1 \in built /\ e2 \in built
    BY <1>3, <2>1
  <2>2. CASE e1 \notin built /\ e2 \notin built
    <3>1. e1 = Whole(e1.blob) /\ e2 = Whole(e2.blob)
      BY <1>21, <2>2
    <3> QED BY <3>1
  <2>3. CASE ~(e1 \in built <=> e2 \in built)
    BY <1>21, <2>3
  <2> QED BY <2>1, <2>2, <2>3
<1>24. \A b : b \in send <=> \E e \in C : e.blob = b
  <2>1. ASSUME NEW b \in send PROVE \E e \in C : e.blob = b
    <3>1. CASE b \in {e.blob : e \in built}
      BY <1>2, <3>1
    <3>2. CASE b \notin {e.blob : e \in built}
      BY <1>2, <1>6, <3>2
    <3> QED BY <3>1, <3>2
  <2> QED BY <1>21, <2>1
<1>25. \A e \in C : e.line # NoId =>
         \E i \in 1..Len(lines) : lines[i].id = e.line /\ lines[i].new = e.blob
  BY <1>3, <1>21
<1>26. C \subseteq Item
  BY <1>21
<1> HIDE DEF k
<1>27. Sorted(C, m, lines, send, d)
  BY <1>19, <1>20, <1>22, <1>23, <1>24, <1>25, <1>26 DEF Sorted
<1> QED BY <1>27 DEF C
-----------------------------------------------------------------------------
(* The next manifest's logs.                                               *)

\* Nothing comes of nothing.
LEMMA NothingIs ==
  ASSUME NEW f \in Forks, NEW S
  PROVE  Within(<<>>, S) = <<>> /\ Spans(<<>>, f) = <<>> /\ FlattenSeq(<<>>) = <<>>
<1>1. FlattenSeq(<<>>) = <<>>
  BY DEF FlattenSeq
<1>2. Within(<<>>, S) = FlattenSeq(<<>>)
  BY DEF Within
<1> QED BY <1>1, <1>2 DEF Spans

\* The segments a fork's head names.
SegsOf(m, f) == IF m.forks[f] = NoFork THEN <<>> ELSE m.forks[f].segs

\* LogOf, with them.
LEMMA LogIs ==
  ASSUME NEW m, m \in Manifest, NEW f \in Forks
  PROVE  /\ SegsOf(m, f) \in Seq(Segment)
         /\ LogOf(m, f) = FlattenSeq(Spans(SegsOf(m, f), f))
         /\ LogOf(m, f) \in Seq(Line)
<1>1. SegsOf(m, f) \in Seq(Segment)
  BY DEF SegsOf, Manifest, ForkHead
<1>2. LogOf(m, f) = FlattenSeq(Spans(SegsOf(m, f), f))
  BY LogSpans, NothingIs DEF SegsOf
<1>3. Spans(SegsOf(m, f), f) \in Seq(Seq(Line))
  BY <1>1, SpansJoin
<1> QED BY <1>1, <1>2, <1>3, FlatTyped

Kept(m, f) == Within(SegsOf(m, f), ToSet(SegsOf(m, f)) \ Folded(m))
Gone(m, f) == Within(SegsOf(m, f), Folded(m))

\* A fork's log is what is kept of it and what is folded.
LEMMA KeptGone ==
  ASSUME NEW m, m \in Manifest, NEW f \in Forks
  PROVE  /\ Kept(m, f) \in Seq(Segment) /\ Gone(m, f) \in Seq(Segment)
         /\ LogOf(m, f) = FlattenSeq(Spans(Kept(m, f), f)) \o FlattenSeq(Spans(Gone(m, f), f))
         /\ FlattenSeq(Spans(Kept(m, f), f)) \in Seq(Line)
         /\ FlattenSeq(Spans(Gone(m, f), f)) \in Seq(Line)
<1>1. CASE m.forks[f] = NoFork
  <2>1. SegsOf(m, f) = <<>> /\ LogOf(m, f) = <<>>
    BY <1>1 DEF SegsOf, LogOf
  <2>2. Kept(m, f) = <<>> /\ Gone(m, f) = <<>>
    BY <2>1, NothingIs DEF Kept, Gone
  <2>3. FlattenSeq(Spans(<<>>, f)) = <<>>
    BY NothingIs
  <2>4. <<>> \o <<>> = <<>> /\ <<>> \in Seq(Line) /\ <<>> \in Seq(Segment)
    OBVIOUS
  <2> QED BY <2>1, <2>2, <2>3, <2>4
<1>2. CASE m.forks[f] # NoFork
  <2>1. SegsOf(m, f) = m.forks[f].segs
    BY <1>2 DEF SegsOf
  <2> QED BY <1>2, <2>1, FoldSplits DEF Kept, Gone
<1> QED BY <1>1, <1>2

\* What a new segment holds of a fork: what is folded, then what is sent.
LEMMA SpanIs ==
  ASSUME NEW m, m \in Manifest, NEW seen, ReadWhole(seen), NEW f \in Forks
  PROVE  /\ SpanOf(m, seen, f) = FlattenSeq(Spans(Gone(m, f), f)) \o Sent(m, seen, f)
         /\ SpanOf(m, seen, f) \in Seq(Line)
<1>1. Gone(m, f) = IF m.forks[f] = NoFork THEN <<>> ELSE Within(m.forks[f].segs, Folded(m))
  BY NothingIs DEF Gone, SegsOf
<1>2. SpanOf(m, seen, f) = FlattenSeq(Spans(Gone(m, f), f)) \o Sent(m, seen, f)
  BY <1>1 DEF SpanOf, Spans, Sent
<1>3. Sent(m, seen, f) \in Seq(Line)
  BY SentIs, LinesAre
<1> QED BY <1>2, <1>3, KeptGone

\* Whatever is sent, its fork's head is published.
LEMMA SentMoves ==
  ASSUME NEW m, m \in Manifest, NEW seen, ReadWhole(seen), NEW f \in Forks
  PROVE  /\ f \notin Heads(m, seen) => Sent(m, seen, f) = <<>>
         /\ f \in DOMAIN seen /\ m.forks[f] = NoFork => f \in Heads(m, seen)
BY DEF Heads, Sent, NewLines, Advances, InSync

\* A fork's head in the next manifest.
Moves(m, seen, segs, n, f) ==
  /\ n.forks[f] \in ForkHead \cup {NoFork}
  /\ n.forks[f] = NoFork <=> f \notin Heads(m, seen) /\ m.forks[f] = NoFork
  /\ n.forks[f] # NoFork =>
       /\ n.forks[f].anchor = IF f \in Heads(m, seen) THEN seen[f].anchor ELSE m.forks[f].anchor
       /\ n.forks[f].head = IF f \in Heads(m, seen) THEN seen[f].head ELSE m.forks[f].head
       /\ n.forks[f].segs
            = Kept(m, f) \o Within(segs, {s \in ToSet(segs) : s.spans[f] # <<>>})

\* The manifest that Assembled makes moves each head as it says.
LEMMA HeadsMove ==
  ASSUME NEW m, m \in Manifest, NEW seen, ReadWhole(seen), NEW segs \in Seq(Segment),
         NEW f \in Forks
  PROVE  Moves(m, seen, segs, Assembled(m, seen, segs), f)
<1> DEFINE n == Assembled(m, seen, segs)
           new == Within(segs, {s \in ToSet(segs) : s.spans[f] # <<>>})
           moved == IF f \notin Heads(m, seen) THEN m.forks[f]
                    ELSE [anchor |-> seen[f].anchor, head |-> seen[f].head,
                          segs |-> SegsOf(m, f)]
           Listed(h) == [h EXCEPT !.segs = Within(@, ToSet(@) \ Folded(m)) \o new]
<1>1. n.forks[f] = IF moved = NoFork THEN NoFork ELSE Listed(moved)
  BY DEF Assembled, SegsOf
<1>2. moved \in ForkHead \cup {NoFork}
  <2>1. SegsOf(m, f) \in Seq(Segment)
    BY LogIs
  <2>2. m.forks[f] \in ForkHead \cup {NoFork}
    BY DEF Manifest
  <2>3. f \in Heads(m, seen) => seen[f].anchor \in States /\ seen[f].head \in Nat
    BY DEF Heads, ReadWhole
  <2> QED BY <2>1, <2>2, <2>3 DEF ForkHead
<1>3. moved = NoFork <=> f \notin Heads(m, seen) /\ m.forks[f] = NoFork
  <2>1. f \in Heads(m, seen) => moved \in ForkHead
    <3>1. SegsOf(m, f) \in Seq(Segment)
      BY LogIs
    <3>2. f \in Heads(m, seen) => seen[f].anchor \in States /\ seen[f].head \in Nat
      BY DEF Heads, ReadWhole
    <3> QED BY <3>1, <3>2 DEF ForkHead
  <2> QED BY <2>1, NoForkAssumption
<1>4. moved # NoFork =>
        /\ moved.anchor = IF f \in Heads(m, seen) THEN seen[f].anchor ELSE m.forks[f].anchor
        /\ moved.head = IF f \in Heads(m, seen) THEN seen[f].head ELSE m.forks[f].head
        /\ moved.segs = SegsOf(m, f)
  BY <1>3 DEF SegsOf
<1>5. new \in Seq(Segment)
  BY WithinIs
<1>6. Kept(m, f) \in Seq(Segment)
  BY KeptGone
<1> HIDE DEF moved, new, n
<1>7. Kept(m, f) \o new \in Seq(Segment)
  BY <1>5, <1>6
<1>8. CASE moved = NoFork
  BY <1>1, <1>3, <1>8 DEF Moves, n
<1>9. CASE moved # NoFork
  <2>1. moved \in ForkHead
    BY <1>2, <1>9
  <2>2. Listed(moved) = [moved EXCEPT !.segs = Kept(m, f) \o new]
    BY <1>4, <1>9, <2>1 DEF Kept, ForkHead
  <2> DEFINE h == [moved EXCEPT !.segs = Kept(m, f) \o new]
  <2>3. h \in ForkHead /\ h.anchor = moved.anchor /\ h.head = moved.head
        /\ h.segs = Kept(m, f) \o new
    BY <1>7, <2>1 DEF ForkHead
  <2>4. n.forks[f] = h
    BY <1>1, <1>9, <2>2
  <2> HIDE DEF h
  <2>5. n.forks[f] # NoFork
    BY <2>3, <2>4, NoForkAssumption
  <2> QED BY <1>3, <1>4, <1>9, <2>3, <2>4, <2>5 DEF Moves, n, new
<1> QED BY <1>8, <1>9

\* A fork's log in it: the log it had, then what is sent.
LEMMA LogGrows ==
  ASSUME NEW m, m \in Manifest, NEW seen, ReadWhole(seen), NEW in, NEW segs,
         in.spans = [f \in Forks |-> SpanOf(m, seen, f)], IsCut(in, segs),
         NEW f \in Forks
  PROVE  LogOf(Assembled(m, seen, segs), f) = LogOf(m, f) \o Sent(m, seen, f)
<1> DEFINE n == Assembled(m, seen, segs)
           new == Within(segs, {s \in ToSet(segs) : s.spans[f] # <<>>})
           a == FlattenSeq(Spans(Kept(m, f), f))
           b == FlattenSeq(Spans(Gone(m, f), f))
           c == Sent(m, seen, f)
<1>1. segs \in Seq(Segment) /\ FlattenSeq(Spans(new, f)) = b \o c
  BY SpanIs DEF IsCut
<1>2. Moves(m, seen, segs, n, f)
  BY <1>1, HeadsMove
<1>3. a \in Seq(Line) /\ b \in Seq(Line) /\ LogOf(m, f) = a \o b /\ Kept(m, f) \in Seq(Segment)
  BY KeptGone
<1>4. c \in Seq(Line)
  BY SentIs, LinesAre
<1>5. new \in Seq(Segment)
  BY <1>1, WithinIs
<1> HIDE DEF n, new
<1>6. CASE n.forks[f] = NoFork
  <2>1. m.forks[f] = NoFork /\ c = <<>>
    BY <1>2, <1>6, SentMoves DEF Moves
  <2>2. LogOf(n, f) = <<>> /\ LogOf(m, f) = <<>> /\ <<>> \o <<>> = <<>>
    BY <1>6, <2>1 DEF LogOf
  <2> QED BY <2>1, <2>2 DEF n
<1>7. CASE n.forks[f] # NoFork
  <2>1. LogOf(n, f) = FlattenSeq(Spans(n.forks[f].segs, f))
    BY <1>7, LogSpans
  <2>2. n.forks[f].segs = Kept(m, f) \o new
    BY <1>2, <1>7 DEF Moves, new
  <2>3. FlattenSeq(Spans(Kept(m, f) \o new, f)) = a \o FlattenSeq(Spans(new, f))
    BY <1>3, <1>5, SpansJoin
  <2>4. LogOf(n, f) = a \o (b \o c)
    BY <1>1, <2>1, <2>2, <2>3 DEF new
  <2> HIDE DEF a, b, c
  <2>5. a \o (b \o c) = (a \o b) \o c
    BY <1>3, <1>4, Regroup
  <2> QED BY <1>3, <2>4, <2>5 DEF n, c
<1> QED BY <1>6, <1>7
-----------------------------------------------------------------------------
(* The next manifest.                                                      *)

Class(m, seen, blobs) == Classified(m, Pushed(m, seen), ToSend(m, blobs))

\* What a push that has read everything makes of a sound manifest.
Planned(m, seen, blobs, segs) ==
  /\ Packed(m) /\ ReadWhole(seen) /\ blobs \in SUBSET Blobs
  /\ segs \in Cuts(Inputs(m, seen, blobs))

\* How each blob is sent.
LEMMA ClassIs ==
  ASSUME NEW m, NEW seen, NEW blobs, NEW segs, Planned(m, seen, blobs, segs),
         NEW d, Ranks(d, m)
  PROVE  Sorted(Class(m, seen, blobs), m, Pushed(m, seen), ToSend(m, blobs), d)
<1>1. m \in Manifest /\ IsSet(m) /\ ReadWhole(seen)
  BY DEF Planned, Packed
<1>2. ToSend(m, blobs) \in SUBSET Blobs /\ ToSend(m, blobs) \cap Stored(m) = {}
  BY DEF ToSend, Planned
<1>3. Pushed(m, seen) \in Seq(Written)
  BY <1>1, PushedIs
<1> QED BY <1>1, <1>2, <1>3, ClassifiedAre DEF Class

\* The segments hold what is sent and what is folded.
LEMMA PlannedCut ==
  ASSUME NEW m, NEW seen, NEW blobs, NEW segs, Planned(m, seen, blobs, segs)
  PROVE  LET in == Inputs(m, seen, blobs)
         IN  /\ IsCut(in, segs)
             /\ in.spans = [f \in Forks |-> SpanOf(m, seen, f)]
             /\ in.items = Class(m, seen, blobs) \cup UNION {s.items : s \in Folded(m)}
<1> DEFINE items == Class(m, seen, blobs) \cup UNION {s.items : s \in Folded(m)}
           spans == [f \in Forks |-> SpanOf(m, seen, f)]
<1>1. m \in Manifest /\ ReadWhole(seen) /\ Ranked(m)
  BY DEF Planned, Packed
<1>2. Inputs(m, seen, blobs) = [items |-> items, spans |-> spans]
  BY DEF Inputs, Class
<1>3. items \in SUBSET Item
  <2>1. Class(m, seen, blobs) \subseteq Item
    BY <1>1, ClassIs DEF Ranked, Sorted
  <2>2. \A s \in Folded(m) : s.items \subseteq Item
    BY <1>1, FoldedLive DEF Manifest, Segment
  <2> QED BY <2>1, <2>2
<1>4. spans \in [Forks -> Seq(Line)]
  BY <1>1, SpanIs
<1>5. segs \in Cuts([items |-> items, spans |-> spans])
  BY <1>2 DEF Planned
<1> DEFINE in == [items |-> items, spans |-> spans]
<1>6. in.items = items /\ in.spans = spans
  OBVIOUS
<1> HIDE DEF items, spans
<1>7. IsCut(in, segs)
  BY <1>3, <1>4, <1>5, CutsAre
<1> HIDE DEF in
<1> QED BY <1>2, <1>6, <1>7 DEF in, items, spans

\* Its live segments are the ones not folded and the new ones.
LEMMA NextLive ==
  ASSUME NEW m, NEW seen, NEW blobs, NEW segs, Planned(m, seen, blobs, segs)
  PROVE  LET n == Assembled(m, seen, segs)
         IN  /\ n.live = (m.live \ Folded(m)) \cup ToSet(segs)
             /\ n \in Manifest
             /\ \A f \in Forks : Moves(m, seen, segs, n, f)
             /\ Items(n) = Items(m) \cup Class(m, seen, blobs)
<1> DEFINE n == Assembled(m, seen, segs)
           in == Inputs(m, seen, blobs)
           C == Class(m, seen, blobs)
<1>1. m \in Manifest /\ ReadWhole(seen)
  BY DEF Planned, Packed
<1>2. /\ segs \in Seq(Segment)
      /\ UNION {s.items : s \in ToSet(segs)} = C \cup UNION {s.items : s \in Folded(m)}
  <2>1. IsCut(in, segs) /\ in.items = C \cup UNION {s.items : s \in Folded(m)}
    BY PlannedCut
  <2> QED BY <2>1 DEF IsCut
<1>3. /\ n.live = (m.live \ Folded(m)) \cup ToSet(segs)
      /\ n = [forks |-> n.forks, live |-> n.live]
      /\ n.forks = [f \in Forks |-> n.forks[f]]
  BY DEF Assembled
<1>4. \A f \in Forks : Moves(m, seen, segs, n, f)
  BY <1>1, <1>2, HeadsMove
<1> HIDE DEF n, C
<1>5. n \in Manifest
  <2>1. \A f \in Forks : n.forks[f] \in ForkHead \cup {NoFork}
    BY <1>4 DEF Moves
  <2>2. n.forks \in [Forks -> ForkHead \cup {NoFork}]
    BY <1>3, <2>1
  <2>3. ToSet(segs) \subseteq Segment
    BY <1>2 DEF ToSet
  <2>4. n.live \in SUBSET Segment
    BY <1>1, <1>3, <2>3 DEF Manifest
  <2> QED BY <1>3, <2>2, <2>4 DEF Manifest
<1>6. Items(n) = Items(m) \cup C
  <2>1. Folded(m) \subseteq m.live
    BY <1>1, FoldedLive
  <2>2. ASSUME NEW e PROVE e \in Items(n) <=> e \in Items(m) \cup C
    <3>1. e \in Items(n) <=> \/ \E s \in m.live \ Folded(m) : e \in s.items
                             \/ e \in UNION {s.items : s \in ToSet(segs)}
      BY <1>3 DEF Items
    <3>2. e \in UNION {s.items : s \in ToSet(segs)}
            <=> e \in C \/ \E s \in Folded(m) : e \in s.items
      BY <1>2
    <3>3. e \in Items(m) <=> \E s \in m.live : e \in s.items
      BY DEF Items
    <3> QED BY <2>1, <3>1, <3>2, <3>3
  <2> QED BY <2>2
<1> QED BY <1>3, <1>4, <1>5, <1>6 DEF n, C

\* What is live in it is still a set.
LEMMA NextSet ==
  ASSUME NEW m, NEW seen, NEW blobs, NEW segs, Planned(m, seen, blobs, segs)
  PROVE  IsSet(Assembled(m, seen, segs))
<1> DEFINE n == Assembled(m, seen, segs)
           in == Inputs(m, seen, blobs)
           C == Class(m, seen, blobs)
<1>1. m \in Manifest /\ IsSet(m) /\ Ranked(m)
  BY DEF Planned, Packed
<1>2. /\ \A b : b \in ToSend(m, blobs) <=> \E e \in C : e.blob = b
      /\ \A e1, e2 \in C : e1.blob = e2.blob => e1 = e2
  <2>1. PICK d \in [{NoBlob} \cup Stored(m) -> 0..Interval] : Ranks(d, m)
    BY <1>1 DEF Ranked
  <2>2. Sorted(C, m, Pushed(m, seen), ToSend(m, blobs), d)
    BY <2>1, ClassIs
  <2> HIDE DEF C
  <2> QED BY <2>2 DEF Sorted
<1>3. \A e \in C : e.blob \notin Stored(m)
  BY <1>2 DEF ToSend
<1>4. /\ UNION {s.items : s \in ToSet(segs)} = C \cup UNION {s.items : s \in Folded(m)}
      /\ \A s, t \in ToSet(segs) : s.items \cap t.items # {} => s = t
  <2>1. IsCut(in, segs) /\ in.items = C \cup UNION {s.items : s \in Folded(m)}
    BY PlannedCut
  <2> QED BY <2>1 DEF IsCut
<1>5. n.live = (m.live \ Folded(m)) \cup ToSet(segs) /\ Items(n) = Items(m) \cup C
  BY NextLive
<1>6. Folded(m) \subseteq m.live
  BY <1>1, FoldedLive
<1>7. \A e \in Items(m) : e.blob \in Stored(m)
  BY DEF Stored
<1> HIDE DEF n, C, in
<1>8. \A e1, e2 \in Items(n) : e1.blob = e2.blob => e1 = e2
  BY <1>1, <1>2, <1>3, <1>5, <1>7 DEF IsSet
<1>9. ASSUME NEW s \in m.live \ Folded(m), NEW t \in ToSet(segs) PROVE s.items \cap t.items = {}
  <2> SUFFICES ASSUME NEW e, e \in s.items, e \in t.items PROVE FALSE
    OBVIOUS
  <2>1. e \in Items(m)
    BY DEF Items
  <2>2. e \notin C
    BY <1>3, <1>7, <2>1
  <2>3. PICK u \in Folded(m) : e \in u.items
    BY <1>4, <2>2
  <2>4. u = s
    BY <1>1, <1>6, <2>3 DEF IsSet
  <2> QED BY <2>3, <2>4
<1>10. ASSUME NEW s \in n.live, NEW t \in n.live, s.items \cap t.items # {} PROVE s = t
  <2>1. CASE s \in ToSet(segs) /\ t \in ToSet(segs)
    BY <1>4, <1>10, <2>1
  <2>2. CASE s \notin ToSet(segs) /\ t \notin ToSet(segs)
    BY <1>1, <1>5, <1>10, <2>2 DEF IsSet
  <2>3. CASE s \notin ToSet(segs) /\ t \in ToSet(segs)
    BY <1>5, <1>9, <1>10, <2>3
  <2>4. CASE s \in ToSet(segs) /\ t \notin ToSet(segs)
    BY <1>5, <1>9, <1>10, <2>4
  <2> QED BY <2>1, <2>2, <2>3, <2>4
<1> QED BY <1>8, <1>10 DEF IsSet, n

\* No chain in it is longer than the interval.
LEMMA NextRanked ==
  ASSUME NEW m, NEW seen, NEW blobs, NEW segs, Planned(m, seen, blobs, segs)
  PROVE  Ranked(Assembled(m, seen, segs))
<1> DEFINE n == Assembled(m, seen, segs)
           C == Class(m, seen, blobs)
<1>1. m \in Manifest /\ Ranked(m)
  BY DEF Planned, Packed
<1>2. PICK d \in [{NoBlob} \cup Stored(m) -> 0..Interval] : Ranks(d, m)
  BY <1>1 DEF Ranked
<1>3. Sorted(C, m, Pushed(m, seen), ToSend(m, blobs), d)
  BY <1>2, ClassIs
<1>4. /\ \A b : b \in ToSend(m, blobs) <=> \E e \in C : e.blob = b
      /\ \E k \in [DOMAIN d \cup ToSend(m, blobs) -> 0..Interval] :
           /\ \A b \in DOMAIN d : k[b] = d[b]
           /\ \A e \in C :
                IF e.line = NoId THEN k[e.blob] = 0
                ELSE e.blob \notin Opaque /\ e.base \in DOMAIN k /\ k[e.blob] = k[e.base] + 1
  BY <1>3 DEF Sorted
<1>5. PICK k \in [DOMAIN d \cup ToSend(m, blobs) -> 0..Interval] :
           /\ \A b \in DOMAIN d : k[b] = d[b]
           /\ \A e \in C :
                IF e.line = NoId THEN k[e.blob] = 0
                ELSE e.blob \notin Opaque /\ e.base \in DOMAIN k /\ k[e.blob] = k[e.base] + 1
  BY <1>4
<1>6. Items(n) = Items(m) \cup C
  BY NextLive
<1> HIDE DEF n, C
<1>7. Stored(n) = Stored(m) \cup ToSend(m, blobs)
  BY <1>4, <1>6 DEF Stored
<1>8. DOMAIN d = {NoBlob} \cup Stored(m)
  OBVIOUS
<1>9. DOMAIN k = {NoBlob} \cup Stored(n) /\ k \in [{NoBlob} \cup Stored(n) -> 0..Interval]
  BY <1>7, <1>8
<1>10. k[NoBlob] = 0
  BY <1>2, <1>5, <1>8 DEF Ranks
<1>11. ASSUME NEW e \in Items(n)
       PROVE  IF e.line = NoId THEN k[e.blob] = 0
              ELSE e.blob \notin Opaque /\ e.base \in DOMAIN k /\ k[e.blob] = k[e.base] + 1
  <2>1. CASE e \in C
    BY <1>5, <2>1
  <2>2. CASE e \in Items(m)
    <3>1. e.blob \in DOMAIN d
      BY <1>8, <2>2 DEF Stored
    <3>2. IF e.line = NoId THEN d[e.blob] = 0
          ELSE e.blob \notin Opaque /\ e.base \in DOMAIN d /\ d[e.blob] = d[e.base] + 1
      BY <1>2, <2>2 DEF Ranks
    <3> QED BY <1>5, <3>1, <3>2
  <2> QED BY <1>6, <2>1, <2>2
<1>12. Ranks(k, n)
  BY <1>9, <1>10, <1>11 DEF Ranks
<1> QED BY <1>9, <1>12 DEF Ranked, n

\* A line of a fork's span is in a new segment.
LEMMA SpanTravels ==
  ASSUME NEW m, NEW seen, NEW blobs, NEW segs, Planned(m, seen, blobs, segs),
         NEW f \in Forks, NEW x, \E i \in 1..Len(SpanOf(m, seen, f)) : SpanOf(m, seen, f)[i] = x
  PROVE  \E s \in ToSet(segs) : x \in ToSet(s.spans[f])
<1> DEFINE in == Inputs(m, seen, blobs)
<1>1. IsCut(in, segs) /\ in.spans = [g \in Forks |-> SpanOf(m, seen, g)]
  BY PlannedCut
<1>2. m \in Manifest /\ ReadWhole(seen)
  BY DEF Planned, Packed
<1>3. SpanOf(m, seen, f) \in Seq(Line)
  BY <1>2, SpanIs
<1> HIDE DEF in
<1>4. in.spans[f] = SpanOf(m, seen, f)
  BY <1>1
<1>5. SpanOf(m, seen, f) # <<>>
  BY <1>3
<1>6. in.spans # NoSpans
  BY <1>4, <1>5 DEF NoSpans
<1>7. PICK s \in ToSet(segs) : s.spans = in.spans
  BY <1>1, <1>6 DEF IsCut
<1>8. x \in ToSet(SpanOf(m, seen, f))
  BY <1>3 DEF ToSet
<1> QED BY <1>4, <1>7, <1>8

\* Every line of a live segment is still of its fork.
LEMMA NextNamed ==
  ASSUME NEW m, NEW seen, NEW blobs, NEW segs, Planned(m, seen, blobs, segs)
  PROVE  Named(Assembled(m, seen, segs))
<1> DEFINE n == Assembled(m, seen, segs)
           in == Inputs(m, seen, blobs)
<1>1. m \in Manifest /\ Named(m) /\ ReadWhole(seen)
  BY DEF Planned, Packed
<1>2. IsCut(in, segs) /\ in.spans = [g \in Forks |-> SpanOf(m, seen, g)]
  BY PlannedCut
<1>3. n.live = (m.live \ Folded(m)) \cup ToSet(segs) /\ \A f \in Forks : Moves(m, seen, segs, n, f)
  BY NextLive
<1> HIDE DEF n, in
<1>4. ASSUME NEW f \in Forks, NEW s \in n.live, s.spans[f] # <<>>
      PROVE  n.forks[f] # NoFork /\ s \in ToSet(n.forks[f].segs)
  <2> DEFINE new == Within(segs, {t \in ToSet(segs) : t.spans[f] # <<>>})
  <2>1. segs \in Seq(Segment)
    BY <1>2 DEF IsCut
  <2>2. new \in Seq(Segment) /\ Kept(m, f) \in Seq(Segment)
    BY <1>1, <2>1, KeptGone, WithinIs
  <2>3. n.forks[f] # NoFork => n.forks[f].segs = Kept(m, f) \o new
    BY <1>3 DEF Moves
  <2>4. \A x : (\E k \in 1..Len(new) : new[k] = x)
                 <=> /\ x \in {t \in ToSet(segs) : t.spans[f] # <<>>}
                     /\ \E i \in 1..Len(segs) : segs[i] = x
    <3> DEFINE S == {t \in ToSet(segs) : t.spans[f] # <<>>}
    <3> HIDE DEF S
    <3>1. \A x : (\E k \in 1..Len(Within(segs, S)) : Within(segs, S)[k] = x)
                   <=> x \in S /\ \E i \in 1..Len(segs) : segs[i] = x
      BY <2>1, WithinIs
    <3> QED BY <3>1 DEF S
  <2>5. \A x : (\E k \in 1..Len(Kept(m, f)) : Kept(m, f)[k] = x)
                 <=> /\ x \in ToSet(SegsOf(m, f)) \ Folded(m)
                     /\ \E i \in 1..Len(SegsOf(m, f)) : SegsOf(m, f)[i] = x
    <3>1. SegsOf(m, f) \in Seq(Segment)
      BY <1>1, LogIs
    <3> DEFINE S == ToSet(SegsOf(m, f)) \ Folded(m)
               l == SegsOf(m, f)
    <3> HIDE DEF S, l
    <3>2. l \in Seq(Segment)
      BY <3>1 DEF l
    <3>3. \A x : (\E k \in 1..Len(Within(l, S)) : Within(l, S)[k] = x)
                   <=> x \in S /\ \E i \in 1..Len(l) : l[i] = x
      BY <3>2, WithinIs
    <3> QED BY <3>3 DEF S, l, Kept
  <2> HIDE DEF new
  <2> DEFINE t == Kept(m, f) \o new
  <2>6. /\ t \in Seq(Segment) /\ Len(t) = Len(Kept(m, f)) + Len(new)
        /\ Len(Kept(m, f)) \in Nat /\ Len(new) \in Nat
        /\ \A i \in 1..Len(Kept(m, f)) : t[i] = Kept(m, f)[i]
        /\ \A i \in 1..Len(new) : t[Len(Kept(m, f)) + i] = new[i]
    BY <2>2, Joins
  <2> HIDE DEF t
  <2>7. CASE s \in ToSet(segs)
    <3>1. \E i \in 1..Len(segs) : segs[i] = s
      BY <2>1, <2>7 DEF ToSet
    <3>2. PICK k \in 1..Len(new) : new[k] = s
      BY <1>4, <2>4, <2>7, <3>1
    <3>3. Len(Kept(m, f)) + k \in 1..Len(t) /\ t[Len(Kept(m, f)) + k] = s
      BY <2>6, <3>2
    <3>4. s \in ToSet(t)
      BY <2>6, <3>3 DEF ToSet
    <3>5. in.spans[f] # <<>>
      BY <1>2, <1>4, <2>7 DEF IsCut
    <3>6. f \in Heads(m, seen) \/ m.forks[f] # NoFork
      <4> SUFFICES ASSUME f \notin Heads(m, seen), m.forks[f] = NoFork PROVE FALSE
        OBVIOUS
      <4>1. Sent(m, seen, f) = <<>>
        BY <1>1, SentMoves
      <4>2. Gone(m, f) = <<>>
        BY NothingIs DEF Gone, SegsOf
      <4>3. FlattenSeq(Spans(<<>>, f)) = <<>>
        BY NothingIs
      <4>4. SpanOf(m, seen, f) = <<>> \o <<>> /\ <<>> \o <<>> = <<>>
        BY <1>1, <4>1, <4>2, <4>3, SpanIs
      <4> QED BY <1>2, <3>5, <4>4
    <3>7. n.forks[f] # NoFork
      BY <1>3, <3>6 DEF Moves
    <3> QED BY <2>3, <3>4, <3>7 DEF t
  <2>8. CASE s \notin ToSet(segs)
    <3>1. s \in m.live /\ s \notin Folded(m)
      BY <1>3, <1>4, <2>8
    <3>2. m.forks[f] # NoFork /\ s \in ToSet(m.forks[f].segs)
      BY <1>1, <1>4, <3>1 DEF Named
    <3>3. s \in ToSet(SegsOf(m, f)) /\ SegsOf(m, f) \in Seq(Segment)
      BY <1>1, <3>2, LogIs DEF SegsOf
    <3>4. \E i \in 1..Len(SegsOf(m, f)) : SegsOf(m, f)[i] = s
      BY <3>3 DEF ToSet
    <3>5. PICK k \in 1..Len(Kept(m, f)) : Kept(m, f)[k] = s
      BY <2>5, <3>1, <3>3, <3>4
    <3>6. k \in 1..Len(t) /\ t[k] = s
      BY <2>6, <3>5
    <3>7. s \in ToSet(t)
      BY <2>6, <3>6 DEF ToSet
    <3>8. n.forks[f] # NoFork
      BY <1>3, <3>2 DEF Moves
    <3> QED BY <2>3, <3>7, <3>8 DEF t
  <2> QED BY <2>7, <2>8
<1> QED BY <1>4 DEF Named, n

\* The line of every construct in it is there too.
LEMMA NextReplayable ==
  ASSUME NEW m, NEW seen, NEW blobs, NEW segs, Planned(m, seen, blobs, segs)
  PROVE  Replayable(Assembled(m, seen, segs))
<1> DEFINE n == Assembled(m, seen, segs)
           C == Class(m, seen, blobs)
<1>1. m \in Manifest /\ Named(m) /\ ReadWhole(seen) /\ Ranked(m) /\ Replayable(m)
  BY DEF Planned, Packed
<1>2. n.live = (m.live \ Folded(m)) \cup ToSet(segs) /\ Items(n) = Items(m) \cup C
  BY NextLive
<1>3. \A e \in C : e.line # NoId =>
        \E i \in 1..Len(Pushed(m, seen)) :
          Pushed(m, seen)[i].id = e.line /\ Pushed(m, seen)[i].new = e.blob
  <2>1. PICK d \in [{NoBlob} \cup Stored(m) -> 0..Interval] : Ranks(d, m)
    BY <1>1 DEF Ranked
  <2>2. Sorted(C, m, Pushed(m, seen), ToSend(m, blobs), d)
    BY <2>1, ClassIs
  <2> HIDE DEF C
  <2> QED BY <2>2 DEF Sorted
<1> HIDE DEF n, C
<1>4. ASSUME NEW f \in Forks, NEW x,
             \E i \in 1..Len(SpanOf(m, seen, f)) : SpanOf(m, seen, f)[i] = x
      PROVE  \E s \in n.live : x \in ToSet(s.spans[f])
  <2>1. \E s \in ToSet(segs) : x \in ToSet(s.spans[f])
    BY <1>4, SpanTravels
  <2> QED BY <1>2, <2>1
<1>5. ASSUME NEW f \in Forks
      PROVE  /\ \A i \in 1..Len(Sent(m, seen, f)) :
                  \E j \in 1..Len(SpanOf(m, seen, f)) : SpanOf(m, seen, f)[j] = Sent(m, seen, f)[i]
             /\ \A i \in 1..Len(FlattenSeq(Spans(Gone(m, f), f))) :
                  \E j \in 1..Len(SpanOf(m, seen, f)) :
                    SpanOf(m, seen, f)[j] = FlattenSeq(Spans(Gone(m, f), f))[i]
  <2> DEFINE a == FlattenSeq(Spans(Gone(m, f), f))
             b == Sent(m, seen, f)
  <2>1. SpanOf(m, seen, f) = a \o b
    BY <1>1, SpanIs
  <2>2. a \in Seq(Line) /\ b \in Seq(Line)
    BY <1>1, KeptGone, SentIs, LinesAre
  <2> HIDE DEF a, b
  <2> DEFINE t == a \o b
  <2>3. /\ Len(t) = Len(a) + Len(b) /\ Len(a) \in Nat /\ Len(b) \in Nat
        /\ \A i \in 1..Len(a) : t[i] = a[i]
        /\ \A i \in 1..Len(b) : t[Len(a) + i] = b[i]
    BY <2>2, Joins
  <2> HIDE DEF t
  <2>4. \A i \in 1..Len(a) : i \in 1..Len(t)
    BY <2>3
  <2>5. \A i \in 1..Len(b) : Len(a) + i \in 1..Len(t)
    BY <2>3
  <2>6. SpanOf(m, seen, f) = t
    BY <2>1 DEF t
  <2> QED BY <2>3, <2>4, <2>5, <2>6 DEF a, b
<1>6. ASSUME NEW e \in Items(n), e.line # NoId
      PROVE  \E s \in n.live, f \in Forks : \E x \in ToSet(s.spans[f]) :
               x.id = e.line /\ x.new = e.blob
  <2>1. CASE e \in C
    <3>1. PICK i \in 1..Len(Pushed(m, seen)) :
            Pushed(m, seen)[i].id = e.line /\ Pushed(m, seen)[i].new = e.blob
      BY <1>3, <1>6, <2>1
    <3>2. PICK f \in Forks : \E j \in 1..Len(Sent(m, seen, f)) :
                               Sent(m, seen, f)[j] = Pushed(m, seen)[i]
      BY <1>1, PushedIs
    <3>3. \E j \in 1..Len(SpanOf(m, seen, f)) : SpanOf(m, seen, f)[j] = Pushed(m, seen)[i]
      BY <1>5, <3>2
    <3>4. \E s \in n.live : Pushed(m, seen)[i] \in ToSet(s.spans[f])
      BY <1>4, <3>3
    <3> QED BY <3>1, <3>4
  <2>2. CASE e \in Items(m)
    <3>1. PICK s \in m.live, f \in Forks : \E x \in ToSet(s.spans[f]) :
                 x.id = e.line /\ x.new = e.blob
      BY <1>1, <1>6, <2>2 DEF Replayable
    <3>2. PICK x \in ToSet(s.spans[f]) : x.id = e.line /\ x.new = e.blob
      BY <3>1
    <3>3. CASE s \notin Folded(m)
      BY <1>2, <3>2, <3>3
    <3>4. CASE s \in Folded(m)
      <4>1. s.spans[f] \in Seq(Line)
        BY <1>1 DEF Manifest, Segment
      <4>2. s.spans[f] # <<>>
        BY <3>2 DEF ToSet
      <4>3. m.forks[f] # NoFork /\ s \in ToSet(m.forks[f].segs)
        BY <1>1, <4>2 DEF Named
      <4>4. s \in ToSet(SegsOf(m, f)) /\ SegsOf(m, f) \in Seq(Segment)
        BY <1>1, <4>3, LogIs DEF SegsOf
      <4>5. \E i \in 1..Len(SegsOf(m, f)) : SegsOf(m, f)[i] = s
        BY <4>4 DEF ToSet
      <4>6. \E k \in 1..Len(Gone(m, f)) : Gone(m, f)[k] = s
        BY <3>4, <4>4, <4>5, WithinIs DEF Gone
      <4>7. PICK k \in 1..Len(Gone(m, f)) : Gone(m, f)[k] = s
        BY <4>6
      <4>8. Gone(m, f) \in Seq(Segment)
        BY <1>1, KeptGone
      <4> DEFINE ss == Spans(Gone(m, f), f)
      <4>9. ss \in Seq(Seq(Line)) /\ Len(ss) = Len(Gone(m, f)) /\ ss[k] = s.spans[f]
        <5>1. ss \in Seq(Seq(Line))
          BY <4>8, SpansJoin
        <5> QED BY <4>7, <4>8, <5>1 DEF Spans
      <4> HIDE DEF ss
      <4>10. \E i \in 1..Len(ss) : \E j \in 1..Len(ss[i]) : ss[i][j] = x
        <5>1. \E j \in 1..Len(s.spans[f]) : s.spans[f][j] = x
          BY <3>2, <4>1 DEF ToSet
        <5> QED BY <4>7, <4>9, <5>1
      <4>11. \A y : (\E i \in 1..Len(FlattenSeq(ss)) : FlattenSeq(ss)[i] = y)
                      <=> \E i \in 1..Len(ss) : \E j \in 1..Len(ss[i]) : ss[i][j] = y
        BY <4>9, FlatHas
      <4>12. \E i \in 1..Len(FlattenSeq(ss)) : FlattenSeq(ss)[i] = x
        BY <4>10, <4>11
      <4>13. \E j \in 1..Len(SpanOf(m, seen, f)) : SpanOf(m, seen, f)[j] = x
        BY <1>5, <4>12 DEF ss
      <4>14. \E t \in n.live : x \in ToSet(t.spans[f])
        BY <1>4, <4>13
      <4> QED BY <3>2, <4>14
    <3> QED BY <3>3, <3>4
  <2> QED BY <1>2, <2>1, <2>2
<1> QED BY <1>6 DEF Replayable, n

\* Its lines have ids.
LEMMA NextWritten ==
  ASSUME NEW m, NEW seen, NEW blobs, NEW segs, Planned(m, seen, blobs, segs)
  PROVE  /\ LogsWritten(Assembled(m, seen, segs))
         /\ \A f \in Forks :
              LogOf(Assembled(m, seen, segs), f) = LogOf(m, f) \o Sent(m, seen, f)
<1> DEFINE n == Assembled(m, seen, segs)
           in == Inputs(m, seen, blobs)
<1>1. m \in Manifest /\ LogsWritten(m) /\ ReadWhole(seen)
  BY DEF Planned, Packed
<1>2. IsCut(in, segs) /\ in.spans = [f \in Forks |-> SpanOf(m, seen, f)]
  BY PlannedCut
<1>3. n.live = (m.live \ Folded(m)) \cup ToSet(segs)
  BY NextLive
<1> HIDE DEF n, in
<1>4. \A f \in Forks : LogOf(n, f) = LogOf(m, f) \o Sent(m, seen, f)
  BY <1>1, <1>2, LogGrows DEF n
<1>5. \A f \in Forks : LogOf(m, f) \in Seq(Written) /\ Sent(m, seen, f) \in Seq(Written)
  BY <1>1, SentIs DEF LogsWritten
<1>6. \A f \in Forks : LogOf(n, f) \in Seq(Written)
  <2>1. \A l, u \in Seq(Written) : l \o u \in Seq(Written)
    OBVIOUS
  <2> QED BY <1>4, <1>5, <2>1
<1>7. ASSUME NEW f \in Forks PROVE SpanOf(m, seen, f) \in Seq(Written)
  <2>1. Gone(m, f) \in Seq(Segment) /\ SegsOf(m, f) \in Seq(Segment)
    BY <1>1, KeptGone, LogIs
  <2> DEFINE ss == Spans(Gone(m, f), f)
             a == FlattenSeq(Spans(Kept(m, f), f))
             b == FlattenSeq(ss)
  <2>2. a \in Seq(Line) /\ b \in Seq(Line) /\ a \o b \in Seq(Written)
    <3>1. a \in Seq(Line) /\ b \in Seq(Line) /\ LogOf(m, f) = a \o b
      BY <1>1, KeptGone
    <3> QED BY <1>5, <3>1
  <2> HIDE DEF a, b
  <2> DEFINE t == a \o b
  <2>3. /\ Len(t) = Len(a) + Len(b) /\ Len(a) \in Nat /\ Len(b) \in Nat
        /\ \A i \in 1..Len(b) : t[Len(a) + i] = b[i]
    BY <2>2, Joins
  <2>4. t \in Seq(Written)
    BY <2>2
  <2> HIDE DEF t
  <2>5. \A i \in 1..Len(b) : b[i] \in Written
    <3>1. \A i \in 1..Len(b) : Len(a) + i \in 1..Len(t)
      BY <2>3
    <3>2. \A i \in 1..Len(t) : t[i] \in Written
      BY <2>4
    <3> QED BY <2>3, <3>1, <3>2
  <2>6. b \in Seq(Written)
    <3>1. b = [i \in 1..Len(b) |-> b[i]]
      BY <2>2
    <3> QED BY <2>3, <2>5, <3>1
  <2>7. SpanOf(m, seen, f) = b \o Sent(m, seen, f)
    BY <1>1, SpanIs DEF b
  <2> QED BY <1>5, <2>6, <2>7
<1>8. ASSUME NEW s \in n.live, NEW f \in Forks PROVE s.spans[f] \in Seq(Written)
  <2>1. CASE s \in m.live
    BY <1>1, <2>1 DEF LogsWritten
  <2>2. CASE s \in ToSet(segs) /\ s.spans[f] = <<>>
    BY <2>2
  <2>3. CASE s \in ToSet(segs) /\ s.spans[f] # <<>>
    <3>1. s.spans = in.spans
      BY <1>2, <2>3 DEF IsCut
    <3>2. s.spans[f] = SpanOf(m, seen, f)
      BY <1>2, <3>1
    <3> QED BY <1>7, <3>2
  <2> QED BY <1>3, <2>1, <2>2, <2>3
<1> QED BY <1>4, <1>6, <1>8 DEF LogsWritten, n

\* A sequence begins what extends it.
LEMMA Begins1 ==
  ASSUME NEW X, NEW l \in Seq(X), NEW u \in Seq(X)
  PROVE  IsPrefix(l, l \o u)
<1> DEFINE t == l \o u
<1>1. /\ t \in Seq(X) /\ Len(t) = Len(l) + Len(u) /\ Len(l) \in Nat /\ Len(u) \in Nat
      /\ \A i \in 1..Len(l) : t[i] = l[i]
  BY Joins
<1> HIDE DEF t
<1> DEFINE a == SubSeq(l, 1, Len(l))
           b == SubSeq(t, 1, Len(l))
<1>2. /\ a \in Seq(X) /\ b \in Seq(X) /\ Len(a) = Len(l) /\ Len(b) = Len(l)
      /\ \A i \in 1..Len(l) : a[i] = l[i] /\ b[i] = t[i]
  BY <1>1
<1> HIDE DEF a, b
<1>3. a = b
  BY <1>1, <1>2, SameSeq
<1> QED BY <1>1, <1>3 DEF IsPrefix, a, b, t

\* The next manifest is as sound as the one it is made from, and extends it.
LEMMA NextPacked ==
  ASSUME NEW m, NEW seen, NEW blobs, NEW segs, Planned(m, seen, blobs, segs)
  PROVE  /\ Packed(Assembled(m, seen, segs))
         /\ Extends(m, Assembled(m, seen, segs))
         /\ Stored(Assembled(m, seen, segs)) = Stored(m) \cup blobs
<1> DEFINE n == Assembled(m, seen, segs)
           C == Class(m, seen, blobs)
<1>1. m \in Manifest /\ ReadWhole(seen) /\ Ranked(m)
  BY DEF Planned, Packed
<1>2. n \in Manifest /\ Items(n) = Items(m) \cup C
  BY NextLive
<1>3. Packed(n)
  BY <1>2, NextSet, NextNamed, NextRanked, NextReplayable, NextWritten DEF Packed
<1>4. \A b : b \in ToSend(m, blobs) <=> \E e \in C : e.blob = b
  <2>1. PICK d \in [{NoBlob} \cup Stored(m) -> 0..Interval] : Ranks(d, m)
    BY <1>1 DEF Ranked
  <2>2. Sorted(C, m, Pushed(m, seen), ToSend(m, blobs), d)
    BY <2>1, ClassIs
  <2> HIDE DEF C
  <2> QED BY <2>2 DEF Sorted
<1>5. \A f \in Forks : LogOf(n, f) = LogOf(m, f) \o Sent(m, seen, f)
  BY NextWritten
<1>6. \A f \in Forks : LogOf(m, f) \in Seq(Line) /\ Sent(m, seen, f) \in Seq(Line)
  BY <1>1, LogIs, SentIs, LinesAre
<1> HIDE DEF n, C
<1>7. \A f \in Forks : IsPrefix(LogOf(m, f), LogOf(n, f))
  BY <1>5, <1>6, Begins1
<1>8. Stored(n) = Stored(m) \cup ToSend(m, blobs)
  BY <1>2, <1>4 DEF Stored
<1>9. Stored(n) = Stored(m) \cup blobs
  BY <1>8 DEF ToSend
<1> QED BY <1>3, <1>7, <1>9 DEF Extends, n

\* An empty store is sound.
LEMMA EmptyPacked == Packed(EmptyStore) /\ \A f \in Forks : LogOf(EmptyStore, f) = <<>>
<1>1. EmptyStore \in Manifest
  BY DEF EmptyStore, Manifest
<1>2. Items(EmptyStore) = {} /\ Stored(EmptyStore) = {}
  BY DEF EmptyStore, Items, Stored
<1>3. Ranked(EmptyStore)
  <2> DEFINE d == [b \in {NoBlob} |-> 0]
  <2>1. d \in [{NoBlob} \cup Stored(EmptyStore) -> 0..Interval] /\ d[NoBlob] = 0
    BY <1>2, PacksAssumption
  <2> HIDE DEF d
  <2>2. Ranks(d, EmptyStore)
    BY <1>2, <2>1 DEF Ranks
  <2> QED BY <2>1, <2>2 DEF Ranked
<1>4. \A f \in Forks : LogOf(EmptyStore, f) = <<>>
  BY DEF LogOf, EmptyStore
<1>5. LogsWritten(EmptyStore)
  <2>1. EmptyStore.live = {} /\ <<>> \in Seq(Written)
    BY DEF EmptyStore
  <2> QED BY <1>4, <2>1 DEF LogsWritten
<1>6. Named(EmptyStore) /\ EmptyStore.live = {}
  BY DEF Named, EmptyStore
<1> QED BY <1>1, <1>2, <1>3, <1>4, <1>5, <1>6 DEF Packed, IsSet, Replayable

\* A sound manifest loads, and its depths stay within the interval.
LEMMA PackedLoads ==
  ASSUME NEW m, Packed(m)
  PROVE  /\ Loadable(m) /\ DOMAIN LiveDepths(m) = {NoBlob} \cup Stored(m)
         /\ \A b \in DOMAIN LiveDepths(m) : LiveDepths(m)[b] <= Interval
<1>1. PICK d \in [{NoBlob} \cup Stored(m) -> 0..Interval] : Ranks(d, m)
  BY DEF Packed, Ranked
<1>2. LiveDepths(m) = d
  BY <1>1, LiveIs DEF Packed
<1> QED BY <1>2, PacksAssumption DEF Loadable, Packed

-----------------------------------------------------------------------------
(* The invariant of any deployment.                                        *)

Busy == {"read", "reread", "put", "won", "mark"}
Done == {"put", "won", "mark"}

Reads == [anchor : States, head : Nat, log : Seq(Written) \cup {NoFork}]
Seens == UNION {[D -> Reads \cup {NoFork}] : D \in SUBSET Forks}

RepoType ==
  [anchor : [Forks -> States \cup {NoFork}], log : [Forks -> Seq(Written)],
   pool : SUBSET Blobs, cache : Seq(Manifest), synced : [Forks -> Nat \cup {NoFork}]]

PushType ==
  [pc : {"idle", "again", "forget"} \cup Busy, base : Seq(Manifest),
   known : [Forks -> Nat \cup {NoFork}], seen : Seens, segs : Seq(Segment),
   put : Nat, attempt : 1..MaxAttempts]

Typed ==
  /\ repo \in [Repos -> RepoType] /\ push \in [Pushers -> PushType]
  /\ chain \in Seq(Manifest) /\ objects \subseteq Segment \X {"pk", "idx"}
  /\ \A p \in Pushers : push[p].put <= 2 * Len(push[p].segs)
  /\ made \in 0..MaxCommands /\ faults \in 0..MaxFaults

\* A push record x has a fork's head without its log.
Half(x, f) == f \in DOMAIN x.seen /\ x.seen[f] # NoFork /\ x.seen[f].log = NoFork

\* What it has read: heads with their logs, but for one it is about to read;
\* once it has planned, every fork.
Whole(x) ==
  /\ x.pc = "read" => \A f \in Forks : ~Half(x, f)
  /\ x.pc = "reread" => \A f, g \in Forks : Half(x, f) /\ Half(x, g) => f = g
  /\ x.pc \in Done => ReadWhole(x.seen)

\* A chain is sound, and each manifest extends the one before.
ChainSound(c) ==
  /\ \A i \in 1..Len(c) : Packed(c[i])
  /\ \A i \in 1..Len(c) - 1 : Extends(c[i], c[i + 1])

\* A push works on a part of the chain that stays, and what it is about to
\* publish is sound and extends it.
NextOf(x) == Assembled(Latest(x.base), x.seen, x.segs)

Sound(x, c) ==
  /\ x.pc \in Busy => IsPrefix(x.base, c)
  /\ x.pc = "put" => Packed(NextOf(x)) /\ Extends(Latest(x.base), NextOf(x))

\* The forks it lists are in its repository r.
Listing(x, r) ==
  x.pc \in Busy =>
    DOMAIN x.seen # {} /\ \A f \in DOMAIN x.seen : r.anchor[f] # NoFork

StoreInv ==
  /\ Typed /\ ChainSound(chain)
  /\ \A p \in Pushers :
       Whole(push[p]) /\ Sound(push[p], chain) /\ Listing(push[p], repo[Home[p]])

-----------------------------------------------------------------------------
(* Chains.                                                                 *)

\* What a chain and one of its beginnings have in common.
LEMMA PrefixIs ==
  ASSUME NEW X, NEW c \in Seq(X), NEW b \in Seq(X), IsPrefix(b, c)
  PROVE  Len(b) <= Len(c) /\ \A i \in 1..Len(b) : b[i] = c[i]
<1> DEFINE u == SubSeq(b, 1, Len(b))
           v == SubSeq(c, 1, Len(b))
<1>1. u = v /\ Len(b) <= Len(c)
  BY DEF IsPrefix
<1>2. /\ \A i \in 1..Len(b) : u[i] = b[i]
      /\ \A i \in 1..Len(b) : v[i] = c[i]
  BY <1>1
<1> QED BY <1>1, <1>2

\* And conversely.
LEMMA PrefixOf ==
  ASSUME NEW X, NEW c \in Seq(X), NEW b \in Seq(X),
         Len(b) <= Len(c), \A i \in 1..Len(b) : b[i] = c[i]
  PROVE  IsPrefix(b, c)
<1> DEFINE u == SubSeq(b, 1, Len(b))
           v == SubSeq(c, 1, Len(b))
<1>1. /\ u \in Seq(X) /\ v \in Seq(X) /\ Len(u) = Len(b) /\ Len(v) = Len(b)
      /\ \A i \in 1..Len(b) : u[i] = b[i] /\ v[i] = c[i]
  OBVIOUS
<1> HIDE DEF u, v
<1>2. u = v
  BY <1>1, SameSeq
<1> QED BY <1>2 DEF IsPrefix, u, v

\* A beginning of a beginning.
LEMMA PrefixTrans ==
  ASSUME NEW X, NEW a \in Seq(X), NEW b \in Seq(X), NEW c \in Seq(X),
         IsPrefix(a, b), IsPrefix(b, c)
  PROVE  IsPrefix(a, c)
<1>1. Len(a) <= Len(b) /\ \A i \in 1..Len(a) : a[i] = b[i]
  BY PrefixIs
<1>2. Len(b) <= Len(c) /\ \A i \in 1..Len(b) : b[i] = c[i]
  BY PrefixIs
<1>3. Len(a) \in Nat /\ Len(b) \in Nat /\ Len(c) \in Nat
  OBVIOUS
<1>4. Len(a) <= Len(c) /\ \A i \in 1..Len(a) : a[i] = c[i]
  BY <1>1, <1>2, <1>3
<1> QED BY <1>4, PrefixOf

\* The last manifest of a sound chain is sound.
LEMMA LatestPacked ==
  ASSUME NEW c \in Seq(Manifest), ChainSound(c)
  PROVE  Packed(Latest(c)) /\ Latest(c) \in Manifest
<1>1. CASE c = <<>>
  BY <1>1, EmptyPacked DEF Latest, Packed
<1>2. CASE c # <<>>
  <2>1. Len(c) \in 1..Len(c) /\ Latest(c) = c[Len(c)]
    BY <1>2 DEF Latest
  <2> QED BY <2>1 DEF ChainSound, Packed
<1> QED BY <1>1, <1>2

\* A beginning of a sound chain is one.
LEMMA PrefixSound ==
  ASSUME NEW c \in Seq(Manifest), ChainSound(c), NEW b \in Seq(Manifest), IsPrefix(b, c)
  PROVE  ChainSound(b)
<1>1. Len(b) <= Len(c) /\ \A i \in 1..Len(b) : b[i] = c[i]
  BY PrefixIs
<1>2. Len(b) \in Nat /\ Len(c) \in Nat
  OBVIOUS
<1>3. \A i \in 1..Len(b) : i \in 1..Len(c)
  BY <1>1, <1>2
<1>4. \A i \in 1..Len(b) - 1 : i \in 1..Len(c) - 1 /\ i \in 1..Len(b) /\ i + 1 \in 1..Len(b)
  BY <1>1, <1>2
<1> QED BY <1>1, <1>3, <1>4 DEF ChainSound

\* The last manifest of a sound chain extends each one before.
LEMMA LatestExtends ==
  ASSUME NEW c \in Seq(Manifest), ChainSound(c), NEW b \in Seq(Manifest), IsPrefix(b, c)
  PROVE  Extends(Latest(b), Latest(c))
<1>1. Len(b) <= Len(c) /\ \A i \in 1..Len(b) : b[i] = c[i]
  BY PrefixIs
<1>2. Len(b) \in Nat /\ Len(c) \in Nat
  OBVIOUS
<1>3. \A m \in Manifest : \A f \in Forks : LogOf(m, f) \in Seq(Line)
  BY LogIs
<1>4. Packed(Latest(c)) /\ Latest(c) \in Manifest
  BY LatestPacked
<1>5. CASE b = <<>>
  <2>1. Latest(b) = EmptyStore /\ \A f \in Forks : LogOf(EmptyStore, f) = <<>>
    BY <1>5, EmptyPacked DEF Latest
  <2>2. Stored(EmptyStore) = {}
    BY DEF EmptyStore, Stored, Items
  <2>3. \A l \in Seq(Line) : IsPrefix(<<>>, l)
    <3> TAKE l \in Seq(Line)
    <3>1. <<>> \in Seq(Line) /\ Len(<<>>) = 0 /\ 0 <= Len(l) /\ \A i \in 1..0 : FALSE
      OBVIOUS
    <3> QED BY <3>1, PrefixOf
  <2> QED BY <1>3, <1>4, <2>1, <2>2, <2>3 DEF Extends
<1>6. CASE b # <<>>
  <2> DEFINE S == {k \in Nat : Len(b) + k \in 1..Len(c) => Extends(c[Len(b)], c[Len(b) + k])}
  <2>1. Len(b) \in 1..Len(c) /\ Len(b) \in 1..Len(b)
    BY <1>1, <1>2, <1>6
  <2>2. \A i \in 1..Len(c) : c[i] \in Manifest
    OBVIOUS
  <2>3. ASSUME NEW m \in Manifest PROVE Extends(m, m)
    <3>1. \A f \in Forks : IsPrefix(LogOf(m, f), LogOf(m, f))
      BY <1>3, PrefixOf
    <3> QED BY <3>1 DEF Extends
  <2>4. 0 \in S
    BY <1>2, <2>1, <2>2, <2>3
  <2>5. ASSUME NEW k \in Nat, k \in S PROVE k + 1 \in S
    <3> SUFFICES ASSUME Len(b) + (k + 1) \in 1..Len(c)
                 PROVE  Extends(c[Len(b)], c[Len(b) + (k + 1)])
      OBVIOUS
    <3> DEFINE i == Len(b) + k
    <3>1. i \in 1..Len(c) /\ i \in 1..Len(c) - 1 /\ Len(b) + (k + 1) = i + 1 /\ i + 1 \in 1..Len(c)
      BY <1>2, <2>1
    <3>2. Extends(c[Len(b)], c[i])
      BY <2>5, <3>1
    <3> HIDE DEF i
    <3>3. Extends(c[i], c[i + 1])
      BY <3>1 DEF ChainSound
    <3>4. c[Len(b)] \in Manifest /\ c[i] \in Manifest /\ c[i + 1] \in Manifest
      BY <2>1, <2>2, <3>1
    <3>5. \A f \in Forks : IsPrefix(LogOf(c[Len(b)], f), LogOf(c[i + 1], f))
      BY <1>3, <3>2, <3>3, <3>4, PrefixTrans DEF Extends
    <3>6. Extends(c[Len(b)], c[i + 1])
      BY <3>2, <3>3, <3>5 DEF Extends
    <3> QED BY <3>1, <3>6
  <2>6. Nat \subseteq S
    <3> HIDE DEF S
    <3> QED BY <2>4, <2>5, Induction
  <2>7. Len(c) - Len(b) \in Nat /\ Len(b) + (Len(c) - Len(b)) = Len(c) /\ Len(c) \in 1..Len(c)
    BY <1>1, <1>2, <2>1
  <2>8. Extends(c[Len(b)], c[Len(c)])
    BY <2>6, <2>7
  <2>9. Latest(b) = c[Len(b)] /\ Latest(c) = c[Len(c)]
    BY <1>1, <1>6, <2>1 DEF Latest
  <2> QED BY <2>8, <2>9
<1> QED BY <1>5, <1>6
-----------------------------------------------------------------------------
(* The store's invariant is inductive.                                     *)

\* A push starts from nothing.
LEMMA NoPushTyped ==
  /\ NoPush \in PushType /\ NoPush.put <= 2 * Len(NoPush.segs) /\ Whole(NoPush)
  /\ \A c : Sound(NoPush, c)
  /\ \A r : Listing(NoPush, r)
  /\ NoPush.pc = "idle" /\ NoPush.attempt = 1
<1>1. NoPush = [pc |-> "idle", base |-> <<>>, known |-> NoRepo.synced, seen |-> <<>>,
                segs |-> <<>>, put |-> 0, attempt |-> 1]
  BY DEF NoPush
<1>2. NoRepo.synced \in [Forks -> Nat \cup {NoFork}]
  BY DEF NoRepo
<1>3. <<>> \in Seens
  <2>1. <<>> \in [{} -> Reads \cup {NoFork}]
    OBVIOUS
  <2> QED BY <2>1 DEF Seens
<1>4. <<>> \in Seq(Manifest) /\ <<>> \in Seq(Segment) /\ Len(<<>>) = 0
  OBVIOUS
<1>5. 1 \in 1..MaxAttempts
  BY WireAssumption
<1>6. NoPush \in PushType
  BY <1>1, <1>2, <1>3, <1>4, <1>5 DEF PushType
<1>7. NoPush.pc = "idle" /\ NoPush.put = 0 /\ NoPush.segs = <<>> /\ NoPush.attempt = 1
  BY <1>1
<1> QED BY <1>4, <1>6, <1>7 DEF Whole, Sound, Listing, Busy, Done

\* It holds to begin with.
LEMMA StoreInit == Init => StoreInv
<1> SUFFICES ASSUME Init PROVE StoreInv
  OBVIOUS
<1>1. NoRepo \in RepoType
  <2>1. <<>> \in Seq(Written) /\ <<>> \in Seq(Manifest) /\ {} \in SUBSET Blobs
    OBVIOUS
  <2>2. [f \in Forks |-> <<>>] \in [Forks -> Seq(Written)]
    BY <2>1
  <2> QED BY <2>1, <2>2 DEF NoRepo, RepoType
<1>2. repo \in [Repos -> RepoType]
  BY <1>1 DEF Init
<1>3. push \in [Pushers -> PushType] /\ \A p \in Pushers : push[p] = NoPush
  BY NoPushTyped DEF Init
<1>4. Typed
  BY <1>2, <1>3, NoPushTyped, WireAssumption DEF Init, Typed
<1>5. ChainSound(chain)
  BY DEF Init, ChainSound
<1> QED BY <1>3, <1>4, <1>5, NoPushTyped DEF StoreInv

\* What a push has read is of a fork, and typed.
LEMMA SeenIs ==
  ASSUME NEW x \in PushType
  PROVE  /\ DOMAIN x.seen \subseteq Forks
         /\ \A f \in DOMAIN x.seen : x.seen[f] \in Reads \cup {NoFork}
         /\ x.seen = [f \in DOMAIN x.seen |-> x.seen[f]]
<1>1. PICK D \in SUBSET Forks : x.seen \in [D -> Reads \cup {NoFork}]
  BY DEF PushType, Seens
<1> QED BY <1>1

\* A command on a repository does not touch the store or a push.
LEMMA StoreLocal ==
  ASSUME StoreInv, UNCHANGED Local, repo' \in [Repos -> RepoType], made' \in 0..MaxCommands,
         \A r \in Repos, f \in Forks : repo[r].anchor[f] # NoFork => repo'[r].anchor[f] # NoFork
  PROVE  StoreInv'
<1>1. chain' = chain /\ objects' = objects /\ push' = push /\ faults' = faults
  BY DEF Local
<1>2. Typed'
  BY <1>1 DEF StoreInv, Typed
<1>3. ASSUME NEW p \in Pushers PROVE Listing(push[p], repo[Home[p]])'
  <2>1. push[p].pc \in Busy => DOMAIN push[p].seen # {} /\ DOMAIN push[p].seen \subseteq Forks
    BY SeenIs DEF StoreInv, Typed, Listing
  <2> QED BY <1>1, <2>1, WireAssumption DEF StoreInv, Listing
<1> QED BY <1>1, <1>2, <1>3 DEF StoreInv

\* A push moves on: what matters is where it gets.
LEMMA StorePush ==
  ASSUME StoreInv, NEW p \in Pushers, NEW x \in PushType, push' = [push EXCEPT ![p] = x],
         x.put <= 2 * Len(x.segs), Whole(x), Sound(x, chain), Listing(x, repo[Home[p]]),
         \A r \in Repos : repo'[r].anchor = repo[r].anchor,
         chain' = chain, repo' \in [Repos -> RepoType], objects' \subseteq Segment \X {"pk", "idx"},
         made' = made, faults' \in 0..MaxFaults
  PROVE  StoreInv'
<1>1. push \in [Pushers -> PushType]
  BY DEF StoreInv, Typed
<1>2. /\ push' \in [Pushers -> PushType] /\ push'[p] = x
      /\ \A q \in Pushers : q # p => push'[q] = push[q]
  BY <1>1
<1>3. Typed'
  BY <1>2 DEF StoreInv, Typed
<1>4. ChainSound(chain)'
  BY DEF StoreInv
<1>5. \A q \in Pushers : (Whole(push[q]) /\ Sound(push[q], chain))'
  BY <1>2 DEF StoreInv
<1>6. \A q \in Pushers : Listing(push[q], repo[Home[q]])'
  BY <1>2, WireAssumption DEF StoreInv, Listing
<1> QED BY <1>3, <1>4, <1>5, <1>6 DEF StoreInv

\* The state a log has led to.
LEMMA StateIs ==
  ASSUME Typed, NEW r \in Repos, NEW f \in ForksOf(r)
  PROVE  f \in Forks /\ StateOf(r, f) \in States
<1> DEFINE l == repo[r].log[f]
<1>1. repo[r] \in RepoType /\ f \in Forks /\ repo[r].anchor[f] # NoFork
  BY DEF Typed, ForksOf
<1>2. l \in Seq(Written) /\ repo[r].anchor[f] \in States
  BY <1>1 DEF RepoType
<1> HIDE DEF l
<1>3. l # <<>> => l[Len(l)] \in Line
  BY <1>2 DEF Written
<1> QED BY <1>1, <1>2, <1>3 DEF StateOf, Line, l

\* A log's head is a number, and names its last line.
LEMMA HeadIs ==
  ASSUME NEW l \in Seq(Written)
  PROVE  /\ HeadOf(l) \in Nat /\ (HeadOf(l) = NoId <=> l = <<>>)
         /\ l # <<>> => Len(l) \in 1..Len(l) /\ HeadOf(l) = l[Len(l)].id
<1>1. l # <<>> => Len(l) \in 1..Len(l) /\ l[Len(l)] \in Written
  OBVIOUS
<1> QED BY <1>1 DEF HeadOf, NoId, Written, Line

\* tally init.
LEMMA StoreCreate ==
  ASSUME StoreInv, NEW r \in Repos, NEW b \in Seeds, Create(r, b)
  PROVE  StoreInv'
<1>1. repo \in [Repos -> RepoType] /\ made \in 0..MaxCommands /\ MaxCommands \in Nat
  BY WireAssumption DEF StoreInv, Typed
<1>2. b \in States /\ Main \in Forks
  BY WireAssumption
<1> DEFINE x == [id |-> made + 1, prev |-> NoId, old |-> b, new |-> b]
           l == IF b = NoBlob THEN <<>> ELSE <<x>>
<1>3. x \in Written
  BY <1>1, <1>2 DEF Written, Line, NoId
<1>4. l \in Seq(Written) /\ {b} \ {NoBlob} \in SUBSET Blobs
  BY <1>2, <1>3 DEF States
<1>5. repo' = [repo EXCEPT ![r].anchor[Main] = b, ![r].log[Main] = l, ![r].pool = {b} \ {NoBlob}]
  BY DEF Create
<1> HIDE DEF l, x
<1>6. repo' \in [Repos -> RepoType]
  BY <1>1, <1>2, <1>4, <1>5 DEF RepoType
<1>7. made' \in 0..MaxCommands
  BY <1>1 DEF Create, Counted
<1>8. \A q \in Repos, f \in Forks : repo[q].anchor[f] # NoFork => repo'[q].anchor[f] # NoFork
  BY <1>1, <1>2, <1>5, NoForkAssumption DEF RepoType
<1> QED BY <1>6, <1>7, <1>8, StoreLocal DEF Create

\* A command that appends a line.
LEMMA StoreApply ==
  ASSUME StoreInv, NEW r \in Repos, NEW f \in Forks, NEW b \in States, Apply(r, f, b)
  PROVE  StoreInv'
<1>1. repo \in [Repos -> RepoType] /\ made \in 0..MaxCommands /\ MaxCommands \in Nat
  BY WireAssumption DEF StoreInv, Typed
<1> DEFINE l == repo[r].log[f]
           x == [id |-> made + 1, prev |-> HeadOf(l), old |-> StateOf(r, f), new |-> b]
<1>2. l \in Seq(Written)
  BY <1>1 DEF RepoType
<1>3. HeadOf(l) \in Nat /\ StateOf(r, f) \in States
  BY <1>2, HeadIs, StateIs DEF Apply, StoreInv
<1>4. x \in Written
  BY <1>1, <1>3 DEF Written, Line, NoId
<1>5. Append(l, x) \in Seq(Written)
  BY <1>2, <1>4
<1>6. repo' = [repo EXCEPT ![r].log[f] = Append(l, x), ![r].pool = @ \cup ({b} \ {NoBlob})]
  BY DEF Apply
<1>7. {b} \ {NoBlob} \in SUBSET Blobs
  BY DEF States
<1> HIDE DEF l, x
<1>8. repo' \in [Repos -> RepoType]
  BY <1>1, <1>5, <1>6, <1>7 DEF RepoType
<1>9. made' \in 0..MaxCommands
  BY <1>1 DEF Apply, Counted
<1>10. \A q \in Repos : repo'[q].anchor = repo[q].anchor
  BY <1>1, <1>6 DEF RepoType
<1> QED BY <1>8, <1>9, <1>10, StoreLocal DEF Apply

\* tally fork and tally snapshot.
LEMMA StoreAnchor ==
  ASSUME StoreInv, NEW r \in Repos, NEW f \in Forks,
         (\E g \in Forks : Fork(r, f, g)) \/ Snapshot(r, f)
  PROVE  StoreInv'
<1>1. repo \in [Repos -> RepoType] /\ made \in 0..MaxCommands /\ MaxCommands \in Nat
  BY WireAssumption DEF StoreInv, Typed
<1>2. PICK g \in ForksOf(r) : repo' = [repo EXCEPT ![r].anchor[f] = StateOf(r, g)]
  BY DEF Fork, Snapshot
<1>3. StateOf(r, g) \in States
  BY StateIs DEF StoreInv
<1>4. repo' \in [Repos -> RepoType]
  BY <1>1, <1>2, <1>3 DEF RepoType
<1>5. made' \in 0..MaxCommands
  BY <1>1 DEF Fork, Snapshot, Counted
<1>6. UNCHANGED Local
  BY DEF Fork, Snapshot
<1>7. \A q \in Repos, h \in Forks : repo[q].anchor[h] # NoFork => repo'[q].anchor[h] # NoFork
  BY <1>1, <1>2, <1>3, NoForkAssumption DEF RepoType
<1> QED BY <1>4, <1>5, <1>6, <1>7, StoreLocal

\* clone.
LEMMA StoreClone ==
  ASSUME StoreInv, NEW r \in Repos, Clone(r)
  PROVE  StoreInv'
<1> DEFINE m == Latest(chain)
           new == [anchor |-> [f \in Forks |-> IF m.forks[f] = NoFork THEN NoFork
                                               ELSE m.forks[f].anchor],
                   log |-> [f \in Forks |-> LogOf(m, f)],
                   pool |-> Stored(m),
                   cache |-> chain,
                   synced |-> [f \in Forks |-> IF m.forks[f] = NoFork THEN NoFork
                                               ELSE m.forks[f].head]]
<1>1. repo \in [Repos -> RepoType] /\ made \in 0..MaxCommands /\ chain \in Seq(Manifest)
  BY DEF StoreInv, Typed
<1>2. Packed(m) /\ m \in Manifest
  BY <1>1, LatestPacked DEF StoreInv
<1>3. repo' = [repo EXCEPT ![r] = new] /\ made' = made /\ UNCHANGED Local
  BY DEF Clone
<1> HIDE DEF m
<1>4. \A f \in Forks : m.forks[f] # NoFork =>
        m.forks[f].anchor \in States /\ m.forks[f].head \in Nat
  BY <1>2 DEF Manifest, ForkHead
<1>5. \A f \in Forks : LogOf(m, f) \in Seq(Written)
  BY <1>2 DEF Packed, LogsWritten
<1>6. Stored(m) \subseteq Blobs
  BY <1>2 DEF Stored, Items, Manifest, Segment, Item
<1>7. new \in RepoType
  BY <1>1, <1>4, <1>5, <1>6 DEF RepoType
<1> HIDE DEF new
<1>8. repo' \in [Repos -> RepoType]
  BY <1>1, <1>3, <1>7
<1>9. \A q \in Repos, f \in Forks : repo[q].anchor[f] # NoFork => repo'[q].anchor[f] # NoFork
  BY <1>1, <1>3 DEF Clone, ForksOf
<1> QED BY <1>1, <1>3, <1>8, <1>9, StoreLocal

\* What a push has when it moves.
LEMMA PushIs ==
  ASSUME StoreInv, NEW p \in Pushers
  PROVE  /\ push[p] \in PushType /\ repo[Home[p]] \in RepoType /\ Home[p] \in Repos
         /\ push[p].put <= 2 * Len(push[p].segs) /\ Whole(push[p]) /\ Sound(push[p], chain)
         /\ repo \in [Repos -> RepoType] /\ push \in [Pushers -> PushType]
         /\ chain \in Seq(Manifest) /\ objects \subseteq Segment \X {"pk", "idx"}
         /\ made \in 0..MaxCommands /\ faults \in 0..MaxFaults
         /\ push[p].base \in Seq(Manifest) /\ push[p].segs \in Seq(Segment)
  BY WireAssumption DEF StoreInv, Typed, PushType

\* Once every fork has been read, what was read is whole.
LEMMA ReadIsWhole ==
  ASSUME StoreInv, NEW p \in Pushers, Read(p)
  PROVE  ReadWhole(push[p].seen)
<1> DEFINE x == push[p]
<1>1. x \in PushType /\ Whole(x) /\ x.pc = "read"
  BY PushIs DEF Read
<1>2. /\ DOMAIN x.seen \subseteq Forks
      /\ \A f \in DOMAIN x.seen : x.seen[f] \in Reads \cup {NoFork}
  BY <1>1, SeenIs
<1>3. ASSUME NEW f \in DOMAIN x.seen PROVE x.seen[f] # NoFork
  <2>1. f \in ToSet(Names) /\ Names \in Seq(Forks)
    BY <1>2, PacksAssumption DEF Forks
  <2>2. PICK i \in DOMAIN Names : Names[i] = f
    BY <2>1 DEF ToSet
  <2>3. i \notin Unread(p)
    BY DEF Read
  <2> QED BY <2>2, <2>3 DEF Unread
<1>4. \A f \in DOMAIN x.seen : x.seen[f].log # NoFork
  BY <1>1, <1>2, <1>3 DEF Whole, Half
<1>5. \A f \in DOMAIN x.seen : x.seen[f] \in [anchor : States, head : Nat, log : Seq(Written)]
  BY <1>2, <1>3, <1>4 DEF Reads
<1> QED BY <1>2, <1>5 DEF ReadWhole

\* A push that only stops or begins again is at one of these.
LEMMA StoreRest ==
  ASSUME StoreInv, NEW p \in Pushers, NEW x \in PushType, push' = [push EXCEPT ![p] = x],
         x.put <= 2 * Len(x.segs), x.pc \in {"idle", "again", "forget"},
         \A r \in Repos : repo'[r].anchor = repo[r].anchor,
         chain' = chain, repo' \in [Repos -> RepoType], objects' = objects,
         made' = made, faults' \in 0..MaxFaults
  PROVE  StoreInv'
<1>1. Whole(x) /\ Sound(x, chain) /\ Listing(x, repo[Home[p]])
  BY DEF Whole, Sound, Listing, Busy, Done
<1>2. objects' \subseteq Segment \X {"pk", "idx"}
  BY PushIs
<1> QED BY <1>1, <1>2, StorePush

\* A cache file is rewritten.
LEMMA CacheTyped ==
  ASSUME NEW rs \in [Repos -> RepoType], NEW r \in Repos
  PROVE  /\ \A c \in Seq(Manifest) :
              /\ [rs EXCEPT ![r].cache = c] \in [Repos -> RepoType]
              /\ \A q \in Repos : [rs EXCEPT ![r].cache = c][q].anchor = rs[q].anchor
         /\ \A s \in [Forks -> Nat \cup {NoFork}] :
              /\ [rs EXCEPT ![r].synced = s] \in [Repos -> RepoType]
              /\ \A q \in Repos : [rs EXCEPT ![r].synced = s][q].anchor = rs[q].anchor
  BY DEF RepoType

\* What Plan::synced marks.
LEMMA MarkedIs ==
  ASSUME StoreInv, NEW p \in Pushers, ReadWhole(push[p].seen)
  PROVE  Marked(p) \in [Forks -> Nat \cup {NoFork}]
<1>1. repo[Home[p]].synced \in [Forks -> Nat \cup {NoFork}]
  BY PushIs DEF RepoType
<1>2. \A f \in DOMAIN push[p].seen : push[p].seen[f].head \in Nat
  BY DEF ReadWhole
<1> QED BY <1>1, <1>2 DEF Marked

\* discover.
LEMMA StoreFind ==
  ASSUME StoreInv, NEW p \in Pushers, Find(p)
  PROVE  StoreInv'
<1> DEFINE r == Home[p]
           x == [push[p] EXCEPT !.pc = "read", !.base = chain, !.known = repo[r].synced,
                                !.seen = [f \in ForksOf(r) |-> NoFork]]
<1>1. repo' \in [Repos -> RepoType] /\ \A q \in Repos : repo'[q].anchor = repo[q].anchor
  BY PushIs, CacheTyped DEF Find
<1>2. /\ chain' = chain /\ objects' = objects /\ made' = made /\ faults' = faults
      /\ faults \in 0..MaxFaults
  BY PushIs DEF Find, Step
<1>3. CASE ~Loadable(Latest(chain))
  <2>1. push' = [push EXCEPT ![p] = NoPush]
    BY <1>3 DEF Find, Step
  <2> QED BY <1>1, <1>2, <2>1, NoPushTyped, StoreRest
<1>4. CASE Loadable(Latest(chain))
  <2>1. push' = [push EXCEPT ![p] = x]
    BY <1>4 DEF Find, Step
  <2>2. [f \in ForksOf(r) |-> NoFork] \in Seens
    <3> DEFINE D == ForksOf(r)
    <3>1. D \in SUBSET Forks
      BY DEF ForksOf
    <3> HIDE DEF D
    <3>2. [f \in D |-> NoFork] \in [D -> Reads \cup {NoFork}]
      OBVIOUS
    <3>3. [f \in D |-> NoFork] \in Seens
      BY <3>1, <3>2 DEF Seens
    <3> QED BY <3>3 DEF D
  <2>3. repo[r].synced \in [Forks -> Nat \cup {NoFork}]
    BY PushIs DEF RepoType
  <2>4. x \in PushType
    BY <2>2, <2>3, PushIs DEF PushType, Busy
  <2>5. /\ x.pc = "read" /\ x.base = chain /\ x.put = push[p].put /\ x.segs = push[p].segs
        /\ x.seen = [f \in ForksOf(r) |-> NoFork]
    BY PushIs DEF PushType
  <2> HIDE DEF x
  <2>6. Whole(x)
    BY <2>5 DEF Whole, Half, Done
  <2>7. Sound(x, chain)
    BY <2>5, PushIs, PrefixOf DEF Sound
  <2>8. Listing(x, repo[r])
    BY <2>5 DEF Listing, Find, Begins, ForksOf
  <2> QED BY <1>1, <1>2, <2>1, <2>4, <2>5, <2>6, <2>7, <2>8, PushIs, StorePush
<1> QED BY <1>3, <1>4

\* RemoteCache::invalidate.
LEMMA StoreForget ==
  ASSUME StoreInv, NEW p \in Pushers, Forget(p) \/ ForgetSynced(p)
  PROVE  StoreInv'
<1>1. repo' \in [Repos -> RepoType] /\ \A q \in Repos : repo'[q].anchor = repo[q].anchor
  <2>1. <<>> \in Seq(Manifest) /\ NoRepo.synced \in [Forks -> Nat \cup {NoFork}]
    BY DEF NoRepo
  <2>2. Home[p] \in Repos /\ repo \in [Repos -> RepoType]
    BY PushIs
  <2>3. CASE Forget(p)
    <3>1. repo' = [repo EXCEPT ![Home[p]].cache = <<>>]
      BY <2>3 DEF Forget
    <3>2. \A c \in Seq(Manifest) :
            /\ [repo EXCEPT ![Home[p]].cache = c] \in [Repos -> RepoType]
            /\ \A q \in Repos : [repo EXCEPT ![Home[p]].cache = c][q].anchor = repo[q].anchor
      BY <2>2, CacheTyped
    <3> QED BY <2>1, <3>1, <3>2
  <2>4. CASE ForgetSynced(p)
    <3>1. repo' = [repo EXCEPT ![Home[p]].synced = NoRepo.synced]
      BY <2>4 DEF ForgetSynced
    <3>2. \A s \in [Forks -> Nat \cup {NoFork}] :
            /\ [repo EXCEPT ![Home[p]].synced = s] \in [Repos -> RepoType]
            /\ \A q \in Repos : [repo EXCEPT ![Home[p]].synced = s][q].anchor = repo[q].anchor
      BY <2>2, CacheTyped
    <3> QED BY <2>1, <3>1, <3>2
  <2> QED BY <2>3, <2>4
<1>2. /\ chain' = chain /\ objects' = objects /\ made' = made /\ faults' = faults
      /\ faults \in 0..MaxFaults
  BY PushIs DEF Forget, ForgetSynced, Step
<1>3. PICK pc \in {"forget", "again"} : push' = [push EXCEPT ![p] = [push[p] EXCEPT !.pc = pc]]
  BY DEF Forget, ForgetSynced, Step
<1> DEFINE x == [push[p] EXCEPT !.pc = pc]
<1>4. x \in PushType /\ x.pc = pc /\ x.put <= 2 * Len(x.segs)
  BY PushIs DEF PushType
<1> HIDE DEF x
<1> QED BY <1>1, <1>2, <1>3, <1>4, StoreRest DEF x

\* plan: a fork's anchor and head.
LEMMA ReadStateIs ==
  ASSUME StoreInv, NEW p \in Pushers, ReadState(p)
  PROVE  \E f \in DOMAIN push[p].seen :
           /\ push[p].seen[f] = NoFork
           /\ push' = [push EXCEPT ![p] = [push[p] EXCEPT !.pc = "reread",
                !.seen[f] = [anchor |-> repo[Home[p]].anchor[f],
                             head |-> HeadOf(repo[Home[p]].log[f]), log |-> NoFork]]]
<1>1. Unread(p) \subseteq Nat
  BY PacksAssumption DEF Unread
<1>2. Min(Unread(p)) \in Unread(p)
  BY <1>1, MinIn DEF ReadState
<1> DEFINE f == Names[Min(Unread(p))]
<1>3. f \in DOMAIN push[p].seen /\ push[p].seen[f] = NoFork
  BY <1>2 DEF Unread
<1> QED BY <1>3 DEF ReadState, Step

\* A push reads the next fork's anchor and head.
LEMMA StoreReadState ==
  ASSUME StoreInv, NEW p \in Pushers, ReadState(p)
  PROVE  StoreInv'
<1>1. PICK f \in DOMAIN push[p].seen :
        /\ push[p].seen[f] = NoFork
        /\ push' = [push EXCEPT ![p] = [push[p] EXCEPT !.pc = "reread",
             !.seen[f] = [anchor |-> repo[Home[p]].anchor[f],
                          head |-> HeadOf(repo[Home[p]].log[f]), log |-> NoFork]]]
  BY ReadStateIs
<1> DEFINE s == [anchor |-> repo[Home[p]].anchor[f],
                 head |-> HeadOf(repo[Home[p]].log[f]), log |-> NoFork]
           x == [push[p] EXCEPT !.pc = "reread", !.seen[f] = s]
           new == [push[p].seen EXCEPT ![f] = s]
<1>2. /\ push[p] \in PushType /\ Whole(push[p]) /\ Sound(push[p], chain)
      /\ Listing(push[p], repo[Home[p]]) /\ push[p].pc = "read"
  BY PushIs DEF StoreInv, ReadState
<1>3. f \in Forks /\ repo[Home[p]].anchor[f] # NoFork
  BY <1>2, SeenIs DEF Listing, Busy
<1>4. repo[Home[p]].log[f] \in Seq(Written) /\ repo[Home[p]].anchor[f] \in States
  BY <1>3, PushIs DEF RepoType
<1>5. s \in Reads /\ s.log = NoFork
  BY <1>4, HeadIs DEF Reads
<1>6. s # NoFork
  BY <1>5, WireAssumption, LinesAre DEF Reads, Reading
<1> HIDE DEF s
<1>7. new \in Seens /\ DOMAIN new = DOMAIN push[p].seen
  <2>1. PICK D \in SUBSET Forks : push[p].seen \in [D -> Reads \cup {NoFork}]
    BY <1>2 DEF PushType, Seens
  <2>2. new \in [D -> Reads \cup {NoFork}]
    BY <1>5, <2>1
  <2> QED BY <2>1, <2>2 DEF Seens
<1>8. \A g \in DOMAIN new : new[g] = IF g = f THEN s ELSE push[p].seen[g]
  BY <1>7
<1>9. x \in PushType /\ x = [push[p] EXCEPT !.pc = "reread", !.seen = new]
  BY <1>2, <1>7 DEF PushType, Busy
<1>10. /\ x.pc = "reread" /\ x.seen = new /\ x.base = push[p].base /\ x.put = push[p].put
       /\ x.segs = push[p].segs
  BY <1>2, <1>9 DEF PushType
<1> HIDE DEF x, new
<1>11. Whole(x)
  BY <1>2, <1>7, <1>8, <1>10 DEF Whole, Half, Done
<1>12. Sound(x, chain)
  BY <1>2, <1>10 DEF Sound, Busy
<1>13. Listing(x, repo[Home[p]])
  BY <1>2, <1>7, <1>10 DEF Listing, Busy
<1>14. push' = [push EXCEPT ![p] = x] /\ UNCHANGED <<repo, chain, objects, made, faults>>
  BY <1>1 DEF x, s, ReadState, Step
<1> QED BY <1>9, <1>10, <1>11, <1>12, <1>13, <1>14, PushIs, StorePush

\* plan: its log.
LEMMA StoreReadLines ==
  ASSUME StoreInv, NEW p \in Pushers, ReadLines(p)
  PROVE  StoreInv'
<1>1. PICK f \in DOMAIN push[p].seen :
        /\ push[p].seen[f] # NoFork /\ push[p].seen[f].log = NoFork
        /\ push' = [push EXCEPT ![p] = [push[p] EXCEPT !.pc = "read",
                      !.seen[f].log = repo[Home[p]].log[f]]]
  BY DEF ReadLines, Step
<1> DEFINE s == [push[p].seen[f] EXCEPT !.log = repo[Home[p]].log[f]]
           x == [push[p] EXCEPT !.pc = "read", !.seen[f].log = repo[Home[p]].log[f]]
           new == [push[p].seen EXCEPT ![f] = s]
<1>2. /\ push[p] \in PushType /\ Whole(push[p]) /\ Sound(push[p], chain)
      /\ Listing(push[p], repo[Home[p]]) /\ push[p].pc = "reread"
  BY PushIs DEF StoreInv, ReadLines
<1>3. f \in Forks /\ push[p].seen[f] \in Reads
  BY <1>1, <1>2, SeenIs
<1>4. repo[Home[p]].log[f] \in Seq(Written) /\ repo[Home[p]].log[f] # NoFork
  <2>1. repo[Home[p]].log[f] \in Seq(Written)
    BY <1>3, PushIs DEF RepoType
  <2> QED BY <2>1, LinesAre, WireAssumption
<1>5. s \in Reads /\ s.log # NoFork
  BY <1>3, <1>4 DEF Reads
<1>7. new \in Seens /\ DOMAIN new = DOMAIN push[p].seen
  <2>1. PICK D \in SUBSET Forks : push[p].seen \in [D -> Reads \cup {NoFork}]
    BY <1>2 DEF PushType, Seens
  <2> HIDE DEF s
  <2>2. new \in [D -> Reads \cup {NoFork}]
    BY <1>5, <2>1
  <2> QED BY <2>1, <2>2 DEF Seens
<1>9. x = [push[p] EXCEPT !.pc = "read", !.seen = new]
  OBVIOUS
<1>a. push' = [push EXCEPT ![p] = x] /\ UNCHANGED <<repo, chain, objects, made, faults>>
  BY <1>1 DEF ReadLines, Step
<1> HIDE DEF x, s
<1>8. \A g \in DOMAIN new : new[g] = IF g = f THEN s ELSE push[p].seen[g]
  BY <1>7
<1> HIDE DEF new
<1>10. /\ x.pc = "read" /\ x.seen = new /\ x.base = push[p].base /\ x.put = push[p].put
       /\ x.segs = push[p].segs /\ x \in PushType
  BY <1>2, <1>7, <1>9 DEF PushType, Busy
<1>b. Half(push[p], f)
  BY <1>1 DEF Half
<1>11. Whole(x)
  <2>1. ASSUME NEW g \in Forks, Half(x, g) PROVE FALSE
    <3>1. CASE g = f
      BY <1>5, <1>7, <1>8, <1>10, <2>1, <3>1 DEF Half
    <3>2. CASE g # f
      <4>1. Half(push[p], g)
        BY <1>7, <1>8, <1>10, <2>1, <3>2 DEF Half
      <4> QED BY <1>2, <1>3, <1>b, <3>2, <4>1 DEF Whole
    <3> QED BY <3>1, <3>2
  <2> QED BY <1>10, <2>1 DEF Whole, Done
<1>12. Sound(x, chain)
  BY <1>2, <1>10 DEF Sound, Busy
<1>13. Listing(x, repo[Home[p]])
  BY <1>2, <1>7, <1>10 DEF Listing, Busy
<1> QED BY <1>a, <1>10, <1>11, <1>12, <1>13, PushIs, StorePush

\* A push plans: what it will publish is sound.
LEMMA PlanIs ==
  ASSUME StoreInv, NEW p \in Pushers, Plan(p)
  PROVE  \E segs \in Seq(Segment) :
           /\ push' = [push EXCEPT ![p] = [push[p] EXCEPT !.pc = "put", !.segs = segs, !.put = 0]]
           /\ Planned(Latest(push[p].base), push[p].seen, repo[Home[p]].pool, segs)
           /\ UNCHANGED <<repo, chain, objects, made, faults>>
<1> DEFINE m == Latest(push[p].base)
           blobs == repo[Home[p]].pool
<1>1. PICK segs \in Cuts(Inputs(m, push[p].seen, blobs)) :
        push' = [push EXCEPT ![p] = [push[p] EXCEPT !.pc = "put", !.segs = segs, !.put = 0]]
  BY DEF Plan, Step
<1>2. Sound(push[p], chain) /\ ChainSound(chain) /\ push[p].pc = "read" /\ Read(p)
  BY PushIs DEF StoreInv, Plan, Read
<1>3. ChainSound(push[p].base)
  BY <1>2, PushIs, PrefixSound DEF Sound, Busy
<1>4. Packed(m)
  BY <1>3, PushIs, LatestPacked
<1>5. ReadWhole(push[p].seen)
  BY <1>2, ReadIsWhole
<1>6. blobs \in SUBSET Blobs
  BY PushIs DEF RepoType
<1> HIDE DEF m, blobs
<1>7. Planned(m, push[p].seen, blobs, segs)
  BY <1>1, <1>4, <1>5, <1>6 DEF Planned
<1>8. segs \in Seq(Segment)
  BY <1>7, PlannedCut DEF IsCut
<1> QED BY <1>1, <1>7, <1>8 DEF m, blobs, Plan, Step

\* Planning keeps the invariant.
LEMMA StorePlan ==
  ASSUME StoreInv, NEW p \in Pushers, Plan(p)
  PROVE  StoreInv'
<1>1. PICK segs \in Seq(Segment) :
        /\ push' = [push EXCEPT ![p] = [push[p] EXCEPT !.pc = "put", !.segs = segs, !.put = 0]]
        /\ Planned(Latest(push[p].base), push[p].seen, repo[Home[p]].pool, segs)
        /\ UNCHANGED <<repo, chain, objects, made, faults>>
  BY PlanIs
<1> DEFINE x == [push[p] EXCEPT !.pc = "put", !.segs = segs, !.put = 0]
<1>2. /\ x \in PushType /\ x.pc = "put" /\ x.segs = segs /\ x.put = 0
      /\ x.base = push[p].base /\ x.seen = push[p].seen
  BY PushIs DEF PushType, Busy
<1> HIDE DEF x
<1>3. Packed(NextOf(x)) /\ Extends(Latest(x.base), NextOf(x)) /\ ReadWhole(x.seen)
  BY <1>1, <1>2, NextPacked DEF NextOf, Planned
<1>4. push[p].pc = "read" /\ Sound(push[p], chain) /\ Listing(push[p], repo[Home[p]])
  BY PushIs DEF StoreInv, Plan, Read
<1>5. Whole(x) /\ Sound(x, chain) /\ Listing(x, repo[Home[p]])
  BY <1>2, <1>3, <1>4 DEF Whole, Sound, Listing, Busy, Done
<1>6. x.put <= 2 * Len(x.segs)
  BY <1>2
<1>7. push' = [push EXCEPT ![p] = x]
  BY <1>1 DEF x
<1> QED BY <1>1, <1>2, <1>5, <1>6, <1>7, PushIs, StorePush

\* An object is uploaded.
LEMMA StoreUpload ==
  ASSUME StoreInv, NEW p \in Pushers, Upload(p)
  PROVE  StoreInv'
<1> DEFINE x == [push[p] EXCEPT !.put = @ + 1]
           n == push[p].put
<1>1. /\ push[p] \in PushType /\ n \in Nat /\ n < 2 * Len(push[p].segs)
      /\ push[p].segs \in Seq(Segment)
  BY PushIs DEF Upload, PushType
<1>2. /\ x \in PushType /\ x.put = n + 1 /\ x.segs = push[p].segs /\ x.pc = push[p].pc
      /\ x.base = push[p].base /\ x.seen = push[p].seen
  BY <1>1 DEF PushType
<1> HIDE DEF x
<1>3. x.put <= 2 * Len(x.segs)
  BY <1>1, <1>2
<1>4. Whole(push[p]) /\ Sound(push[p], chain) /\ Listing(push[p], repo[Home[p]])
  BY PushIs DEF StoreInv
<1>5. Whole(x) /\ Sound(x, chain) /\ Listing(x, repo[Home[p]])
  BY <1>2, <1>4 DEF Whole, Half, Sound, Listing, NextOf
<1>6. (n \div 2) + 1 \in 1..Len(push[p].segs)
  BY <1>1
<1>7. objects' \subseteq Segment \X {"pk", "idx"}
  BY <1>1, <1>6, PushIs DEF Upload
<1>8. push' = [push EXCEPT ![p] = x] /\ UNCHANGED <<repo, chain, made, faults>>
  BY DEF Upload, Step, x
<1> QED BY <1>2, <1>3, <1>5, <1>7, <1>8, PushIs, StorePush

\* What a push publishes extends the chain.
LEMMA PublishIs ==
  ASSUME StoreInv, NEW p \in Pushers, Publish(p)
  PROVE  /\ push[p].base = chain /\ chain' = Append(chain, NextOf(push[p]))
         /\ push[p].pc = "put" /\ NextOf(push[p]) \in Manifest
         /\ Packed(NextOf(push[p])) /\ Extends(Latest(chain), NextOf(push[p]))
<1>1. push[p].pc = "put" /\ Len(chain) = Len(push[p].base)
  BY DEF Publish, Uploaded
<1>2. IsPrefix(push[p].base, chain) /\ Packed(NextOf(push[p]))
      /\ Extends(Latest(push[p].base), NextOf(push[p]))
  BY <1>1, PushIs DEF Sound, Busy
<1>3. push[p].base = chain
  <2> DEFINE b == push[p].base
  <2>1. b \in Seq(Manifest) /\ chain \in Seq(Manifest) /\ IsPrefix(b, chain) /\ Len(chain) = Len(b)
    BY <1>1, <1>2, PushIs
  <2> HIDE DEF b
  <2>2. \A i \in 1..Len(b) : b[i] = chain[i]
    BY <2>1, PrefixIs
  <2>3. b = chain
    BY <2>1, <2>2, SameSeq
  <2> QED BY <2>3 DEF b
<1>4. chain' = Append(push[p].base, NextOf(push[p]))
  BY DEF Publish, NextOf
<1> QED BY <1>1, <1>2, <1>3, <1>4 DEF Packed

\* Publishing keeps the invariant.
LEMMA StorePublish ==
  ASSUME StoreInv, NEW p \in Pushers, Publish(p)
  PROVE  StoreInv'
<1> DEFINE n == NextOf(push[p])
           x == [push[p] EXCEPT !.pc = "won", !.base = chain']
<1>1. /\ push[p].base = chain /\ chain' = Append(chain, n)
      /\ push[p].pc = "put" /\ n \in Manifest /\ Packed(n) /\ Extends(Latest(chain), n)
  BY PublishIs
<1>2. /\ chain \in Seq(Manifest) /\ ChainSound(chain) /\ push \in [Pushers -> PushType]
      /\ \A q \in Pushers : push[q] \in PushType
  BY PushIs DEF StoreInv
<1> HIDE DEF n
<1>3. /\ chain' \in Seq(Manifest) /\ Len(chain') = Len(chain) + 1 /\ chain'[Len(chain) + 1] = n
      /\ \A i \in 1..Len(chain) : chain'[i] = chain[i]
  BY <1>1, <1>2
<1>4. ChainSound(chain')
  <2>1. ASSUME NEW i \in 1..Len(chain') PROVE Packed(chain'[i])
    <3>1. i \in 1..Len(chain) \/ i = Len(chain) + 1
      BY <1>2, <1>3
    <3> QED BY <1>1, <1>2, <1>3, <3>1 DEF ChainSound
  <2>2. ASSUME NEW i \in 1..Len(chain') - 1 PROVE Extends(chain'[i], chain'[i + 1])
    <3>1. CASE i = Len(chain)
      <4>1. chain # <<>> /\ Latest(chain) = chain[Len(chain)] /\ Len(chain) \in 1..Len(chain)
        BY <1>2, <3>1 DEF Latest
      <4> QED BY <1>1, <1>3, <3>1, <4>1
    <3>2. CASE i # Len(chain)
      <4>1. i \in 1..Len(chain) - 1 /\ i \in 1..Len(chain) /\ i + 1 \in 1..Len(chain)
        BY <1>2, <1>3, <3>2
      <4> QED BY <1>2, <1>3, <4>1 DEF ChainSound
    <3> QED BY <3>1, <3>2
  <2> QED BY <2>1, <2>2 DEF ChainSound
<1>5. IsPrefix(chain, chain')
  BY <1>2, <1>3, PrefixOf
<1>6. push' = [push EXCEPT ![p] = x] /\ UNCHANGED <<repo, objects, made, faults>>
  BY DEF Publish, Step
<1>7. /\ x \in PushType /\ x.pc = "won" /\ x.base = chain' /\ x.seen = push[p].seen
      /\ x.put = push[p].put /\ x.segs = push[p].segs
  BY <1>2, <1>3 DEF PushType, Busy
<1> HIDE DEF x
<1>8. /\ push' \in [Pushers -> PushType] /\ push'[p] = x
      /\ \A q \in Pushers : q # p => push'[q] = push[q]
  BY <1>2, <1>6, <1>7
<1>9. Typed'
  BY <1>3, <1>6, <1>7, <1>8 DEF StoreInv, Typed
<1>10. ASSUME NEW q \in Pushers
       PROVE  (Whole(push[q]) /\ Sound(push[q], chain) /\ Listing(push[q], repo[Home[q]]))'
  <2>1. Whole(push[q]) /\ Sound(push[q], chain) /\ Listing(push[q], repo[Home[q]])
    BY DEF StoreInv
  <2>2. CASE q = p
    <3>1. Whole(x)
      BY <1>1, <1>7, <2>1, <2>2 DEF Whole, Done
    <3>2. IsPrefix(chain', chain')
      BY <1>3, PrefixOf
    <3>3. Sound(x, chain')
      BY <1>7, <3>2 DEF Sound
    <3>4. Listing(x, repo[Home[q]])
      BY <1>1, <1>7, <2>1, <2>2 DEF Listing, Busy
    <3> QED BY <1>6, <1>8, <2>2, <3>1, <3>3, <3>4
  <2>3. CASE q # p
    <3>1. push[q].pc \in Busy => IsPrefix(push[q].base, chain')
      <4>1. push[q].base \in Seq(Manifest)
        BY <1>2 DEF PushType
      <4> QED BY <1>2, <1>3, <1>5, <2>1, <4>1, PrefixTrans DEF Sound
    <3>2. Sound(push[q], chain')
      BY <2>1, <3>1 DEF Sound
    <3> QED BY <1>6, <1>8, <2>1, <2>3, <3>2
  <2> QED BY <2>2, <2>3
<1>11. ChainSound(chain)'
  BY <1>4
<1> QED BY <1>9, <1>10, <1>11 DEF StoreInv

\* After the commit point, the cached manifest and then the synced heads.
LEMMA StoreRemember ==
  ASSUME StoreInv, NEW p \in Pushers, Remember(p)
  PROVE  StoreInv'
<1> DEFINE x == [push[p] EXCEPT !.pc = "mark"]
<1>1. push[p].pc = "won" /\ push[p] \in PushType
  BY PushIs DEF Remember
<1>2. /\ x \in PushType /\ x.pc = "mark" /\ x.base = push[p].base /\ x.seen = push[p].seen
      /\ x.put = push[p].put /\ x.segs = push[p].segs
  BY <1>1 DEF PushType, Busy
<1> HIDE DEF x
<1>3. Whole(push[p]) /\ Sound(push[p], chain) /\ Listing(push[p], repo[Home[p]])
  BY PushIs DEF StoreInv
<1>4. Whole(x) /\ Sound(x, chain) /\ Listing(x, repo[Home[p]])
  BY <1>1, <1>2, <1>3 DEF Whole, Sound, Listing, Busy, Done
<1>5. push' = [push EXCEPT ![p] = x] /\ UNCHANGED <<chain, objects, made, faults>>
  BY DEF Remember, Step, x
<1>6. repo' \in [Repos -> RepoType] /\ \A q \in Repos : repo'[q].anchor = repo[q].anchor
  <2>1. repo' = [repo EXCEPT ![Home[p]].cache = push[p].base]
    BY DEF Remember
  <2> QED BY <2>1, PushIs, CacheTyped
<1>7. x.put <= 2 * Len(x.segs)
  BY <1>2, PushIs
<1> QED BY <1>2, <1>4, <1>5, <1>6, <1>7, PushIs, StorePush

\* A push ends: nothing to publish, or all done.
LEMMA StoreMark ==
  ASSUME StoreInv, NEW p \in Pushers, Idle(p) \/ Mark(p)
  PROVE  StoreInv'
<1>1. ReadWhole(push[p].seen)
  BY ReadIsWhole, PushIs DEF Idle, Mark, Whole, Done
<1>2. repo' = [repo EXCEPT ![Home[p]].synced = Marked(p)] /\ push' = [push EXCEPT ![p] = NoPush]
      /\ UNCHANGED <<chain, objects, made, faults>>
  BY DEF Idle, Mark, Step
<1>3. repo' \in [Repos -> RepoType] /\ \A q \in Repos : repo'[q].anchor = repo[q].anchor
  BY <1>1, <1>2, MarkedIs, PushIs, CacheTyped
<1> QED BY <1>2, <1>3, NoPushTyped, PushIs, StoreRest

\* A push refuses, loses, or dies.
LEMMA StoreStop ==
  ASSUME StoreInv, NEW p \in Pushers, Refuse(p) \/ Lose(p) \/ Kill(p)
  PROVE  StoreInv'
<1>1. UNCHANGED <<repo, chain, objects, made>> /\ faults' \in 0..MaxFaults
  BY PushIs, WireAssumption DEF Refuse, Lose, Kill, Step
<1>2. CASE push' = [push EXCEPT ![p] = NoPush]
  BY <1>1, <1>2, NoPushTyped, PushIs, StoreRest
<1>3. CASE Lose(p) /\ push[p].attempt # MaxAttempts
  <2> DEFINE x == [NoPush EXCEPT !.pc = "again", !.attempt = push[p].attempt + 1]
  <2>1. push[p].attempt + 1 \in 1..MaxAttempts
    BY <1>3, PushIs, WireAssumption DEF PushType
  <2>2. x \in PushType /\ x.put = NoPush.put /\ x.segs = NoPush.segs /\ x.pc = "again"
    BY <2>1, NoPushTyped DEF PushType
  <2>3. push' = [push EXCEPT ![p] = x]
    BY <1>3 DEF Lose, Step
  <2> HIDE DEF x
  <2> QED BY <1>1, <2>2, <2>3, NoPushTyped, PushIs, StoreRest
<1> QED BY <1>2, <1>3 DEF Refuse, Lose, Kill, Step

\* The store is emptied, with no push under way.
LEMMA StoreWipe ==
  ASSUME StoreInv, Wipe
  PROVE  StoreInv'
<1>1. /\ \A p \in Pushers : push[p].pc = "idle"
      /\ chain' = <<>> /\ objects' = {} /\ UNCHANGED <<repo, push, made>>
      /\ faults' = faults + 1 /\ faults < MaxFaults
  BY DEF Wipe
<1>2. Typed'
  BY <1>1, WireAssumption DEF StoreInv, Typed
<1>3. ChainSound(chain)'
  BY <1>1 DEF ChainSound
<1>4. ASSUME NEW p \in Pushers
      PROVE  (Whole(push[p]) /\ Sound(push[p], chain) /\ Listing(push[p], repo[Home[p]]))'
  BY <1>1 DEF StoreInv, Sound, Whole, Listing, Busy, Done
<1> QED BY <1>2, <1>3, <1>4 DEF StoreInv

\* Every step keeps the store's invariant.
LEMMA StoreNext == StoreInv /\ [Next]_vars => StoreInv'
<1> SUFFICES ASSUME StoreInv, [Next]_vars PROVE StoreInv'
  OBVIOUS
<1>1. ASSUME NEW r \in Repos, Clone(r) PROVE StoreInv'
  BY <1>1, StoreClone
<1>2. ASSUME NEW r \in Repos, NEW b \in Seeds, Create(r, b) PROVE StoreInv'
  BY <1>2, StoreCreate
<1>3. ASSUME NEW r \in Repos, NEW f \in Forks, Snapshot(r, f) PROVE StoreInv'
  BY <1>3, StoreAnchor
<1>4. ASSUME NEW r \in Repos, NEW f \in Forks, NEW g \in Forks, Fork(r, f, g) PROVE StoreInv'
  BY <1>4, StoreAnchor
<1>5. ASSUME NEW r \in Repos, NEW f \in Forks, NEW b \in Blobs \cup {NoBlob}, Apply(r, f, b)
      PROVE  StoreInv'
  BY <1>5, StoreApply DEF States
<1>6. ASSUME NEW p \in Pushers, Push(p) PROVE StoreInv'
  BY <1>6, StoreFind, StoreForget, StoreReadState, StoreReadLines, StoreStop, StoreMark, StorePlan,
     StoreUpload, StorePublish, StoreRemember DEF Push
<1>7. ASSUME NEW p \in Pushers, Kill(p) PROVE StoreInv'
  BY <1>7, StoreStop
<1>8. CASE UNCHANGED vars
  BY <1>8 DEF vars, StoreInv, Typed
<1> QED BY <1>1, <1>2, <1>3, <1>4, <1>5, <1>6, <1>7, <1>8, StoreWipe DEF Next

\* The store's invariant holds in every state.
LEMMA StoreAlways == Spec => []StoreInv
<1> QED BY StoreInit, StoreNext, PTL DEF Spec
-----------------------------------------------------------------------------
(* What follows for any deployment.                                        *)

\* A chain that has not been published to has the same logs and blobs.
LEMMA SameExtends ==
  ASSUME NEW m \in Manifest
  PROVE  Extends(m, m)
<1>1. ASSUME NEW f \in Forks PROVE IsPrefix(LogOf(m, f), LogOf(m, f))
  <2>1. LogOf(m, f) \in Seq(Line)
    BY LogIs
  <2> QED BY <2>1, PrefixOf
<1> QED BY <1>1 DEF Extends

\* A step that neither publishes nor wipes leaves the chain as it was.
LEMMA ChainMoves ==
  ASSUME StoreInv, [Next]_vars, ~Wipe
  PROVE  chain' = chain \/ \E p \in Pushers : Publish(p)
<1>1. ASSUME NEW r \in Repos, Clone(r) PROVE chain' = chain
  BY <1>1 DEF Clone, Local
<1>2. ASSUME NEW r \in Repos, NEW b \in Seeds, Create(r, b) PROVE chain' = chain
  BY <1>2 DEF Create, Local
<1>3. ASSUME NEW r \in Repos, NEW f \in Forks, Snapshot(r, f) PROVE chain' = chain
  BY <1>3 DEF Snapshot, Local
<1>4. ASSUME NEW r \in Repos, NEW f \in Forks, NEW g \in Forks, Fork(r, f, g)
      PROVE  chain' = chain
  BY <1>4 DEF Fork, Local
<1>5. ASSUME NEW r \in Repos, NEW f \in Forks, NEW b \in Blobs \cup {NoBlob}, Apply(r, f, b)
      PROVE  chain' = chain
  BY <1>5 DEF Apply, Local
<1>6. ASSUME NEW p \in Pushers, Push(p) PROVE chain' = chain \/ Publish(p)
  BY <1>6 DEF Push, Find, Forget, ForgetSynced, ReadState, ReadLines, Refuse, Idle, Plan, Upload,
     Lose, Remember, Mark
<1>7. ASSUME NEW p \in Pushers, Kill(p) PROVE chain' = chain
  BY <1>7 DEF Kill
<1>8. CASE UNCHANGED vars
  BY <1>8 DEF vars
<1> QED BY <1>1, <1>2, <1>3, <1>4, <1>5, <1>6, <1>7, <1>8 DEF Next

\* Each step extends what the store holds, or wipes it.
LEMMA StepExtends ==
  ASSUME StoreInv, [Next]_vars, ~Wipe
  PROVE  Extends(Latest(chain), Latest(chain'))
<1>1. chain \in Seq(Manifest) /\ chain' \in Seq(Manifest) /\ Latest(chain) \in Manifest
  BY StoreNext, LatestPacked DEF StoreInv, Typed
<1>2. CASE chain' = chain
  BY <1>1, <1>2, SameExtends
<1>3. ASSUME NEW p \in Pushers, Publish(p) PROVE Extends(Latest(chain), Latest(chain'))
  <2> DEFINE n == NextOf(push[p])
  <2>1. chain' = Append(chain, n) /\ n \in Manifest /\ Extends(Latest(chain), n)
    BY <1>3, PublishIs
  <2> HIDE DEF n
  <2>2. Len(chain') = Len(chain) + 1 /\ chain'[Len(chain')] = n /\ chain' # <<>>
    BY <1>1, <2>1
  <2> QED BY <2>1, <2>2 DEF Latest
<1> QED BY <1>2, <1>3, ChainMoves

\* The store never holds a construct chain deeper than the interval.
LEMMA StoreShallow == StoreInv => DepthBound
<1> SUFFICES ASSUME StoreInv PROVE DepthBound
  OBVIOUS
<1>1. Packed(Latest(chain)) /\ Latest(chain) \in Manifest
  BY LatestPacked DEF StoreInv, Typed
<1> QED BY <1>1, PackedLoads DEF DepthBound

\* The store's types, and what pushes carry.
LEMMA StoreTyped == StoreInv => TypeOK
<1> SUFFICES ASSUME StoreInv PROVE TypeOK
  OBVIOUS
<1>1. Reads \subseteq Reading /\ Seq(Written) \subseteq Seq(Line)
  BY DEF Reads, Reading, Written
<1>2. \A r \in Repos :
       /\ repo[r].anchor \in [Forks -> States \cup {NoFork}]
       /\ repo[r].log \in [Forks -> Seq(Line)]
       /\ repo[r].pool \subseteq Blobs
       /\ repo[r].cache \in Seq(Manifest)
       /\ repo[r].synced \in [Forks -> Nat \cup {NoFork}]
  BY <1>1 DEF StoreInv, Typed, RepoType
<1>3. ASSUME NEW p \in Pushers
      PROVE  /\ push[p].pc \in {"idle", "again", "forget", "read", "reread", "put", "won", "mark"}
             /\ push[p].base \in Seq(Manifest) /\ push[p].segs \in Seq(Segment)
             /\ push[p].known \in [Forks -> Nat \cup {NoFork}]
             /\ push[p].put \in 0..2 * Len(push[p].segs)
             /\ push[p].attempt \in 1..MaxAttempts
  <2>1. push[p] \in PushType /\ push[p].put <= 2 * Len(push[p].segs)
    BY DEF StoreInv, Typed
  <2>2. push[p].put \in Nat /\ push[p].segs \in Seq(Segment) /\ Len(push[p].segs) \in Nat
    BY <2>1 DEF PushType
  <2>3. push[p].put \in 0..2 * Len(push[p].segs)
    BY <2>1, <2>2
  <2> QED BY <2>1, <2>3 DEF PushType, Busy
<1>4. ASSUME NEW p \in Pushers, NEW f \in DOMAIN push[p].seen
      PROVE  push[p].seen[f] \in Reading \cup {NoFork}
  <2>1. push[p] \in PushType
    BY DEF StoreInv, Typed
  <2> QED BY <1>1, <2>1, SeenIs
<1> QED BY <1>2, <1>3, <1>4 DEF TypeOK, StoreInv, Typed

\* Every variable keeps its type, and what a push carries between its steps
\* stays within what push_with allows: an attempt of PUSH_ATTEMPTS, an object
\* of the segments it built (wire.rs, push_with).
THEOREM WireTyped == Spec => []TypeOK
<1> QED BY StoreAlways, StoreTyped, PTL

\* I8 at the store: whatever races, dies, folds or is edited meanwhile, each
\* manifest published extends every fork's log and keeps every blob of the one
\* before; only emptying the store takes anything away (delta.rs assemble,
\* wire.rs publish).
THEOREM PublishingOnlyExtends == Spec => OnlyExtends
<1>1. StoreInv /\ [Next]_vars
        => [~Wipe =>
             /\ \A f \in Forks : IsPrefix(LogOf(Latest(chain), f), LogOf(Latest(chain'), f))
             /\ Stored(Latest(chain)) \subseteq Stored(Latest(chain'))]_vars
  BY StepExtends DEF Extends
<1> QED BY <1>1, StoreAlways, PTL DEF Spec, OnlyExtends

\* No construct chain in a published image is deeper than the keyframe
\* interval, however many pushes added its links (delta.rs classify).
THEOREM ChainsShallow == Spec => []DepthBound
<1> QED BY StoreAlways, StoreShallow, PTL
-----------------------------------------------------------------------------
(* The invariant of logs, if no editor appends between two reads of a fork. *)

\* What a push record x holds of fork f's log.
Held(x, f) ==
  IF f \in DOMAIN x.seen /\ x.seen[f] # NoFork /\ x.seen[f].log # NoFork
  THEN {x.seen[f].log} ELSE {}

\* Every copy of a fork's log: in a repository, in the store, in a push.
LogsOf(f) ==
  {repo[r].log[f] : r \in Repos}
    \cup {LogOf(chain[i], f) : i \in 1..Len(chain)}
    \cup UNION {Held(push[p], f) : p \in Pushers}

\* Two logs that share a line share what is before it.
Agree(l, k) ==
  \A i \in 1..Len(l), j \in 1..Len(k) :
    l[i].id = k[j].id => i = j /\ \A n \in 1..i : l[n] = k[n]

\* The lines of a log have been made.
Old(l) == \A i \in 1..Len(l) : l[i].id <= made

LogsAgree ==
  \A f \in Forks :
    /\ \A l, k \in LogsOf(f) : Agree(l, k)
    /\ \A l \in LogsOf(f) : Old(l)

\* A log's blobs are among b; its head is h; it loads from its anchor a.
News(l) == {l[i].new : i \in 1..Len(l)}
Fits(a, h, l, b) ==
  HeadOf(l) = h /\ Loads(a, l) /\ News(l) \subseteq b \cup {NoBlob}

RepoFit(r) ==
  \A f \in Forks :
    IF r.anchor[f] = NoFork THEN r.log[f] = <<>>
    ELSE Fits(r.anchor[f], HeadOf(r.log[f]), r.log[f], r.pool)

HeadsFit(m) ==
  \A f \in Forks : m.forks[f] # NoFork =>
    Fits(m.forks[f].anchor, m.forks[f].head, LogOf(m, f), Stored(m))

\* What push record x read of fork f of its repository r; the log it is about
\* to read is the repository's.
SeenFits(x, r, f) ==
  LET s == x.seen[f]
  IN  Fits(s.anchor, s.head, IF s.log = NoFork THEN r.log[f] ELSE s.log, r.pool)

SeenFit(x, r) ==
  x.pc \in Busy => \A f \in DOMAIN x.seen : x.seen[f] # NoFork => SeenFits(x, r, f)

\* What it is about to publish: the logs it read, or the store's.
PutFit(x) ==
  x.pc = "put" =>
    /\ HeadsFit(NextOf(x))
    /\ \A f \in Forks : LogOf(NextOf(x), f) \in {LogOf(Latest(x.base), f)} \cup Held(x, f)

LogInv ==
  /\ LogsAgree
  /\ \A r \in Repos : RepoFit(repo[r])
  /\ \A i \in 1..Len(chain) : HeadsFit(chain[i])
  /\ \A p \in Pushers : SeenFit(push[p], repo[Home[p]]) /\ PutFit(push[p])
\* Every log is a sequence of lines that have ids.
LEMMA LogsTyped ==
  ASSUME StoreInv, NEW f \in Forks
  PROVE  LogsOf(f) \subseteq Seq(Written)
<1>1. ASSUME NEW r \in Repos PROVE repo[r].log[f] \in Seq(Written)
  BY DEF StoreInv, Typed, RepoType
<1>2. ASSUME NEW i \in 1..Len(chain) PROVE LogOf(chain[i], f) \in Seq(Written)
  BY DEF StoreInv, ChainSound, Packed, LogsWritten
<1>3. ASSUME NEW p \in Pushers PROVE Held(push[p], f) \subseteq Seq(Written)
  <2>1. push[p] \in PushType
    BY PushIs
  <2> QED BY <2>1, SeenIs DEF Held, Reads
<1> QED BY <1>1, <1>2, <1>3 DEF LogsOf

\* Where each copy of a log is.
LEMMA LogsHave ==
  ASSUME NEW f
  PROVE  /\ \A r \in Repos : repo[r].log[f] \in LogsOf(f)
         /\ \A i \in 1..Len(chain) : LogOf(chain[i], f) \in LogsOf(f)
         /\ \A p \in Pushers : Held(push[p], f) \subseteq LogsOf(f)
BY DEF LogsOf

\* No line, nothing to disagree about.
LEMMA EmptyAgrees ==
  \A l : Agree(<<>>, l) /\ Agree(l, <<>>) /\ Old(<<>>)
<1>1. Len(<<>>) = 0 /\ 1..0 = {}
  OBVIOUS
<1> QED BY <1>1 DEF Agree, Old

\* Copies that go, or that another copy was made of, leave the rest in agreement.
LEMMA LogsStay ==
  ASSUME StoreInv, LogInv, made' \in Nat, made <= made',
         \A f \in Forks : LogsOf(f)' \subseteq LogsOf(f) \cup {<<>>}
  PROVE  LogsAgree'
<1>1. made \in Nat
  BY DEF StoreInv, Typed
<1>2. ASSUME NEW f \in Forks, NEW l \in LogsOf(f)', NEW k \in LogsOf(f)'
      PROVE  Agree(l, k)
  BY <1>2, EmptyAgrees DEF LogInv, LogsAgree
<1>3. ASSUME NEW f \in Forks, NEW l \in LogsOf(f)'
      PROVE  Old(l)'
  <2>1. CASE l = <<>>
    <3>1. Len(<<>>) = 0 /\ 1..0 = {}
      OBVIOUS
    <3> QED BY <2>1, <3>1 DEF Old
  <2>2. CASE l \in LogsOf(f)
    <3>1. Old(l) /\ l \in Seq(Written)
      BY <2>2, LogsTyped DEF LogInv, LogsAgree
    <3>2. \A i \in 1..Len(l) : l[i].id \in Nat
      BY <3>1 DEF Written, Line
    <3> QED BY <1>1, <3>1, <3>2 DEF Old
  <2> QED BY <1>3, <2>1, <2>2
<1>4. \A f \in Forks : (\A l, k \in LogsOf(f) : Agree(l, k))'
  BY <1>2 DEF Agree
<1> QED BY <1>3, <1>4 DEF LogsAgree

\* A line that is new, at the end of a copy, leaves all in agreement.
LEMMA AgreeGrows ==
  ASSUME NEW l \in Seq(Written), NEW k \in Seq(Written), NEW x \in Written,
         Agree(l, k), Agree(k, l), \A i \in 1..Len(k) : k[i].id # x.id
  PROVE  Agree(Append(l, x), k) /\ Agree(k, Append(l, x))
<1> DEFINE u == Append(l, x)
<1>1. /\ Len(u) = Len(l) + 1 /\ u[Len(l) + 1] = x
      /\ \A i \in 1..Len(l) : u[i] = l[i]
  OBVIOUS
<1> HIDE DEF u
<1>2. ASSUME NEW i \in 1..Len(u), NEW j \in 1..Len(k), u[i].id = k[j].id
      PROVE  i = j /\ i \in 1..Len(l) /\ \A n \in 1..i : u[n] = k[n]
  <2>1. i \in 1..Len(l)
    BY <1>1, <1>2
  <2>2. i = j /\ \A n \in 1..i : l[n] = k[n]
    BY <1>1, <1>2, <2>1 DEF Agree
  <2>3. \A n \in 1..i : n \in 1..Len(l)
    BY <2>1
  <2> QED BY <1>1, <2>1, <2>2, <2>3
<1>3. Agree(u, k)
  BY <1>2 DEF Agree
<1>4. Agree(k, u)
  <2> SUFFICES ASSUME NEW j \in 1..Len(k), NEW i \in 1..Len(u), k[j].id = u[i].id
               PROVE  j = i /\ \A n \in 1..j : k[n] = u[n]
    BY DEF Agree
  <2> QED BY <1>2
<1> QED BY <1>3, <1>4 DEF u

\* And with itself.
LEMMA AgreeSelf ==
  ASSUME NEW l \in Seq(Written), NEW x \in Written,
         Agree(l, l), \A i \in 1..Len(l) : l[i].id # x.id
  PROVE  Agree(Append(l, x), Append(l, x))
<1> DEFINE u == Append(l, x)
<1>1. /\ Len(u) = Len(l) + 1 /\ u[Len(l) + 1] = x
      /\ \A i \in 1..Len(l) : u[i] = l[i]
  OBVIOUS
<1> HIDE DEF u
<1>2. ASSUME NEW i \in 1..Len(u), NEW j \in 1..Len(u), u[i].id = u[j].id
      PROVE  i = j
  <2>1. i \in 1..Len(l) \/ i = Len(l) + 1
    BY <1>1
  <2>2. j \in 1..Len(l) \/ j = Len(l) + 1
    BY <1>1
  <2> QED BY <1>1, <1>2, <2>1, <2>2 DEF Agree
<1>3. Agree(u, u)
  BY <1>2 DEF Agree
<1> QED BY <1>3 DEF u

\* A command appends a line to one copy.
LEMMA LogsGrow ==
  ASSUME StoreInv, LogInv, made' = made + 1,
         NEW g \in Forks, NEW l \in LogsOf(g) \cup {<<>>}, NEW x \in Written, x.id = made + 1,
         \A f \in Forks :
           LogsOf(f)' \subseteq LogsOf(f) \cup {<<>>}
                                  \cup (IF f = g THEN {Append(l, x)} ELSE {})
  PROVE  LogsAgree'
<1> DEFINE u == Append(l, x)
<1>1. made \in Nat /\ made' \in Nat
  BY DEF StoreInv, Typed
<1>2. \A f \in Forks : \A k \in LogsOf(f) \cup {<<>>} :
        k \in Seq(Written) /\ Old(k) /\ \A i \in 1..Len(k) : k[i].id \in Nat /\ k[i].id <= made
  <2> TAKE f \in Forks
  <2> TAKE k \in LogsOf(f) \cup {<<>>}
  <2>1. k \in Seq(Written)
    <3>1. <<>> \in Seq(Written)
      OBVIOUS
    <3> QED BY <3>1, LogsTyped
  <2>2. Old(k)
    BY EmptyAgrees DEF LogInv, LogsAgree
  <2> QED BY <2>1, <2>2 DEF Old, Written, Line
<1>3. \A f \in Forks : \A k, j \in LogsOf(f) \cup {<<>>} : Agree(k, j)
  BY EmptyAgrees DEF LogInv, LogsAgree
<1>4. \A f \in Forks : \A k \in LogsOf(f) \cup {<<>>} : \A i \in 1..Len(k) : k[i].id # x.id
  BY <1>1, <1>2
<1>5. Agree(u, u)
  BY <1>2, <1>3, <1>4, AgreeSelf
<1>6. \A k \in LogsOf(g) \cup {<<>>} : Agree(u, k) /\ Agree(k, u)
  BY <1>2, <1>3, <1>4, AgreeGrows
<1>7. Len(u) = Len(l) + 1 /\ u[Len(l) + 1] = x /\ \A i \in 1..Len(l) : u[i] = l[i]
  BY <1>2
<1> HIDE DEF u
<1>8. ASSUME NEW f \in Forks, NEW k \in LogsOf(f)'
      PROVE  k \in LogsOf(f) \cup {<<>>} \/ (f = g /\ k = u)
  BY <1>8 DEF u
<1>9. ASSUME NEW f \in Forks, NEW k \in LogsOf(f)', NEW j \in LogsOf(f)'
      PROVE  Agree(k, j)
  <2>1. CASE k \in LogsOf(f) \cup {<<>>} /\ j \in LogsOf(f) \cup {<<>>}
    BY <1>3, <2>1
  <2>2. CASE f = g /\ k = u /\ j \in LogsOf(f) \cup {<<>>}
    BY <1>6, <2>2
  <2>3. CASE f = g /\ j = u /\ k \in LogsOf(f) \cup {<<>>}
    BY <1>6, <2>3
  <2>4. CASE k = u /\ j = u
    BY <1>5, <2>4
  <2> QED BY <1>8, <1>9, <2>1, <2>2, <2>3, <2>4
<1>10. ASSUME NEW f \in Forks, NEW k \in LogsOf(f)'
       PROVE  Old(k)'
  <2>1. CASE k \in LogsOf(f) \cup {<<>>}
    <3>1. k \in Seq(Written) /\ \A i \in 1..Len(k) : k[i].id \in Nat /\ k[i].id <= made
      BY <1>2, <2>1
    <3>2. \A i \in 1..Len(k) : k[i].id <= made'
      BY <1>1, <3>1
    <3> QED BY <3>2 DEF Old
  <2>2. CASE k = u
    <3>1. l \in Seq(Written) /\ \A i \in 1..Len(l) : l[i].id \in Nat /\ l[i].id <= made
      BY <1>2
    <3>2. \A i \in 1..Len(u) : i \in 1..Len(l) \/ i = Len(l) + 1
      BY <1>7, <3>1
    <3>3. \A i \in 1..Len(u) : u[i].id <= made'
      BY <1>1, <1>7, <3>1, <3>2
    <3> QED BY <2>2, <3>3 DEF Old
  <2> QED BY <1>8, <1>10, <2>1, <2>2
<1>11. \A f \in Forks : (\A k, j \in LogsOf(f) : Agree(k, j))'
  BY <1>9 DEF Agree
<1> QED BY <1>10, <1>11 DEF LogsAgree
\* Copies that agree and have one head are the same.
LEMMA SameHead ==
  ASSUME NEW l \in Seq(Written), NEW k \in Seq(Written), Agree(l, k), HeadOf(l) = HeadOf(k)
  PROVE  l = k
<1>1. CASE l = <<>>
  BY <1>1, HeadIs
<1>2. CASE k = <<>>
  BY <1>2, HeadIs
<1>3. CASE l # <<>> /\ k # <<>>
  <2>1. /\ Len(l) \in 1..Len(l) /\ HeadOf(l) = l[Len(l)].id
        /\ Len(k) \in 1..Len(k) /\ HeadOf(k) = k[Len(k)].id
    BY <1>3, HeadIs
  <2>2. Len(l) = Len(k) /\ \A n \in 1..Len(l) : l[n] = k[n]
    BY <2>1 DEF Agree
  <2> QED BY <2>2, SameSeq
<1> QED BY <1>1, <1>2, <1>3

\* A copy that has the head of another is the other and the lines past it.
LEMMA PastHead ==
  ASSUME NEW l \in Seq(Written), NEW k \in Seq(Written), Agree(l, k), k # <<>>,
         NEW at \in 1..Len(l), l[at].id = HeadOf(k)
  PROVE  k \o SubSeq(l, at + 1, Len(l)) = l
<1>1. Len(k) \in 1..Len(k) /\ HeadOf(k) = k[Len(k)].id
  BY HeadIs
<1>2. at = Len(k) /\ \A n \in 1..at : l[n] = k[n]
  BY <1>1 DEF Agree
<1> DEFINE u == SubSeq(l, 1, at)
<1>3. u \in Seq(Written) /\ Len(u) = at /\ \A n \in 1..at : u[n] = l[n]
  OBVIOUS
<1> HIDE DEF u
<1>4. u = k
  BY <1>2, <1>3, SameSeq
<1>5. at \in 0..Len(l)
  OBVIOUS
<1>6. l = u \o SubSeq(l, at + 1, Len(l))
  BY <1>5, Parts DEF u
<1> QED BY <1>4, <1>6

\* What a push publishes of a fork whose head it moves is the log it read.
LEMMA NextLogs ==
  ASSUME NEW m, NEW seen, NEW blobs, NEW segs, Planned(m, seen, blobs, segs),
         NEW f \in Forks,
         m.forks[f] # NoFork => HeadOf(LogOf(m, f)) = m.forks[f].head,
         f \in DOMAIN seen => /\ seen[f].head = HeadOf(seen[f].log)
                              /\ Agree(seen[f].log, LogOf(m, f))
  PROVE  LogOf(Assembled(m, seen, segs), f)
           = IF f \in Heads(m, seen) THEN seen[f].log ELSE LogOf(m, f)
<1> DEFINE k == LogOf(m, f)
           rm == m.forks[f]
           s == seen[f]
           l == s.log
           sent == Sent(m, seen, f)
<1>1. m \in Manifest /\ ReadWhole(seen) /\ k \in Seq(Written)
  BY DEF Planned, Packed, LogsWritten
<1>2. LogOf(Assembled(m, seen, segs), f) = k \o sent
  BY NextWritten
<1>3. rm = NoFork => k = <<>>
  BY DEF LogOf
<1>4. \A u \in Seq(Written) : u \o <<>> = u /\ <<>> \o u = u
  OBVIOUS
<1>5. CASE f \notin Heads(m, seen)
  <2>1. sent = <<>>
    BY <1>1, <1>5, SentMoves
  <2> HIDE DEF sent
  <2> QED BY <1>1, <1>2, <1>4, <1>5, <2>1
<1>6. CASE f \in Heads(m, seen)
  <2>1. /\ f \in DOMAIN seen /\ l \in Seq(Written) /\ s.head = HeadOf(l) /\ Agree(l, k)
        /\ rm # NoFork => HeadOf(k) = rm.head
        /\ sent = NewLines(rm, s)
        /\ Advances(rm, s) \/ InSync(rm, s)
    BY <1>1, <1>6 DEF Heads, ReadWhole, Sent
  <2> HIDE DEF k, rm, s, sent
  <2>2. CASE InSync(rm, s)
    <3>1. sent = <<>>
      BY <2>1, <2>2 DEF NewLines, Advances
    <3>2. k = l
      BY <1>1, <2>1, <2>2, SameHead DEF InSync
    <3> QED BY <1>1, <1>2, <1>4, <1>6, <3>1, <3>2 DEF s
  <2>3. CASE Advances(rm, s) /\ (rm = NoFork \/ rm.head = NoId)
    <3>1. sent = l
      BY <2>1, <2>3 DEF NewLines
    <3>2. k = <<>>
      BY <1>1, <1>3, <2>1, <2>3, HeadIs
    <3> QED BY <1>2, <1>4, <1>6, <2>1, <3>1, <3>2 DEF s
  <2>4. CASE Advances(rm, s) /\ rm # NoFork /\ rm.head # NoId
    <3> DEFINE at == CHOOSE i \in 1..Len(l) : l[i].id = rm.head
    <3>1. \E i \in 1..Len(l) : l[i].id = rm.head
      BY <2>4 DEF Advances, Knows
    <3>2. at \in 1..Len(l) /\ l[at].id = rm.head
      BY <3>1
    <3>3. sent = SubSeq(l, at + 1, Len(l))
      BY <2>1, <2>4 DEF NewLines
    <3> HIDE DEF at
    <3>4. k # <<>>
      BY <1>1, <2>1, <2>4, HeadIs
    <3>5. l[at].id = HeadOf(k)
      BY <2>1, <2>4, <3>2
    <3> HIDE DEF l
    <3>6. k \o SubSeq(l, at + 1, Len(l)) = l
      BY <1>1, <2>1, <3>2, <3>4, <3>5, PastHead
    <3> QED BY <1>2, <1>6, <3>3, <3>6 DEF s, l
  <2> QED BY <2>1, <2>2, <2>3, <2>4
<1> QED BY <1>5, <1>6

\* So a push publishes heads that fit their logs, if what it read does.
LEMMA NextFits ==
  ASSUME NEW m, NEW seen, NEW blobs, NEW segs, Planned(m, seen, blobs, segs), HeadsFit(m),
         \A f \in DOMAIN seen :
           /\ Fits(seen[f].anchor, seen[f].head, seen[f].log, blobs)
           /\ Agree(seen[f].log, LogOf(m, f))
  PROVE  LET n == Assembled(m, seen, segs)
         IN  /\ HeadsFit(n)
             /\ \A f \in Forks :
                  LogOf(n, f) = IF f \in Heads(m, seen) THEN seen[f].log ELSE LogOf(m, f)
<1> DEFINE n == Assembled(m, seen, segs)
<1>1. ASSUME NEW f \in Forks
      PROVE  LogOf(n, f) = IF f \in Heads(m, seen) THEN seen[f].log ELSE LogOf(m, f)
  BY NextLogs DEF HeadsFit, Fits
<1>2. \A f \in Forks : Moves(m, seen, segs, n, f)
  BY NextLive
<1>3. Stored(n) = Stored(m) \cup blobs
  BY NextPacked
<1> HIDE DEF n
<1>4. ASSUME NEW f \in Forks, n.forks[f] # NoFork
      PROVE  Fits(n.forks[f].anchor, n.forks[f].head, LogOf(n, f), Stored(n))
  <2>1. CASE f \in Heads(m, seen)
    <3>1. f \in DOMAIN seen /\ LogOf(n, f) = seen[f].log
      BY <1>1, <2>1 DEF Heads
    <3>2. n.forks[f].anchor = seen[f].anchor /\ n.forks[f].head = seen[f].head
      BY <1>2, <1>4, <2>1 DEF Moves
    <3>3. Fits(seen[f].anchor, seen[f].head, seen[f].log, blobs)
      BY <3>1
    <3> QED BY <1>3, <3>1, <3>2, <3>3 DEF Fits
  <2>2. CASE f \notin Heads(m, seen)
    <3>1. m.forks[f] # NoFork /\ LogOf(n, f) = LogOf(m, f)
      BY <1>1, <1>2, <1>4, <2>2 DEF Moves
    <3>2. n.forks[f].anchor = m.forks[f].anchor /\ n.forks[f].head = m.forks[f].head
      BY <1>2, <1>4, <2>2 DEF Moves
    <3>3. Fits(m.forks[f].anchor, m.forks[f].head, LogOf(m, f), Stored(m))
      BY <3>1 DEF HeadsFit
    <3> QED BY <1>3, <3>1, <3>2, <3>3 DEF Fits
  <2> QED BY <2>1, <2>2
<1>5. HeadsFit(n)
  BY <1>4 DEF HeadsFit
<1> QED BY <1>1, <1>5 DEF n
\* A push changes no log, anchor or pool, nor another push.
LEMMA PushKeeps ==
  ASSUME StoreInv, NEW p \in Pushers, Push(p) \/ Kill(p)
  PROVE  /\ made' = made
         /\ \A r \in Repos : /\ repo'[r].anchor = repo[r].anchor
                             /\ repo'[r].log = repo[r].log /\ repo'[r].pool = repo[r].pool
         /\ \A q \in Pushers : q # p => push'[q] = push[q]
<1>1. repo \in [Repos -> RepoType] /\ push \in [Pushers -> PushType]
  BY PushIs
<1>2. Home[p] \in Repos
  BY PushIs
<1>3. \A c : \A r \in Repos :
        /\ LET new == [repo EXCEPT ![Home[p]].cache = c]
           IN  /\ new[r].anchor = repo[r].anchor /\ new[r].log = repo[r].log
               /\ new[r].pool = repo[r].pool
        /\ LET new == [repo EXCEPT ![Home[p]].synced = c]
           IN  /\ new[r].anchor = repo[r].anchor /\ new[r].log = repo[r].log
               /\ new[r].pool = repo[r].pool
  BY <1>1, <1>2 DEF RepoType
<1>4. \/ UNCHANGED repo
      \/ \E c : repo' = [repo EXCEPT ![Home[p]].cache = c]
      \/ \E s : repo' = [repo EXCEPT ![Home[p]].synced = s]
  BY DEF Push, Kill, Find, Forget, ForgetSynced, ReadState, ReadLines, Refuse, Idle, Plan, Upload,
     Publish, Lose, Remember, Mark
<1>5. \E y : push' = [push EXCEPT ![p] = y]
  BY DEF Push, Kill, Step, Find, Forget, ForgetSynced, ReadState, ReadLines, Refuse, Idle, Plan,
     Upload, Publish, Lose, Remember, Mark
<1>6. made' = made
  BY DEF Push, Kill, Step, Find, Forget, ForgetSynced, ReadState, ReadLines, Refuse, Idle, Plan,
     Upload, Publish, Lose, Remember, Mark
<1>7. \A r \in Repos : /\ repo'[r].anchor = repo[r].anchor
                       /\ repo'[r].log = repo[r].log /\ repo'[r].pool = repo[r].pool
  <2>1. CASE UNCHANGED repo
    BY <2>1
  <2>2. ASSUME NEW c, repo' = [repo EXCEPT ![Home[p]].cache = c]
        PROVE  \A r \in Repos : /\ repo'[r].anchor = repo[r].anchor
                                /\ repo'[r].log = repo[r].log /\ repo'[r].pool = repo[r].pool
    BY <1>3, <2>2
  <2>3. ASSUME NEW c, repo' = [repo EXCEPT ![Home[p]].synced = c]
        PROVE  \A r \in Repos : /\ repo'[r].anchor = repo[r].anchor
                                /\ repo'[r].log = repo[r].log /\ repo'[r].pool = repo[r].pool
    BY <1>3, <2>3
  <2> QED BY <1>4, <2>1, <2>2, <2>3
<1>8. \A q \in Pushers : q # p => push'[q] = push[q]
  BY <1>1, <1>5
<1> QED BY <1>6, <1>7, <1>8

\* A push moves on without publishing.
LEMMA LogPush ==
  ASSUME StoreInv, LogInv, NEW p \in Pushers, Push(p) \/ Kill(p), chain' = chain,
         \A f \in Forks : Held(push'[p], f) \subseteq LogsOf(f),
         SeenFit(push'[p], repo[Home[p]]), PutFit(push'[p])
  PROVE  LogInv'
<1>1. /\ made' = made
      /\ \A r \in Repos : /\ repo'[r].anchor = repo[r].anchor
                          /\ repo'[r].log = repo[r].log /\ repo'[r].pool = repo[r].pool
      /\ \A q \in Pushers : q # p => push'[q] = push[q]
  BY PushKeeps
<1>2. made \in Nat /\ \A q \in Pushers : Home[q] \in Repos
  BY WireAssumption DEF StoreInv, Typed
<1>3. ASSUME NEW f \in Forks PROVE LogsOf(f)' \subseteq LogsOf(f) \cup {<<>>}
  <2>1. ASSUME NEW q \in Pushers PROVE Held(push'[q], f) \subseteq LogsOf(f)
    BY <1>1, LogsHave
  <2>2. \A r \in Repos : repo'[r].log[f] \in LogsOf(f)
    BY <1>1, LogsHave
  <2>3. \A i \in 1..Len(chain') : LogOf(chain'[i], f) \in LogsOf(f)
    BY LogsHave
  <2> QED BY <2>1, <2>2, <2>3 DEF LogsOf
<1>4. LogsAgree'
  BY <1>1, <1>2, <1>3, LogsStay
<1>5. ASSUME NEW r \in Repos PROVE RepoFit(repo'[r])
  BY <1>1 DEF LogInv, RepoFit
<1>6. \A i \in 1..Len(chain') : HeadsFit(chain'[i])
  BY DEF LogInv
<1>7. ASSUME NEW q \in Pushers PROVE SeenFit(push'[q], repo'[Home[q]]) /\ PutFit(push'[q])
  <2>1. SeenFit(push'[q], repo[Home[q]]) /\ PutFit(push'[q])
    BY <1>1 DEF LogInv
  <2>2. /\ repo'[Home[q]].log = repo[Home[q]].log /\ repo'[Home[q]].pool = repo[Home[q]].pool
    BY <1>1, <1>2
  <2> QED BY <2>1, <2>2 DEF SeenFit, SeenFits
<1> QED BY <1>4, <1>5, <1>6, <1>7 DEF LogInv

\* A push stops, or starts over.
LEMMA LogRest ==
  ASSUME StoreInv, LogInv, NEW p \in Pushers, Push(p) \/ Kill(p), chain' = chain,
         push'[p].pc \in {"idle", "again", "forget"}, push'[p].seen \in {<<>>, push[p].seen}
  PROVE  LogInv'
<1>1. SeenFit(push'[p], repo[Home[p]]) /\ PutFit(push'[p])
  BY DEF SeenFit, PutFit, Busy
<1>2. ASSUME NEW f \in Forks PROVE Held(push'[p], f) \subseteq LogsOf(f)
  <2>1. CASE push'[p].seen = <<>>
    <3>1. DOMAIN <<>> = {}
      OBVIOUS
    <3> QED BY <2>1, <3>1 DEF Held
  <2>2. CASE push'[p].seen = push[p].seen
    <3>1. Held(push'[p], f) = Held(push[p], f)
      BY <2>2 DEF Held
    <3> QED BY <3>1, LogsHave
  <2> QED BY <2>1, <2>2
<1> QED BY <1>1, <1>2, LogPush

\* A push that has read keeps what it read while it works.
LEMMA LogWorks ==
  ASSUME StoreInv, LogInv, NEW p \in Pushers, Push(p), chain' = chain,
         push[p].pc \in Busy, push'[p].seen = push[p].seen, PutFit(push'[p])
  PROVE  LogInv'
<1>1. SeenFit(push[p], repo[Home[p]])
  BY DEF LogInv
<1>2. SeenFit(push'[p], repo[Home[p]])
  BY <1>1 DEF SeenFit, SeenFits
<1>3. \A f \in Forks : Held(push'[p], f) = Held(push[p], f)
  BY DEF Held
<1> QED BY <1>2, <1>3, LogPush, LogsHave

\* Every step that ends or restarts a push.
LEMMA LogStop ==
  ASSUME StoreInv, LogInv, NEW p \in Pushers,
         \/ Forget(p) \/ ForgetSynced(p) \/ Refuse(p) \/ Idle(p) \/ Lose(p) \/ Mark(p) \/ Kill(p)
  PROVE  LogInv'
<1>1. push \in [Pushers -> PushType] /\ push[p] \in PushType
  BY PushIs
<1>2. Push(p) \/ Kill(p)
  BY DEF Push
<1>3. chain' = chain
  BY DEF Forget, ForgetSynced, Refuse, Idle, Lose, Mark, Kill
<1>4. CASE push' = [push EXCEPT ![p] = NoPush]
  <2>1. push'[p].pc = "idle" /\ push'[p].seen = <<>>
    BY <1>1, <1>4 DEF NoPush
  <2> QED BY <1>2, <1>3, <2>1, LogRest
<1>5. ASSUME NEW pc \in {"forget", "again"}, push' = [push EXCEPT ![p] = [push[p] EXCEPT !.pc = pc]]
      PROVE  LogInv'
  <2>1. push'[p].pc = pc /\ push'[p].seen = push[p].seen
    BY <1>1, <1>5 DEF PushType
  <2> QED BY <1>2, <1>3, <2>1, LogRest
<1>6. ASSUME NEW n, push' = [push EXCEPT ![p] = [NoPush EXCEPT !.pc = "again", !.attempt = n]]
      PROVE  LogInv'
  <2>1. push'[p].pc = "again" /\ push'[p].seen = <<>>
    BY <1>1, <1>6 DEF NoPush
  <2> QED BY <1>2, <1>3, <2>1, LogRest
<1>7. CASE Forget(p) \/ ForgetSynced(p)
  BY <1>5, <1>7 DEF Forget, ForgetSynced, Step
<1>8. CASE Refuse(p) \/ Idle(p) \/ Mark(p) \/ Kill(p)
  BY <1>4, <1>8 DEF Refuse, Idle, Mark, Kill, Step
<1>9. CASE Lose(p)
  BY <1>4, <1>6, <1>9 DEF Lose, Step
<1> QED BY <1>7, <1>8, <1>9

\* discover: nothing has been read yet.
LEMMA LogFind ==
  ASSUME StoreInv, LogInv, NEW p \in Pushers, Find(p)
  PROVE  LogInv'
<1>1. push \in [Pushers -> PushType] /\ push[p] \in PushType /\ Push(p) /\ chain' = chain
  BY PushIs DEF Push, Find
<1>2. CASE ~Loadable(Latest(chain))
  <2>1. push'[p].pc = "idle" /\ push'[p].seen = <<>>
    BY <1>1, <1>2 DEF Find, Step, NoPush
  <2> QED BY <1>1, <2>1, LogRest
<1>3. CASE Loadable(Latest(chain))
  <2>1. push'[p].pc = "read" /\ push'[p].seen = [f \in ForksOf(Home[p]) |-> NoFork]
    BY <1>1, <1>3 DEF Find, Step, PushType
  <2>2. SeenFit(push'[p], repo[Home[p]]) /\ PutFit(push'[p])
    BY <2>1 DEF SeenFit, PutFit
  <2>3. \A f \in Forks : Held(push'[p], f) = {}
    BY <2>1 DEF Held
  <2> QED BY <1>1, <2>2, <2>3, LogPush
<1> QED BY <1>2, <1>3
\* The head a push reads is the repository's, and its log will be.
LEMMA LogReadState ==
  ASSUME StoreInv, LogInv, NEW p \in Pushers, ReadState(p)
  PROVE  LogInv'
<1> DEFINE r == repo[Home[p]]
           s(f) == [anchor |-> r.anchor[f], head |-> HeadOf(r.log[f]), log |-> NoFork]
<1>1. /\ push \in [Pushers -> PushType] /\ push[p] \in PushType /\ push[p].pc = "read"
      /\ Listing(push[p], r) /\ Home[p] \in Repos /\ Push(p) /\ chain' = chain
  BY PushIs DEF StoreInv, ReadState, Push
<1>2. PICK f \in DOMAIN push[p].seen :
        push' = [push EXCEPT ![p] = [push[p] EXCEPT !.pc = "reread", !.seen[f] = s(f)]]
  BY ReadStateIs
<1>3. f \in Forks /\ r.anchor[f] # NoFork
  BY <1>1, SeenIs DEF Listing, Busy
<1> HIDE DEF r
<1>4. s(f).anchor = r.anchor[f] /\ s(f).head = HeadOf(r.log[f]) /\ s(f).log = NoFork
  OBVIOUS
<1> HIDE DEF s
<1>5. /\ push'[p].pc = "reread" /\ push'[p].seen = [push[p].seen EXCEPT ![f] = s(f)]
  BY <1>1, <1>2 DEF PushType
<1>6. push[p].seen = [g \in DOMAIN push[p].seen |-> push[p].seen[g]]
  BY <1>1, SeenIs
<1>7. /\ DOMAIN push'[p].seen = DOMAIN push[p].seen
      /\ \A g \in DOMAIN push[p].seen :
           push'[p].seen[g] = IF g = f THEN s(f) ELSE push[p].seen[g]
  BY <1>5, <1>6
<1>8. ASSUME NEW g \in Forks PROVE Held(push'[p], g) \subseteq LogsOf(g)
  <2>1. CASE g = f
    BY <1>4, <1>7, <2>1 DEF Held
  <2>2. CASE g # f
    <3>1. Held(push'[p], g) = Held(push[p], g)
      BY <1>7, <2>2 DEF Held
    <3> QED BY <3>1, LogsHave
  <2> QED BY <2>1, <2>2
<1>9. SeenFit(push[p], r)
  BY DEF LogInv, r
<1>10. ASSUME NEW g \in DOMAIN push'[p].seen, push'[p].seen[g] # NoFork
       PROVE  SeenFits(push'[p], r, g)
  <2>1. CASE g = f
    <3>1. Fits(r.anchor[f], HeadOf(r.log[f]), r.log[f], r.pool)
      BY <1>1, <1>3 DEF LogInv, RepoFit, r
    <3> QED BY <1>4, <1>7, <2>1, <3>1 DEF SeenFits
  <2>2. CASE g # f
    <3>1. SeenFits(push[p], r, g)
      BY <1>1, <1>7, <1>9, <1>10, <2>2 DEF SeenFit, Busy
    <3> QED BY <1>7, <1>10, <2>2, <3>1 DEF SeenFits
  <2> QED BY <2>1, <2>2
<1>11. SeenFit(push'[p], r) /\ PutFit(push'[p])
  BY <1>5, <1>10 DEF SeenFit, PutFit
<1> QED BY <1>1, <1>8, <1>11, LogPush DEF r

\* The log it reads is the repository's, and its head fits.
LEMMA LogReadLines ==
  ASSUME StoreInv, LogInv, NEW p \in Pushers, ReadLines(p)
  PROVE  LogInv'
<1> DEFINE r == repo[Home[p]]
           old == push[p].seen
<1>1. /\ push \in [Pushers -> PushType] /\ push[p] \in PushType /\ push[p].pc = "reread"
      /\ r \in RepoType /\ Push(p) /\ chain' = chain /\ Home[p] \in Repos
  BY PushIs DEF ReadLines, Push
<1>2. PICK f \in DOMAIN old :
        /\ old[f] # NoFork /\ old[f].log = NoFork
        /\ push' = [push EXCEPT ![p] = [push[p] EXCEPT !.pc = "read", !.seen[f].log = r.log[f]]]
  BY DEF ReadLines, Step
<1>3. f \in Forks /\ old[f] \in Reads
  BY <1>1, <1>2, SeenIs
<1> HIDE DEF r
<1>4. r.log[f] \in Seq(Written) /\ r.log[f] # NoFork
  <2>1. r.log[f] \in Seq(Written)
    BY <1>1, <1>3 DEF RepoType
  <2> QED BY <2>1, LinesAre, WireAssumption
<1> DEFINE s == [old[f] EXCEPT !.log = r.log[f]]
<1>5. s.anchor = old[f].anchor /\ s.head = old[f].head /\ s.log = r.log[f] /\ s # NoFork
  <2>1. s \in Reads
    BY <1>3, <1>4 DEF Reads
  <2>2. Reads \subseteq Reading
    BY DEF Reads, Reading, Written
  <2> QED BY <1>3, <2>1, <2>2, WireAssumption DEF Reads
<1>6. push'[p].pc = "read" /\ push'[p].seen = [old EXCEPT ![f] = s]
  BY <1>1, <1>2 DEF PushType
<1> HIDE DEF s
<1>7. old = [g \in DOMAIN old |-> old[g]]
  BY <1>1, SeenIs
<1>8. /\ DOMAIN push'[p].seen = DOMAIN old
      /\ \A g \in DOMAIN old : push'[p].seen[g] = IF g = f THEN s ELSE old[g]
  BY <1>6, <1>7
<1>9. ASSUME NEW g \in Forks PROVE Held(push'[p], g) \subseteq LogsOf(g)
  <2>1. CASE g = f
    <3>1. r.log[f] \in LogsOf(f)
      BY <1>1, LogsHave DEF r
    <3> QED BY <1>5, <1>8, <2>1, <3>1 DEF Held
  <2>2. CASE g # f
    <3>1. Held(push'[p], g) = Held(push[p], g)
      BY <1>8, <2>2 DEF Held
    <3> QED BY <3>1, LogsHave
  <2> QED BY <2>1, <2>2
<1>10. SeenFit(push[p], r)
  BY DEF LogInv, r
<1>11. ASSUME NEW g \in DOMAIN push'[p].seen, push'[p].seen[g] # NoFork
       PROVE  SeenFits(push'[p], r, g)
  <2>1. CASE g = f
    <3>1. SeenFits(push[p], r, f)
      BY <1>1, <1>2, <1>10 DEF SeenFit, Busy
    <3> QED BY <1>2, <1>4, <1>5, <1>8, <2>1, <3>1 DEF SeenFits
  <2>2. CASE g # f
    <3>1. SeenFits(push[p], r, g)
      BY <1>1, <1>8, <1>10, <1>11, <2>2 DEF SeenFit, Busy
    <3> QED BY <1>8, <1>11, <2>2, <3>1 DEF SeenFits
  <2> QED BY <2>1, <2>2
<1>12. SeenFit(push'[p], r) /\ PutFit(push'[p])
  BY <1>6, <1>11 DEF SeenFit, PutFit
<1> QED BY <1>1, <1>9, <1>12, LogPush DEF r

\* What a push works on fits, and agrees with every copy.
LEMMA BaseFits ==
  ASSUME StoreInv, LogInv, NEW p \in Pushers, push[p].pc \in Busy
  PROVE  LET m == Latest(push[p].base)
         IN  /\ Packed(m) /\ m \in Manifest /\ HeadsFit(m)
             /\ \A f \in Forks : LogOf(m, f) \in LogsOf(f) \cup {<<>>}
             /\ \A f \in Forks : LogOf(m, f) \in Seq(Written)
<1> DEFINE b == push[p].base
           m == Latest(b)
<1>1. b \in Seq(Manifest) /\ chain \in Seq(Manifest) /\ IsPrefix(b, chain)
  BY PushIs DEF Sound
<1>2. m = EmptyStore \/ \E i \in 1..Len(chain) : m = chain[i]
  <2>1. CASE b = <<>>
    BY <2>1 DEF Latest
  <2>2. CASE b # <<>>
    <3> HIDE DEF b
    <3>1. Len(b) \in 1..Len(b) /\ Len(b) <= Len(chain) /\ \A i \in 1..Len(b) : b[i] = chain[i]
      BY <1>1, <2>2, PrefixIs
    <3>2. Latest(b) = b[Len(b)]
      BY <2>2 DEF Latest
    <3>3. Len(b) \in 1..Len(chain) /\ Latest(b) = chain[Len(b)]
      BY <1>1, <3>1, <3>2
    <3> QED BY <3>3 DEF b
  <2> QED BY <2>1, <2>2
<1>3. Packed(m)
  <2> HIDE DEF b
  <2>1. ChainSound(b)
    BY <1>1, PrefixSound DEF StoreInv
  <2> QED BY <1>1, <2>1, LatestPacked
<1> HIDE DEF m
<1>4. HeadsFit(m)
  <2>1. HeadsFit(EmptyStore)
    BY DEF HeadsFit, EmptyStore
  <2> QED BY <1>2, <2>1 DEF LogInv
<1>5. \A f \in Forks : LogOf(m, f) \in LogsOf(f) \cup {<<>>}
  BY <1>2, LogsHave, EmptyPacked
<1>6. m \in Manifest /\ \A f \in Forks : LogOf(m, f) \in Seq(Written)
  BY <1>3 DEF Packed, LogsWritten
<1> QED BY <1>3, <1>4, <1>5, <1>6 DEF m

\* What it has read fits its repository's pool, and agrees with that.
LEMMA ReadFits ==
  ASSUME StoreInv, LogInv, NEW p \in Pushers, push[p].pc \in Busy, ReadWhole(push[p].seen),
         NEW f \in DOMAIN push[p].seen
  PROVE  LET s == push[p].seen[f]
         IN  /\ f \in Forks /\ s.log \in Seq(Written) /\ s # NoFork /\ s.log # NoFork
             /\ Fits(s.anchor, s.head, s.log, repo[Home[p]].pool)
             /\ s.head = HeadOf(s.log)
             /\ Agree(s.log, LogOf(Latest(push[p].base), f))
<1> DEFINE s == push[p].seen[f]
           k == LogOf(Latest(push[p].base), f)
<1>1. /\ f \in Forks /\ s.log \in Seq(Written)
      /\ s \in [anchor : States, head : Nat, log : Seq(Written)]
  BY DEF ReadWhole
<1>2. s.log # NoFork /\ s # NoFork
  <2>1. s.log # NoFork
    BY <1>1, LinesAre, WireAssumption
  <2>2. s \in Reading
    BY <1>1, LinesAre DEF Reading
  <2> QED BY <2>1, <2>2, WireAssumption
<1>3. SeenFits(push[p], repo[Home[p]], f)
  BY <1>2 DEF LogInv, SeenFit
<1>4. Fits(s.anchor, s.head, s.log, repo[Home[p]].pool)
  BY <1>2, <1>3 DEF SeenFits
<1>5. s.log \in LogsOf(f)
  BY <1>1, <1>2, LogsHave DEF Held
<1>6. k \in LogsOf(f) \cup {<<>>}
  BY <1>1, BaseFits
<1>7. Agree(s.log, k)
  BY <1>1, <1>5, <1>6, EmptyAgrees DEF LogInv, LogsAgree
<1> QED BY <1>1, <1>2, <1>4, <1>7 DEF Fits

\* What a push plans to publish fits, because what it read does.
LEMMA PlanFits ==
  ASSUME StoreInv, LogInv, NEW p \in Pushers, NEW segs,
         push[p].pc \in Busy, ReadWhole(push[p].seen),
         Planned(Latest(push[p].base), push[p].seen, repo[Home[p]].pool, segs)
  PROVE  LET m == Latest(push[p].base)
             n == Assembled(m, push[p].seen, segs)
         IN  /\ HeadsFit(n)
             /\ \A f \in Forks :
                  LogOf(n, f) = IF f \in Heads(m, push[p].seen) THEN push[p].seen[f].log
                                ELSE LogOf(m, f)
<1> DEFINE m == Latest(push[p].base)
           seen == push[p].seen
<1>1. HeadsFit(m)
  BY BaseFits
<1>2. \A f \in DOMAIN seen :
        /\ Fits(seen[f].anchor, seen[f].head, seen[f].log, repo[Home[p]].pool)
        /\ Agree(seen[f].log, LogOf(m, f))
  BY ReadFits
<1>3. Planned(m, seen, repo[Home[p]].pool, segs)
  OBVIOUS
<1> HIDE DEF m, seen
<1>4. LET n == Assembled(m, seen, segs)
      IN  /\ HeadsFit(n)
          /\ \A f \in Forks :
               LogOf(n, f) = IF f \in Heads(m, seen) THEN seen[f].log ELSE LogOf(m, f)
  BY <1>1, <1>2, <1>3, NextFits
<1> QED BY <1>4 DEF m, seen

\* Planning: what will be published fits.
LEMMA LogPlan ==
  ASSUME StoreInv, LogInv, NEW p \in Pushers, Plan(p)
  PROVE  LogInv'
<1>1. PICK segs \in Seq(Segment) :
        /\ push' = [push EXCEPT ![p] = [push[p] EXCEPT !.pc = "put", !.segs = segs, !.put = 0]]
        /\ Planned(Latest(push[p].base), push[p].seen, repo[Home[p]].pool, segs)
        /\ UNCHANGED <<repo, chain, objects, made, faults>>
  BY PlanIs
<1>2. /\ push \in [Pushers -> PushType] /\ push[p] \in PushType /\ push[p].pc = "read"
      /\ Push(p) /\ ReadWhole(push[p].seen)
  BY PushIs, ReadIsWhole DEF Plan, Read, Push
<1> DEFINE x == push'[p]
           m == Latest(push[p].base)
<1>3. /\ x.pc = "put" /\ x.segs = segs /\ x.base = push[p].base /\ x.seen = push[p].seen
  BY <1>1, <1>2 DEF PushType
<1>4. /\ HeadsFit(NextOf(x))
      /\ \A f \in Forks :
           LogOf(NextOf(x), f) = IF f \in Heads(m, push[p].seen) THEN push[p].seen[f].log
                                 ELSE LogOf(m, f)
  <2>1. push[p].pc \in Busy
    BY <1>2 DEF Busy
  <2>2. NextOf(x) = Assembled(m, push[p].seen, segs)
    BY <1>3 DEF NextOf
  <2>3. /\ HeadsFit(Assembled(m, push[p].seen, segs))
        /\ \A f \in Forks :
             LogOf(Assembled(m, push[p].seen, segs), f)
               = IF f \in Heads(m, push[p].seen) THEN push[p].seen[f].log ELSE LogOf(m, f)
    BY <1>1, <1>2, <2>1, PlanFits
  <2> HIDE DEF x, m
  <2> QED BY <2>2, <2>3
<1>5. ASSUME NEW f \in Heads(m, push[p].seen) PROVE push[p].seen[f].log \in Held(x, f)
  <2>1. f \in DOMAIN x.seen /\ x.seen[f] \in [anchor : States, head : Nat, log : Seq(Written)]
    BY <1>2, <1>3 DEF Heads, ReadWhole
  <2>2. x.seen[f] \in Reading /\ x.seen[f].log \in Seq(Line)
    BY <2>1, LinesAre DEF Reading
  <2> QED BY <1>3, <2>1, <2>2, WireAssumption DEF Held
<1> HIDE DEF x, m
<1>6. \A f \in Forks : LogOf(NextOf(x), f) \in {LogOf(Latest(x.base), f)} \cup Held(x, f)
  BY <1>3, <1>4, <1>5 DEF m
<1>7. PutFit(x)
  BY <1>4, <1>6 DEF PutFit
<1> QED BY <1>1, <1>2, <1>3, <1>7, LogWorks DEF Busy, x

\* Uploads and what follows the commit point change nothing read.
LEMMA LogUpload ==
  ASSUME StoreInv, LogInv, NEW p \in Pushers, Upload(p) \/ Remember(p)
  PROVE  LogInv'
<1>1. /\ push \in [Pushers -> PushType] /\ push[p] \in PushType /\ push[p].pc \in Busy
      /\ Push(p) /\ chain' = chain /\ PutFit(push[p])
  BY PushIs DEF Upload, Remember, Push, Busy, LogInv
<1>2. CASE Upload(p)
  <2>1. /\ push'[p].pc = "put" /\ push[p].pc = "put" /\ push'[p].seen = push[p].seen
        /\ push'[p].base = push[p].base /\ push'[p].segs = push[p].segs
    BY <1>1, <1>2 DEF Upload, Step, PushType
  <2>2. NextOf(push'[p]) = NextOf(push[p]) /\ \A f : Held(push'[p], f) = Held(push[p], f)
    BY <2>1 DEF NextOf, Held
  <2>3. PutFit(push'[p])
    BY <1>1, <2>1, <2>2 DEF PutFit
  <2> QED BY <1>1, <2>1, <2>3, LogWorks
<1>3. CASE Remember(p)
  <2>1. push'[p].pc = "mark" /\ push'[p].seen = push[p].seen
    BY <1>1, <1>3 DEF Remember, Step, PushType
  <2>2. PutFit(push'[p])
    BY <2>1 DEF PutFit
  <2> QED BY <1>1, <2>1, <2>2, LogWorks
<1> QED BY <1>2, <1>3

\* Publishing: the store has copies of what the push read, or had.
LEMMA LogPublish ==
  ASSUME StoreInv, LogInv, NEW p \in Pushers, Publish(p)
  PROVE  LogInv'
<1> DEFINE n == NextOf(push[p])
<1>1. push[p].base = chain /\ chain' = Append(chain, n) /\ push[p].pc = "put" /\ n \in Manifest
  BY PublishIs
<1>2. /\ made' = made
      /\ \A r \in Repos : /\ repo'[r].anchor = repo[r].anchor
                          /\ repo'[r].log = repo[r].log /\ repo'[r].pool = repo[r].pool
      /\ \A q \in Pushers : q # p => push'[q] = push[q]
  BY PushKeeps DEF Push
<1>3. chain \in Seq(Manifest) /\ push \in [Pushers -> PushType] /\ push[p] \in PushType
  BY PushIs
<1>4. /\ HeadsFit(n)
      /\ \A f \in Forks : LogOf(n, f) \in {LogOf(Latest(chain), f)} \cup Held(push[p], f)
  BY <1>1 DEF LogInv, PutFit
<1> HIDE DEF n
<1>5. /\ Len(chain') = Len(chain) + 1 /\ chain'[Len(chain) + 1] = n
      /\ \A i \in 1..Len(chain) : chain'[i] = chain[i]
  BY <1>1, <1>3
<1>6. \A i \in 1..Len(chain') : i \in 1..Len(chain) \/ i = Len(chain) + 1
  BY <1>3, <1>5
<1>7. push'[p].pc = "won" /\ push'[p].seen = push[p].seen
  BY <1>3 DEF Publish, Step, PushType
<1>8. ASSUME NEW f \in Forks PROVE LogOf(Latest(chain), f) \in LogsOf(f) \cup {<<>>}
  <2>1. CASE chain = <<>>
    BY <2>1, EmptyPacked DEF Latest
  <2>2. CASE chain # <<>>
    <3>1. Len(chain) \in 1..Len(chain) /\ Latest(chain) = chain[Len(chain)]
      BY <1>3, <2>2 DEF Latest
    <3> QED BY <3>1, LogsHave
  <2> QED BY <2>1, <2>2
<1>9. ASSUME NEW f \in Forks PROVE LogsOf(f)' \subseteq LogsOf(f) \cup {<<>>}
  <2>1. ASSUME NEW q \in Pushers PROVE Held(push'[q], f) \subseteq LogsOf(f)
    <3>1. Held(push'[q], f) = Held(push[q], f)
      BY <1>2, <1>7 DEF Held
    <3> QED BY <3>1, LogsHave
  <2>2. \A r \in Repos : repo'[r].log[f] \in LogsOf(f)
    BY <1>2, LogsHave
  <2>3. LogOf(n, f) \in LogsOf(f) \cup {<<>>}
    BY <1>4, <1>8, LogsHave
  <2>4. \A i \in 1..Len(chain') : LogOf(chain'[i], f) \in LogsOf(f) \cup {<<>>}
    BY <1>5, <1>6, <2>3, LogsHave
  <2> QED BY <2>1, <2>2, <2>4 DEF LogsOf
<1>10. LogsAgree'
  <2>1. made \in Nat
    BY DEF StoreInv, Typed
  <2> QED BY <1>2, <1>9, <2>1, LogsStay
<1>11. ASSUME NEW r \in Repos PROVE RepoFit(repo'[r])
  BY <1>2 DEF LogInv, RepoFit
<1>12. \A i \in 1..Len(chain') : HeadsFit(chain'[i])
  BY <1>4, <1>5, <1>6 DEF LogInv
<1>13. ASSUME NEW q \in Pushers PROVE SeenFit(push'[q], repo'[Home[q]]) /\ PutFit(push'[q])
  <2>1. SeenFit(push'[q], repo[Home[q]]) /\ PutFit(push'[q])
    BY <1>1, <1>2, <1>7 DEF LogInv, SeenFit, SeenFits, PutFit, Busy
  <2>2. /\ repo'[Home[q]].log = repo[Home[q]].log /\ repo'[Home[q]].pool = repo[Home[q]].pool
    BY <1>2, WireAssumption
  <2> QED BY <2>1, <2>2 DEF SeenFit, SeenFits
<1> QED BY <1>10, <1>11, <1>12, <1>13 DEF LogInv

\* A command on one repository.
LEMMA LogRepo ==
  ASSUME StoreInv, LogInv, UNCHANGED Local, NEW r \in Repos,
         \A q \in Repos : q # r => repo'[q] = repo[q],
         LogsAgree', RepoFit(repo'[r]),
         \A p \in Pushers : Home[p] = r => SeenFit(push[p], repo'[r])
  PROVE  LogInv'
<1>1. chain' = chain /\ push' = push
  BY DEF Local
<1>2. \A q \in Repos : RepoFit(repo'[q])
  BY DEF LogInv
<1>3. \A p \in Pushers : SeenFit(push'[p], repo'[Home[p]]) /\ PutFit(push'[p])
  BY <1>1, WireAssumption DEF LogInv
<1> QED BY <1>1, <1>2, <1>3 DEF LogInv

\* The logs of everything but a repository stay, after a command on it.
LEMMA LogsOthers ==
  ASSUME UNCHANGED Local, NEW r \in Repos, \A q \in Repos : q # r => repo'[q] = repo[q],
         NEW f \in Forks
  PROVE  LogsOf(f)' \subseteq LogsOf(f) \cup {repo'[r].log[f]}
<1>1. chain' = chain /\ push' = push
  BY DEF Local
<1>2. \A q \in Repos : repo'[q].log[f] \in LogsOf(f) \cup {repo'[r].log[f]}
  BY LogsHave
<1> QED BY <1>1, <1>2 DEF LogsOf
\* An empty log loads from any anchor, and holds nothing.
LEMMA EmptyFits ==
  \A a, b : Fits(a, HeadOf(<<>>), <<>>, b)
<1>1. Len(<<>>) = 0 /\ 1..0 = {} /\ 2..0 = {}
  OBVIOUS
<1> QED BY <1>1 DEF Fits, Loads, News

\* A log loads after a line that follows its head, from the same anchor.
LEMMA FitsGrow ==
  ASSUME NEW l \in Seq(Written), NEW x \in Written, NEW a, NEW b, NEW c,
         Fits(a, HeadOf(l), l, b), x.prev = HeadOf(l),
         x.old = IF l = <<>> THEN a ELSE l[Len(l)].new, b \cup ({x.new} \ {NoBlob}) \subseteq c
  PROVE  Fits(a, HeadOf(Append(l, x)), Append(l, x), c)
<1> DEFINE u == Append(l, x)
<1>1. /\ u \in Seq(Written) /\ Len(u) = Len(l) + 1 /\ u[Len(l) + 1] = x
      /\ \A i \in 1..Len(l) : u[i] = l[i]
  OBVIOUS
<1>2. Len(l) \in Nat /\ (l = <<>> <=> Len(l) = 0)
  OBVIOUS
<1>3. ASSUME NEW i \in 1..Len(u) PROVE SubSeq(u, 1, i - 1) = SubSeq(l, 1, i - 1)
  <2> DEFINE v == SubSeq(u, 1, i - 1)
             w == SubSeq(l, 1, i - 1)
  <2>1. i - 1 \in Nat /\ i - 1 <= Len(l) /\ i - 1 <= Len(u)
    BY <1>1, <1>2
  <2>2. /\ v \in Seq(Written) /\ w \in Seq(Written) /\ Len(v) = i - 1 /\ Len(w) = i - 1
        /\ \A j \in 1..i - 1 : v[j] = u[j] /\ w[j] = l[j]
    BY <1>1, <2>1
  <2> HIDE DEF v, w, u
  <2>3. \A j \in 1..i - 1 : v[j] = w[j]
    BY <1>1, <1>2, <2>1, <2>2
  <2>4. v = w
    BY <2>2, <2>3, SameSeq
  <2> QED BY <2>4 DEF v, w
<1> HIDE DEF u
<1>4. ASSUME NEW i \in 1..Len(u) PROVE u[i].prev = HeadOf(SubSeq(u, 1, i - 1))
  <2>1. CASE i \in 1..Len(l)
    <3>1. l[i].prev = HeadOf(SubSeq(l, 1, i - 1))
      BY <2>1 DEF Fits, Loads
    <3> QED BY <1>1, <1>3, <2>1, <3>1
  <2>2. CASE i = Len(l) + 1
    <3>1. i - 1 = Len(l)
      BY <1>2, <2>2
    <3>2. SubSeq(l, 1, Len(l)) = l
      OBVIOUS
    <3> QED BY <1>1, <1>3, <2>2, <3>1, <3>2
  <2> QED BY <1>1, <1>2, <2>1, <2>2
<1>5. ASSUME NEW i \in 2..Len(u) PROVE u[i].old = u[i - 1].new
  <2>1. CASE i \in 2..Len(l)
    <3>1. l[i].old = l[i - 1].new
      BY <2>1 DEF Fits, Loads
    <3>2. i \in 1..Len(l) /\ i - 1 \in 1..Len(l)
      BY <1>2, <2>1
    <3> QED BY <1>1, <3>1, <3>2
  <2>2. CASE i = Len(l) + 1
    <3>1. i - 1 = Len(l) /\ l # <<>> /\ Len(l) \in 1..Len(l)
      BY <1>1, <1>2, <2>2
    <3> QED BY <1>1, <2>2, <3>1
  <2> QED BY <1>1, <1>2, <2>1, <2>2
<1>6. ASSUME {i \in 1..Len(u) : u[i].new = a} = {} PROVE u[1].old = a
  <2>1. CASE l = <<>>
    BY <1>1, <1>2, <2>1
  <2>2. CASE l # <<>>
    <3>1. \A i \in 1..Len(l) : i \in 1..Len(u)
      BY <1>1, <1>2
    <3>2. {i \in 1..Len(l) : l[i].new = a} = {}
      BY <1>1, <1>6, <3>1
    <3>3. l[1].old = a
      BY <2>2, <3>2 DEF Fits, Loads
    <3>4. 1 \in 1..Len(l)
      BY <1>2, <2>2
    <3> QED BY <1>1, <3>3, <3>4
  <2> QED BY <2>1, <2>2
<1>7. Loads(a, u)
  BY <1>4, <1>5, <1>6 DEF Loads
<1>8. News(u) \subseteq c \cup {NoBlob}
  <2>1. \A i \in 1..Len(l) : l[i].new \in b \cup {NoBlob}
    BY DEF Fits, News
  <2>2. \A i \in 1..Len(u) : i \in 1..Len(l) \/ i = Len(l) + 1
    BY <1>1, <1>2
  <2>3. \A i \in 1..Len(u) : u[i].new \in c \cup {NoBlob}
    BY <1>1, <2>1, <2>2
  <2> QED BY <2>3 DEF News
<1> QED BY <1>7, <1>8 DEF Fits, u

\* A push that works has its repository's forks; none runs in an empty one.
LEMMA NotInEmpty ==
  ASSUME StoreInv, NEW r \in Repos, ForksOf(r) = {}, NEW p \in Pushers, Home[p] = r
  PROVE  push[p].pc \notin Busy
<1>1. push[p] \in PushType /\ Listing(push[p], repo[r])
  BY PushIs DEF StoreInv
<1>2. DOMAIN push[p].seen \subseteq Forks
  BY <1>1, SeenIs
<1> QED BY <1>1, <1>2 DEF Listing, ForksOf

\* tally init.
LEMMA LogCreate ==
  ASSUME StoreInv, LogInv, NEW r \in Repos, NEW b \in Seeds, Create(r, b)
  PROVE  LogInv'
<1> DEFINE x == [id |-> made + 1, prev |-> NoId, old |-> b, new |-> b]
           l == IF b = NoBlob THEN <<>> ELSE Append(<<>>, x)
<1>1. repo \in [Repos -> RepoType] /\ made \in Nat /\ b \in States /\ Main \in Forks
  BY WireAssumption DEF StoreInv, Typed
<1>2. x \in Written /\ x.id = made + 1 /\ x.prev = NoId /\ x.old = b /\ x.new = b
  BY <1>1 DEF Written, Line, NoId
<1>3. <<x>> = Append(<<>>, x)
  OBVIOUS
<1>4. repo' = [repo EXCEPT ![r].anchor[Main] = b, ![r].log[Main] = l, ![r].pool = {b} \ {NoBlob}]
  BY <1>3 DEF Create
<1>5. /\ ForksOf(r) = {} /\ UNCHANGED Local
      /\ made' = IF b = NoBlob THEN made ELSE made + 1
  BY DEF Create, Counted
<1> HIDE DEF x
<1>6. Fits(b, HeadOf(l), l, {b} \ {NoBlob})
  <2>1. CASE b = NoBlob
    BY <2>1, EmptyFits
  <2>2. CASE b # NoBlob
    <3>1. <<>> \in Seq(Written) /\ HeadOf(<<>>) = NoId
      BY DEF HeadOf
    <3>2. Fits(b, HeadOf(<<>>), <<>>, {})
      BY EmptyFits
    <3>3. Fits(b, HeadOf(Append(<<>>, x)), Append(<<>>, x), {b} \ {NoBlob})
      BY <1>2, <3>1, <3>2, FitsGrow
    <3> QED BY <2>2, <3>3
  <2> QED BY <2>1, <2>2
<1> HIDE DEF l
<1>7. /\ \A q \in Repos : q # r => repo'[q] = repo[q]
      /\ repo'[r].anchor = [repo[r].anchor EXCEPT ![Main] = b]
      /\ repo'[r].log = [repo[r].log EXCEPT ![Main] = l]
      /\ repo'[r].pool = {b} \ {NoBlob}
  BY <1>1, <1>4 DEF RepoType
<1>8. /\ repo[r].anchor \in [Forks -> States \cup {NoFork}] /\ repo[r].log \in [Forks -> Seq(Written)]
  BY <1>1 DEF RepoType
<1>9. \A f \in Forks : repo[r].anchor[f] = NoFork
  BY <1>5 DEF ForksOf
<1>10. RepoFit(repo'[r])
  <2>1. ASSUME NEW f \in Forks, f # Main
        PROVE  repo'[r].anchor[f] = NoFork /\ repo'[r].log[f] = <<>>
    BY <1>7, <1>8, <1>9, <2>1 DEF LogInv, RepoFit
  <2>2. repo'[r].anchor[Main] = b /\ repo'[r].log[Main] = l /\ b # NoFork
    BY <1>1, <1>7, <1>8, NoForkAssumption
  <2> QED BY <1>6, <1>7, <2>1, <2>2 DEF RepoFit
<1>11. \A f \in Forks : LogsOf(f)' \subseteq LogsOf(f) \cup {IF f = Main THEN l ELSE <<>>}
  <2>1. ASSUME NEW f \in Forks PROVE repo'[r].log[f] = IF f = Main THEN l ELSE <<>>
    BY <1>1, <1>7, <1>8, <1>9 DEF LogInv, RepoFit
  <2> QED BY <1>5, <1>7, <2>1, LogsOthers
<1>12. LogsAgree'
  <2>1. CASE b = NoBlob
    <3>1. l = <<>>
      BY <2>1 DEF l
    <3> QED BY <1>1, <1>5, <1>11, <2>1, <3>1, LogsStay
  <2>2. CASE b # NoBlob
    <3>1. l = Append(<<>>, x)
      BY <2>2 DEF l
    <3>2. \A f \in Forks : LogsOf(f)' \subseteq LogsOf(f) \cup {<<>>}
                             \cup (IF f = Main THEN {Append(<<>>, x)} ELSE {})
      BY <1>11, <3>1
    <3> QED BY <1>1, <1>2, <1>5, <2>2, <3>2, LogsGrow
  <2> QED BY <2>1, <2>2
<1>13. \A p \in Pushers : Home[p] = r => SeenFit(push[p], repo'[r])
  BY <1>5, NotInEmpty DEF SeenFit
<1> QED BY <1>5, <1>7, <1>10, <1>12, <1>13, LogRepo
\* A command that appends a line: no push of this repository is between its
\* two reads of a fork.
LEMMA LogApply ==
  ASSUME StoreInv, LogInv, LiveEdits = FALSE,
         NEW r \in Repos, NEW f \in Forks, NEW b \in States, Apply(r, f, b)
  PROVE  LogInv'
<1> DEFINE l == repo[r].log[f]
           x == [id |-> made + 1, prev |-> HeadOf(l), old |-> StateOf(r, f), new |-> b]
           c == repo[r].pool \cup ({b} \ {NoBlob})
<1>1. repo \in [Repos -> RepoType] /\ made \in Nat /\ l \in Seq(Written) /\ l \in LogsOf(f)
  BY LogsHave DEF StoreInv, Typed, RepoType
<1>2. HeadOf(l) \in Nat /\ StateOf(r, f) \in States /\ repo[r].anchor[f] # NoFork
  BY <1>1, HeadIs, StateIs DEF Apply, StoreInv, ForksOf
<1>3. /\ x \in Written /\ x.id = made + 1 /\ x.prev = HeadOf(l) /\ x.new = b
      /\ x.old = IF l = <<>> THEN repo[r].anchor[f] ELSE l[Len(l)].new
  <2>1. StateOf(r, f) = IF l = <<>> THEN repo[r].anchor[f] ELSE l[Len(l)].new
    BY DEF StateOf
  <2> HIDE DEF l
  <2> QED BY <1>1, <1>2, <2>1 DEF Written, Line, NoId
<1>4. /\ repo' = [repo EXCEPT ![r].log[f] = Append(l, x), ![r].pool = @ \cup ({b} \ {NoBlob})]
      /\ UNCHANGED Local /\ made' = made + 1
  BY DEF Apply, Counted
<1> HIDE DEF x
<1>5. /\ \A q \in Repos : q # r => repo'[q] = repo[q]
      /\ repo'[r].anchor = repo[r].anchor
      /\ repo'[r].log = [repo[r].log EXCEPT ![f] = Append(l, x)]
      /\ repo'[r].pool = c
  BY <1>1, <1>4 DEF RepoType
<1>6. Fits(repo[r].anchor[f], HeadOf(Append(l, x)), Append(l, x), c)
  <2>1. Fits(repo[r].anchor[f], HeadOf(l), l, repo[r].pool)
    BY <1>2 DEF LogInv, RepoFit
  <2> HIDE DEF l
  <2> QED BY <1>1, <1>3, <2>1, FitsGrow
<1>7. /\ repo[r].log \in [Forks -> Seq(Written)]
      /\ \A g \in Forks : repo'[r].log[g] = IF g = f THEN Append(l, x) ELSE repo[r].log[g]
  BY <1>1, <1>5 DEF RepoType
<1>8. RepoFit(repo'[r])
  <2>1. RepoFit(repo[r])
    BY DEF LogInv
  <2>2. ASSUME NEW g \in Forks, g # f
        PROVE  IF repo'[r].anchor[g] = NoFork THEN repo'[r].log[g] = <<>>
               ELSE Fits(repo'[r].anchor[g], HeadOf(repo'[r].log[g]), repo'[r].log[g], c)
    BY <1>5, <1>7, <2>1, <2>2 DEF RepoFit, Fits
  <2>3. repo'[r].log[f] = Append(l, x)
    BY <1>7
  <2> HIDE DEF c, l
  <2> QED BY <1>2, <1>5, <1>6, <2>2, <2>3 DEF RepoFit
<1>9. ASSUME NEW p \in Pushers, Home[p] = r PROVE SeenFit(push[p], repo'[r])
  <2>1. SeenFit(push[p], repo[r]) /\ Whole(push[p])
    BY <1>9, PushIs DEF LogInv
  <2>2. push[p].pc # "reread"
    BY <1>9 DEF Apply
  <2>3. ASSUME push[p].pc \in Busy, NEW g \in DOMAIN push[p].seen, push[p].seen[g] # NoFork
        PROVE  push[p].seen[g].log # NoFork
    <3>1. g \in Forks
      BY PushIs, SeenIs
    <3>2. CASE push[p].pc = "read"
      BY <2>1, <2>3, <3>1, <3>2 DEF Whole, Half
    <3>3. CASE push[p].pc \in Done
      <4>1. push[p].seen[g].log \in Seq(Written)
        BY <2>1, <2>3, <3>3 DEF Whole, ReadWhole
      <4> QED BY <4>1, LinesAre, WireAssumption
    <3> QED BY <2>2, <2>3, <3>2, <3>3 DEF Busy, Done
  <2>4. ASSUME push[p].pc \in Busy, NEW g \in DOMAIN push[p].seen, push[p].seen[g] # NoFork
        PROVE  SeenFits(push[p], repo'[r], g)
    <3>1. SeenFits(push[p], repo[r], g) /\ push[p].seen[g].log # NoFork
      BY <2>1, <2>3, <2>4 DEF SeenFit
    <3> QED BY <1>5, <3>1 DEF SeenFits, Fits
  <2> QED BY <2>4 DEF SeenFit
<1>10. LogsAgree'
  <2>1. ASSUME NEW g \in Forks
        PROVE  LogsOf(g)' \subseteq LogsOf(g) \cup {<<>>}
                             \cup (IF g = f THEN {Append(l, x)} ELSE {})
    <3>1. repo'[r].log[g] = IF g = f THEN Append(l, x) ELSE repo[r].log[g]
      BY <1>7
    <3>2. repo[r].log[g] \in LogsOf(g)
      BY LogsHave
    <3>3. LogsOf(g)' \subseteq LogsOf(g) \cup {repo'[r].log[g]}
      BY <1>4, <1>5, LogsOthers
    <3> HIDE DEF l
    <3> QED BY <3>1, <3>2, <3>3
  <2> HIDE DEF l
  <2> QED BY <1>1, <1>3, <1>4, <2>1, LogsGrow
<1> QED BY <1>4, <1>5, <1>8, <1>9, <1>10, LogRepo

\* tally fork and tally snapshot anchor a fork at a state.
LEMMA LogAnchor ==
  ASSUME StoreInv, LogInv, NEW r \in Repos, NEW f \in Forks,
         (\E g \in Forks : Fork(r, f, g)) \/ Snapshot(r, f)
  PROVE  LogInv'
<1> DEFINE l == repo[r].log[f]
<1>1. repo \in [Repos -> RepoType] /\ made \in Nat /\ l \in Seq(Written)
  BY DEF StoreInv, Typed, RepoType
<1>2. PICK g \in ForksOf(r) : repo' = [repo EXCEPT ![r].anchor[f] = StateOf(r, g)]
  BY DEF Fork, Snapshot
<1>3. /\ \A q \in Repos : q # r => repo'[q] = repo[q]
      /\ repo'[r].anchor = [repo[r].anchor EXCEPT ![f] = StateOf(r, g)]
      /\ repo'[r].log = repo[r].log /\ repo'[r].pool = repo[r].pool
  BY <1>1, <1>2 DEF RepoType
<1>4. /\ StateOf(r, g) \in States /\ StateOf(r, g) # NoFork
      /\ repo[r].anchor \in [Forks -> States \cup {NoFork}]
  BY <1>1, <1>2, StateIs, NoForkAssumption DEF StoreInv, RepoType
<1>5. UNCHANGED Local /\ made' = made + 1
  BY DEF Fork, Snapshot, Counted
<1>6. Fits(repo'[r].anchor[f], HeadOf(l), l, repo[r].pool)
  <2>1. ASSUME NEW h \in Forks, Fork(r, f, h)
        PROVE  Fits(repo'[r].anchor[f], HeadOf(l), l, repo[r].pool)
    <3>1. l = <<>>
      BY <2>1 DEF Fork, ForksOf, LogInv, RepoFit
    <3> QED BY <3>1, EmptyFits
  <2>2. ASSUME Snapshot(r, f)
        PROVE  Fits(repo'[r].anchor[f], HeadOf(l), l, repo[r].pool)
    <3>1. /\ repo[r].anchor[f] # NoFork /\ l # <<>>
          /\ repo'[r].anchor[f] = l[Len(l)].new
      <4>1. /\ repo[r].anchor[f] # NoFork /\ repo[r].anchor[f] # StateOf(r, f)
            /\ repo' = [repo EXCEPT ![r].anchor[f] = StateOf(r, f)]
        BY <2>2 DEF Snapshot, ForksOf
      <4>2. repo'[r].anchor[f] = StateOf(r, f)
        BY <1>1, <4>1 DEF RepoType
      <4> QED BY <4>1, <4>2 DEF StateOf
    <3>2. Fits(repo[r].anchor[f], HeadOf(l), l, repo[r].pool)
      BY <3>1 DEF LogInv, RepoFit
    <3> HIDE DEF l
    <3>3. Len(l) \in 1..Len(l)
      BY <1>1, <3>1
    <3>4. Loads(l[Len(l)].new, l)
      BY <3>2, <3>3 DEF Fits, Loads
    <3> QED BY <3>1, <3>2, <3>4 DEF Fits
  <2> QED BY <2>1, <2>2
<1>7. RepoFit(repo'[r])
  <2>1. ASSUME NEW h \in Forks, h # f PROVE repo'[r].anchor[h] = repo[r].anchor[h]
    BY <1>3, <1>4, <2>1
  <2> QED BY <1>3, <1>4, <1>6, <2>1 DEF LogInv, RepoFit
<1>8. \A h \in Forks : LogsOf(h)' \subseteq LogsOf(h) \cup {<<>>}
  BY <1>3, <1>5, LogsOthers, LogsHave
<1>9. LogsAgree'
  BY <1>1, <1>5, <1>8, LogsStay
<1>10. \A p \in Pushers : Home[p] = r => SeenFit(push[p], repo'[r])
  BY <1>3 DEF LogInv, SeenFit, SeenFits
<1> QED BY <1>3, <1>5, <1>7, <1>9, <1>10, LogRepo

\* clone copies what the store has, into a repository that has nothing.
LEMMA LogClone ==
  ASSUME StoreInv, LogInv, NEW r \in Repos, Clone(r)
  PROVE  LogInv'
<1> DEFINE m == Latest(chain)
<1>1. /\ repo \in [Repos -> RepoType] /\ made \in Nat /\ chain \in Seq(Manifest)
      /\ ForksOf(r) = {} /\ UNCHANGED Local /\ made' = made
  BY DEF StoreInv, Typed, Clone
<1>2. Len(chain) \in 1..Len(chain) /\ m = chain[Len(chain)]
  BY <1>1 DEF Clone, Latest
<1>3. HeadsFit(m) /\ m \in Manifest /\ \A f \in Forks : LogOf(m, f) \in LogsOf(f)
  BY <1>1, <1>2, LogsHave DEF LogInv
<1>4. /\ \A q \in Repos : q # r => repo'[q] = repo[q]
      /\ repo'[r].anchor = [f \in Forks |-> IF m.forks[f] = NoFork THEN NoFork
                                            ELSE m.forks[f].anchor]
      /\ repo'[r].log = [f \in Forks |-> LogOf(m, f)]
      /\ repo'[r].pool = Stored(m)
  BY <1>1 DEF Clone
<1> HIDE DEF m
<1>5. RepoFit(repo'[r])
  <2>1. ASSUME NEW f \in Forks, m.forks[f] = NoFork
        PROVE  repo'[r].anchor[f] = NoFork /\ repo'[r].log[f] = <<>>
    BY <1>4, <2>1 DEF LogOf
  <2>2. ASSUME NEW f \in Forks, m.forks[f] # NoFork
        PROVE  /\ repo'[r].anchor[f] = m.forks[f].anchor /\ repo'[r].anchor[f] # NoFork
               /\ Fits(m.forks[f].anchor, HeadOf(LogOf(m, f)), LogOf(m, f), Stored(m))
               /\ repo'[r].log[f] = LogOf(m, f)
    <3>1. m.forks[f].anchor \in States
      BY <1>3, <2>2 DEF Manifest, ForkHead
    <3>2. Fits(m.forks[f].anchor, m.forks[f].head, LogOf(m, f), Stored(m))
      BY <1>3, <2>2 DEF HeadsFit
    <3> QED BY <1>4, <2>2, <3>1, <3>2, NoForkAssumption DEF Fits
  <2> QED BY <1>4, <2>1, <2>2 DEF RepoFit
<1>6. \A f \in Forks : LogsOf(f)' \subseteq LogsOf(f) \cup {<<>>}
  BY <1>1, <1>3, <1>4, LogsOthers
<1>7. LogsAgree'
  BY <1>1, <1>6, LogsStay
<1>8. \A p \in Pushers : Home[p] = r => SeenFit(push[p], repo'[r])
  BY <1>1, NotInEmpty DEF SeenFit
<1> QED BY <1>1, <1>4, <1>5, <1>7, <1>8, LogRepo
\* The store is emptied.
LEMMA LogWipe ==
  ASSUME StoreInv, LogInv, Wipe
  PROVE  LogInv'
<1>1. chain' = <<>> /\ UNCHANGED <<repo, push, made>> /\ made \in Nat
  BY DEF Wipe, StoreInv, Typed
<1>2. Len(chain') = 0 /\ 1..0 = {}
  BY <1>1
<1>3. \A f \in Forks : LogsOf(f)' \subseteq LogsOf(f) \cup {<<>>}
  BY <1>1, <1>2 DEF LogsOf
<1>4. LogsAgree'
  BY <1>1, <1>3, LogsStay
<1> QED BY <1>1, <1>2, <1>4 DEF LogInv

\* Nothing has been logged at first.
LEMMA LogInit == Init => LogInv
<1> SUFFICES ASSUME Init PROVE LogInv
  OBVIOUS
<1>1. /\ Len(chain) = 0 /\ 1..0 = {} /\ DOMAIN <<>> = {}
  BY DEF Init
<1>2. \A r \in Repos, f \in Forks : repo[r].log[f] = <<>> /\ repo[r].anchor[f] = NoFork
  BY DEF Init, NoRepo
<1>3. \A p \in Pushers : push[p].pc = "idle" /\ push[p].seen = <<>>
  BY DEF Init, NoPush
<1>4. \A f \in Forks : LogsOf(f) \subseteq {<<>>}
  <2>1. \A p \in Pushers, f \in Forks : Held(push[p], f) = {}
    BY <1>1, <1>3 DEF Held
  <2> QED BY <1>1, <1>2, <2>1 DEF LogsOf
<1>5. LogsAgree
  <2>1. \A l \in {<<>>} : Old(l) /\ \A k \in {<<>>} : Agree(l, k)
    BY EmptyAgrees
  <2> QED BY <1>4, <2>1 DEF LogsAgree
<1>6. \A r \in Repos : RepoFit(repo[r])
  BY <1>2 DEF RepoFit
<1>7. \A p \in Pushers : SeenFit(push[p], repo[Home[p]]) /\ PutFit(push[p])
  BY <1>3 DEF SeenFit, PutFit, Busy
<1> QED BY <1>1, <1>5, <1>6, <1>7 DEF LogInv

\* Every step keeps the logs in agreement, if none appends between two reads.
LEMMA LogNext ==
  ASSUME StoreInv, LogInv, LiveEdits = FALSE, [Next]_vars
  PROVE  LogInv'
<1>1. ASSUME NEW r \in Repos, Clone(r) PROVE LogInv'
  BY <1>1, LogClone
<1>2. ASSUME NEW r \in Repos, NEW b \in Seeds, Create(r, b) PROVE LogInv'
  BY <1>2, LogCreate
<1>3. ASSUME NEW r \in Repos, NEW f \in Forks, Snapshot(r, f) PROVE LogInv'
  BY <1>3, LogAnchor
<1>4. ASSUME NEW r \in Repos, NEW f \in Forks, NEW g \in Forks, Fork(r, f, g) PROVE LogInv'
  BY <1>4, LogAnchor
<1>5. ASSUME NEW r \in Repos, NEW f \in Forks, NEW b \in Blobs \cup {NoBlob}, Apply(r, f, b)
      PROVE  LogInv'
  BY <1>5, LogApply DEF States
<1>6. ASSUME NEW p \in Pushers, Push(p) PROVE LogInv'
  BY <1>6, LogStop, LogFind, LogReadState, LogReadLines, LogPlan, LogUpload, LogPublish DEF Push
<1>7. ASSUME NEW p \in Pushers, Kill(p) PROVE LogInv'
  BY <1>7, LogStop
<1>8. CASE UNCHANGED vars
  <2>1. /\ repo' = repo /\ chain' = chain /\ push' = push /\ made' = made /\ made \in Nat
    BY <1>8 DEF vars, StoreInv, Typed
  <2>2. LogsAgree'
    BY <2>1, LogsStay DEF LogsOf
  <2> QED BY <2>1, <2>2 DEF LogInv
<1> QED BY <1>1, <1>2, <1>3, <1>4, <1>5, <1>6, <1>7, <1>8, LogWipe DEF Next

\* The logs agree in every state, if no editor appends between a push's two
\* reads of one fork.
LEMMA LogAlways ==
  ASSUME LiveEdits = FALSE
  PROVE  Spec => [](StoreInv /\ LogInv)
<1>1. Init => StoreInv /\ LogInv
  BY StoreInit, LogInit
<1>2. StoreInv /\ LogInv /\ [Next]_vars => (StoreInv /\ LogInv)'
  BY StoreNext, LogNext
<1> QED BY <1>1, <1>2, PTL DEF Spec

\* The last manifest fits, and its logs agree with every copy.
LEMMA LatestFits ==
  ASSUME StoreInv, LogInv
  PROVE  /\ HeadsFit(Latest(chain))
         /\ \A f \in Forks : LogOf(Latest(chain), f) \in LogsOf(f) \cup {<<>>}
<1>1. CASE chain = <<>>
  <2>1. Latest(chain) = EmptyStore /\ HeadsFit(EmptyStore)
    BY <1>1 DEF Latest, HeadsFit, EmptyStore
  <2> QED BY <2>1, EmptyPacked
<1>2. CASE chain # <<>>
  <2>1. Len(chain) \in 1..Len(chain) /\ Latest(chain) = chain[Len(chain)]
    BY <1>2 DEF StoreInv, Typed, Latest
  <2> QED BY <2>1, LogsHave DEF LogInv
<1> QED BY <1>1, <1>2

\* An image holds each blob and each line once.
LEMMA StoreIsSet ==
  ASSUME StoreInv, LogInv
  PROVE  ImageIsSet
<1> DEFINE m == Latest(chain)
<1>1. Packed(m)
  BY LatestPacked DEF StoreInv, Typed
<1>2. ASSUME NEW f \in Forks PROVE IsInjective(LogOf(m, f))
  <2>1. LogOf(m, f) \in LogsOf(f) \cup {<<>>}
    BY LatestFits
  <2> DEFINE l == LogOf(m, f)
  <2>2. l \in Seq(Line)
    BY <1>1, LogIs DEF Packed
  <2>3. Agree(l, l)
    BY <2>1, EmptyAgrees DEF LogInv, LogsAgree
  <2> HIDE DEF l
  <2>4. DOMAIN l = 1..Len(l)
    BY <2>2
  <2>5. IsInjective(l)
    BY <2>3, <2>4 DEF IsInjective, Agree
  <2> QED BY <2>5 DEF l
<1> QED BY <1>1, <1>2 DEF ImageIsSet, Packed, Named

\* I12: if no editor appends between a push's two reads of a fork, no blob is
\* held by two live segments and no line of a fork travels twice, however
\* pushes race, fold, die and retry (delta.rs plan, assemble; segment.rs
\* build_segments).
THEOREM ImageAlwaysSet ==
  ASSUME LiveEdits = FALSE
  PROVE  Spec => []ImageIsSet
<1>1. StoreInv /\ LogInv => ImageIsSet
  BY StoreIsSet
<1> QED BY <1>1, LogAlways, PTL
-----------------------------------------------------------------------------
(* The invariant of the caches, if no two pushes run in one repository and *)
(* none dies between the two unlinks of invalidate.                        *)

\* A log has a line, unless none is asked for.
Reaches(l, id) == id \in {NoFork, NoId} \/ \E i \in 1..Len(l) : l[i].id = id

\* The synced heads of repository r are lines of its cached manifest's logs.
Synced(r) == \A f \in Forks : Reaches(LogOf(Latest(r.cache), f), r.synced[f])

\* What a push record x works on is what its repository r has cached, and the
\* synced heads it knows are recorded there.
CacheFit(x, r) ==
  /\ x.pc \in {"read", "reread", "put", "mark"} => r.cache = x.base
  /\ x.pc = "won" => IsPrefix(r.cache, x.base)
  /\ x.pc \in {"read", "reread"} => x.known = r.synced

\* Everything a push read is in manifest m.
Landed(m, seen) == \A f \in DOMAIN seen : IsPrefix(seen[f].log, LogOf(m, f))

LandFit(x) ==
  /\ x.pc = "put" => Landed(NextOf(x), x.seen)
  /\ x.pc \in {"won", "mark"} => Landed(Latest(x.base), x.seen)

CacheInv ==
  /\ \A r \in Repos :
       (\A p \in Pushers : Home[p] = r => push[p].pc # "forget") => Synced(repo[r])
  /\ \A p \in Pushers : CacheFit(push[p], repo[Home[p]]) /\ LandFit(push[p])

\* No repository has two pushes.
OneEach == \A p, q \in Pushers : Home[p] = Home[q] => p = q

\* A line stays in a log that extends it.
LEMMA ReachesMore ==
  ASSUME NEW l \in Seq(Line), NEW k \in Seq(Line), IsPrefix(l, k), NEW id, Reaches(l, id)
  PROVE  Reaches(k, id)
<1>1. Len(l) <= Len(k) /\ \A i \in 1..Len(l) : l[i] = k[i]
  BY PrefixIs
<1>2. Len(l) \in Nat /\ Len(k) \in Nat
  OBVIOUS
<1>3. \A i \in 1..Len(l) : i \in 1..Len(k)
  BY <1>1, <1>2
<1> QED BY <1>1, <1>3 DEF Reaches

\* A log has its head.
LEMMA ReachesHead ==
  ASSUME NEW l \in Seq(Written)
  PROVE  Reaches(l, HeadOf(l))
BY HeadIs DEF Reaches

\* A copy whose head is a line of another copy is its beginning.
LEMMA HeadPrefix ==
  ASSUME NEW l \in Seq(Written), NEW k \in Seq(Written), Agree(l, k), Reaches(k, HeadOf(l))
  PROVE  IsPrefix(l, k)
<1>1. CASE l = <<>>
  <2>1. Len(l) = 0 /\ 0 <= Len(k) /\ \A i \in 1..Len(l) : l[i] = k[i]
    BY <1>1
  <2> QED BY <2>1, PrefixOf
<1>2. CASE l # <<>>
  <2>1. Len(l) \in 1..Len(l) /\ HeadOf(l) = l[Len(l)].id /\ HeadOf(l) # NoId /\ HeadOf(l) \in Nat
    BY <1>2, HeadIs
  <2>2. PICK j \in 1..Len(k) : k[j].id = l[Len(l)].id
    BY <2>1, NoForkAssumption DEF Reaches
  <2>3. Len(l) = j /\ \A n \in 1..Len(l) : l[n] = k[n]
    BY <2>1, <2>2 DEF Agree
  <2> QED BY <2>3, PrefixOf
<1> QED BY <1>1, <1>2

\* A push touches its own repository only.
LEMMA PushOwn ==
  ASSUME StoreInv, NEW p \in Pushers, Push(p) \/ Kill(p)
  PROVE  \A r \in Repos : r # Home[p] => repo'[r] = repo[r]
<1>1. repo \in [Repos -> RepoType]
  BY PushIs
<1>2. \/ UNCHANGED repo
      \/ \E c : repo' = [repo EXCEPT ![Home[p]].cache = c]
      \/ \E s : repo' = [repo EXCEPT ![Home[p]].synced = s]
  BY DEF Push, Kill, Find, Forget, ForgetSynced, ReadState, ReadLines, Refuse, Idle, Plan, Upload,
     Publish, Lose, Remember, Mark
<1>3. CASE UNCHANGED repo
  BY <1>3
<1>4. ASSUME NEW c, repo' = [repo EXCEPT ![Home[p]].cache = c]
      PROVE  \A r \in Repos : r # Home[p] => repo'[r] = repo[r]
  BY <1>1, <1>4
<1>5. ASSUME NEW s, repo' = [repo EXCEPT ![Home[p]].synced = s]
      PROVE  \A r \in Repos : r # Home[p] => repo'[r] = repo[r]
  BY <1>1, <1>5
<1> QED BY <1>2, <1>3, <1>4, <1>5

\* A push that is not half way through invalidate has its synced heads cached.
LEMMA SyncedHere ==
  ASSUME StoreInv, CacheInv, OneEach, NEW p \in Pushers, push[p].pc # "forget"
  PROVE  Synced(repo[Home[p]])
BY PushIs DEF CacheInv, OneEach

\* A push moves on.
LEMMA CachePush ==
  ASSUME StoreInv, CacheInv, OneEach, NEW p \in Pushers, Push(p) \/ Kill(p),
         push'[p].pc # "forget" => Synced(repo'[Home[p]]),
         CacheFit(push'[p], repo'[Home[p]]), LandFit(push'[p])
  PROVE  CacheInv'
<1>1. \A r \in Repos : r # Home[p] => repo'[r] = repo[r]
  BY PushOwn
<1>2. \A q \in Pushers : q # p => push'[q] = push[q] /\ Home[q] # Home[p] /\ Home[q] \in Repos
  BY PushKeeps, PushIs DEF OneEach
<1>3. ASSUME NEW r \in Repos, \A q \in Pushers : Home[q] = r => push'[q].pc # "forget"
      PROVE  Synced(repo'[r])
  <2>1. CASE r = Home[p]
    BY <1>3, <2>1
  <2>2. CASE r # Home[p]
    <3>1. \A q \in Pushers : Home[q] = r => push[q].pc # "forget"
      BY <1>2, <1>3, <2>2
    <3> QED BY <1>1, <2>2, <3>1 DEF CacheInv
  <2> QED BY <2>1, <2>2
<1>4. ASSUME NEW q \in Pushers PROVE CacheFit(push'[q], repo'[Home[q]]) /\ LandFit(push'[q])
  BY <1>1, <1>2 DEF CacheInv
<1> QED BY <1>3, <1>4 DEF CacheInv

\* A push stops, or starts over, having touched nothing.
LEMMA CacheRest ==
  ASSUME StoreInv, CacheInv, OneEach, NEW p \in Pushers, Push(p) \/ Kill(p),
         Synced(repo'[Home[p]]), push'[p].pc \in {"idle", "again"}
  PROVE  CacheInv'
<1>1. CacheFit(push'[p], repo'[Home[p]]) /\ LandFit(push'[p])
  BY DEF CacheFit, LandFit
<1> QED BY <1>1, CachePush

\* A chain that goes on reaches what it reached.
LEMMA SyncedMore ==
  ASSUME NEW a \in Seq(Manifest), NEW c \in Seq(Manifest), IsPrefix(a, c), ChainSound(c),
         NEW s, \A f \in Forks : Reaches(LogOf(Latest(a), f), s[f])
  PROVE  \A f \in Forks : Reaches(LogOf(Latest(c), f), s[f])
<1> TAKE f \in Forks
<1>1. ChainSound(a)
  BY PrefixSound
<1>2. Latest(a) \in Manifest /\ Latest(c) \in Manifest
  BY <1>1, LatestPacked
<1>3. IsPrefix(LogOf(Latest(a), f), LogOf(Latest(c), f))
  BY LatestExtends DEF Extends
<1>4. LogOf(Latest(a), f) \in Seq(Line) /\ LogOf(Latest(c), f) \in Seq(Line)
  BY <1>2, LogIs
<1> QED BY <1>3, <1>4, ReachesMore

\* discover.
LEMMA CacheFind ==
  ASSUME StoreInv, CacheInv, OneEach, NEW p \in Pushers, Find(p)
  PROVE  CacheInv'
<1> DEFINE r == Home[p]
<1>1. /\ repo \in [Repos -> RepoType] /\ r \in Repos /\ push \in [Pushers -> PushType]
      /\ push[p] \in PushType /\ chain \in Seq(Manifest) /\ Push(p)
  BY PushIs DEF Push
<1>2. /\ push[p].pc \in {"idle", "again"} /\ IsPrefix(repo[r].cache, chain)
      /\ repo' = [repo EXCEPT ![r].cache = chain] /\ chain' = chain
  BY DEF Find, Begins
<1>3. repo'[r].cache = chain /\ repo'[r].synced = repo[r].synced /\ repo[r].cache \in Seq(Manifest)
  BY <1>1, <1>2 DEF RepoType
<1>4. Synced(repo'[r])
  <2>1. Synced(repo[r])
    BY <1>2, SyncedHere
  <2>2. ChainSound(chain)
    BY DEF StoreInv
  <2> QED BY <1>1, <1>2, <1>3, <2>1, <2>2, SyncedMore DEF Synced
<1>5. CASE ~Loadable(Latest(chain))
  <2>1. push'[p].pc = "idle"
    BY <1>1, <1>5 DEF Find, Step, NoPush
  <2> QED BY <1>1, <1>4, <2>1, CacheRest
<1>6. CASE Loadable(Latest(chain))
  <2>1. /\ push'[p].pc = "read" /\ push'[p].base = chain /\ push'[p].known = repo[r].synced
    BY <1>1, <1>6 DEF Find, Step, PushType
  <2>2. CacheFit(push'[p], repo'[r]) /\ LandFit(push'[p])
    BY <1>3, <2>1 DEF CacheFit, LandFit
  <2> QED BY <1>1, <1>4, <2>2, CachePush
<1> QED BY <1>5, <1>6

\* RemoteCache::invalidate: the cached manifest goes first, the heads next.
LEMMA CacheForget ==
  ASSUME StoreInv, CacheInv, OneEach, NEW p \in Pushers, Forget(p) \/ ForgetSynced(p)
  PROVE  CacheInv'
<1> DEFINE r == Home[p]
<1>1. /\ repo \in [Repos -> RepoType] /\ r \in Repos /\ push \in [Pushers -> PushType]
      /\ push[p] \in PushType /\ Push(p)
  BY PushIs DEF Push
<1>2. CASE Forget(p)
  <2>1. push'[p].pc = "forget"
    BY <1>1, <1>2 DEF Forget, Step, PushType
  <2>2. CacheFit(push'[p], repo'[r]) /\ LandFit(push'[p])
    BY <2>1 DEF CacheFit, LandFit
  <2> QED BY <1>1, <2>1, <2>2, CachePush
<1>3. CASE ForgetSynced(p)
  <2>1. push'[p].pc = "again"
    BY <1>1, <1>3 DEF ForgetSynced, Step, PushType
  <2>2. repo'[r].synced = NoRepo.synced
    BY <1>1, <1>3 DEF ForgetSynced, RepoType
  <2>3. Synced(repo'[r])
    BY <2>2 DEF Synced, Reaches, NoRepo
  <2> QED BY <1>1, <2>1, <2>3, CacheRest
<1> QED BY <1>2, <1>3

\* A push goes on, and its repository stays.
LEMMA CacheWorks ==
  ASSUME StoreInv, CacheInv, OneEach, NEW p \in Pushers, Push(p), push[p].pc \in Busy,
         push'[p].pc # "forget", UNCHANGED repo,
         CacheFit(push'[p], repo[Home[p]]), LandFit(push'[p])
  PROVE  CacheInv'
<1>1. Synced(repo[Home[p]])
  BY SyncedHere DEF Busy
<1> QED BY <1>1, CachePush

\* It reads: its base and what it knows stay.
LEMMA CacheReads ==
  ASSUME StoreInv, CacheInv, OneEach, NEW p \in Pushers, ReadState(p) \/ ReadLines(p)
  PROVE  CacheInv'
<1>1. /\ push \in [Pushers -> PushType] /\ push[p] \in PushType /\ Push(p)
      /\ push[p].pc \in {"read", "reread"} /\ UNCHANGED repo
  BY PushIs DEF Push, ReadState, ReadLines
<1>2. /\ push'[p].pc \in {"read", "reread"}
      /\ push'[p].base = push[p].base /\ push'[p].known = push[p].known
  <2>1. CASE ReadState(p)
    <3>1. PICK f \in DOMAIN push[p].seen :
            push' = [push EXCEPT ![p] = [push[p] EXCEPT !.pc = "reread",
              !.seen[f] = [anchor |-> repo[Home[p]].anchor[f],
                           head |-> HeadOf(repo[Home[p]].log[f]), log |-> NoFork]]]
      BY <2>1, ReadStateIs
    <3> QED BY <1>1, <3>1 DEF PushType
  <2>2. CASE ReadLines(p)
    <3>1. PICK f \in DOMAIN push[p].seen :
            push' = [push EXCEPT ![p] = [push[p] EXCEPT !.pc = "read",
                       !.seen[f].log = repo[Home[p]].log[f]]]
      BY <2>2 DEF ReadLines, Step
    <3> QED BY <1>1, <3>1 DEF PushType
  <2> QED BY <2>1, <2>2
<1>3. CacheFit(push[p], repo[Home[p]])
  BY DEF CacheInv
<1>4. CacheFit(push'[p], repo[Home[p]]) /\ LandFit(push'[p])
  BY <1>1, <1>2, <1>3 DEF CacheFit, LandFit
<1> QED BY <1>1, <1>2, <1>4, CacheWorks DEF Busy

\* It gives up, or dies: its repository stays.
LEMMA CacheStop ==
  ASSUME StoreInv, CacheInv, OneEach, TornForget = FALSE, NEW p \in Pushers,
         Refuse(p) \/ Lose(p) \/ Kill(p)
  PROVE  CacheInv'
<1>1. /\ push \in [Pushers -> PushType] /\ push[p] \in PushType /\ (Push(p) \/ Kill(p))
      /\ UNCHANGED repo /\ push[p].pc # "forget"
  BY PushIs DEF Push, Refuse, Lose, Kill, Read, Uploaded
<1>2. push'[p].pc \in {"idle", "again"}
  <2>1. CASE Lose(p) /\ push[p].attempt # MaxAttempts
    <3>1. push'[p] = [NoPush EXCEPT !.pc = "again", !.attempt = push[p].attempt + 1]
      BY <1>1, <2>1 DEF Lose, Step
    <3> QED BY <3>1 DEF NoPush
  <2>2. CASE ~(Lose(p) /\ push[p].attempt # MaxAttempts)
    <3>1. push'[p] = NoPush
      BY <1>1, <2>2 DEF Refuse, Lose, Kill, Step
    <3> QED BY <3>1 DEF NoPush
  <2> QED BY <2>1, <2>2
<1>3. Synced(repo[Home[p]])
  BY <1>1, SyncedHere
<1> QED BY <1>1, <1>2, <1>3, CacheRest
\* A log begins itself.
LEMMA PrefixSelf ==
  ASSUME NEW l \in Seq(Written)
  PROVE  IsPrefix(l, l)
<1>1. Len(l) <= Len(l) /\ \A i \in 1..Len(l) : l[i] = l[i]
  OBVIOUS
<1> QED BY <1>1, PrefixOf

\* What a push read of a fork whose head it does not move, the store has: it is
\* in sync, or behind, and then its head is the one last synced.
LEMMA ReadLands ==
  ASSUME StoreInv, LogInv, CacheInv, OneEach, NEW p \in Pushers, Read(p), ~SomeDiverged(p),
         NEW f \in DOMAIN push[p].seen, f \notin Heads(Latest(push[p].base), push[p].seen)
  PROVE  IsPrefix(push[p].seen[f].log, LogOf(Latest(push[p].base), f))
<1> DEFINE m == Latest(push[p].base)
           rm == m.forks[f]
           s == push[p].seen[f]
           k == LogOf(m, f)
<1>1. push[p].pc = "read" /\ push[p].pc \in Busy /\ ReadWhole(push[p].seen)
  BY ReadIsWhole DEF Read, Busy
<1>2. f \in Forks /\ s.log \in Seq(Written) /\ s.head = HeadOf(s.log) /\ Agree(s.log, k)
  BY <1>1, ReadFits
<1>3. k \in Seq(Written) /\ (rm # NoFork => HeadOf(k) = rm.head)
  BY <1>1, <1>2, BaseFits DEF HeadsFit, Fits
<1>4. ~Advances(rm, s)
  BY DEF Heads
<1>5. CASE InSync(rm, s)
  <2>1. HeadOf(k) = HeadOf(s.log)
    BY <1>2, <1>3, <1>5 DEF InSync
  <2>2. s.log = k
    BY <1>2, <1>3, <2>1, SameHead
  <2> HIDE DEF k, s
  <2> QED BY <1>3, <2>2, PrefixSelf DEF k, s
<1>6. CASE ~InSync(rm, s)
  <2>1. push[p].known[f] = s.head
    BY <1>4, <1>6 DEF SomeDiverged, Diverged, Lacks
  <2>2. repo[Home[p]].cache = push[p].base /\ push[p].known = repo[Home[p]].synced
    BY <1>1 DEF CacheInv, CacheFit
  <2>3. Synced(repo[Home[p]])
    BY <1>1, SyncedHere
  <2>4. Reaches(k, HeadOf(s.log))
    BY <1>2, <2>1, <2>2, <2>3 DEF Synced
  <2> HIDE DEF k, s
  <2> QED BY <1>2, <1>3, <2>4, HeadPrefix DEF k, s
<1> QED BY <1>5, <1>6

\* So a push with nothing to publish has everything in the store.
LEMMA IdleLands ==
  ASSUME StoreInv, LogInv, CacheInv, OneEach, NEW p \in Pushers, Idle(p)
  PROVE  Landed(Latest(push[p].base), push[p].seen)
<1>1. Read(p) /\ ~SomeDiverged(p) /\ Heads(Latest(push[p].base), push[p].seen) = {}
  BY DEF Idle, NothingNew
<1> QED BY <1>1, ReadLands DEF Landed

\* And one at its end does.
LEMMA EndLands ==
  ASSUME StoreInv, LogInv, CacheInv, OneEach, NEW p \in Pushers, Idle(p) \/ Mark(p)
  PROVE  /\ Landed(Latest(push[p].base), push[p].seen) /\ ReadWhole(push[p].seen)
         /\ push[p].pc \in Busy /\ repo[Home[p]].cache = push[p].base
<1>1. CASE Idle(p)
  <2>1. push[p].pc = "read" /\ ReadWhole(push[p].seen)
    BY <1>1, ReadIsWhole DEF Idle, Read
  <2>2. repo[Home[p]].cache = push[p].base
    BY <2>1 DEF CacheInv, CacheFit
  <2> QED BY <1>1, <2>1, <2>2, IdleLands DEF Busy
<1>2. CASE Mark(p)
  <2>1. push[p].pc = "mark" /\ Whole(push[p])
    BY <1>2, PushIs DEF Mark
  <2>2. repo[Home[p]].cache = push[p].base /\ Landed(Latest(push[p].base), push[p].seen)
    BY <2>1 DEF CacheInv, CacheFit, LandFit
  <2> QED BY <2>1, <2>2 DEF Busy, Whole, Done
<1> QED BY <1>1, <1>2

\* It planned: what it will publish has everything it read.
LEMMA CachePlan ==
  ASSUME StoreInv, LogInv, CacheInv, OneEach, NEW p \in Pushers, Plan(p)
  PROVE  CacheInv'
<1>1. PICK segs \in Seq(Segment) :
        /\ push' = [push EXCEPT ![p] = [push[p] EXCEPT !.pc = "put", !.segs = segs, !.put = 0]]
        /\ Planned(Latest(push[p].base), push[p].seen, repo[Home[p]].pool, segs)
        /\ UNCHANGED <<repo, chain, objects, made, faults>>
  BY PlanIs
<1>2. /\ push \in [Pushers -> PushType] /\ push[p] \in PushType /\ push[p].pc = "read"
      /\ push[p].pc \in Busy /\ Push(p) /\ Read(p) /\ ReadWhole(push[p].seen) /\ ~SomeDiverged(p)
  BY PushIs, ReadIsWhole DEF Plan, Read, Push, Busy
<1> DEFINE x == push'[p]
           m == Latest(push[p].base)
           seen == push[p].seen
           n == Assembled(m, seen, segs)
<1>3. x.pc = "put" /\ x.segs = segs /\ x.base = push[p].base /\ x.seen = seen
  BY <1>1, <1>2 DEF PushType
<1>4. repo[Home[p]].cache = push[p].base
  BY <1>2 DEF CacheInv, CacheFit
<1>5. \A f \in Forks : LogOf(n, f) = IF f \in Heads(m, seen) THEN seen[f].log ELSE LogOf(m, f)
  BY <1>1, <1>2, PlanFits
<1>6. \A f \in DOMAIN seen : f \in Forks /\ seen[f].log \in Seq(Written)
  BY <1>2 DEF ReadWhole
<1>7. \A f \in DOMAIN seen : f \notin Heads(m, seen) => IsPrefix(seen[f].log, LogOf(m, f))
  BY <1>2, ReadLands
<1>8. NextOf(x) = n
  BY <1>3 DEF NextOf
<1> HIDE DEF x, m, seen, n
<1>9. Landed(n, seen)
  BY <1>5, <1>6, <1>7, PrefixSelf DEF Landed
<1>10. CacheFit(x, repo[Home[p]]) /\ LandFit(x)
  BY <1>3, <1>4, <1>8, <1>9 DEF CacheFit, LandFit
<1> QED BY <1>1, <1>2, <1>3, <1>10, CacheWorks DEF x
\* Uploading changes nothing it will publish.
LEMMA CacheUpload ==
  ASSUME StoreInv, CacheInv, OneEach, NEW p \in Pushers, Upload(p)
  PROVE  CacheInv'
<1>1. /\ push \in [Pushers -> PushType] /\ push[p] \in PushType /\ push[p].pc = "put"
      /\ Push(p) /\ UNCHANGED repo /\ CacheFit(push[p], repo[Home[p]]) /\ LandFit(push[p])
  BY PushIs DEF Upload, Push, CacheInv
<1>2. /\ push'[p].pc = "put" /\ push'[p].seen = push[p].seen
      /\ push'[p].base = push[p].base /\ push'[p].segs = push[p].segs
  BY <1>1 DEF Upload, Step, PushType
<1>3. NextOf(push'[p]) = NextOf(push[p])
  BY <1>2 DEF NextOf
<1>4. CacheFit(push'[p], repo[Home[p]]) /\ LandFit(push'[p])
  BY <1>1, <1>2, <1>3 DEF CacheFit, LandFit
<1> QED BY <1>1, <1>2, <1>4, CacheWorks DEF Busy

\* Publishing: the store has what the push read.
LEMMA CachePublish ==
  ASSUME StoreInv, CacheInv, OneEach, NEW p \in Pushers, Publish(p)
  PROVE  CacheInv'
<1> DEFINE n == NextOf(push[p])
           c == repo[Home[p]].cache
<1>1. push[p].base = chain /\ chain' = Append(chain, n) /\ push[p].pc = "put" /\ n \in Manifest
  BY PublishIs
<1>2. /\ push \in [Pushers -> PushType] /\ push[p] \in PushType /\ chain \in Seq(Manifest)
      /\ Push(p) /\ UNCHANGED repo
  BY PushIs DEF Publish, Push
<1>3. c = chain /\ Landed(n, push[p].seen)
  BY <1>1 DEF CacheInv, CacheFit, LandFit
<1>4. push'[p].pc = "won" /\ push'[p].seen = push[p].seen /\ push'[p].base = chain'
  <2>1. push' = [push EXCEPT ![p] = [push[p] EXCEPT !.pc = "won", !.base = chain']]
    BY DEF Publish, Step
  <2> QED BY <1>2, <2>1 DEF PushType
<1> HIDE DEF n, c
<1>5. /\ Len(chain') = Len(chain) + 1 /\ chain'[Len(chain) + 1] = n /\ chain' \in Seq(Manifest)
      /\ \A i \in 1..Len(chain) : chain'[i] = chain[i]
  BY <1>1, <1>2
<1>6. IsPrefix(chain, chain')
  <2>1. Len(chain) <= Len(chain')
    BY <1>2, <1>5
  <2> QED BY <1>2, <1>5, <2>1, PrefixOf
<1>7. Latest(chain') = n
  BY <1>2, <1>5 DEF Latest
<1>8. CacheFit(push'[p], repo[Home[p]]) /\ LandFit(push'[p])
  BY <1>3, <1>4, <1>6, <1>7 DEF CacheFit, LandFit, c
<1> QED BY <1>1, <1>2, <1>4, <1>8, CacheWorks DEF Busy

\* After the commit point: the cached manifest, which extends the one it was.
LEMMA CacheRemember ==
  ASSUME StoreInv, CacheInv, OneEach, NEW p \in Pushers, Remember(p)
  PROVE  CacheInv'
<1> DEFINE r == Home[p]
           b == push[p].base
<1>1. /\ repo \in [Repos -> RepoType] /\ r \in Repos /\ push \in [Pushers -> PushType]
      /\ push[p] \in PushType /\ b \in Seq(Manifest) /\ chain \in Seq(Manifest) /\ Push(p)
      /\ push[p].pc = "won" /\ push[p].pc \in Busy /\ Sound(push[p], chain)
  BY PushIs DEF Push, Remember, Busy
<1>2. repo'[r].cache = b /\ repo'[r].synced = repo[r].synced /\ repo[r].cache \in Seq(Manifest)
  BY <1>1 DEF Remember, RepoType
<1>3. push'[p].pc = "mark" /\ push'[p].base = b /\ push'[p].seen = push[p].seen
  BY <1>1 DEF Remember, Step, PushType
<1>4. IsPrefix(repo[r].cache, b) /\ Landed(Latest(b), push[p].seen)
  BY <1>1 DEF CacheInv, CacheFit, LandFit
<1>5. ChainSound(b)
  <2>1. IsPrefix(b, chain) /\ ChainSound(chain)
    BY <1>1 DEF Sound, StoreInv
  <2> HIDE DEF b
  <2> QED BY <1>1, <2>1, PrefixSound
<1>6. Synced(repo[r])
  BY <1>1, SyncedHere
<1> HIDE DEF b
<1>7. Synced(repo'[r])
  BY <1>1, <1>2, <1>4, <1>5, <1>6, SyncedMore DEF Synced
<1>8. CacheFit(push'[p], repo'[r]) /\ LandFit(push'[p])
  BY <1>2, <1>3, <1>4 DEF CacheFit, LandFit
<1> QED BY <1>1, <1>7, <1>8, CachePush

\* The synced heads: what the store has of what the push read.
LEMMA CacheMark ==
  ASSUME StoreInv, LogInv, CacheInv, OneEach, NEW p \in Pushers, Idle(p) \/ Mark(p)
  PROVE  CacheInv'
<1> DEFINE r == Home[p]
           m == Latest(push[p].base)
           seen == push[p].seen
<1>1. /\ repo \in [Repos -> RepoType] /\ r \in Repos /\ push \in [Pushers -> PushType]
      /\ push[p] \in PushType /\ Push(p)
  BY PushIs DEF Push
<1>2. /\ Landed(m, seen) /\ ReadWhole(seen) /\ push[p].pc \in Busy
      /\ repo[r].cache = push[p].base
  BY EndLands
<1>3. repo' = [repo EXCEPT ![r].synced = Marked(p)] /\ push'[p].pc = "idle"
  BY <1>1 DEF Idle, Mark, Step, NoPush
<1>4. repo'[r].cache = push[p].base /\ repo'[r].synced = Marked(p)
  BY <1>1, <1>2, <1>3 DEF RepoType
<1>5. Synced(repo[r])
  BY <1>2, SyncedHere DEF Busy
<1>6. \A f \in Forks : LogOf(m, f) \in Seq(Written)
  BY <1>2, BaseFits
<1>7. ASSUME NEW f \in Forks PROVE Reaches(LogOf(m, f), Marked(p)[f])
  <2>1. CASE f \in DOMAIN seen /\ ~Lacks(m.forks[f], seen[f])
    <3>1. Marked(p)[f] = seen[f].head
      BY <2>1 DEF Marked
    <3>2. seen[f].head = HeadOf(seen[f].log) /\ seen[f].log \in Seq(Written)
      BY <1>2, <2>1, ReadFits
    <3>3. Reaches(seen[f].log, HeadOf(seen[f].log))
      BY <3>2, ReachesHead
    <3>4. IsPrefix(seen[f].log, LogOf(m, f))
      BY <1>2, <2>1 DEF Landed
    <3>5. seen[f].log \in Seq(Line) /\ LogOf(m, f) \in Seq(Line)
      BY <1>6, <3>2, LinesAre
    <3> HIDE DEF seen, m
    <3> QED BY <3>1, <3>2, <3>3, <3>4, <3>5, ReachesMore
  <2>2. CASE ~(f \in DOMAIN seen /\ ~Lacks(m.forks[f], seen[f]))
    <3>1. Marked(p)[f] = repo[r].synced[f]
      BY <2>2 DEF Marked
    <3> QED BY <1>2, <1>5, <3>1 DEF Synced
  <2> QED BY <2>1, <2>2
<1>8. Synced(repo'[r])
  BY <1>4, <1>7 DEF Synced
<1> QED BY <1>1, <1>3, <1>8, CacheRest
\* A command on a repository leaves its cache alone.
LEMMA CacheLocal ==
  ASSUME CacheInv, UNCHANGED push,
         \A r \in Repos : repo'[r].cache = repo[r].cache /\ repo'[r].synced = repo[r].synced
  PROVE  CacheInv'
<1>1. ASSUME NEW r \in Repos, \A q \in Pushers : Home[q] = r => push'[q].pc # "forget"
      PROVE  Synced(repo'[r])
  BY <1>1 DEF CacheInv, Synced
<1>2. ASSUME NEW p \in Pushers PROVE CacheFit(push'[p], repo'[Home[p]]) /\ LandFit(push'[p])
  <2>1. Home[p] \in Repos
    BY WireAssumption
  <2> QED BY <2>1 DEF CacheInv, CacheFit
<1> QED BY <1>1, <1>2 DEF CacheInv

\* clone caches the chain it copied, and its heads.
LEMMA CacheClone ==
  ASSUME StoreInv, LogInv, CacheInv, NEW r \in Repos, Clone(r)
  PROVE  CacheInv'
<1> DEFINE m == Latest(chain)
<1>1. /\ repo \in [Repos -> RepoType] /\ ForksOf(r) = {} /\ UNCHANGED push
  BY DEF StoreInv, Typed, Clone, Local
<1>2. /\ \A q \in Repos : q # r => repo'[q] = repo[q]
      /\ repo'[r].cache = chain
      /\ repo'[r].synced = [f \in Forks |-> IF m.forks[f] = NoFork THEN NoFork
                                            ELSE m.forks[f].head]
  BY <1>1 DEF Clone
<1>3. HeadsFit(m) /\ Packed(m)
  BY LatestFits, LatestPacked DEF StoreInv, Typed
<1> HIDE DEF m
<1>4. ASSUME NEW f \in Forks PROVE Reaches(LogOf(m, f), repo'[r].synced[f])
  <2>1. CASE m.forks[f] = NoFork
    BY <1>2, <2>1 DEF Reaches
  <2>2. CASE m.forks[f] # NoFork
    <3>1. repo'[r].synced[f] = HeadOf(LogOf(m, f))
      BY <1>2, <1>3, <2>2 DEF HeadsFit, Fits
    <3>2. LogOf(m, f) \in Seq(Written)
      BY <1>3 DEF Packed, LogsWritten
    <3> QED BY <3>1, <3>2, ReachesHead
  <2> QED BY <2>1, <2>2
<1>5. Synced(repo'[r])
  BY <1>2, <1>4 DEF Synced, m
<1>6. ASSUME NEW q \in Repos, \A p \in Pushers : Home[p] = q => push'[p].pc # "forget"
      PROVE  Synced(repo'[q])
  <2>1. CASE q = r
    BY <1>5, <2>1
  <2>2. CASE q # r
    BY <1>1, <1>2, <1>6, <2>2 DEF CacheInv
  <2> QED BY <2>1, <2>2
<1>7. ASSUME NEW p \in Pushers PROVE CacheFit(push'[p], repo'[Home[p]]) /\ LandFit(push'[p])
  <2>1. CASE Home[p] = r
    <3>1. push[p].pc \notin Busy
      BY <1>1, <2>1, NotInEmpty
    <3> QED BY <1>1, <3>1 DEF CacheFit, LandFit, Busy
  <2>2. CASE Home[p] # r
    BY <1>1, <1>2, <2>2, WireAssumption DEF CacheInv
  <2> QED BY <2>1, <2>2
<1> QED BY <1>6, <1>7 DEF CacheInv

\* Nothing is cached at first.
LEMMA CacheInit == Init => CacheInv
<1> SUFFICES ASSUME Init PROVE CacheInv
  OBVIOUS
<1>1. \A r \in Repos, f \in Forks : repo[r].synced[f] = NoFork
  BY DEF Init, NoRepo
<1>2. \A p \in Pushers : push[p].pc = "idle"
  BY DEF Init, NoPush
<1> QED BY <1>1, <1>2 DEF CacheInv, Synced, Reaches, CacheFit, LandFit

\* Every step keeps the caches, in such a deployment.
LEMMA CacheNext ==
  ASSUME StoreInv, LogInv, CacheInv, OneEach, TornForget = FALSE, [Next]_vars
  PROVE  CacheInv'
<1>1. ASSUME NEW r \in Repos, Clone(r) PROVE CacheInv'
  BY <1>1, CacheClone
<1>2. repo \in [Repos -> RepoType]
  BY DEF StoreInv, Typed
<1>3. ASSUME NEW r \in Repos, NEW b \in Seeds, Create(r, b) PROVE CacheInv'
  <2>1. \A q \in Repos : repo'[q].cache = repo[q].cache /\ repo'[q].synced = repo[q].synced
    BY <1>2, <1>3 DEF Create, RepoType
  <2> QED BY <1>3, <2>1, CacheLocal DEF Create, Local
<1>4. ASSUME NEW r \in Repos, NEW f \in Forks, Snapshot(r, f) \/ \E g \in Forks : Fork(r, f, g)
      PROVE  CacheInv'
  <2>1. PICK a : repo' = [repo EXCEPT ![r].anchor[f] = a]
    BY <1>4 DEF Snapshot, Fork
  <2>2. \A q \in Repos : repo'[q].cache = repo[q].cache /\ repo'[q].synced = repo[q].synced
    BY <1>2, <2>1 DEF RepoType
  <2> QED BY <1>4, <2>2, CacheLocal DEF Snapshot, Fork, Local
<1>5. ASSUME NEW r \in Repos, NEW f \in Forks, NEW b \in Blobs \cup {NoBlob}, Apply(r, f, b)
      PROVE  CacheInv'
  <2>1. \A q \in Repos : repo'[q].cache = repo[q].cache /\ repo'[q].synced = repo[q].synced
    BY <1>2, <1>5 DEF Apply, RepoType
  <2> QED BY <1>5, <2>1, CacheLocal DEF Apply, Local
<1>6. ASSUME NEW p \in Pushers, Push(p) \/ Kill(p) PROVE CacheInv'
  BY <1>6, CacheFind, CacheForget, CacheReads, CacheStop, CacheMark, CachePlan, CacheUpload,
     CachePublish, CacheRemember DEF Push
<1>7. CASE Wipe \/ UNCHANGED vars
  <2>1. UNCHANGED <<repo, push>>
    BY <1>7 DEF Wipe, vars
  <2> QED BY <2>1, CacheLocal
<1> QED BY <1>1, <1>3, <1>4, <1>5, <1>6, <1>7 DEF Next

\* A push that returns Ok leaves every line it read in the store, or the store
\* was ahead: if no editor appends between its two reads of a fork, no two
\* pushes run in one repository, and none dies between the two unlinks of
\* invalidate, "behind" is never said of a fork that has diverged, and no lost
\* race, fold, retry or emptied store makes it so (delta.rs plan, remote.rs
\* synced_heads, wire.rs push_with).
THEOREM PushesStore ==
  ASSUME LiveEdits = FALSE, TornForget = FALSE, OneEach
  PROVE  Spec => PushedMeansStored
<1>1. Init => CacheInv
  BY CacheInit
<1>2. StoreInv /\ LogInv /\ CacheInv /\ [Next]_vars => CacheInv'
  BY CacheNext
<1>3. StoreInv /\ LogInv /\ CacheInv =>
        \A p \in Pushers : Idle(p) \/ Mark(p) =>
          \A f \in DOMAIN push[p].seen :
            IsPrefix(push[p].seen[f].log, LogOf(Latest(push[p].base), f))
  BY EndLands DEF Landed
<1>4. StoreInv /\ LogInv /\ CacheInv /\ [Next]_vars =>
        [\A p \in Pushers : Idle(p) \/ Mark(p) =>
           \A f \in DOMAIN push[p].seen :
             IsPrefix(push[p].seen[f].log, LogOf(Latest(push[p].base), f))]_vars
  BY <1>3
<1> QED BY <1>1, <1>2, <1>4, LogAlways, PTL DEF Spec, PushedMeansStored
-----------------------------------------------------------------------------
(* The objects of the store.                                               *)

\* The store has every object a manifest names.
HasAll(m, os) == \A s \in m.live : {<<s, "pk">>, <<s, "idx">>} \subseteq os

\* The object a push x uploads nth, and those it has uploaded.
Nth(x, n) == <<x.segs[(n \div 2) + 1], IF n % 2 = 0 THEN "pk" ELSE "idx">>
PutSoFar(x, os) == x.pc = "put" => \A n \in 0..x.put - 1 : Nth(x, n) \in os

ObjectsInv ==
  /\ \A i \in 1..Len(chain) : HasAll(chain[i], objects)
  /\ \A p \in Pushers : PutSoFar(push[p], objects)

\* A segment's two objects are uploaded one after the other.
LEMMA BothObjects ==
  ASSUME NEW x \in PushType, x.pc = "put", x.put = 2 * Len(x.segs),
         NEW os, PutSoFar(x, os), NEW s \in ToSet(x.segs)
  PROVE  {<<s, "pk">>, <<s, "idx">>} \subseteq os
<1>1. x.segs \in Seq(Segment) /\ Len(x.segs) \in Nat /\ DOMAIN x.segs = 1..Len(x.segs)
  BY DEF PushType
<1>2. PICK i \in 1..Len(x.segs) : x.segs[i] = s
  BY <1>1 DEF ToSet
<1> DEFINE a == 2 * (i - 1)
           b == 2 * (i - 1) + 1
<1>3. /\ a \in 0..x.put - 1 /\ b \in 0..x.put - 1
      /\ a \div 2 + 1 = i /\ b \div 2 + 1 = i /\ a % 2 = 0 /\ b % 2 # 0
  BY <1>1
<1> HIDE DEF a, b
<1>4. Nth(x, a) = <<s, "pk">> /\ Nth(x, b) = <<s, "idx">>
  BY <1>2, <1>3 DEF Nth
<1>5. Nth(x, a) \in os /\ Nth(x, b) \in os
  BY <1>3 DEF PutSoFar
<1> QED BY <1>4, <1>5

\* What the store has stays, and so do manifests.
LEMMA ObjectsGrow ==
  ASSUME ObjectsInv, objects \subseteq objects', chain' = chain,
         \A p \in Pushers : push'[p] = push[p] \/ PutSoFar(push'[p], objects')
  PROVE  ObjectsInv'
<1>1. ASSUME NEW p \in Pushers PROVE PutSoFar(push'[p], objects')
  BY DEF ObjectsInv, PutSoFar
<1>2. \A i \in 1..Len(chain) : HasAll(chain[i], objects')
  BY DEF ObjectsInv, HasAll
<1> QED BY <1>1, <1>2 DEF ObjectsInv

\* An upload adds the object it is at.
LEMMA ObjectsUpload ==
  ASSUME StoreInv, ObjectsInv, NEW p \in Pushers, Upload(p)
  PROVE  ObjectsInv'
<1> DEFINE x == push[p]
           y == push'[p]
<1>1. /\ push \in [Pushers -> PushType] /\ x \in PushType /\ x.put \in Nat /\ x.pc = "put"
      /\ chain' = chain /\ objects' = objects \cup {Nth(x, x.put)}
      /\ \A q \in Pushers : q # p => push'[q] = push[q]
  BY PushIs, PushKeeps DEF Upload, Push, Nth, PushType
<1>2. y.pc = "put" /\ y.segs = x.segs /\ y.put = x.put + 1
  BY <1>1 DEF Upload, Step, PushType
<1>3. \A n : Nth(y, n) = Nth(x, n)
  BY <1>2 DEF Nth
<1>4. \A n \in 0..y.put - 1 : n \in 0..x.put - 1 \/ n = x.put
  BY <1>1, <1>2
<1>5. PutSoFar(x, objects)
  BY DEF ObjectsInv
<1> HIDE DEF x, y
<1>6. PutSoFar(y, objects')
  BY <1>1, <1>2, <1>3, <1>4, <1>5 DEF PutSoFar
<1> QED BY <1>1, <1>6, ObjectsGrow DEF y

\* A manifest is published once its objects are there.
LEMMA ObjectsPublish ==
  ASSUME StoreInv, ObjectsInv, NEW p \in Pushers, Publish(p)
  PROVE  ObjectsInv'
<1> DEFINE n == NextOf(push[p])
           m == Latest(chain)
<1>1. push[p].base = chain /\ chain' = Append(chain, n) /\ push[p].pc = "put"
  BY PublishIs
<1>2. /\ push \in [Pushers -> PushType] /\ push[p] \in PushType /\ chain \in Seq(Manifest)
      /\ push[p].put = 2 * Len(push[p].segs) /\ objects' = objects
      /\ \A q \in Pushers : q # p => push'[q] = push[q]
  BY PushIs, PushKeeps DEF Publish, Uploaded, Push
<1>3. push'[p].pc = "won"
  BY <1>2 DEF Publish, Step, PushType
<1>4. HasAll(m, objects)
  <2>1. CASE chain = <<>>
    BY <2>1 DEF Latest, EmptyStore, HasAll
  <2>2. CASE chain # <<>>
    <3>1. Len(chain) \in 1..Len(chain) /\ m = chain[Len(chain)]
      BY <1>2, <2>2 DEF Latest
    <3> QED BY <3>1 DEF ObjectsInv
  <2> QED BY <2>1, <2>2
<1>5. n.live \subseteq m.live \cup ToSet(push[p].segs)
  BY <1>1 DEF NextOf, Assembled
<1>6. \A s \in ToSet(push[p].segs) : {<<s, "pk">>, <<s, "idx">>} \subseteq objects
  BY <1>1, <1>2, BothObjects DEF ObjectsInv
<1> HIDE DEF n, m
<1>7. HasAll(n, objects)
  BY <1>4, <1>5, <1>6 DEF HasAll
<1>8. \A i \in 1..Len(chain') : (i \in 1..Len(chain) /\ chain'[i] = chain[i]) \/ chain'[i] = n
  BY <1>1, <1>2
<1>9. \A i \in 1..Len(chain') : HasAll(chain'[i], objects')
  BY <1>2, <1>7, <1>8 DEF ObjectsInv
<1>10. \A q \in Pushers : PutSoFar(push'[q], objects')
  BY <1>2, <1>3 DEF ObjectsInv, PutSoFar
<1> QED BY <1>9, <1>10 DEF ObjectsInv

\* Any other step of a push leaves the store alone.
LEMMA ObjectsPush ==
  ASSUME StoreInv, ObjectsInv, NEW p \in Pushers, Push(p) \/ Kill(p), ~Upload(p), ~Publish(p)
  PROVE  ObjectsInv'
<1>1. /\ push \in [Pushers -> PushType] /\ push[p] \in PushType
      /\ \A q \in Pushers : q # p => push'[q] = push[q]
  BY PushIs, PushKeeps
<1>2. chain' = chain /\ objects' = objects
  BY DEF Push, Kill, Find, Forget, ForgetSynced, ReadState, ReadLines, Refuse, Idle, Plan,
     Lose, Remember, Mark
<1>3. CASE Plan(p)
  <2>1. push'[p].pc = "put" /\ push'[p].put = 0
    BY <1>1, <1>3 DEF Plan, Step, PushType
  <2>2. PutSoFar(push'[p], objects')
    BY <2>1 DEF PutSoFar
  <2> QED BY <1>1, <1>2, <2>2, ObjectsGrow
<1>4. CASE ~Plan(p)
  <2>1. push'[p].pc # "put"
    <3>1. CASE Find(p) /\ Loadable(Latest(chain))
      BY <1>1, <3>1 DEF Find, Step, PushType
    <3>2. CASE Forget(p) \/ ForgetSynced(p) \/ Remember(p)
      BY <1>1, <3>2 DEF Forget, ForgetSynced, Remember, Step, PushType
    <3>3. CASE ReadState(p)
      <4>1. PICK x : push' = [push EXCEPT ![p] = [push[p] EXCEPT !.pc = "reread", !.seen = x]]
        BY <3>3 DEF ReadState, Step
      <4> QED BY <1>1, <4>1 DEF PushType
    <3>4. CASE ReadLines(p)
      <4>1. PICK x : push' = [push EXCEPT ![p] = [push[p] EXCEPT !.pc = "read", !.seen = x]]
        BY <3>4 DEF ReadLines, Step
      <4> QED BY <1>1, <4>1 DEF PushType
    <3>5. CASE Lose(p) /\ push[p].attempt # MaxAttempts
      <4>1. push'[p] = [NoPush EXCEPT !.pc = "again", !.attempt = push[p].attempt + 1]
        BY <1>1, <3>5 DEF Lose, Step
      <4> QED BY <4>1 DEF NoPush
    <3>6. CASE push' = [push EXCEPT ![p] = NoPush]
      BY <1>1, <3>6 DEF NoPush
    <3> QED BY <1>4, <3>1, <3>2, <3>3, <3>4, <3>5, <3>6 DEF Push, Kill, Find, Refuse, Idle, Lose,
               Mark, Step
  <2> QED BY <1>1, <1>2, <2>1, ObjectsGrow DEF PutSoFar
<1> QED BY <1>3, <1>4

\* A store's objects are there for every manifest of its chain.
LEMMA ObjectsNext ==
  ASSUME StoreInv, ObjectsInv, [Next]_vars
  PROVE  ObjectsInv'
<1>1. ASSUME NEW p \in Pushers, Push(p) \/ Kill(p) PROVE ObjectsInv'
  BY <1>1, ObjectsUpload, ObjectsPublish, ObjectsPush
<1>2. CASE Wipe
  <2>1. Len(chain') = 0 /\ 1..0 = {} /\ push' = push /\ \A p \in Pushers : push[p].pc = "idle"
    BY <1>2 DEF Wipe
  <2> QED BY <2>1 DEF ObjectsInv, PutSoFar
<1>3. CASE UNCHANGED <<chain, objects, push>>
  BY <1>3, ObjectsGrow
<1> QED BY <1>1, <1>2, <1>3 DEF Next, vars, Clone, Create, Snapshot, Fork, Apply, Local

\* No object is missing at first.
LEMMA ObjectsInit == Init => ObjectsInv
<1>1. Init => Len(chain) = 0 /\ 1..0 = {} /\ \A p \in Pushers : push[p].pc = "idle"
  BY DEF Init, NoPush
<1> QED BY <1>1 DEF ObjectsInv, PutSoFar
-----------------------------------------------------------------------------
(* The invariant of anchors, of at most two forks in repositories that     *)
(* began empty.                                                            *)

\* The state a fork began at: its log's first, whatever snapshots have moved
\* its anchor to.
Origin(a, l) == IF l = <<>> THEN a ELSE l[1].old

\* Main began empty, and any other fork at a state main has been in.
Roots(f, l) == {NoBlob} \cup (IF f = Main THEN {} ELSE News(l))

RepoRooted(r) ==
  \A f \in Forks : r.anchor[f] # NoFork =>
    r.anchor[Main] # NoFork /\ Origin(r.anchor[f], r.log[f]) \in Roots(f, r.log[Main])

HeadsRooted(m) ==
  \A f \in Forks : m.forks[f] # NoFork =>
    /\ m.forks[Main] # NoFork
    /\ Origin(m.forks[f].anchor, LogOf(m, f)) \in Roots(f, LogOf(m, Main))

\* What push record x read of fork f of its repository r has the fork's origin,
\* a state of main's log as x read it.
SeenRooted(x, r) ==
  x.pc \in Busy =>
    /\ Main \in DOMAIN x.seen
    /\ \A f \in DOMAIN x.seen :
         LET s == x.seen[f]
             origin == Origin(r.anchor[f], r.log[f])
         IN  /\ s # NoFork =>
                  Origin(s.anchor, IF s.log = NoFork THEN r.log[f] ELSE s.log) = origin
             /\ Held(x, Main) # {} => origin \in Roots(f, x.seen[Main].log)

PutRooted(x) == x.pc = "put" => HeadsRooted(NextOf(x))

AnchorInv ==
  /\ \A r \in Repos : RepoRooted(repo[r])
  /\ \A i \in 1..Len(chain) : HeadsRooted(chain[i])
  /\ \A p \in Pushers : SeenRooted(push[p], repo[Home[p]]) /\ PutRooted(push[p])
\* One round of restore's search for the anchors, and where it starts.
Search(m, r) ==
  LET known == r.known \cup UNION {Reached(r.known, LogOf(m, f)) : f \in Forks}
      left == {f \in r.left : m.forks[f].anchor \notin known}
  IN  IF r.stuck THEN r ELSE [known |-> known, left |-> left, stuck |-> left = r.left]

Start(m) ==
  [known |-> {NoBlob}, stuck |-> FALSE, left |-> {f \in Forks : m.forks[f] # NoFork}]

\* With two forks, restore searches twice.
LEMMA SearchIs ==
  ASSUME NEW m, Len(Names) \in {1, 2}
  PROVE  Unanchored(m) = IF Len(Names) = 1 THEN Search(m, Start(m)).left
                         ELSE Search(m, Search(m, Start(m))).left
<1> DEFINE n == Len(Names)
           Is(k) == k = [i \in 0..n |-> IF i = 0 THEN Start(m) ELSE Search(m, k[i - 1])]
           g == CHOOSE k : Is(k)
           a == Start(m)
           b == Search(m, a)
           c == Search(m, b)
           h == [i \in 0..n |-> IF i = 0 THEN a ELSE IF i = 1 THEN b ELSE c]
<1>1. Unanchored(m) = g[n].left
  BY DEF Unanchored, Search, Start
<1> HIDE DEF a, b, c
<1>2. h[0] = a /\ h[1] = b /\ (n = 2 => h[2] = c)
  OBVIOUS
<1>3. Is(h)
  <2> SUFFICES ASSUME NEW i \in 0..n
               PROVE  h[i] = IF i = 0 THEN Start(m) ELSE Search(m, h[i - 1])
    OBVIOUS
  <2>1. i = 0 \/ i = 1 \/ (i = 2 /\ n = 2)
    <3> HIDE DEF h
    <3>1. n \in {1, 2} /\ i \in 0..n
      OBVIOUS
    <3> HIDE DEF n
    <3> QED BY <3>1
  <2> HIDE DEF h
  <2> QED BY <1>2, <2>1 DEF a, b, c
<1>4. Is(g)
  <2> HIDE DEF h
  <2> QED BY <1>3
<1> HIDE DEF g, h
<1>5. \A i \in 0..n : g[i] = IF i = 0 THEN Start(m) ELSE Search(m, g[i - 1])
  BY <1>4
<1>6. g[0] = a /\ g[1] = Search(m, g[0]) /\ (n = 2 => g[2] = Search(m, g[1]))
  BY <1>5 DEF a
<1> QED BY <1>1, <1>6 DEF a, b, c

\* A log that began at a known state is reached, all of it.
LEMMA ReachesAll ==
  ASSUME NEW k, NEW a, NEW l \in Seq(Line), Origin(a, l) \in k
  PROVE  News(l) \subseteq Reached(k, l)
<1>1. CASE l = <<>>
  <2>1. Len(l) = 0 /\ 1..0 = {}
    BY <1>1
  <2> QED BY <2>1 DEF News
<1>2. CASE l # <<>>
  BY <1>2 DEF News, Reached, Origin
<1> QED BY <1>1, <1>2

\* An anchor is its fork's origin, or a state its log has been in.
LEMMA AnchorIs ==
  ASSUME NEW a, NEW h, NEW b, NEW l, Fits(a, h, l, b)
  PROVE  a = Origin(a, l) \/ a \in News(l)
BY DEF Fits, Loads, Origin, News

\* restore finds the anchors: main's in its first round, the other's in its
\* second.
LEMMA AnchorsFound ==
  ASSUME NEW m, Packed(m), HeadsFit(m), HeadsRooted(m), Len(Names) <= 2
  PROVE  Unanchored(m) = {}
<1> DEFINE l(f) == LogOf(m, f)
           a == Start(m)
           b == Search(m, a)
           c == Search(m, b)
           K(r) == r.known \cup UNION {Reached(r.known, l(f)) : f \in Forks}
           L(r) == {f \in r.left : m.forks[f].anchor \notin K(r)}
<1>1. Len(Names) \in {1, 2} /\ (Len(Names) = 1 => Forks = {Main})
  <2>1. Names \in Seq(Forks) /\ Main \in ToSet(Names) /\ Forks = ToSet(Names)
    BY PacksAssumption, WireAssumption DEF Forks
  <2>2. DOMAIN Names = 1..Len(Names) /\ Len(Names) \in Nat
    BY <2>1
  <2>3. PICK i \in 1..Len(Names) : Names[i] = Main
    BY <2>1, <2>2 DEF ToSet
  <2>4. Len(Names) \in {1, 2}
    BY <2>2, <2>3
  <2>5. ASSUME Len(Names) = 1 PROVE \A f \in ToSet(Names) : f = Main
    <3>1. \A j \in 1..Len(Names) : j = i
      BY <2>3, <2>5
    <3> QED BY <2>2, <2>3, <3>1 DEF ToSet
  <2> QED BY <2>1, <2>4, <2>5
<1>2. \A f \in Forks : l(f) \in Seq(Line)
  BY LogIs DEF Packed
<1>3. \A r : Search(m, r) = IF r.stuck THEN r
                            ELSE [known |-> K(r), left |-> L(r), stuck |-> L(r) = r.left]
  BY DEF Search
<1>4. a.known = {NoBlob} /\ a.stuck = FALSE /\ a.left = {f \in Forks : m.forks[f] # NoFork}
  BY DEF Start
<1> HIDE DEF a, b, l
<1>5. b.known = K(a) /\ b.left = L(a) /\ b.stuck = (b.left = a.left)
  <2> HIDE DEF K, L
  <2>1. b = [known |-> K(a), left |-> L(a), stuck |-> L(a) = a.left]
    BY <1>3, <1>4 DEF b
  <2> QED BY <2>1
<1>6. b.left \subseteq a.left /\ c.left \subseteq b.left
  BY <1>3, <1>5
<1>7. ASSUME NEW f \in a.left
      PROVE  /\ f \in Forks /\ Main \in a.left /\ Origin(m.forks[f].anchor, l(f)) \in Roots(f, l(Main))
             /\ \/ m.forks[f].anchor = Origin(m.forks[f].anchor, l(f))
                \/ m.forks[f].anchor \in News(l(f))
  <2>1. f \in Forks /\ m.forks[f] # NoFork
    BY <1>4
  <2>2. Main \in Forks /\ m.forks[Main] # NoFork
        /\ Origin(m.forks[f].anchor, l(f)) \in Roots(f, l(Main))
    BY <2>1, WireAssumption DEF HeadsRooted, l
  <2>3. Fits(m.forks[f].anchor, m.forks[f].head, l(f), Stored(m))
    BY <2>1 DEF HeadsFit, l
  <2> QED BY <1>4, <2>1, <2>2, <2>3, AnchorIs
<1>8. ASSUME Main \in a.left
      PROVE  {NoBlob} \cup News(l(Main)) \subseteq b.known /\ Main \notin b.left
  <2>1. Main \in Forks /\ Origin(m.forks[Main].anchor, l(Main)) \in {NoBlob}
    BY <1>7, <1>8 DEF Roots
  <2>2. News(l(Main)) \subseteq Reached(a.known, l(Main))
    BY <1>2, <1>4, <2>1, ReachesAll
  <2>3. {NoBlob} \cup News(l(Main)) \subseteq b.known
    BY <1>4, <1>5, <2>1, <2>2
  <2>4. m.forks[Main].anchor \in {NoBlob} \cup News(l(Main))
    BY <1>7, <1>8, <2>1
  <2> QED BY <1>5, <2>3, <2>4
<1>9. ASSUME NEW f \in c.left, b.stuck = FALSE PROVE FALSE
  <2>1. c.left = L(b)
    BY <1>3, <1>9
  <2>2. f \in b.left /\ f \in a.left /\ m.forks[f].anchor \notin K(b)
    BY <1>6, <1>9, <2>1
  <2>3. Main \in a.left /\ f \in Forks
    BY <1>7, <2>2
  <2>4. Origin(m.forks[f].anchor, l(f)) \in b.known
    BY <1>7, <1>8, <2>2, <2>3 DEF Roots
  <2>5. News(l(f)) \subseteq Reached(b.known, l(f))
    BY <1>2, <2>3, <2>4, ReachesAll
  <2>6. m.forks[f].anchor \in K(b)
    BY <1>7, <2>2, <2>3, <2>4, <2>5
  <2> QED BY <2>2, <2>6
<1>10. b.stuck => b.left = {}
  BY <1>5, <1>7, <1>8
<1>11. c.left = {}
  BY <1>6, <1>9, <1>10, <1>5
<1>12. ASSUME Len(Names) = 1 PROVE b.left = {}
  BY <1>1, <1>6, <1>7, <1>8, <1>12
<1>13. Unanchored(m) = IF Len(Names) = 1 THEN b.left ELSE c.left
  BY <1>1, SearchIs DEF a, b
<1> QED BY <1>11, <1>12, <1>13
\* The last manifest is one of the chain's, or nothing.
LEMMA LatestRooted ==
  ASSUME NEW c \in Seq(Manifest), \A i \in 1..Len(c) : HeadsRooted(c[i])
  PROVE  HeadsRooted(Latest(c))
<1>1. CASE c = <<>>
  BY <1>1 DEF Latest, HeadsRooted, EmptyStore
<1>2. CASE c # <<>>
  <2>1. Len(c) \in 1..Len(c) /\ Latest(c) = c[Len(c)]
    BY <1>2 DEF Latest
  <2> QED BY <2>1
<1> QED BY <1>1, <1>2

\* A log that goes on has been in the states it was.
LEMMA NewsGrow ==
  ASSUME NEW l \in Seq(Line), NEW k \in Seq(Line), IsPrefix(l, k)
  PROVE  News(l) \subseteq News(k)
<1>1. Len(l) <= Len(k) /\ \A i \in 1..Len(l) : l[i] = k[i]
  BY PrefixIs
<1>2. \A i \in 1..Len(l) : i \in 1..Len(k)
  BY <1>1
<1> QED BY <1>1, <1>2 DEF News

\* A push moves on without publishing.
LEMMA AnchorPush ==
  ASSUME StoreInv, AnchorInv, NEW p \in Pushers, Push(p) \/ Kill(p), chain' = chain,
         SeenRooted(push'[p], repo[Home[p]]), PutRooted(push'[p])
  PROVE  AnchorInv'
<1>1. /\ \A r \in Repos : repo'[r].anchor = repo[r].anchor /\ repo'[r].log = repo[r].log
      /\ \A q \in Pushers : q # p => push'[q] = push[q]
  BY PushKeeps
<1>2. ASSUME NEW r \in Repos PROVE RepoRooted(repo'[r])
  BY <1>1 DEF AnchorInv, RepoRooted
<1>3. ASSUME NEW q \in Pushers PROVE SeenRooted(push'[q], repo'[Home[q]]) /\ PutRooted(push'[q])
  <2>1. SeenRooted(push'[q], repo[Home[q]]) /\ PutRooted(push'[q])
    BY <1>1 DEF AnchorInv
  <2>2. repo'[Home[q]].anchor = repo[Home[q]].anchor /\ repo'[Home[q]].log = repo[Home[q]].log
    BY <1>1, WireAssumption
  <2> QED BY <2>1, <2>2 DEF SeenRooted
<1> QED BY <1>2, <1>3 DEF AnchorInv

\* It keeps what it read.
LEMMA AnchorWorks ==
  ASSUME StoreInv, AnchorInv, NEW p \in Pushers, Push(p), chain' = chain,
         push[p].pc \in Busy, push'[p].seen = push[p].seen, PutRooted(push'[p])
  PROVE  AnchorInv'
<1>1. SeenRooted(push[p], repo[Home[p]])
  BY DEF AnchorInv
<1>2. Held(push'[p], Main) = Held(push[p], Main)
  BY DEF Held
<1>3. SeenRooted(push'[p], repo[Home[p]])
  BY <1>1, <1>2 DEF SeenRooted
<1> QED BY <1>3, AnchorPush

\* A push stops, or starts over.
LEMMA AnchorStop ==
  ASSUME StoreInv, AnchorInv, NEW p \in Pushers,
         \/ Forget(p) \/ ForgetSynced(p) \/ Refuse(p) \/ Idle(p) \/ Lose(p) \/ Mark(p) \/ Kill(p)
  PROVE  AnchorInv'
<1>1. /\ push \in [Pushers -> PushType] /\ push[p] \in PushType /\ (Push(p) \/ Kill(p))
      /\ chain' = chain
  BY PushIs DEF Push, Forget, ForgetSynced, Refuse, Idle, Lose, Mark, Kill
<1>2. push'[p].pc \in {"idle", "again", "forget"}
  <2>1. CASE Forget(p) \/ ForgetSynced(p)
    BY <1>1, <2>1 DEF Forget, ForgetSynced, Step, PushType
  <2>2. CASE Lose(p) /\ push[p].attempt # MaxAttempts
    <3>1. push'[p] = [NoPush EXCEPT !.pc = "again", !.attempt = push[p].attempt + 1]
      BY <1>1, <2>2 DEF Lose, Step
    <3> QED BY <3>1 DEF NoPush
  <2>3. CASE push' = [push EXCEPT ![p] = NoPush]
    BY <1>1, <2>3 DEF NoPush
  <2> QED BY <2>1, <2>2, <2>3 DEF Refuse, Idle, Lose, Mark, Kill, Step
<1>3. SeenRooted(push'[p], repo[Home[p]]) /\ PutRooted(push'[p])
  BY <1>2 DEF SeenRooted, PutRooted, Busy
<1> QED BY <1>1, <1>3, AnchorPush

\* discover: main is among the forks to read.
LEMMA AnchorFind ==
  ASSUME StoreInv, AnchorInv, NEW p \in Pushers, Find(p)
  PROVE  AnchorInv'
<1>1. push \in [Pushers -> PushType] /\ push[p] \in PushType /\ Push(p) /\ chain' = chain
      /\ Home[p] \in Repos
  BY PushIs DEF Push, Find
<1>2. CASE ~Loadable(Latest(chain))
  <2>1. push'[p].pc = "idle"
    BY <1>1, <1>2 DEF Find, Step, NoPush
  <2>2. SeenRooted(push'[p], repo[Home[p]]) /\ PutRooted(push'[p])
    BY <2>1 DEF SeenRooted, PutRooted, Busy
  <2> QED BY <1>1, <2>2, AnchorPush
<1>3. CASE Loadable(Latest(chain))
  <2>1. push'[p].pc = "read" /\ push'[p].seen = [f \in ForksOf(Home[p]) |-> NoFork]
    BY <1>1, <1>3 DEF Find, Step, PushType
  <2>2. Main \in ForksOf(Home[p])
    BY <1>1, WireAssumption DEF Find, Begins, ForksOf, AnchorInv, RepoRooted
  <2>3. Held(push'[p], Main) = {}
    BY <2>1 DEF Held
  <2>4. SeenRooted(push'[p], repo[Home[p]]) /\ PutRooted(push'[p])
    BY <2>1, <2>2, <2>3 DEF SeenRooted, PutRooted
  <2> QED BY <1>1, <2>4, AnchorPush
<1> QED BY <1>2, <1>3

\* The anchor a push reads goes with the log it is about to read.
LEMMA AnchorReadState ==
  ASSUME StoreInv, AnchorInv, NEW p \in Pushers, ReadState(p)
  PROVE  AnchorInv'
<1> DEFINE r == repo[Home[p]]
           s(f) == [anchor |-> r.anchor[f], head |-> HeadOf(r.log[f]), log |-> NoFork]
<1>1. /\ push \in [Pushers -> PushType] /\ push[p] \in PushType /\ push[p].pc = "read"
      /\ Push(p) /\ chain' = chain /\ SeenRooted(push[p], r)
  BY PushIs DEF AnchorInv, ReadState, Push
<1>2. PICK f \in DOMAIN push[p].seen :
        push' = [push EXCEPT ![p] = [push[p] EXCEPT !.pc = "reread", !.seen[f] = s(f)]]
  BY ReadStateIs
<1> HIDE DEF r
<1>3. s(f).anchor = r.anchor[f] /\ s(f).log = NoFork
  OBVIOUS
<1> HIDE DEF s
<1>4. /\ push'[p].pc = "reread" /\ push'[p].seen = [push[p].seen EXCEPT ![f] = s(f)]
  BY <1>1, <1>2 DEF PushType
<1>5. push[p].seen = [g \in DOMAIN push[p].seen |-> push[p].seen[g]]
  BY <1>1, SeenIs
<1>6. /\ DOMAIN push'[p].seen = DOMAIN push[p].seen
      /\ \A g \in DOMAIN push[p].seen :
           push'[p].seen[g] = IF g = f THEN s(f) ELSE push[p].seen[g]
  BY <1>4, <1>5
<1>7. Held(push'[p], Main) # {} =>
        Held(push[p], Main) # {} /\ push'[p].seen[Main] = push[p].seen[Main]
  BY <1>3, <1>6 DEF Held
<1>8. SeenRooted(push'[p], r) /\ PutRooted(push'[p])
  <2>1. PutRooted(push'[p])
    BY <1>4 DEF PutRooted
  <2>2. push[p].pc \in Busy /\ Main \in DOMAIN push'[p].seen
    BY <1>1, <1>6 DEF SeenRooted, Busy
  <2>3. ASSUME NEW g \in DOMAIN push'[p].seen
        PROVE  LET t == push'[p].seen[g]
                   origin == Origin(r.anchor[g], r.log[g])
               IN  /\ t # NoFork =>
                        Origin(t.anchor, IF t.log = NoFork THEN r.log[g] ELSE t.log) = origin
                   /\ Held(push'[p], Main) # {} => origin \in Roots(g, push'[p].seen[Main].log)
    <3>1. CASE g = f
      BY <1>1, <1>3, <1>6, <1>7, <2>2, <2>3, <3>1 DEF SeenRooted
    <3>2. CASE g # f
      BY <1>1, <1>6, <1>7, <2>2, <2>3, <3>2 DEF SeenRooted
    <3> QED BY <3>1, <3>2
  <2> QED BY <2>1, <2>2, <2>3 DEF SeenRooted
<1> QED BY <1>1, <1>8, AnchorPush DEF r
\* The log it reads goes with the anchor; and main's has every state another
\* fork began at.
LEMMA AnchorReadLines ==
  ASSUME StoreInv, AnchorInv, NEW p \in Pushers, ReadLines(p)
  PROVE  AnchorInv'
<1> DEFINE r == repo[Home[p]]
           old == push[p].seen
<1>1. /\ push \in [Pushers -> PushType] /\ push[p] \in PushType /\ push[p].pc = "reread"
      /\ r \in RepoType /\ Push(p) /\ chain' = chain /\ SeenRooted(push[p], r)
      /\ Listing(push[p], r) /\ RepoRooted(r)
  BY PushIs DEF ReadLines, Push, AnchorInv, StoreInv
<1>2. PICK f \in DOMAIN old :
        /\ old[f] # NoFork /\ old[f].log = NoFork
        /\ push' = [push EXCEPT ![p] = [push[p] EXCEPT !.pc = "read", !.seen[f].log = r.log[f]]]
  BY DEF ReadLines, Step
<1>3. f \in Forks /\ old[f] \in Reads /\ \A g \in DOMAIN old : g \in Forks /\ r.anchor[g] # NoFork
  BY <1>1, <1>2, SeenIs DEF Listing, Busy
<1> HIDE DEF r
<1>4. r.log[f] # NoFork
  <2>1. r.log[f] \in Seq(Written)
    BY <1>1, <1>3 DEF RepoType
  <2> QED BY <2>1, LinesAre, WireAssumption
<1> DEFINE s == [old[f] EXCEPT !.log = r.log[f]]
<1>5. s.anchor = old[f].anchor /\ s.log = r.log[f]
  BY <1>3 DEF Reads
<1>6. push'[p].pc = "read" /\ push'[p].seen = [old EXCEPT ![f] = s]
  BY <1>1, <1>2 DEF PushType
<1> HIDE DEF s
<1>7. old = [g \in DOMAIN old |-> old[g]]
  BY <1>1, SeenIs
<1>8. /\ DOMAIN push'[p].seen = DOMAIN old
      /\ \A g \in DOMAIN old : push'[p].seen[g] = IF g = f THEN s ELSE old[g]
  BY <1>6, <1>7
<1>9. push[p].pc \in Busy /\ Main \in DOMAIN old
  BY <1>1 DEF SeenRooted, Busy
<1>10. ASSUME NEW g \in DOMAIN old, Held(push'[p], Main) # {}
       PROVE  Origin(r.anchor[g], r.log[g]) \in Roots(g, push'[p].seen[Main].log)
  <2>1. CASE f = Main
    BY <1>1, <1>3, <1>5, <1>8, <2>1 DEF RepoRooted
  <2>2. CASE f # Main
    <3>1. push'[p].seen[Main] = old[Main]
      BY <1>8, <1>9, <2>2
    <3>2. Held(push[p], Main) # {}
      BY <1>8, <1>9, <1>10, <3>1 DEF Held
    <3> QED BY <1>1, <1>9, <3>1, <3>2 DEF SeenRooted
  <2> QED BY <2>1, <2>2
<1>11. ASSUME NEW g \in DOMAIN old, push'[p].seen[g] # NoFork
       PROVE  LET t == push'[p].seen[g]
              IN  Origin(t.anchor, IF t.log = NoFork THEN r.log[g] ELSE t.log)
                    = Origin(r.anchor[g], r.log[g])
  <2>1. CASE g = f
    <3>1. Origin(old[f].anchor, r.log[f]) = Origin(r.anchor[f], r.log[f])
      BY <1>1, <1>2, <1>9 DEF SeenRooted
    <3> QED BY <1>4, <1>5, <1>8, <2>1, <3>1
  <2>2. CASE g # f
    BY <1>1, <1>8, <1>9, <1>11, <2>2 DEF SeenRooted
  <2> QED BY <2>1, <2>2
<1>12. SeenRooted(push'[p], r) /\ PutRooted(push'[p])
  BY <1>6, <1>8, <1>9, <1>10, <1>11 DEF SeenRooted, PutRooted
<1> QED BY <1>1, <1>12, AnchorPush DEF r

\* What it plans to publish has, for each fork, main's log where the fork began.
LEMMA AnchorPlan ==
  ASSUME StoreInv, LogInv, CacheInv, AnchorInv, OneEach, NEW p \in Pushers, Plan(p)
  PROVE  AnchorInv'
<1>1. PICK segs \in Seq(Segment) :
        /\ push' = [push EXCEPT ![p] = [push[p] EXCEPT !.pc = "put", !.segs = segs, !.put = 0]]
        /\ Planned(Latest(push[p].base), push[p].seen, repo[Home[p]].pool, segs)
        /\ UNCHANGED <<repo, chain, objects, made, faults>>
  BY PlanIs
<1>2. /\ push \in [Pushers -> PushType] /\ push[p] \in PushType /\ push[p].pc = "read"
      /\ push[p].pc \in Busy /\ Push(p) /\ Read(p) /\ ReadWhole(push[p].seen) /\ ~SomeDiverged(p)
      /\ SeenRooted(push[p], repo[Home[p]])
  BY PushIs, ReadIsWhole DEF Plan, Read, Push, Busy, AnchorInv
<1> DEFINE x == push'[p]
           b == push[p].base
           m == Latest(b)
           seen == push[p].seen
           n == Assembled(m, seen, segs)
           r == repo[Home[p]]
<1>3. x.pc = "put" /\ x.segs = segs /\ x.base = b /\ x.seen = seen
  BY <1>1, <1>2 DEF PushType
<1>4. \A f \in Forks : LogOf(n, f) = IF f \in Heads(m, seen) THEN seen[f].log ELSE LogOf(m, f)
  BY <1>1, <1>2, PlanFits
<1>5. /\ \A f \in Forks : Moves(m, seen, segs, n, f)
      /\ Packed(n) /\ Extends(m, n)
  BY <1>1, NextLive, NextPacked
<1>6. HeadsRooted(m) /\ m \in Manifest
  <2>1. /\ chain \in Seq(Manifest) /\ b \in Seq(Manifest) /\ IsPrefix(b, chain)
    BY <1>2, PushIs DEF Sound
  <2>2. m \in Manifest
    BY <1>2, BaseFits
  <2> HIDE DEF b
  <2>3. Len(b) <= Len(chain) /\ \A i \in 1..Len(b) : b[i] = chain[i]
    BY <2>1, PrefixIs
  <2>4. \A i \in 1..Len(b) : i \in 1..Len(chain)
    BY <2>1, <2>3
  <2>5. \A i \in 1..Len(b) : HeadsRooted(b[i])
    BY <2>3, <2>4 DEF AnchorInv
  <2> QED BY <2>1, <2>2, <2>5, LatestRooted
<1>7. \A f \in DOMAIN seen :
        /\ f \in Forks /\ seen[f] # NoFork /\ seen[f].log # NoFork
        /\ seen[f].log \in Seq(Written)
  BY <1>2, ReadFits
<1>8. \A f \in DOMAIN seen : f \notin Heads(m, seen) => IsPrefix(seen[f].log, LogOf(m, f))
  BY <1>2, ReadLands
<1>9. \A f \in Forks : f \in DOMAIN seen /\ m.forks[f] = NoFork => f \in Heads(m, seen)
  BY <1>2, <1>6, SentMoves
<1>10. NextOf(x) = n
  BY <1>3 DEF NextOf
<1>11. Held(push[p], Main) # {} /\ Main \in DOMAIN seen
  BY <1>2, <1>7 DEF Held, SeenRooted
<1>12. \A f \in DOMAIN seen :
         /\ Origin(seen[f].anchor, seen[f].log) = Origin(r.anchor[f], r.log[f])
         /\ Origin(r.anchor[f], r.log[f]) \in Roots(f, seen[Main].log)
  BY <1>2, <1>7, <1>11 DEF SeenRooted
<1>13. \A f \in Forks : LogOf(n, f) \in Seq(Line) /\ LogOf(m, f) \in Seq(Line)
  BY <1>5, <1>6, LogIs DEF Packed
<1> HIDE DEF x, m, n, seen, r
<1>14. n.forks[Main] # NoFork
  BY <1>5, <1>7, <1>9, <1>11 DEF Moves
<1>15. News(LogOf(m, Main)) \subseteq News(LogOf(n, Main))
  BY <1>5, <1>13, NewsGrow, WireAssumption DEF Extends
<1>16. News(seen[Main].log) \subseteq News(LogOf(n, Main))
  <2>1. seen[Main].log \in Seq(Line) /\ Main \in Forks
    BY <1>7, <1>11, LinesAre
  <2>2. IsPrefix(seen[Main].log, LogOf(n, Main))
    BY <1>4, <1>7, <1>8, <1>11, <2>1, PrefixSelf
  <2> QED BY <1>13, <2>1, <2>2, NewsGrow
<1>17. ASSUME NEW f \in Forks, n.forks[f] # NoFork
       PROVE  Origin(n.forks[f].anchor, LogOf(n, f)) \in Roots(f, LogOf(n, Main))
  <2>1. CASE f \in Heads(m, seen)
    <3>1. f \in DOMAIN seen
      BY <2>1 DEF Heads
    <3>2. n.forks[f].anchor = seen[f].anchor /\ LogOf(n, f) = seen[f].log
      BY <1>4, <1>5, <1>17, <2>1 DEF Moves
    <3>3. Origin(seen[f].anchor, seen[f].log) \in Roots(f, seen[Main].log)
      BY <1>12, <3>1
    <3> QED BY <1>16, <3>2, <3>3 DEF Roots
  <2>2. CASE f \notin Heads(m, seen)
    <3>1. /\ m.forks[f] # NoFork /\ n.forks[f].anchor = m.forks[f].anchor
          /\ LogOf(n, f) = LogOf(m, f)
      BY <1>4, <1>5, <1>17, <2>2 DEF Moves
    <3>2. Origin(m.forks[f].anchor, LogOf(m, f)) \in Roots(f, LogOf(m, Main))
      BY <1>6, <3>1 DEF HeadsRooted
    <3> QED BY <1>15, <3>1, <3>2 DEF Roots
  <2> QED BY <2>1, <2>2
<1>18. PutRooted(x)
  BY <1>10, <1>14, <1>17 DEF PutRooted, HeadsRooted
<1> QED BY <1>1, <1>2, <1>3, <1>18, AnchorWorks DEF x, seen
\* Uploads, and what follows the commit point, change nothing read.
LEMMA AnchorUpload ==
  ASSUME StoreInv, AnchorInv, NEW p \in Pushers, Upload(p) \/ Remember(p)
  PROVE  AnchorInv'
<1>1. /\ push \in [Pushers -> PushType] /\ push[p] \in PushType /\ push[p].pc \in Busy
      /\ Push(p) /\ chain' = chain /\ PutRooted(push[p])
  BY PushIs DEF Upload, Remember, Push, Busy, AnchorInv
<1>2. CASE Upload(p)
  <2>1. /\ push'[p].pc = "put" /\ push[p].pc = "put" /\ push'[p].seen = push[p].seen
        /\ push'[p].base = push[p].base /\ push'[p].segs = push[p].segs
    BY <1>1, <1>2 DEF Upload, Step, PushType
  <2>2. PutRooted(push'[p])
    BY <1>1, <2>1 DEF PutRooted, NextOf
  <2> QED BY <1>1, <2>1, <2>2, AnchorWorks
<1>3. CASE Remember(p)
  <2>1. push'[p].pc = "mark" /\ push'[p].seen = push[p].seen
    BY <1>1, <1>3 DEF Remember, Step, PushType
  <2> QED BY <1>1, <2>1, AnchorWorks DEF PutRooted
<1> QED BY <1>2, <1>3

\* Publishing: what was planned.
LEMMA AnchorPublish ==
  ASSUME StoreInv, AnchorInv, NEW p \in Pushers, Publish(p)
  PROVE  AnchorInv'
<1> DEFINE n == NextOf(push[p])
<1>1. push[p].base = chain /\ chain' = Append(chain, n) /\ push[p].pc = "put"
  BY PublishIs
<1>2. /\ push \in [Pushers -> PushType] /\ push[p] \in PushType /\ chain \in Seq(Manifest)
      /\ repo' = repo /\ HeadsRooted(n) /\ \A q \in Pushers : q # p => push'[q] = push[q]
  BY <1>1, PushIs, PushKeeps DEF Publish, Push, AnchorInv, PutRooted
<1>3. push'[p].pc = "won" /\ push'[p].seen = push[p].seen
  BY <1>2 DEF Publish, Step, PushType
<1> HIDE DEF n
<1>4. \A i \in 1..Len(chain') : (i \in 1..Len(chain) /\ chain'[i] = chain[i]) \/ chain'[i] = n
  BY <1>1, <1>2
<1>5. \A i \in 1..Len(chain') : HeadsRooted(chain'[i])
  BY <1>2, <1>4 DEF AnchorInv
<1>6. SeenRooted(push'[p], repo[Home[p]]) /\ PutRooted(push'[p])
  <2>1. SeenRooted(push[p], repo[Home[p]])
    BY DEF AnchorInv
  <2>2. Held(push'[p], Main) = Held(push[p], Main)
    BY <1>3 DEF Held
  <2>3. push[p].pc \in Busy
    BY <1>1 DEF Busy
  <2>4. SeenRooted(push'[p], repo[Home[p]])
    BY <1>3, <2>1, <2>2, <2>3 DEF SeenRooted
  <2> QED BY <1>3, <2>4 DEF PutRooted
<1> QED BY <1>2, <1>5, <1>6 DEF AnchorInv

\* A command leaves each fork where it began, and main's log has its states.
Grown(r, q) ==
  \A f \in Forks : r.anchor[f] # NoFork =>
    /\ q.anchor[f] # NoFork /\ News(r.log[f]) \subseteq News(q.log[f])
    /\ \A a : Origin(a, r.log[f]) = Origin(r.anchor[f], r.log[f]) =>
         Origin(a, q.log[f]) = Origin(r.anchor[f], r.log[f])
    /\ Origin(q.anchor[f], q.log[f]) = Origin(r.anchor[f], r.log[f])

\* So it keeps what a push read in step, and the forks there were.
LEMMA GrownRooted ==
  ASSUME NEW r, NEW q, Grown(r, q)
  PROVE  /\ RepoRooted(r) => \A f \in Forks : r.anchor[f] # NoFork =>
              /\ q.anchor[Main] # NoFork
              /\ Origin(q.anchor[f], q.log[f]) \in Roots(f, q.log[Main])
         /\ \A x \in PushType : Listing(x, r) /\ SeenRooted(x, r) => SeenRooted(x, q)
<1>1. ASSUME RepoRooted(r), NEW f \in Forks, r.anchor[f] # NoFork
      PROVE  /\ q.anchor[Main] # NoFork
             /\ Origin(q.anchor[f], q.log[f]) \in Roots(f, q.log[Main])
  <2>1. /\ r.anchor[Main] # NoFork /\ Main \in Forks
        /\ Origin(r.anchor[f], r.log[f]) \in Roots(f, r.log[Main])
    BY <1>1, WireAssumption DEF RepoRooted
  <2>2. q.anchor[Main] # NoFork /\ News(r.log[Main]) \subseteq News(q.log[Main])
    BY <2>1 DEF Grown
  <2>3. Origin(q.anchor[f], q.log[f]) = Origin(r.anchor[f], r.log[f])
    BY <1>1 DEF Grown
  <2> QED BY <2>1, <2>2, <2>3 DEF Roots
<1>2. ASSUME NEW x \in PushType, Listing(x, r), SeenRooted(x, r), x.pc \in Busy,
             NEW f \in DOMAIN x.seen
      PROVE  LET s == x.seen[f]
                 origin == Origin(q.anchor[f], q.log[f])
             IN  /\ s # NoFork =>
                      Origin(s.anchor, IF s.log = NoFork THEN q.log[f] ELSE s.log) = origin
                 /\ Held(x, Main) # {} => origin \in Roots(f, x.seen[Main].log)
  <2>1. f \in Forks /\ r.anchor[f] # NoFork
    BY <1>2, SeenIs DEF Listing
  <2>2. Origin(q.anchor[f], q.log[f]) = Origin(r.anchor[f], r.log[f])
    BY <2>1 DEF Grown
  <2>3. \A a : Origin(a, r.log[f]) = Origin(r.anchor[f], r.log[f]) =>
          Origin(a, q.log[f]) = Origin(r.anchor[f], r.log[f])
    BY <2>1 DEF Grown
  <2>4. /\ x.seen[f] # NoFork =>
             Origin(x.seen[f].anchor,
                    IF x.seen[f].log = NoFork THEN r.log[f] ELSE x.seen[f].log)
               = Origin(r.anchor[f], r.log[f])
        /\ Held(x, Main) # {} => Origin(r.anchor[f], r.log[f]) \in Roots(f, x.seen[Main].log)
    BY <1>2 DEF SeenRooted
  <2> QED BY <2>2, <2>3, <2>4
<1>3. ASSUME NEW x \in PushType, Listing(x, r), SeenRooted(x, r) PROVE SeenRooted(x, q)
  BY <1>2, <1>3 DEF SeenRooted
<1> QED BY <1>1, <1>3

\* A command on one repository.
LEMMA AnchorLocal ==
  ASSUME StoreInv, AnchorInv, UNCHANGED Local, NEW r \in Repos,
         \A q \in Repos : q # r => repo'[q] = repo[q], RepoRooted(repo'[r]),
         \/ Grown(repo[r], repo'[r])
         \/ ForksOf(r) = {}
  PROVE  AnchorInv'
<1>1. chain' = chain /\ push' = push
  BY DEF Local
<1>2. \A q \in Repos : RepoRooted(repo'[q])
  BY DEF AnchorInv
<1>3. ASSUME NEW p \in Pushers PROVE SeenRooted(push'[p], repo'[Home[p]]) /\ PutRooted(push'[p])
  <2>1. /\ push[p] \in PushType /\ Home[p] \in Repos /\ Listing(push[p], repo[Home[p]])
        /\ SeenRooted(push[p], repo[Home[p]]) /\ PutRooted(push[p])
    BY PushIs DEF AnchorInv, StoreInv
  <2>2. CASE Home[p] # r
    BY <1>1, <2>1, <2>2
  <2>3. CASE Home[p] = r /\ Grown(repo[r], repo'[r])
    BY <1>1, <2>1, <2>3, GrownRooted
  <2>4. CASE Home[p] = r /\ ForksOf(r) = {}
    <3>1. push[p].pc \notin Busy
      BY <2>4, NotInEmpty
    <3> QED BY <1>1, <2>1, <3>1 DEF SeenRooted
  <2> QED BY <2>2, <2>3, <2>4
<1> QED BY <1>1, <1>2, <1>3 DEF AnchorInv
\* tally init, without git.
LEMMA AnchorCreate ==
  ASSUME StoreInv, AnchorInv, Seeds \subseteq {NoBlob}, NEW r \in Repos, NEW b \in Seeds,
         Create(r, b)
  PROVE  AnchorInv'
<1>1. repo \in [Repos -> RepoType] /\ b = NoBlob /\ Main \in Forks
  BY WireAssumption DEF StoreInv, Typed
<1>2. /\ repo' = [repo EXCEPT ![r].anchor[Main] = b, ![r].log[Main] = <<>>,
                              ![r].pool = {b} \ {NoBlob}]
      /\ ForksOf(r) = {} /\ UNCHANGED Local
  BY <1>1 DEF Create
<1>3. /\ \A q \in Repos : q # r => repo'[q] = repo[q]
      /\ repo'[r].anchor = [repo[r].anchor EXCEPT ![Main] = b]
      /\ repo'[r].log = [repo[r].log EXCEPT ![Main] = <<>>]
  BY <1>1, <1>2 DEF RepoType
<1>4. /\ repo[r].anchor \in [Forks -> States \cup {NoFork}] /\ repo[r].log \in [Forks -> Seq(Written)]
  BY <1>1 DEF RepoType
<1>5. \A f \in Forks : repo[r].anchor[f] = NoFork
  BY <1>2 DEF ForksOf
<1>6. /\ repo'[r].anchor[Main] = NoBlob /\ repo'[r].log[Main] = <<>> /\ NoBlob # NoFork
      /\ \A f \in Forks : f # Main => repo'[r].anchor[f] = NoFork
  BY <1>1, <1>3, <1>4, <1>5, NoForkAssumption DEF States
<1>7. RepoRooted(repo'[r])
  BY <1>6 DEF RepoRooted, Origin, Roots
<1> QED BY <1>2, <1>3, <1>7, AnchorLocal

\* A command that appends a line.
LEMMA AnchorApply ==
  ASSUME StoreInv, AnchorInv, NEW r \in Repos, NEW f \in Forks, NEW b \in States, Apply(r, f, b)
  PROVE  AnchorInv'
<1> DEFINE l == repo[r].log[f]
           x == [id |-> made + 1, prev |-> HeadOf(l), old |-> StateOf(r, f), new |-> b]
           u == Append(l, x)
<1>1. repo \in [Repos -> RepoType] /\ made \in Nat /\ l \in Seq(Written)
  BY DEF StoreInv, Typed, RepoType
<1>2. HeadOf(l) \in Nat /\ StateOf(r, f) \in States
  BY <1>1, HeadIs, StateIs DEF Apply, StoreInv
<1>3. x \in Written /\ (l = <<>> => x.old = repo[r].anchor[f])
  <2>1. StateOf(r, f) = IF l = <<>> THEN repo[r].anchor[f] ELSE l[Len(l)].new
    BY DEF StateOf
  <2> HIDE DEF l
  <2> QED BY <1>1, <1>2, <2>1 DEF Written, Line, NoId
<1>4. repo' = [repo EXCEPT ![r].log[f] = u, ![r].pool = @ \cup ({b} \ {NoBlob})]
      /\ UNCHANGED Local
  BY DEF Apply
<1> HIDE DEF x
<1>5. u \in Seq(Written) /\ Len(u) = Len(l) + 1 /\ u[Len(l) + 1] = x /\ Len(l) \in Nat
      /\ \A i \in 1..Len(l) : u[i] = l[i]
  BY <1>1, <1>3
<1> HIDE DEF u
<1>6. /\ \A q \in Repos : q # r => repo'[q] = repo[q]
      /\ repo'[r].anchor = repo[r].anchor
      /\ repo'[r].log = [repo[r].log EXCEPT ![f] = u]
  BY <1>1, <1>4 DEF RepoType
<1>7. \A g \in Forks : repo'[r].log[g] = IF g = f THEN u ELSE repo[r].log[g]
  BY <1>1, <1>6 DEF RepoType
<1> HIDE DEF l
<1>8. News(l) \subseteq News(u)
  <2>1. \A i \in 1..Len(l) : i \in 1..Len(u)
    BY <1>5
  <2> QED BY <1>5, <2>1 DEF News
<1>9. \A a : Origin(a, u) = IF l = <<>> THEN repo[r].anchor[f] ELSE l[1].old
  <2>1. u # <<>>
    BY <1>5
  <2>2. CASE l = <<>>
    <3>1. u[1] = x
      BY <1>5, <2>2
    <3> QED BY <1>3, <2>1, <2>2, <3>1 DEF Origin
  <2>3. CASE l # <<>>
    <3>1. u[1] = l[1]
      <4>1. 1 \in 1..Len(l)
        BY <1>1, <2>3
      <4> QED BY <1>5, <4>1
    <3> QED BY <2>1, <2>3, <3>1 DEF Origin
  <2> QED BY <2>2, <2>3
<1>10. Grown(repo[r], repo'[r])
  <2>1. ASSUME NEW g \in Forks, repo[r].anchor[g] # NoFork
        PROVE  /\ repo'[r].anchor[g] # NoFork /\ News(repo[r].log[g]) \subseteq News(repo'[r].log[g])
               /\ \A a : Origin(a, repo[r].log[g]) = Origin(repo[r].anchor[g], repo[r].log[g]) =>
                    Origin(a, repo'[r].log[g]) = Origin(repo[r].anchor[g], repo[r].log[g])
               /\ Origin(repo'[r].anchor[g], repo'[r].log[g])
                    = Origin(repo[r].anchor[g], repo[r].log[g])
    <3>1. CASE g = f
      <4>1. Origin(repo[r].anchor[f], l) = IF l = <<>> THEN repo[r].anchor[f] ELSE l[1].old
        BY DEF Origin
      <4> QED BY <1>6, <1>7, <1>8, <1>9, <2>1, <3>1, <4>1 DEF l
    <3>2. CASE g # f
      BY <1>6, <1>7, <2>1, <3>2
    <3> QED BY <3>1, <3>2
  <2> QED BY <2>1 DEF Grown
<1>11. RepoRooted(repo'[r])
  <2>1. RepoRooted(repo[r])
    BY DEF AnchorInv
  <2>2. \A h \in Forks : repo[r].anchor[h] # NoFork =>
          /\ repo'[r].anchor[Main] # NoFork
          /\ Origin(repo'[r].anchor[h], repo'[r].log[h]) \in Roots(h, repo'[r].log[Main])
    BY <1>10, <2>1, GrownRooted
  <2> QED BY <1>6, <2>2 DEF RepoRooted
<1> QED BY <1>4, <1>6, <1>10, <1>11, AnchorLocal

\* tally snapshot: the log is not empty, and its first state stays.
LEMMA AnchorSnapshot ==
  ASSUME StoreInv, AnchorInv, NEW r \in Repos, NEW f \in Forks, Snapshot(r, f)
  PROVE  AnchorInv'
<1> DEFINE l == repo[r].log[f]
<1>1. /\ repo \in [Repos -> RepoType] /\ UNCHANGED Local /\ StateOf(r, f) \in States
      /\ repo' = [repo EXCEPT ![r].anchor[f] = StateOf(r, f)]
  BY StateIs DEF StoreInv, Typed, Snapshot
<1>2. /\ \A q \in Repos : q # r => repo'[q] = repo[q]
      /\ repo'[r].anchor = [repo[r].anchor EXCEPT ![f] = StateOf(r, f)]
      /\ repo'[r].log = repo[r].log
      /\ repo[r].anchor \in [Forks -> States \cup {NoFork}]
  BY <1>1 DEF RepoType
<1>3. /\ l # <<>> /\ repo[r].anchor[f] # NoFork /\ StateOf(r, f) # NoFork
  BY <1>1, NoForkAssumption DEF Snapshot, ForksOf, StateOf
<1>4. \A g \in Forks :
        repo'[r].anchor[g] = IF g = f THEN StateOf(r, f) ELSE repo[r].anchor[g]
  BY <1>2
<1>5. \A a : Origin(a, l) = l[1].old
  BY <1>3 DEF Origin
<1>6. Grown(repo[r], repo'[r])
  BY <1>2, <1>3, <1>4, <1>5 DEF Grown
<1>7. RepoRooted(repo'[r])
  <2>1. \A g \in Forks : repo'[r].anchor[g] # NoFork => repo[r].anchor[g] # NoFork
    BY <1>3, <1>4
  <2> QED BY <1>6, <2>1, GrownRooted DEF AnchorInv, RepoRooted
<1> QED BY <1>1, <1>2, <1>6, <1>7, AnchorLocal

\* There is main, and at most one other fork.
AtMostTwo == \A f, g \in Forks : f # Main /\ g # Main => f = g

\* tally fork: from main, the only other fork.
LEMMA AnchorFork ==
  ASSUME StoreInv, LogInv, AnchorInv, AtMostTwo, NEW r \in Repos, NEW f \in Forks,
         NEW g \in Forks, Fork(r, f, g)
  PROVE  AnchorInv'
<1> DEFINE s == StateOf(r, g)
           l == repo[r].log[Main]
<1>1. /\ repo \in [Repos -> RepoType] /\ UNCHANGED Local /\ s \in States /\ Main \in Forks
      /\ repo' = [repo EXCEPT ![r].anchor[f] = s]
      /\ g \in ForksOf(r) /\ f \notin ForksOf(r)
  BY StateIs, WireAssumption DEF StoreInv, Typed, Fork
<1>2. /\ \A q \in Repos : q # r => repo'[q] = repo[q]
      /\ repo'[r].anchor = [repo[r].anchor EXCEPT ![f] = s]
      /\ repo'[r].log = repo[r].log
      /\ repo[r].anchor \in [Forks -> States \cup {NoFork}]
      /\ l \in Seq(Written)
  BY <1>1 DEF RepoType
<1>3. repo[r].anchor[f] = NoFork /\ repo[r].anchor[g] # NoFork /\ repo[r].anchor[Main] # NoFork
  BY <1>1 DEF ForksOf, AnchorInv, RepoRooted
<1>4. g = Main /\ f # Main
  BY <1>1, <1>3 DEF AtMostTwo
<1>5. repo[r].log[f] = <<>>
  BY <1>3 DEF LogInv, RepoFit
<1>6. s \in {NoBlob} \cup News(l)
  <2>1. s = IF l = <<>> THEN repo[r].anchor[Main] ELSE l[Len(l)].new
    BY <1>4 DEF StateOf
  <2>2. Origin(repo[r].anchor[Main], l) = NoBlob
    BY <1>1, <1>3 DEF AnchorInv, RepoRooted, Roots
  <2> HIDE DEF l
  <2>3. l # <<>> => Len(l) \in 1..Len(l)
    BY <1>2
  <2> QED BY <2>1, <2>2, <2>3 DEF Origin, News
<1> HIDE DEF s
<1>7. \A h \in Forks : repo'[r].anchor[h] = IF h = f THEN s ELSE repo[r].anchor[h]
  BY <1>2
<1>8. Grown(repo[r], repo'[r])
  BY <1>2, <1>3, <1>7 DEF Grown
<1>9. Origin(s, repo'[r].log[f]) \in Roots(f, repo'[r].log[Main])
  BY <1>2, <1>4, <1>5, <1>6 DEF Origin, Roots
<1>10. RepoRooted(repo'[r])
  <2>1. RepoRooted(repo[r])
    BY DEF AnchorInv
  <2>2. \A h \in Forks : repo[r].anchor[h] # NoFork =>
          /\ repo'[r].anchor[Main] # NoFork
          /\ Origin(repo'[r].anchor[h], repo'[r].log[h]) \in Roots(h, repo'[r].log[Main])
    BY <1>8, <2>1, GrownRooted
  <2>3. repo'[r].anchor[Main] # NoFork
    BY <1>1, <1>3, <1>4, <1>7
  <2> QED BY <1>7, <1>9, <2>2, <2>3 DEF RepoRooted
<1> QED BY <1>1, <1>2, <1>8, <1>10, AnchorLocal

\* clone takes over the anchors and logs.
LEMMA AnchorClone ==
  ASSUME StoreInv, AnchorInv, NEW r \in Repos, Clone(r)
  PROVE  AnchorInv'
<1> DEFINE m == Latest(chain)
<1>1. /\ repo \in [Repos -> RepoType] /\ chain \in Seq(Manifest)
      /\ ForksOf(r) = {} /\ UNCHANGED Local /\ m \in Manifest
  BY LatestPacked DEF StoreInv, Typed, Clone, Packed
<1>2. HeadsRooted(m)
  BY <1>1, LatestRooted DEF AnchorInv
<1>3. /\ \A q \in Repos : q # r => repo'[q] = repo[q]
      /\ repo'[r].anchor = [f \in Forks |-> IF m.forks[f] = NoFork THEN NoFork
                                            ELSE m.forks[f].anchor]
      /\ repo'[r].log = [f \in Forks |-> LogOf(m, f)]
  BY <1>1 DEF Clone
<1> HIDE DEF m
<1>4. \A f \in Forks : m.forks[f] # NoFork => m.forks[f].anchor # NoFork
  BY <1>1, NoForkAssumption DEF Manifest, ForkHead
<1>5. RepoRooted(repo'[r])
  BY <1>2, <1>3, <1>4, WireAssumption DEF HeadsRooted, RepoRooted
<1> QED BY <1>1, <1>3, <1>5, AnchorLocal
\* No fork has an anchor at first.
LEMMA AnchorInit == Init => AnchorInv
<1>1. Init => /\ Len(chain) = 0 /\ 1..0 = {}
              /\ \A r \in Repos, f \in Forks : repo[r].anchor[f] = NoFork
              /\ \A p \in Pushers : push[p].pc = "idle"
  BY DEF Init, NoRepo, NoPush
<1> QED BY <1>1 DEF AnchorInv, RepoRooted, SeenRooted, PutRooted, Busy

\* Every step keeps the anchors, in such a deployment.
LEMMA AnchorNext ==
  ASSUME StoreInv, LogInv, CacheInv, AnchorInv, OneEach, AtMostTwo, Seeds \subseteq {NoBlob},
         [Next]_vars
  PROVE  AnchorInv'
<1>1. ASSUME NEW r \in Repos, Clone(r) PROVE AnchorInv'
  BY <1>1, AnchorClone
<1>2. ASSUME NEW r \in Repos, NEW b \in Seeds, Create(r, b) PROVE AnchorInv'
  BY <1>2, AnchorCreate
<1>3. ASSUME NEW r \in Repos, NEW f \in Forks, Snapshot(r, f) PROVE AnchorInv'
  BY <1>3, AnchorSnapshot
<1>4. ASSUME NEW r \in Repos, NEW f \in Forks, NEW g \in Forks, Fork(r, f, g) PROVE AnchorInv'
  BY <1>4, AnchorFork
<1>5. ASSUME NEW r \in Repos, NEW f \in Forks, NEW b \in Blobs \cup {NoBlob}, Apply(r, f, b)
      PROVE  AnchorInv'
  BY <1>5, AnchorApply DEF States
<1>6. ASSUME NEW p \in Pushers, Push(p) PROVE AnchorInv'
  BY <1>6, AnchorStop, AnchorFind, AnchorReadState, AnchorReadLines, AnchorPlan, AnchorUpload,
     AnchorPublish DEF Push
<1>7. ASSUME NEW p \in Pushers, Kill(p) PROVE AnchorInv'
  BY <1>7, AnchorStop
<1>8. CASE Wipe
  <2>1. Len(chain') = 0 /\ 1..0 = {} /\ UNCHANGED <<repo, push>>
    BY <1>8 DEF Wipe
  <2>2. \A p \in Pushers : push[p].pc = "idle"
    BY <1>8 DEF Wipe
  <2> QED BY <2>1, <2>2 DEF AnchorInv, SeenRooted, PutRooted, Busy
<1>9. CASE UNCHANGED vars
  <2>1. repo' = repo /\ chain' = chain /\ push' = push
    BY <1>9 DEF vars
  <2> QED BY <2>1 DEF AnchorInv
<1> QED BY <1>1, <1>2, <1>3, <1>4, <1>5, <1>6, <1>7, <1>8, <1>9 DEF Next

-----------------------------------------------------------------------------
(* What a clone needs.                                                     *)

\* What a clone needs of the last manifest but for restore's search.
Complete ==
  LET m == Latest(chain)
  IN  /\ Loadable(m) /\ HasAll(m, objects)
      /\ \A e \in Items(m) : e.line # NoId =>
           /\ e.blob \notin Opaque
           /\ \E s \in m.live, f \in Forks : \E x \in ToSet(s.spans[f]) :
                x.id = e.line /\ x.new = e.blob
      /\ \A f \in Forks :
           /\ m.forks[f] # NoFork =>
                /\ Loads(m.forks[f].anchor, LogOf(m, f))
                /\ HeadOf(LogOf(m, f)) = m.forks[f].head
           /\ \A x \in ToSet(LogOf(m, f)) : x.new \in Stored(m) \cup {NoBlob}

\* A store that is sound has that.
LEMMA StoreComplete ==
  ASSUME StoreInv, LogInv, ObjectsInv
  PROVE  Complete
<1> DEFINE m == Latest(chain)
<1>1. chain \in Seq(Manifest)
  BY DEF StoreInv, Typed
<1>2. Packed(m) /\ HeadsFit(m) /\ Loadable(m)
  BY <1>1, LatestPacked, LatestFits, PackedLoads DEF StoreInv
<1>3. HasAll(m, objects)
  <2>1. CASE chain = <<>>
    BY <2>1 DEF Latest, EmptyStore, HasAll
  <2>2. CASE chain # <<>>
    <3>1. Len(chain) \in 1..Len(chain) /\ m = chain[Len(chain)]
      BY <1>1, <2>2 DEF Latest
    <3> QED BY <3>1 DEF ObjectsInv
  <2> QED BY <2>1, <2>2
<1> HIDE DEF m
<1>4. ASSUME NEW e \in Items(m), e.line # NoId
      PROVE  /\ e.blob \notin Opaque
             /\ \E s \in m.live, f \in Forks : \E x \in ToSet(s.spans[f]) :
                  x.id = e.line /\ x.new = e.blob
  BY <1>2, <1>4 DEF Packed, Ranked, Ranks, Replayable
<1>5. ASSUME NEW f \in Forks
      PROVE  /\ m.forks[f] # NoFork =>
                  /\ Loads(m.forks[f].anchor, LogOf(m, f))
                  /\ HeadOf(LogOf(m, f)) = m.forks[f].head
             /\ \A x \in ToSet(LogOf(m, f)) : x.new \in Stored(m) \cup {NoBlob}
  <2> DEFINE l == LogOf(m, f)
  <2>1. l \in Seq(Line)
    BY <1>2, LogIs DEF Packed
  <2>2. m.forks[f] = NoFork => l = <<>>
    BY DEF LogOf
  <2>3. m.forks[f] # NoFork => Fits(m.forks[f].anchor, m.forks[f].head, l, Stored(m))
    BY <1>2 DEF HeadsFit
  <2> HIDE DEF l
  <2>4. \A x \in ToSet(l) : \E i \in 1..Len(l) : x = l[i]
    BY <2>1 DEF ToSet
  <2>5. \A x \in ToSet(l) : l # <<>> /\ x.new \in News(l)
    <3>1. l = <<>> => 1..Len(l) = {}
      OBVIOUS
    <3> QED BY <2>4, <3>1 DEF News
  <2>6. m.forks[f] # NoFork => /\ Loads(m.forks[f].anchor, l) /\ HeadOf(l) = m.forks[f].head
                               /\ News(l) \subseteq Stored(m) \cup {NoBlob}
    BY <2>3 DEF Fits
  <2>7. \A x \in ToSet(l) : x.new \in Stored(m) \cup {NoBlob}
    BY <2>2, <2>5, <2>6
  <2> QED BY <2>6, <2>7 DEF l
<1> QED BY <1>2, <1>3, <1>4, <1>5 DEF Complete, m

\* I2, but for the anchors: if no editor appends between a push's two reads of
\* a fork, whatever is published names only objects and blobs the store has,
\* every construct's line travelled with it, and each fork's log loads from its
\* anchor and ends at its head, whatever is pushed, folded, lost or killed
\* (delta.rs assemble, wire.rs push_with, serve.rs unpack_segments).
THEOREM PublishedComplete ==
  ASSUME LiveEdits = FALSE
  PROVE  Spec => []Complete
<1>1. Init => ObjectsInv
  BY ObjectsInit
<1>2. StoreInv /\ ObjectsInv /\ [Next]_vars => ObjectsInv'
  BY ObjectsNext
<1>3. StoreInv /\ LogInv /\ ObjectsInv => Complete
  BY StoreComplete
<1> QED BY <1>1, <1>2, <1>3, LogAlways, PTL DEF Spec

\* I2: what is published can be cloned, in a deployment of at most two forks
\* whose repositories began empty, one push at a time in each, no push dying
\* between the two unlinks of invalidate, and no editor appending between its
\* two reads of a fork: restore then derives the anchors too (serve.rs restore).
THEOREM AlwaysRestorable ==
  ASSUME LiveEdits = FALSE, TornForget = FALSE, OneEach, Seeds \subseteq {NoBlob},
         Len(Names) <= 2
  PROVE  Spec => []Restorable
<1>1. AtMostTwo
  <2>1. Names \in Seq(Forks) /\ Main \in ToSet(Names) /\ Forks = ToSet(Names)
    BY PacksAssumption, WireAssumption DEF Forks
  <2>2. DOMAIN Names = 1..Len(Names) /\ Len(Names) \in Nat
    BY <2>1
  <2>3. \A f \in Forks : \E i \in {1, 2} : f = Names[i]
    <3>1. \A i \in 1..Len(Names) : i \in {1, 2}
      BY <2>2
    <3> QED BY <2>1, <2>2, <3>1 DEF ToSet
  <2> QED BY <2>1, <2>3 DEF AtMostTwo
<1>2. Init => ObjectsInv /\ CacheInv /\ AnchorInv
  BY ObjectsInit, CacheInit, AnchorInit
<1>3. StoreInv /\ LogInv /\ ObjectsInv /\ CacheInv /\ AnchorInv /\ [Next]_vars =>
        (ObjectsInv /\ CacheInv /\ AnchorInv)'
  BY <1>1, ObjectsNext, CacheNext, AnchorNext
<1>4. StoreInv /\ LogInv /\ ObjectsInv /\ AnchorInv => Restorable
  <2> SUFFICES ASSUME StoreInv, LogInv, ObjectsInv, AnchorInv PROVE Restorable
    OBVIOUS
  <2>1. Complete
    BY StoreComplete
  <2>2. Packed(Latest(chain)) /\ HeadsFit(Latest(chain))
    BY LatestPacked, LatestFits DEF StoreInv, Typed
  <2>3. HeadsRooted(Latest(chain))
    BY LatestRooted DEF StoreInv, Typed, AnchorInv
  <2>4. Unanchored(Latest(chain)) = {}
    BY <2>2, <2>3, AnchorsFound
  <2> QED BY <2>1, <2>4 DEF Complete, HasAll, Restorable, Restores
<1> QED BY <1>2, <1>3, <1>4, LogAlways, PTL DEF Spec
=============================================================================
