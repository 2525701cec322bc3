--------------------------- MODULE ForkUnionProofs ---------------------------
(***************************************************************************)
(* Proofs about ForkUnion, for any forks, files, texts and bounds: every   *)
(* fork always loads, landed fuses name landed lines, a union is never     *)
(* repeated, and neither tripwire misses a read that is no longer so.      *)
(***************************************************************************)
EXTENDS ForkUnion, FoldFacts

-----------------------------------------------------------------------------
(* Deltas.                                                                 *)

\* A delta leads from a manifest to a manifest.
LEMMA ResultType ==
  ASSUME NEW m \in Manifest, NEW d \in SUBSET Entry
  PROVE  Result(m, d) \in Manifest
<1>1. ASSUME NEW x \in Paths, \E e \in d : e.path = x
      PROVE  (CHOOSE e \in d : e.path = x).new \in Content \cup {NoFile}
  <2>1. (CHOOSE e \in d : e.path = x) \in Entry
    BY <1>1
  <2> QED BY <2>1 DEF Entry
<1> QED BY <1>1 DEF Result, Manifest

\* The delta between two states applies to the first and leads to the second.
LEMMA DeltaFits ==
  ASSUME NEW m \in Manifest, NEW n \in Manifest
  PROVE  /\ Delta(m, n) \in SUBSET Entry /\ Applies(m, Delta(m, n))
         /\ Result(m, Delta(m, n)) = n
<1>1. Delta(m, n) \in SUBSET Entry /\ Applies(m, Delta(m, n))
  BY DEF Delta, Entry, Manifest, Applies
<1> DEFINE d == Delta(m, n)
<1>2. ASSUME NEW x \in Paths
      PROVE  (IF \E e \in d : e.path = x THEN (CHOOSE e \in d : e.path = x).new ELSE m[x]) = n[x]
  <2>1. CASE m[x] # n[x]
    <3>1. [path |-> x, old |-> m[x], new |-> n[x]] \in d
      BY <2>1 DEF Delta
    <3>2. \E e \in d : e.path = x
      BY <3>1
    <3>3. \A e \in d : e.path = x => e.new = n[x]
      BY DEF Delta
    <3> HIDE DEF d
    <3> QED BY <3>2, <3>3
  <2>2. CASE m[x] = n[x]
    <3>1. ~ \E e \in d : e.path = x
      BY <2>2 DEF Delta
    <3> QED BY <2>2, <3>1
  <2> QED BY <2>1, <2>2
<1>3. n = [x \in Paths |-> n[x]]
  BY DEF Manifest
<1> QED BY <1>1, <1>2, <1>3 DEF Result

\* What a valid intent realizes applies to the state it was realized on.
LEMMA RealizedFits ==
  ASSUME NEW m \in Manifest, NEW i \in Intents, Valid(m, i)
  PROVE  Realized(m, i) \in SUBSET Entry /\ Applies(m, Realized(m, i))
<1>1. CASE i.op = "none"
  BY <1>1 DEF Realized, Applies
<1>2. CASE i.op = "edit"
  <2>1. i \in Edits
    BY <1>2 DEF Intents, Edits, Creates, Deletes, NoIntent
  <2>2. i.path \in Paths /\ i.old \in Texts /\ m[i.path] \in Content /\ m[i.path][i.old] = 1
    BY <1>2, <2>1 DEF Edits, Valid, Manifest
  <2>3. Replaced(m[i.path], i.old, i.new) \in Content
    <3>1. ASSUME NEW t \in Texts
          PROVE  m[i.path][t] - (IF t = i.old THEN 1 ELSE 0) + (IF t \in i.new THEN 1 ELSE 0) \in Nat
      <4>1. m[i.path][t] \in Nat
        BY <2>2 DEF Content
      <4> QED BY <2>2, <4>1
    <3> QED BY <3>1 DEF Replaced, Content
  <2>4. Realized(m, i) = {[path |-> i.path, old |-> m[i.path],
                           new |-> Replaced(m[i.path], i.old, i.new)]}
    BY <1>2 DEF Realized
  <2> QED BY <2>2, <2>3, <2>4 DEF Entry, Applies
<1>3. CASE i.op = "create"
  <2>1. i.path \in Paths /\ i.blob \in Seeds
    BY <1>3 DEF Intents, Edits, Creates, Deletes, NoIntent
  <2>2. i.blob \in Content
    BY <2>1, PatchAssumption DEF Content
  <2>3. Realized(m, i) = {[path |-> i.path, old |-> NoFile, new |-> i.blob]}
    BY <1>3 DEF Realized
  <2> QED BY <1>3, <2>1, <2>2, <2>3 DEF Entry, Applies, Valid
<1>4. CASE i.op = "delete"
  <2>1. i.path \in Paths /\ i.blob \in Content
    BY <1>4 DEF Intents, Edits, Creates, Deletes, NoIntent
  <2>2. Realized(m, i) = {[path |-> i.path, old |-> i.blob, new |-> NoFile]}
    BY <1>4 DEF Realized
  <2> QED BY <1>4, <2>1, <2>2 DEF Entry, Applies, Valid
<1> QED BY <1>1, <1>2, <1>3, <1>4 DEF Valid

-----------------------------------------------------------------------------
(* Replay.                                                                 *)

\* Lines l each start where the one before ended, the first at state m.
Before(l, m, i) == IF i = 1 THEN m ELSE l[i - 1].after
Led(l, m) == \A i \in 1..Len(l) : Follows(l[i], Before(l, m, i))

\* The state lines lead to.
Tip(l, m) == IF l = <<>> THEN m ELSE l[Len(l)].after

\* Replay, a fold over the lines, leads where their sums say.
LEMMA ReplayLed ==
  ASSUME NEW m \in Manifest, NEW l \in Seq(Line), Led(l, m)
  PROVE  Replay(m, l) = Tip(l, m) /\ Tip(l, m) \in Manifest
<1> DEFINE n == Len(l)
           Is(g) == g = [T \in SUBSET (DOMAIN l) |->
                          IF T = {} THEN m ELSE Result(g[T \ {Max(T)}], l[Max(T)].delta)]
           g == CHOOSE h : Is(h)
<1>1. n \in Nat /\ DOMAIN l = 1..n /\ \A i \in 1..n : l[i] \in Line
  OBVIOUS
<1>t. \A i \in 1..n : l[i].delta \in SUBSET Entry /\ l[i].after \in Manifest
  BY <1>1 DEF Line
<1>2. Replay(m, l) = g[DOMAIN l]
  BY DEF Replay, FoldLeft, MapThenFoldSet
<1>3. \E h : Is(h)
  <2> DEFINE F == [z \in Manifest \X (1..n) |-> Result(z[1], l[z[2]].delta)]
  <2>1. F \in [Manifest \X (1..n) -> Manifest]
    <3>1. ASSUME NEW z \in Manifest \X (1..n) PROVE Result(z[1], l[z[2]].delta) \in Manifest
      <4>1. z[1] \in Manifest /\ z[2] \in 1..n
        OBVIOUS
      <4> QED BY <1>t, <4>1, ResultType
    <3> QED BY <3>1
  <2>2. PICK h : Folding(h, Manifest, m, n, F)
    <3> HIDE DEF F, n
    <3> QED BY <1>1, <2>1, FoldExists
  <2>3. ASSUME NEW T \in SUBSET (1..n), T # {}
        PROVE  F[<<h[T \ {Max(T)}], Max(T)>>] = Result(h[T \ {Max(T)}], l[Max(T)].delta)
    <3>1. T \subseteq Nat /\ \A x \in T : x <= n
      BY <1>1
    <3>2. Max(T) \in 1..n /\ T \ {Max(T)} \in SUBSET (1..n)
      BY <1>1, <2>3, <3>1, MaxIn
    <3>3. h[T \ {Max(T)}] \in Manifest
      BY <2>2, <3>2 DEF Folding
    <3> QED BY <3>2, <3>3
  <2> HIDE DEF F
  <2>4. Is(h)
    BY <1>1, <2>2, <2>3 DEF Folding
  <2> QED BY <2>4
<1> HIDE DEF g
<1>4. Is(g)
  BY <1>3 DEF g
<1> DEFINE S == {k \in Nat : k <= n => g[1..k] = IF k = 0 THEN m ELSE l[k].after}
<1>5. 0 \in S
  <2>1. 1..0 = {} /\ {} \in SUBSET (DOMAIN l)
    OBVIOUS
  <2>2. g[{}] = m
    BY <1>4, <2>1
  <2> QED BY <2>1, <2>2
<1>6. ASSUME NEW k \in Nat, k \in S PROVE k + 1 \in S
  <2> SUFFICES ASSUME k + 1 <= n PROVE g[1..k + 1] = l[k + 1].after
    OBVIOUS
  <2>1. 1..k + 1 \in SUBSET (DOMAIN l) /\ 1..k + 1 # {} /\ k + 1 \in 1..n /\ k <= n
    <3>1. k + 1 \in 1..n /\ k + 1 \in 1..k + 1 /\ k <= n
      BY <1>1
    <3>2. \A x \in 1..k + 1 : x \in 1..n
      BY <1>1, <3>1
    <3> QED BY <1>1, <3>1, <3>2
  <2>2. Max(1..k + 1) = k + 1 /\ (1..k + 1) \ {k + 1} = 1..k
    BY MaxOfInterval
  <2>3. g[1..k + 1] = Result(g[1..k], l[k + 1].delta)
    BY <1>4, <2>1, <2>2
  <2>4. g[1..k] = IF k = 0 THEN m ELSE l[k].after
    BY <1>6, <2>1
  <2>5. Follows(l[k + 1], Before(l, m, k + 1))
    BY <2>1 DEF Led
  <2>6. Before(l, m, k + 1) = g[1..k]
    BY <2>4 DEF Before
  <2> QED BY <2>3, <2>5, <2>6 DEF Follows
<1>7. n \in S
  <2> HIDE DEF S
  <2> QED BY <1>1, <1>5, <1>6, Induction
<1>8. l = <<>> <=> n = 0
  OBVIOUS
<1>9. n # 0 => n \in 1..n
  BY <1>1
<1> QED BY <1>1, <1>t, <1>2, <1>7, <1>8, <1>9 DEF Tip

-----------------------------------------------------------------------------
(* Chains.                                                                 *)

\* last_state_position is the last line that names the state, if one does.
LEMMA LastAtIs ==
  ASSUME NEW l \in Seq(Line), NEW m
  PROVE  /\ LastAt(l, m) \in 0..Len(l)
         /\ LastAt(l, m) = 0 <=> \A i \in 1..Len(l) : l[i].after # m
         /\ LastAt(l, m) # 0 => l[LastAt(l, m)].after = m
<1> DEFINE at == {i \in 1..Len(l) : l[i].after = m}
           P(i) == i \in at /\ \A j \in at : j <= i
<1>1. Len(l) \in Nat /\ at \subseteq 1..Len(l) /\ at \subseteq Nat /\ \A i \in at : i <= Len(l)
  OBVIOUS
<1>2. LastAt(l, m) = IF at = {} THEN 0 ELSE CHOOSE i \in at : \A j \in at : j <= i
  BY DEF LastAt
<1>3. CASE at = {}
  BY <1>1, <1>2, <1>3
<1>4. CASE at # {}
  <2>1. \E i \in at : \A j \in at : j <= i
    <3> HIDE DEF at
    <3> QED BY <1>1, <1>4, MaxIn
  <2>2. LastAt(l, m) \in at
    <3> HIDE DEF at
    <3> QED BY <1>2, <1>4, <2>1
  <2> QED BY <1>1, <2>2
<1> QED BY <1>3, <1>4

\* What current_state verifies, but for the replay.
Chained(l, m) ==
  /\ \A i \in 2..Len(l) : Follows(l[i], l[i - 1].after)
  /\ LastAt(l, m) = 0 /\ l # <<>> => Follows(l[1], m)

\* From the anchor's last occurrence on, a chained log is led.
LEMMA SuffixLed ==
  ASSUME NEW l \in Seq(Line), NEW m \in Manifest, Chained(l, m),
         NEW k \in LastAt(l, m)..Len(l)
  PROVE  LET u == SubSeq(l, LastAt(l, m) + 1, k)
         IN  /\ u \in Seq(Line) /\ Led(u, m)
             /\ Tip(u, m) = IF k = LastAt(l, m) THEN m ELSE l[k].after
<1> DEFINE p == LastAt(l, m)
           u == SubSeq(l, p + 1, k)
<1>1. p \in 0..Len(l) /\ (p # 0 => l[p].after = m) /\ Len(l) \in Nat
  BY LastAtIs
<1>2. /\ p = 0 /\ l # <<>> => Follows(l[1], m)
      /\ \A i \in 2..Len(l) : Follows(l[i], l[i - 1].after)
  BY DEF Chained
<1> HIDE DEF p
<1>3. p \in Nat /\ k \in p..Len(l) /\ k \in Nat
  BY <1>1 DEF p
<1>4. /\ u \in Seq(Line) /\ Len(u) = k - p
      /\ \A i \in 1..k - p : u[i] = l[p + i]
  BY <1>1, <1>3
<1> HIDE DEF u
<1>5. ASSUME NEW i \in 1..Len(u) PROVE Follows(u[i], Before(u, m, i))
  <2>1. i \in 1..k - p /\ u[i] = l[p + i] /\ p + i \in 1..Len(l)
    BY <1>1, <1>3, <1>4
  <2>2. CASE i = 1 /\ p = 0
    <3>1. l # <<>> /\ u[i] = l[1]
      BY <2>1, <2>2
    <3> QED BY <1>2, <2>2, <3>1 DEF Before
  <2>3. CASE i = 1 /\ p # 0
    <3>1. p + 1 \in 2..Len(l) /\ p + 1 - 1 = p
      BY <1>1, <1>3, <2>1, <2>3
    <3> QED BY <1>1, <1>2, <2>1, <2>3, <3>1 DEF Before
  <2>4. CASE i # 1
    <3>1. i - 1 \in 1..k - p /\ p + i \in 2..Len(l) /\ p + i - 1 = p + (i - 1)
      BY <1>3, <2>1, <2>4
    <3>2. u[i - 1] = l[p + i - 1]
      BY <1>4, <3>1
    <3>3. Follows(l[p + i], l[p + i - 1].after)
      <4>1. PICK j \in 2..Len(l) : j = p + i /\ j - 1 = p + i - 1
        BY <1>3, <2>1, <3>1
      <4>2. Follows(l[j], l[j - 1].after)
        BY <1>2
      <4> QED BY <4>1, <4>2
    <3>4. Before(u, m, i) = u[i - 1].after
      BY <2>4 DEF Before
    <3> QED BY <2>1, <3>2, <3>3, <3>4
  <2> QED BY <2>2, <2>3, <2>4
<1>6. Tip(u, m) = IF k = p THEN m ELSE l[k].after
  <2>1. CASE k = p
    BY <1>4, <1>3, <2>1 DEF Tip
  <2>2. CASE k # p
    <3>1. k - p \in 1..k - p /\ p + (k - p) = k /\ u # <<>>
      BY <1>3, <1>4, <2>2
    <3> QED BY <1>4, <2>2, <3>1 DEF Tip
  <2> QED BY <2>1, <2>2
<1>7. Led(u, m)
  BY <1>5 DEF Led
<1> QED BY <1>4, <1>6, <1>7 DEF u, p

\* A chained log loads, at the state its last line names.
LEMMA ChainedLoads ==
  ASSUME NEW f \in Forks, log[f] \in Seq(Line), anchor[f] \in Manifest,
         Chained(log[f], anchor[f])
  PROVE  Loads(f) /\ State(f) = Tip(log[f], anchor[f]) /\ State(f) \in Manifest
<1> DEFINE l == log[f]
           m == anchor[f]
           p == LastAt(l, m)
<1>1. p \in 0..Len(l) /\ (p # 0 => l[p].after = m) /\ Len(l) \in Nat
  BY LastAtIs
<1>2. ASSUME NEW k \in p..Len(l)
      PROVE  /\ Replay(m, SubSeq(l, p + 1, k)) = IF k = p THEN m ELSE l[k].after
             /\ Replay(m, SubSeq(l, p + 1, k)) \in Manifest
  <2> DEFINE u == SubSeq(l, p + 1, k)
  <2>1. u \in Seq(Line) /\ Led(u, m) /\ Tip(u, m) = IF k = p THEN m ELSE l[k].after
    BY SuffixLed
  <2> HIDE DEF u
  <2>2. Replay(m, u) = Tip(u, m) /\ Tip(u, m) \in Manifest
    BY <2>1, ReplayLed
  <2> QED BY <2>1, <2>2 DEF u
<1>3. State(f) = (IF Len(l) = p THEN m ELSE l[Len(l)].after) /\ State(f) \in Manifest
  <2>1. Len(l) \in p..Len(l)
    BY <1>1
  <2> QED BY <1>2, <2>1 DEF State, Suffix
<1>4. State(f) = Tip(l, m)
  <2>1. CASE l = <<>>
    BY <1>1, <1>3, <2>1 DEF Tip
  <2>2. CASE l # <<>>
    <3>1. Len(l) # 0
      BY <2>2
    <3> QED BY <1>1, <1>3, <2>2, <3>1 DEF Tip
  <2> QED BY <2>1, <2>2
<1>5. ASSUME NEW i \in p + 1..Len(l)
      PROVE  Applies(Replay(m, SubSeq(l, p + 1, i - 1)), l[i].delta)
  <2>1. i - 1 \in p..Len(l) /\ i \in 1..Len(l) /\ (i # 1 => i \in 2..Len(l))
    BY <1>1
  <2>2. Replay(m, SubSeq(l, p + 1, i - 1)) = IF i - 1 = p THEN m ELSE l[i - 1].after
    BY <1>2, <2>1
  <2>3. CASE i = 1
    <3>1. p = 0 /\ l # <<>> /\ i - 1 = p
      BY <1>1, <2>1, <2>3
    <3>2. Follows(l[1], m)
      BY <3>1 DEF Chained
    <3> QED BY <2>2, <2>3, <3>1, <3>2 DEF Follows
  <2>4. CASE i # 1
    <3>1. Follows(l[i], l[i - 1].after)
      BY <2>1, <2>4 DEF Chained
    <3>2. i - 1 = p => p # 0
      BY <2>4, <2>1
    <3> QED BY <1>1, <2>2, <3>1, <3>2 DEF Follows
  <2> QED BY <2>3, <2>4
<1>6. l # <<>> => State(f) = l[Len(l)].after
  BY <1>4 DEF Tip
<1> QED BY <1>3, <1>4, <1>5, <1>6 DEF Loads, Chained

\* Lines led from the state of a chained log extend the chain.
LEMMA ChainedGrow ==
  ASSUME NEW l \in Seq(Line), NEW m \in Manifest, Chained(l, m),
         NEW u \in Seq(Line), Led(u, Tip(l, m))
  PROVE  Chained(l \o u, m) /\ Tip(l \o u, m) = Tip(u, Tip(l, m))
<1> DEFINE t == l \o u
<1>1. /\ Len(l) \in Nat /\ Len(u) \in Nat /\ t \in Seq(Line) /\ Len(t) = Len(l) + Len(u)
      /\ \A i \in 1..Len(l) : t[i] = l[i]
      /\ \A i \in 1..Len(u) : t[Len(l) + i] = u[i]
      /\ (l = <<>> <=> Len(l) = 0) /\ (u = <<>> <=> Len(u) = 0) /\ (t = <<>> <=> Len(t) = 0)
  OBVIOUS
<1> HIDE DEF t
<1>2. ASSUME NEW i \in 2..Len(t) PROVE Follows(t[i], t[i - 1].after)
  <2>1. CASE i <= Len(l)
    <3>1. i \in 2..Len(l) /\ i \in 1..Len(l) /\ i - 1 \in 1..Len(l)
      BY <1>1, <2>1
    <3> QED BY <1>1, <3>1 DEF Chained
  <2>2. CASE i > Len(l)
    <3> DEFINE j == i - Len(l)
    <3>1. j \in 1..Len(u) /\ i = Len(l) + j /\ t[i] = u[j]
      BY <1>1, <2>2
    <3>2. Follows(u[j], Before(u, Tip(l, m), j))
      BY <3>1 DEF Led
    <3>3. Before(u, Tip(l, m), j) = t[i - 1].after
      <4>1. CASE j = 1
        <5>1. i - 1 = Len(l) /\ Len(l) \in 1..Len(l) /\ l # <<>>
          BY <1>1, <3>1, <4>1
        <5> QED BY <1>1, <4>1, <5>1 DEF Before, Tip
      <4>2. CASE j # 1
        <5>1. j - 1 \in 1..Len(u) /\ i - 1 = Len(l) + (j - 1)
          BY <1>1, <3>1, <4>2
        <5>2. t[i - 1] = u[j - 1]
          BY <1>1, <5>1
        <5> HIDE DEF j
        <5> QED BY <4>2, <5>2 DEF Before
      <4> QED BY <4>1, <4>2
    <3> HIDE DEF j
    <3> QED BY <3>1, <3>2, <3>3
  <2> QED BY <1>1, <2>1, <2>2
<1>3. ASSUME LastAt(t, m) = 0, t # <<>> PROVE Follows(t[1], m)
  <2>1. CASE l = <<>>
    <3>1. 1 \in 1..Len(u) /\ t[1] = u[1]
      BY <1>1, <1>3, <2>1
    <3>2. Follows(u[1], Before(u, m, 1))
      BY <2>1, <3>1 DEF Led, Tip
    <3> QED BY <3>1, <3>2 DEF Before
  <2>2. CASE l # <<>>
    <3>1. \A i \in 1..Len(t) : t[i].after # m
      BY <1>1, <1>3, LastAtIs
    <3>2. \A i \in 1..Len(l) : i \in 1..Len(t)
      BY <1>1
    <3>3. LastAt(l, m) = 0
      BY <1>1, <3>1, <3>2, LastAtIs
    <3>4. 1 \in 1..Len(l)
      BY <1>1, <2>2
    <3> QED BY <1>1, <2>2, <3>3, <3>4 DEF Chained
  <2> QED BY <2>1, <2>2
<1>4. Tip(t, m) = Tip(u, Tip(l, m))
  <2>1. CASE u = <<>>
    <3>1. Len(t) = Len(l) /\ (l # <<>> => Len(l) \in 1..Len(l))
      BY <1>1, <2>1
    <3> QED BY <1>1, <2>1, <3>1 DEF Tip
  <2>2. CASE u # <<>>
    <3>1. Len(u) \in 1..Len(u) /\ t # <<>>
      BY <1>1, <2>2
    <3> QED BY <1>1, <2>2, <3>1 DEF Tip
  <2> QED BY <2>1, <2>2
<1> QED BY <1>2, <1>3, <1>4 DEF Chained, t

\* A chained log chains from the state it leads to: snapshot moves the
\* anchor there.
LEMMA ChainedTip ==
  ASSUME NEW l \in Seq(Line), NEW m \in Manifest, Chained(l, m)
  PROVE  Chained(l, Tip(l, m))
<1>1. CASE l = <<>>
  BY <1>1 DEF Tip
<1>2. CASE l # <<>>
  <2>1. Len(l) \in 1..Len(l)
    BY <1>2
  <2>2. LastAt(l, Tip(l, m)) # 0
    BY <1>2, <2>1, LastAtIs DEF Tip
  <2> QED BY <2>2 DEF Chained
<1> QED BY <1>1, <1>2

-----------------------------------------------------------------------------
(* The inductive invariant.                                                *)

\* A line landed by union names a line of another fork; a fuse changes nothing.
Came(f, x) ==
  x.origin # NoOrigin =>
    x.origin.fork \in Forks \ {f} /\ \E k \in Nat : x.origin.id = LineId(x.origin.fork, k)
FuseOnly(x) == x.fuse # NoFuse => x.delta = {}

\* Ids say where a line was sealed.
Marked(f, l) ==
  \A i \in 1..Len(l) : l[i].id = LineId(f, i) /\ Came(f, l[i]) /\ FuseOnly(l[i])

\* FusesFollow, of one log: a line y goes by the name x had in its source.
OldName(x, y) ==
  /\ x.origin # NoOrigin /\ y.origin.fork = x.origin.fork
  /\ x.origin.id \in {y.fuse.from, y.fuse.to}
Followed(l) == \A i, j \in 1..Len(l) : i < j => ~OldName(l[i], l[j])

LogInv(f) ==
  /\ log[f] \in Seq(Line) /\ Marked(f, log[f]) /\ Followed(log[f])
  /\ IF anchor[f] = NoFork THEN log[f] = <<>>
     ELSE anchor[f] \in Manifest /\ Chained(log[f], anchor[f])

Typed ==
  anchor \in [Forks -> Manifest \cup {NoFork}] /\ log \in [Forks -> Seq(Line)]

UnionInv == Typed /\ \A f \in Forks : LogInv(f)

\* Ids and origins are typed.
LEMMA Ids ==
  /\ \A f \in Forks, k \in Nat : LineId(f, k) \in LineIds /\ LineId(f, k) # NoId
  /\ NoId \in LineIds /\ NoOrigin \in [fork : Forks \cup {NoFork}, id : LineIds]
  /\ NoFuse \in [from : LineIds, to : LineIds]
BY ForkAssumption DEF LineId, LineIds, NoId, NoOrigin, NoFuse

\* A step adds lines to fork f that lead on from its state.
Grown(f) ==
  \E u \in Seq(Line) :
    /\ f \in Existing /\ Led(u, State(f))
    /\ log' = [log EXCEPT ![f] = log[f] \o u] /\ anchor' = anchor

\* Lines added to a fork keep what is said of its log.
LEMMA LogGrows ==
  ASSUME NEW f \in Forks, UnionInv, f \in Existing, NEW u \in Seq(Line),
         Led(u, State(f)),
         \A i \in 1..Len(u) : /\ u[i].id = LineId(f, Len(log[f]) + i)
                              /\ Came(f, u[i]) /\ FuseOnly(u[i]),
         \A i \in 1..Len(log[f]), j \in 1..Len(u) : ~OldName(log[f][i], u[j]),
         \A i, j \in 1..Len(u) : i < j => ~OldName(u[i], u[j]),
         log' = [log EXCEPT ![f] = log[f] \o u], anchor' = anchor
  PROVE  UnionInv' /\ Grown(f)
<1> DEFINE l == log[f]
           t == l \o u
<1>1. /\ l \in Seq(Line) /\ anchor[f] \in Manifest /\ Chained(l, anchor[f])
      /\ Marked(f, l) /\ Followed(l)
  BY DEF UnionInv, LogInv, Existing
<1>2. State(f) = Tip(l, anchor[f])
  BY <1>1, ChainedLoads
<1>3. /\ Len(l) \in Nat /\ Len(u) \in Nat /\ t \in Seq(Line) /\ Len(t) = Len(l) + Len(u)
      /\ \A i \in 1..Len(l) : t[i] = l[i]
      /\ \A i \in 1..Len(u) : t[Len(l) + i] = u[i]
  BY <1>1
<1>4. Chained(t, anchor[f])
  BY <1>1, <1>2, ChainedGrow
<1>5. log'[f] = t /\ \A g \in Forks : g # f => log'[g] = log[g]
  BY DEF UnionInv, Typed
<1> HIDE DEF l, t
<1>6. \A i \in 1..Len(t) : \/ i \in 1..Len(l)
                           \/ i - Len(l) \in 1..Len(u) /\ i = Len(l) + (i - Len(l))
  BY <1>3
<1>7. Marked(f, t)
  <2> SUFFICES ASSUME NEW i \in 1..Len(t)
               PROVE  t[i].id = LineId(f, i) /\ Came(f, t[i]) /\ FuseOnly(t[i])
    BY DEF Marked
  <2>1. CASE i \in 1..Len(l)
    BY <1>1, <1>3, <2>1 DEF Marked
  <2>2. CASE i \notin 1..Len(l)
    <3>1. PICK j \in 1..Len(u) : i = Len(l) + j
      BY <1>6, <2>2
    <3> QED BY <1>3, <3>1 DEF l
  <2> QED BY <2>1, <2>2
<1>8. Followed(t)
  <2> SUFFICES ASSUME NEW i \in 1..Len(t), NEW j \in 1..Len(t), i < j PROVE ~OldName(t[i], t[j])
    BY DEF Followed
  <2>1. CASE j \in 1..Len(l)
    <3>1. i \in 1..Len(l)
      BY <1>3, <2>1
    <3> QED BY <1>1, <1>3, <2>1, <3>1 DEF Followed
  <2>2. CASE j \notin 1..Len(l)
    <3>1. PICK b \in 1..Len(u) : j = Len(l) + b
      BY <1>6, <2>2
    <3>2. CASE i \in 1..Len(l)
      BY <1>3, <3>1, <3>2 DEF l
    <3>3. CASE i \notin 1..Len(l)
      <4>1. PICK a \in 1..Len(u) : i = Len(l) + a
        BY <1>6, <3>3
      <4>2. a < b
        BY <1>3, <3>1, <4>1
      <4> QED BY <1>3, <3>1, <4>1, <4>2
    <3> QED BY <3>2, <3>3
  <2> QED BY <2>1, <2>2
<1>9. Typed'
  BY <1>3, <1>5 DEF UnionInv, Typed, l, t
<1>10. ASSUME NEW g \in Forks PROVE LogInv(g)'
  <2>1. CASE g = f
    <3>1. anchor'[g] # NoFork
      BY <2>1 DEF Existing
    <3>2. anchor'[g] = anchor[f] /\ log'[g] = t
      BY <1>5, <2>1
    <3> QED BY <1>1, <1>3, <1>4, <1>7, <1>8, <2>1, <3>1, <3>2 DEF LogInv
  <2>2. CASE g # f
    <3>1. log'[g] = log[g] /\ anchor'[g] = anchor[g] /\ LogInv(g)
      BY <1>5, <2>2 DEF UnionInv
    <3> QED BY <3>1 DEF LogInv
  <2> QED BY <2>1, <2>2
<1>11. Grown(f)
  BY DEF Grown
<1> QED BY <1>9, <1>10, <1>11 DEF UnionInv

\* A line of its own.
LEMMA CommitKeeps ==
  ASSUME UnionInv, NEW f \in Forks, NEW i \in Intents, NEW d \in SUBSET Entry, NEW r \in Reads,
         NEW fu \in [from : LineIds, to : LineIds], Commit(f, i, d, r, fu),
         Applies(State(f), d), fu # NoFuse => d = {}
  PROVE  UnionInv' /\ Grown(f)
<1> DEFINE l == log[f]
           x == [id |-> LineId(f, Len(l) + 1), intent |-> i, delta |-> d,
                 after |-> Result(State(f), d), reads |-> r, origin |-> NoOrigin, fuse |-> fu]
           u == <<x>>
<1>1. /\ f \in Existing /\ l \in Seq(Line) /\ anchor[f] \in Manifest /\ Chained(l, anchor[f])
      /\ log' = [log EXCEPT ![f] = Append(l, x)] /\ anchor' = anchor
  BY DEF UnionInv, LogInv, Existing, Commit
<1>2. State(f) \in Manifest /\ Result(State(f), d) \in Manifest
  BY <1>1, ChainedLoads, ResultType
<1>3. Len(l) + 1 \in Nat
  BY <1>1
<1>4. x \in Line
  BY <1>2, <1>3, Ids DEF Line
<1>5. x.origin = NoOrigin /\ x.fuse = fu /\ x.delta = d /\ x.id = LineId(f, Len(l) + 1)
      /\ x.after = Result(State(f), d)
  OBVIOUS
<1> HIDE DEF x
<1>6. u \in Seq(Line) /\ Len(u) = 1 /\ u[1] = x /\ 1..Len(u) = {1} /\ Append(l, x) = l \o u
  BY <1>1, <1>4
<1> HIDE DEF u
<1>7. Led(u, State(f))
  BY <1>5, <1>6 DEF Led, Before, Follows
<1>8. \A k \in 1..Len(u) : /\ u[k].id = LineId(f, Len(l) + k)
                           /\ Came(f, u[k]) /\ FuseOnly(u[k])
  BY <1>5, <1>6 DEF Came, FuseOnly
<1>9. \A y : y.origin # NoOrigin /\ y.origin.fork \in Forks => ~OldName(y, x)
  BY <1>5, ForkAssumption DEF OldName, NoOrigin
<1>10. \A k \in 1..Len(l), j \in 1..Len(u) : ~OldName(l[k], u[j])
  BY <1>6, <1>9 DEF UnionInv, LogInv, Marked, Came, OldName
<1>11. \A k, j \in 1..Len(u) : k < j => ~OldName(u[k], u[j])
  BY <1>6
<1> QED BY <1>1, <1>6, <1>7, <1>8, <1>10, <1>11, LogGrows

\* The state of a fork that is there.
LEMMA StateIs ==
  ASSUME UnionInv, NEW f \in Existing
  PROVE  /\ f \in Forks /\ log[f] \in Seq(Line) /\ anchor[f] \in Manifest
         /\ Chained(log[f], anchor[f]) /\ Loads(f)
         /\ State(f) \in Manifest /\ State(f) = Tip(log[f], anchor[f])
BY ChainedLoads DEF UnionInv, LogInv, Existing

\* What an author asks and has read is typed.
LEMMA AskedTypes ==
  ASSUME NEW m \in Manifest, NEW i \in IntentsAt(m)
  PROVE  i \in Intents /\ Valid(m, i) /\ ReadsFor(m, i) \subseteq Reads
<1>1. i \in Intents /\ Valid(m, i)
  BY DEF IntentsAt, Intents, Edits, Creates, Deletes, Manifest, Valid
<1>2. ASSUME i.op = "edit" PROVE ReadsFor(m, i) \subseteq Reads
  <2>1. i \in Edits
    BY <1>1, <1>2 DEF Intents, Edits, Creates, Deletes, NoIntent
  <2>2. i.path \in Paths /\ i.old \in Texts /\ m[i.path] \in Content
    BY <1>1, <1>2, <2>1 DEF Edits, Valid, Manifest
  <2>3. \A s \in SUBSET Texts :
          [kind |-> "spans", path |-> i.path, blob |-> m[i.path], spans |-> s] \in Reads
    BY <2>2 DEF Reads
  <2>4. NoReads \in Reads /\ [kind |-> "any", state |-> m] \in Reads
    BY DEF Reads, NoReads
  <2> DEFINE Span(s) == [kind |-> "spans", path |-> i.path, blob |-> m[i.path], spans |-> s]
             Beside == {t \in Texts : m[i.path][t] > 0} \ {i.old}
             Of(o) == CASE o = "none" -> {NoReads}
                        [] o = "edited" -> {Span({i.old})}
                        [] o = "beside" -> {Span({i.old, t}) : t \in Beside}
                        [] o = "file" -> {Span({})}
                        [] o = "search" -> {[kind |-> "any", state |-> m]}
  <2>5. \A t \in Beside : {i.old, t} \in SUBSET Texts
    BY <2>2
  <2>6. {i.old} \in SUBSET Texts /\ {} \in SUBSET Texts
    BY <2>2
  <2>7. ASSUME NEW o \in Observed PROVE Of(o) \subseteq Reads
    <3>1. o \in Observations
      BY ObservedAssumption
    <3>2. CASE o = "none"
      BY <2>4, <3>2
    <3>3. CASE o = "edited"
      BY <2>3, <2>6, <3>3
    <3>4. CASE o = "beside"
      BY <2>3, <2>5, <3>4
    <3>5. CASE o = "file"
      BY <2>3, <2>6, <3>5
    <3>6. CASE o = "search"
      BY <2>4, <3>6
    <3> QED BY <3>1, <3>2, <3>3, <3>4, <3>5, <3>6 DEF Observations
  <2>8. ReadsFor(m, i) = UNION {Of(o) : o \in Observed}
    BY <1>2 DEF ReadsFor
  <2> HIDE DEF Of
  <2> QED BY <2>7, <2>8
<1>3. ASSUME i.op # "edit" PROVE ReadsFor(m, i) \subseteq Reads
  <2>1. ReadsFor(m, i) = {NoReads}
    BY <1>3 DEF ReadsFor
  <2> QED BY <2>1 DEF Reads, NoReads
<1> QED BY <1>1, <1>2, <1>3

\* An intent applied.
LEMMA ApplyKeeps ==
  ASSUME UnionInv, NEW f \in Existing, NEW i \in Intents, NEW r \in Reads, Apply(f, i, r)
  PROVE  UnionInv' /\ Grown(f)
<1>1. Commit(f, i, Realized(State(f), i), r, NoFuse) /\ Valid(State(f), i)
  BY DEF Apply
<1>2. Realized(State(f), i) \in SUBSET Entry /\ Applies(State(f), Realized(State(f), i))
  BY <1>1, StateIs, RealizedFits
<1> QED BY <1>1, <1>2, StateIs, Ids, CommitKeeps

\* A line back to a state of the fork's history.
LEMMA RepointKeeps ==
  ASSUME UnionInv, NEW f \in Existing, NEW m \in History(f), Repoint(f, m)
  PROVE  UnionInv' /\ Grown(f)
<1>1. m \in Manifest
  <2>1. \A k \in 1..Len(log[f]) : log[f][k] \in Line
    BY StateIs
  <2> QED BY <2>1, StateIs DEF History, Line
<1>2. Commit(f, NoIntent, Delta(State(f), m), NoReads, NoFuse)
  BY DEF Repoint
<1>3. Delta(State(f), m) \in SUBSET Entry /\ Applies(State(f), Delta(State(f), m))
  BY <1>1, StateIs, DeltaFits
<1>4. NoIntent \in Intents /\ NoReads \in Reads
  BY DEF Intents, NoIntent, Reads, NoReads
<1> QED BY <1>2, <1>3, <1>4, StateIs, Ids, CommitKeeps

\* A named span.
LEMMA FuseKeeps ==
  ASSUME UnionInv, NEW f \in Forks, NEW a \in 1..Len(log[f]), NEW b \in 1..Len(log[f]),
         FuseSpan(f, a, b)
  PROVE  UnionInv' /\ Grown(f)
<1> DEFINE fu == [from |-> log[f][a].id, to |-> log[f][b].id]
<1>1. log[f][a] \in Line /\ log[f][b] \in Line
  BY DEF UnionInv, LogInv
<1>2. fu \in [from : LineIds, to : LineIds]
  BY <1>1 DEF Line
<1>3. Commit(f, NoIntent, {}, NoReads, fu)
  BY DEF FuseSpan
<1>4. NoIntent \in Intents /\ NoReads \in Reads /\ Applies(State(f), {})
  BY DEF Intents, NoIntent, Reads, NoReads, Applies
<1> HIDE DEF fu
<1> QED BY <1>2, <1>3, <1>4, CommitKeeps

\* The anchor moved to the state the log leads to.
LEMMA SnapshotKeeps ==
  ASSUME UnionInv, NEW f \in Forks, Snapshot(f)
  PROVE  UnionInv'
<1>1. /\ f \in Existing /\ anchor' = [anchor EXCEPT ![f] = State(f)] /\ log' = log
  BY DEF Snapshot
<1>2. /\ State(f) \in Manifest /\ Chained(log[f], State(f))
  BY <1>1, StateIs, ChainedTip
<1>3. anchor'[f] = State(f) /\ \A g \in Forks : g # f => anchor'[g] = anchor[g]
  BY <1>1 DEF UnionInv, Typed
<1>4. Typed'
  BY <1>1, <1>2 DEF UnionInv, Typed
<1>5. ASSUME NEW g \in Forks PROVE LogInv(g)'
  <2>1. CASE g = f
    <3>1. State(f) # NoFork
      BY <1>2, ForkAssumption
    <3> QED BY <1>1, <1>2, <1>3, <2>1, <3>1 DEF UnionInv, LogInv
  <2>2. CASE g # f
    BY <1>1, <1>3, <2>2 DEF UnionInv, LogInv
  <2> QED BY <2>1, <2>2
<1> QED BY <1>4, <1>5 DEF UnionInv

\* A new fork: an anchor, and no lines.
LEMMA CreateKeeps ==
  ASSUME UnionInv, NEW n \in Forks, NEW from \in Forks, CreateFork(n, from)
  PROVE  UnionInv'
<1>1. /\ from \in Existing /\ n \notin Existing
      /\ anchor' = [anchor EXCEPT ![n] = State(from)] /\ log' = log
  BY DEF CreateFork
<1>2. State(from) \in Manifest /\ State(from) # NoFork
  BY <1>1, StateIs, ForkAssumption
<1>3. anchor'[n] = State(from) /\ \A g \in Forks : g # n => anchor'[g] = anchor[g]
  BY <1>1 DEF UnionInv, Typed
<1>4. Typed'
  BY <1>1, <1>2 DEF UnionInv, Typed
<1>5. log[n] = <<>>
  BY <1>1 DEF UnionInv, LogInv, Existing
<1>6. \A m : Chained(<<>>, m)
  <2>1. 2..Len(<<>>) = {}
    BY SMT
  <2> QED BY <2>1 DEF Chained
<1>7. ASSUME NEW g \in Forks PROVE LogInv(g)'
  <2>1. CASE g = n
    BY <1>1, <1>2, <1>3, <1>5, <1>6, <2>1 DEF UnionInv, LogInv
  <2>2. CASE g # n
    BY <1>1, <1>3, <2>2 DEF UnionInv, LogInv
  <2> QED BY <2>1, <2>2
<1> QED BY <1>4, <1>7 DEF UnionInv

\* It holds of an empty repository.
LEMMA UnionInit == Init => UnionInv
<1> SUFFICES ASSUME Init PROVE UnionInv
  OBVIOUS
<1>1. EmptyManifest \in Manifest
  BY DEF EmptyManifest, Manifest
<1>2. Typed
  BY <1>1 DEF Init, Typed
<1>3. /\ <<>> \in Seq(Line) /\ Marked(Main, <<>>) /\ Followed(<<>>)
      /\ \A m : Chained(<<>>, m)
  <2>1. 1..Len(<<>>) = {} /\ 2..Len(<<>>) = {} /\ <<>> \in Seq(Line)
    BY SMT
  <2> QED BY <2>1 DEF Marked, Followed, Chained
<1>4. \A f : Marked(f, <<>>)
  BY <1>3 DEF Marked
<1> QED BY <1>1, <1>2, <1>3, <1>4 DEF UnionInv, LogInv, Init

-----------------------------------------------------------------------------
(* Union: the replay of one log onto another.                              *)

\* What union carries from line to line.
Rekeys == UNION {[D -> LineIds] : D \in SUBSET LineIds}
Accs(t) == [fork : {t}, length : Nat, scratch : Manifest, staged : Seq(Line),
            rekey : Rekeys, stale : BOOLEAN, dead : BOOLEAN]

\* A landed line is a line.
LEMMA LandedIs ==
  ASSUME NEW s \in Forks, NEW t \in Forks, NEW acc \in Accs(t), NEW x \in Line,
         Applies(acc.scratch, x.delta) \/ Valid(acc.scratch, x.intent)
  PROVE  LET d == Replays(acc, x)
             y == Landed(s, acc, x, d)
         IN  /\ d \in SUBSET Entry /\ Applies(acc.scratch, d)
             /\ y \in Line /\ y.delta = d /\ y.after = Result(acc.scratch, d)
             /\ y.id = LineId(t, acc.length + Len(acc.staged) + 1)
             /\ y.origin = [fork |-> s, id |-> x.id]
             /\ y.fuse = [from |-> Renamed(acc.rekey, x.fuse.from),
                          to |-> Renamed(acc.rekey, x.fuse.to)]
<1> DEFINE d == Replays(acc, x)
           y == Landed(s, acc, x, d)
<1>1. /\ acc.scratch \in Manifest /\ acc.staged \in Seq(Line) /\ acc.rekey \in Rekeys
      /\ acc.fork = t /\ acc.length \in Nat
      /\ x.intent \in Intents /\ x.delta \in SUBSET Entry /\ x.reads \in Reads /\ x.id \in LineIds
      /\ x.fuse \in [from : LineIds, to : LineIds]
  BY DEF Accs, Line
<1>2. d \in SUBSET Entry /\ Applies(acc.scratch, d)
  <2>1. CASE Applies(acc.scratch, x.delta)
    BY <1>1, <2>1 DEF Replays
  <2>2. CASE ~Applies(acc.scratch, x.delta)
    <3>1. d = Realized(acc.scratch, x.intent) /\ Valid(acc.scratch, x.intent)
      BY <2>2 DEF Replays
    <3> QED BY <1>1, <3>1, RealizedFits
  <2> QED BY <2>1, <2>2
<1> HIDE DEF d
<1>3. Result(acc.scratch, d) \in Manifest
  BY <1>1, <1>2, ResultType
<1>4. \A a \in LineIds : Renamed(acc.rekey, a) \in LineIds
  BY <1>1 DEF Rekeys, Renamed
<1>5. acc.length + Len(acc.staged) + 1 \in Nat
  BY <1>1
<1>6. y = [id |-> LineId(t, acc.length + Len(acc.staged) + 1), intent |-> x.intent,
           delta |-> d, after |-> Result(acc.scratch, d), reads |-> x.reads,
           origin |-> [fork |-> s, id |-> x.id],
           fuse |-> [from |-> Renamed(acc.rekey, x.fuse.from),
                     to |-> Renamed(acc.rekey, x.fuse.to)]]
  BY <1>1 DEF Landed
<1>7. /\ [fork |-> s, id |-> x.id] \in [fork : Forks \cup {NoFork}, id : LineIds]
      /\ [from |-> Renamed(acc.rekey, x.fuse.from), to |-> Renamed(acc.rekey, x.fuse.to)]
           \in [from : LineIds, to : LineIds]
  BY <1>1, <1>4
<1>8. y \in Line
  BY <1>1, <1>2, <1>3, <1>5, <1>6, <1>7, Ids DEF Line
<1> QED BY <1>2, <1>6, <1>8 DEF d

\* The names known, and one more.
Noted(rekey, a, b) == [c \in DOMAIN rekey \cup {a} |-> IF c = a THEN b ELSE rekey[c]]

\* What Stage makes of the accumulator when it lands a line.
LEMMA LandIs ==
  ASSUME NEW s \in Forks, NEW t \in Forks, NEW acc \in Accs(t), NEW x \in Line, NEW conc,
         Applies(acc.scratch, x.delta) \/ Valid(acc.scratch, x.intent)
  PROVE  LET y == Landed(s, acc, x, Replays(acc, x))
             b == Land(s, conc, acc, x)
         IN  /\ b \in Accs(t)
             /\ b.scratch = y.after /\ b.staged = Append(acc.staged, y)
             /\ b.rekey = Noted(acc.rekey, x.id, y.id)
             /\ b.dead = acc.dead /\ b.length = acc.length
<1> DEFINE y == Landed(s, acc, x, Replays(acc, x))
           b == Land(s, conc, acc, x)
           k == Noted(acc.rekey, x.id, y.id)
           st == acc.stale \/ \E c \in conc :
                   StaleReads(x.reads, WritePaths(c.delta), acc.scratch)
<1>1. y \in Line
  BY LandedIs
<1>2. b = [acc EXCEPT !.scratch = y.after, !.staged = Append(acc.staged, y), !.rekey = k, !.stale = st]
  BY DEF Land, Noted
<1>3. y.after \in Manifest /\ y.id \in LineIds /\ x.id \in LineIds
  BY <1>1 DEF Line
<1>4. /\ acc.rekey \in Rekeys /\ acc.staged \in Seq(Line) /\ acc.fork \in {t}
      /\ acc.length \in Nat /\ acc.dead \in BOOLEAN /\ acc.stale \in BOOLEAN
      /\ acc = [fork |-> acc.fork, length |-> acc.length, scratch |-> acc.scratch,
                staged |-> acc.staged, rekey |-> acc.rekey, stale |-> acc.stale,
                dead |-> acc.dead]
  BY DEF Accs
<1> HIDE DEF y
<1>5. k \in Rekeys
  <2>1. PICK D \in SUBSET LineIds : acc.rekey \in [D -> LineIds]
    BY <1>4 DEF Rekeys
  <2>2. k \in [D \cup {x.id} -> LineIds] /\ D \cup {x.id} \in SUBSET LineIds
    BY <1>3, <2>1 DEF Noted
  <2> QED BY <2>2 DEF Rekeys
<1>6. Append(acc.staged, y) \in Seq(Line)
  BY <1>1, <1>4
<1>7. st \in BOOLEAN
  BY <1>4
<1> HIDE DEF k, st, b
<1>8. b = [fork |-> acc.fork, length |-> acc.length, scratch |-> y.after,
           staged |-> Append(acc.staged, y), rekey |-> k, stale |-> st, dead |-> acc.dead]
  BY <1>2, <1>4
<1>9. b \in Accs(t)
  BY <1>3, <1>4, <1>5, <1>6, <1>7, <1>8 DEF Accs
<1> QED BY <1>8, <1>9 DEF k, b, y

\* One source line.
LEMMA StageTyped ==
  ASSUME NEW s \in Forks, NEW t \in Forks, NEW l, NEW same, NEW acc \in Accs(t), NEW x \in Line
  PROVE  Stage(s, l, same, acc, x) \in Accs(t)
<1>1. [acc EXCEPT !.dead = TRUE] \in Accs(t)
  BY DEF Accs
<1>2. Applies(acc.scratch, x.delta) \/ Valid(acc.scratch, x.intent) =>
        Land(s, ToSet(Concurrent(s, l)), acc, x) \in Accs(t)
  BY LandIs
<1> QED BY <1>1, <1>2 DEF Stage

\* Where the replay begins.
Start(s, t, l, m) ==
  [fork |-> t, length |-> Len(l), scratch |-> m, staged |-> <<>>,
   rekey |-> Rekey(s, l), stale |-> FALSE, dead |-> FALSE]

\* The ids of what was carried before.
LEMMA RekeyIs ==
  ASSUME NEW s, NEW l \in Seq(Line)
  PROVE  /\ Rekey(s, l) \in Rekeys
         /\ \A i \in 1..Len(l) : l[i].origin.fork = s => l[i].origin.id \in DOMAIN Rekey(s, l)
         /\ \A a \in DOMAIN Rekey(s, l) : \E i \in 1..Len(l) :
              l[i].origin = [fork |-> s, id |-> a]
         /\ \A a \in DOMAIN Rekey(s, l) : \E i \in 1..Len(l) : Rekey(s, l)[a] = l[i].id
<1> DEFINE D == {l[i].origin.id : i \in {j \in 1..Len(l) : l[j].origin.fork = s}}
           Y(a) == CHOOSE y \in ToSet(l) : y.origin = [fork |-> s, id |-> a]
<1>1. \A i \in 1..Len(l) : l[i] \in Line
  OBVIOUS
<1>2. ToSet(l) = {l[i] : i \in 1..Len(l)}
  BY DEF ToSet
<1>3. ASSUME NEW a \in D PROVE \E i \in 1..Len(l) : l[i].origin = [fork |-> s, id |-> a]
  <2>1. PICK i \in 1..Len(l) : l[i].origin.fork = s /\ l[i].origin.id = a
    OBVIOUS
  <2>2. l[i].origin \in [fork : Forks \cup {NoFork}, id : LineIds]
    BY <1>1 DEF Line
  <2>3. l[i].origin = [fork |-> s, id |-> a]
    BY <2>1, <2>2
  <2> QED BY <2>3
<1>4. ASSUME NEW a \in D PROVE Y(a) \in ToSet(l)
  <2>1. \E y \in ToSet(l) : y.origin = [fork |-> s, id |-> a]
    BY <1>2, <1>3
  <2> QED BY <2>1
<1>5. ASSUME NEW a \in D PROVE Y(a).id \in LineIds /\ \E i \in 1..Len(l) : Y(a).id = l[i].id
  BY <1>1, <1>2, <1>4 DEF Line
<1>6. D \subseteq LineIds
  BY <1>1 DEF Line
<1>7. Rekey(s, l) = [a \in D |-> Y(a).id]
  BY DEF Rekey
<1>8. \A i \in 1..Len(l) : l[i].origin.fork = s => l[i].origin.id \in D
  OBVIOUS
<1> HIDE DEF D, Y
<1>9. Rekey(s, l) \in [D -> LineIds]
  BY <1>5, <1>7
<1> QED BY <1>3, <1>5, <1>6, <1>7, <1>8, <1>9 DEF Rekeys

\* What the replay starts with is typed.
LEMMA StartTyped ==
  ASSUME NEW s \in Forks, NEW t \in Forks, NEW l \in Seq(Line), NEW m \in Manifest
  PROVE  Start(s, t, l, m) \in Accs(t)
<1>1. Rekey(s, l) \in Rekeys /\ <<>> \in Seq(Line) /\ Len(l) \in Nat
  BY RekeyIs
<1> QED BY <1>1 DEF Start, Accs

\* Induction over the source's lines: what holds where the replay begins, of
\* no line, and is carried from each line to the next holds of them all.
LEMMA MergeInduction ==
  ASSUME NEW s \in Forks, NEW t \in Forks, NEW l \in Seq(Line), NEW m \in Manifest,
         log[s] \in Seq(Line),
         NEW I \in [0..Len(log[s]) -> SUBSET Accs(t)], Start(s, t, l, m) \in I[0],
         \A k \in 0..Len(log[s]) - 1 : \A acc \in I[k] :
           Stage(s, l, State(s) = m, acc, log[s][k + 1]) \in I[k + 1]
  PROVE  Merge(s, t, l, m) \in I[Len(log[s])]
<1> DEFINE n == Len(log[s])
           b == Start(s, t, l, m)
           same == State(s) = m
           L == log[s]
           Is(g) == g = [T \in SUBSET (DOMAIN L) |->
                          IF T = {} THEN b ELSE Stage(s, l, same, g[T \ {Max(T)}], L[Max(T)])]
           g == CHOOSE h : Is(h)
<1>1. n \in Nat /\ DOMAIN L = 1..n /\ \A i \in 1..n : L[i] \in Line
  OBVIOUS
<1>2. Merge(s, t, l, m) = g[DOMAIN L]
  BY DEF Merge, FoldLeft, MapThenFoldSet, Start
<1>b. b \in Accs(t)
  BY StartTyped
<1> HIDE DEF b, same
<1>3. \E h : Is(h)
  <2> DEFINE F == [z \in Accs(t) \X (1..n) |-> Stage(s, l, same, z[1], L[z[2]])]
  <2>1. F \in [Accs(t) \X (1..n) -> Accs(t)]
    <3>1. ASSUME NEW z \in Accs(t) \X (1..n) PROVE Stage(s, l, same, z[1], L[z[2]]) \in Accs(t)
      <4>1. z[1] \in Accs(t) /\ z[2] \in 1..n
        OBVIOUS
      <4> QED BY <1>1, <4>1, StageTyped
    <3> QED BY <3>1
  <2>2. PICK h : Folding(h, Accs(t), b, n, F)
    <3> HIDE DEF F, n
    <3> QED BY <1>1, <1>b, <2>1, FoldExists
  <2>3. ASSUME NEW T \in SUBSET (1..n), T # {}
        PROVE  F[<<h[T \ {Max(T)}], Max(T)>>] = Stage(s, l, same, h[T \ {Max(T)}], L[Max(T)])
    <3>1. T \subseteq Nat /\ \A x \in T : x <= n
      BY <1>1
    <3>2. Max(T) \in 1..n /\ T \ {Max(T)} \in SUBSET (1..n)
      BY <1>1, <2>3, <3>1, MaxIn
    <3>3. h[T \ {Max(T)}] \in Accs(t)
      BY <2>2, <3>2 DEF Folding
    <3> QED BY <3>2, <3>3
  <2> HIDE DEF F
  <2>4. Is(h)
    BY <1>1, <2>2, <2>3 DEF Folding
  <2> QED BY <2>4
<1> HIDE DEF g
<1>4. Is(g)
  BY <1>3 DEF g
<1> DEFINE S == {k \in Nat : k <= n => g[1..k] \in I[k]}
<1>5. 0 \in S
  <2>1. 1..0 = {} /\ {} \in SUBSET (DOMAIN L)
    OBVIOUS
  <2>2. g[{}] = b
    BY <1>4, <2>1
  <2> QED BY <2>1, <2>2 DEF b
<1>6. ASSUME NEW k \in Nat, k \in S PROVE k + 1 \in S
  <2> SUFFICES ASSUME k + 1 <= n PROVE g[1..k + 1] \in I[k + 1]
    OBVIOUS
  <2>1. 1..k + 1 \in SUBSET (DOMAIN L) /\ 1..k + 1 # {} /\ k + 1 \in 1..n /\ k <= n
    <3>1. k + 1 \in 1..n /\ k + 1 \in 1..k + 1 /\ k <= n
      BY <1>1
    <3>2. \A x \in 1..k + 1 : x \in 1..n
      BY <1>1, <3>1
    <3> QED BY <1>1, <3>1, <3>2
  <2>2. Max(1..k + 1) = k + 1 /\ (1..k + 1) \ {k + 1} = 1..k
    BY MaxOfInterval
  <2>3. g[1..k + 1] = Stage(s, l, same, g[1..k], L[k + 1])
    BY <1>4, <2>1, <2>2
  <2>4. g[1..k] \in I[k] /\ k \in 0..n - 1
    BY <1>1, <1>6, <2>1
  <2> QED BY <2>3, <2>4 DEF same
<1>7. n \in S
  <2> HIDE DEF S
  <2> QED BY <1>1, <1>5, <1>6, Induction
<1> QED BY <1>1, <1>2, <1>7

\* A line that follows where the others led.
LEMMA LedAppend ==
  ASSUME NEW u \in Seq(Line), NEW m \in Manifest, Led(u, m), NEW y \in Line, Follows(y, Tip(u, m))
  PROVE  Led(Append(u, y), m) /\ Tip(Append(u, y), m) = y.after
<1> DEFINE t == Append(u, y)
<1>1. /\ Len(u) \in Nat /\ t \in Seq(Line) /\ Len(t) = Len(u) + 1 /\ t # <<>>
      /\ t[Len(u) + 1] = y /\ \A i \in 1..Len(u) : t[i] = u[i]
      /\ (u = <<>> <=> Len(u) = 0)
  OBVIOUS
<1> HIDE DEF t
<1>2. ASSUME NEW i \in 1..Len(t) PROVE Follows(t[i], Before(t, m, i))
  <2>1. CASE i \in 1..Len(u)
    <3>1. Before(t, m, i) = Before(u, m, i)
      <4>1. i # 1 => i - 1 \in 1..Len(u)
        BY <1>1, <2>1
      <4> QED BY <1>1, <4>1 DEF Before
    <3> QED BY <1>1, <2>1, <3>1 DEF Led
  <2>2. CASE i \notin 1..Len(u)
    <3>1. i = Len(u) + 1 /\ (i # 1 => Len(u) \in 1..Len(u))
      BY <1>1, <2>2
    <3>2. Before(t, m, i) = Tip(u, m)
      BY <1>1, <3>1 DEF Before, Tip
    <3> QED BY <1>1, <3>1, <3>2
  <2> QED BY <2>1, <2>2
<1>3. Tip(t, m) = y.after
  BY <1>1 DEF Tip
<1> QED BY <1>2, <1>3 DEF Led, t

\* What the replay of s onto the lines l of t keeps, of the lines staged, of
\* the ids they are known by, and of the source's first k lines.
Stagings(acc, s, t, l, m) ==
  /\ acc \in Accs(t) /\ acc.length = Len(l)
  /\ Led(acc.staged, m) /\ acc.scratch = Tip(acc.staged, m)
  /\ \A i \in 1..Len(acc.staged) :
       /\ acc.staged[i].id = LineId(t, Len(l) + i) /\ acc.staged[i].origin.fork = s
       /\ \E j \in Nat : acc.staged[i].origin.id = LineId(s, j)
       /\ FuseOnly(acc.staged[i])
Known(acc, s, t, l) ==
  /\ \A a \in DOMAIN acc.rekey :
       (\E j \in Nat : a = LineId(s, j)) /\ \E j \in Nat : acc.rekey[a] = LineId(t, j)
  /\ \A i \in 1..Len(l) : l[i].origin.fork = s => l[i].origin.id \in DOMAIN acc.rekey
  /\ \A i \in 1..Len(acc.staged) : acc.staged[i].origin.id \in DOMAIN acc.rekey
Renames(acc, l) ==
  /\ \A i \in 1..Len(l), j \in 1..Len(acc.staged) : ~OldName(l[i], acc.staged[j])
  /\ \A i, j \in 1..Len(acc.staged) : i < j => ~OldName(acc.staged[i], acc.staged[j])
Same(s, m) == State(s) = m
Through(acc, s, l, m, k) ==
  /\ Same(s, m) => acc.scratch = m
  /\ acc.dead \/ \A j \in 1..k :
       \/ log[s][j].id \in Carried(s, l) \/ (Same(s, m) /\ log[s][j].fuse = NoFuse)
       \/ \E i \in 1..Len(acc.staged) : acc.staged[i].origin.id = log[s][j].id

MergeInv(acc, s, t, l, m, k) ==
  Stagings(acc, s, t, l, m) /\ Known(acc, s, t, l) /\ Renames(acc, l) /\ Through(acc, s, l, m, k)

\* No name under which a line was known in s is a name under which t has it.
LEMMA OtherNames ==
  ASSUME NEW s \in Forks, NEW t \in Forks, s # t, NEW i, NEW j
  PROVE  LineId(s, i) # LineId(t, j) /\ LineId(s, i) # NoId
BY ForkAssumption DEF LineId, NoId

\* A landed line keeps all of it.
LEMMA LandKeeps ==
  ASSUME NEW s \in Forks, NEW t \in Forks, s # t, NEW l \in Seq(Line), NEW m \in Manifest,
         log[s] \in Seq(Line), Marked(s, log[s]), Marked(t, l),
         NEW k \in 0..Len(log[s]) - 1, NEW acc, MergeInv(acc, s, t, l, m, k), NEW conc,
         Same(s, m) => log[s][k + 1].fuse # NoFuse,
         \/ Applies(acc.scratch, log[s][k + 1].delta)
         \/ Valid(acc.scratch, log[s][k + 1].intent)
  PROVE  MergeInv(Land(s, conc, acc, log[s][k + 1]), s, t, l, m, k + 1)
<1> DEFINE x == log[s][k + 1]
           d == Replays(acc, x)
           y == Landed(s, acc, x, d)
           b == Land(s, conc, acc, x)
           u == acc.staged
<1>0. k + 1 \in 1..Len(log[s]) /\ k \in Nat /\ Len(l) \in Nat
  OBVIOUS
<1>1. x \in Line /\ x.id = LineId(s, k + 1) /\ FuseOnly(x)
  BY <1>0 DEF Marked
<1>2. acc \in Accs(t) /\ u \in Seq(Line) /\ Len(u) \in Nat /\ acc.length = Len(l)
  BY DEF MergeInv, Stagings, Accs
<1>a. Applies(acc.scratch, x.delta) \/ Valid(acc.scratch, x.intent)
  OBVIOUS
<1> HIDE DEF x
<1>3. /\ d \in SUBSET Entry /\ Applies(acc.scratch, d)
      /\ y \in Line /\ y.delta = d /\ y.after = Result(acc.scratch, d)
      /\ y.id = LineId(t, Len(l) + Len(u) + 1)
      /\ y.origin = [fork |-> s, id |-> x.id]
      /\ y.fuse = [from |-> Renamed(acc.rekey, x.fuse.from), to |-> Renamed(acc.rekey, x.fuse.to)]
  <2>1. /\ d \in SUBSET Entry /\ Applies(acc.scratch, d)
        /\ y \in Line /\ y.delta = d /\ y.after = Result(acc.scratch, d)
        /\ y.id = LineId(t, acc.length + Len(u) + 1)
        /\ y.origin = [fork |-> s, id |-> x.id]
        /\ y.fuse = [from |-> Renamed(acc.rekey, x.fuse.from), to |-> Renamed(acc.rekey, x.fuse.to)]
    BY <1>1, <1>2, <1>a, LandedIs
  <2> QED BY <1>2, <2>1
<1>4. /\ b \in Accs(t) /\ b.scratch = y.after /\ b.staged = Append(u, y)
      /\ b.rekey = Noted(acc.rekey, x.id, y.id)
      /\ b.dead = acc.dead /\ b.length = Len(l)
  <2>1. /\ b \in Accs(t) /\ b.scratch = y.after /\ b.staged = Append(u, y)
        /\ b.rekey = Noted(acc.rekey, x.id, y.id)
        /\ b.dead = acc.dead /\ b.length = acc.length
    BY <1>1, <1>2, <1>a, LandIs
  <2> QED BY <1>2, <2>1
<1>5. x.fuse # NoFuse => d = {}
  BY <1>1 DEF FuseOnly, Replays, Applies
<1>d. Same(s, m) => d = {}
  BY <1>5 DEF x
<1> HIDE DEF d, y, b, u
<1>6. /\ Len(b.staged) = Len(u) + 1 /\ b.staged[Len(u) + 1] = y
      /\ \A i \in 1..Len(u) : b.staged[i] = u[i]
      /\ \A i \in 1..Len(b.staged) : i \in 1..Len(u) \/ i = Len(u) + 1
  BY <1>2, <1>3, <1>4
<1>7. /\ Led(u, m) /\ acc.scratch = Tip(u, m)
      /\ \A i \in 1..Len(u) :
           /\ u[i].id = LineId(t, Len(l) + i) /\ u[i].origin.fork = s
           /\ \E j \in Nat : u[i].origin.id = LineId(s, j)
           /\ FuseOnly(u[i])
  BY DEF MergeInv, Stagings, u
<1>8. /\ \A a \in DOMAIN acc.rekey :
           (\E j \in Nat : a = LineId(s, j)) /\ \E j \in Nat : acc.rekey[a] = LineId(t, j)
      /\ \A i \in 1..Len(l) : l[i].origin.fork = s => l[i].origin.id \in DOMAIN acc.rekey
      /\ \A i \in 1..Len(u) : u[i].origin.id \in DOMAIN acc.rekey
  BY DEF MergeInv, Known, u
<1>9. FuseOnly(y)
  <2>1. CASE x.fuse # NoFuse
    BY <1>3, <1>5, <2>1 DEF FuseOnly
  <2>2. CASE x.fuse = NoFuse
    <3>1. NoId \notin DOMAIN acc.rekey
      BY <1>8, OtherNames
    <3> QED BY <1>3, <2>2, <3>1 DEF FuseOnly, NoFuse, Renamed
  <2> QED BY <2>1, <2>2
<1>10. Stagings(b, s, t, l, m)
  <2>1. Led(b.staged, m) /\ b.scratch = Tip(b.staged, m)
    <3>1. Follows(y, Tip(u, m))
      BY <1>3, <1>7 DEF Follows
    <3> QED BY <1>2, <1>3, <1>4, <1>7, <3>1, LedAppend
  <2>2. Len(l) + Len(u) + 1 = Len(l) + (Len(u) + 1)
    BY <1>0, <1>2
  <2>3. /\ y.id = LineId(t, Len(l) + (Len(u) + 1)) /\ y.origin.fork = s
        /\ y.origin.id = LineId(s, k + 1) /\ k + 1 \in Nat
    BY <1>0, <1>1, <1>3, <2>2
  <2>4. ASSUME NEW i \in 1..Len(b.staged)
        PROVE  /\ b.staged[i].id = LineId(t, Len(l) + i) /\ b.staged[i].origin.fork = s
               /\ \E j \in Nat : b.staged[i].origin.id = LineId(s, j)
               /\ FuseOnly(b.staged[i])
    <3>1. CASE i \in 1..Len(u)
      BY <1>6, <1>7, <3>1
    <3>2. CASE i = Len(u) + 1
      BY <1>6, <1>9, <2>3, <3>2
    <3> QED BY <1>6, <3>1, <3>2
  <2> QED BY <1>4, <2>1, <2>4 DEF Stagings
<1>11. Known(b, s, t, l)
  <2>1. y.id = LineId(t, Len(l) + Len(u) + 1) /\ Len(l) + Len(u) + 1 \in Nat /\ k + 1 \in Nat
    BY <1>0, <1>2, <1>3
  <2>2. DOMAIN b.rekey = DOMAIN acc.rekey \cup {x.id}
    BY <1>4 DEF Noted
  <2>3. \A a \in DOMAIN b.rekey : b.rekey[a] = IF a = x.id THEN y.id ELSE acc.rekey[a]
    BY <1>4 DEF Noted
  <2>4. \A i \in 1..Len(b.staged) : b.staged[i].origin.id \in DOMAIN b.rekey
    BY <1>3, <1>6, <1>8, <2>2
  <2> QED BY <1>1, <1>8, <2>1, <2>2, <2>3, <2>4 DEF Known
<1>12. Renames(b, l)
  <2>1. ASSUME NEW z, z.origin.fork = s => z.origin.id \in DOMAIN acc.rekey
        PROVE  ~OldName(z, y)
    <3> SUFFICES ASSUME z.origin.fork = s PROVE z.origin.id \notin {y.fuse.from, y.fuse.to}
      BY <1>3 DEF OldName
    <3>1. z.origin.id \in DOMAIN acc.rekey /\ \E j \in Nat : z.origin.id = LineId(s, j)
      BY <1>8, <2>1
    <3>2. ASSUME NEW a PROVE Renamed(acc.rekey, a) # z.origin.id
      BY <1>8, <3>1, OtherNames DEF Renamed
    <3> QED BY <1>3, <3>2
  <2>2. \A i \in 1..Len(l) : ~OldName(l[i], y)
    BY <1>8, <2>1
  <2>3. \A i \in 1..Len(u) : ~OldName(u[i], y)
    BY <1>8, <2>1
  <2>4. /\ \A i \in 1..Len(l), j \in 1..Len(u) : ~OldName(l[i], u[j])
        /\ \A i, j \in 1..Len(u) : i < j => ~OldName(u[i], u[j])
    BY DEF MergeInv, Renames, u
  <2>5. \A i, j \in 1..Len(b.staged) : i < j => i \in 1..Len(u)
    BY <1>2, <1>6
  <2> QED BY <1>6, <2>2, <2>3, <2>4, <2>5 DEF Renames
<1>13. Through(b, s, l, m, k + 1)
  <2>1. Same(s, m) => acc.scratch = m
    BY DEF MergeInv, Through
  <2>2. Same(s, m) => b.scratch = m
    <3>1. Result(m, {}) = m
      BY DEF Result, Manifest
    <3> QED BY <1>3, <1>4, <1>d, <2>1, <3>1
  <2>3. ASSUME ~b.dead, NEW j \in 1..k + 1
        PROVE  \/ log[s][j].id \in Carried(s, l) \/ (Same(s, m) /\ log[s][j].fuse = NoFuse)
               \/ \E i \in 1..Len(b.staged) : b.staged[i].origin.id = log[s][j].id
    <3>1. CASE j = k + 1
      <4>1. Len(u) + 1 \in 1..Len(b.staged) /\ b.staged[Len(u) + 1].origin.id = x.id
        BY <1>2, <1>3, <1>6
      <4> QED BY <3>1, <4>1 DEF x
    <3>2. CASE j # k + 1
      <4>1. j \in 1..k
        BY <1>0, <3>2
      <4>2. \/ log[s][j].id \in Carried(s, l) \/ (Same(s, m) /\ log[s][j].fuse = NoFuse)
            \/ \E i \in 1..Len(u) : u[i].origin.id = log[s][j].id
        BY <1>4, <2>3, <4>1 DEF MergeInv, Through, u
      <4>3. \A i \in 1..Len(u) : i \in 1..Len(b.staged)
        BY <1>2, <1>6
      <4> QED BY <1>6, <4>2, <4>3
    <3> QED BY <3>1, <3>2
  <2> QED BY <2>2, <2>3 DEF Through
<1> QED BY <1>10, <1>11, <1>12, <1>13 DEF MergeInv, b, x

\* So does any line, landed or not.
LEMMA StageKeeps ==
  ASSUME NEW s \in Forks, NEW t \in Forks, s # t, NEW l \in Seq(Line), NEW m \in Manifest,
         log[s] \in Seq(Line), Marked(s, log[s]), Marked(t, l),
         NEW k \in 0..Len(log[s]) - 1, NEW acc, MergeInv(acc, s, t, l, m, k)
  PROVE  MergeInv(Stage(s, l, Same(s, m), acc, log[s][k + 1]), s, t, l, m, k + 1)
<1> DEFINE x == log[s][k + 1]
<1>0. k \in Nat /\ \A j \in 1..k + 1 : j \in 1..k \/ j = k + 1
  OBVIOUS
<1>1. CASE \/ acc.dead \/ x.id \in Carried(s, l) \/ (Same(s, m) /\ x.fuse = NoFuse)
  <2>1. Through(acc, s, l, m, k + 1)
    <3>1. ASSUME ~acc.dead, NEW j \in 1..k + 1
          PROVE  \/ log[s][j].id \in Carried(s, l) \/ (Same(s, m) /\ log[s][j].fuse = NoFuse)
                 \/ \E i \in 1..Len(acc.staged) : acc.staged[i].origin.id = log[s][j].id
      <4>1. CASE j \in 1..k
        BY <3>1, <4>1 DEF MergeInv, Through
      <4>2. CASE j = k + 1
        <5>1. log[s][j] = x
          BY <4>2
        <5> HIDE DEF x
        <5> QED BY <1>1, <3>1, <5>1
      <4> QED BY <1>0, <4>1, <4>2
    <3> QED BY <3>1 DEF MergeInv, Through
  <2>2. Stage(s, l, Same(s, m), acc, x) = acc
    BY <1>1 DEF Stage
  <2> QED BY <2>1, <2>2 DEF MergeInv
<1>2. CASE /\ ~(\/ acc.dead \/ x.id \in Carried(s, l) \/ (Same(s, m) /\ x.fuse = NoFuse))
           /\ Applies(acc.scratch, x.delta) \/ Valid(acc.scratch, x.intent)
  <2>1. Stage(s, l, Same(s, m), acc, x) = Land(s, ToSet(Concurrent(s, l)), acc, x)
    BY <1>2 DEF Stage
  <2> QED BY <1>2, <2>1, LandKeeps
<1>3. CASE /\ ~(\/ acc.dead \/ x.id \in Carried(s, l) \/ (Same(s, m) /\ x.fuse = NoFuse))
           /\ ~(Applies(acc.scratch, x.delta) \/ Valid(acc.scratch, x.intent))
  <2> DEFINE b == [acc EXCEPT !.dead = TRUE]
  <2>1. Stage(s, l, Same(s, m), acc, x) = b
    BY <1>3 DEF Stage
  <2>2. acc \in Accs(t)
    BY DEF MergeInv, Stagings
  <2>3. /\ b \in Accs(t) /\ b.length = acc.length /\ b.scratch = acc.scratch
        /\ b.staged = acc.staged /\ b.rekey = acc.rekey /\ b.dead
    BY <2>2 DEF Accs
  <2> HIDE DEF b
  <2>4. MergeInv(b, s, t, l, m, k + 1)
    BY <2>3 DEF MergeInv, Stagings, Known, Renames, Through
  <2> QED BY <2>1, <2>4
<1> QED BY <1>1, <1>2, <1>3

\* The replay starts with nothing landed.
LEMMA MergeStart ==
  ASSUME NEW s \in Forks, NEW t \in Forks, s # t, NEW l \in Seq(Line), NEW m \in Manifest,
         Marked(t, l)
  PROVE  MergeInv(Start(s, t, l, m), s, t, l, m, 0)
<1> DEFINE b == Start(s, t, l, m)
<1>1. /\ b \in Accs(t) /\ b.length = Len(l) /\ b.scratch = m /\ b.staged = <<>>
      /\ b.rekey = Rekey(s, l)
  BY StartTyped DEF Start
<1> HIDE DEF b
<1>2. 1..Len(<<>>) = {} /\ 1..0 = {}
  BY SMT
<1>3. Stagings(b, s, t, l, m)
  BY <1>1, <1>2 DEF Stagings, Led, Tip
<1>4. Known(b, s, t, l)
  <2>1. ASSUME NEW a \in DOMAIN Rekey(s, l)
        PROVE  (\E j \in Nat : a = LineId(s, j)) /\ \E j \in Nat : Rekey(s, l)[a] = LineId(t, j)
    <3>1. PICK i \in 1..Len(l) : l[i].origin = [fork |-> s, id |-> a]
      BY RekeyIs
    <3>2. l[i].origin # NoOrigin /\ l[i].origin.fork = s /\ l[i].origin.id = a
      BY <3>1, ForkAssumption DEF NoOrigin
    <3>3. \E j \in Nat : a = LineId(s, j)
      BY <3>2 DEF Marked, Came
    <3>4. PICK j \in 1..Len(l) : Rekey(s, l)[a] = l[j].id
      BY RekeyIs
    <3>5. Rekey(s, l)[a] = LineId(t, j) /\ j \in Nat
      BY <3>4 DEF Marked
    <3> QED BY <3>3, <3>5
  <2> QED BY <1>1, <1>2, <2>1, RekeyIs DEF Known
<1>5. Renames(b, l) /\ Through(b, s, l, m, 0)
  BY <1>1, <1>2 DEF Renames, Through
<1> QED BY <1>3, <1>4, <1>5 DEF MergeInv, b

\* The whole replay.
LEMMA MergeHas ==
  ASSUME NEW s \in Forks, NEW t \in Forks, s # t, NEW l \in Seq(Line), NEW m \in Manifest,
         log[s] \in Seq(Line), Marked(s, log[s]), Marked(t, l)
  PROVE  MergeInv(Merge(s, t, l, m), s, t, l, m, Len(log[s]))
<1> DEFINE n == Len(log[s])
           I == [k \in 0..n |-> {acc \in Accs(t) : MergeInv(acc, s, t, l, m, k)}]
<1>1. n \in Nat /\ 0 \in 0..n /\ n \in 0..n /\ \A k \in 0..n - 1 : k \in 0..n /\ k + 1 \in 0..n
  OBVIOUS
<1>2. I \in [0..n -> SUBSET Accs(t)]
  OBVIOUS
<1>3. Start(s, t, l, m) \in I[0]
  BY <1>1, MergeStart, StartTyped
<1>4. ASSUME NEW k \in 0..n - 1, NEW acc \in I[k]
      PROVE  Stage(s, l, State(s) = m, acc, log[s][k + 1]) \in I[k + 1]
  <2>1. acc \in Accs(t) /\ MergeInv(acc, s, t, l, m, k)
    BY <1>1
  <2>2. MergeInv(Stage(s, l, Same(s, m), acc, log[s][k + 1]), s, t, l, m, k + 1)
    BY <2>1, StageKeeps
  <2>3. Stage(s, l, Same(s, m), acc, log[s][k + 1]) \in Accs(t)
    BY <2>2 DEF MergeInv, Stagings
  <2> QED BY <1>1, <2>2, <2>3 DEF Same
<1> HIDE DEF I
<1>5. Merge(s, t, l, m) \in I[n]
  BY <1>2, <1>3, <1>4, MergeInduction
<1> QED BY <1>1, <1>5 DEF I

\* A target with lines l and state m has all that a union of s would land.
Has(s, l, m) ==
  \A j \in 1..Len(log[s]) :
    log[s][j].id \in Carried(s, l) \/ (Same(s, m) /\ log[s][j].fuse = NoFuse)

\* A union lands nothing when the target carries every line of the source, or
\* is in its state and lacks no fuse of it.
LEMMA NothingLeft ==
  ASSUME NEW s \in Forks, NEW t \in Forks, NEW l \in Seq(Line), NEW m \in Manifest,
         log[s] \in Seq(Line), Has(s, l, m)
  PROVE  Merge(s, t, l, m).staged = <<>>
<1> DEFINE n == Len(log[s])
           I == [k \in 0..n |-> {acc \in Accs(t) : acc.staged = <<>>}]
<1>1. n \in Nat /\ 0 \in 0..n /\ n \in 0..n /\ \A k \in 0..n - 1 : k \in 0..n /\ k + 1 \in 0..n
  OBVIOUS
<1>2. I \in [0..n -> SUBSET Accs(t)]
  OBVIOUS
<1>3. Start(s, t, l, m) \in I[0]
  BY <1>1, StartTyped DEF Start
<1>4. ASSUME NEW k \in 0..n - 1, NEW acc \in I[k]
      PROVE  Stage(s, l, State(s) = m, acc, log[s][k + 1]) \in I[k + 1]
  <2>1. k + 1 \in 1..n
    BY <1>1
  <2>2. \/ log[s][k + 1].id \in Carried(s, l)
        \/ State(s) = m /\ log[s][k + 1].fuse = NoFuse
    BY <2>1 DEF Has, Same
  <2>3. Stage(s, l, State(s) = m, acc, log[s][k + 1]) = acc
    BY <2>2 DEF Stage
  <2> QED BY <1>1, <2>3
<1> HIDE DEF I
<1>5. Merge(s, t, l, m) \in I[n]
  BY <1>2, <1>3, <1>4, MergeInduction
<1> QED BY <1>1, <1>5 DEF I

\* A fork is not unioned into itself: it carries all of its lines.
LEMMA MergeSelf ==
  ASSUME NEW s \in Forks, log[s] \in Seq(Line), NEW m \in Manifest
  PROVE  Merge(s, s, log[s], m).staged = <<>>
<1>1. \A j \in 1..Len(log[s]) : log[s][j].id \in Carried(s, log[s])
  BY DEF Carried, IdsOf
<1> QED BY <1>1, NothingLeft DEF Has

\* Union keeps the invariant.
LEMMA UnionKeeps ==
  ASSUME UnionInv, NEW s \in Forks, NEW t \in Forks, Union(s, t)
  PROVE  UnionInv' /\ Grown(t)
<1> DEFINE l == log[t]
           m == State(t)
           mg == Merge(s, t, l, m)
           u == mg.staged
<1>1. /\ t \in Existing /\ u # <<>>
      /\ log' = [log EXCEPT ![t] = l \o u] /\ anchor' = anchor
  BY DEF Union
<1>2. /\ l \in Seq(Line) /\ m \in Manifest /\ Marked(t, l)
      /\ log[s] \in Seq(Line) /\ Marked(s, log[s])
  BY <1>1, StateIs DEF UnionInv, LogInv
<1>3. s # t
  BY <1>1, <1>2, MergeSelf
<1>4. MergeInv(mg, s, t, l, m, Len(log[s]))
  BY <1>2, <1>3, MergeHas
<1> HIDE DEF mg
<1>5. u \in Seq(Line) /\ Led(u, m)
  BY <1>4 DEF MergeInv, Stagings, Accs
<1>6. ASSUME NEW i \in 1..Len(u)
      PROVE  u[i].id = LineId(t, Len(l) + i) /\ Came(t, u[i]) /\ FuseOnly(u[i])
  BY <1>3, <1>4 DEF MergeInv, Stagings, Came
<1>7. /\ \A i \in 1..Len(l), j \in 1..Len(u) : ~OldName(l[i], u[j])
      /\ \A i, j \in 1..Len(u) : i < j => ~OldName(u[i], u[j])
  BY <1>4 DEF MergeInv, Renames
<1> HIDE DEF u
<1> QED BY <1>1, <1>5, <1>6, <1>7, LogGrows

\* Every command keeps the invariant.
LEMMA UnionNext == UnionInv /\ [Next]_vars => UnionInv'
<1> SUFFICES ASSUME UnionInv, [Next]_vars PROVE UnionInv'
  OBVIOUS
<1>1. CASE UNCHANGED vars
  BY <1>1 DEF vars, UnionInv, Typed, LogInv
<1>2. ASSUME NEW f \in Forks, f \in Existing, NEW i \in IntentsAt(State(f)),
             NEW r \in ReadsFor(State(f), i), Apply(f, i, r)
      PROVE  UnionInv'
  <2>1. i \in Intents /\ r \in Reads
    BY <1>2, StateIs, AskedTypes
  <2> QED BY <1>2, <2>1, ApplyKeeps
<1>3. ASSUME NEW f \in Forks, f \in Existing, NEW m \in History(f), Repoint(f, m)
      PROVE  UnionInv'
  BY <1>3, RepointKeeps
<1>4. ASSUME NEW f \in Forks, NEW a \in 1..Len(log[f]), NEW b \in 1..Len(log[f]), FuseSpan(f, a, b)
      PROVE  UnionInv'
  BY <1>4, FuseKeeps
<1>5. ASSUME NEW f \in Forks, Snapshot(f) PROVE UnionInv'
  BY <1>5, SnapshotKeeps
<1>6. ASSUME NEW n \in Forks, NEW from \in Bases, CreateFork(n, from) PROVE UnionInv'
  BY <1>6, CreateKeeps, ForkAssumption
<1>7. ASSUME NEW s \in Forks, NEW t \in Targets, Union(s, t) PROVE UnionInv'
  BY <1>7, UnionKeeps, ForkAssumption
<1> QED BY <1>1, <1>2, <1>3, <1>4, <1>5, <1>6, <1>7 DEF Next

-----------------------------------------------------------------------------
(* Theorems.                                                               *)

\* Every fork loads, whatever was applied, undone, repointed, snapshotted or
\* unioned into it before (current_state): no delta or sum of a line ever
\* disagrees with the replay from the anchor's last visit.
THEOREM EveryForkLoads == Spec => []AlwaysLoads
<1>1. UnionInv => AlwaysLoads
  BY StateIs DEF AlwaysLoads
<1> QED BY UnionInit, UnionNext, <1>1, PTL DEF Spec

\* A landed fuse spans the target's own lines: once a line of the source has
\* landed, no fuse of the source that lands after it goes by the name it had
\* there (the re-key map of union).
THEOREM FusesRenamed == Spec => []FusesFollow
<1>1. UnionInv => FusesFollow
  <2> SUFFICES ASSUME UnionInv, NEW t \in Existing,
                      NEW i \in 1..Len(log[t]), NEW j \in 1..Len(log[t]), i < j,
                      log[t][i].origin # NoOrigin, log[t][j].origin.fork = log[t][i].origin.fork
               PROVE  log[t][i].origin.id \notin {log[t][j].fuse.from, log[t][j].fuse.to}
    BY DEF FusesFollow
  <2>1. Followed(log[t])
    BY DEF UnionInv, LogInv, Existing
  <2> QED BY <2>1 DEF Followed, OldName
<1> QED BY UnionInit, UnionNext, <1>1, PTL DEF Spec

\* A target that has what was landed carries every line of the source.
LEMMA CarriesAll ==
  ASSUME NEW s \in Forks, NEW t \in Forks, NEW l \in Seq(Line), NEW m \in Manifest,
         NEW mg, MergeInv(mg, s, t, l, m, Len(log[s])), ~mg.dead, mg.staged # <<>>,
         log[s] \in Seq(Line), NEW n, n = l \o mg.staged,
         NEW w, w = Tip(mg.staged, m)
  PROVE  n \in Seq(Line) /\ w \in Manifest /\ Has(s, n, w)
<1> DEFINE u == mg.staged
<1>1. u \in Seq(Line) /\ w = mg.scratch /\ mg.scratch \in Manifest
  BY DEF MergeInv, Stagings, Accs
<1>2. /\ n \in Seq(Line) /\ Len(n) = Len(l) + Len(u)
      /\ \A i \in 1..Len(l) : i \in 1..Len(n) /\ n[i] = l[i]
      /\ \A i \in 1..Len(u) : Len(l) + i \in 1..Len(n) /\ n[Len(l) + i] = u[i]
  <2> HIDE DEF u
  <2>1. n = l \o u
    BY DEF u
  <2> QED BY <1>1, <2>1
<1>3. Carried(s, l) \subseteq Carried(s, n)
  BY <1>2 DEF Carried, IdsOf
<1>4. ASSUME NEW i \in 1..Len(u) PROVE u[i].origin.id \in Carried(s, n)
  <2>1. u[i].origin.fork = s
    BY DEF MergeInv, Stagings
  <2> QED BY <1>2, <2>1 DEF Carried
<1>5. Same(s, m) => Same(s, w)
  BY <1>1 DEF MergeInv, Through, Same
<1>6. ASSUME NEW j \in 1..Len(log[s])
      PROVE  log[s][j].id \in Carried(s, n) \/ (Same(s, w) /\ log[s][j].fuse = NoFuse)
  <2>1. \/ log[s][j].id \in Carried(s, l) \/ (Same(s, m) /\ log[s][j].fuse = NoFuse)
        \/ \E i \in 1..Len(u) : u[i].origin.id = log[s][j].id
    BY DEF MergeInv, Through
  <2> QED BY <1>3, <1>4, <1>5, <2>1
<1> QED BY <1>1, <1>2, <1>6 DEF Has

\* What a fork's log leads to is its state.
LEMMA TipsAre ==
  UnionInv => \A f \in Existing : State(f) = Tip(log[f], anchor[f])
BY StateIs

\* After a union, a second one has nothing to land.
LEMMA UnionOnce ==
  ASSUME UnionInv, UnionInv', (\A f \in Existing : State(f) = Tip(log[f], anchor[f]))',
         NEW s \in Forks, NEW t \in Forks, Union(s, t)
  PROVE  Merge(s, t, log'[t], State(t)').staged = <<>>
<1> DEFINE l == log[t]
           m == State(t)
           mg == Merge(s, t, l, m)
<1>1. /\ t \in Existing /\ mg.staged # <<>> /\ ~mg.dead
      /\ log' = [log EXCEPT ![t] = l \o mg.staged] /\ anchor' = anchor
  BY DEF Union, Clean
<1>2. /\ l \in Seq(Line) /\ m \in Manifest /\ Marked(t, l)
      /\ log[s] \in Seq(Line) /\ Marked(s, log[s])
      /\ anchor[t] \in Manifest /\ Chained(l, anchor[t]) /\ m = Tip(l, anchor[t])
  BY <1>1, StateIs DEF UnionInv, LogInv
<1>3. s # t
  BY <1>1, <1>2, MergeSelf
<1>4. MergeInv(mg, s, t, l, m, Len(log[s]))
  BY <1>2, <1>3, MergeHas
<1> HIDE DEF mg
<1>5. mg.staged \in Seq(Line) /\ Led(mg.staged, m)
  BY <1>4 DEF MergeInv, Stagings, Accs
<1>6. log'[t] = l \o mg.staged
  BY <1>1 DEF UnionInv, Typed
<1>7. State(t)' = Tip(mg.staged, m)
  <2>1. t \in Existing' /\ anchor'[t] = anchor[t]
    BY <1>1 DEF Existing
  <2>2. State(t)' = Tip(log'[t], anchor[t])
    BY <2>1
  <2>3. Tip(l \o mg.staged, anchor[t]) = Tip(mg.staged, Tip(l, anchor[t]))
    BY <1>2, <1>5, ChainedGrow
  <2> QED BY <1>2, <1>6, <2>2, <2>3
<1>8. PICK n, w : n = log'[t] /\ w = State(t)'
  OBVIOUS
<1>9. n \in Seq(Line) /\ w \in Manifest /\ Has(s, n, w)
  <2>1. /\ l \in Seq(Line) /\ m \in Manifest /\ log[s] \in Seq(Line)
        /\ MergeInv(mg, s, t, l, m, Len(log[s])) /\ ~mg.dead /\ mg.staged # <<>>
        /\ n = l \o mg.staged /\ w = Tip(mg.staged, m)
    BY <1>1, <1>2, <1>4, <1>6, <1>7, <1>8
  <2> HIDE DEF l, m
  <2> QED BY <2>1, CarriesAll
<1>10. Merge(s, t, n, w).staged = <<>>
  BY <1>2, <1>9, NothingLeft
<1> QED BY <1>8, <1>10

\* Only a union lands lines of a fork, and it is the union of that fork.
LEMMA LandsIs ==
  ASSUME UnionInv, [Next]_vars, NEW s \in Forks, NEW t \in Forks, Lands(s, t)
  PROVE  Union(s, t)
<1>1. PICK i \in New(t) : log'[t][i].origin.fork = s
  BY DEF Lands
<1>2. /\ log \in [Forks -> Seq(Line)] /\ Len(log[t]) \in Nat
      /\ i > Len(log[t]) /\ i \in 1..Len(log'[t])
  <2>1. log \in [Forks -> Seq(Line)]
    BY DEF UnionInv, Typed
  <2>2. log[t] \in Seq(Line)
    BY <2>1
  <2>3. Len(log[t]) \in Nat
    BY <2>2
  <2>4. i \in Len(log[t]) + 1..Len(log'[t])
    BY DEF New
  <2> QED BY <2>1, <2>3, <2>4
<1>3. log'[t] # log[t]
  <2> SUFFICES ASSUME log'[t] = log[t] PROVE FALSE
    OBVIOUS
  <2> QED BY <1>2
<1>4. ASSUME NEW f \in Forks, NEW a, NEW d, NEW r, NEW fu, Commit(f, a, d, r, fu) PROVE FALSE
  <2> DEFINE y == [id |-> LineId(f, Len(log[f]) + 1), intent |-> a, delta |-> d,
                   after |-> Result(State(f), d), reads |-> r, origin |-> NoOrigin, fuse |-> fu]
  <2>1. log' = [log EXCEPT ![f] = Append(log[f], y)]
    BY <1>4 DEF Commit
  <2>2. y.origin.fork = NoFork
    BY DEF NoOrigin
  <2> HIDE DEF y
  <2>3. f = t
    BY <1>3, <2>1
  <2>4. log'[t] = Append(log[t], y)
    BY <1>2, <2>1, <2>3
  <2>5. i = Len(log[t]) + 1 /\ log'[t][i] = y
    BY <1>2, <2>4
  <2> QED BY <1>1, <2>2, <2>5, ForkAssumption
<1>5. ASSUME NEW r \in Forks, NEW q \in Forks, Union(r, q) PROVE Union(s, t)
  <2> DEFINE m == State(q)
             mg == Merge(r, q, log[q], m)
  <2>1. /\ q \in Existing /\ mg.staged # <<>>
        /\ log' = [log EXCEPT ![q] = log[q] \o mg.staged]
    BY <1>5 DEF Union
  <2>2. q = t
    BY <1>3, <2>1
  <2>3. /\ log[q] \in Seq(Line) /\ m \in Manifest /\ Marked(q, log[q])
        /\ log[r] \in Seq(Line) /\ Marked(r, log[r])
    BY <2>1, StateIs DEF UnionInv, LogInv
  <2>4. r # q
    BY <2>1, <2>3, MergeSelf
  <2>5. MergeInv(mg, r, q, log[q], m, Len(log[r]))
    BY <2>3, <2>4, MergeHas
  <2> HIDE DEF mg
  <2>6. /\ mg.staged \in Seq(Line)
        /\ \A j \in 1..Len(mg.staged) : mg.staged[j].origin.fork = r
    BY <2>5 DEF MergeInv, Stagings, Accs
  <2>7. log'[t] = log[t] \o mg.staged
    BY <1>2, <2>1, <2>2
  <2>8. i - Len(log[t]) \in 1..Len(mg.staged) /\ log'[t][i] = mg.staged[i - Len(log[t])]
    <3>1. log[t] \in Seq(Line)
      BY <1>2
    <3> QED BY <1>2, <2>6, <2>7, <3>1
  <2>9. r = s
    BY <1>1, <2>6, <2>8
  <2> QED BY <1>5, <2>2, <2>9
<1>6. log' # log
  BY <1>3
<1>7. \/ \E f \in Forks : \E a, d, r, fu : Commit(f, a, d, r, fu)
      \/ \E r \in Forks, q \in Targets : Union(r, q)
  <2>1. Next
    BY <1>6 DEF vars
  <2>2. ASSUME NEW f \in Forks, NEW a \in IntentsAt(State(f)), NEW r \in ReadsFor(State(f), a),
               Apply(f, a, r)
        PROVE  \E g \in Forks : \E b, d, p, fu : Commit(g, b, d, p, fu)
    BY <2>2 DEF Apply
  <2>3. ASSUME NEW f \in Forks, NEW m \in History(f), Repoint(f, m)
        PROVE  \E g \in Forks : \E b, d, p, fu : Commit(g, b, d, p, fu)
    BY <2>3 DEF Repoint
  <2>4. ASSUME NEW f \in Forks, NEW a \in 1..Len(log[f]), NEW b \in 1..Len(log[f]),
               FuseSpan(f, a, b)
        PROVE  \E g \in Forks : \E c, d, p, fu : Commit(g, c, d, p, fu)
    BY <2>4 DEF FuseSpan
  <2>5. ASSUME NEW f \in Forks, Snapshot(f) PROVE FALSE
    BY <1>6, <2>5 DEF Snapshot
  <2>6. ASSUME NEW n \in Forks, NEW from \in Bases, CreateFork(n, from) PROVE FALSE
    BY <1>6, <2>6 DEF CreateFork
  <2> QED BY <2>1, <2>2, <2>3, <2>4, <2>5, <2>6 DEF Next
<1> QED BY <1>4, <1>5, <1>7, ForkAssumption

\* A union is never repeated: whatever the source and the target held before
\* it, and whatever was landed by stratum 2 or 3, right after it a second one
\* lands no line (the carried set of union).
THEOREM UnionedOnce == Spec => Idempotent
<1>1. (\A f \in Existing : State(f) = Tip(log[f], anchor[f]))' \/ ~UnionInv'
  BY TipsAre, PTL
<1>2. /\ UnionInv /\ UnionInv' /\ [Next]_vars
      /\ (\A f \in Existing : State(f) = Tip(log[f], anchor[f]))'
      => [\A s, t \in Forks : Lands(s, t) =>
            Merge(s, t, log'[t], State(t)').staged = <<>>]_vars
  BY LandsIs, UnionOnce
<1> QED BY UnionInit, UnionNext, <1>1, <1>2, PTL DEF Spec, Idempotent

-----------------------------------------------------------------------------
(* The tripwires.                                                          *)

\* Where the first i of lines that lead on from m lead.
StateAt(l, m, i) == IF i = 0 THEN m ELSE l[i].after

\* Lines that do not write a path leave it as it was.
LEMMA Untouched ==
  ASSUME NEW l \in Seq(Line), NEW m \in Manifest, Led(l, m),
         NEW a \in 0..Len(l), NEW b \in a..Len(l), NEW p \in Paths,
         \A i \in a + 1..b : p \notin WritePaths(l[i].delta)
  PROVE  StateAt(l, m, b)[p] = StateAt(l, m, a)[p]
<1> DEFINE S == {k \in Nat : a + k <= b => StateAt(l, m, a + k)[p] = StateAt(l, m, a)[p]}
<1>0. a \in Nat /\ b \in Nat /\ Len(l) \in Nat /\ a <= b /\ b <= Len(l)
  OBVIOUS
<1>1. 0 \in S
  BY <1>0
<1>2. ASSUME NEW k \in Nat, k \in S PROVE k + 1 \in S
  <2> SUFFICES ASSUME a + (k + 1) <= b
               PROVE  StateAt(l, m, a + (k + 1))[p] = StateAt(l, m, a)[p]
    OBVIOUS
  <2> DEFINE i == a + (k + 1)
  <2>1. i \in a + 1..b /\ i \in 1..Len(l) /\ i # 0 /\ i - 1 = a + k /\ a + k <= b
        /\ (i = 1 <=> a + k = 0)
    BY <1>0
  <2>2. Follows(l[i], StateAt(l, m, a + k))
    <3>1. Before(l, m, i) = StateAt(l, m, a + k)
      BY <2>1 DEF Before, StateAt
    <3> QED BY <2>1, <3>1 DEF Led
  <2>3. l[i].after = Result(StateAt(l, m, a + k), l[i].delta)
        /\ \A e \in l[i].delta : e.path # p
    BY <2>1, <2>2 DEF Follows, WritePaths
  <2>4. StateAt(l, m, a + k)[p] = StateAt(l, m, a)[p]
    BY <1>2, <2>1
  <2> HIDE DEF i
  <2>5. l[i].after[p] = StateAt(l, m, a + k)[p]
    BY <2>3 DEF Result
  <2> QED BY <2>1, <2>4, <2>5 DEF StateAt, i
<1>3. b - a \in S
  <2> HIDE DEF S
  <2>1. b - a \in Nat
    BY <1>0
  <2> QED BY <1>1, <1>2, <2>1, Induction
<1>4. a + (b - a) = b
  BY <1>0
<1> QED BY <1>0, <1>3, <1>4

\* Where all of them lead.
LEMMA AtEnd ==
  ASSUME NEW l \in Seq(Line), NEW m
  PROVE  StateAt(l, m, Len(l)) = Tip(l, m)
<1>1. l = <<>> <=> Len(l) = 0
  OBVIOUS
<1> QED BY <1>1 DEF StateAt, Tip

\* What is still so of a state is so of one that differs in nothing that was
\* read, and of one in which the symmetric tripwire finds nothing stranded.
LEMMA NotStranded ==
  ASSUME NEW r \in Reads, NEW w, NEW m \in Manifest, NEW n \in Manifest,
         ~StrandedReads(r, w, m, n), StillSo(r, m),
         \A p \in Paths : p \notin w => n[p] = m[p]
  PROVE  StillSo(r, n)
<1>1. CASE r.kind = "none"
  BY <1>1 DEF StillSo
<1>2. CASE r.kind = "any"
  <2>1. w = {}
    BY <1>2 DEF StrandedReads
  <2>2. n = m
    BY <2>1 DEF Manifest
  <2> QED BY <2>2
<1>3. CASE r.kind = "spans"
  <2>1. r \in [kind : {"spans"}, path : Paths, blob : Content, spans : SUBSET Texts]
    BY <1>3 DEF Reads
  <2>2. /\ m[r.path] # NoFile
        /\ r.spans = {} => m[r.path] = r.blob
        /\ \A t \in r.spans : m[r.path][t] >= r.blob[t]
    BY <1>3 DEF StillSo
  <2>3. CASE r.path \notin w
    <3>1. n[r.path] = m[r.path]
      BY <2>1, <2>3
    <3> QED BY <1>3, <2>2, <3>1 DEF StillSo
  <2>4. CASE r.path \in w
    <3>1. ~ReadIsStale(r, m[r.path], n)
      BY <1>3, <2>4 DEF StrandedReads
    <3>2. n[r.path] # NoFile
      BY <3>1 DEF ReadIsStale
    <3>3. n[r.path] \in Content /\ m[r.path] \in Content
      BY <2>1, <2>2, <3>2 DEF Manifest
    <3>4. CASE n[r.path] = r.blob
      <4>1. \A t \in r.spans : r.blob[t] >= r.blob[t]
        BY <2>1 DEF Content
      <4> QED BY <1>3, <3>2, <3>4, <4>1 DEF StillSo
    <3>5. CASE n[r.path] # r.blob
      <4>1. r.spans # {} /\ \A t \in r.spans :
              \/ t \notin Changed(r.blob, n[r.path])
              \/ t \in Changed(r.blob, m[r.path])
        BY <3>1, <3>5 DEF ReadIsStale
      <4>2. ASSUME NEW t \in r.spans PROVE n[r.path][t] >= r.blob[t]
        <5>1. t \in Texts
          BY <2>1
        <5>2. m[r.path][t] \in Nat /\ n[r.path][t] \in Nat /\ r.blob[t] \in Nat
          BY <2>1, <3>3, <5>1 DEF Content
        <5>3. ~(r.blob[t] > m[r.path][t])
          BY <2>2, <4>2, <5>2
        <5>4. ~(r.blob[t] > n[r.path][t])
          BY <4>1, <5>1, <5>3 DEF Changed
        <5> QED BY <5>2, <5>4
      <4> QED BY <1>3, <3>2, <4>1, <4>2 DEF StillSo
    <3> QED BY <3>4, <3>5
  <2> QED BY <2>3, <2>4
<1> QED BY <1>1, <1>2, <1>3 DEF Reads

\* What a union does.
LEMMA UnionIs ==
  ASSUME UnionInv, UnionInv', (\A f \in Existing : State(f) = Tip(log[f], anchor[f]))',
         NEW s \in Forks, NEW t \in Forks, Union(s, t)
  PROVE  LET l == log[t]
             m == State(t)
             mg == Merge(s, t, l, m)
         IN  /\ s # t /\ s \in Existing /\ t \in Existing /\ m \in Manifest /\ l \in Seq(Line)
             /\ MergeInv(mg, s, t, l, m, Len(log[s]))
             /\ ~mg.dead /\ ~mg.stale /\ ~Strands(s, l, m, mg)
             /\ log' = [log EXCEPT ![t] = l \o mg.staged] /\ log'[t] = l \o mg.staged
             /\ anchor' = anchor /\ parted' = parted
             /\ State(t)' = mg.scratch /\ mg.scratch \in Manifest
<1> DEFINE l == log[t]
           m == State(t)
           mg == Merge(s, t, l, m)
<1>1. /\ s \in Existing /\ t \in Existing /\ mg.staged # <<>>
      /\ ~mg.dead /\ ~mg.stale /\ ~Strands(s, l, m, mg)
      /\ log' = [log EXCEPT ![t] = l \o mg.staged] /\ anchor' = anchor /\ parted' = parted
  BY DEF Union, Clean
<1>2. /\ l \in Seq(Line) /\ m \in Manifest /\ Marked(t, l)
      /\ log[s] \in Seq(Line) /\ Marked(s, log[s])
      /\ anchor[t] \in Manifest /\ Chained(l, anchor[t]) /\ m = Tip(l, anchor[t])
  BY <1>1, StateIs DEF UnionInv, LogInv
<1>3. s # t
  BY <1>1, <1>2, MergeSelf
<1>4. MergeInv(mg, s, t, l, m, Len(log[s]))
  BY <1>2, <1>3, MergeHas
<1> HIDE DEF mg
<1>5. /\ mg.staged \in Seq(Line) /\ Led(mg.staged, m)
      /\ mg.scratch = Tip(mg.staged, m) /\ mg.scratch \in Manifest
  BY <1>4 DEF MergeInv, Stagings, Accs
<1>6. log'[t] = l \o mg.staged
  BY <1>1 DEF UnionInv, Typed
<1>7. State(t)' = Tip(mg.staged, m)
  <2>1. t \in Existing' /\ anchor'[t] = anchor[t]
    BY <1>1 DEF Existing
  <2>2. State(t)' = Tip(log'[t], anchor[t])
    BY <2>1
  <2>3. Tip(l \o mg.staged, anchor[t]) = Tip(mg.staged, Tip(l, anchor[t]))
    BY <1>2, <1>5, ChainedGrow
  <2> QED BY <1>2, <1>6, <2>2, <2>3
<1> QED BY <1>1, <1>2, <1>3, <1>4, <1>5, <1>6, <1>7 DEF mg

\* A line after the last that leads to the source's anchor is concurrent.
LEMMA IsConcurrent ==
  ASSUME NEW s, NEW l \in Seq(Line), NEW i \in 1..Len(l), LastAt(l, anchor[s]) < i
  PROVE  l[i] \in ToSet(Concurrent(s, l))
<1> DEFINE p == LastAt(l, anchor[s])
           c == SubSeq(l, p + 1, Len(l))
<1>1. p \in Nat /\ Len(l) \in Nat /\ p <= Len(l)
  BY LastAtIs
<1> HIDE DEF p
<1>2. p < i
  BY DEF p
<1>3. i - p \in DOMAIN c /\ c[i - p] = l[i]
  BY <1>1, <1>2
<1>4. c[i - p] \in ToSet(c)
  BY <1>3 DEF ToSet
<1> QED BY <1>3, <1>4 DEF Concurrent, p

\* The symmetric tripwire, of one union.
LEMMA UnionStrandsNone ==
  ASSUME UnionInv, UnionInv', (\A f \in Existing : State(f) = Tip(log[f], anchor[f]))',
         NEW s \in Forks, NEW t \in Forks, Union(s, t),
         NEW i \in 1..Len(log[t]), LastAt(log[t], anchor[s]) < i,
         StillSo(log[t][i].reads, State(t))
  PROVE  StillSo(log[t][i].reads, State(t)')
<1> DEFINE l == log[t]
           m == State(t)
           mg == Merge(s, t, l, m)
           w == UNION {WritePaths(y.delta) : y \in ToSet(mg.staged)}
           r == l[i].reads
<1>1. /\ m \in Manifest /\ l \in Seq(Line)
      /\ MergeInv(mg, s, t, l, m, Len(log[s])) /\ ~Strands(s, l, m, mg)
      /\ State(t)' = mg.scratch /\ mg.scratch \in Manifest
  BY UnionIs
<1> HIDE DEF mg
<1>2. /\ mg.staged \in Seq(Line) /\ Led(mg.staged, m) /\ mg.scratch = Tip(mg.staged, m)
  BY <1>1 DEF MergeInv, Stagings, Accs
<1>3. ~StrandedReads(r, w, m, mg.scratch)
  BY <1>1, IsConcurrent DEF Strands
<1>4. ASSUME NEW p \in Paths, p \notin w PROVE mg.scratch[p] = m[p]
  <2>1. \A k \in 0 + 1..Len(mg.staged) : p \notin WritePaths(mg.staged[k].delta)
    BY <1>4 DEF ToSet
  <2>2. Len(mg.staged) \in 0..Len(mg.staged) /\ 0 \in 0..Len(mg.staged)
    BY <1>2
  <2>3. StateAt(mg.staged, m, Len(mg.staged))[p] = StateAt(mg.staged, m, 0)[p]
    BY <1>1, <1>2, <2>1, <2>2, Untouched
  <2> QED BY <1>2, <2>3, AtEnd DEF StateAt
<1>5. r \in Reads
  <2>1. l[i] \in Line
    BY <1>1
  <2> QED BY <2>1 DEF Line
<1> HIDE DEF w
<1>6. StillSo(r, mg.scratch)
  BY <1>1, <1>3, <1>4, <1>5, NotStranded
<1> QED BY <1>1, <1>6

\* How many lines a fork's base had is a number.
PartedTyped == parted \in [Forks -> Nat]

\* Every command keeps it one.
LEMMA PartedNext == UnionInv /\ PartedTyped /\ [Next]_vars => PartedTyped'
<1> SUFFICES ASSUME UnionInv, PartedTyped, [Next]_vars PROVE PartedTyped'
  OBVIOUS
<1>1. ASSUME NEW n \in Forks, NEW from \in Forks, CreateFork(n, from) PROVE PartedTyped'
  <2>1. log[from] \in Seq(Line) /\ parted' = [parted EXCEPT ![n] = Len(log[from])]
    BY <1>1 DEF CreateFork, UnionInv, Typed
  <2> QED BY <2>1 DEF PartedTyped
<1>2. CASE parted' = parted
  BY <1>2 DEF PartedTyped
<1>3. parted' = parted \/ \E n \in Forks, from \in Forks : CreateFork(n, from)
  BY ForkAssumption
     DEF Next, vars, Apply, Repoint, FuseSpan, Commit, Snapshot, Union
<1> QED BY <1>1, <1>2, <1>3

\* No union takes from under a line of the target, written there since the
\* two forks parted, what its author had read and was still so: the slice of
\* concurrent lines is long enough, and what note_stranded_reads compares is
\* all that matters.
THEOREM NothingStranded == Spec => ReasoningKept
<1>1. Init => PartedTyped
  BY DEF Init, PartedTyped
<1>2. (\A f \in Existing : State(f) = Tip(log[f], anchor[f]))' \/ ~UnionInv'
  BY TipsAre, PTL
<1>3. /\ UnionInv /\ UnionInv' /\ PartedTyped /\ [Next]_vars
      /\ (\A f \in Existing : State(f) = Tip(log[f], anchor[f]))'
      => [\A s \in Forks : Lands(s, Main) /\ Apart(s) =>
            \A i \in parted[s] + 1..Len(log[Main]) :
              LET r == log[Main][i].reads
              IN  StillSo(r, State(Main)) => StillSo(r, State(Main)')]_vars
  <2> SUFFICES ASSUME UnionInv, UnionInv', PartedTyped, [Next]_vars,
                      (\A f \in Existing : State(f) = Tip(log[f], anchor[f]))',
                      NEW s \in Forks, Lands(s, Main), Apart(s),
                      NEW i \in parted[s] + 1..Len(log[Main]),
                      StillSo(log[Main][i].reads, State(Main))
               PROVE  StillSo(log[Main][i].reads, State(Main)')
    BY DEF vars
  <2>1. Union(s, Main)
    BY LandsIs, ForkAssumption
  <2>2. log[Main] \in Seq(Line)
    BY ForkAssumption DEF UnionInv, Typed
  <2>3. parted[s] \in Nat /\ LastAt(log[Main], anchor[s]) \in Nat
        /\ LastAt(log[Main], anchor[s]) <= parted[s]
    BY <2>2, LastAtIs DEF PartedTyped, Apart
  <2>4. i \in 1..Len(log[Main]) /\ LastAt(log[Main], anchor[s]) < i
    BY <2>2, <2>3
  <2> QED BY <2>1, <2>4, UnionStrandsNone, ForkAssumption
<1> QED BY UnionInit, UnionNext, PartedNext, <1>1, <1>2, <1>3, PTL DEF Spec, ReasoningKept

-----------------------------------------------------------------------------
(* The forward tripwire, where forks are made from Main and unioned into it. *)

\* Forks are made from Main and unioned into it.
Star == Bases \subseteq {Main} /\ Targets \subseteq {Main}

\* The state a fork's lines lead on from: Main's when it was made.
Root(f) ==
  IF f = Main THEN EmptyManifest ELSE StateAt(log[Main], EmptyManifest, parted[f])

\* An intent writes its path and no other.
Writes(x) == x.intent # NoIntent => WritePaths(x.delta) = {x.intent.path}

\* The log of a fork leads on from its root, and its anchor is a state on it.
TreeInv(f) ==
  /\ Led(log[f], Root(f))
  /\ \E k \in 0..Len(log[f]) : anchor[f] = StateAt(log[f], Root(f), k)
  /\ \A i \in 1..Len(log[f]) : Writes(log[f][i])

\* What was read was so of state m.
MetAt(r, m) ==
  /\ r.kind = "any" => r.state = m
  /\ r.kind = "spans" => m[r.path] = r.blob /\ m[r.path] # NoFile

\* A line of a fork other than Main was sealed there, in the state its author
\* read, and what a repoint writes an intent wrote before.
OwnInv(f, i) ==
  LET x == log[f][i]
  IN  /\ x.origin = NoOrigin /\ (x.fuse # NoFuse => x.reads = NoReads)
      /\ MetAt(x.reads, StateAt(log[f], Root(f), i - 1))
      /\ \A p \in WritePaths(x.delta) : \E j \in 1..i :
           log[f][j].intent # NoIntent /\ log[f][j].intent.path = p

\* Line k of Main landed from fork s; line i of fork s has landed there.
Landing(s, k) == log[Main][k].origin.fork = s
Brought(s, i) == \E k \in 1..Len(log[Main]) : Landing(s, k) /\ log[Main][k].origin.id = log[s][i].id

\* What landed from fork s landed after it was made, with its intent, and in
\* order, but for fuses, which may land alone.
CarryInv(s) ==
  /\ \A k \in 1..Len(log[Main]) : Landing(s, k) =>
       /\ k > parted[s]
       /\ \E i \in 1..Len(log[s]) : /\ log[Main][k].origin.id = log[s][i].id
                                    /\ log[Main][k].intent = log[s][i].intent
  /\ \A i \in 1..Len(log[s]) : log[s][i].fuse = NoFuse /\ Brought(s, i) =>
       \A j \in 1..i : Brought(s, j)

SideInv(s) ==
  /\ parted[s] <= Len(log[Main])
  /\ \A i \in 1..Len(log[s]) : OwnInv(s, i)
  /\ CarryInv(s)

StarInv ==
  /\ PartedTyped
  /\ \A f \in Existing : TreeInv(f)
  /\ \A s \in Forks \ {Main} : SideInv(s)
  /\ Main \in Existing

\* States along led lines are states, each line taking one to the next.
LEMMA StatesAlong ==
  ASSUME NEW l \in Seq(Line), NEW m \in Manifest
  PROVE  /\ \A k \in 0..Len(l) : StateAt(l, m, k) \in Manifest
         /\ Led(l, m) => \A k \in 0..Len(l) - 1 :
              k + 1 \in 1..Len(l) /\ Follows(l[k + 1], StateAt(l, m, k))
<1>1. ASSUME NEW k \in 0..Len(l) PROVE StateAt(l, m, k) \in Manifest
  <2>1. k # 0 => l[k] \in Line
    OBVIOUS
  <2> QED BY <2>1 DEF StateAt, Line
<1>2. ASSUME Led(l, m), NEW k \in 0..Len(l) - 1
      PROVE  k + 1 \in 1..Len(l) /\ Follows(l[k + 1], StateAt(l, m, k))
  <2>1. k + 1 \in 1..Len(l) /\ (k + 1 = 1 <=> k = 0) /\ k + 1 - 1 = k
    OBVIOUS
  <2>2. Before(l, m, k + 1) = StateAt(l, m, k)
    BY <2>1 DEF Before, StateAt
  <2> QED BY <1>2, <2>1, <2>2 DEF Led
<1> QED BY <1>1, <1>2

\* Lines and more lines.
LEMMA JoinIs ==
  ASSUME NEW l \in Seq(Line), NEW u \in Seq(Line)
  PROVE  /\ Len(l \o u) = Len(l) + Len(u) /\ Len(l) \in Nat /\ Len(u) \in Nat
         /\ l \o u \in Seq(Line)
         /\ \A i \in 1..Len(l) : (l \o u)[i] = l[i]
         /\ \A i \in 1..Len(u) : (l \o u)[Len(l) + i] = u[i]
         /\ \A i \in 1..Len(l \o u) :
              i \in 1..Len(l) \/ \E j \in 1..Len(u) : i = Len(l) + j
<1> DEFINE t == l \o u
<1>1. /\ Len(t) = Len(l) + Len(u) /\ t \in Seq(Line)
      /\ Len(l) \in Nat /\ Len(u) \in Nat
      /\ \A i \in 1..Len(l) : t[i] = l[i]
      /\ \A i \in 1..Len(u) : t[Len(l) + i] = u[i]
  OBVIOUS
<1> HIDE DEF t
<1>2. ASSUME NEW i \in 1..Len(t), i \notin 1..Len(l)
      PROVE  \E j \in 1..Len(u) : i = Len(l) + j
  <2>1. i - Len(l) \in 1..Len(u) /\ i = Len(l) + (i - Len(l))
    BY <1>1, <1>2
  <2> QED BY <2>1
<1> QED BY <1>1, <1>2 DEF t

\* Where lines lead stays when lines are added.
LEMMA StatesMore ==
  ASSUME NEW l \in Seq(Line), NEW u \in Seq(Line), NEW m, NEW k \in 0..Len(l)
  PROVE  StateAt(l \o u, m, k) = StateAt(l, m, k)
<1>1. k # 0 => k \in 1..Len(l)
  OBVIOUS
<1> QED BY <1>1, JoinIs DEF StateAt

\* The types of roots.
LEMMA RootIs ==
  ASSUME UnionInv, StarInv, NEW f \in Forks
  PROVE  /\ Root(f) \in Manifest /\ log[f] \in Seq(Line) /\ EmptyManifest \in Manifest
         /\ f # Main => parted[f] \in 0..Len(log[Main])
<1>1. EmptyManifest \in Manifest
  BY DEF EmptyManifest, Manifest
<1>2. \A g \in Forks : log[g] \in Seq(Line)
  BY DEF UnionInv, Typed
<1>3. ASSUME f # Main PROVE parted[f] \in 0..Len(log[Main])
  <2>1. parted[f] \in Nat /\ parted[f] <= Len(log[Main])
    BY <1>3 DEF StarInv, SideInv, PartedTyped
  <2>2. Len(log[Main]) \in Nat
    BY <1>2, ForkAssumption
  <2> QED BY <2>1, <2>2
<1> QED BY <1>1, <1>2, <1>3, StatesAlong, ForkAssumption DEF Root

\* Where a fork's log leads from its root.
LEMMA StateOnTree ==
  ASSUME UnionInv, StarInv, NEW f \in Existing
  PROVE  /\ State(f) = Tip(log[f], Root(f)) /\ State(f) \in Manifest
         /\ State(f) = StateAt(log[f], Root(f), Len(log[f]))
<1>1. State(f) = Tip(log[f], anchor[f]) /\ State(f) \in Manifest /\ log[f] \in Seq(Line)
  BY StateIs
<1>2. PICK k \in 0..Len(log[f]) : anchor[f] = StateAt(log[f], Root(f), k)
  BY DEF StarInv, TreeInv
<1>3. CASE log[f] = <<>>
  <2>1. k = 0
    BY <1>2, <1>3
  <2> QED BY <1>1, <1>2, <1>3, <2>1, AtEnd DEF Tip, StateAt
<1>4. CASE log[f] # <<>>
  BY <1>1, <1>4, AtEnd DEF Tip
<1> QED BY <1>3, <1>4

\* Lines that lead on from where a log leads.
LEMMA LedMore ==
  ASSUME NEW l \in Seq(Line), NEW m, Led(l, m), NEW u \in Seq(Line), Led(u, Tip(l, m))
  PROVE  Led(l \o u, m)
<1> DEFINE t == l \o u
<1>1. /\ Len(l) \in Nat /\ Len(u) \in Nat /\ Len(t) = Len(l) + Len(u)
      /\ \A i \in 1..Len(l) : t[i] = l[i]
      /\ \A i \in 1..Len(u) : t[Len(l) + i] = u[i]
      /\ l = <<>> <=> Len(l) = 0
  OBVIOUS
<1> HIDE DEF t
<1>2. ASSUME NEW i \in 1..Len(t) PROVE Follows(t[i], Before(t, m, i))
  <2>1. CASE i <= Len(l)
    <3>1. i \in 1..Len(l) /\ (i # 1 => i - 1 \in 1..Len(l))
      BY <1>1, <2>1
    <3>2. Before(t, m, i) = Before(l, m, i)
      BY <1>1, <3>1 DEF Before
    <3> QED BY <1>1, <3>1, <3>2 DEF Led
  <2>2. CASE i > Len(l)
    <3>1. PICK j \in 1..Len(u) : i = Len(l) + j
      <4>1. i - Len(l) \in 1..Len(u) /\ i = Len(l) + (i - Len(l))
        BY <1>1, <2>2
      <4> QED BY <4>1
    <3>2. CASE j = 1
      <4>1. Before(t, m, i) = Tip(l, m)
        <5>1. Len(l) # 0 => i # 1 /\ i - 1 = Len(l) /\ Len(l) \in 1..Len(l)
          BY <1>1, <3>1, <3>2
        <5>2. Len(l) = 0 => i = 1
          BY <1>1, <3>1, <3>2
        <5> QED BY <1>1, <5>1, <5>2 DEF Before, Tip
      <4> QED BY <1>1, <3>1, <3>2, <4>1 DEF Led, Before
    <3>3. CASE j # 1
      <4>1. j - 1 \in 1..Len(u) /\ i - 1 = Len(l) + (j - 1) /\ i # 1
        BY <1>1, <3>1, <3>3
      <4>2. Before(t, m, i) = Before(u, Tip(l, m), j)
        BY <1>1, <3>3, <4>1 DEF Before
      <4> QED BY <1>1, <3>1, <4>2 DEF Led
    <3> QED BY <3>2, <3>3
  <2> QED BY <1>1, <2>1, <2>2
<1> QED BY <1>2 DEF Led, t

\* Lines added to a fork that keep to it.
Adding(f, u) ==
  /\ f \in Existing /\ u \in Seq(Line) /\ Led(u, State(f))
  /\ \A i \in 1..Len(u) : Writes(u[i])
  /\ log' = [log EXCEPT ![f] = log[f] \o u] /\ anchor' = anchor /\ parted' = parted

\* What a step leaves of the other logs, and of the one it adds to.
LEMMA AddsTo ==
  ASSUME UnionInv, NEW f \in Forks, NEW u, Adding(f, u)
  PROVE  log'[f] = log[f] \o u /\ \A g \in Forks : g # f => log'[g] = log[g]
BY DEF UnionInv, Typed, Adding

\* Roots stay, and logs lead on from them.
LEMMA TreeGrows ==
  ASSUME UnionInv, StarInv, NEW f \in Forks, NEW u, Adding(f, u)
  PROVE  /\ Existing' = Existing /\ PartedTyped'
         /\ \A g \in Forks : Root(g)' = Root(g)
         /\ \A g \in Existing : TreeInv(g)'
<1>1. /\ f \in Existing /\ u \in Seq(Line) /\ Led(u, State(f)) /\ \A i \in 1..Len(u) : Writes(u[i])
      /\ anchor' = anchor /\ parted' = parted /\ log[f] \in Seq(Line)
      /\ log'[f] = log[f] \o u /\ \A g \in Forks : g # f => log'[g] = log[g]
  BY AddsTo, RootIs DEF Adding
<1>2. Existing' = Existing /\ PartedTyped'
  BY <1>1 DEF Existing, StarInv, PartedTyped
<1>3. ASSUME NEW g \in Forks PROVE Root(g)' = Root(g)
  <2>1. CASE g = Main
    BY <2>1 DEF Root
  <2>2. CASE g # Main
    <3>1. parted[g] \in 0..Len(log[Main]) /\ log[Main] \in Seq(Line)
      BY <2>2, RootIs, ForkAssumption
    <3>2. StateAt(log'[Main], EmptyManifest, parted[g])
            = StateAt(log[Main], EmptyManifest, parted[g])
      <4>1. CASE f = Main
        <5>1. log'[Main] = log[Main] \o u
          BY <1>1, <4>1
        <5>2. StateAt(log[Main] \o u, EmptyManifest, parted[g])
                = StateAt(log[Main], EmptyManifest, parted[g])
          BY <1>1, <3>1, StatesMore
        <5> QED BY <5>1, <5>2
      <4>2. CASE f # Main
        BY <1>1, <4>2, ForkAssumption
      <4> QED BY <4>1, <4>2
    <3> QED BY <1>1, <2>2, <3>2 DEF Root
  <2> QED BY <2>1, <2>2
<1>4. ASSUME NEW g \in Existing PROVE TreeInv(g)'
  <2>1. /\ g \in Forks /\ Root(g)' = Root(g) /\ TreeInv(g) /\ Root(g) \in Manifest
    BY <1>3, RootIs DEF Existing, StarInv
  <2>2. CASE g # f
    <3>1. log'[g] = log[g]
      BY <1>1, <2>1, <2>2
    <3> QED BY <1>1, <2>1, <3>1 DEF TreeInv
  <2>3. CASE g = f
    <3> DEFINE l == log[f]
               t == l \o u
    <3>1. Led(u, Tip(l, Root(f))) /\ Led(l, Root(f))
      BY <1>1, <2>1, <2>3, StateOnTree DEF TreeInv
    <3>2. Led(t, Root(f))
      BY <1>1, <3>1, LedMore
    <3>3. PICK k \in 0..Len(l) : anchor[f] = StateAt(l, Root(f), k)
      BY <2>1, <2>3 DEF TreeInv
    <3>4. k \in 0..Len(t) /\ anchor[f] = StateAt(t, Root(f), k)
      <4>1. Len(t) = Len(l) + Len(u) /\ Len(l) \in Nat /\ Len(u) \in Nat
        BY <1>1, JoinIs
      <4> HIDE DEF t
      <4>2. k \in 0..Len(t)
        BY <4>1
      <4> QED BY <1>1, <3>3, <4>2, StatesMore DEF t
    <3>5. \A i \in 1..Len(t) : Writes(t[i])
      <4>1. \A i \in 1..Len(l) : Writes(l[i])
        BY <2>1, <2>3 DEF TreeInv
      <4>2. /\ \A i \in 1..Len(l) : t[i] = l[i]
            /\ \A i \in 1..Len(u) : t[Len(l) + i] = u[i]
            /\ \A i \in 1..Len(t) : i \in 1..Len(l) \/ \E j \in 1..Len(u) : i = Len(l) + j
        BY <1>1, JoinIs
      <4> HIDE DEF l, t
      <4> QED BY <1>1, <4>1, <4>2
    <3> HIDE DEF t
    <3>6. log'[g] = t /\ Root(g)' = Root(f) /\ anchor'[g] = anchor[f]
      BY <1>1, <2>1, <2>3 DEF t
    <3> QED BY <3>2, <3>4, <3>5, <3>6 DEF TreeInv
  <2> QED BY <2>2, <2>3
<1> QED BY <1>2, <1>3, <1>4

\* A line that is there keeps its origin and what it read.
LEMMA OwnStays ==
  ASSUME UnionInv, StarInv, NEW f \in Forks, NEW u, Adding(f, u),
         NEW g \in Forks, NEW i \in 1..Len(log[g]), OwnInv(g, i)
  PROVE  OwnInv(g, i)'
<1>1. Root(g)' = Root(g) /\ Root(g) \in Manifest /\ log[g] \in Seq(Line)
  BY TreeGrows, RootIs
<1>2. CASE g # f
  <2>1. log'[g] = log[g]
    BY <1>2, AddsTo
  <2> QED BY <1>1, <2>1 DEF OwnInv
<1>3. CASE g = f
  <2> DEFINE t == log[g] \o u
  <2>1. log'[g] = t /\ u \in Seq(Line)
    BY <1>3, AddsTo DEF Adding
  <2>2. /\ \A j \in 1..Len(log[g]) : t[j] = log[g][j]
        /\ \A k \in 0..Len(log[g]) : StateAt(t, Root(g), k) = StateAt(log[g], Root(g), k)
    BY <1>1, <2>1, StatesMore, JoinIs
  <2> HIDE DEF t
  <2>3. i - 1 \in 0..Len(log[g]) /\ i \in 1..i /\ \A j \in 1..i : j \in 1..Len(log[g])
    BY <1>1
  <2>4. \A j \in 1..i : t[j] = log[g][j]
    BY <2>2, <2>3
  <2> QED BY <1>1, <2>1, <2>2, <2>3, <2>4 DEF OwnInv
<1> QED BY <1>2, <1>3

\* Lines added to Main that are not of fork s leave what is said of s.
LEMMA OthersStay ==
  ASSUME UnionInv, StarInv, NEW u, Adding(Main, u), NEW s \in Forks \ {Main},
         \A i \in 1..Len(u) : u[i].origin.fork # s
  PROVE  SideInv(s)'
<1>0. Main \in Forks /\ log[Main] \in Seq(Line) /\ u \in Seq(Line)
  BY ForkAssumption, RootIs DEF Adding
<1> DEFINE t == log[Main] \o u
<1>1. /\ log'[Main] = t /\ parted' = parted /\ \A g \in Forks \ {Main} : log'[g] = log[g]
  BY <1>0, AddsTo DEF Adding
<1>2. /\ Len(t) = Len(log[Main]) + Len(u) /\ Len(log[Main]) \in Nat /\ Len(u) \in Nat
      /\ \A k \in 1..Len(log[Main]) : t[k] = log[Main][k]
      /\ \A k \in 1..Len(t) : k \in 1..Len(log[Main]) \/ \E j \in 1..Len(u) : k = Len(log[Main]) + j
      /\ \A j \in 1..Len(u) : t[Len(log[Main]) + j] = u[j]
  BY <1>0, JoinIs
<1> HIDE DEF t
<1>3. \A k \in 1..Len(log[Main]) : k \in 1..Len(t)
  BY <1>2
<1>4. ASSUME NEW k \in 1..Len(t), t[k].origin.fork = s
      PROVE  k \in 1..Len(log[Main])
  BY <1>2, <1>4
<1>5. SideInv(s) /\ log'[s] = log[s] /\ s \in Forks
  BY <1>1 DEF StarInv
<1>6. parted'[s] <= Len(log'[Main])
  <2>1. parted[s] \in 0..Len(log[Main])
    BY <1>5, RootIs
  <2> QED BY <1>1, <1>2, <2>1
<1>7. \A i \in 1..Len(log'[s]) : OwnInv(s, i)'
  BY <1>0, <1>5, OwnStays DEF SideInv
<1>8. \A i : Brought(s, i)' <=> Brought(s, i)
  BY <1>1, <1>2, <1>3, <1>4, <1>5 DEF Brought, Landing
<1>9. CarryInv(s)'
  <2>1. CarryInv(s)
    BY <1>5 DEF SideInv
  <2>2. ASSUME NEW k \in 1..Len(t), t[k].origin.fork = s
        PROVE  /\ k > parted[s]
               /\ \E i \in 1..Len(log[s]) :
                    t[k].origin.id = log[s][i].id /\ t[k].intent = log[s][i].intent
    <3>1. k \in 1..Len(log[Main]) /\ t[k] = log[Main][k]
      BY <1>2, <1>4, <2>2
    <3>2. Landing(s, k)
      BY <2>2, <3>1 DEF Landing
    <3> QED BY <2>1, <3>1, <3>2 DEF CarryInv
  <2>3. \A i \in 1..Len(log[s]) : log[s][i].fuse = NoFuse /\ Brought(s, i) =>
          \A j \in 1..i : Brought(s, j)
    BY <2>1 DEF CarryInv
  <2> QED BY <1>1, <1>5, <1>8, <2>2, <2>3 DEF CarryInv, Landing
<1> QED BY <1>6, <1>7, <1>9 DEF SideInv

\* Lines added to Main that no fork brought leave the other forks as they were.
LEMMA MainGrows ==
  ASSUME UnionInv, StarInv, NEW u, Adding(Main, u),
         \A i \in 1..Len(u) : u[i].origin.fork \notin Forks
  PROVE  StarInv'
<1>1. \A s \in Forks \ {Main} : SideInv(s)'
  BY OthersStay
<1> QED BY <1>1, TreeGrows, ForkAssumption DEF StarInv, Adding

\* A line added to another fork, read and written where it was sealed.
LEMMA SideGrows ==
  ASSUME UnionInv, StarInv, NEW f \in Forks \ {Main}, NEW x \in Line, Adding(f, <<x>>),
         x.id = LineId(f, Len(log[f]) + 1), x.origin = NoOrigin,
         x.fuse # NoFuse => x.reads = NoReads,
         MetAt(x.reads, State(f)),
         \A p \in WritePaths(x.delta) :
           \/ x.intent # NoIntent /\ x.intent.path = p
           \/ \E j \in 1..Len(log[f]) : log[f][j].intent # NoIntent /\ log[f][j].intent.path = p
  PROVE  StarInv'
<1> DEFINE l == log[f]
           t == l \o <<x>>
<1>0. /\ f \in Existing /\ l \in Seq(Line) /\ Len(l) \in Nat /\ <<x>> \in Seq(Line)
      /\ Len(<<x>>) = 1 /\ <<x>>[1] = x /\ Main \in Forks /\ log[Main] \in Seq(Line)
  BY RootIs, ForkAssumption DEF Adding
<1>n. PICK n : n = Len(l) + 1 /\ n \in Nat
  BY <1>0
<1>1. /\ log'[f] = t /\ parted' = parted /\ \A g \in Forks : g # f => log'[g] = log[g]
      /\ Existing' = Existing
  BY <1>0, AddsTo, TreeGrows DEF Adding
<1>2. /\ Len(t) = n /\ t[n] = x
      /\ \A i \in 1..Len(l) : t[i] = l[i]
      /\ \A i \in 1..Len(t) : i \in 1..Len(l) \/ i = n
  <2>1. /\ Len(t) = Len(l) + Len(<<x>>) /\ t[Len(l) + 1] = x
        /\ \A i \in 1..Len(l) : t[i] = l[i]
    BY <1>0, JoinIs
  <2> HIDE DEF t
  <2> QED BY <1>0, <1>n, <2>1
<1>3. ASSUME NEW k \in 0..Len(l) PROVE StateAt(t, Root(f), k) = StateAt(l, Root(f), k)
  <2> HIDE DEF l
  <2> QED BY <1>0, StatesMore
<1> HIDE DEF t
<1>4. ASSUME NEW g \in Forks \ {Main}, g # f PROVE SideInv(g)'
  <2>1. SideInv(g) /\ log'[g] = log[g] /\ log'[Main] = log[Main] /\ parted'[g] = parted[g]
    BY <1>0, <1>1, <1>4 DEF StarInv
  <2>2. \A i \in 1..Len(log'[g]) : OwnInv(g, i)'
    BY <2>1, OwnStays DEF SideInv
  <2>3. \A i : Brought(g, i)' <=> Brought(g, i)
    BY <2>1 DEF Brought, Landing
  <2> QED BY <2>1, <2>2, <2>3 DEF SideInv, CarryInv, Landing
<1>5. SideInv(f) /\ log'[Main] = log[Main]
  BY <1>0, <1>1 DEF StarInv
<1>6. ASSUME NEW i \in 1..Len(t) PROVE OwnInv(f, i)'
  <2>1. CASE i \in 1..Len(l)
    BY <1>5, <2>1, OwnStays DEF SideInv
  <2>2. CASE i = n
    <3>1. n - 1 = Len(l) /\ StateAt(t, Root(f), Len(l)) = State(f)
      BY <1>0, <1>n, <1>3, StateOnTree
    <3>2. Root(f)' = Root(f)
      BY TreeGrows
    <3>3. n \in 1..n /\ \A j \in 1..Len(l) : j \in 1..n
      BY <1>0, <1>n
    <3>4. ASSUME NEW p \in WritePaths(x.delta)
          PROVE  \E j \in 1..n : t[j].intent # NoIntent /\ t[j].intent.path = p
      BY <1>2, <3>3
    <3> QED BY <1>1, <1>2, <2>2, <3>1, <3>2, <3>4 DEF OwnInv
  <2> QED BY <1>2, <2>1, <2>2
<1>7. ~Brought(f, n)'
  <2> SUFFICES ASSUME NEW k \in 1..Len(log[Main]), Landing(f, k), log[Main][k].origin.id = x.id
               PROVE  FALSE
    BY <1>1, <1>2, <1>5, <1>n DEF Brought, Landing
  <2>1. PICK i \in 1..Len(l) : log[Main][k].origin.id = l[i].id
    BY <1>5 DEF SideInv, CarryInv
  <2>2. l[i].id = LineId(f, i)
    BY <2>1 DEF UnionInv, LogInv, Marked
  <2> QED BY <1>0, <1>n, <2>1, <2>2 DEF LineId
<1>8. \A i \in 1..Len(l) : Brought(f, i)' <=> Brought(f, i)
  BY <1>1, <1>2, <1>5 DEF Brought, Landing
<1>9. CarryInv(f)'
  <2>1. CarryInv(f)
    BY <1>5 DEF SideInv
  <2>2. \A i \in 1..Len(l) : i \in 1..Len(t)
    BY <1>0, <1>n, <1>2
  <2>3. \A i \in 1..Len(l) : t[i].fuse = NoFuse /\ Brought(f, i)' => \A j \in 1..i : Brought(f, j)'
    <3>1. \A i \in 1..Len(l) : \A j \in 1..i : j \in 1..Len(l)
      BY <1>0
    <3> QED BY <1>2, <1>8, <2>1, <3>1 DEF CarryInv
  <2>4. \A i \in 1..Len(t) : t[i].fuse = NoFuse /\ Brought(f, i)' => \A j \in 1..i : Brought(f, j)'
    <3> QED BY <1>2, <1>7, <2>3
  <2>5. ASSUME NEW k \in 1..Len(log[Main]), Landing(f, k)
        PROVE  /\ k > parted[f]
               /\ \E i \in 1..Len(t) : /\ log[Main][k].origin.id = t[i].id
                                       /\ log[Main][k].intent = t[i].intent
    BY <1>2, <2>1, <2>2, <2>5 DEF CarryInv
  <2> QED BY <1>1, <1>5, <2>4, <2>5 DEF CarryInv, Landing
<1>10. SideInv(f)'
  BY <1>1, <1>5, <1>6, <1>9 DEF SideInv
<1> QED BY <1>0, <1>1, <1>4, <1>10, TreeGrows DEF StarInv

\* A step adds one line of its own to fork f.
AddsLine(f, i, d, r, fu) ==
  \E x \in Line :
    /\ Adding(f, <<x>>) /\ x.id = LineId(f, Len(log[f]) + 1)
    /\ x.intent = i /\ x.delta = d /\ x.reads = r /\ x.origin = NoOrigin /\ x.fuse = fu

\* So does a commit of a delta that applies.
LEMMA CommitAdds ==
  ASSUME UnionInv, NEW f \in Forks, NEW i \in Intents, NEW d \in SUBSET Entry, NEW r \in Reads,
         NEW fu \in [from : LineIds, to : LineIds], Commit(f, i, d, r, fu),
         Applies(State(f), d), i # NoIntent => WritePaths(d) = {i.path}
  PROVE  AddsLine(f, i, d, r, fu)
<1> DEFINE l == log[f]
           x == [id |-> LineId(f, Len(l) + 1), intent |-> i, delta |-> d,
                 after |-> Result(State(f), d), reads |-> r, origin |-> NoOrigin, fuse |-> fu]
<1>1. /\ f \in Existing /\ l \in Seq(Line)
      /\ log' = [log EXCEPT ![f] = Append(l, x)] /\ anchor' = anchor /\ parted' = parted
  BY DEF UnionInv, LogInv, Existing, Commit
<1>2. State(f) \in Manifest /\ Result(State(f), d) \in Manifest
  BY <1>1, StateIs, ResultType
<1>3. Len(l) + 1 \in Nat
  BY <1>1
<1>4. x \in Line
  BY <1>2, <1>3, Ids DEF Line
<1>5. /\ x.id = LineId(f, Len(l) + 1) /\ x.intent = i /\ x.delta = d /\ x.reads = r
      /\ x.origin = NoOrigin /\ x.fuse = fu /\ x.after = Result(State(f), d)
  OBVIOUS
<1> HIDE DEF x
<1>6. /\ <<x>> \in Seq(Line) /\ Len(<<x>>) = 1 /\ <<x>>[1] = x /\ 1..Len(<<x>>) = {1}
      /\ Append(l, x) = l \o <<x>>
  BY <1>1, <1>4
<1>7. Led(<<x>>, State(f))
  BY <1>5, <1>6 DEF Led, Before, Follows
<1>8. \A k \in 1..Len(<<x>>) : Writes(<<x>>[k])
  BY <1>5, <1>6 DEF Writes
<1>9. Adding(f, <<x>>)
  BY <1>1, <1>6, <1>7, <1>8 DEF Adding
<1> QED BY <1>4, <1>5, <1>9 DEF AddsLine

\* An intent writes its path, in whatever state it is realized.
LEMMA IntentWrites ==
  ASSUME NEW m, NEW i \in Intents, i # NoIntent
  PROVE  WritePaths(Realized(m, i)) = {i.path}
<1>1. i.op \in {"edit", "create", "delete"}
  BY DEF Intents, Edits, Creates, Deletes
<1>2. CASE i.op = "edit"
  BY <1>2 DEF Realized, WritePaths
<1>3. CASE i.op = "create"
  BY <1>3 DEF Realized, WritePaths
<1>4. CASE i.op = "delete"
  BY <1>4 DEF Realized, WritePaths
<1> QED BY <1>1, <1>2, <1>3, <1>4

\* An author reads the state the line is sealed on.
LEMMA AuthorsRead ==
  ASSUME NEW m \in Manifest, NEW i \in IntentsAt(m), NEW r \in ReadsFor(m, i)
  PROVE  MetAt(r, m)
<1>0. MetAt(NoReads, m)
  BY DEF MetAt, NoReads
<1>1. CASE i.op # "edit"
  BY <1>0, <1>1 DEF ReadsFor
<1>2. CASE i.op = "edit"
  <2> DEFINE Span(s) == [kind |-> "spans", path |-> i.path, blob |-> m[i.path], spans |-> s]
             Beside == {t \in Texts : m[i.path][t] > 0} \ {i.old}
             Of(o) == CASE o = "none" -> {NoReads}
                        [] o = "edited" -> {Span({i.old})}
                        [] o = "beside" -> {Span({i.old, t}) : t \in Beside}
                        [] o = "file" -> {Span({})}
                        [] o = "search" -> {[kind |-> "any", state |-> m]}
  <2>1. m[i.path] # NoFile
    BY <1>2, AskedTypes DEF Valid
  <2>2. \A s : MetAt(Span(s), m)
    BY <2>1 DEF MetAt
  <2>3. MetAt([kind |-> "any", state |-> m], m)
    BY DEF MetAt
  <2>4. PICK o \in Observed : r \in Of(o)
    BY <1>2 DEF ReadsFor
  <2>5. o \in Observations
    BY ObservedAssumption
  <2>6. CASE o = "none"
    BY <1>0, <2>4, <2>6
  <2>7. CASE o = "edited"
    BY <2>2, <2>4, <2>7
  <2>8. CASE o = "beside"
    <3>1. PICK t \in Beside : r = Span({i.old, t})
      BY <2>4, <2>8
    <3> QED BY <2>2, <3>1
  <2>9. CASE o = "file"
    BY <2>2, <2>4, <2>9
  <2>10. CASE o = "search"
    BY <2>3, <2>4, <2>10
  <2> QED BY <2>5, <2>6, <2>7, <2>8, <2>9, <2>10 DEF Observations
<1> QED BY <1>1, <1>2

\* One line of its own, wherever it is sealed.
LEMMA OwnLineKeeps ==
  ASSUME UnionInv, StarInv, NEW f \in Forks, NEW x \in Line, Adding(f, <<x>>),
         x.id = LineId(f, Len(log[f]) + 1), x.origin = NoOrigin,
         x.fuse # NoFuse => x.reads = NoReads,
         MetAt(x.reads, State(f)),
         f # Main => \A p \in WritePaths(x.delta) :
           \/ x.intent # NoIntent /\ x.intent.path = p
           \/ \E j \in 1..Len(log[f]) : log[f][j].intent # NoIntent /\ log[f][j].intent.path = p
  PROVE  StarInv'
<1>1. CASE f # Main
  <2>1. f \in Forks \ {Main}
    BY <1>1
  <2> QED BY <1>1, <2>1, SideGrows
<1>2. CASE f = Main
  <2>1. Len(<<x>>) = 1 /\ <<x>>[1] = x /\ 1..Len(<<x>>) = {1}
    OBVIOUS
  <2>2. x.origin.fork \notin Forks
    BY ForkAssumption DEF NoOrigin
  <2>3. \A i \in 1..Len(<<x>>) : <<x>>[i].origin.fork \notin Forks
    BY <2>1, <2>2
  <2> QED BY <1>2, <2>3, MainGrows
<1> QED BY <1>1, <1>2

\* An intent applied.
LEMMA ApplyStar ==
  ASSUME UnionInv, StarInv, NEW f \in Existing, NEW i \in IntentsAt(State(f)),
         NEW r \in ReadsFor(State(f), i), Apply(f, i, r)
  PROVE  StarInv'
<1> DEFINE d == Realized(State(f), i)
<1>1. /\ f \in Forks /\ State(f) \in Manifest /\ i \in Intents /\ r \in Reads
      /\ Valid(State(f), i) /\ MetAt(r, State(f))
  BY StateIs, AskedTypes, AuthorsRead
<1>2. Commit(f, i, d, r, NoFuse)
  BY DEF Apply
<1>3. d \in SUBSET Entry /\ Applies(State(f), d)
  BY <1>1, RealizedFits
<1>4. i # NoIntent => WritePaths(d) = {i.path}
  BY <1>1, IntentWrites
<1> HIDE DEF d
<1>5. PICK x \in Line :
        /\ Adding(f, <<x>>) /\ x.id = LineId(f, Len(log[f]) + 1)
        /\ x.intent = i /\ x.delta = d /\ x.reads = r /\ x.origin = NoOrigin /\ x.fuse = NoFuse
  <2>1. AddsLine(f, i, d, r, NoFuse)
    BY <1>1, <1>2, <1>3, <1>4, Ids, CommitAdds
  <2> QED BY <2>1 DEF AddsLine
<1>6. i # NoIntent
  BY DEF IntentsAt, Edits, Creates, NoIntent
<1>7. \A p \in WritePaths(x.delta) : x.intent # NoIntent /\ x.intent.path = p
  BY <1>4, <1>5, <1>6
<1> QED BY <1>1, <1>5, <1>7, OwnLineKeeps

\* A repoint writes what lines it goes back over have written.
LEMMA RepointStar ==
  ASSUME UnionInv, StarInv, NEW f \in Existing, NEW m \in History(f), Repoint(f, m)
  PROVE  StarInv'
<1> DEFINE d == Delta(State(f), m)
           l == log[f]
<1>1. /\ f \in Forks /\ State(f) \in Manifest /\ l \in Seq(Line) /\ Root(f) \in Manifest
      /\ State(f) = StateAt(l, Root(f), Len(l)) /\ Led(l, Root(f))
  BY StateIs, StateOnTree, RootIs DEF StarInv, TreeInv
<1>2. PICK k \in 0..Len(l) : m = StateAt(l, Root(f), k)
  <2>1. CASE m = anchor[f]
    BY <2>1 DEF StarInv, TreeInv
  <2>2. CASE m # anchor[f]
    <3>1. PICK i \in 1..Len(l) : m = l[i].after
      BY <2>2 DEF History
    <3>2. i \in 0..Len(l) /\ m = StateAt(l, Root(f), i)
      BY <3>1 DEF StateAt
    <3> QED BY <3>2
  <2> QED BY <2>1, <2>2
<1>3. m \in Manifest
  BY <1>1, <1>2, StatesAlong
<1>4. Commit(f, NoIntent, d, NoReads, NoFuse)
  BY DEF Repoint
<1>5. d \in SUBSET Entry /\ Applies(State(f), d)
  BY <1>1, <1>3, DeltaFits
<1>6. NoIntent \in Intents /\ NoReads \in Reads /\ MetAt(NoReads, State(f))
  BY DEF Intents, NoIntent, Reads, NoReads, MetAt
<1>7. ASSUME f # Main, NEW p \in WritePaths(d)
      PROVE  \E j \in 1..Len(l) : l[j].intent # NoIntent /\ l[j].intent.path = p
  <2>1. p \in Paths /\ State(f)[p] # m[p]
    BY <1>7 DEF WritePaths, Delta
  <2>2. PICK i \in k + 1..Len(l) : p \in WritePaths(l[i].delta)
    <3>1. Len(l) \in k..Len(l)
      BY <1>1
    <3> HIDE DEF l
    <3> QED BY <1>1, <1>2, <2>1, <3>1, Untouched
  <2>3. i \in 1..Len(l) /\ \A j \in 1..i : j \in 1..Len(l)
    BY <1>1
  <2>4. OwnInv(f, i)
    BY <1>1, <1>7, <2>3 DEF StarInv, SideInv
  <2> QED BY <2>2, <2>3, <2>4 DEF OwnInv
<1> HIDE DEF d
<1>8. PICK x \in Line :
        /\ Adding(f, <<x>>) /\ x.id = LineId(f, Len(log[f]) + 1)
        /\ x.intent = NoIntent /\ x.delta = d /\ x.reads = NoReads
        /\ x.origin = NoOrigin /\ x.fuse = NoFuse
  <2>1. AddsLine(f, NoIntent, d, NoReads, NoFuse)
    BY <1>1, <1>4, <1>5, <1>6, Ids, CommitAdds
  <2> QED BY <2>1 DEF AddsLine
<1> QED BY <1>1, <1>6, <1>7, <1>8, OwnLineKeeps

\* A named span.
LEMMA FuseStar ==
  ASSUME UnionInv, StarInv, NEW f \in Forks, NEW a \in 1..Len(log[f]), NEW b \in 1..Len(log[f]),
         FuseSpan(f, a, b)
  PROVE  StarInv'
<1> DEFINE fu == [from |-> log[f][a].id, to |-> log[f][b].id]
<1>1. log[f][a] \in Line /\ log[f][b] \in Line
  BY DEF UnionInv, LogInv
<1>2. fu \in [from : LineIds, to : LineIds]
  BY <1>1 DEF Line
<1>3. Commit(f, NoIntent, {}, NoReads, fu)
  BY DEF FuseSpan
<1>4. /\ NoIntent \in Intents /\ NoReads \in Reads /\ Applies(State(f), {})
      /\ MetAt(NoReads, State(f)) /\ {} \in SUBSET Entry
  BY DEF Intents, NoIntent, Reads, NoReads, Applies, MetAt
<1> HIDE DEF fu
<1>5. PICK x \in Line :
        /\ Adding(f, <<x>>) /\ x.id = LineId(f, Len(log[f]) + 1)
        /\ x.intent = NoIntent /\ x.delta = {} /\ x.reads = NoReads
        /\ x.origin = NoOrigin /\ x.fuse = fu
  <2>1. AddsLine(f, NoIntent, {}, NoReads, fu)
    BY <1>2, <1>3, <1>4, CommitAdds
  <2> QED BY <2>1 DEF AddsLine
<1>6. WritePaths(x.delta) = {}
  BY <1>5 DEF WritePaths
<1> QED BY <1>4, <1>5, <1>6, OwnLineKeeps
\* What is said of a fork speaks of its log, its root and Main's log.
LEMMA SideSame ==
  ASSUME NEW s \in Forks, SideInv(s), log'[s] = log[s], log'[Main] = log[Main],
         parted'[s] = parted[s], Root(s)' = Root(s)
  PROVE  SideInv(s)'
<1>1. \A i \in 1..Len(log[s]) : OwnInv(s, i)'
  <2>1. ASSUME NEW i \in 1..Len(log[s]) PROVE OwnInv(s, i)'
    <3>1. OwnInv(s, i)
      BY DEF SideInv
    <3> QED BY <3>1 DEF OwnInv
  <2> QED BY <2>1
<1>2. \A i : Brought(s, i)' <=> Brought(s, i)
  BY DEF Brought, Landing
<1>3. CarryInv(s)'
  BY <1>2 DEF SideInv, CarryInv, Landing
<1> QED BY <1>1, <1>3 DEF SideInv

\* The anchor moved.
LEMMA SnapshotStar ==
  ASSUME UnionInv, StarInv, NEW f \in Forks, Snapshot(f)
  PROVE  StarInv'
<1>1. /\ f \in Existing /\ anchor' = [anchor EXCEPT ![f] = State(f)]
      /\ log' = log /\ parted' = parted
  BY DEF Snapshot
<1>2. anchor'[f] = State(f) /\ \A g \in Forks : g # f => anchor'[g] = anchor[g]
  BY <1>1 DEF UnionInv, Typed
<1>3. /\ State(f) \in Manifest /\ State(f) = StateAt(log[f], Root(f), Len(log[f]))
      /\ Len(log[f]) \in 0..Len(log[f]) /\ State(f) # NoFork
  <2>1. State(f) \in Manifest /\ log[f] \in Seq(Line)
    BY <1>1, StateIs
  <2> QED BY <1>1, <2>1, StateOnTree, ForkAssumption
<1>4. Existing' = Existing
  BY <1>1, <1>2, <1>3 DEF Existing
<1>5. \A g : Root(g)' = Root(g)
  BY <1>1 DEF Root
<1>6. ASSUME NEW g \in Existing PROVE TreeInv(g)'
  <2>1. TreeInv(g) /\ g \in Forks /\ log'[g] = log[g] /\ Root(g)' = Root(g)
    BY <1>1, <1>5 DEF StarInv, Existing
  <2>2. CASE g = f
    <3>1. anchor'[g] = StateAt(log[g], Root(g), Len(log[g])) /\ Len(log[g]) \in 0..Len(log[g])
      BY <1>2, <1>3, <2>2
    <3> QED BY <2>1, <3>1 DEF TreeInv
  <2>3. CASE g # f
    <3>1. anchor'[g] = anchor[g]
      BY <1>2, <2>1, <2>3
    <3> QED BY <2>1, <3>1 DEF TreeInv
  <2> QED BY <2>2, <2>3
<1>7. ASSUME NEW s \in Forks \ {Main} PROVE SideInv(s)'
  BY <1>1, <1>5, SideSame DEF StarInv
<1> QED BY <1>1, <1>4, <1>6, <1>7 DEF StarInv, PartedTyped

\* A fork made from Main, at the state Main's lines lead to.
LEMMA CreateStar ==
  ASSUME UnionInv, StarInv, NEW n \in Forks, CreateFork(n, Main)
  PROVE  StarInv'
<1>0. Main \in Forks /\ Main \in Existing
  BY ForkAssumption DEF StarInv
<1>1. /\ n \notin Existing /\ anchor' = [anchor EXCEPT ![n] = State(Main)]
      /\ parted' = [parted EXCEPT ![n] = Len(log[Main])] /\ log' = log
  BY DEF CreateFork
<1>2. /\ n # Main /\ log[n] = <<>> /\ log[Main] \in Seq(Line) /\ Len(log[Main]) \in Nat
      /\ Len(<<>>) = 0
  BY <1>0, <1>1 DEF UnionInv, LogInv, Existing
<1>3. /\ anchor'[n] = State(Main) /\ parted'[n] = Len(log[Main])
      /\ \A g \in Forks : g # n => anchor'[g] = anchor[g] /\ parted'[g] = parted[g]
      /\ PartedTyped'
  BY <1>1, <1>2 DEF UnionInv, Typed, StarInv, PartedTyped
<1>4. Existing' = Existing \cup {n}
  <2>1. State(Main) # NoFork
    BY <1>0, StateIs, ForkAssumption
  <2> QED BY <1>3, <2>1 DEF Existing
<1>5. \A g \in Forks : g # n => Root(g)' = Root(g)
  BY <1>1, <1>3 DEF Root
<1>6. Root(n)' = State(Main)
  <2>1. State(Main) = StateAt(log[Main], EmptyManifest, Len(log[Main]))
    BY <1>0, StateOnTree DEF Root
  <2> QED BY <1>1, <1>2, <1>3, <2>1 DEF Root
<1>7. ASSUME NEW g \in Existing' PROVE TreeInv(g)'
  <2>1. CASE g = n
    <3>1. 1..Len(<<>>) = {} /\ 0 \in 0..Len(<<>>)
      BY SMT
    <3>2. Led(<<>>, Root(n)')
      BY <3>1 DEF Led
    <3>3. anchor'[n] = StateAt(<<>>, Root(n)', 0)
      BY <1>3, <1>6 DEF StateAt
    <3> QED BY <1>1, <1>2, <2>1, <3>1, <3>2, <3>3 DEF TreeInv
  <2>2. CASE g # n
    <3>1. g \in Existing /\ g \in Forks
      BY <1>4, <2>2 DEF Existing
    <3> QED BY <1>1, <1>3, <1>5, <2>2, <3>1 DEF StarInv, TreeInv
  <2> QED BY <2>1, <2>2
<1>8. ASSUME NEW s \in Forks \ {Main} PROVE SideInv(s)'
  <2>0. SideInv(s) /\ log'[s] = log[s] /\ log'[Main] = log[Main]
    BY <1>1 DEF StarInv
  <2>1. CASE s = n
    <3>1. 1..Len(log[n]) = {}
      BY <1>2
    <3>2. \A k \in 1..Len(log[Main]) : ~Landing(n, k)
      BY <2>0, <2>1, <3>1 DEF SideInv, CarryInv
    <3>3. parted'[n] <= Len(log'[Main])
      BY <1>2, <1>3, <2>0
    <3>4. CarryInv(n)'
      BY <2>0, <2>1, <3>1, <3>2 DEF CarryInv, Landing
    <3> QED BY <2>0, <2>1, <3>1, <3>3, <3>4 DEF SideInv
  <2>2. CASE s # n
    <3>1. Root(s)' = Root(s) /\ parted'[s] = parted[s]
      BY <1>3, <1>5, <2>2
    <3> QED BY <2>0, <3>1, SideSame
  <2> QED BY <2>1, <2>2
<1> QED BY <1>0, <1>3, <1>4, <1>7, <1>8 DEF StarInv
\* Source line x lands as y: what was staged before it was alive, and unless
\* the union is flagged no concurrent write made stale what x read.
LandedAs(s, l, acc, x, b, y) ==
  /\ ~acc.dead /\ ~b.dead
  /\ b.staged = Append(acc.staged, y) /\ b.scratch = y.after
  /\ y.origin = [fork |-> s, id |-> x.id] /\ y.intent = x.intent /\ y.reads = x.reads
  /\ y.delta = Replays(acc, x) /\ Follows(y, acc.scratch)
  /\ Applies(acc.scratch, x.delta) \/ Valid(acc.scratch, x.intent)
  /\ \/ b.stale
     \/ /\ ~acc.stale
        /\ \A c \in ToSet(Concurrent(s, l)) :
             ~StaleReads(x.reads, WritePaths(c.delta), acc.scratch)

\* A source line that is left out, one that ends the union, and one that may land.
Passed(s, l, same, acc, x, b) ==
  b = acc /\ (acc.dead \/ x.id \in Carried(s, l) \/ (same /\ x.fuse = NoFuse))
Stopped(acc, b) == b.dead /\ b.staged = acc.staged
Landable(s, l, same, x) == x.id \notin Carried(s, l) /\ ~(same /\ x.fuse = NoFuse)

\* What becomes of one source line: nothing, the end of the union, or a line.
LEMMA StageIs ==
  ASSUME NEW s \in Forks, NEW t \in Forks, NEW l, NEW same, NEW acc \in Accs(t), NEW x \in Line,
         NEW b, b = Stage(s, l, same, acc, x)
  PROVE  \/ Passed(s, l, same, acc, x, b)
         \/ Stopped(acc, b)
         \/ Landable(s, l, same, x) /\ \E y \in Line : LandedAs(s, l, acc, x, b, y)
<1>1. CASE \/ acc.dead \/ x.id \in Carried(s, l) \/ (same /\ x.fuse = NoFuse)
  BY <1>1 DEF Stage, Passed
<1>2. CASE /\ ~(\/ acc.dead \/ x.id \in Carried(s, l) \/ (same /\ x.fuse = NoFuse))
           /\ ~(Applies(acc.scratch, x.delta) \/ Valid(acc.scratch, x.intent))
  <2>1. b = [acc EXCEPT !.dead = TRUE]
    BY <1>2 DEF Stage
  <2>2. b.dead /\ b.staged = acc.staged
    BY <2>1 DEF Accs
  <2> QED BY <2>2 DEF Stopped
<1>3. CASE /\ ~(\/ acc.dead \/ x.id \in Carried(s, l) \/ (same /\ x.fuse = NoFuse))
           /\ Applies(acc.scratch, x.delta) \/ Valid(acc.scratch, x.intent)
  <2> DEFINE d == Replays(acc, x)
             y == Landed(s, acc, x, d)
             conc == ToSet(Concurrent(s, l))
             st == acc.stale \/ \E c \in conc :
                     StaleReads(x.reads, WritePaths(c.delta), acc.scratch)
  <2>1. b = Land(s, conc, acc, x)
    BY <1>3 DEF Stage
  <2>a. Applies(acc.scratch, x.delta) \/ Valid(acc.scratch, x.intent)
    BY <1>3
  <2>2. /\ b.scratch = y.after /\ b.staged = Append(acc.staged, y) /\ b.dead = acc.dead
    BY <2>a, <2>1, LandIs
  <2>3. /\ d \in SUBSET Entry /\ Applies(acc.scratch, d)
        /\ y \in Line /\ y.delta = d /\ y.after = Result(acc.scratch, d)
        /\ y.origin = [fork |-> s, id |-> x.id]
    BY <2>a, LandedIs
  <2>4. y.intent = x.intent /\ y.reads = x.reads
    BY DEF Landed
  <2>5. b.stale = st
    <3>1. acc.stale \in BOOLEAN /\ acc = [fork |-> acc.fork, length |-> acc.length,
            scratch |-> acc.scratch, staged |-> acc.staged, rekey |-> acc.rekey,
            stale |-> acc.stale, dead |-> acc.dead]
      BY DEF Accs
    <3>2. b = [acc EXCEPT !.scratch = y.after, !.staged = Append(acc.staged, y),
                          !.rekey = Noted(acc.rekey, x.id, y.id), !.stale = st]
      BY <2>1 DEF Land, Noted
    <3> HIDE DEF st, y
    <3> QED BY <3>1, <3>2
  <2>6. b.stale \/ (~acc.stale /\ \A c \in conc :
                      ~StaleReads(x.reads, WritePaths(c.delta), acc.scratch))
    BY <2>5
  <2>7. Follows(y, acc.scratch)
    BY <2>3 DEF Follows
  <2> HIDE DEF y, d
  <2>8. LandedAs(s, l, acc, x, b, y)
    BY <1>3, <2>2, <2>3, <2>4, <2>6, <2>7 DEF LandedAs, d
  <2> QED BY <1>3, <2>3, <2>8 DEF Landable
<1> QED BY <1>1, <1>2, <1>3
\* What lands of a line has its intent and what it read, and writes what an
\* intent writes; into a fork in the source's own state only fuses land.
Bears(acc, s, m, k) ==
  \A i \in 1..Len(acc.staged) :
    /\ Writes(acc.staged[i])
    /\ \E j \in 1..k : /\ acc.staged[i].origin.id = log[s][j].id
                       /\ acc.staged[i].intent = log[s][j].intent
                       /\ Same(s, m) => log[s][j].fuse # NoFuse

\* One source line keeps that.
LEMMA StageBears ==
  ASSUME NEW s \in Forks, NEW t \in Forks, NEW l, NEW m, log[s] \in Seq(Line),
         \A j \in 1..Len(log[s]) : Writes(log[s][j]),
         NEW k \in 0..Len(log[s]) - 1, NEW acc \in Accs(t), Bears(acc, s, m, k),
         NEW b, b = Stage(s, l, Same(s, m), acc, log[s][k + 1])
  PROVE  b \in Accs(t) /\ Bears(b, s, m, k + 1)
<1> DEFINE x == log[s][k + 1]
<1>1. /\ k + 1 \in 1..Len(log[s]) /\ x \in Line /\ Writes(x) /\ k + 1 \in 1..k + 1
      /\ \A j \in 1..k : j \in 1..k + 1
  OBVIOUS
<1>2. b \in Accs(t) /\ acc.staged \in Seq(Line)
  BY <1>1, StageTyped DEF Accs
<1>3. Bears(acc, s, m, k + 1)
  BY <1>1 DEF Bears
<1>4. CASE b.staged = acc.staged
  BY <1>2, <1>3, <1>4 DEF Bears
<1>5. CASE Landable(s, l, Same(s, m), x) /\ \E y \in Line : LandedAs(s, l, acc, x, b, y)
  <2>1. PICK y \in Line : LandedAs(s, l, acc, x, b, y)
    BY <1>5
  <2>2. /\ b.staged = Append(acc.staged, y) /\ y.origin.id = x.id /\ y.intent = x.intent
        /\ y.delta = Replays(acc, x) /\ (Same(s, m) => x.fuse # NoFuse)
    BY <1>5, <2>1 DEF LandedAs, Landable
  <2>3. Writes(y)
    <3>1. CASE Applies(acc.scratch, x.delta)
      BY <1>1, <2>2, <3>1 DEF Replays, Writes
    <3>2. CASE ~Applies(acc.scratch, x.delta)
      <4>1. y.delta = Realized(acc.scratch, x.intent) /\ x.intent \in Intents
        BY <1>1, <2>2, <3>2 DEF Replays, Line
      <4> QED BY <2>2, <4>1, IntentWrites DEF Writes
    <3> QED BY <3>1, <3>2
  <2>4. /\ b.staged[Len(acc.staged) + 1] = y
        /\ \A i \in 1..Len(acc.staged) : b.staged[i] = acc.staged[i]
        /\ \A i \in 1..Len(b.staged) : i \in 1..Len(acc.staged) \/ i = Len(acc.staged) + 1
    BY <1>2, <2>2
  <2>5. \E j \in 1..k + 1 : /\ y.origin.id = log[s][j].id /\ y.intent = log[s][j].intent
                            /\ Same(s, m) => log[s][j].fuse # NoFuse
    BY <1>1, <2>2
  <2> HIDE DEF x
  <2>6. ASSUME NEW i \in 1..Len(b.staged)
        PROVE  /\ Writes(b.staged[i])
               /\ \E j \in 1..k + 1 : /\ b.staged[i].origin.id = log[s][j].id
                                      /\ b.staged[i].intent = log[s][j].intent
                                      /\ Same(s, m) => log[s][j].fuse # NoFuse
    <3>1. CASE i \in 1..Len(acc.staged)
      <4>1. b.staged[i] = acc.staged[i]
        BY <2>4, <3>1
      <4>2. /\ Writes(acc.staged[i])
            /\ \E j \in 1..k + 1 :
                 /\ acc.staged[i].origin.id = log[s][j].id
                 /\ acc.staged[i].intent = log[s][j].intent
                 /\ Same(s, m) => log[s][j].fuse # NoFuse
        BY <1>3, <3>1 DEF Bears
      <4> QED BY <4>1, <4>2
    <3>2. CASE i = Len(acc.staged) + 1
      BY <2>3, <2>4, <2>5, <3>2
    <3> QED BY <2>4, <3>1, <3>2
  <2>7. Bears(b, s, m, k + 1)
    BY <2>6 DEF Bears
  <2> QED BY <1>2, <2>7
<1>6. \/ Passed(s, l, Same(s, m), acc, x, b)
      \/ Stopped(acc, b)
      \/ Landable(s, l, Same(s, m), x) /\ \E y \in Line : LandedAs(s, l, acc, x, b, y)
  BY <1>1, StageIs
<1> QED BY <1>4, <1>5, <1>6 DEF Passed, Stopped

\* So does the whole replay.
LEMMA MergeBears ==
  ASSUME NEW s \in Forks, NEW t \in Forks, NEW l \in Seq(Line), NEW m \in Manifest,
         log[s] \in Seq(Line), \A j \in 1..Len(log[s]) : Writes(log[s][j])
  PROVE  Bears(Merge(s, t, l, m), s, m, Len(log[s]))
<1> DEFINE n == Len(log[s])
           I == [k \in 0..n |-> {acc \in Accs(t) : Bears(acc, s, m, k)}]
<1>1. n \in Nat /\ 0 \in 0..n /\ n \in 0..n /\ \A k \in 0..n - 1 : k \in 0..n /\ k + 1 \in 0..n
  OBVIOUS
<1>2. I \in [0..n -> SUBSET Accs(t)]
  OBVIOUS
<1>3. Start(s, t, l, m) \in I[0]
  <2>1. 1..Len(Start(s, t, l, m).staged) = {}
    BY DEF Start
  <2>2. Bears(Start(s, t, l, m), s, m, 0)
    BY <2>1 DEF Bears
  <2> QED BY <1>1, <2>2, StartTyped
<1>4. ASSUME NEW k \in 0..n - 1, NEW acc \in I[k]
      PROVE  Stage(s, l, State(s) = m, acc, log[s][k + 1]) \in I[k + 1]
  <2>1. acc \in Accs(t) /\ Bears(acc, s, m, k)
    BY <1>1
  <2> DEFINE b == Stage(s, l, Same(s, m), acc, log[s][k + 1])
  <2>2. b \in Accs(t) /\ Bears(b, s, m, k + 1)
    BY <2>1, StageBears
  <2> QED BY <1>1, <2>2 DEF Same
<1> HIDE DEF I
<1>5. Merge(s, t, l, m) \in I[n]
  BY <1>2, <1>3, <1>4, MergeInduction
<1> QED BY <1>1, <1>5 DEF I
\* A union into Main lands lines of the source, with their intents; all of
\* them but what landed before, or fuses alone.
LEMMA UnionStar ==
  ASSUME UnionInv, UnionInv', (\A f \in Existing : State(f) = Tip(log[f], anchor[f]))',
         StarInv, NEW s \in Forks, Union(s, Main)
  PROVE  StarInv'
<1> DEFINE l == log[Main]
           m == State(Main)
           mg == Merge(s, Main, l, m)
           u == mg.staged
           t == l \o u
           S == log[s]
<1>1. /\ s # Main /\ s \in Existing /\ Main \in Existing /\ m \in Manifest /\ l \in Seq(Line)
      /\ MergeInv(mg, s, Main, l, m, Len(S)) /\ ~mg.dead
      /\ log' = [log EXCEPT ![Main] = t] /\ log'[Main] = t /\ anchor' = anchor /\ parted' = parted
  BY UnionIs, ForkAssumption
<1>2. /\ S \in Seq(Line) /\ Marked(s, S) /\ TreeInv(s)
  BY <1>1, StateIs DEF UnionInv, LogInv, StarInv
<1>3. Bears(mg, s, m, Len(S))
  <2>1. \A j \in 1..Len(S) : Writes(S[j])
    BY <1>2 DEF TreeInv
  <2> QED BY <1>1, <1>2, <2>1, MergeBears, ForkAssumption
<1> HIDE DEF mg
<1>4. /\ u \in Seq(Line) /\ Led(u, m) /\ \A i \in 1..Len(u) : u[i].origin.fork = s
  BY <1>1 DEF MergeInv, Stagings, Accs
<1>5. \A i \in 1..Len(u) : Writes(u[i])
  BY <1>3 DEF Bears
<1> HIDE DEF u
<1>6. Adding(Main, u)
  BY <1>1, <1>4, <1>5 DEF Adding
<1>7. \A g \in Forks \ {Main} : g # s => SideInv(g)'
  BY <1>4, <1>6, OthersStay
<1>8. /\ Len(t) = Len(l) + Len(u) /\ Len(l) \in Nat /\ Len(u) \in Nat
      /\ \A k \in 1..Len(l) : t[k] = l[k] /\ k \in 1..Len(t)
      /\ \A k \in 1..Len(t) : k \in 1..Len(l) \/ \E j \in 1..Len(u) : k = Len(l) + j
      /\ \A j \in 1..Len(u) : t[Len(l) + j] = u[j] /\ Len(l) + j \in 1..Len(t)
  <2>1. /\ Len(t) = Len(l) + Len(u) /\ Len(l) \in Nat /\ Len(u) \in Nat
        /\ \A k \in 1..Len(l) : t[k] = l[k]
        /\ \A k \in 1..Len(t) : k \in 1..Len(l) \/ \E j \in 1..Len(u) : k = Len(l) + j
        /\ \A j \in 1..Len(u) : t[Len(l) + j] = u[j]
    BY <1>1, <1>4, JoinIs
  <2> HIDE DEF t
  <2> QED BY <2>1
<1> HIDE DEF t
<1>9. /\ log'[s] = S /\ parted'[s] = parted[s] /\ SideInv(s) /\ parted[s] \in 0..Len(l)
  BY <1>1, <1>6, AddsTo, RootIs, ForkAssumption DEF StarInv
<1>10. \A i \in 1..Len(S) : OwnInv(s, i)'
  BY <1>6, <1>9, OwnStays, ForkAssumption DEF SideInv
<1>11. \A j \in 1..Len(S) : Brought(s, j)' <=>
         Brought(s, j) \/ \E i \in 1..Len(u) : u[i].origin.id = S[j].id
  <2> TAKE j \in 1..Len(S)
  <2>0. Brought(s, j)' <=>
          \E k \in 1..Len(t) : t[k].origin.fork = s /\ t[k].origin.id = S[j].id
    BY <1>1, <1>9 DEF Brought, Landing
  <2>1. Brought(s, j) => Brought(s, j)'
    BY <1>8, <2>0 DEF Brought, Landing
  <2>2. ASSUME NEW i \in 1..Len(u), u[i].origin.id = S[j].id PROVE Brought(s, j)'
    <3>1. t[Len(l) + i] = u[i] /\ Len(l) + i \in 1..Len(t) /\ u[i].origin.fork = s
      BY <1>4, <1>8
    <3> QED BY <2>0, <2>2, <3>1
  <2>3. ASSUME Brought(s, j)'
        PROVE  Brought(s, j) \/ \E i \in 1..Len(u) : u[i].origin.id = S[j].id
    <3>1. PICK k \in 1..Len(t) : t[k].origin.fork = s /\ t[k].origin.id = S[j].id
      BY <2>0, <2>3
    <3>2. CASE k \in 1..Len(l)
      BY <1>8, <3>1, <3>2 DEF Brought, Landing
    <3>3. CASE k \notin 1..Len(l)
      <4>1. PICK i \in 1..Len(u) : k = Len(l) + i
        BY <1>8, <3>3
      <4>2. t[k] = u[i]
        BY <1>8, <4>1
      <4> QED BY <3>1, <4>2
    <3> QED BY <3>2, <3>3
  <2> QED BY <2>1, <2>2, <2>3
<1>12. ASSUME NEW k \in 1..Len(t), t[k].origin.fork = s
       PROVE  /\ k > parted[s]
              /\ \E i \in 1..Len(S) : t[k].origin.id = S[i].id /\ t[k].intent = S[i].intent
  <2>1. CASE k \in 1..Len(l)
    <3>1. t[k] = l[k] /\ Landing(s, k)
      BY <1>8, <1>12, <2>1 DEF Landing
    <3> QED BY <1>9, <2>1, <3>1 DEF SideInv, CarryInv
  <2>2. CASE k \notin 1..Len(l)
    <3>1. PICK j \in 1..Len(u) : k = Len(l) + j
      BY <1>8, <2>2
    <3>2. t[k] = u[j] /\ k > parted[s]
      BY <1>8, <1>9, <3>1
    <3> QED BY <1>3, <3>2 DEF Bears, u
  <2> QED BY <2>1, <2>2
<1>13. ASSUME NEW i \in 1..Len(S), S[i].fuse = NoFuse, Brought(s, i)', NEW j \in 1..i
       PROVE  Brought(s, j)'
  <2>0. j \in 1..Len(S)
    BY <1>2
  <2>1. CASE Brought(s, i)
    <3>1. Brought(s, j)
      BY <1>9, <1>13, <2>1 DEF SideInv, CarryInv
    <3> QED BY <1>11, <2>0, <3>1
  <2>2. CASE ~Brought(s, i)
    <3>1. PICK k \in 1..Len(u) : u[k].origin.id = S[i].id
      BY <1>11, <1>13, <2>2
    <3>2. ~Same(s, m)
      <4>1. PICK h \in 1..Len(S) : u[k].origin.id = S[h].id /\ (Same(s, m) => S[h].fuse # NoFuse)
        BY <1>3, <3>1 DEF Bears, u
      <4>2. S[i].id = LineId(s, i) /\ S[h].id = LineId(s, h)
        BY <1>2 DEF Marked
      <4>3. h = i
        <5>1. LineId(s, i) = LineId(s, h)
          BY <3>1, <4>1, <4>2
        <5> QED BY <5>1 DEF LineId
      <4> QED BY <1>13, <4>1, <4>3
    <3>3. \/ S[j].id \in Carried(s, l)
          \/ \E h \in 1..Len(u) : u[h].origin.id = S[j].id
      BY <1>1, <2>0, <3>2 DEF MergeInv, Through, u
    <3>4. ASSUME S[j].id \in Carried(s, l) PROVE Brought(s, j)
      <4>1. S[j].id = LineId(s, j) /\ \A h \in 1..Len(l) : l[h].id = LineId(Main, h)
        BY <1>2, <2>0, ForkAssumption DEF Marked, UnionInv, LogInv
      <4>2. S[j].id \notin IdsOf(l)
        BY <1>1, <4>1, OtherNames, ForkAssumption DEF IdsOf
      <4> QED BY <3>4, <4>2 DEF Carried, Brought, Landing
    <3> QED BY <1>11, <2>0, <3>3, <3>4
  <2> QED BY <2>1, <2>2
<1>14. CarryInv(s)'
  BY <1>1, <1>9, <1>12, <1>13 DEF CarryInv, Landing
<1>15. parted[s] <= Len(t)
  BY <1>8, <1>9
<1>16. SideInv(s)'
  BY <1>1, <1>9, <1>10, <1>14, <1>15 DEF SideInv
<1> QED BY <1>1, <1>6, <1>7, <1>16, TreeGrows, ForkAssumption DEF StarInv

\* It holds at the start.
LEMMA StarInit == Init => StarInv
<1> SUFFICES ASSUME Init PROVE StarInv
  OBVIOUS
<1>1. /\ \A f \in Forks : log[f] = <<>> /\ parted[f] = 0
      /\ anchor[Main] = EmptyManifest /\ PartedTyped
      /\ \A f \in Forks : f # Main => anchor[f] = NoFork
      /\ 1..Len(<<>>) = {} /\ Len(<<>>) = 0 /\ 0 \in 0..Len(<<>>)
  BY ForkAssumption DEF Init, PartedTyped
<1>2. Existing = {Main}
  <2>1. EmptyManifest # NoFork
    BY ForkAssumption DEF EmptyManifest, Manifest
  <2> QED BY <1>1, <2>1, ForkAssumption DEF Existing
<1>3. TreeInv(Main)
  <2>1. Led(<<>>, Root(Main)) /\ anchor[Main] = StateAt(<<>>, Root(Main), 0)
    BY <1>1 DEF Led, StateAt, Root
  <2> QED BY <1>1, <2>1, ForkAssumption DEF TreeInv
<1>4. \A s \in Forks \ {Main} : SideInv(s)
  BY <1>1, ForkAssumption DEF SideInv, CarryInv
<1> QED BY <1>1, <1>2, <1>3, <1>4 DEF StarInv

\* Where forks are made from Main and unioned into it, every command keeps it.
LEMMA StarNext ==
  ASSUME Star, UnionInv, UnionInv', (\A f \in Existing : State(f) = Tip(log[f], anchor[f]))',
         StarInv, [Next]_vars
  PROVE  StarInv'
<1>1. ASSUME NEW f \in Forks, f \in Existing, NEW i \in IntentsAt(State(f)),
             NEW r \in ReadsFor(State(f), i), Apply(f, i, r)
      PROVE  StarInv'
  BY <1>1, ApplyStar
<1>2. ASSUME NEW f \in Forks, f \in Existing, NEW m \in History(f), Repoint(f, m)
      PROVE  StarInv'
  BY <1>2, RepointStar
<1>3. ASSUME NEW f \in Forks, NEW a \in 1..Len(log[f]), NEW b \in 1..Len(log[f]),
             FuseSpan(f, a, b)
      PROVE  StarInv'
  BY <1>3, FuseStar
<1>4. ASSUME NEW f \in Forks, Snapshot(f) PROVE StarInv'
  BY <1>4, SnapshotStar
<1>5. ASSUME NEW n \in Forks, NEW from \in Bases, CreateFork(n, from) PROVE StarInv'
  BY <1>5, CreateStar DEF Star
<1>6. ASSUME NEW s \in Forks, NEW t \in Targets, Union(s, t) PROVE StarInv'
  BY <1>6, UnionStar DEF Star
<1>7. CASE UNCHANGED vars
  <2>1. \A g : Root(g)' = Root(g)
    BY <1>7 DEF vars, Root
  <2>2. \A s \in Forks \ {Main} : SideInv(s)'
    BY <1>7, <2>1, SideSame DEF StarInv, vars
  <2>3. \A f \in Existing : TreeInv(f)'
    BY <1>7, <2>1 DEF StarInv, TreeInv, vars
  <2> QED BY <1>7, <2>2, <2>3 DEF StarInv, PartedTyped, Existing, vars
<1> QED BY <1>1, <1>2, <1>3, <1>4, <1>5, <1>6, <1>7 DEF Next
\* The paths no line of l after the first n writes.
Quiet(l, n) == {p \in Paths : \A k \in n + 1..Len(l) : p \notin WritePaths(l[k].delta)}

\* A line that wrote a path Main left alone has not landed there.
LEMMA NotCarried ==
  ASSUME UnionInv, StarInv, NEW s \in Existing, s # Main, NEW j \in 1..Len(log[s]),
         NEW p \in Quiet(log[Main], parted[s]), p \in WritePaths(log[s][j].delta)
  PROVE  log[s][j].id \notin Carried(s, log[Main])
<1> DEFINE S == log[s]
           l == log[Main]
<1>1. /\ s \in Forks \ {Main} /\ Main \in Existing /\ SideInv(s) /\ TreeInv(Main)
      /\ S \in Seq(Line) /\ l \in Seq(Line) /\ Marked(s, S) /\ Marked(Main, l)
  BY ForkAssumption DEF StarInv, Existing, UnionInv, LogInv
<1>2. S[j].id \notin IdsOf(l)
  <2>1. S[j].id = LineId(s, j) /\ \A h \in 1..Len(l) : l[h].id = LineId(Main, h)
    BY <1>1 DEF Marked
  <2> QED BY <1>1, <2>1, OtherNames, ForkAssumption DEF IdsOf
<1>3. ASSUME Brought(s, j) PROVE FALSE
  <2>1. S[j].fuse = NoFuse
    <3>1. S[j].delta # {}
      BY DEF WritePaths
    <3> QED BY <1>1, <3>1 DEF Marked, FuseOnly
  <2>2. PICK i \in 1..j : S[i].intent # NoIntent /\ S[i].intent.path = p
    BY <1>1 DEF SideInv, OwnInv
  <2>3. i \in 1..Len(S) /\ Brought(s, i)
    BY <1>1, <1>3, <2>1 DEF SideInv, CarryInv
  <2>4. PICK k \in 1..Len(l) : Landing(s, k) /\ l[k].origin.id = S[i].id
    BY <2>3 DEF Brought
  <2>5. PICK h \in 1..Len(S) : l[k].origin.id = S[h].id /\ l[k].intent = S[h].intent
    BY <1>1, <2>4 DEF SideInv, CarryInv
  <2>6. h = i
    <3>1. S[i].id = LineId(s, i) /\ S[h].id = LineId(s, h)
      BY <1>1, <2>3 DEF Marked
    <3>2. LineId(s, i) = LineId(s, h)
      BY <2>4, <2>5, <3>1
    <3> QED BY <3>2 DEF LineId
  <2>7. WritePaths(l[k].delta) = {p}
    <3>1. Writes(l[k])
      BY <1>1 DEF TreeInv
    <3> QED BY <2>2, <2>5, <2>6, <3>1 DEF Writes
  <2>8. k > parted[s] /\ parted[s] \in Nat
    BY <1>1, <2>4 DEF SideInv, CarryInv, StarInv, PartedTyped
  <2>9. k \in parted[s] + 1..Len(l)
    BY <1>1, <2>8
  <2> QED BY <2>7, <2>9 DEF Quiet
<1>4. S[j].id \in Carried(s, l) => S[j].id \in IdsOf(l) \/ Brought(s, j)
  BY DEF Carried, Brought, Landing
<1> QED BY <1>2, <1>3, <1>4

\* Replayed where the paths q are as its author had them, a line leaves them
\* as its author did; if it has no intent, q must be all or nothing.
LEMMA LandsAlike ==
  ASSUME NEW q \in SUBSET Paths, NEW m \in Manifest, NEW n \in Manifest, \A p \in q : n[p] = m[p],
         NEW x \in Line, Follows(x, m), Writes(x),
         NEW y \in Line, Follows(y, n),
         y.delta = IF Applies(n, x.delta) THEN x.delta ELSE Realized(n, x.intent),
         q = {} \/ q = Paths \/ (x.intent = NoIntent => x.delta = {})
  PROVE  \A p \in q : y.after[p] = x.after[p]
<1>0. /\ x.after = Result(m, x.delta) /\ Applies(m, x.delta) /\ y.after = Result(n, y.delta)
      /\ x.delta \in SUBSET Entry /\ x.intent \in Intents
  BY DEF Follows, Line
<1>1. CASE Applies(n, x.delta)
  <2>1. y.delta = x.delta
    BY <1>1
  <2> QED BY <1>0, <2>1 DEF Result
<1>2. CASE ~Applies(n, x.delta)
  <2>1. PICK e \in x.delta : n[e.path] # e.old
    BY <1>2 DEF Applies
  <2>2. e.path \in Paths /\ e.path \in WritePaths(x.delta) /\ m[e.path] = e.old
    BY <1>0, <2>1 DEF Entry, WritePaths, Applies
  <2>3. e.path \notin q
    BY <2>1, <2>2
  <2>4. CASE x.intent = NoIntent
    <3>1. q = {}
      BY <2>1, <2>2, <2>3, <2>4
    <3> QED BY <3>1
  <2>5. CASE x.intent # NoIntent
    <3>1. WritePaths(x.delta) = {x.intent.path} /\ WritePaths(y.delta) = {x.intent.path}
      BY <1>0, <1>2, <2>5, IntentWrites DEF Writes
    <3>2. \A p \in q : p \notin WritePaths(x.delta) /\ p \notin WritePaths(y.delta)
      BY <2>2, <2>3, <3>1
    <3>3. ASSUME NEW p \in q PROVE x.after[p] = m[p] /\ y.after[p] = n[p]
      <4>1. (\A e2 \in x.delta : e2.path # p) /\ \A e2 \in y.delta : e2.path # p
        BY <3>2 DEF WritePaths
      <4> QED BY <1>0, <4>1 DEF Result
    <3> QED BY <3>3
  <2> QED BY <2>4, <2>5
<1> QED BY <1>1, <1>2

\* What was read, on paths nobody wrote since or with no write that makes it
\* stale, is still so.
LEMMA NotFlagged ==
  ASSUME NEW q \in SUBSET Paths, NEW m \in Manifest, NEW n \in Manifest, \A p \in q : n[p] = m[p],
         NEW r \in Reads, MetAt(r, m), NEW conc,
         \A p \in Paths \ q : \E c \in conc : p \in WritePaths(c.delta),
         \A c \in conc : ~StaleReads(r, WritePaths(c.delta), n)
  PROVE  StillSo(r, n)
<1>1. CASE r.kind = "none"
  BY <1>1 DEF StillSo
<1>2. CASE r.kind = "any"
  <2>1. \A c \in conc : WritePaths(c.delta) = {}
    BY <1>2 DEF StaleReads
  <2>2. q = Paths
    BY <2>1
  <2>3. n = m
    BY <2>2 DEF Manifest
  <2> QED BY <1>2, <2>3 DEF MetAt, StillSo
<1>3. CASE r.kind = "spans"
  <2>1. r \in [kind : {"spans"}, path : Paths, blob : Content, spans : SUBSET Texts]
    BY <1>3 DEF Reads
  <2>2. m[r.path] = r.blob /\ m[r.path] # NoFile
    BY <1>3 DEF MetAt
  <2>3. CASE r.path \in q
    <3>1. n[r.path] = r.blob /\ n[r.path] # NoFile
      BY <2>2, <2>3
    <3>2. \A t \in r.spans : r.blob[t] >= r.blob[t]
      BY <2>1 DEF Content
    <3> QED BY <1>3, <3>1, <3>2 DEF StillSo
  <2>4. CASE r.path \notin q
    <3>1. PICK c \in conc : r.path \in WritePaths(c.delta)
      BY <2>1, <2>4
    <3>2. ~ReadIsStale(r, NoFile, n)
      BY <1>3, <3>1 DEF StaleReads
    <3>3. n[r.path] # NoFile /\ n[r.path] \in Content
      BY <2>1, <3>2 DEF ReadIsStale, Manifest
    <3>4. CASE n[r.path] = r.blob
      <4>1. \A t \in r.spans : r.blob[t] >= r.blob[t]
        BY <2>1 DEF Content
      <4> QED BY <1>3, <3>3, <3>4, <4>1 DEF StillSo
    <3>5. CASE n[r.path] # r.blob
      <4>1. r.spans # {} /\ \A t \in r.spans : t \notin Changed(r.blob, n[r.path])
        BY <3>2, <3>5 DEF ReadIsStale
      <4>2. ASSUME NEW t \in r.spans PROVE n[r.path][t] >= r.blob[t]
        <5>1. t \in Texts /\ n[r.path][t] \in Nat /\ r.blob[t] \in Nat
          BY <2>1, <3>3 DEF Content
        <5>2. ~(r.blob[t] > n[r.path][t])
          BY <4>1, <5>1 DEF Changed
        <5> QED BY <5>1, <5>2
      <4> QED BY <1>3, <3>3, <4>1, <4>2 DEF StillSo
    <3> QED BY <3>4, <3>5
  <2> QED BY <2>3, <2>4
<1> QED BY <1>1, <1>2, <1>3 DEF Reads
\* A fork's repoints are of no account to a union into Main: there are none
\* that changed anything, or Main left nothing alone, or everything.
Harmless(s, q) ==
  \/ q = {} \/ q = Paths
  \/ \A j \in 1..Len(log[s]) : log[s][j].intent = NoIntent => log[s][j].delta = {}

\* The replay of the source's first k lines: the paths q are as their author
\* had them, and unless it ends or is flagged what landed is still so.
Faithful(acc, s, m, q, k) ==
  ~Same(s, m) /\ ~acc.dead => \A p \in q : acc.scratch[p] = StateAt(log[s], Root(s), k)[p]
Flagged(acc, m) ==
  \/ acc.dead \/ acc.stale
  \/ \A i \in 1..Len(acc.staged) : StillSo(acc.staged[i].reads, StateAt(acc.staged, m, i - 1))
Watches(acc, s, m, q, k) ==
  MergeInv(acc, s, Main, log[Main], m, k) /\ Faithful(acc, s, m, q, k) /\ Flagged(acc, m)

\* One source line keeps that.
LEMMA StageWatches ==
  ASSUME UnionInv, StarInv, NEW s \in Existing, s # Main, NEW m \in Manifest,
         NEW q, q = Quiet(log[Main], parted[s]), Harmless(s, q),
         \A p \in Paths \ q : \E c \in ToSet(Concurrent(s, log[Main])) : p \in WritePaths(c.delta),
         NEW k \in 0..Len(log[s]) - 1, NEW acc, Watches(acc, s, m, q, k),
         NEW b, b = Stage(s, log[Main], Same(s, m), acc, log[s][k + 1])
  PROVE  Watches(b, s, m, q, k + 1)
<1> DEFINE S == log[s]
           l == log[Main]
           R == Root(s)
           x == S[k + 1]
           w == StateAt(S, R, k)
           conc == ToSet(Concurrent(s, l))
<1>1. /\ s \in Forks \ {Main} /\ Main \in Forks /\ SideInv(s) /\ TreeInv(s)
      /\ S \in Seq(Line) /\ l \in Seq(Line) /\ Marked(s, S) /\ Marked(Main, l) /\ R \in Manifest
  BY RootIs, ForkAssumption DEF StarInv, Existing, UnionInv, LogInv
<1>2. /\ k + 1 \in 1..Len(S) /\ x \in Line /\ k + 1 - 1 = k /\ k + 1 # 0
      /\ k \in 0..Len(S)
  BY <1>1
<1>3. /\ w \in Manifest /\ Follows(x, w) /\ x.after = StateAt(S, R, k + 1)
      /\ Writes(x) /\ MetAt(x.reads, w) /\ (x.fuse # NoFuse => x.reads = NoReads)
  <2>1. w \in Manifest /\ Follows(x, w)
    BY <1>1, <1>2, StatesAlong DEF TreeInv
  <2>2. x.after = StateAt(S, R, k + 1) /\ Writes(x)
    BY <1>1, <1>2 DEF StateAt, TreeInv
  <2>3. OwnInv(s, k + 1)
    BY <1>1, <1>2 DEF SideInv
  <2> QED BY <1>2, <2>1, <2>2, <2>3 DEF OwnInv
<1>4. /\ MergeInv(acc, s, Main, l, m, k) /\ Faithful(acc, s, m, q, k) /\ Flagged(acc, m)
      /\ acc \in Accs(Main) /\ acc.scratch \in Manifest /\ acc.staged \in Seq(Line)
      /\ acc.scratch = Tip(acc.staged, m)
  BY DEF Watches, MergeInv, Stagings, Accs
<1>5. q \subseteq Paths /\ q \in SUBSET Paths
  BY DEF Quiet
<1>6. MergeInv(b, s, Main, l, m, k + 1)
  BY <1>1, <1>4, StageKeeps
<1>7. \/ Passed(s, l, Same(s, m), acc, x, b)
      \/ Stopped(acc, b)
      \/ Landable(s, l, Same(s, m), x) /\ \E y \in Line : LandedAs(s, l, acc, x, b, y)
  BY <1>1, <1>2, <1>4, StageIs
<1>8. x.id \in Carried(s, l) => \A p \in q : p \notin WritePaths(x.delta)
  BY <1>1, <1>2, NotCarried
<1> HIDE DEF x, w, R, conc
<1>9. CASE Passed(s, l, Same(s, m), acc, x, b)
  <2>1. Flagged(b, m)
    BY <1>4, <1>9 DEF Passed
  <2>2. ASSUME ~Same(s, m), ~b.dead, NEW p \in q
        PROVE  b.scratch[p] = x.after[p]
    <3>1. x.id \in Carried(s, l) /\ b = acc
      BY <1>9, <2>2 DEF Passed
    <3>2. acc.scratch[p] = w[p]
      BY <1>4, <2>2, <3>1 DEF Faithful, w, R
    <3>3. \A e \in x.delta : e.path # p
      BY <1>8, <3>1 DEF WritePaths
    <3>4. x.after[p] = w[p]
      BY <1>3, <1>5, <3>3 DEF Follows, Result
    <3> QED BY <3>1, <3>2, <3>4
  <2>3. Faithful(b, s, m, q, k + 1)
    BY <1>3, <2>2 DEF Faithful, R
  <2> QED BY <1>6, <2>1, <2>3 DEF Watches
<1>10. CASE Stopped(acc, b)
  BY <1>6, <1>10 DEF Stopped, Faithful, Flagged, Watches
<1>11. CASE Landable(s, l, Same(s, m), x) /\ \E y \in Line : LandedAs(s, l, acc, x, b, y)
  <2>1. PICK y \in Line : LandedAs(s, l, acc, x, b, y)
    BY <1>11
  <2>2. /\ ~acc.dead /\ ~b.dead /\ b.staged = Append(acc.staged, y) /\ b.scratch = y.after
        /\ y.reads = x.reads /\ Follows(y, acc.scratch)
        /\ y.delta = IF Applies(acc.scratch, x.delta) THEN x.delta
                     ELSE Realized(acc.scratch, x.intent)
    BY <2>1 DEF LandedAs, Replays
  <2>3. ~Same(s, m) => \A p \in q : acc.scratch[p] = w[p]
    BY <1>4, <2>2 DEF Faithful, w, R
  <2>4. Faithful(b, s, m, q, k + 1)
    <3> SUFFICES ASSUME ~Same(s, m) PROVE \A p \in q : b.scratch[p] = x.after[p]
      BY <1>3 DEF Faithful, R
    <3>1. q = {} \/ q = Paths \/ (x.intent = NoIntent => x.delta = {})
      BY <1>2 DEF Harmless, x
    <3>2. \A p \in q : y.after[p] = x.after[p]
      BY <1>2, <1>3, <1>4, <1>5, <2>2, <2>3, <3>1, LandsAlike
    <3> QED BY <2>2, <3>2
  <2>5. Flagged(b, m)
    <3> SUFFICES ASSUME ~b.stale, NEW i \in 1..Len(b.staged)
                 PROVE  StillSo(b.staged[i].reads, StateAt(b.staged, m, i - 1))
      BY DEF Flagged
    <3>1. ~acc.stale /\ \A c \in conc : ~StaleReads(x.reads, WritePaths(c.delta), acc.scratch)
      BY <2>1 DEF LandedAs, conc
    <3>2. /\ b.staged[Len(acc.staged) + 1] = y /\ Len(acc.staged) \in Nat
          /\ \A j \in 1..Len(acc.staged) : b.staged[j] = acc.staged[j]
          /\ i \in 1..Len(acc.staged) \/ i = Len(acc.staged) + 1
      BY <1>4, <2>2
    <3>3. StateAt(b.staged, m, i - 1) = StateAt(acc.staged, m, i - 1)
      <4>1. i - 1 # 0 => i - 1 \in 1..Len(acc.staged)
        BY <3>2
      <4> QED BY <3>2, <4>1 DEF StateAt
    <3>4. CASE i \in 1..Len(acc.staged)
      BY <1>4, <2>2, <3>1, <3>2, <3>3, <3>4 DEF Flagged
    <3>5. CASE i = Len(acc.staged) + 1
      <4>1. b.staged[i].reads = x.reads
        BY <2>2, <3>2, <3>5
      <4>2. StateAt(b.staged, m, i - 1) = acc.scratch
        <5>1. i - 1 = Len(acc.staged)
          BY <3>2, <3>5
        <5> QED BY <1>4, <3>3, <5>1, AtEnd
      <4>3. CASE Same(s, m)
        <5>1. x.reads = NoReads
          BY <1>3, <1>11, <4>3 DEF Landable
        <5> QED BY <4>1, <5>1 DEF StillSo, NoReads
      <4>4. CASE ~Same(s, m)
        <5>1. x.reads \in Reads
          BY <1>2 DEF Line
        <5>2. \A p \in Paths \ q : \E c \in conc : p \in WritePaths(c.delta)
          BY DEF conc
        <5>3. StillSo(x.reads, acc.scratch)
          BY <1>3, <1>4, <1>5, <2>3, <3>1, <4>4, <5>1, <5>2, NotFlagged
        <5> QED BY <4>1, <4>2, <5>3
      <4> QED BY <4>3, <4>4
    <3> QED BY <3>2, <3>4, <3>5
  <2> QED BY <1>6, <2>4, <2>5 DEF Watches
<1> QED BY <1>7, <1>9, <1>10, <1>11
\* So does the whole replay, from what Main holds.
LEMMA MergeWatches ==
  ASSUME UnionInv, StarInv, NEW s \in Existing, s # Main,
         NEW q, q = Quiet(log[Main], parted[s]), Harmless(s, q),
         \A p \in Paths \ q : \E c \in ToSet(Concurrent(s, log[Main])) : p \in WritePaths(c.delta)
  PROVE  Watches(Merge(s, Main, log[Main], State(Main)), s, State(Main), q, Len(log[s]))
<1> DEFINE l == log[Main]
           m == State(Main)
           n == Len(log[s])
           I == [k \in 0..n |-> {acc \in Accs(Main) : Watches(acc, s, m, q, k)}]
<1>1. /\ s \in Forks /\ Main \in Forks /\ Main \in Existing /\ TreeInv(Main)
      /\ log[s] \in Seq(Line) /\ l \in Seq(Line) /\ Marked(s, log[s]) /\ Marked(Main, l)
      /\ m \in Manifest /\ EmptyManifest \in Manifest /\ parted[s] \in 0..Len(l)
  BY RootIs, StateIs, ForkAssumption DEF StarInv, Existing, UnionInv, LogInv
<1>2. n \in Nat /\ 0 \in 0..n /\ n \in 0..n /\ \A k \in 0..n - 1 : k \in 0..n /\ k + 1 \in 0..n
  BY <1>1
<1>3. I \in [0..n -> SUBSET Accs(Main)]
  OBVIOUS
<1>4. Start(s, Main, l, m) \in I[0]
  <2> DEFINE b == Start(s, Main, l, m)
  <2>1. b \in Accs(Main) /\ b.scratch = m /\ b.staged = <<>>
    BY <1>1, StartTyped DEF Start
  <2>2. MergeInv(b, s, Main, l, m, 0)
    BY <1>1, MergeStart
  <2> HIDE DEF b
  <2>3. ASSUME NEW p \in q PROVE m[p] = Root(s)[p]
    <3>1. p \in Paths /\ \A k \in parted[s] + 1..Len(l) : p \notin WritePaths(l[k].delta)
      BY DEF Quiet
    <3>2. Led(l, EmptyManifest)
      BY <1>1 DEF TreeInv, Root
    <3>3. Len(l) \in parted[s]..Len(l)
      BY <1>1
    <3>4. StateAt(l, EmptyManifest, Len(l))[p] = StateAt(l, EmptyManifest, parted[s])[p]
      <4> HIDE DEF l
      <4> QED BY <1>1, <3>1, <3>2, <3>3, Untouched
    <3>5. m = StateAt(l, EmptyManifest, Len(l))
      BY <1>1, StateOnTree DEF Root
    <3> QED BY <3>4, <3>5 DEF Root
  <2>4. Faithful(b, s, m, q, 0)
    BY <2>1, <2>3 DEF Faithful, StateAt
  <2>5. Flagged(b, m)
    <3>1. 1..Len(<<>>) = {}
      BY SMT
    <3> QED BY <2>1, <3>1 DEF Flagged
  <2>6. Watches(b, s, m, q, 0)
    BY <2>2, <2>4, <2>5 DEF Watches
  <2> QED BY <1>2, <2>1, <2>6 DEF b
<1>5. ASSUME NEW k \in 0..n - 1, NEW acc \in I[k]
      PROVE  Stage(s, l, State(s) = m, acc, log[s][k + 1]) \in I[k + 1]
  <2> DEFINE b == Stage(s, l, Same(s, m), acc, log[s][k + 1])
  <2>1. acc \in Accs(Main) /\ Watches(acc, s, m, q, k)
    BY <1>2
  <2>2. Watches(b, s, m, q, k + 1)
    BY <1>1, <2>1, StageWatches
  <2>3. b \in Accs(Main)
    BY <2>2 DEF Watches, MergeInv, Stagings
  <2> HIDE DEF b
  <2>4. b \in I[k + 1]
    BY <1>2, <2>2, <2>3
  <2> QED BY <2>4 DEF b, Same
<1> HIDE DEF I
<1>6. Merge(s, Main, l, m) \in I[n]
  BY <1>1, <1>3, <1>4, <1>5, MergeInduction
<1> QED BY <1>2, <1>6 DEF I

\* The forward tripwire, of one union.
LEMMA UnionReads ==
  ASSUME UnionInv, UnionInv', (\A f \in Existing : State(f) = Tip(log[f], anchor[f]))',
         StarInv, NEW s \in Forks, Union(s, Main), Apart(s),
         Harmless(s, Quiet(log[Main], parted[s])), NEW i \in New(Main)
  PROVE  StillSo(log'[Main][i].reads, Under(Main, i))
<1> DEFINE l == log[Main]
           m == State(Main)
           mg == Merge(s, Main, l, m)
           u == mg.staged
           q == Quiet(l, parted[s])
<1>1. /\ s # Main /\ s \in Existing /\ l \in Seq(Line) /\ Main \in Forks
      /\ MergeInv(mg, s, Main, l, m, Len(log[s])) /\ ~mg.dead /\ ~mg.stale
      /\ log'[Main] = l \o u
  BY UnionIs, ForkAssumption
<1>2. parted[s] \in 0..Len(l) /\ LastAt(l, anchor[s]) \in 0..Len(l)
      /\ LastAt(l, anchor[s]) <= parted[s]
  BY <1>1, RootIs, LastAtIs DEF Apart
<1>3. ASSUME NEW p \in Paths \ q
      PROVE  \E c \in ToSet(Concurrent(s, l)) : p \in WritePaths(c.delta)
  <2>1. PICK k \in parted[s] + 1..Len(l) : p \in WritePaths(l[k].delta)
    BY <1>3 DEF Quiet
  <2>2. k \in 1..Len(l) /\ LastAt(l, anchor[s]) < k
    BY <1>1, <1>2
  <2> QED BY <1>1, <2>1, <2>2, IsConcurrent
<1>4. Watches(mg, s, m, q, Len(log[s]))
  <2> HIDE DEF mg
  <2>1. Watches(Merge(s, Main, l, m), s, m, q, Len(log[s]))
    BY <1>1, <1>3, MergeWatches
  <2> QED BY <2>1 DEF mg
<1> HIDE DEF mg, q
<1>5. \A j \in 1..Len(u) : StillSo(u[j].reads, StateAt(u, m, j - 1))
  BY <1>1, <1>4 DEF Watches, Flagged
<1>6. u \in Seq(Line)
  BY <1>1 DEF MergeInv, Stagings, Accs
<1> HIDE DEF u
<1>7. i \in Len(l) + 1..Len(l \o u) /\ Len(l) \in Nat /\ Len(u) \in Nat
      /\ Len(l \o u) = Len(l) + Len(u)
  BY <1>1, <1>6 DEF New
<1>8. PICK j \in 1..Len(u) : i = Len(l) + j
  <2>1. i - Len(l) \in 1..Len(u) /\ i = Len(l) + (i - Len(l))
    BY <1>7
  <2> QED BY <2>1
<1>9. log'[Main][i] = u[j]
  BY <1>1, <1>6, <1>8
<1>10. Under(Main, i) = StateAt(u, m, j - 1)
  <2>1. CASE j = 1
    <3>1. i = Len(l) + 1 /\ j - 1 = 0
      BY <1>8, <2>1
    <3> QED BY <3>1 DEF Under, StateAt
  <2>2. CASE j # 1
    <3>1. i # Len(l) + 1 /\ j - 1 \in 1..Len(u) /\ j - 1 # 0 /\ i - 1 = Len(l) + (j - 1)
      BY <1>7, <1>8, <2>2
    <3>2. log'[Main][i - 1] = u[j - 1]
      BY <1>1, <1>6, <3>1
    <3> QED BY <3>1, <3>2 DEF Under, StateAt
  <2> QED BY <2>1, <2>2
<1> QED BY <1>5, <1>9, <1>10

\* What is known in every state, where forks are made from Main and unioned
\* into it.
LEMMA StarSteps ==
  ASSUME Star
  PROVE  Spec => [][UnionInv /\ UnionInv' /\ StarInv /\ [Next]_vars
                    /\ (\A f \in Existing : State(f) = Tip(log[f], anchor[f]))']_vars
<1>1. (\A f \in Existing : State(f) = Tip(log[f], anchor[f]))' \/ ~UnionInv'
  BY TipsAre, PTL
<1>2. UnionInv /\ UnionInv' /\ StarInv /\ [Next]_vars
      /\ (\A f \in Existing : State(f) = Tip(log[f], anchor[f]))' => StarInv'
  BY StarNext
<1> QED BY UnionInit, UnionNext, StarInit, <1>1, <1>2, PTL DEF Spec

\* A line of the fork has no intent but a delta: a repoint.
Repointed(s) == \E j \in 1..Len(log[s]) : log[s][j].intent = NoIntent /\ log[s][j].delta # {}

\* ReadsHold, of the forks in which nothing was repointed.
UnrepointedReadsHold ==
  [][\A s \in Forks : Lands(s, Main) /\ Apart(s) /\ ~Repointed(s) =>
       \A i \in New(Main) : StillSo(log'[Main][i].reads, Under(Main, i))]_vars

\* Where forks are made from Main and unioned back into it, no line of a fork
\* without repoints lands whose author read something that is no longer so:
\* every write since the two parted is among those note_stale_reads compares,
\* and on the paths nobody wrote a replayed line stands where it was sealed.
THEOREM NoStaleReads == ASSUME Star PROVE Spec => UnrepointedReadsHold
<1>1. UnionInv /\ UnionInv' /\ StarInv /\ [Next]_vars
      /\ (\A f \in Existing : State(f) = Tip(log[f], anchor[f]))'
      => [\A s \in Forks : Lands(s, Main) /\ Apart(s) /\ ~Repointed(s) =>
            \A i \in New(Main) : StillSo(log'[Main][i].reads, Under(Main, i))]_vars
  <2> SUFFICES ASSUME UnionInv, UnionInv', StarInv, [Next]_vars,
                      (\A f \in Existing : State(f) = Tip(log[f], anchor[f]))',
                      NEW s \in Forks, Lands(s, Main), Apart(s), ~Repointed(s),
                      NEW i \in New(Main)
               PROVE  StillSo(log'[Main][i].reads, Under(Main, i))
    BY DEF vars
  <2>1. Union(s, Main)
    BY LandsIs, ForkAssumption
  <2>2. Harmless(s, Quiet(log[Main], parted[s]))
    BY DEF Harmless, Repointed
  <2> QED BY <2>1, <2>2, UnionReads
<1> QED BY <1>1, StarSteps, PTL DEF UnrepointedReadsHold

\* The same of every fork where there is one file: what main left alone is
\* then all or nothing, so a repoint either lands as it was sealed, or what
\* was read after it is compared with what main wrote.
THEOREM NoStaleReadsOfOneFile ==
  ASSUME Star, \A p, q \in Paths : p = q PROVE Spec => ReadsHold
<1>1. UnionInv /\ UnionInv' /\ StarInv /\ [Next]_vars
      /\ (\A f \in Existing : State(f) = Tip(log[f], anchor[f]))'
      => [\A s \in Forks : Lands(s, Main) /\ Apart(s) =>
            \A i \in New(Main) : StillSo(log'[Main][i].reads, Under(Main, i))]_vars
  <2> SUFFICES ASSUME UnionInv, UnionInv', StarInv, [Next]_vars,
                      (\A f \in Existing : State(f) = Tip(log[f], anchor[f]))',
                      NEW s \in Forks, Lands(s, Main), Apart(s), NEW i \in New(Main)
               PROVE  StillSo(log'[Main][i].reads, Under(Main, i))
    BY DEF vars
  <2>1. Union(s, Main)
    BY LandsIs, ForkAssumption
  <2>2. Harmless(s, Quiet(log[Main], parted[s]))
    <3>1. \A q \in SUBSET Paths : q = {} \/ q = Paths
      OBVIOUS
    <3> QED BY <3>1 DEF Harmless, Quiet
  <2> QED BY <2>1, <2>2, UnionReads
<1> QED BY <1>1, StarSteps, PTL DEF ReadsHold
=============================================================================
