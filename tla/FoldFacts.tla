------------------------------ MODULE FoldFacts ------------------------------
(***************************************************************************)
(* Facts about natural numbers, greatest elements and folds over sequences *)
(* that the proofs of several components use.  Induction is by the least   *)
(* counterexample: a set of naturals that is not empty has a least element.*)
(***************************************************************************)
EXTENDS Naturals, Sequences, SequencesExt, WellFoundedInduction, TLAPS

\* A nonempty set of naturals has a least element.
LEMMA Least ==
  ASSUME NEW T, T \subseteq Nat, T # {}
  PROVE  \E n \in T : \A k \in T : n <= k
<1> DEFINE R == OpToRel(<, Nat)
<1>1. IsWellFoundedOn(R, Nat)
  BY NatLessThanWellFounded
<1>2. \A x, y \in Nat : x < y => <<x, y>> \in R
  BY DEF OpToRel
<1> HIDE DEF R
<1>3. PICK n \in T : \A k \in T : ~(<<k, n>> \in R)
  BY <1>1, WFMin
<1>4. \A k \in T : ~(k < n) /\ k \in Nat /\ n \in Nat
  BY <1>2, <1>3
<1>5. \A k \in T : n <= k
  BY <1>4
<1> QED BY <1>5

\* Induction: a set that has 0 and with each natural the next one has them all.
LEMMA Induction ==
  ASSUME NEW S, 0 \in S, \A n \in Nat : n \in S => n + 1 \in S
  PROVE  Nat \subseteq S
<1> SUFFICES ASSUME Nat \ S # {} PROVE FALSE
  OBVIOUS
<1>1. PICK n \in Nat \ S : \A k \in Nat \ S : n <= k
  BY Least
<1>2. n # 0 /\ n - 1 \in Nat /\ n - 1 + 1 = n /\ ~(n <= n - 1)
  BY <1>1
<1>3. n - 1 \in S
  BY <1>1, <1>2
<1> QED BY <1>1, <1>2, <1>3

\* A nonempty bounded set of naturals has a greatest element (Max).
LEMMA MaxIn ==
  ASSUME NEW S, S \subseteq Nat, S # {}, NEW n \in Nat, \A x \in S : x <= n
  PROVE  Max(S) \in S /\ \A y \in S : y <= Max(S)
<1> DEFINE T == {n - x : x \in S}
<1>1. T \subseteq Nat /\ T # {}
  <2>1. \A x \in S : n - x \in Nat
    OBVIOUS
  <2> QED BY <2>1
<1> HIDE DEF T
<1>2. PICK d \in T : \A k \in T : d <= k
  BY <1>1, Least
<1>3. PICK x \in S : d = n - x
  BY <1>2 DEF T
<1>4. \A y \in S : x >= y
  <2> SUFFICES ASSUME NEW y \in S PROVE x >= y
    OBVIOUS
  <2>1. n - y \in T /\ x \in Nat /\ y \in Nat
    BY DEF T
  <2> QED BY <1>2, <1>3, <2>1
<1>5. \A y \in S : Max(S) >= y /\ Max(S) \in S
  BY <1>3, <1>4 DEF Max
<1> QED BY <1>5

\* The greatest of the first naturals, and what is left without it.
LEMMA MaxOfInterval ==
  ASSUME NEW k \in Nat
  PROVE  /\ Max(1..k + 1) = k + 1 /\ (1..k + 1) \ {k + 1} = 1..k
         /\ \A T \in SUBSET (1..k + 1) : k + 1 \in T => Max(T) = k + 1 /\ T \ {k + 1} \in SUBSET (1..k)
         /\ \A T \in SUBSET (1..k + 1) : k + 1 \notin T => T \in SUBSET (1..k)
<1>1. ASSUME NEW T \in SUBSET (1..k + 1), k + 1 \in T PROVE Max(T) = k + 1
  <2>1. T \subseteq Nat /\ k + 1 \in Nat /\ \A x \in T : x <= k + 1
    OBVIOUS
  <2>2. Max(T) \in T /\ \A y \in T : y <= Max(T)
    BY <1>1, <2>1, MaxIn
  <2>3. Max(T) \in Nat /\ Max(T) <= k + 1 /\ k + 1 <= Max(T)
    BY <1>1, <2>1, <2>2
  <2> QED BY <2>3
<1>2. \A x \in 1..k + 1 : x # k + 1 => x \in 1..k
  OBVIOUS
<1>3. 1..k \subseteq 1..k + 1 /\ k + 1 \in 1..k + 1 /\ k + 1 \notin 1..k
  OBVIOUS
<1> QED BY <1>1, <1>2, <1>3

\* g is the function by which Folds!MapThenFoldSet folds step F, from b, over
\* the first n naturals, with Max as its choice.
Folding(g, A, b, n, F) ==
  /\ g \in [SUBSET (1..n) -> A]
  /\ \A T \in SUBSET (1..n) : g[T] = IF T = {} THEN b ELSE F[<<g[T \ {Max(T)}], Max(T)>>]

\* The function that a fold over the first n naturals recurs on exists: the
\* recursion of Folds!MapThenFoldSet, with Max as its choice, is sound.
LEMMA FoldExists ==
  ASSUME NEW A, NEW b \in A, NEW n \in Nat, NEW F \in [A \X (1..n) -> A]
  PROVE  \E g : Folding(g, A, b, n, F)
<1> DEFINE Rec(g, T) == g[T] = IF T = {} THEN b ELSE F[<<g[T \ {Max(T)}], Max(T)>>]
           P(k) == \E g \in [SUBSET (1..k) -> A] : \A T \in SUBSET (1..k) : Rec(g, T)
           S == {k \in Nat : k <= n => P(k)}
<1>1. 0 \in S
  <2>1. SUBSET (1..0) = {{}}
    OBVIOUS
  <2>2. [T \in SUBSET (1..0) |-> b] \in [SUBSET (1..0) -> A]
    OBVIOUS
  <2>3. \A T \in SUBSET (1..0) : Rec([U \in SUBSET (1..0) |-> b], T)
    BY <2>1
  <2>4. P(0)
    BY <2>2, <2>3
  <2> QED BY <2>4
<1>2. ASSUME NEW k \in Nat, k \in S PROVE k + 1 \in S
  <2> HIDE DEF P
  <2> SUFFICES ASSUME k + 1 <= n PROVE P(k + 1)
    OBVIOUS
  <2>0. P(k) /\ k + 1 \in 1..n
    BY <1>2
  <2> USE DEF P
  <2>1. P(k) /\ k + 1 \in 1..n
    BY <2>0
  <2>2. PICK g \in [SUBSET (1..k) -> A] : \A T \in SUBSET (1..k) : Rec(g, T)
    BY <2>1
  <2> DEFINE h == [T \in SUBSET (1..k + 1) |->
                    IF k + 1 \in T THEN F[<<g[T \ {k + 1}], k + 1>>] ELSE g[T]]
  <2>3. h \in [SUBSET (1..k + 1) -> A]
    <3> SUFFICES ASSUME NEW T \in SUBSET (1..k + 1) PROVE h[T] \in A
      OBVIOUS
    <3>1. CASE k + 1 \in T
      <4>1. g[T \ {k + 1}] \in A
        BY <3>1, MaxOfInterval
      <4>2. <<g[T \ {k + 1}], k + 1>> \in A \X (1..n)
        BY <2>1, <4>1
      <4> QED BY <3>1, <4>2
    <3>2. CASE k + 1 \notin T
      BY <3>2, MaxOfInterval
    <3> QED BY <3>1, <3>2
  <2>a. \A T \in SUBSET (1..k) : h[T] = g[T]
    <3>1. k + 1 \notin 1..k /\ 1..k \subseteq 1..k + 1
      OBVIOUS
    <3> QED BY <3>1
  <2>b. \A T \in SUBSET (1..k + 1) : k + 1 \in T => h[T] = F[<<g[T \ {k + 1}], k + 1>>]
    OBVIOUS
  <2> HIDE DEF h
  <2>4. ASSUME NEW T \in SUBSET (1..k + 1) PROVE Rec(h, T)
    <3>1. CASE k + 1 \in T
      <4>1. Max(T) = k + 1 /\ T \ {k + 1} \in SUBSET (1..k) /\ T # {}
        BY <3>1, MaxOfInterval
      <4> QED BY <2>a, <2>b, <3>1, <4>1
    <3>2. CASE k + 1 \notin T
      <4>1. T \in SUBSET (1..k) /\ T \ {Max(T)} \in SUBSET (1..k)
        BY <3>2, MaxOfInterval
      <4>2. Rec(g, T)
        BY <2>2, <4>1
      <4> QED BY <2>a, <4>1, <4>2
    <3> QED BY <3>1, <3>2
  <2> QED BY <2>3, <2>4
<1> HIDE DEF P
<1>3. Nat \subseteq S
  <2> HIDE DEF S
  <2> QED BY <1>1, <1>2, Induction
<1>4. P(n)
  BY <1>3
<1> QED BY <1>4 DEF P, Folding

\* A nonempty set of naturals has a least element (Min).
LEMMA MinIn ==
  ASSUME NEW S, S \subseteq Nat, S # {}
  PROVE  Min(S) \in S /\ \A y \in S : Min(S) <= y
<1>1. \E x \in S : \A y \in S : x <= y
  BY Least
<1> QED BY <1>1 DEF Min

\* The same, of a fold from the right: with Min as its choice.
FoldingRight(g, A, b, n, F) ==
  /\ g \in [SUBSET (1..n) -> A]
  /\ \A T \in SUBSET (1..n) : g[T] = IF T = {} THEN b ELSE F[<<g[T \ {Min(T)}], Min(T)>>]

\* It exists too: it folds the mirror image of the sequence from the left.
LEMMA FoldRightExists ==
  ASSUME NEW A, NEW b \in A, NEW n \in Nat, NEW F \in [A \X (1..n) -> A]
  PROVE  \E g : FoldingRight(g, A, b, n, F)
<1> DEFINE Mirror(T) == {n + 1 - x : x \in T}
           G == [z \in A \X (1..n) |-> F[<<z[1], n + 1 - z[2]>>]]
<1>1. ASSUME NEW T \in SUBSET (1..n)
      PROVE  Mirror(T) \in SUBSET (1..n) /\ (Mirror(T) = {} <=> T = {})
  <2>1. \A x \in 1..n : n + 1 - x \in 1..n
    OBVIOUS
  <2> QED BY <2>1
<1>2. ASSUME NEW T \in SUBSET (1..n), T # {}
      PROVE  /\ Min(T) \in 1..n /\ Max(Mirror(T)) = n + 1 - Min(T)
             /\ T \ {Min(T)} \in SUBSET (1..n)
             /\ Mirror(T \ {Min(T)}) = Mirror(T) \ {Max(Mirror(T))}
  <2>1. Min(T) \in T /\ \A y \in T : Min(T) <= y
    <3>1. T \subseteq Nat
      OBVIOUS
    <3> QED BY <1>2, <3>1, MinIn
  <2> DEFINE k == Min(T)
             M == Mirror(T)
  <2>2. k \in 1..n /\ n + 1 - k \in M /\ M \in SUBSET (1..n) /\ M # {}
    BY <1>1, <1>2, <2>1
  <2>3. \A y \in M : y <= n + 1 - k
    <3>1. \A x \in T : x \in 1..n /\ k <= x
      BY <2>1
    <3>2. \A x \in T : n + 1 - x <= n + 1 - k
      BY <2>2, <3>1
    <3> QED BY <3>2
  <2>4. \A x \in T : x \in 1..n
    OBVIOUS
  <2>5. Mirror(T \ {k}) = M \ {n + 1 - k}
    <3> HIDE DEF k
    <3>1. \A x \in T : x # k <=> n + 1 - x # n + 1 - k
      BY <2>2, <2>4
    <3> QED BY <3>1
  <2> HIDE DEF M, k
  <2>6. Max(M) = n + 1 - k
    <3>1. M \subseteq Nat /\ \A y \in M : y <= n /\ y \in Nat
      BY <2>2
    <3>2. Max(M) \in M /\ \A y \in M : y <= Max(M)
      BY <2>2, <3>1, MaxIn
    <3>3. Max(M) <= n + 1 - k
      BY <2>3, <3>2
    <3>4. n + 1 - k <= Max(M)
      BY <2>2, <3>2
    <3>5. Max(M) \in Nat /\ k \in 1..n
      BY <2>2, <3>1, <3>2
    <3> QED BY <3>3, <3>4, <3>5
  <2> QED BY <2>2, <2>5, <2>6 DEF k, M
<1>3. G \in [A \X (1..n) -> A]
  <2>1. ASSUME NEW z \in A \X (1..n) PROVE F[<<z[1], n + 1 - z[2]>>] \in A
    <3>1. z[1] \in A /\ z[2] \in 1..n /\ n + 1 - z[2] \in 1..n
      OBVIOUS
    <3>2. <<z[1], n + 1 - z[2]>> \in A \X (1..n)
      BY <3>1
    <3> QED BY <3>2
  <2> QED BY <2>1
<1>4. \A x \in A, i \in 1..n : G[<<x, n + 1 - i>>] = F[<<x, i>>]
  <2> SUFFICES ASSUME NEW x \in A, NEW i \in 1..n PROVE G[<<x, n + 1 - i>>] = F[<<x, i>>]
    OBVIOUS
  <2>1. n + 1 - i \in 1..n /\ n + 1 - (n + 1 - i) = i
    OBVIOUS
  <2>2. <<x, n + 1 - i>> \in A \X (1..n)
    BY <2>1
  <2> QED BY <2>1, <2>2
<1> HIDE DEF G
<1>5. PICK h : Folding(h, A, b, n, G)
  BY <1>3, FoldExists
<1>6. h \in [SUBSET (1..n) -> A]
      /\ \A T \in SUBSET (1..n) : h[T] = IF T = {} THEN b ELSE G[<<h[T \ {Max(T)}], Max(T)>>]
  BY <1>5 DEF Folding
<1> HIDE DEF Mirror
<1> DEFINE g == [T \in SUBSET (1..n) |-> h[Mirror(T)]]
<1>7. g \in [SUBSET (1..n) -> A]
  BY <1>1, <1>6
<1>8. ASSUME NEW T \in SUBSET (1..n)
      PROVE  g[T] = IF T = {} THEN b ELSE F[<<g[T \ {Min(T)}], Min(T)>>]
  <2>1. CASE T = {}
    BY <1>1, <1>6, <2>1
  <2>2. CASE T # {}
    <3>1. /\ Min(T) \in 1..n /\ Max(Mirror(T)) = n + 1 - Min(T)
          /\ T \ {Min(T)} \in SUBSET (1..n)
          /\ Mirror(T \ {Min(T)}) = Mirror(T) \ {Max(Mirror(T))}
      BY <1>2, <2>2
    <3>2. Mirror(T) \in SUBSET (1..n) /\ Mirror(T) # {}
      BY <1>1, <2>2
    <3>3. g[T \ {Min(T)}] = h[Mirror(T) \ {Max(Mirror(T))}] /\ g[T \ {Min(T)}] \in A
      BY <1>7, <3>1
    <3>4. g[T] = G[<<g[T \ {Min(T)}], n + 1 - Min(T)>>]
      BY <1>6, <3>1, <3>2, <3>3
    <3> HIDE DEF g
    <3> QED BY <1>4, <2>2, <3>1, <3>3, <3>4
  <2> QED BY <2>1, <2>2
<1> HIDE DEF g
<1>9. FoldingRight(g, A, b, n, F)
  BY <1>7, <1>8 DEF FoldingRight
<1> QED BY <1>9
-----------------------------------------------------------------------------
(* Sequences of sequences.                                                 *)

\* What two sequences joined are.
LEMMA Joins ==
  ASSUME NEW S, NEW l \in Seq(S), NEW u \in Seq(S)
  PROVE  LET t == l \o u
         IN  /\ t \in Seq(S) /\ Len(t) = Len(l) + Len(u) /\ Len(l) \in Nat /\ Len(u) \in Nat
             /\ \A i \in 1..Len(l) : t[i] = l[i]
             /\ \A i \in 1..Len(u) : t[Len(l) + i] = u[i]
OBVIOUS

\* h is a recursive function's values.
Recurs(h, A, b, n, F) ==
  h \in [0..n -> A] /\ h[0] = b /\ \A i \in 1..n : h[i] = F[<<h[i - 1], i>>]

\* Sequences of one length that have the same elements are the same.
LEMMA SameSeq ==
  ASSUME NEW S, NEW l \in Seq(S), NEW u \in Seq(S), Len(l) = Len(u),
         \A i \in 1..Len(l) : l[i] = u[i]
  PROVE  l = u
OBVIOUS

\* A sequence is its first elements and the rest.
LEMMA Parts ==
  ASSUME NEW S, NEW l \in Seq(S), NEW c \in 0..Len(l)
  PROVE  l = SubSeq(l, 1, c) \o SubSeq(l, c + 1, Len(l))
<1> DEFINE u == SubSeq(l, 1, c)
           v == SubSeq(l, c + 1, Len(l))
           t == u \o v
<1>1. u \in Seq(S) /\ v \in Seq(S) /\ Len(u) = c /\ Len(v) = Len(l) - c
  OBVIOUS
<1>2. /\ \A i \in 1..c : u[i] = l[i]
      /\ \A i \in 1..Len(l) - c : v[i] = l[c + i]
  OBVIOUS
<1> HIDE DEF u, v
<1>3. /\ t \in Seq(S) /\ Len(t) = Len(u) + Len(v)
      /\ \A i \in 1..Len(u) : t[i] = u[i]
      /\ \A i \in 1..Len(v) : t[Len(u) + i] = v[i]
  BY <1>1, Joins
<1> HIDE DEF t
<1>4. ASSUME NEW i \in 1..Len(l) PROVE l[i] = t[i]
  <2>1. CASE i <= c
    BY <1>1, <1>2, <1>3, <2>1
  <2>2. CASE ~(i <= c)
    <3>1. i - c \in 1..Len(l) - c /\ c + (i - c) = i
      BY <2>2
    <3>2. t[c + (i - c)] = v[i - c] /\ v[i - c] = l[c + (i - c)]
      BY <1>1, <1>2, <1>3, <3>1
    <3> QED BY <3>1, <3>2
  <2> QED BY <2>1, <2>2
<1>5. Len(l) = Len(t)
  BY <1>1, <1>3
<1>6. l = t
  BY <1>3, <1>4, <1>5, SameSeq
<1> QED BY <1>6 DEF t, u, v

\* Joining is associative.
LEMMA Regroup ==
  ASSUME NEW S, NEW l \in Seq(S), NEW u \in Seq(S), NEW v \in Seq(S)
  PROVE  l \o (u \o v) = (l \o u) \o v
OBVIOUS

\* A function on the first n naturals that recurs on the value before exists.
LEMMA StepsExist ==
  ASSUME NEW A, NEW b \in A, NEW n \in Nat, NEW F \in [A \X (1..n) -> A]
  PROVE  \E h : Recurs(h, A, b, n, F)
<1>1. PICK g : Folding(g, A, b, n, F)
  BY FoldExists
<1> DEFINE h == [i \in 0..n |-> g[1..i]]
<1>2. \A i \in 0..n : 1..i \in SUBSET (1..n)
  OBVIOUS
<1>3. h \in [0..n -> A]
  BY <1>1, <1>2 DEF Folding
<1>4. h[0] = b
  <2>1. 1..0 = {} /\ 0 \in 0..n
    OBVIOUS
  <2> QED BY <1>1, <1>2, <2>1 DEF Folding
<1>5. ASSUME NEW i \in 1..n PROVE h[i] = F[<<h[i - 1], i>>]
  <2>1. i - 1 \in Nat /\ i - 1 \in 0..n /\ i \in 0..n /\ (i - 1) + 1 = i
    OBVIOUS
  <2>2. Max(1..(i - 1) + 1) = (i - 1) + 1 /\ (1..(i - 1) + 1) \ {(i - 1) + 1} = 1..(i - 1)
    BY <2>1, MaxOfInterval
  <2>3. Max(1..i) = i /\ (1..i) \ {i} = 1..(i - 1) /\ 1..i # {}
    BY <2>1, <2>2
  <2>4. g[1..i] = F[<<g[(1..i) \ {Max(1..i)}], Max(1..i)>>]
    BY <1>1, <1>2, <2>1, <2>3 DEF Folding
  <2> QED BY <2>1, <2>3, <2>4
<1> QED BY <1>3, <1>4, <1>5 DEF Recurs

\* h joins the sequences of ss one after the other.
Flattens(h, ss) == h[0] = <<>> /\ \A i \in 1..Len(ss) : h[i] = h[i - 1] \o ss[i]

\* FlattenSeq does.
LEMMA FlatIs ==
  ASSUME NEW X, NEW ss \in Seq(Seq(X))
  PROVE  \E h \in [0..Len(ss) -> Seq(X)] : Flattens(h, ss) /\ FlattenSeq(ss) = h[Len(ss)]
<1> DEFINE n == Len(ss)
           F == [z \in Seq(X) \X (1..n) |-> z[1] \o ss[z[2]]]
           Is(g) == g = [i \in 1..Len(ss) |-> IF i = 1 THEN ss[i] ELSE g[i - 1] \o ss[i]]
           g == CHOOSE k : Is(k)
<1>1. F \in [Seq(X) \X (1..n) -> Seq(X)]
  <2>1. ASSUME NEW z \in Seq(X) \X (1..n) PROVE z[1] \o ss[z[2]] \in Seq(X)
    <3>1. z[1] \in Seq(X) /\ ss[z[2]] \in Seq(X)
      OBVIOUS
    <3> QED BY <3>1
  <2> QED BY <2>1
<1>a. PICK h : Recurs(h, Seq(X), <<>>, n, F)
  <2>1. <<>> \in Seq(X) /\ n \in Nat
    OBVIOUS
  <2> HIDE DEF F, n
  <2> QED BY <1>1, <2>1, StepsExist
<1>2. h \in [0..n -> Seq(X)] /\ h[0] = <<>> /\ \A i \in 1..n : h[i] = F[<<h[i - 1], i>>]
  BY <1>a DEF Recurs
<1>3. \A i \in 1..n : h[i] = h[i - 1] \o ss[i]
  <2> SUFFICES ASSUME NEW i \in 1..n PROVE h[i] = h[i - 1] \o ss[i]
    OBVIOUS
  <2>1. i - 1 \in 0..n
    OBVIOUS
  <2>2. h[i - 1] \in Seq(X)
    BY <1>2, <2>1
  <2>3. <<h[i - 1], i>> \in Seq(X) \X (1..n)
    BY <2>2
  <2> QED BY <1>2, <2>3
<1>4. CASE n = 0
  <2>1. ss = <<>> /\ FlattenSeq(ss) = ss
    BY <1>4 DEF FlattenSeq
  <2> QED BY <1>2, <1>3, <1>4, <2>1 DEF Flattens
<1>f. n # 0 => h[1] = ss[1]
  <2> SUFFICES ASSUME n # 0 PROVE h[1] = ss[1]
    OBVIOUS
  <2>1. 1 \in 1..n /\ 1 - 1 = 0
    OBVIOUS
  <2>2. ss[1] \in Seq(X)
    BY <2>1
  <2> HIDE DEF n
  <2>3. h[1] = h[0] \o ss[1]
    BY <1>3, <2>1
  <2>4. <<>> \o ss[1] = ss[1]
    BY <2>2
  <2> QED BY <1>2, <2>3, <2>4
<1>5. CASE n # 0
  <2>1. FlattenSeq(ss) = g[n]
    BY <1>5 DEF FlattenSeq
  <2>2. \E k : Is(k)
    <3> DEFINE k == [i \in 1..n |-> h[i]]
    <3>1. ASSUME NEW i \in 1..n
          PROVE  k[i] = IF i = 1 THEN ss[i] ELSE k[i - 1] \o ss[i]
      <4>1. CASE i = 1
        <5>0. 1 \in 1..n /\ 1 - 1 = 0
          BY <4>1
        <5>1. k[1] = h[1]
          BY <5>0
        <5> QED BY <1>f, <4>1, <5>1
      <4>2. CASE i # 1
        <5>1. i - 1 \in 1..n
          BY <4>2
        <5> QED BY <1>3, <4>2, <5>1
      <4> QED BY <4>1, <4>2
    <3>2. Is(k)
      BY <3>1
    <3> QED BY <3>2
  <2>3. Is(g)
    BY <2>2
  <2> HIDE DEF g
  <2>4. \A i \in 1..n : g[i] = IF i = 1 THEN ss[i] ELSE g[i - 1] \o ss[i]
    BY <2>3
  <2> DEFINE S == {k \in Nat : k + 1 \in 1..n => g[k + 1] = h[k + 1]}
  <2>5. 0 \in S
    <3>1. 1 \in 1..n /\ 1 - 1 = 0
      BY <1>5
    <3>2. h[1] = ss[1] /\ g[1] = ss[1] /\ 0 + 1 = 1
      BY <1>f, <2>4, <3>1
    <3> QED BY <3>2
  <2>6. ASSUME NEW k \in Nat, k \in S PROVE k + 1 \in S
    <3> SUFFICES ASSUME (k + 1) + 1 \in 1..n PROVE g[(k + 1) + 1] = h[(k + 1) + 1]
      OBVIOUS
    <3>1. k + 1 \in 1..n /\ ((k + 1) + 1) - 1 = k + 1 /\ (k + 1) + 1 # 1
      OBVIOUS
    <3>2. g[k + 1] = h[k + 1]
      BY <2>6, <3>1
    <3>3. g[(k + 1) + 1] = g[k + 1] \o ss[(k + 1) + 1]
      BY <2>4, <3>1
    <3>4. h[(k + 1) + 1] = h[k + 1] \o ss[(k + 1) + 1]
      BY <1>3, <3>1
    <3> QED BY <3>2, <3>3, <3>4
  <2>7. Nat \subseteq S
    <3> HIDE DEF S
    <3> QED BY <2>5, <2>6, Induction
  <2>8. g[n] = h[n]
    <3>1. n - 1 \in Nat /\ (n - 1) + 1 = n /\ n \in 1..n
      BY <1>5
    <3>2. n - 1 \in S
      <4> HIDE DEF S, n
      <4> QED BY <2>7, <3>1
    <3> QED BY <3>1, <3>2
  <2> QED BY <1>2, <1>3, <2>1, <2>8 DEF Flattens
<1> QED BY <1>4, <1>5

\* There is one way to.
LEMMA FlatOnce ==
  ASSUME NEW X, NEW ss \in Seq(Seq(X)), NEW h \in [0..Len(ss) -> Seq(X)], Flattens(h, ss)
  PROVE  FlattenSeq(ss) = h[Len(ss)]
<1>1. PICK k \in [0..Len(ss) -> Seq(X)] : Flattens(k, ss) /\ FlattenSeq(ss) = k[Len(ss)]
  BY FlatIs
<1> DEFINE S == {i \in Nat : i \in 0..Len(ss) => k[i] = h[i]}
<1>2. 0 \in S
  BY <1>1 DEF Flattens
<1>3. ASSUME NEW i \in Nat, i \in S PROVE i + 1 \in S
  <2> SUFFICES ASSUME i + 1 \in 0..Len(ss) PROVE k[i + 1] = h[i + 1]
    OBVIOUS
  <2>1. i \in 0..Len(ss) /\ i + 1 \in 1..Len(ss) /\ (i + 1) - 1 = i
    OBVIOUS
  <2> QED BY <1>1, <1>3, <2>1 DEF Flattens
<1>4. Nat \subseteq S
  <2> HIDE DEF S
  <2> QED BY <1>2, <1>3, Induction
<1>5. Len(ss) \in S
  BY <1>4
<1> QED BY <1>1, <1>5

\* What it yields is a sequence of the same elements.
LEMMA FlatTyped ==
  ASSUME NEW X, NEW ss \in Seq(Seq(X))
  PROVE  FlattenSeq(ss) \in Seq(X)
<1>1. PICK k \in [0..Len(ss) -> Seq(X)] : Flattens(k, ss) /\ FlattenSeq(ss) = k[Len(ss)]
  BY FlatIs
<1> QED BY <1>1

\* Two sequences of sequences joined yield what each yields, joined.
LEMMA FlatJoin ==
  ASSUME NEW X, NEW a \in Seq(Seq(X)), NEW b \in Seq(Seq(X))
  PROVE  FlattenSeq(a \o b) = FlattenSeq(a) \o FlattenSeq(b)
<1> DEFINE m == Len(a)
           n == Len(b)
<1>1. PICK h \in [0..m -> Seq(X)] : Flattens(h, a) /\ FlattenSeq(a) = h[m]
  BY FlatIs
<1>2. PICK k \in [0..n -> Seq(X)] : Flattens(k, b) /\ FlattenSeq(b) = k[n]
  BY FlatIs
<1> DEFINE g == [i \in 0..m + n |-> IF i <= m THEN h[i] ELSE h[m] \o k[i - m]]
<1>3. /\ a \o b \in Seq(Seq(X)) /\ Len(a \o b) = m + n /\ m \in Nat /\ n \in Nat
      /\ \A i \in 1..m : (a \o b)[i] = a[i]
      /\ \A i \in 1..n : (a \o b)[m + i] = b[i]
  BY Joins
<1> HIDE DEF m, n
<1>4. \A i \in 0..m : h[i] \in Seq(X)
  BY <1>1
<1>5. \A i \in 0..n : k[i] \in Seq(X)
  BY <1>2
<1>6. g \in [0..m + n -> Seq(X)]
  <2> SUFFICES ASSUME NEW i \in 0..m + n PROVE g[i] \in Seq(X)
    OBVIOUS
  <2>1. CASE i <= m
    BY <1>3, <1>4, <2>1
  <2>2. CASE ~(i <= m)
    <3>1. i - m \in 0..n /\ m \in 0..m
      BY <1>3, <2>2
    <3>2. h[m] \in Seq(X) /\ k[i - m] \in Seq(X)
      BY <1>4, <1>5, <3>1
    <3> QED BY <2>2, <3>2
  <2> QED BY <2>1, <2>2
<1>7. Flattens(g, a \o b)
  <2>1. g[0] = <<>>
    BY <1>1, <1>3 DEF Flattens
  <2>2. ASSUME NEW i \in 1..m + n PROVE g[i] = g[i - 1] \o (a \o b)[i]
    <3>1. CASE i <= m
      <4>1. i \in 1..m /\ i - 1 \in 0..m /\ i \in 0..m + n /\ i - 1 \in 0..m + n /\ i - 1 <= m
        BY <1>3, <3>1
      <4>2. h[i] = h[i - 1] \o a[i]
        BY <1>1, <4>1 DEF Flattens, m
      <4> QED BY <1>3, <3>1, <4>1, <4>2
    <3>2. CASE i = m + 1
      <4>1. 1 \in 1..n /\ i - m = 1 /\ i - 1 = m /\ m <= m /\ ~(i <= m)
            /\ i \in 0..m + n /\ m \in 0..m + n /\ 1 - 1 = 0
        BY <1>3, <3>2
      <4>2. k[1] = k[0] \o b[1] /\ k[0] = <<>>
        BY <1>2, <4>1 DEF Flattens, n
      <4>a. b[1] \in Seq(X)
        BY <4>1 DEF n
      <4>3. (a \o b)[m + 1] = b[1] /\ b[1] \in Seq(X)
        BY <1>3, <4>1, <4>a
      <4>4. k[1] = b[1]
        BY <4>2, <4>3
      <4>5. g[i] = h[m] \o k[1] /\ g[i - 1] = h[m]
        BY <4>1
      <4> QED BY <3>2, <4>3, <4>4, <4>5
    <3>3. CASE i > m + 1
      <4>1. /\ i - m \in 1..n /\ (i - m) - 1 = (i - 1) - m /\ ~(i <= m) /\ ~(i - 1 <= m)
            /\ i \in 0..m + n /\ i - 1 \in 0..m + n /\ m + (i - m) = i /\ m \in 0..m
            /\ (i - m) - 1 \in 0..n
        BY <1>3, <3>3
      <4>2. k[i - m] = k[(i - m) - 1] \o b[i - m]
        BY <1>2, <4>1 DEF Flattens, n
      <4>3. (a \o b)[i] = b[i - m]
        BY <1>3, <4>1
      <4>4. h[m] \in Seq(X) /\ k[(i - m) - 1] \in Seq(X) /\ b[i - m] \in Seq(X)
        BY <1>4, <1>5, <4>1 DEF n
      <4>5. h[m] \o (k[(i - m) - 1] \o b[i - m]) = (h[m] \o k[(i - m) - 1]) \o b[i - m]
        <5>1. \A u, v, w \in Seq(X) : u \o (v \o w) = (u \o v) \o w
          BY Regroup
        <5> QED BY <4>4, <5>1, Zenon
      <4>6. g[i] = h[m] \o k[i - m] /\ g[i - 1] = h[m] \o k[(i - m) - 1]
        BY <4>1
      <4> QED BY <4>2, <4>3, <4>5, <4>6
    <3>4. i <= m \/ i = m + 1 \/ i > m + 1
      <4>1. m \in Nat /\ n \in Nat
        BY <1>3
      <4> QED BY <4>1
    <3> QED BY <3>1, <3>2, <3>3, <3>4
  <2> QED BY <1>3, <2>1, <2>2 DEF Flattens
<1>8. g[m + n] = h[m] \o k[n]
  <2>1. CASE n = 0
    <3>1. m + n = m /\ m \in 0..m + n /\ m <= m /\ h[m] \in Seq(X) /\ m \in 0..m
      BY <1>3, <1>4, <2>1
    <3>2. k[n] = <<>>
      BY <1>2, <2>1 DEF Flattens
    <3> QED BY <3>1, <3>2
  <2>2. CASE n # 0
    <3>1. ~(m + n <= m) /\ (m + n) - m = n /\ m + n \in 0..m + n
      BY <1>3, <2>2
    <3> QED BY <3>1
  <2> QED BY <2>1, <2>2
<1>9. FlattenSeq(a \o b) = g[m + n]
  <2> HIDE DEF g
  <2> QED BY <1>3, <1>6, <1>7, FlatOnce
<1> QED BY <1>1, <1>2, <1>8, <1>9 DEF m, n

\* It has an element where one of them has it.
LEMMA FlatHas ==
  ASSUME NEW X, NEW ss \in Seq(Seq(X)), NEW x
  PROVE  (\E k \in 1..Len(FlattenSeq(ss)) : FlattenSeq(ss)[k] = x)
           <=> \E i \in 1..Len(ss) : \E j \in 1..Len(ss[i]) : ss[i][j] = x
<1>1. PICK h \in [0..Len(ss) -> Seq(X)] : Flattens(h, ss) /\ FlattenSeq(ss) = h[Len(ss)]
  BY FlatIs
<1> DEFINE In(l) == \E k \in 1..Len(l) : l[k] = x
           S == {n \in Nat : n \in 0..Len(ss) => (In(h[n]) <=> \E i \in 1..n : In(ss[i]))}
<1>2. 0 \in S
  <2>1. h[0] = <<>> /\ 1..0 = {} /\ Len(<<>>) = 0
    BY <1>1 DEF Flattens
  <2> QED BY <2>1
<1>3. ASSUME NEW n \in Nat, n \in S PROVE n + 1 \in S
  <2> HIDE DEF In
  <2> SUFFICES ASSUME n + 1 \in 0..Len(ss)
               PROVE  In(h[n + 1]) <=> \E i \in 1..n + 1 : In(ss[i])
    OBVIOUS
  <2> USE DEF In
  <2>1. n \in 0..Len(ss) /\ n + 1 \in 1..Len(ss) /\ (n + 1) - 1 = n
    OBVIOUS
  <2>2. h[n + 1] = h[n] \o ss[n + 1]
    BY <1>1, <2>1 DEF Flattens
  <2>3. In(h[n]) <=> \E i \in 1..n : In(ss[i])
    BY <1>3, <2>1
  <2>4. h[n] \in Seq(X) /\ ss[n + 1] \in Seq(X)
    BY <1>1, <2>1
  <2>5. In(h[n] \o ss[n + 1]) <=> In(h[n]) \/ In(ss[n + 1])
    <3> DEFINE a == h[n]
               b == ss[n + 1]
               t == a \o b
    <3>0. a \in Seq(X) /\ b \in Seq(X)
      BY <2>4
    <3> HIDE DEF a, b
    <3>1. /\ Len(t) = Len(a) + Len(b) /\ Len(a) \in Nat /\ Len(b) \in Nat
          /\ \A i \in 1..Len(a) : t[i] = a[i]
          /\ \A i \in 1..Len(b) : t[Len(a) + i] = b[i]
      BY <3>0, Joins
    <3> HIDE DEF t
    <3>2. ASSUME In(t) PROVE In(a) \/ In(b)
      <4>1. PICK k \in 1..Len(t) : t[k] = x
        BY <3>2
      <4>2. CASE k <= Len(a)
        <5>1. k \in 1..Len(a) /\ a[k] = x
          BY <3>1, <4>1, <4>2
        <5> QED BY <5>1
      <4>3. CASE ~(k <= Len(a))
        <5>1. k - Len(a) \in 1..Len(b) /\ Len(a) + (k - Len(a)) = k
          BY <3>1, <4>3
        <5>2. b[k - Len(a)] = x
          BY <3>1, <4>1, <5>1
        <5> QED BY <5>1, <5>2
      <4> QED BY <4>2, <4>3
    <3>3. ASSUME In(a) PROVE In(t)
      BY <3>1, <3>3
    <3>4. ASSUME In(b) PROVE In(t)
      <4>1. PICK k \in 1..Len(b) : b[k] = x
        BY <3>4
      <4>2. Len(a) + k \in 1..Len(t) /\ t[Len(a) + k] = x
        BY <3>1, <4>1
      <4> QED BY <4>2
    <3> QED BY <3>2, <3>3, <3>4 DEF a, b, t
  <2>6. 1..n + 1 = 1..n \cup {n + 1}
    OBVIOUS
  <2> HIDE DEF In
  <2> QED BY <2>2, <2>3, <2>5, <2>6
<1>4. Nat \subseteq S
  <2> HIDE DEF S
  <2> QED BY <1>2, <1>3, Induction
<1>5. Len(ss) \in S
  BY <1>4
<1>6. In(h[Len(ss)]) <=> \E i \in 1..Len(ss) : In(ss[i])
  BY <1>5
<1> QED BY <1>1, <1>6
=============================================================================
