------------------------------ MODULE StepFolds ------------------------------
(***************************************************************************)
(* Folds over sequences whose step is an operator.  The induction theorems *)
(* of the library take an operator as a parameter, which no prover can     *)
(* instantiate; an instance of this module names the step, with its        *)
(* parameters, and what is to hold of the partial results.                 *)
(***************************************************************************)
EXTENDS Naturals, Sequences

CONSTANTS
  FoldStep(_, _, _),   \* the step of a fold: parameters, result so far, element
  FoldInv(_, _, _, _)  \* of a partial result: parameters of its own, sequence,
                       \* how many elements, result

\* Induction, which the lemmas take as a hypothesis: to prove it takes modules
\* that an instance would bring along.
Inducts == \A N : 0 \in N /\ (\A i \in Nat : i \in N => i + 1 \in N) => Nat \subseteq N

\* FoldLeft of SequencesExt with this step, its definitions expanded, so that
\* an instance brings nothing else along.
FoldedLeft(p, b, l) ==
  LET iter[s \in SUBSET (DOMAIN l)] ==
        IF s = {} THEN b
        ELSE LET x == CHOOSE x \in s : \A y \in s : x >= y
             IN  FoldStep(p, iter[s \ {x}], l[x])
  IN  iter[DOMAIN l]

Top(s) == CHOOSE x \in s : \A y \in s : x >= y
Bottom(s) == CHOOSE x \in s : \A y \in s : x <= y

LEMMA TopOfInterval ==
  ASSUME NEW k \in Nat
  PROVE  /\ Top(1..k + 1) = k + 1 /\ (1..k + 1) \ {k + 1} = 1..k
         /\ \A T \in SUBSET (1..k + 1) : k + 1 \in T => Top(T) = k + 1 /\ T \ {k + 1} \in SUBSET (1..k)
         /\ \A T \in SUBSET (1..k + 1) : k + 1 \notin T => T \in SUBSET (1..k)
<1>1. ASSUME NEW T \in SUBSET (1..k + 1), k + 1 \in T PROVE Top(T) = k + 1
  <2>1. \A x \in T : x \in Nat /\ k + 1 >= x /\ (x >= k + 1 => x = k + 1)
    OBVIOUS
  <2>2. \A x \in T : (\A y \in T : x >= y) <=> x = k + 1
    BY <1>1, <2>1
  <2>3. Top(T) \in T /\ \A y \in T : Top(T) >= y
    BY <1>1, <2>2 DEF Top
  <2> QED BY <2>2, <2>3
<1>2. k + 1 \in 1..k + 1 /\ (1..k + 1) \ {k + 1} = 1..k
  OBVIOUS
<1>3. \A T \in SUBSET (1..k + 1) : T \ {k + 1} \in SUBSET (1..k)
  BY <1>2
<1> QED BY <1>1, <1>2, <1>3

LEMMA BottomOfInterval ==
  ASSUME NEW k \in Nat, NEW n \in Nat
  PROVE  \A T \in SUBSET (k..n) : k \in T => Bottom(T) = k
<1> SUFFICES ASSUME NEW T \in SUBSET (k..n), k \in T PROVE Bottom(T) = k
  OBVIOUS
<1>1. \A x \in T : x \in Nat /\ k <= x /\ (x <= k => x = k)
  OBVIOUS
<1>2. \A x \in T : (\A y \in T : x <= y) <=> x = k
  BY <1>1
<1>3. Bottom(T) \in T /\ \A y \in T : Bottom(T) <= y
  BY <1>2 DEF Bottom
<1> QED BY <1>2, <1>3

\* The partial results of the fold of the first n elements.
Traces(h, p, b, l, n) ==
  h[0] = b /\ \A i \in 1..n : h[i] = FoldStep(p, h[i - 1], l[i])

\* The fold's recursion over sets of places.
OverSets(g, p, b, l, S) ==
  g = [T \in SUBSET S |-> IF T = {} THEN b ELSE FoldStep(p, g[T \ {Top(T)}], l[Top(T)])]

\* That recursion is sound, whatever its step.
LEMMA OverSetsExists ==
  ASSUME Inducts,
         NEW p, NEW b, NEW l, NEW n \in Nat
  PROVE  \E g : OverSets(g, p, b, l, 1..n)
<1> DEFINE Rec(g, T) == g[T] = IF T = {} THEN b ELSE FoldStep(p, g[T \ {Top(T)}], l[Top(T)])
           P(k) == \E g : g = [T \in SUBSET (1..k) |-> g[T]] /\ \A T \in SUBSET (1..k) : Rec(g, T)
           S == {k \in Nat : P(k)}
<1>1. P(0)
  <2> DEFINE g == [T \in SUBSET (1..0) |-> b]
  <2>1. SUBSET (1..0) = {{}}
    OBVIOUS
  <2>2. g = [T \in SUBSET (1..0) |-> g[T]]
    OBVIOUS
  <2>3. \A T \in SUBSET (1..0) : Rec(g, T)
    BY <2>1
  <2> QED BY <2>2, <2>3
<1>2. ASSUME NEW k \in Nat, P(k) PROVE P(k + 1)
  <2>2. PICK g : \A T \in SUBSET (1..k) : Rec(g, T)
    BY <1>2
  <2> DEFINE h == [T \in SUBSET (1..k + 1) |->
                    IF k + 1 \in T THEN FoldStep(p, g[T \ {k + 1}], l[k + 1]) ELSE g[T]]
  <2>3. h = [T \in SUBSET (1..k + 1) |-> h[T]]
    OBVIOUS
  <2>4. \A T \in SUBSET (1..k) : h[T] = g[T]
    <3>1. k + 1 \notin 1..k /\ 1..k \subseteq 1..k + 1
      OBVIOUS
    <3> QED BY <3>1
  <2>5. \A T \in SUBSET (1..k + 1) : k + 1 \in T => h[T] = FoldStep(p, g[T \ {k + 1}], l[k + 1])
    OBVIOUS
  <2> HIDE DEF h
  <2>6. ASSUME NEW T \in SUBSET (1..k + 1) PROVE Rec(h, T)
    <3>1. CASE k + 1 \in T
      <4>1. Top(T) = k + 1 /\ T \ {k + 1} \in SUBSET (1..k) /\ T # {}
        BY <3>1, TopOfInterval
      <4> QED BY <2>4, <2>5, <3>1, <4>1
    <3>2. CASE k + 1 \notin T
      <4>1. T \in SUBSET (1..k)
        BY <3>2, TopOfInterval
      <4>2. T # {} => T \ {Top(T)} \in SUBSET (1..k)
        BY <4>1
      <4>3. Rec(g, T)
        BY <2>2, <4>1
      <4> QED BY <2>4, <4>1, <4>2, <4>3
    <3> QED BY <3>1, <3>2
  <2> QED BY <2>3, <2>6
<1> HIDE DEF P
<1>3. Nat \subseteq S
  <2>1. 0 \in S /\ \A k \in Nat : k \in S => k + 1 \in S
    BY <1>1, <1>2
  <2> HIDE DEF S
  <2> QED BY <2>1 DEF Inducts
<1>4. P(n)
  BY <1>3
<1>5. PICK g : g = [T \in SUBSET (1..n) |-> g[T]] /\ \A T \in SUBSET (1..n) : Rec(g, T)
  BY <1>4 DEF P
<1>6. g = [T \in SUBSET (1..n) |->
             IF T = {} THEN b ELSE FoldStep(p, g[T \ {Top(T)}], l[Top(T)])]
  <2>1. \A T \in SUBSET (1..n) : Rec(g, T)
    BY <1>5
  <2>2. [T \in SUBSET (1..n) |-> g[T]]
          = [T \in SUBSET (1..n) |->
               IF T = {} THEN b ELSE FoldStep(p, g[T \ {Top(T)}], l[Top(T)])]
    BY <2>1
  <2> QED BY <1>5, <2>2
<1> QED BY <1>6 DEF OverSets

\* A fold has partial results, and is the last of them.
LEMMA FoldTrace ==
  ASSUME Inducts,
         NEW p, NEW b, NEW l, NEW n \in Nat, DOMAIN l = 1..n
  PROVE  \E h : Traces(h, p, b, l, n) /\ FoldedLeft(p, b, l) = h[n]
<1> DEFINE g == CHOOSE k : OverSets(k, p, b, l, DOMAIN l)
           h == [i \in 0..n |-> g[1..i]]
<1>1. FoldedLeft(p, b, l) = g[DOMAIN l]
  BY DEF FoldedLeft, Top, OverSets
<1>2. g = [T \in SUBSET (DOMAIN l) |->
             IF T = {} THEN b ELSE FoldStep(p, g[T \ {Top(T)}], l[Top(T)])]
  <2>1. \E k : OverSets(k, p, b, l, DOMAIN l)
    BY OverSetsExists
  <2>2. OverSets(g, p, b, l, DOMAIN l)
    BY <2>1
  <2> HIDE DEF g
  <2> QED BY <2>2 DEF OverSets
<1> HIDE DEF g
<1>3. h[0] = b
  <2>1. 1..0 = {} /\ {} \in SUBSET (DOMAIN l) /\ 0 \in 0..n
    OBVIOUS
  <2> QED BY <1>2, <2>1
<1>4. ASSUME NEW i \in 1..n PROVE h[i] = FoldStep(p, h[i - 1], l[i])
  <2>1. i - 1 \in Nat /\ i - 1 \in 0..n /\ i \in 0..n /\ (i - 1) + 1 = i
    OBVIOUS
  <2>2. Top(1..(i - 1) + 1) = (i - 1) + 1 /\ (1..(i - 1) + 1) \ {(i - 1) + 1} = 1..(i - 1)
    BY <2>1, TopOfInterval
  <2>3. Top(1..i) = i /\ (1..i) \ {i} = 1..(i - 1) /\ 1..i # {} /\ 1..i \in SUBSET (DOMAIN l)
    BY <2>1, <2>2
  <2> QED BY <1>2, <2>1, <2>3
<1>5. n \in 0..n
  OBVIOUS
<1>6. Traces(h, p, b, l, n)
  BY <1>3, <1>4 DEF Traces
<1> QED BY <1>1, <1>5, <1>6

\* There is no other.
LEMMA FoldLast ==
  ASSUME Inducts,
         NEW p, NEW b, NEW l, NEW n \in Nat, DOMAIN l = 1..n, NEW h,
         Traces(h, p, b, l, n)
  PROVE  FoldedLeft(p, b, l) = h[n]
<1>1. PICK k : Traces(k, p, b, l, n) /\ FoldedLeft(p, b, l) = k[n]
  BY FoldTrace
<1> DEFINE S == {i \in Nat : i <= n => h[i] = k[i]}
<1>2. 0 \in S
  BY <1>1 DEF Traces
<1>3. ASSUME NEW i \in Nat, i \in S PROVE i + 1 \in S
  <2> SUFFICES ASSUME i + 1 <= n PROVE h[i + 1] = k[i + 1]
    OBVIOUS
  <2>1. i + 1 \in 1..n /\ (i + 1) - 1 = i /\ i <= n
    OBVIOUS
  <2> QED BY <1>1, <1>3, <2>1 DEF Traces
<1>4. Nat \subseteq S
  <2> HIDE DEF S
  <2> QED BY <1>2, <1>3 DEF Inducts
<1>5. n \in S
  BY <1>4
<1> QED BY <1>1, <1>5

\* Of no elements, and of one more.
LEMMA FoldOne ==
  ASSUME Inducts,
         NEW p, NEW b, NEW S, NEW l \in Seq(S), NEW x \in S
  PROVE  /\ FoldedLeft(p, b, <<>>) = b
         /\ FoldedLeft(p, b, Append(l, x)) = FoldStep(p, FoldedLeft(p, b, l), x)
<1>1. FoldedLeft(p, b, <<>>) = b
  <2> DEFINE h == [i \in {0} |-> b]
  <2>1. DOMAIN <<>> = 1..0 /\ h[0] = b /\ 0 \in Nat /\ 1..0 = {}
    OBVIOUS
  <2>2. Traces(h, p, b, <<>>, 0)
    BY <2>1 DEF Traces
  <2> QED BY <2>1, <2>2, FoldLast
<1> DEFINE n == Len(l)
           u == Append(l, x)
<1>2. /\ n \in Nat /\ DOMAIN l = 1..n /\ DOMAIN u = 1..n + 1 /\ u[n + 1] = x
      /\ \A i \in 1..n : u[i] = l[i]
  OBVIOUS
<1> HIDE DEF n, u
<1>3. PICK h : Traces(h, p, b, u, n + 1) /\ FoldedLeft(p, b, u) = h[n + 1]
  <2>1. n + 1 \in Nat
    BY <1>2
  <2> QED BY <1>2, <2>1, FoldTrace
<1>4. Traces(h, p, b, l, n)
  <2>1. \A i \in 1..n : i \in 1..n + 1
    BY <1>2
  <2> QED BY <1>2, <1>3, <2>1 DEF Traces
<1>5. FoldedLeft(p, b, l) = h[n]
  BY <1>2, <1>4, FoldLast
<1>6. n + 1 \in 1..n + 1 /\ (n + 1) - 1 = n
  BY <1>2
<1>7. h[n + 1] = FoldStep(p, h[n], x)
  BY <1>2, <1>3, <1>6 DEF Traces
<1> QED BY <1>1, <1>3, <1>5, <1>7 DEF u

\* Of two sequences joined: the second goes on from where the first led.
LEMMA FoldJoin ==
  ASSUME Inducts,
         NEW p, NEW b, NEW S, NEW l \in Seq(S), NEW u \in Seq(S)
  PROVE  FoldedLeft(p, b, l \o u) = FoldedLeft(p, FoldedLeft(p, b, l), u)
<1> DEFINE m == Len(l)
           n == Len(u)
           t == l \o u
<1>1. /\ DOMAIN l = 1..m /\ DOMAIN u = 1..n /\ DOMAIN t = 1..m + n /\ m \in Nat /\ n \in Nat
      /\ \A i \in 1..m : t[i] = l[i]
      /\ \A i \in 1..n : t[m + i] = u[i]
  <2>1. /\ t \in Seq(S) /\ Len(t) = m + n /\ m \in Nat /\ n \in Nat
        /\ \A i \in 1..m : t[i] = l[i]
        /\ \A i \in 1..n : t[m + i] = u[i]
    OBVIOUS
  <2> HIDE DEF t
  <2> QED BY <2>1
<1> HIDE DEF m, n, t
<1>2. PICK h : Traces(h, p, b, t, m + n) /\ FoldedLeft(p, b, t) = h[m + n]
  <2>1. m + n \in Nat
    BY <1>1
  <2> QED BY <1>1, <2>1, FoldTrace
<1>3. FoldedLeft(p, b, l) = h[m]
  <2>1. Traces(h, p, b, l, m)
    <3>1. \A i \in 1..m : i \in 1..m + n
      BY <1>1
    <3> QED BY <1>1, <1>2, <3>1 DEF Traces
  <2> QED BY <1>1, <2>1, FoldLast
<1> DEFINE k == [i \in 0..n |-> h[m + i]]
<1>4. k[0] = h[m] /\ k[n] = h[m + n]
  <2>1. 0 \in 0..n /\ n \in 0..n /\ m + 0 = m
    BY <1>1
  <2> QED BY <2>1
<1>5. ASSUME NEW i \in 1..n PROVE k[i] = FoldStep(p, k[i - 1], u[i])
  <2>1. i \in 0..n /\ i - 1 \in 0..n /\ m + i \in 1..m + n /\ (m + i) - 1 = m + (i - 1)
    BY <1>1
  <2> QED BY <1>1, <1>2, <2>1 DEF Traces
<1> HIDE DEF k
<1>6. FoldedLeft(p, h[m], u) = k[n]
  <2>1. Traces(k, p, h[m], u, n)
    BY <1>4, <1>5 DEF Traces
  <2> QED BY <1>1, <2>1, FoldLast
<1> QED BY <1>2, <1>3, <1>4, <1>6 DEF t

\* What holds at first, and after a step if before it, holds of every
\* partial result, and of the fold.
LEMMA TraceHolds ==
  ASSUME Inducts,
         NEW p, NEW q, NEW b, NEW l, NEW n \in Nat, NEW h, Traces(h, p, b, l, n),
         FoldInv(q, l, 0, b),
         \A i \in 1..n : \A x : FoldInv(q, l, i - 1, x) => FoldInv(q, l, i, FoldStep(p, x, l[i]))
  PROVE  \A i \in 0..n : FoldInv(q, l, i, h[i])
<1> DEFINE S == {i \in Nat : i <= n => FoldInv(q, l, i, h[i])}
<1>1. 0 \in S
  BY DEF Traces
<1>2. ASSUME NEW i \in Nat, i \in S PROVE i + 1 \in S
  <2> SUFFICES ASSUME i + 1 <= n PROVE FoldInv(q, l, i + 1, h[i + 1])
    OBVIOUS
  <2>1. i + 1 \in 1..n /\ (i + 1) - 1 = i /\ i <= n
    OBVIOUS
  <2>2. h[i + 1] = FoldStep(p, h[i], l[i + 1])
    BY <2>1 DEF Traces
  <2>3. FoldInv(q, l, i, h[i])
    BY <1>2, <2>1
  <2> QED BY <2>1, <2>2, <2>3
<1>3. Nat \subseteq S
  <2> HIDE DEF S
  <2> QED BY <1>1, <1>2 DEF Inducts
<1> QED BY <1>3

LEMMA FoldHolds ==
  ASSUME Inducts,
         NEW p, NEW q, NEW b, NEW l, NEW n \in Nat, DOMAIN l = 1..n,
         FoldInv(q, l, 0, b),
         \A i \in 1..n : \A x : FoldInv(q, l, i - 1, x) => FoldInv(q, l, i, FoldStep(p, x, l[i]))
  PROVE  FoldInv(q, l, n, FoldedLeft(p, b, l))
<1>1. PICK h : Traces(h, p, b, l, n) /\ FoldedLeft(p, b, l) = h[n]
  BY FoldTrace
<1>2. n \in 0..n
  OBVIOUS
<1>3. \A i \in 0..n : FoldInv(q, l, i, h[i])
  BY <1>1, TraceHolds
<1> QED BY <1>1, <1>2, <1>3

-----------------------------------------------------------------------------
(* Folds from the right.                                                   *)

\* FoldRight, likewise.
FoldedRight(p, b, l) ==
  LET iter[s \in SUBSET (DOMAIN l)] ==
        IF s = {} THEN b
        ELSE LET x == CHOOSE x \in s : \A y \in s : x <= y
             IN  FoldStep(p, iter[s \ {x}], l[x])
  IN  iter[DOMAIN l]

\* The partial results: of the elements after the i-th.
TracesRight(h, p, b, l, n) ==
  h[n] = b /\ \A i \in 1..n : h[i - 1] = FoldStep(p, h[i], l[i])

\* The fold's recursion over sets of places.
OverRight(g, p, b, l, S) ==
  g = [T \in SUBSET S |-> IF T = {} THEN b ELSE FoldStep(p, g[T \ {Bottom(T)}], l[Bottom(T)])]

LEMMA OverRightExists ==
  ASSUME Inducts,
         NEW p, NEW b, NEW l, NEW n \in Nat
  PROVE  \E g : OverRight(g, p, b, l, 1..n)
<1> DEFINE Rec(g, T) == g[T] = IF T = {} THEN b ELSE FoldStep(p, g[T \ {Bottom(T)}], l[Bottom(T)])
           P(k) == \E g : g = [T \in SUBSET (k..n) |-> g[T]] /\ \A T \in SUBSET (k..n) : Rec(g, T)
           S == {k \in Nat : k <= n => P((n + 1) - k)}
<1>1. P(n + 1)
  <2> DEFINE g == [T \in SUBSET (n + 1..n) |-> b]
  <2>1. SUBSET (n + 1..n) = {{}}
    OBVIOUS
  <2>2. g = [T \in SUBSET (n + 1..n) |-> g[T]]
    OBVIOUS
  <2>3. \A T \in SUBSET (n + 1..n) : Rec(g, T)
    BY <2>1
  <2> QED BY <2>2, <2>3
<1>2. ASSUME NEW k \in 1..n, P(k + 1) PROVE P(k)
  <2>1. PICK g : \A T \in SUBSET (k + 1..n) : Rec(g, T)
    BY <1>2
  <2> DEFINE h == [T \in SUBSET (k..n) |->
                    IF k \in T THEN FoldStep(p, g[T \ {k}], l[k]) ELSE g[T]]
  <2>2. h = [T \in SUBSET (k..n) |-> h[T]]
    OBVIOUS
  <2>3. \A T \in SUBSET (k + 1..n) : h[T] = g[T]
    <3>1. k \notin k + 1..n /\ k + 1..n \subseteq k..n
      OBVIOUS
    <3> QED BY <3>1
  <2>4. \A T \in SUBSET (k..n) : k \in T => h[T] = FoldStep(p, g[T \ {k}], l[k])
    OBVIOUS
  <2> HIDE DEF h
  <2>5. \A T \in SUBSET (k..n) :
          /\ T \ {k} \in SUBSET (k + 1..n)
          /\ k \notin T => T \in SUBSET (k + 1..n)
    <3>1. \A x \in k..n : x # k => x \in k + 1..n
      OBVIOUS
    <3> QED BY <3>1
  <2>6. ASSUME NEW T \in SUBSET (k..n) PROVE Rec(h, T)
    <3>1. CASE k \in T
      <4>1. Bottom(T) = k /\ T # {}
        <5>1. k \in Nat
          OBVIOUS
        <5> QED BY <3>1, <5>1, BottomOfInterval
      <4> QED BY <2>3, <2>4, <2>5, <3>1, <4>1
    <3>2. CASE k \notin T
      <4>1. T \in SUBSET (k + 1..n) /\ T \ {Bottom(T)} \in SUBSET (k + 1..n)
        BY <2>5, <3>2
      <4>2. Rec(g, T)
        BY <2>1, <4>1
      <4> QED BY <2>3, <4>1, <4>2
    <3> QED BY <3>1, <3>2
  <2> QED BY <2>2, <2>6
<1> HIDE DEF P
<1>3. Nat \subseteq S
  <2>1. 0 \in S
    BY <1>1
  <2>2. ASSUME NEW k \in Nat, k \in S PROVE k + 1 \in S
    <3> SUFFICES ASSUME k + 1 <= n PROVE P((n + 1) - (k + 1))
      OBVIOUS
    <3>1. (n + 1) - (k + 1) \in 1..n /\ ((n + 1) - (k + 1)) + 1 = (n + 1) - k /\ k <= n
      OBVIOUS
    <3>2. P((n + 1) - k)
      BY <2>2, <3>1
    <3> QED BY <1>2, <3>1, <3>2
  <2> HIDE DEF S
  <2> QED BY <2>1, <2>2 DEF Inducts
<1>4. P(1)
  <2>1. n \in S /\ (n + 1) - n = 1
    BY <1>3
  <2> QED BY <2>1
<1>5. PICK g : g = [T \in SUBSET (1..n) |-> g[T]] /\ \A T \in SUBSET (1..n) : Rec(g, T)
  BY <1>4 DEF P
<1>6. [T \in SUBSET (1..n) |-> g[T]]
        = [T \in SUBSET (1..n) |->
             IF T = {} THEN b ELSE FoldStep(p, g[T \ {Bottom(T)}], l[Bottom(T)])]
  BY <1>5
<1> QED BY <1>5, <1>6 DEF OverRight

LEMMA FoldRightTrace ==
  ASSUME Inducts,
         NEW p, NEW b, NEW l, NEW n \in Nat, DOMAIN l = 1..n
  PROVE  \E h : TracesRight(h, p, b, l, n) /\ FoldedRight(p, b, l) = h[0]
<1> DEFINE g == CHOOSE k : OverRight(k, p, b, l, DOMAIN l)
           h == [i \in 0..n |-> g[i + 1..n]]
<1>1. FoldedRight(p, b, l) = g[DOMAIN l]
  BY DEF FoldedRight, Bottom, OverRight
<1>2. g = [T \in SUBSET (DOMAIN l) |->
             IF T = {} THEN b ELSE FoldStep(p, g[T \ {Bottom(T)}], l[Bottom(T)])]
  <2>1. \E k : OverRight(k, p, b, l, DOMAIN l)
    BY OverRightExists
  <2>2. OverRight(g, p, b, l, DOMAIN l)
    BY <2>1
  <2> HIDE DEF g
  <2> QED BY <2>2 DEF OverRight
<1> HIDE DEF g
<1>3. h[n] = b
  <2>1. n + 1..n = {} /\ {} \in SUBSET (DOMAIN l) /\ n \in 0..n
    OBVIOUS
  <2> QED BY <1>2, <2>1
<1>4. ASSUME NEW i \in 1..n PROVE h[i - 1] = FoldStep(p, h[i], l[i])
  <2>1. i - 1 \in 0..n /\ i \in 0..n /\ (i - 1) + 1 = i
    OBVIOUS
  <2>2. i \in i..n /\ i..n \subseteq Nat /\ (\A x \in i..n : i <= x) /\ i..n \in SUBSET (1..n)
    OBVIOUS
  <2>3. Bottom(i..n) = i
    BY <2>2, BottomOfInterval
  <2>4. Bottom(i..n) = i /\ (i..n) \ {i} = i + 1..n /\ i..n # {} /\ i..n \in SUBSET (DOMAIN l)
    BY <2>2, <2>3
  <2> QED BY <1>2, <2>1, <2>4
<1>5. 0 \in 0..n /\ 0 + 1..n = DOMAIN l
  OBVIOUS
<1>6. TracesRight(h, p, b, l, n)
  BY <1>3, <1>4 DEF TracesRight
<1> QED BY <1>1, <1>5, <1>6

\* What holds at first, and before an element if after it, holds of the fold.
LEMMA FoldRightHolds ==
  ASSUME Inducts,
         NEW p, NEW q, NEW b, NEW l, NEW n \in Nat, DOMAIN l = 1..n,
         FoldInv(q, l, n, b),
         \A i \in 1..n : \A x : FoldInv(q, l, i, x) => FoldInv(q, l, i - 1, FoldStep(p, x, l[i]))
  PROVE  FoldInv(q, l, 0, FoldedRight(p, b, l))
<1>1. PICK h : TracesRight(h, p, b, l, n) /\ FoldedRight(p, b, l) = h[0]
  BY FoldRightTrace
<1> DEFINE S == {i \in Nat : i <= n => FoldInv(q, l, n - i, h[n - i])}
<1>2. 0 \in S
  BY <1>1 DEF TracesRight
<1>3. ASSUME NEW i \in Nat, i \in S PROVE i + 1 \in S
  <2> SUFFICES ASSUME i + 1 <= n PROVE FoldInv(q, l, n - (i + 1), h[n - (i + 1)])
    OBVIOUS
  <2>1. n - i \in 1..n /\ (n - i) - 1 = n - (i + 1) /\ i <= n
    OBVIOUS
  <2>2. h[(n - i) - 1] = FoldStep(p, h[n - i], l[n - i])
    BY <1>1, <2>1 DEF TracesRight
  <2>3. FoldInv(q, l, n - i, h[n - i])
    BY <1>3, <2>1
  <2>4. FoldInv(q, l, (n - i) - 1, h[(n - i) - 1])
    BY <2>1, <2>2, <2>3
  <2> QED BY <2>1, <2>4
<1>4. Nat \subseteq S
  <2> HIDE DEF S
  <2> QED BY <1>2, <1>3 DEF Inducts
<1>5. n \in S /\ n - n = 0
  BY <1>4
<1> QED BY <1>1, <1>5
=============================================================================
