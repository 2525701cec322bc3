---------------------------- MODULE LineageProofs ----------------------------
(***************************************************************************)
(* Proofs about Lineage, for any forks, files, texts and bounds: the       *)
(* lineage the walk puts together is one history, and every point of it    *)
(* can be materialized.                                                    *)
(***************************************************************************)
EXTENDS Lineage, ForkUnionProofs, FiniteSetTheorems

-----------------------------------------------------------------------------
(* The logs.                                                               *)

\* While no anchor has moved, each log leads on from its fork's anchor.
Unmoved == moved = {} => \A f \in Existing : Led(log[f], anchor[f])

LineageInv == UnionInv /\ Unmoved

\* Lines added to a fork lead on from its anchor.
LEMMA UnmovedGrows ==
  ASSUME LineageInv, NEW f \in Forks, Grown(f), moved' = moved
  PROVE  Unmoved'
<1>1. PICK u \in Seq(Line) :
        /\ f \in Existing /\ Led(u, State(f))
        /\ log' = [log EXCEPT ![f] = log[f] \o u] /\ anchor' = anchor
  BY DEF Grown
<1>2. /\ log[f] \in Seq(Line) /\ State(f) = Tip(log[f], anchor[f])
      /\ log' [f] = log[f] \o u /\ \A g \in Forks \ {f} : log'[g] = log[g]
  BY <1>1, StateIs DEF LineageInv, UnionInv, Typed
<1>3. Existing' = Existing /\ Existing \subseteq Forks
  BY <1>1 DEF Existing
<1>4. SUFFICES ASSUME moved = {}, NEW g \in Existing PROVE Led(log'[g], anchor[g])
  BY <1>1, <1>3 DEF Unmoved
<1>5. Led(log[g], anchor[g])
  BY <1>4 DEF LineageInv, Unmoved
<1>6. CASE g = f
  <2>1. Led(log[f] \o u, anchor[f])
    BY <1>1, <1>2, <1>5, <1>6, LedMore
  <2> QED BY <1>2, <1>6, <2>1
<1>7. CASE g # f
  BY <1>2, <1>3, <1>5, <1>7
<1> QED BY <1>6, <1>7

\* No lines lead on from anywhere.
LEMMA LedNone == \A m : Led(<<>>, m) /\ Chained(<<>>, m)
<1>1. 1..Len(<<>>) = {} /\ 2..Len(<<>>) = {}
  BY SMT
<1> QED BY <1>1 DEF Led, Chained

\* An import anchors Main at a tree and logs a line that changes nothing.
LEMMA ImportIs ==
  ASSUME NEW m \in Manifest
  PROVE  LET l == <<ImportLine(m)>>
         IN  l \in Seq(Line) /\ Marked(Main, l) /\ Followed(l) /\ Led(l, m) /\ Chained(l, m)
<1> DEFINE x == ImportLine(m)
           l == <<x>>
<1>1. x \in Line /\ x.id = LineId(Main, 1) /\ x.origin = NoOrigin /\ x.fuse = NoFuse
      /\ x.delta = {} /\ x.after = m
  <2>1. NoIntent \in Intents /\ NoReads \in Reads /\ 1 \in Nat
    BY DEF Intents, NoIntent, Reads, NoReads
  <2> QED BY <2>1, Ids, ForkAssumption DEF ImportLine, Line
<1> HIDE DEF x
<1>2. l \in Seq(Line) /\ Len(l) = 1 /\ l[1] = x /\ 1..1 = {1} /\ 2..1 = {} /\ l # <<>>
  BY <1>1
<1> HIDE DEF l
<1>3. Follows(x, m)
  <2>1. Result(m, {}) = m
    BY DEF Result, Manifest
  <2> QED BY <1>1, <2>1 DEF Follows, Applies
<1>4. Marked(Main, l) /\ Followed(l)
  BY <1>1, <1>2 DEF Marked, Came, FuseOnly, Followed
<1>5. Led(l, m) /\ Chained(l, m)
  BY <1>2, <1>3 DEF Led, Before, Chained
<1> QED BY <1>2, <1>4, <1>5 DEF l, x

\* It holds of an empty repository, and of an imported one.
LEMMA LineageStarts == LineageInit => LineageInv
<1> SUFFICES ASSUME LineageInit PROVE LineageInv
  OBVIOUS
<1>1. PICK m \in {EmptyManifest} \cup Imported :
        /\ anchor = [f \in Forks |-> IF f = Main THEN m ELSE NoFork]
        /\ log = [f \in Forks |->
                    IF f = Main /\ m # EmptyManifest THEN <<ImportLine(m)>> ELSE <<>>]
  BY DEF LineageInit
<1>2. m \in Manifest /\ m # NoFork
  BY LineageAssumption, ForkAssumption DEF EmptyManifest, Manifest
<1>3. \A f : <<>> \in Seq(Line) /\ Marked(f, <<>>) /\ Followed(<<>>)
  <2>1. 1..Len(<<>>) = {} /\ <<>> \in Seq(Line)
    BY SMT
  <2> QED BY <2>1 DEF Marked, Followed
<1> DEFINE l == IF m # EmptyManifest THEN <<ImportLine(m)>> ELSE <<>>
<1>4. l \in Seq(Line) /\ Marked(Main, l) /\ Followed(l) /\ Led(l, m) /\ Chained(l, m)
  BY <1>2, <1>3, ImportIs, LedNone
<1>5. log[Main] = l /\ anchor[Main] = m /\ Main \in Forks
      /\ \A f \in Forks \ {Main} : log[f] = <<>> /\ anchor[f] = NoFork
  BY <1>1, ForkAssumption
<1> HIDE DEF l
<1>6. Typed
  <2>1. \A f \in Forks : log[f] \in Seq(Line) /\ anchor[f] \in Manifest \cup {NoFork}
    BY <1>2, <1>3, <1>4, <1>5
  <2>2. log = [f \in Forks |-> log[f]] /\ anchor = [f \in Forks |-> anchor[f]]
    BY <1>1
  <2> QED BY <2>1, <2>2 DEF Typed
<1>7. \A f \in Forks : LogInv(f)
  BY <1>2, <1>3, <1>4, <1>5 DEF LogInv
<1>8. Unmoved
  BY <1>4, <1>5 DEF Unmoved, Existing
<1> QED BY <1>6, <1>7, <1>8 DEF LineageInv, UnionInv

\* A removed fork has no anchor and no log.
LEMMA RemoveKeeps ==
  ASSUME LineageInv, NEW n \in Forks, NEW force, RemoveFork(n, force)
  PROVE  LineageInv'
<1>1. /\ anchor' = [anchor EXCEPT ![n] = NoFork] /\ log' = [log EXCEPT ![n] = <<>>]
      /\ moved' = moved
  BY DEF RemoveFork
<1>2. anchor \in [Forks -> Manifest \cup {NoFork}] /\ log \in [Forks -> Seq(Line)]
  BY DEF LineageInv, UnionInv, Typed
<1>3. /\ anchor'[n] = NoFork /\ log'[n] = <<>>
      /\ \A g \in Forks \ {n} : anchor'[g] = anchor[g] /\ log'[g] = log[g]
  BY <1>1, <1>2
<1>4. <<>> \in Seq(Line) /\ Marked(n, <<>>) /\ Followed(<<>>)
  <2>1. 1..Len(<<>>) = {} /\ <<>> \in Seq(Line)
    BY SMT
  <2> QED BY <2>1 DEF Marked, Followed
<1>5. Typed'
  BY <1>1, <1>2, <1>4 DEF Typed
<1>6. ASSUME NEW g \in Forks PROVE LogInv(g)'
  <2>1. CASE g = n
    BY <1>3, <1>4, <2>1 DEF LogInv
  <2>2. CASE g # n
    BY <1>3, <2>2 DEF LogInv, LineageInv, UnionInv
  <2> QED BY <2>1, <2>2
<1>7. Existing' \subseteq Existing \ {n} /\ Existing \subseteq Forks
  BY <1>3 DEF Existing
<1>8. Unmoved'
  BY <1>1, <1>3, <1>7 DEF Unmoved, LineageInv
<1> QED BY <1>5, <1>6, <1>8 DEF LineageInv, UnionInv

\* A new fork's log is empty.
LEMMA CreateUnmoved ==
  ASSUME LineageInv, NEW n \in Forks, NEW from \in Forks, CreateFork(n, from), moved' = moved
  PROVE  Unmoved'
<1>1. /\ from \in Existing /\ n \notin Existing
      /\ anchor' = [anchor EXCEPT ![n] = State(from)] /\ log' = log
  BY DEF CreateFork
<1>2. log[n] = <<>> /\ Existing' \subseteq Existing \cup {n} /\ Existing \subseteq Forks
      /\ \A g \in Existing : anchor'[g] = anchor[g]
  BY <1>1 DEF LineageInv, UnionInv, LogInv, Typed, Existing
<1>3. SUFFICES ASSUME moved = {}, NEW g \in Existing' PROVE Led(log[g], anchor'[g])
  BY <1>1 DEF Unmoved
<1>4. CASE g = n
  BY <1>2, <1>4, LedNone
<1>5. CASE g # n
  BY <1>2, <1>3, <1>5 DEF LineageInv, Unmoved
<1> QED BY <1>4, <1>5

\* Every command keeps the invariant.
LEMMA LineageKeeps == LineageInv /\ [LineageNext]_<<vars, lineageVars>> => LineageInv'
<1> SUFFICES ASSUME LineageInv, [LineageNext]_<<vars, lineageVars>> PROVE LineageInv'
  OBVIOUS
<1>0. UnionInv /\ \A f \in Existing : f \in Forks
  BY DEF LineageInv, Existing
<1>1. CASE UNCHANGED <<vars, lineageVars>>
  BY <1>1 DEF vars, lineageVars, LineageInv, UnionInv, Unmoved, Typed, LogInv, Existing, Led,
              Before
<1>2. ASSUME NEW f \in Existing, NEW i \in IntentsAt(State(f)), Apply(f, i, NoReads),
             UNCHANGED lineageVars
      PROVE  LineageInv'
  <2>1. i \in Intents /\ NoReads \in Reads
    BY <1>0, StateIs, AskedTypes DEF Reads, NoReads
  <2>2. UnionInv' /\ Grown(f)
    BY <1>0, <1>2, <2>1, ApplyKeeps
  <2> QED BY <1>0, <1>2, <2>2, UnmovedGrows DEF LineageInv, lineageVars
<1>3. ASSUME NEW f \in Existing, NEW m \in History(f), Repoint(f, m), UNCHANGED lineageVars
      PROVE  LineageInv'
  <2>1. UnionInv' /\ Grown(f)
    BY <1>0, <1>3, RepointKeeps
  <2> QED BY <1>0, <1>3, <2>1, UnmovedGrows DEF LineageInv, lineageVars
<1>4. ASSUME NEW f \in Existing, NEW a \in 1..Len(log[f]), NEW b \in 1..Len(log[f]),
             FuseSpan(f, a, b), UNCHANGED lineageVars
      PROVE  LineageInv'
  <2>1. UnionInv' /\ Grown(f)
    BY <1>0, <1>4, FuseKeeps
  <2> QED BY <1>0, <1>4, <2>1, UnmovedGrows DEF LineageInv, lineageVars
<1>5. ASSUME NEW n \in Forks, NEW from \in Bases, CreateFork(n, from), UNCHANGED lineageVars
      PROVE  LineageInv'
  BY <1>0, <1>5, CreateKeeps, CreateUnmoved, ForkAssumption DEF LineageInv, lineageVars
<1>6. ASSUME NEW s \in Existing, NEW t \in Targets, Union(s, t), UNCHANGED lineageVars
      PROVE  LineageInv'
  <2>1. t \in Forks /\ s \in Forks
    BY <1>0, ForkAssumption
  <2>2. UnionInv' /\ Grown(t)
    BY <1>0, <1>6, <2>1, UnionKeeps
  <2> QED BY <1>6, <2>1, <2>2, UnmovedGrows DEF LineageInv, lineageVars
<1>7. ASSUME NEW f \in Existing, Snapshot(f), moved' = moved \cup {f} PROVE LineageInv'
  <2>1. UnionInv'
    BY <1>0, <1>7, SnapshotKeeps
  <2> QED BY <1>7, <2>1 DEF LineageInv, Unmoved
<1>8. ASSUME NEW n \in Forks, NEW force, RemoveFork(n, force) PROVE LineageInv'
  BY <1>8, RemoveKeeps
<1> QED BY <1>1, <1>2, <1>3, <1>4, <1>5, <1>6, <1>7, <1>8 DEF LineageNext

-----------------------------------------------------------------------------
(* The walk from fork to parent.                                           *)

\* First is one of the forks, when there is one.
LEMMA FirstIs ==
  ASSUME NEW fs \in SUBSET Forks, fs # {}
  PROVE  First(fs) \in fs
<1> DEFINE at == {i \in DOMAIN Names : Names[i] \in fs}
<1>1. \E i \in DOMAIN Names : Names[i] \in fs
  <2>1. PICK g \in fs : g \in ToSet(Names)
    BY LineageAssumption
  <2> QED BY <2>1 DEF ToSet
<1>2. DOMAIN Names \subseteq Nat
  BY LineageAssumption
<1>3. at \in SUBSET Nat /\ at # {}
  BY <1>1, <1>2
<1>4. Min(at) \in at
  <2> HIDE DEF at
  <2> QED BY <1>3, MinIn
<1>5. Names[Min(at)] \in fs
  BY <1>4
<1>6. First(fs) = Names[Min(at)]
  BY DEF First
<1> HIDE DEF at
<1> QED BY <1>5, <1>6

\* Pick picks a candidate, when there is one.
LEMMA PickIs ==
  ASSUME NEW fs \in SUBSET Forks
  PROVE  IF fs = {} THEN Pick(fs) = NoFork ELSE Pick(fs) \in fs
BY FirstIs DEF Pick

\* A parent is another fork that has been in the state, if any has.
LEMMA ParentIs ==
  ASSUME NEW c, NEW m
  PROVE  \/ ParentFork(c, m) = NoFork
         \/ LET p == ParentFork(c, m)
            IN  p \in Existing \ {c} /\ (Authored(p, m) \/ anchor[p] = m)
<1> DEFINE as == {f \in Existing \ {c} : Authored(f, m)}
           ss == {f \in Existing \ {c} : anchor[f] = m}
<1>1. as \in SUBSET Forks /\ ss \in SUBSET Forks
  BY DEF Existing
<1>2. ParentFork(c, m) = IF Pick(as) # NoFork THEN Pick(as) ELSE Pick(ss)
  BY DEF ParentFork
<1>3. Pick(as) = NoFork \/ Pick(as) \in as
  BY <1>1, PickIs
<1>4. Pick(ss) = NoFork \/ Pick(ss) \in ss
  BY <1>1, PickIs
<1> QED BY <1>2, <1>3, <1>4

Hops == [fork : Forks, take : Nat]
Walks == [segs : Seq(Hops), root : Forks \cup {NoFork}, done : BOOLEAN]

\* Where one stretch of a lineage meets the next: at the state the child is
\* anchored at, which the parent led to last with the line taken last, or is
\* anchored at itself.
Seam(s, t) ==
  /\ s.take = LastAt(log[s.fork], anchor[t.fork])
  /\ s.take > 0 \/ anchor[s.fork] = anchor[t.fork]

\* What the walk from f has met.
OnPath(f, w) ==
  LET n == Len(w.segs)
  IN  /\ n > 0 /\ w.segs[n] = [fork |-> f, take |-> Len(log[f])]
      /\ \A i \in 1..n : w.segs[i].fork \in Existing
      /\ \A i, j \in 1..n : i < j => w.segs[i].fork # w.segs[j].fork
      /\ \A i \in 1..n - 1 : Seam(w.segs[i], w.segs[i + 1])
      /\ w.root # NoFork => w.done /\ w.root = w.segs[1].fork
WalksOf(f) == {w \in Walks : OnPath(f, w)}

\* One step of it.
Onward(w) ==
  LET cur == w.segs[1].fork
  IN  IF w.done THEN w ELSE Climb(w, ParentFork(cur, anchor[cur]))

\* A step keeps to the path: it ends the walk, or puts a parent before it.
LEMMA ClimbKeeps ==
  ASSUME UnionInv, NEW f \in Existing, NEW w \in WalksOf(f)
  PROVE  Onward(w) \in WalksOf(f)
<1> DEFINE n == Len(w.segs)
           cur == w.segs[1].fork
           parent == ParentFork(cur, anchor[cur])
<1>1. w \in Walks /\ OnPath(f, w) /\ w.segs \in Seq(Hops) /\ n \in Nat /\ n > 0 /\ 1 \in 1..n
  BY DEF WalksOf, Walks, OnPath
<1>2. cur \in Existing /\ cur \in Forks
  BY <1>1 DEF OnPath, Existing
<1>3. CASE w.done
  BY <1>3 DEF Onward
<1>4. CASE ~w.done /\ (anchor[cur] = EmptyManifest \/ parent = NoFork)
  <2> DEFINE v == [w EXCEPT !.done = TRUE, !.root = cur]
  <2>1. Onward(w) = v
    BY <1>4 DEF Onward, Climb
  <2>2. v \in Walks /\ v.segs = w.segs /\ v.root = cur /\ v.done
    BY <1>1, <1>2 DEF Walks
  <2> HIDE DEF v
  <2>3. OnPath(f, v)
    BY <1>1, <2>2 DEF OnPath
  <2> QED BY <2>1, <2>2, <2>3 DEF WalksOf
<1>5. CASE /\ ~w.done /\ anchor[cur] # EmptyManifest /\ parent # NoFork
           /\ \E i \in 1..n : w.segs[i].fork = parent
  <2> DEFINE v == [w EXCEPT !.done = TRUE]
  <2>1. Onward(w) = v
    BY <1>5 DEF Onward, Climb
  <2>2. v \in Walks /\ v.segs = w.segs /\ v.root = w.root /\ v.done
    BY <1>1 DEF Walks
  <2> HIDE DEF v
  <2>3. OnPath(f, v)
    BY <1>1, <2>2 DEF OnPath
  <2> QED BY <2>1, <2>2, <2>3 DEF WalksOf
<1>6. CASE /\ ~w.done /\ anchor[cur] # EmptyManifest /\ parent # NoFork
           /\ ~\E i \in 1..n : w.segs[i].fork = parent
  <2> DEFINE x == [fork |-> parent, take |-> BranchPoint(parent, anchor[cur])]
             u == <<x>> \o w.segs
             v == [w EXCEPT !.segs = u]
  <2>1. Onward(w) = v
    BY <1>6 DEF Onward, Climb
  <2>2. parent \in Existing /\ (Authored(parent, anchor[cur]) \/ anchor[parent] = anchor[cur])
    BY <1>6, ParentIs
  <2>3. parent \in Forks /\ log[parent] \in Seq(Line) /\ Len(log[parent]) \in Nat
    BY <2>2, StateIs
  <2>4. LastAt(log[parent], anchor[cur]) \in 0..Len(log[parent])
    BY <2>3, LastAtIs
  <2>5. x \in Hops /\ x.fork = parent /\ x.take = LastAt(log[parent], anchor[cur])
    BY <2>3, <2>4 DEF Hops, BranchPoint
  <2>6. x.take > 0 \/ anchor[parent] = anchor[cur]
    BY <2>2, <2>5 DEF Authored
  <2> HIDE DEF x
  <2>7. /\ u \in Seq(Hops) /\ Len(u) = n + 1 /\ u[1] = x
        /\ \A i \in 1..n : u[i + 1] = w.segs[i]
    BY <1>1, <2>5
  <2> HIDE DEF u
  <2>8. v \in Walks /\ v.segs = u /\ v.root = w.root
    BY <1>1, <2>7 DEF Walks
  <2> HIDE DEF v
  <2>9. w.root = NoFork
    BY <1>1, <1>6 DEF OnPath
  <2>10. OnPath(f, v)
    <3>1. v.segs[Len(v.segs)] = [fork |-> f, take |-> Len(log[f])] /\ Len(v.segs) = n + 1
      <4>1. n + 1 # 1 /\ n \in 1..n
        BY <1>1
      <4> QED BY <1>1, <2>7, <2>8, <4>1 DEF OnPath
    <3>2. \A i \in 1..n + 1 : i = 1 \/ (i - 1 \in 1..n /\ i = (i - 1) + 1)
      BY <1>1
    <3>3. ASSUME NEW i \in 1..n + 1 PROVE u[i].fork \in Existing
      <4>1. CASE i = 1
        BY <2>2, <2>5, <2>7, <4>1
      <4>2. CASE i # 1
        <5>1. i - 1 \in 1..n /\ u[i] = w.segs[i - 1]
          BY <2>7, <3>2, <4>2
        <5> QED BY <1>1, <5>1 DEF OnPath
      <4> QED BY <4>1, <4>2
    <3>4. ASSUME NEW i \in 1..n + 1, NEW j \in 1..n + 1, i < j PROVE u[i].fork # u[j].fork
      <4>1. j - 1 \in 1..n /\ u[j] = w.segs[j - 1]
        <5>1. j # 1
          BY <3>4, <1>1
        <5> QED BY <2>7, <3>2, <5>1
      <4>2. CASE i = 1
        BY <1>6, <2>5, <2>7, <4>1, <4>2
      <4>3. CASE i # 1
        <5>1. i - 1 \in 1..n /\ u[i] = w.segs[i - 1] /\ i - 1 < j - 1
          BY <1>1, <2>7, <3>2, <3>4, <4>3
        <5> QED BY <1>1, <4>1, <5>1 DEF OnPath
      <4> QED BY <4>2, <4>3
    <3>5. ASSUME NEW i \in 1..n PROVE Seam(u[i], u[i + 1])
      <4>1. CASE i = 1
        <5>1. u[2] = w.segs[1] /\ 1 + 1 = 2
          BY <1>1, <2>7
        <5> QED BY <2>5, <2>6, <2>7, <4>1, <5>1 DEF Seam
      <4>2. CASE i # 1
        <5>1. i - 1 \in 1..n - 1 /\ i - 1 \in 1..n /\ i = (i - 1) + 1
          BY <1>1, <4>2
        <5>2. u[i] = w.segs[i - 1] /\ u[i + 1] = w.segs[i]
          BY <2>7, <5>1
        <5>3. Seam(w.segs[i - 1], w.segs[(i - 1) + 1])
          BY <1>1, <5>1 DEF OnPath
        <5> QED BY <5>1, <5>2, <5>3
      <4> QED BY <4>1, <4>2
    <3>6. n + 1 > 0 /\ (n + 1) - 1 = n
      BY <1>1
    <3> HIDE DEF n
    <3> QED BY <2>7, <2>8, <2>9, <3>1, <3>3, <3>4, <3>5, <3>6 DEF OnPath
  <2> QED BY <2>1, <2>8, <2>10 DEF WalksOf
<1> QED BY <1>3, <1>4, <1>5, <1>6

\* The walk is on the path.
LEMMA WalkIs ==
  ASSUME UnionInv, NEW f \in Existing
  PROVE  Walk(f) \in WalksOf(f)
<1> DEFINE n == Len(Names)
           b == [segs |-> <<[fork |-> f, take |-> Len(log[f])]>>,
                 root |-> NoFork, done |-> FALSE]
           Is(g) == g = [T \in SUBSET (DOMAIN Names) |->
                          IF T = {} THEN b ELSE Onward(g[T \ {Max(T)}])]
           g == CHOOSE h : Is(h)
<1>1. n \in Nat /\ DOMAIN Names = 1..n
  BY LineageAssumption
<1>2. Walk(f) = g[DOMAIN Names]
  BY DEF Walk, Onward, FoldLeft, MapThenFoldSet
<1>b. b \in WalksOf(f)
  <2>1. f \in Forks /\ Len(log[f]) \in Nat
    BY StateIs
  <2>2. b \in Walks
    BY <2>1 DEF Walks, Hops
  <2>3. OnPath(f, b)
    <3>1. Len(b.segs) = 1 /\ b.segs[1] = [fork |-> f, take |-> Len(log[f])] /\ b.root = NoFork
      OBVIOUS
    <3>2. 1..1 = {1} /\ 1..1 - 1 = {}
      BY SMT
    <3> HIDE DEF b
    <3> QED BY <3>1, <3>2 DEF OnPath
  <2> QED BY <2>2, <2>3 DEF WalksOf
<1> HIDE DEF b
<1>3. \E h : Is(h)
  <2> DEFINE F == [z \in WalksOf(f) \X (1..n) |-> Onward(z[1])]
  <2>1. F \in [WalksOf(f) \X (1..n) -> WalksOf(f)]
    BY ClimbKeeps
  <2>2. PICK h : Folding(h, WalksOf(f), b, n, F)
    <3> HIDE DEF F, n
    <3> QED BY <1>1, <1>b, <2>1, FoldExists
  <2>3. ASSUME NEW T \in SUBSET (1..n), T # {}
        PROVE  F[<<h[T \ {Max(T)}], Max(T)>>] = Onward(h[T \ {Max(T)}])
    <3>1. T \subseteq Nat /\ \A x \in T : x <= n
      BY <1>1
    <3>2. Max(T) \in 1..n /\ T \ {Max(T)} \in SUBSET (1..n)
      BY <1>1, <2>3, <3>1, MaxIn
    <3>3. h[T \ {Max(T)}] \in WalksOf(f)
      BY <2>2, <3>2 DEF Folding
    <3> QED BY <3>2, <3>3
  <2> HIDE DEF F
  <2>4. Is(h)
    BY <1>1, <2>2, <2>3 DEF Folding
  <2> QED BY <2>4
<1> HIDE DEF g
<1>4. Is(g)
  BY <1>3 DEF g
<1> DEFINE S == {k \in Nat : k <= n => g[1..k] \in WalksOf(f)}
<1>5. 0 \in S
  <2>1. 1..0 = {} /\ {} \in SUBSET (DOMAIN Names)
    OBVIOUS
  <2>2. g[{}] = b
    BY <1>4, <2>1
  <2> QED BY <1>b, <2>1, <2>2
<1>6. ASSUME NEW k \in Nat, k \in S PROVE k + 1 \in S
  <2> SUFFICES ASSUME k + 1 <= n PROVE g[1..k + 1] \in WalksOf(f)
    OBVIOUS
  <2>1. 1..k + 1 \in SUBSET (DOMAIN Names) /\ 1..k + 1 # {} /\ k <= n
    <3>1. k + 1 \in 1..k + 1 /\ k <= n
      BY <1>1
    <3>2. \A x \in 1..k + 1 : x \in 1..n
      BY <1>1
    <3> QED BY <1>1, <3>1, <3>2
  <2>2. Max(1..k + 1) = k + 1 /\ (1..k + 1) \ {k + 1} = 1..k
    BY MaxOfInterval
  <2>3. g[1..k + 1] = Onward(g[1..k])
    BY <1>4, <2>1, <2>2
  <2> QED BY <1>6, <2>1, <2>3, ClimbKeeps
<1>7. n \in S
  <2> HIDE DEF S
  <2> QED BY <1>1, <1>5, <1>6, Induction
<1> QED BY <1>1, <1>2, <1>7

-----------------------------------------------------------------------------
(* The history put together along it.                                      *)

Shown == [fork : Forks, line : Line]

\* The lines of a history, without the fork each was read on.
Plain(h) == [i \in 1..Len(h) |-> h[i].line]

\* What a stretch of the walk shows.
Stretch(s) == [j \in 1..s.take |-> [fork |-> s.fork, line |-> log[s.fork][j]]]

\* The state k stretches lead to: where the next fork is anchored, or the
\* state of the fork the walk began at.
Reached(f, w, k) == IF k = Len(w.segs) THEN State(f) ELSE anchor[w.segs[k + 1].fork]

\* x is a line of fork g.
Shows(g, x) == \E j \in 1..Len(log[g]) : x = [fork |-> g, line |-> log[g][j]]

\* History h has every line of fork f.
ShowsAll(f, h) ==
  \A j \in 1..Len(log[f]) : \E i \in 1..Len(h) : h[i] = [fork |-> f, line |-> log[f][j]]

\* What holds of the first k stretches: they are one history, of lines of the
\* forks met, and the ids tell these apart.
Threaded(f, w, k, h) ==
  LET base == anchor[w.segs[1].fork]
  IN  /\ Led(Plain(h), base) /\ Tip(Plain(h), base) = Reached(f, w, k)
      /\ \A i \in 1..Len(h) : \E a \in 1..k : Shows(w.segs[a].fork, h[i])
      /\ \A i, j \in 1..Len(h) : i # j => h[i].line.id # h[j].line.id
      /\ k = Len(w.segs) => ShowsAll(f, h)

\* The first elements of a log end with the last of them.
LEMMA FirstEnd ==
  ASSUME NEW S, NEW l \in Seq(S), NEW c \in 1..Len(l)
  PROVE  LET u == SubSeq(l, 1, c)
         IN  Len(u) = c /\ u # <<>> /\ u[Len(u)] = l[c]
<1>1. SubSeq(l, 1, c) \in Seq(S) /\ Len(SubSeq(l, 1, c)) = c /\ SubSeq(l, 1, c)[c] = l[c]
  OBVIOUS
<1> QED BY <1>1

\* A stretch leads from its fork's anchor to the next fork's.
LEMMA StretchLed ==
  ASSUME LineageInv, moved = {}, NEW f \in Existing, NEW w \in WalksOf(f),
         NEW k \in 1..Len(w.segs)
  PROVE  LET s == w.segs[k]
             v == Stretch(s)
         IN  /\ s.fork \in Existing /\ v \in Seq(Shown) /\ Len(v) = s.take
             /\ Plain(v) \in Seq(Line) /\ Led(Plain(v), anchor[s.fork])
             /\ Tip(Plain(v), anchor[s.fork]) = Reached(f, w, k)
             /\ \A j \in 1..Len(v) : v[j].line.id = LineId(s.fork, j) /\ Shows(s.fork, v[j])
             /\ k = Len(w.segs) => ShowsAll(f, v)
<1> DEFINE s == w.segs[k]
           v == Stretch(s)
           l == log[s.fork]
           m == anchor[s.fork]
           u == SubSeq(l, 1, s.take)
<1>1. w \in Walks /\ OnPath(f, w) /\ Len(w.segs) \in Nat /\ s \in Hops /\ s.take \in Nat
  <2>1. w \in Walks /\ OnPath(f, w)
    BY DEF WalksOf
  <2>2. w.segs \in Seq(Hops)
    BY <2>1 DEF Walks
  <2>3. Len(w.segs) \in Nat /\ w.segs[k] \in Hops
    BY <2>2
  <2> QED BY <2>1, <2>3 DEF Hops
<1>2. s.fork \in Existing /\ s.fork \in Forks /\ UnionInv
  BY <1>1 DEF OnPath, Existing, LineageInv
<1>3. /\ l \in Seq(Line) /\ m \in Manifest /\ Led(l, m) /\ Marked(s.fork, l)
      /\ State(s.fork) = Tip(l, m) /\ Len(l) \in Nat
  BY <1>2, StateIs DEF LineageInv, Unmoved, UnionInv, LogInv
<1>4. s.take <= Len(l) /\ Tip(u, m) = Reached(f, w, k)
  <2>1. CASE k = Len(w.segs)
    <3>1. s.fork = f /\ s.take = Len(l)
      BY <1>1, <2>1 DEF OnPath
    <3>2. u = l
      BY <1>3, <3>1
    <3>3. Tip(l, m) = State(f) /\ Reached(f, w, k) = State(f)
      BY <1>3, <2>1, <3>1 DEF Reached
    <3>4. s.take <= Len(l)
      BY <1>3, <3>1
    <3> HIDE DEF u, l, m, s
    <3> QED BY <3>2, <3>3, <3>4
  <2>2. CASE k # Len(w.segs)
    <3>1. k \in 1..Len(w.segs) - 1 /\ Reached(f, w, k) = anchor[w.segs[k + 1].fork]
      BY <1>1, <2>2 DEF Reached
    <3>2. Seam(s, w.segs[k + 1])
      BY <1>1, <3>1 DEF OnPath
    <3> DEFINE to == anchor[w.segs[k + 1].fork]
    <3>3. s.take = LastAt(l, to) /\ (s.take > 0 \/ m = to)
      BY <3>2 DEF Seam
    <3> HIDE DEF to, l, m
    <3>4. s.take \in 0..Len(l) /\ (s.take # 0 => l[s.take].after = to)
      BY <1>3, <3>3, LastAtIs
    <3>5. CASE s.take = 0
      <4>1. u = <<>>
        BY <1>3, <3>5
      <4> QED BY <1>1, <1>3, <3>1, <3>3, <3>4, <3>5, <4>1 DEF Tip, to
    <3>6. CASE s.take # 0
      <4>1. Len(u) = s.take /\ u # <<>> /\ u[Len(u)] = l[s.take]
        <5>1. l \in Seq(Line) /\ s.take \in 1..Len(l)
          BY <1>1, <1>3, <3>4, <3>6
        <5> HIDE DEF l, s
        <5> QED BY ONLY <5>1, FirstEnd DEF u
      <4> QED BY <1>1, <3>1, <3>4, <3>6, <4>1 DEF Tip, to
    <3> QED BY <3>5, <3>6
  <2> QED BY <2>1, <2>2
<1> HIDE DEF l, m, s
<1>5. u \in Seq(Line) /\ Len(u) = s.take /\ \A j \in 1..s.take : u[j] = l[j] /\ j \in 1..Len(l)
  BY <1>1, <1>3, <1>4
<1>6. Led(u, m)
  <2> SUFFICES ASSUME NEW j \in 1..s.take PROVE Follows(u[j], Before(u, m, j))
    BY <1>5 DEF Led
  <2>1. j # 1 => j - 1 \in 1..s.take
    BY <1>1
  <2>2. Before(u, m, j) = Before(l, m, j)
    BY <1>5, <2>1 DEF Before
  <2> QED BY <1>3, <1>5, <2>2 DEF Led
<1>7. /\ v \in Seq(Shown) /\ Len(v) = s.take
      /\ \A j \in 1..s.take : v[j] = [fork |-> s.fork, line |-> l[j]] /\ v[j].line = l[j]
  <2>1. v = [j \in 1..s.take |-> [fork |-> s.fork, line |-> l[j]]]
    BY DEF Stretch, l
  <2>2. \A j \in 1..s.take : l[j] \in Line
    BY <1>3, <1>5
  <2> DEFINE e(j) == [fork |-> s.fork, line |-> l[j]]
  <2>3. \A j \in 1..s.take : e(j) \in Shown /\ e(j).line = l[j]
    BY <1>2, <2>2 DEF Shown, s
  <2> HIDE DEF e
  <2>4. v = [j \in 1..s.take |-> e(j)]
    BY <2>1 DEF e
  <2> HIDE DEF v
  <2>5. v \in Seq(Shown) /\ Len(v) = s.take /\ \A j \in 1..s.take : v[j] = e(j)
    BY <1>1, <2>3, <2>4
  <2> QED BY <2>3, <2>5 DEF e
<1> HIDE DEF v
<1>8. Plain(v) = u
  <2>1. Plain(v) = [j \in 1..s.take |-> v[j].line]
    BY <1>7 DEF Plain
  <2>2. u = [j \in 1..s.take |-> l[j]]
    BY <1>5
  <2> QED BY <1>7, <2>1, <2>2
<1>9. \A j \in 1..Len(v) : v[j].line.id = LineId(s.fork, j) /\ Shows(s.fork, v[j])
  <2>1. \A j \in 1..s.take : v[j].line.id = LineId(s.fork, j)
    BY <1>3, <1>5, <1>7 DEF Marked
  <2>2. \A j \in 1..s.take : Shows(s.fork, v[j])
    BY <1>5, <1>7 DEF Shows, l
  <2> QED BY <1>7, <2>1, <2>2
<1>10. k = Len(w.segs) => ShowsAll(f, v)
  <2>1. k = Len(w.segs) => s.fork = f /\ s.take = Len(log[f])
    BY <1>1 DEF OnPath, s
  <2> QED BY <1>7, <2>1 DEF ShowsAll, l
<1> HIDE DEF u
<1> QED BY <1>2, <1>4, <1>5, <1>6, <1>7, <1>8, <1>9, <1>10 DEF s, v, m

\* Where lines that lead on lead.
LEMMA TipsMeet ==
  ASSUME NEW l \in Seq(Line), NEW u \in Seq(Line), NEW m
  PROVE  Tip(l \o u, m) = Tip(u, Tip(l, m))
<1> DEFINE t == l \o u
<1>1. /\ Len(l) \in Nat /\ Len(u) \in Nat /\ Len(t) = Len(l) + Len(u)
      /\ \A i \in 1..Len(l) : t[i] = l[i]
      /\ \A i \in 1..Len(u) : t[Len(l) + i] = u[i]
      /\ (l = <<>> <=> Len(l) = 0) /\ (u = <<>> <=> Len(u) = 0) /\ (t = <<>> <=> Len(t) = 0)
  OBVIOUS
<1>2. CASE Len(u) = 0
  <2>1. t = l /\ u = <<>>
    BY <1>1, <1>2
  <2> QED BY <2>1 DEF Tip
<1> HIDE DEF t
<1>3. CASE Len(u) # 0
  <2>1. Len(u) \in 1..Len(u) /\ t # <<>> /\ u # <<>>
    BY <1>1, <1>3
  <2> QED BY <1>1, <2>1 DEF Tip, t
<1> QED BY <1>2, <1>3

\* No stretch leads on from the root's anchor, and each leads on from the last.
LEMMA ThreadStarts ==
  ASSUME NEW f, NEW w, Len(w.segs) \in Nat, Len(w.segs) > 0
  PROVE  Threaded(f, w, 0, <<>>)
<1>1. Len(<<>>) = 0 /\ 1..0 = {} /\ Plain(<<>>) = <<>> /\ 0 + 1 = 1 /\ 0 # Len(w.segs)
  <2>1. Len(<<>>) = 0 /\ 1..0 = {}
    BY SMT
  <2> QED BY <2>1 DEF Plain
<1> QED BY <1>1, LedNone DEF Threaded, Tip, Reached

\* A stretch more is still one history, to where the next fork is anchored.
LEMMA ThreadKeeps ==
  ASSUME LineageInv, moved = {}, NEW f \in Existing, NEW w \in WalksOf(f),
         NEW k \in 0..Len(w.segs) - 1, NEW h \in Seq(Shown), Threaded(f, w, k, h)
  PROVE  /\ h \o Stretch(w.segs[k + 1]) \in Seq(Shown)
         /\ Threaded(f, w, k + 1, h \o Stretch(w.segs[k + 1]))
<1> DEFINE s == w.segs[k + 1]
           v == Stretch(s)
           t == h \o v
           base == anchor[w.segs[1].fork]
<1>1. /\ w \in Walks /\ OnPath(f, w) /\ Len(w.segs) \in Nat /\ k \in Nat
      /\ k # Len(w.segs) /\ k + 1 \in 1..Len(w.segs)
  BY DEF WalksOf, Walks
<1>2. /\ s.fork \in Existing /\ v \in Seq(Shown) /\ Len(v) = s.take
      /\ Plain(v) \in Seq(Line) /\ Led(Plain(v), anchor[s.fork])
      /\ Tip(Plain(v), anchor[s.fork]) = Reached(f, w, k + 1)
      /\ \A j \in 1..Len(v) : v[j].line.id = LineId(s.fork, j) /\ Shows(s.fork, v[j])
      /\ k + 1 = Len(w.segs) => ShowsAll(f, v)
  BY <1>1, StretchLed
<1>3. Reached(f, w, k) = anchor[s.fork]
  BY <1>1 DEF Reached
<1>4. \A a \in 1..k : w.segs[a].fork # s.fork
  <2>1. \A a \in 1..k : a \in 1..Len(w.segs) /\ a < k + 1
    BY <1>1
  <2> QED BY <1>1, <2>1 DEF OnPath
<1>5. ASSUME NEW a \in 1..k, NEW x, Shows(w.segs[a].fork, x)
      PROVE  \E j \in Nat : x.line.id = LineId(w.segs[a].fork, j)
  <2>1. PICK j \in 1..Len(log[w.segs[a].fork]) :
          x = [fork |-> w.segs[a].fork, line |-> log[w.segs[a].fork][j]]
    BY <1>5 DEF Shows
  <2>2. w.segs[a].fork \in Forks
    <3>1. a \in 1..Len(w.segs)
      BY <1>1
    <3> QED BY <1>1, <3>1 DEF OnPath, Existing
  <2>3. log[w.segs[a].fork][j].id = LineId(w.segs[a].fork, j) /\ j \in Nat
    BY <2>2 DEF LineageInv, UnionInv, LogInv, Marked
  <2> QED BY <2>1, <2>3
<1> HIDE DEF s, v
<1>6. /\ t \in Seq(Shown) /\ Len(t) = Len(h) + Len(v) /\ Len(h) \in Nat /\ Len(v) \in Nat
      /\ \A i \in 1..Len(h) : t[i] = h[i]
      /\ \A i \in 1..Len(v) : t[Len(h) + i] = v[i]
  <2>1. h \in Seq(Shown) /\ v \in Seq(Shown)
    BY <1>2
  <2> QED BY <2>1, Joins
<1> HIDE DEF t
<1>s. \A i \in 1..Len(t) :
        i \in 1..Len(h) \/ (i - Len(h) \in 1..Len(v) /\ i = Len(h) + (i - Len(h)))
  BY <1>6
<1>7. Plain(h) \in Seq(Line) /\ Plain(t) = Plain(h) \o Plain(v)
  <2>1. \A q \in Seq(Shown) : \A i \in 1..Len(q) : q[i].line \in Line
    <3>1. ASSUME NEW q \in Seq(Shown), NEW i \in 1..Len(q) PROVE q[i].line \in Line
      <4>1. q[i] \in Shown
        OBVIOUS
      <4> QED BY <4>1 DEF Shown
    <3> QED BY <3>1
  <2>2. Plain(h) \in Seq(Line) /\ Len(Plain(h)) = Len(h) /\ Len(Plain(v)) = Len(v)
        /\ Len(Plain(t)) = Len(t)
    BY <1>6, <2>1 DEF Plain
  <2>3. Plain(t) \in Seq(Line)
    BY <1>6, <2>1 DEF Plain
  <2> DEFINE c == Plain(h) \o Plain(v)
  <2>4. /\ c \in Seq(Line) /\ Len(c) = Len(t)
        /\ \A i \in 1..Len(h) : c[i] = Plain(h)[i]
        /\ \A i \in 1..Len(v) : c[Len(h) + i] = Plain(v)[i]
    <3>1. Plain(h) \in Seq(Line) /\ Plain(v) \in Seq(Line)
      BY <1>2, <2>2
    <3>2. /\ c \in Seq(Line) /\ Len(c) = Len(Plain(h)) + Len(Plain(v))
          /\ \A i \in 1..Len(Plain(h)) : c[i] = Plain(h)[i]
          /\ \A i \in 1..Len(Plain(v)) : c[Len(Plain(h)) + i] = Plain(v)[i]
      BY <3>1, Joins
    <3> HIDE DEF c
    <3> QED BY <1>6, <2>2, <3>2
  <2> HIDE DEF c
  <2>5. \A i \in 1..Len(h) : Plain(t)[i] = Plain(h)[i]
    BY <1>6 DEF Plain
  <2>6. \A i \in 1..Len(v) : Plain(t)[Len(h) + i] = Plain(v)[i]
    BY <1>6 DEF Plain
  <2>7. ASSUME NEW i \in 1..Len(t) PROVE c[i] = Plain(t)[i]
    <3>1. CASE i \in 1..Len(h)
      BY <2>4, <2>5, <3>1
    <3>2. CASE i - Len(h) \in 1..Len(v) /\ i = Len(h) + (i - Len(h))
      <4>1. \A j \in 1..Len(v) : c[Len(h) + j] = Plain(t)[Len(h) + j]
        BY <2>4, <2>6
      <4> QED BY <3>2, <4>1
    <3> QED BY <1>s, <3>1, <3>2
  <2>8. c = Plain(t)
    BY <1>6, <2>2, <2>3, <2>4, <2>7
  <2> QED BY <2>2, <2>8 DEF c
<1>8. Led(Plain(h), base) /\ Tip(Plain(h), base) = anchor[s.fork]
  BY <1>3 DEF Threaded
<1>9. Led(Plain(t), base)
  BY <1>2, <1>7, <1>8, LedMore
<1>10. Tip(Plain(t), base) = Reached(f, w, k + 1)
  <2>1. Tip(Plain(h) \o Plain(v), base) = Tip(Plain(v), Tip(Plain(h), base))
    BY <1>2, <1>7, TipsMeet
  <2> QED BY <1>2, <1>7, <1>8, <2>1
<1>11. ASSUME NEW i \in 1..Len(t) PROVE \E a \in 1..k + 1 : Shows(w.segs[a].fork, t[i])
  <2>1. CASE i \in 1..Len(h)
    <3>1. PICK a \in 1..k : Shows(w.segs[a].fork, h[i])
      BY <2>1 DEF Threaded
    <3>2. a \in 1..k + 1
      BY <1>1
    <3> QED BY <1>6, <2>1, <3>1, <3>2
  <2>2. CASE i - Len(h) \in 1..Len(v) /\ i = Len(h) + (i - Len(h))
    <3>1. t[i] = v[i - Len(h)]
      <4>1. \A j \in 1..Len(v) : t[Len(h) + j] = v[j]
        BY <1>6
      <4> QED BY <2>2, <4>1
    <3>2. k + 1 \in 1..k + 1
      BY <1>1
    <3>3. Shows(s.fork, t[i])
      BY <1>2, <2>2, <3>1
    <3> QED BY <3>2, <3>3 DEF s
  <2> QED BY <1>s, <2>1, <2>2
<1>12. ASSUME NEW i \in 1..Len(t), NEW j \in 1..Len(t), i # j PROVE t[i].line.id # t[j].line.id
  <2>1. \A x \in 1..Len(h), y \in 1..Len(v) : h[x].line.id # v[y].line.id
    <3> SUFFICES ASSUME NEW x \in 1..Len(h), NEW y \in 1..Len(v) PROVE h[x].line.id # v[y].line.id
      OBVIOUS
    <3>0. PICK a \in 1..k : Shows(w.segs[a].fork, h[x])
      BY DEF Threaded
    <3>1. PICK q \in Nat : h[x].line.id = LineId(w.segs[a].fork, q)
      BY <1>5, <3>0
    <3>2. v[y].line.id = LineId(s.fork, y)
      BY <1>2
    <3> QED BY <1>4, <3>1, <3>2 DEF LineId
  <2>2. \A x, y \in 1..Len(v) : x # y => v[x].line.id # v[y].line.id
    BY <1>2 DEF LineId
  <2>3. \A x, y \in 1..Len(h) : x # y => h[x].line.id # h[y].line.id
    BY DEF Threaded
  <2>4. CASE i \in 1..Len(h) /\ j \in 1..Len(h)
    BY <1>6, <1>12, <2>3, <2>4
  <2>5. CASE i \in 1..Len(h) /\ j \notin 1..Len(h)
    <3>1. j - Len(h) \in 1..Len(v) /\ t[j] = v[j - Len(h)]
      BY <1>6, <1>s, <2>5
    <3> QED BY <1>6, <2>1, <2>5, <3>1
  <2>6. CASE i \notin 1..Len(h) /\ j \in 1..Len(h)
    <3>1. i - Len(h) \in 1..Len(v) /\ t[i] = v[i - Len(h)]
      BY <1>6, <1>s, <2>6
    <3> QED BY <1>6, <2>1, <2>6, <3>1
  <2>7. CASE i \notin 1..Len(h) /\ j \notin 1..Len(h)
    <3>1. i - Len(h) \in 1..Len(v) /\ t[i] = v[i - Len(h)]
      BY <1>6, <1>s, <2>7
    <3>2. j - Len(h) \in 1..Len(v) /\ t[j] = v[j - Len(h)]
      BY <1>6, <1>s, <2>7
    <3>3. i - Len(h) # j - Len(h)
      BY <1>6, <1>12
    <3> QED BY <2>2, <3>1, <3>2, <3>3
  <2> QED BY <2>4, <2>5, <2>6, <2>7
<1>13. ASSUME k + 1 = Len(w.segs) PROVE ShowsAll(f, t)
  <2> SUFFICES ASSUME NEW j \in 1..Len(log[f])
               PROVE  \E i \in 1..Len(t) : t[i] = [fork |-> f, line |-> log[f][j]]
    BY DEF ShowsAll
  <2>1. PICK i \in 1..Len(v) : v[i] = [fork |-> f, line |-> log[f][j]]
    BY <1>2, <1>13 DEF ShowsAll
  <2>2. Len(h) + i \in 1..Len(t) /\ t[Len(h) + i] = v[i]
    BY <1>6
  <2> QED BY <2>1, <2>2
<1>14. Threaded(f, w, k + 1, t)
  BY <1>9, <1>10, <1>11, <1>12, <1>13 DEF Threaded
<1> QED BY <1>6, <1>14 DEF t, v, s

\* All stretches are one history, to the state of the fork.
LEMMA ContinuityIs ==
  ASSUME LineageInv, moved = {}, NEW f \in Existing
  PROVE  /\ ContinuityLog(f) \in Seq(Shown)
         /\ Threaded(f, Walk(f), Len(Walk(f).segs), ContinuityLog(f))
<1> DEFINE w == Walk(f)
           L == w.segs
           n == Len(L)
           Is(g) == g = [T \in SUBSET (DOMAIN L) |->
                          IF T = {} THEN <<>> ELSE g[T \ {Max(T)}] \o Stretch(L[Max(T)])]
           g == CHOOSE h : Is(h)
<1>0. w \in WalksOf(f)
  BY WalkIs DEF LineageInv
<1>2. ContinuityLog(f) = g[DOMAIN L]
  BY DEF ContinuityLog, Stretch, FoldLeft, MapThenFoldSet
<1> HIDE DEF w
<1>1. L \in Seq(Hops) /\ n \in Nat /\ n > 0 /\ DOMAIN L = 1..n
  <2>1. L \in Seq(Hops) /\ n > 0
    BY <1>0 DEF WalksOf, Walks, OnPath
  <2> QED BY <2>1
<1>a. \A k \in 1..n : Stretch(L[k]) \in Seq(Shown)
  BY <1>0, StretchLed
<1>b. <<>> \in Seq(Shown)
  OBVIOUS
<1> HIDE DEF L
<1>3. \E h : Is(h)
  <2> DEFINE F == [z \in Seq(Shown) \X (1..n) |-> z[1] \o Stretch(L[z[2]])]
  <2>1. F \in [Seq(Shown) \X (1..n) -> Seq(Shown)]
    <3>1. ASSUME NEW z \in Seq(Shown) \X (1..n)
          PROVE  z[1] \o Stretch(L[z[2]]) \in Seq(Shown)
      <4>1. z[1] \in Seq(Shown) /\ z[2] \in 1..n
        OBVIOUS
      <4>2. Stretch(L[z[2]]) \in Seq(Shown)
        BY <1>a, <4>1
      <4> QED BY <4>1, <4>2, Joins
    <3> QED BY <3>1
  <2>2. PICK h : Folding(h, Seq(Shown), <<>>, n, F)
    <3> HIDE DEF F, n
    <3> QED BY <1>1, <1>b, <2>1, FoldExists
  <2>3. ASSUME NEW T \in SUBSET (1..n), T # {}
        PROVE  F[<<h[T \ {Max(T)}], Max(T)>>] = h[T \ {Max(T)}] \o Stretch(L[Max(T)])
    <3>1. T \subseteq Nat /\ \A x \in T : x <= n
      BY <1>1
    <3>2. Max(T) \in 1..n /\ T \ {Max(T)} \in SUBSET (1..n)
      BY <1>1, <2>3, <3>1, MaxIn
    <3>3. h[T \ {Max(T)}] \in Seq(Shown)
      BY <2>2, <3>2 DEF Folding
    <3> QED BY <3>2, <3>3
  <2> HIDE DEF F
  <2>4. Is(h)
    BY <1>1, <2>2, <2>3 DEF Folding
  <2> QED BY <2>4
<1> HIDE DEF g
<1>4. Is(g)
  BY <1>3 DEF g
<1> DEFINE S == {k \in Nat : k <= n => g[1..k] \in Seq(Shown) /\ Threaded(f, w, k, g[1..k])}
<1>5. 0 \in S
  <2>1. 1..0 = {} /\ {} \in SUBSET (DOMAIN L)
    OBVIOUS
  <2>2. g[{}] = <<>>
    BY <1>4, <2>1
  <2>3. Threaded(f, w, 0, <<>>)
    BY <1>1, ThreadStarts DEF L
  <2> QED BY <1>b, <2>1, <2>2, <2>3
<1>6. ASSUME NEW k \in Nat, k \in S PROVE k + 1 \in S
  <2> SUFFICES ASSUME k + 1 <= n
               PROVE  g[1..k + 1] \in Seq(Shown) /\ Threaded(f, w, k + 1, g[1..k + 1])
    OBVIOUS
  <2>1. 1..k + 1 \in SUBSET (DOMAIN L) /\ 1..k + 1 # {} /\ k <= n /\ k \in 0..n - 1
    <3>1. k + 1 \in 1..k + 1 /\ k <= n /\ k \in 0..n - 1
      BY <1>1
    <3>2. \A x \in 1..k + 1 : x \in 1..n
      BY <1>1
    <3> QED BY <1>1, <3>1, <3>2
  <2>2. Max(1..k + 1) = k + 1 /\ (1..k + 1) \ {k + 1} = 1..k
    BY MaxOfInterval
  <2>3. g[1..k + 1] = g[1..k] \o Stretch(L[k + 1])
    BY <1>4, <2>1, <2>2
  <2>4. g[1..k] \in Seq(Shown) /\ Threaded(f, w, k, g[1..k])
    BY <1>6, <2>1
  <2> QED BY <1>0, <2>1, <2>3, <2>4, ThreadKeeps DEF L
<1>7. n \in S
  <2> HIDE DEF S
  <2> QED BY <1>1, <1>5, <1>6, Induction
<1> QED BY <1>1, <1>2, <1>7 DEF w, L

\* Where the walk ends at a root, that history begins at the root's anchor.
LEMMA HistoryIs ==
  ASSUME LineageInv, NEW f \in Existing, Rooted(f)
  PROVE  LET h == ContinuityLog(f)
         IN  /\ h \in Seq(Shown) /\ Plain(h) \in Seq(Line)
             /\ Len(Plain(h)) = Len(h) /\ \A i \in 1..Len(h) : Plain(h)[i] = h[i].line
             /\ LineageBase(f) \in Manifest /\ Led(Plain(h), LineageBase(f))
             /\ Tip(Plain(h), LineageBase(f)) = State(f) /\ ShowsAll(f, h)
             /\ \A i, j \in 1..Len(h) : i # j => h[i].line.id # h[j].line.id
             /\ \A i \in 1..Len(h) : h[i].fork \in Existing /\ Shows(h[i].fork, h[i])
<1> DEFINE h == ContinuityLog(f)
           w == Walk(f)
<1>1. moved = {} /\ w.root # NoFork
  BY DEF Rooted
<1>2. w \in WalksOf(f) /\ h \in Seq(Shown) /\ Threaded(f, w, Len(w.segs), h)
  BY <1>1, WalkIs, ContinuityIs DEF LineageInv
<1>3. w.root = w.segs[1].fork /\ w.root \in Existing
  <2>1. OnPath(f, w) /\ w.segs \in Seq(Hops)
    BY <1>2 DEF WalksOf, Walks
  <2> HIDE DEF w
  <2>2. Len(w.segs) \in Nat /\ Len(w.segs) > 0
    BY <2>1 DEF OnPath
  <2> QED BY <1>1, <2>1, <2>2 DEF OnPath
<1>4. LineageBase(f) = anchor[w.segs[1].fork] /\ LineageBase(f) \in Manifest
  BY <1>1, <1>3, StateIs DEF LineageBase, LineageInv
<1> HIDE DEF h, w
<1>5. Plain(h) \in Seq(Line) /\ Len(Plain(h)) = Len(h)
      /\ \A i \in 1..Len(h) : Plain(h)[i] = h[i].line
  <2>1. \A i \in 1..Len(h) : h[i].line \in Line
    <3>1. \A i \in 1..Len(h) : h[i] \in Shown
      BY <1>2
    <3> QED BY <3>1 DEF Shown
  <2>2. Plain(h) = [i \in 1..Len(h) |-> h[i].line]
    BY DEF Plain
  <2> QED BY <1>2, <2>1, <2>2
<1>6. Led(Plain(h), LineageBase(f)) /\ Tip(Plain(h), LineageBase(f)) = State(f)
  BY <1>2, <1>4 DEF Threaded, Reached
<1>7. ShowsAll(f, h) /\ \A i, j \in 1..Len(h) : i # j => h[i].line.id # h[j].line.id
  BY <1>2 DEF Threaded
<1>8. ASSUME NEW i \in 1..Len(h) PROVE h[i].fork \in Existing /\ Shows(h[i].fork, h[i])
  <2>1. PICK a \in 1..Len(w.segs) : Shows(w.segs[a].fork, h[i])
    BY <1>2 DEF Threaded
  <2>2. w.segs[a].fork \in Existing
    BY <1>2 DEF WalksOf, OnPath
  <2>3. h[i].fork = w.segs[a].fork
    BY <2>1 DEF Shows
  <2> QED BY <2>1, <2>2, <2>3
<1> QED BY <1>2, <1>4, <1>5, <1>6, <1>7, <1>8 DEF h

\* The lines of a rooted lineage chain from its base to the state of its fork.
LEMMA HistoryContinuous ==
  ASSUME LineageInv, NEW f \in Existing, Rooted(f)
  PROVE  Continuous(f, ContinuityLog(f))
<1> DEFINE h == ContinuityLog(f)
           b == LineageBase(f)
<1>1. /\ h \in Seq(Shown) /\ Plain(h) \in Seq(Line)
      /\ Len(Plain(h)) = Len(h) /\ \A i \in 1..Len(h) : Plain(h)[i] = h[i].line
      /\ Led(Plain(h), b) /\ Tip(Plain(h), b) = State(f) /\ ShowsAll(f, h)
      /\ \A i, j \in 1..Len(h) : i # j => h[i].line.id # h[j].line.id
  BY HistoryIs
<1> HIDE DEF h, b
<1>2. Len(h) \in Nat /\ (h = <<>> <=> Len(h) = 0) /\ (Plain(h) = <<>> <=> Len(h) = 0)
  BY <1>1
<1>3. ASSUME NEW i \in 1..Len(h) PROVE Follows(h[i].line, IF i = 1 THEN b ELSE h[i - 1].line.after)
  <2>1. i # 1 => i - 1 \in 1..Len(h)
    BY <1>2
  <2>2. Before(Plain(h), b, i) = IF i = 1 THEN b ELSE h[i - 1].line.after
    BY <1>1, <2>1 DEF Before
  <2> QED BY <1>1, <2>2 DEF Led
<1>4. State(f) = IF h = <<>> THEN anchor[f] ELSE h[Len(h)].line.after
  <2>1. CASE h = <<>>
    <3>1. log[f] \in Seq(Line) /\ State(f) = Tip(log[f], anchor[f])
      BY StateIs DEF LineageInv
    <3>2. log[f] = <<>>
      <4>1. 1..Len(h) = {}
        BY <1>2, <2>1
      <4>2. 1..Len(log[f]) = {}
        BY <1>1, <4>1 DEF ShowsAll
      <4>3. Len(log[f]) \in Nat /\ (log[f] = <<>> <=> Len(log[f]) = 0)
        BY <3>1
      <4>4. Len(log[f]) # 0 => 1 \in 1..Len(log[f])
        BY <4>3
      <4> QED BY <4>2, <4>3, <4>4
    <3> QED BY <2>1, <3>1, <3>2 DEF Tip
  <2>2. CASE h # <<>>
    <3>1. Len(h) \in 1..Len(h)
      BY <1>2, <2>2
    <3> QED BY <1>1, <1>2, <2>2, <3>1 DEF Tip
  <2> QED BY <2>1, <2>2
<1> QED BY <1>1, <1>3, <1>4 DEF Continuous, h, b

\* SingleHistory: the lineage of a fork, put together by looking for forks that
\* have been in the state each is anchored at, is one history that leads to
\* the fork's state and meets no line twice (continuity_log, "the whole is a
\* single continuous history"), as long as no snapshot moved an anchor and the
\* walk meets no fork twice; whatever was appended, landed, repointed, fused,
\* forked, imported or removed before.
THEOREM LineageOneHistory == LineageSpec => []SingleHistory
<1>1. LineageInv => SingleHistory
  BY HistoryContinuous DEF SingleHistory
<1>2. LineageInv /\ [LineageNext]_<<vars, lineageVars>> => LineageInv'
  BY LineageKeeps
<1>3. LineageInit => LineageInv
  BY LineageStarts
<1> QED BY <1>1, <1>2, <1>3, PTL DEF LineageSpec

-----------------------------------------------------------------------------
(* States materialized.                                                    *)

\* A line that follows a state, undone, gives it back.
LEMMA UndoneIs ==
  ASSUME NEW x \in Line, NEW m \in Manifest, Follows(x, m)
  PROVE  Result(x.after, Undone(x)) = m
<1>1. /\ x.delta \in SUBSET Entry /\ \A e \in x.delta : m[e.path] = e.old
      /\ x.after = Result(m, x.delta)
  BY DEF Follows, Applies, Line
<1> DEFINE u == Undone(x)
           r == Result(x.after, u)
<1>2. u = {[path |-> e.path, old |-> e.new, new |-> e.old] : e \in x.delta}
  BY DEF Undone
<1>3. \A e \in u : e.new = m[e.path] /\ \E c \in x.delta : c.path = e.path
  BY <1>1, <1>2
<1>4. ASSUME NEW c \in x.delta PROVE \E e \in u : e.path = c.path
  <2> DEFINE e == [path |-> c.path, old |-> c.new, new |-> c.old]
  <2>1. e \in u /\ e.path = c.path
    BY <1>2
  <2> HIDE DEF e
  <2> QED BY <2>1
<1> HIDE DEF u
<1>5. ASSUME NEW q \in Paths PROVE r[q] = m[q]
  <2>1. r[q] = IF \E e \in u : e.path = q THEN (CHOOSE e \in u : e.path = q).new ELSE x.after[q]
    BY DEF Result
  <2>2. CASE \E e \in u : e.path = q
    BY <1>3, <2>1, <2>2
  <2>3. CASE ~\E e \in u : e.path = q
    <3>1. ~\E c \in x.delta : c.path = q
      BY <1>4, <2>3
    <3>2. x.after[q] = m[q]
      BY <1>1, <3>1 DEF Result
    <3> QED BY <2>1, <2>3, <3>2
  <2> QED BY <2>2, <2>3
<1>6. r = [q \in Paths |-> r[q]] /\ m = [q \in Paths |-> m[q]]
  BY DEF Result, Manifest
<1> HIDE DEF r
<1>7. r = m
  BY <1>5, <1>6
<1> QED BY <1>7 DEF r, u

\* Lines that lead on, undone from where they lead, give back where they began.
LEMMA UnreplayLed ==
  ASSUME NEW m \in Manifest, NEW l \in Seq(Line), Led(l, m)
  PROVE  FoldRight(LAMBDA x, n : Result(n, Undone(x)), l, Tip(l, m)) = m
<1> DEFINE n == Len(l)
           b == Tip(l, m)
           Is(g) == g = [T \in SUBSET (DOMAIN l) |->
                          IF T = {} THEN b ELSE Result(g[T \ {Min(T)}], Undone(l[Min(T)]))]
           g == CHOOSE h : Is(h)
<1>1. n \in Nat /\ DOMAIN l = 1..n /\ \A i \in 1..n : l[i] \in Line
  OBVIOUS
<1>t. \A i \in 1..n : l[i].delta \in SUBSET Entry /\ l[i].after \in Manifest
  BY <1>1 DEF Line
<1>b. b \in Manifest
  BY ReplayLed
<1>2. FoldRight(LAMBDA x, k : Result(k, Undone(x)), l, Tip(l, m)) = g[DOMAIN l]
  BY DEF FoldRight, MapThenFoldSet
<1> HIDE DEF b
<1>3. \E h : Is(h)
  <2> DEFINE F == [z \in Manifest \X (1..n) |-> Result(z[1], Undone(l[z[2]]))]
  <2>u. ASSUME NEW i \in 1..n PROVE Undone(l[i]) \in SUBSET Entry
    <3>1. l[i].delta \in SUBSET Entry
      BY <1>t
    <3>2. \A e \in Entry : [path |-> e.path, old |-> e.new, new |-> e.old] \in Entry
      BY DEF Entry
    <3> QED BY <3>1, <3>2 DEF Undone
  <2>1. F \in [Manifest \X (1..n) -> Manifest]
    <3>1. ASSUME NEW z \in Manifest \X (1..n) PROVE Result(z[1], Undone(l[z[2]])) \in Manifest
      <4>1. z[1] \in Manifest /\ z[2] \in 1..n
        OBVIOUS
      <4> QED BY <2>u, <4>1, ResultType
    <3> QED BY <3>1
  <2>2. PICK h : FoldingRight(h, Manifest, b, n, F)
    <3> HIDE DEF F, n
    <3> QED BY <1>1, <1>b, <2>1, FoldRightExists
  <2>3. ASSUME NEW T \in SUBSET (1..n), T # {}
        PROVE  F[<<h[T \ {Min(T)}], Min(T)>>] = Result(h[T \ {Min(T)}], Undone(l[Min(T)]))
    <3>1. T \subseteq Nat
      BY <1>1
    <3>2. Min(T) \in 1..n /\ T \ {Min(T)} \in SUBSET (1..n)
      BY <1>1, <2>3, <3>1, MinIn
    <3>3. h[T \ {Min(T)}] \in Manifest
      BY <2>2, <3>2 DEF FoldingRight
    <3> QED BY <3>2, <3>3
  <2> HIDE DEF F
  <2>4. Is(h)
    BY <1>1, <2>2, <2>3 DEF FoldingRight
  <2> QED BY <2>4
<1> HIDE DEF g
<1>4. Is(g)
  BY <1>3 DEF g
<1> DEFINE S == {k \in Nat : k <= n => g[n - k + 1..n] = Before(l, m, n - k + 1)}
<1>5. 0 \in S
  <2>1. n - 0 + 1 = n + 1 /\ n + 1..n = {} /\ {} \in SUBSET (DOMAIN l)
    BY <1>1
  <2>2. g[{}] = b
    BY <1>4, <2>1
  <2>3. Before(l, m, n + 1) = b
    <3>1. l = <<>> <=> n = 0
      OBVIOUS
    <3>2. n + 1 = 1 <=> n = 0
      BY <1>1
    <3>3. n + 1 - 1 = n
      BY <1>1
    <3> QED BY <3>1, <3>2, <3>3 DEF Before, Tip, b
  <2> QED BY <2>1, <2>2, <2>3
<1>6. ASSUME NEW k \in Nat, k \in S PROVE k + 1 \in S
  <2> SUFFICES ASSUME k + 1 <= n
               PROVE  g[n - (k + 1) + 1..n] = Before(l, m, n - (k + 1) + 1)
    OBVIOUS
  <2> DEFINE i == n - k
             T == i..n
  <2>1. n - (k + 1) + 1 = i /\ n - k + 1 = i + 1 /\ i \in 1..n /\ k <= n
    BY <1>1
  <2>2. T \in SUBSET (DOMAIN l) /\ i \in T /\ T \subseteq Nat /\ T # {}
        /\ \A x \in T : i <= x
    <3> HIDE DEF i
    <3>1. i \in T /\ \A x \in T : x \in 1..n /\ i <= x
      BY <1>1, <2>1
    <3> HIDE DEF T
    <3> QED BY <1>1, <3>1
  <2>3. T \ {i} = i + 1..n
    <3> HIDE DEF i
    <3> QED BY <1>1, <2>1
  <2> HIDE DEF i, T
  <2>4. Min(T) = i
    <3>1. Min(T) \in T /\ Min(T) <= i
      BY <2>2, MinIn
    <3>2. i <= Min(T) /\ i \in Nat /\ Min(T) \in Nat
      BY <2>2, <3>1
    <3> QED BY <3>1, <3>2
  <2>5. g[T] = Result(g[i + 1..n], Undone(l[i]))
    BY <1>4, <2>2, <2>3, <2>4
  <2>6. g[i + 1..n] = Before(l, m, i + 1)
    BY <1>6, <2>1
  <2>7. Before(l, m, i + 1) = l[i].after
    <3>1. i + 1 # 1 /\ (i + 1) - 1 = i
      BY <1>1, <2>1
    <3> QED BY <3>1 DEF Before
  <2>8. Follows(l[i], Before(l, m, i)) /\ Before(l, m, i) \in Manifest /\ l[i] \in Line
    <3>1. i # 1 => i - 1 \in 1..n
      BY <1>1, <2>1
    <3> QED BY <1>1, <1>t, <2>1, <3>1 DEF Led, Before
  <2>9. g[T] = Before(l, m, i)
    BY <2>5, <2>6, <2>7, <2>8, UndoneIs
  <2> QED BY <2>1, <2>9 DEF T
<1>7. n \in S
  <2> HIDE DEF S
  <2> QED BY <1>1, <1>5, <1>6, Induction
<1>8. n - n + 1 = 1 /\ n <= n
  BY <1>1
<1>9. Before(l, m, 1) = m
  BY DEF Before
<1> QED BY <1>1, <1>2, <1>7, <1>8, <1>9

\* Lines that lead on carry their base forward, none of them refused.
LEMMA ForwardLed ==
  ASSUME NEW m \in Manifest, NEW l \in Seq(Line), Led(l, m)
  PROVE  Forward(m, l) = Tip(l, m)
<1> DEFINE A == Manifest \cup {Unreadable}
           Onto(a, x) == IF a # Unreadable /\ Applies(a, x.delta)
                          THEN Result(a, x.delta) ELSE Unreadable
           n == Len(l)
           Is(g) == g = [T \in SUBSET (DOMAIN l) |->
                          IF T = {} THEN m ELSE Onto(g[T \ {Max(T)}], l[Max(T)])]
           g == CHOOSE h : Is(h)
<1>1. n \in Nat /\ DOMAIN l = 1..n /\ \A i \in 1..n : l[i] \in Line
  OBVIOUS
<1>t. \A i \in 1..n : l[i].delta \in SUBSET Entry /\ l[i].after \in Manifest
  BY <1>1 DEF Line
<1>u. m \in A /\ Unreadable \notin Manifest
  BY LineageAssumption
<1>2. Forward(m, l) = g[DOMAIN l]
  BY DEF Forward, FoldLeft, MapThenFoldSet
<1>3. \E h : Is(h)
  <2> DEFINE F == [z \in A \X (1..n) |-> Onto(z[1], l[z[2]])]
  <2>1. F \in [A \X (1..n) -> A]
    <3>1. ASSUME NEW z \in A \X (1..n) PROVE Onto(z[1], l[z[2]]) \in A
      <4>1. z[1] \in A /\ z[2] \in 1..n
        OBVIOUS
      <4>2. z[1] # Unreadable => Result(z[1], l[z[2]].delta) \in Manifest
        BY <1>t, <4>1, ResultType
      <4> QED BY <4>1, <4>2
    <3> QED BY <3>1
  <2> HIDE DEF Onto, A
  <2>2. PICK h : Folding(h, A, m, n, F)
    <3> HIDE DEF F, n
    <3> QED BY <1>1, <1>u, <2>1, FoldExists
  <2>3. ASSUME NEW T \in SUBSET (1..n), T # {}
        PROVE  F[<<h[T \ {Max(T)}], Max(T)>>] = Onto(h[T \ {Max(T)}], l[Max(T)])
    <3>1. T \subseteq Nat /\ \A x \in T : x <= n
      BY <1>1
    <3>2. Max(T) \in 1..n /\ T \ {Max(T)} \in SUBSET (1..n)
      BY <1>1, <2>3, <3>1, MaxIn
    <3>3. h[T \ {Max(T)}] \in A
      BY <2>2, <3>2 DEF Folding
    <3> QED BY <3>2, <3>3
  <2> HIDE DEF F
  <2>4. Is(h)
    BY <1>1, <2>2, <2>3 DEF Folding
  <2> QED BY <2>4
<1> HIDE DEF g
<1>4. Is(g)
  BY <1>3 DEF g
<1> DEFINE S == {k \in Nat : k <= n => g[1..k] = IF k = 0 THEN m ELSE l[k].after}
<1>5. 0 \in S
  <2>1. 1..0 = {} /\ {} \in SUBSET (DOMAIN l)
    OBVIOUS
  <2>2. g[{}] = m
    BY <1>4, <2>1
  <2> QED BY <2>1, <2>2
<1>6. ASSUME NEW k \in Nat, k \in S PROVE k + 1 \in S
  <2> SUFFICES ASSUME k + 1 <= n PROVE g[1..k + 1] = l[k + 1].after
    OBVIOUS
  <2>1. 1..k + 1 \in SUBSET (DOMAIN l) /\ 1..k + 1 # {} /\ k + 1 \in 1..n /\ k <= n
        /\ (k # 0 => k \in 1..n)
    <3>1. k + 1 \in 1..n /\ k + 1 \in 1..k + 1 /\ k <= n /\ (k # 0 => k \in 1..n)
      BY <1>1
    <3>2. \A x \in 1..k + 1 : x \in 1..n
      BY <1>1, <3>1
    <3> QED BY <1>1, <3>1, <3>2
  <2>2. Max(1..k + 1) = k + 1 /\ (1..k + 1) \ {k + 1} = 1..k
    BY MaxOfInterval
  <2>3. g[1..k + 1] = Onto(g[1..k], l[k + 1])
    <3> HIDE DEF Onto
    <3> QED BY <1>4, <2>1, <2>2
  <2>4. g[1..k] = (IF k = 0 THEN m ELSE l[k].after) /\ g[1..k] \in Manifest
    BY <1>6, <1>t, <2>1
  <2>5. Follows(l[k + 1], Before(l, m, k + 1))
    BY <2>1 DEF Led
  <2>6. Before(l, m, k + 1) = g[1..k]
    BY <2>4 DEF Before
  <2> QED BY <1>u, <2>3, <2>4, <2>5, <2>6 DEF Follows
<1>7. n \in S
  <2> HIDE DEF S
  <2> QED BY <1>1, <1>5, <1>6, Induction
<1>8. l = <<>> <=> n = 0
  OBVIOUS
<1> QED BY <1>1, <1>2, <1>7, <1>8 DEF Tip

\* Every state a fork has been in is undone back to, whether its anchor moved
\* or not.
LEMMA UndoesBack ==
  ASSUME UnionInv, NEW f \in Existing, NEW m \in History(f)
  PROVE  ManifestAt(f, m) = m
<1> DEFINE l == log[f]
           p == LastAt(l, m)
           u == SubSeq(l, p + 1, Len(l))
<1>1. SUFFICES ASSUME State(f) # m, anchor[f] # m PROVE ManifestAt(f, m) = m
  BY DEF ManifestAt
<1>2. /\ f \in Forks /\ l \in Seq(Line) /\ anchor[f] \in Manifest /\ Chained(l, anchor[f])
      /\ State(f) = Tip(l, anchor[f]) /\ Len(l) \in Nat
  BY StateIs
<1>3. PICK i \in 1..Len(l) : l[i].after = m
  BY <1>1 DEF History
<1>4. m \in Manifest
  <2>1. l[i] \in Line
    BY <1>2
  <2> QED BY <1>3, <2>1 DEF Line
<1>5. p \in 1..Len(l) /\ l[p].after = m
  BY <1>2, <1>3, LastAtIs
<1>6. ManifestAt(f, m) = FoldRight(LAMBDA x, n : Result(n, Undone(x)), u, State(f))
  <2>1. Authored(f, m)
    BY <1>2, <1>5 DEF Authored
  <2> QED BY <1>1, <2>1 DEF ManifestAt
<1>7. Chained(l, m)
  BY <1>2, <1>5 DEF Chained
<1> HIDE DEF l
<1>8. u \in Seq(Line) /\ Led(u, m) /\ Tip(u, m) = IF Len(l) = p THEN m ELSE l[Len(l)].after
  <2>1. Len(l) \in p..Len(l)
    BY <1>2, <1>5
  <2> QED BY <1>2, <1>4, <1>7, <2>1, SuffixLed
<1>9. State(f) = Tip(u, m)
  <2>1. l # <<>>
    BY <1>2, <1>5
  <2> QED BY <1>2, <1>5, <1>8, <2>1 DEF Tip
<1> HIDE DEF u
<1> QED BY <1>4, <1>6, <1>8, <1>9, UnreplayLed

\* Every point of a fork's lineage is carried forward to from its base.
LEMMA CarriesForward ==
  ASSUME LineageInv, NEW f \in Existing, Rooted(f)
  PROVE  Materializes(f)
<1> DEFINE h == ContinuityLog(f)
           b == LineageBase(f)
           l == Plain(h)
<1>1. /\ h \in Seq(Shown) /\ l \in Seq(Line)
      /\ Len(l) = Len(h) /\ \A i \in 1..Len(h) : l[i] = h[i].line
  BY HistoryIs
<1>2. b \in Manifest /\ Led(l, b) /\ Tip(l, b) = State(f)
  BY HistoryIs
<1>3. LineageStates(f) = PointsOf(h, State(f))
  BY DEF LineageStates
<1>4. \A m : ManifestAtLineage(f, m) = ForwardTo(m, IF h = <<>> THEN State(f) ELSE b, l)
  BY DEF ManifestAtLineage, Plain
<1> HIDE DEF h, b, l
<1>5. Len(h) \in Nat /\ (h = <<>> <=> Len(h) = 0) /\ (l = <<>> <=> Len(h) = 0)
  BY <1>1
<1> DEFINE pts == PointsOf(h, State(f))
           base == IF h = <<>> THEN State(f) ELSE b
<1>6. ASSUME NEW i \in 1..Len(h) PROVE Forward(b, SubSeq(l, 1, i)) = l[i].after
  <2> DEFINE u == SubSeq(l, 1, i)
  <2>1. u \in Seq(Line) /\ Len(u) = i /\ \A j \in 1..i : u[j] = l[j] /\ j \in 1..Len(l)
    BY <1>1, <1>5
  <2> HIDE DEF u
  <2>2. Led(u, b)
    <3> SUFFICES ASSUME NEW j \in 1..i PROVE Follows(u[j], Before(u, b, j))
      BY <2>1 DEF Led
    <3>1. j # 1 => j - 1 \in 1..i
      OBVIOUS
    <3>2. Before(u, b, j) = Before(l, b, j)
      BY <2>1, <3>1 DEF Before
    <3> QED BY <1>2, <2>1, <3>2 DEF Led
  <2>3. Forward(b, u) = Tip(u, b)
    BY <1>2, <2>1, <2>2, ForwardLed
  <2>4. u # <<>> /\ u[Len(u)] = l[i]
    BY <2>1
  <2> QED BY <2>3, <2>4 DEF Tip, u
<1>7. DOMAIN pts = 0..Len(h) /\ pts[0].sum = base /\ \A i \in 1..Len(h) : pts[i].sum = l[i].after
  <2> DEFINE before == IF h = <<>> THEN State(f) ELSE Result(h[1].line.after, Undone(h[1].line))
  <2>1. pts = [i \in 0..Len(h) |-> IF i = 0 THEN [sum |-> before, line |-> NoId]
                                   ELSE [sum |-> h[i].line.after, line |-> h[i].line.id]]
    BY DEF PointsOf
  <2>2. before = base
    <3>1. SUFFICES ASSUME h # <<>> PROVE Result(h[1].line.after, Undone(h[1].line)) = b
      OBVIOUS
    <3>2. 1 \in 1..Len(h) /\ l[1] = h[1].line /\ l[1] \in Line
      BY <1>1, <1>5, <3>1
    <3>3. Follows(l[1], b)
      BY <1>1, <1>2, <3>2 DEF Led, Before
    <3> QED BY <1>2, <3>2, <3>3, UndoneIs
  <2> HIDE DEF before, base, pts
  <2>3. 0 \in 0..Len(h) /\ \A i \in 1..Len(h) : i \in 0..Len(h) /\ i # 0
    BY <1>5
  <2> QED BY <1>1, <2>1, <2>2, <2>3
<1> HIDE DEF pts
<1>8. ASSUME NEW i \in 0..Len(h) PROVE ForwardTo(pts[i].sum, base, l) = pts[i].sum
  <2>1. CASE i = 0
    BY <1>7, <2>1 DEF ForwardTo
  <2>2. CASE i # 0
    <3> DEFINE m == pts[i].sum
               at == {j \in 1..Len(l) : l[j].after = m}
    <3>1. i \in 1..Len(h) /\ i \in at /\ at \subseteq Nat /\ base = b
      <4>1. i \in 1..Len(h) /\ Len(h) # 0
        BY <1>5, <2>2
      <4> QED BY <1>1, <1>5, <1>7, <4>1
    <3> HIDE DEF m, base
    <3>2. Min(at) \in at
      <4> HIDE DEF at
      <4> QED BY <3>1, MinIn
    <3>3. Forward(b, SubSeq(l, 1, Min(at))) = m
      <4>1. Min(at) \in 1..Len(h) /\ l[Min(at)].after = m
        BY <1>1, <3>2
      <4> HIDE DEF at
      <4> QED BY <1>6, <4>1
    <3>4. ForwardTo(m, b, l) = IF b = m \/ (at # {} /\ Forward(b, SubSeq(l, 1, Min(at))) = m)
                               THEN m ELSE Unreadable
      BY DEF ForwardTo
    <3>5. at # {}
      BY <3>1
    <3> HIDE DEF at
    <3> QED BY <3>1, <3>3, <3>4, <3>5 DEF m
  <2> QED BY <2>1, <2>2
<1>9. \A i \in DOMAIN LineageStates(f) :
        ManifestAtLineage(f, LineageStates(f)[i].sum) = LineageStates(f)[i].sum
  BY <1>3, <1>4, <1>7, <1>8 DEF pts
<1> QED BY <1>9 DEF Materializes

\* PointsMaterialize: every state a fork has been in can be undone back to
\* (manifest_at), after any snapshot; and every point of the lineage of a rooted
\* fork is carried forward to from the lineage's base, none of its lines
\* refused (manifest_at_lineage, "still names a materializable state").
THEOREM LineageMaterializes == LineageSpec => []PointsMaterialize
<1>1. LineageInv => PointsMaterialize
  BY UndoesBack, CarriesForward DEF PointsMaterialize, LineageInv
<1>2. LineageInv /\ [LineageNext]_<<vars, lineageVars>> => LineageInv'
  BY LineageKeeps
<1>3. LineageInit => LineageInv
  BY LineageStarts
<1> QED BY <1>1, <1>2, <1>3, PTL DEF LineageSpec

\* Removals and imports do not change that every fork loads: current_state
\* verifies the log it reads, and never refuses one the commands wrote.
THEOREM LineageLoads == LineageSpec => []AlwaysLoads
<1>1. LineageInv => AlwaysLoads
  BY StateIs DEF AlwaysLoads, LineageInv
<1>2. LineageInv /\ [LineageNext]_<<vars, lineageVars>> => LineageInv'
  BY LineageKeeps
<1>3. LineageInit => LineageInv
  BY LineageStarts
<1> QED BY <1>1, <1>2, <1>3, PTL DEF LineageSpec

-----------------------------------------------------------------------------
(* Removal.                                                                *)

\* Lines are not lost but by removal.
LEMMA LinesStay ==
  ASSUME LineageInv, NEW f \in Forks, Grown(f)
  PROVE  AllLines \subseteq AllLines'
<1>1. PICK u \in Seq(Line) : log' = [log EXCEPT ![f] = log[f] \o u]
  BY DEF Grown
<1>2. log \in [Forks -> Seq(Line)]
  BY DEF LineageInv, UnionInv, Typed
<1>3. log'[f] = log[f] \o u /\ \A g \in Forks \ {f} : log'[g] = log[g]
  BY <1>1, <1>2
<1>4. ToSet(log[f]) \subseteq ToSet(log'[f])
  <2>1. log[f] \in Seq(Line)
    BY <1>2
  <2> DEFINE l == log[f]
             t == l \o u
  <2>2. /\ Len(t) = Len(l) + Len(u) /\ Len(l) \in Nat /\ Len(u) \in Nat /\ t \in Seq(Line)
        /\ \A i \in 1..Len(l) : t[i] = l[i]
    BY <2>1, Joins
  <2>3. DOMAIN t = 1..Len(t) /\ DOMAIN l = 1..Len(l)
    BY <2>1, <2>2
  <2> HIDE DEF l, t
  <2>4. ToSet(l) \subseteq ToSet(t)
    BY <2>2, <2>3 DEF ToSet
  <2> QED BY <1>3, <2>4 DEF l, t
<1> QED BY <1>3, <1>4 DEF AllLines

\* As lines are added, what is left of a family is one.
LEMMA WorkStays ==
  ASSUME WorkKept, AllLines \subseteq AllLines', relics' = relics, forced' = forced
  PROVE  WorkKept'
<1> DEFINE all == AllLines \cup relics
<1> SUFFICES ASSUME forced = {}, NEW K \in SUBSET (AllLines' \cup relics),
                    K \cap relics # {}, Family(K, AllLines' \cup relics)
             PROVE  K \cap AllLines' # {}
  BY DEF WorkKept
<1>1. K \cap all \in SUBSET all /\ (K \cap all) \cap relics # {} /\ Family(K \cap all, all)
  BY DEF Family
<1>2. (K \cap all) \cap AllLines # {}
  BY <1>1 DEF WorkKept
<1> QED BY <1>2

\* A fork that is removed without --force leaves a copy of each line.
LEMMA RemoveLeaves ==
  ASSUME LineageInv, WorkKept, NEW n \in Forks, NEW force \in BOOLEAN, RemoveFork(n, force)
  PROVE  WorkKept'
<1>1. CASE force
  BY <1>1 DEF RemoveFork, WorkKept
<1>2. CASE ~force
  <2>1. /\ n \in Existing /\ log' = [log EXCEPT ![n] = <<>>]
        /\ relics' = relics \cup ToSet(log[n]) /\ forced' = forced
        /\ \A x \in ToSet(log[n]) : Subsumed(n, x)
    BY <1>2 DEF RemoveFork
  <2>2. log \in [Forks -> Seq(Line)] /\ Existing \subseteq Forks
    BY DEF LineageInv, UnionInv, Typed, Existing
  <2>3. log'[n] = <<>> /\ \A g \in Forks \ {n} : log'[g] = log[g]
    BY <2>1, <2>2
  <2>4. \A g \in Forks \ {n} : ToSet(log[g]) \subseteq AllLines'
    BY <2>3 DEF AllLines
  <2>5. AllLines' \cup relics' = AllLines \cup relics
    <3>1. ToSet(<<>>) = {}
      BY SMT DEF ToSet
    <3>2. AllLines = (UNION {ToSet(log[g]) : g \in Forks \ {n}}) \cup ToSet(log[n])
      BY DEF AllLines
    <3>3. AllLines' = UNION {ToSet(log[g]) : g \in Forks \ {n}}
      BY <2>3, <3>1 DEF AllLines
    <3> QED BY <2>1, <3>2, <3>3
  <2> DEFINE all == AllLines \cup relics
  <2>6. SUFFICES ASSUME forced = {}, NEW K \in SUBSET all, K \cap relics' # {}, Family(K, all)
                 PROVE  K \cap AllLines' # {}
    BY <2>1, <2>5 DEF WorkKept
  <2>7. PICK y \in K : y \in AllLines
    <3>1. K \cap relics # {} => K \cap AllLines # {}
      BY <2>6 DEF WorkKept
    <3>2. ToSet(log[n]) \subseteq AllLines
      BY DEF AllLines
    <3> QED BY <2>1, <2>6, <3>1, <3>2
  <2>8. CASE y \notin ToSet(log[n])
    BY <2>4, <2>7, <2>8 DEF AllLines
  <2>9. CASE y \in ToSet(log[n])
    <3>1. PICK f \in Existing \ {n} : y.id \in Carried(n, log[f])
      BY <2>1, <2>9 DEF Subsumed
    <3>2. PICK i \in 1..Len(log[f]) : log[f][i].id = y.id \/ log[f][i].origin.id = y.id
      BY <3>1 DEF Carried, IdsOf
    <3>3. f \in Forks \ {n} /\ log[f] \in Seq(Line) /\ log[f][i] \in ToSet(log[f])
      <4>1. f \in Forks \ {n} /\ log[f] \in Seq(Line)
        BY <2>2, <3>1
      <4>2. DOMAIN log[f] = 1..Len(log[f])
        BY <4>1
      <4> QED BY <3>2, <4>1, <4>2 DEF ToSet
    <3>4. log[f][i].id # y.id
      <4>1. log[f][i].id = LineId(f, i)
        BY <3>2, <3>3 DEF LineageInv, UnionInv, LogInv, Marked
      <4>2. log[n] \in Seq(Line)
        BY <2>2
      <4>3. PICK j \in 1..Len(log[n]) : y = log[n][j]
        BY <2>9, <4>2 DEF ToSet
      <4>4. y.id = LineId(n, j)
        BY <4>3 DEF LineageInv, UnionInv, LogInv, Marked
      <4> QED BY <3>3, <4>1, <4>4 DEF LineId
    <3>5. log[f][i] \in AllLines' /\ log[f][i] \in all /\ y \in all
      BY <2>4, <2>7, <3>3 DEF AllLines
    <3>6. log[f][i] \in K
      <4> DEFINE z == log[f][i]
      <4>1. z \in all /\ y \in all /\ y.id = z.origin.id /\ y \in K
        BY <2>7, <3>2, <3>4, <3>5
      <4> HIDE DEF z, all
      <4>2. z \in K
        BY <2>6, <4>1 DEF Family
      <4> QED BY <4>2 DEF z
    <3> QED BY <3>5, <3>6
  <2> QED BY <2>8, <2>9
<1> QED BY <1>1, <1>2

\* Every command keeps what removal promises.
LEMMA WorkStep ==
  LineageInv /\ WorkKept /\ [LineageNext]_<<vars, lineageVars>> => WorkKept'
<1> SUFFICES ASSUME LineageInv, WorkKept, [LineageNext]_<<vars, lineageVars>> PROVE WorkKept'
  OBVIOUS
<1>0. UnionInv /\ \A f \in Existing : f \in Forks
  BY DEF LineageInv, Existing
<1>1. CASE log' = log /\ relics' = relics /\ forced' = forced
  BY <1>1, WorkStays DEF AllLines
<1>2. ASSUME NEW f \in Forks, Grown(f), UNCHANGED lineageVars PROVE WorkKept'
  BY <1>2, LinesStay, WorkStays DEF lineageVars
<1>3. ASSUME NEW f \in Existing, NEW i \in IntentsAt(State(f)), Apply(f, i, NoReads)
      PROVE  Grown(f)
  <2>1. i \in Intents /\ NoReads \in Reads
    BY <1>0, StateIs, AskedTypes DEF Reads, NoReads
  <2> QED BY <1>0, <1>3, <2>1, ApplyKeeps
<1>4. \A f \in Existing : \A m \in History(f) : Repoint(f, m) => Grown(f)
  BY <1>0, RepointKeeps
<1>5. \A f \in Existing : \A a, b \in 1..Len(log[f]) : FuseSpan(f, a, b) => Grown(f)
  BY <1>0, FuseKeeps
<1>6. \A s \in Existing, t \in Targets : Union(s, t) => t \in Forks /\ Grown(t)
  BY <1>0, UnionKeeps, ForkAssumption
<1>7. \A n \in Forks, from \in Bases : CreateFork(n, from) => log' = log
  BY DEF CreateFork
<1>8. \A f \in Existing : Snapshot(f) => log' = log
  BY DEF Snapshot
<1> QED BY <1>0, <1>1, <1>2, <1>3, <1>4, <1>5, <1>6, <1>7, <1>8, RemoveLeaves
        DEF LineageNext, lineageVars, vars

\* WorkKept: however forks are forked, unioned, fused, repointed and removed, a
\* line of a fork removed without --force is, itself or as a copy that unions
\* carried on, in a fork that exists (remove_fork's refusal to delete what is
\* not subsumed), as long as --force deleted no copy.
THEOREM RemovalKeepsWork == LineageSpec => []WorkKept
<1>1. LineageInit => WorkKept
  BY DEF LineageInit, WorkKept
<1>2. LineageInv /\ WorkKept /\ [LineageNext]_<<vars, lineageVars>> => LineageInv' /\ WorkKept'
  BY LineageKeeps, WorkStep
<1>3. LineageInit => LineageInv
  BY LineageStarts
<1> QED BY <1>1, <1>2, <1>3, PTL DEF LineageSpec

-----------------------------------------------------------------------------
(* Revisions.                                                              *)

\* A line a lineage shows is in the repository, and its id names one line.
LEMMA ShownIs ==
  ASSUME UnionInv, NEW g \in Existing, NEW x, Shows(g, x)
  PROVE  /\ x.line \in AllLines /\ x.line.id # NoId
         /\ \A c \in Existing : \A y : Shows(c, y) /\ y.line.id = x.line.id => y = x
<1>1. \A c \in Existing : c \in Forks /\ log[c] \in Seq(Line) /\ Marked(c, log[c])
  BY DEF Existing, UnionInv, LogInv
<1>2. ASSUME NEW c \in Existing, NEW y, Shows(c, y)
      PROVE  \E j \in 1..Len(log[c]) :
               y = [fork |-> c, line |-> log[c][j]] /\ y.line.id = LineId(c, j)
  <2>1. PICK j \in 1..Len(log[c]) : y = [fork |-> c, line |-> log[c][j]]
    BY <1>2 DEF Shows
  <2>2. log[c][j].id = LineId(c, j)
    BY <1>1 DEF Marked
  <2> QED BY <2>1, <2>2
<1>3. PICK j \in 1..Len(log[g]) : x = [fork |-> g, line |-> log[g][j]] /\ x.line.id = LineId(g, j)
  BY <1>2
<1>4. x.line \in AllLines
  <2>1. DOMAIN log[g] = 1..Len(log[g])
    BY <1>1
  <2>2. log[g][j] \in ToSet(log[g])
    BY <2>1 DEF ToSet
  <2> QED BY <1>1, <1>3, <2>2 DEF AllLines
<1>5. x.line.id # NoId
  <2>1. g \in Forks /\ j \in Nat
    BY <1>1
  <2> QED BY <1>3, <2>1, Ids
<1>6. ASSUME NEW c \in Existing, NEW y, Shows(c, y), y.line.id = x.line.id PROVE y = x
  <2>1. PICK k \in 1..Len(log[c]) : y = [fork |-> c, line |-> log[c][k]] /\ y.line.id = LineId(c, k)
    BY <1>2, <1>6
  <2>2. c = g /\ k = j
    BY <1>3, <1>6, <2>1 DEF LineId
  <2> QED BY <1>3, <2>1, <2>2
<1> QED BY <1>4, <1>5, <1>6

\* The state point i of fork f's lineage is in.
SumAt(f, i) == LineageStates(f)[i].sum

\* The points of a rooted fork's lineage.
LEMMA PointsAre ==
  ASSUME LineageInv, NEW f \in Existing, Rooted(f)
  PROVE  LET h == ContinuityLog(f)
             pts == LineageStates(f)
             n == Len(h)
         IN  /\ n \in Nat /\ DOMAIN pts = 0..n /\ Newest(pts) = n
             /\ pts[0].line = NoId /\ pts[n].sum = State(f)
             /\ h # <<>> => pts[0].sum = LineageBase(f)
             /\ \A i \in 1..n : /\ pts[i].line = h[i].line.id /\ pts[i].sum = h[i].line.after
                                /\ pts[i].line # NoId /\ h[i].line \in AllLines
             /\ \A i, j \in 1..n : i # j => pts[i].line # pts[j].line
<1> DEFINE h == ContinuityLog(f)
           b == LineageBase(f)
           l == Plain(h)
           pts == LineageStates(f)
           n == Len(h)
<1>1. /\ h \in Seq(Shown) /\ l \in Seq(Line)
      /\ Len(l) = Len(h) /\ \A i \in 1..Len(h) : l[i] = h[i].line
      /\ b \in Manifest /\ Led(l, b) /\ Tip(l, b) = State(f)
      /\ \A i, j \in 1..Len(h) : i # j => h[i].line.id # h[j].line.id
      /\ \A i \in 1..Len(h) : h[i].fork \in Existing /\ Shows(h[i].fork, h[i])
  BY HistoryIs
<1>2. pts = PointsOf(h, State(f))
  BY DEF LineageStates
<1> HIDE DEF h, b, l, pts
<1>3. n \in Nat /\ (h = <<>> <=> n = 0) /\ (l = <<>> <=> n = 0)
  BY <1>1
<1> DEFINE before == IF h = <<>> THEN State(f) ELSE Result(h[1].line.after, Undone(h[1].line))
<1>4. pts = [i \in 0..n |-> IF i = 0 THEN [sum |-> before, line |-> NoId]
                            ELSE [sum |-> h[i].line.after, line |-> h[i].line.id]]
  BY <1>2 DEF PointsOf
<1>5. h # <<>> => before = b
  <2>1. SUFFICES ASSUME h # <<>> PROVE Result(h[1].line.after, Undone(h[1].line)) = b
    OBVIOUS
  <2>2. 1 \in 1..n /\ l[1] = h[1].line /\ l[1] \in Line
    BY <1>1, <1>3, <2>1
  <2>3. Follows(l[1], b)
    BY <1>1, <2>2 DEF Led, Before
  <2> QED BY <1>1, <2>2, <2>3, UndoneIs
<1>6. h = <<>> => before = State(f)
  OBVIOUS
<1> HIDE DEF before
<1>7. 0 \in 0..n /\ \A i \in 1..n : i \in 0..n /\ i # 0
  BY <1>3
<1>8. DOMAIN pts = 0..n /\ pts[0].line = NoId /\ pts[0].sum = before
  BY <1>4, <1>7
<1>9. \A i \in 1..n : pts[i].line = h[i].line.id /\ pts[i].sum = h[i].line.after
  BY <1>4, <1>7
<1>10. \A i \in 1..n : h[i].line.id # NoId /\ h[i].line \in AllLines
  BY <1>1, ShownIs DEF LineageInv
<1>11. Newest(pts) = n
  <2>1. 0 \in Int /\ n \in Int /\ ~(0 > n)
    BY <1>3
  <2>2. Cardinality(0..n) = n - 0 + 1
    BY <2>1, FS_Interval
  <2> QED BY <1>3, <1>8, <2>2 DEF Newest
<1>12. pts[n].sum = State(f)
  <2>1. CASE n = 0
    BY <1>3, <1>6, <1>8, <2>1
  <2>2. CASE n # 0
    <3>1. n \in 1..n /\ l # <<>>
      BY <1>3, <2>2
    <3> QED BY <1>1, <1>9, <3>1 DEF Tip
  <2> QED BY <2>1, <2>2
<1>13. \A i, j \in 1..n : i # j => pts[i].line # pts[j].line
  BY <1>1, <1>9
<1>14. h # <<>> => pts[0].sum = b
  BY <1>5, <1>8
<1> HIDE DEF n
<1> QED BY <1>3, <1>8, <1>9, <1>10, <1>11, <1>12, <1>13, <1>14 DEF h, b, pts, n

\* A place on a lineage, or none.
OnLineage(p) ==
  /\ p.fork \in Existing /\ p.at \in 0..Len(ContinuityLog(p.fork))
  /\ p = [fork |-> p.fork, at |-> p.at]
IsPlace(p) == p = NoPlace \/ OnLineage(p)

\* The last of some points is one of them.
LEMMA LastPointIs ==
  ASSUME NEW f \in Forks, NEW at, NEW n \in Nat, at \subseteq 0..n
  PROVE  /\ at = {} => LastPoint(f, at) = NoPlace
         /\ at # {} => /\ LastPoint(f, at) # NoPlace
                       /\ LastPoint(f, at).fork = f /\ LastPoint(f, at).at \in at
                       /\ LastPoint(f, at) = [fork |-> f, at |-> LastPoint(f, at).at]
<1>1. CASE at = {}
  BY <1>1 DEF LastPoint
<1>2. CASE at # {}
  <2>1. at \subseteq Nat /\ \A x \in at : x <= n
    OBVIOUS
  <2>2. Max(at) \in at /\ \A y \in at : y <= Max(at)
    BY <1>2, <2>1, MaxIn
  <2> DEFINE i == CHOOSE i \in at : \A j \in at : j <= i
  <2>3. i \in at
    BY <2>2
  <2>4. LastPoint(f, at) = [fork |-> f, at |-> i]
    BY <1>2 DEF LastPoint
  <2> HIDE DEF i
  <2>5. f # NoFork
    BY ForkAssumption
  <2> QED BY <1>2, <2>3, <2>4, <2>5 DEF NoPlace
<1> QED BY <1>1, <1>2

\* A place at fork f's point i is one, and its state is that point's.
LEMMA PlaceIs ==
  ASSUME NEW f \in Existing, NEW i \in 0..Len(ContinuityLog(f)), NEW p,
         p = [fork |-> f, at |-> i]
  PROVE  OnLineage(p) /\ p # NoPlace /\ PointAt(p) = LineageStates(f)[i]
<1>1. p.fork = f /\ p.at = i /\ f # NoFork
  BY ForkAssumption DEF Existing
<1> QED BY <1>1 DEF OnLineage, NoPlace, PointAt

\* A fork and HEAD name the newest point.
LEMMA NewestIs ==
  ASSUME LineageInv, NEW f \in Existing, Rooted(f), NEW p,
         p = [fork |-> f, at |-> Newest(LineageStates(f))]
  PROVE  OnLineage(p) /\ p # NoPlace /\ PointAt(p).sum = State(f)
<1> DEFINE n == Len(ContinuityLog(f))
<1>1. n \in Nat /\ Newest(LineageStates(f)) = n /\ LineageStates(f)[n].sum = State(f)
  BY PointsAre
<1>2. n \in 0..n
  BY <1>1
<1> QED BY <1>1, <1>2, PlaceIs

\* A state is searched for on one lineage; the place found is in it.
LEMMA SumOn ==
  ASSUME LineageInv, NEW f \in Existing, Rooted(f), NEW m
  PROVE  LET p == LastPoint(f, WithSum(f, m))
         IN  p # NoPlace => OnLineage(p) /\ PointAt(p).sum = m
<1> DEFINE at == WithSum(f, m)
           n == Len(ContinuityLog(f))
           p == LastPoint(f, at)
<1>1. n \in Nat /\ DOMAIN LineageStates(f) = 0..n
  BY PointsAre
<1>2. at \subseteq 0..n /\ \A i \in at : LineageStates(f)[i].sum = m
  BY <1>1 DEF WithSum
<1>3. f \in Forks
  BY DEF Existing
<1> HIDE DEF at, n
<1>4. p # NoPlace => p = [fork |-> f, at |-> p.at] /\ p.at \in at
  BY <1>1, <1>2, <1>3, LastPointIs
<1> HIDE DEF p
<1>5. SUFFICES ASSUME p # NoPlace PROVE OnLineage(p) /\ PointAt(p).sum = m
  BY DEF p, at
<1>6. p.at \in 0..n /\ LineageStates(f)[p.at].sum = m
  BY <1>2, <1>4, <1>5
<1> QED BY <1>4, <1>5, <1>6, PlaceIs DEF n

\* resolve_sum, and its search of the other lineages.
LEMMA SumIs ==
  ASSUME LineageInv, AllRooted, NEW f \in Existing, NEW m
  PROVE  LET p == ResolveSum(m, f)
         IN  p # NoPlace => OnLineage(p) /\ PointAt(p).sum = m
<1> DEFINE here == WithSum(f, m)
           carry == {g \in Existing : WithSum(g, m) # {}}
<1>1. ResolveSum(m, f) = IF here # {} \/ carry = {} THEN LastPoint(f, here)
                         ELSE LastPoint(First(carry), WithSum(First(carry), m))
  BY DEF ResolveSum
<1>2. CASE here # {} \/ carry = {}
  <2>1. LET p == LastPoint(f, WithSum(f, m))
        IN  p # NoPlace => OnLineage(p) /\ PointAt(p).sum = m
    BY SumOn DEF AllRooted
  <2> QED BY <1>1, <1>2, <2>1
<1>3. CASE ~(here # {} \/ carry = {})
  <2>1. First(carry) \in carry
    <3>1. carry \in SUBSET Forks
      BY DEF Existing
    <3> HIDE DEF carry
    <3> QED BY <1>3, <3>1, FirstIs
  <2> DEFINE g == First(carry)
  <2>2. g \in Existing
    BY <2>1
  <2> HIDE DEF g
  <2>3. LET p == LastPoint(g, WithSum(g, m))
        IN  p # NoPlace => OnLineage(p) /\ PointAt(p).sum = m
    BY <2>2, SumOn DEF AllRooted
  <2> QED BY <1>1, <1>3, <2>3 DEF g
<1> QED BY <1>2, <1>3

\* Where a line id stands on one lineage.
LEMMA LineOn ==
  ASSUME LineageInv, NEW f \in Existing, Rooted(f), NEW c, c # NoId
  PROVE  LET at == WithLine(f, {c})
             h == ContinuityLog(f)
         IN  /\ at = {i \in 1..Len(h) : h[i].line.id = c} /\ at \subseteq 0..Len(h)
             /\ \A i, j \in at : i = j
             /\ \A i \in at : \E x \in AllLines : x.id = c /\ LineageStates(f)[i].sum = x.after
<1> DEFINE h == ContinuityLog(f)
           pts == LineageStates(f)
           n == Len(h)
           at == WithLine(f, {c})
<1>1. /\ n \in Nat /\ DOMAIN pts = 0..n /\ pts[0].line = NoId
      /\ \A i \in 1..n : /\ pts[i].line = h[i].line.id /\ pts[i].sum = h[i].line.after
                         /\ h[i].line \in AllLines
      /\ \A i, j \in 1..n : i # j => pts[i].line # pts[j].line
  BY PointsAre
<1>2. at = {i \in DOMAIN pts : pts[i].line \in {c}}
  BY DEF WithLine
<1> HIDE DEF h, pts, at
<1>3. \A i \in 0..n : i = 0 \/ i \in 1..n
  BY <1>1
<1>4. at = {i \in 1..n : h[i].line.id = c} /\ at \subseteq 0..n
  <2>1. 1..n \subseteq 0..n
    BY <1>1
  <2> QED BY <1>1, <1>2, <1>3, <2>1
<1>5. \A i, j \in at : i = j
  BY <1>1, <1>4
<1>6. \A i \in at : \E x \in AllLines : x.id = c /\ pts[i].sum = x.after
  BY <1>1, <1>4
<1> QED BY <1>4, <1>5, <1>6 DEF h, pts, at

\* What a place a line id c resolved to is.
LineFound(p, c) ==
  OnLineage(p) /\ \E x \in AllLines : x.id = c /\ PointAt(p).sum = x.after

\* The last point with line c of a lineage, when it shows that line.
LEMMA LastLine ==
  ASSUME LineageInv, NEW f \in Existing, Rooted(f), NEW c, c # NoId
  PROVE  LET p == LastPoint(f, WithLine(f, {c}))
         IN  (p # NoPlace => LineFound(p, c)) /\ (WithLine(f, {c}) # {} => p # NoPlace)
<1> DEFINE at == WithLine(f, {c})
           n == Len(ContinuityLog(f))
           p == LastPoint(f, at)
<1>1. /\ n \in Nat /\ at \subseteq 0..n
      /\ \A i \in at : \E x \in AllLines : x.id = c /\ LineageStates(f)[i].sum = x.after
  BY LineOn, PointsAre
<1>2. f \in Forks
  BY DEF Existing
<1> HIDE DEF at
<1>3. /\ at # {} => p # NoPlace
      /\ p # NoPlace => p = [fork |-> f, at |-> p.at] /\ p.at \in at
  <2> HIDE DEF n
  <2> QED BY <1>1, <1>2, LastPointIs
<1> HIDE DEF p
<1>4. ASSUME p # NoPlace PROVE LineFound(p, c)
  <2>1. p.at \in 0..n /\ \E x \in AllLines : x.id = c /\ LineageStates(f)[p.at].sum = x.after
    BY <1>1, <1>3, <1>4
  <2>2. OnLineage(p) /\ PointAt(p) = LineageStates(f)[p.at]
    BY <1>3, <1>4, <2>1, PlaceIs
  <2> QED BY <2>1, <2>2 DEF LineFound
<1> QED BY <1>3, <1>4 DEF p, at

\* resolve_line_id_global finds a line that some fork still has.
LEMMA LineGlobal ==
  ASSUME LineageInv, AllRooted, NEW c, c # NoId
  PROVE  LET p == ResolveLineGlobal({c})
         IN  /\ p # NoPlace => LineFound(p, c)
             /\ (\E x \in AllLines : x.id = c) => p # NoPlace
<1> DEFINE met == {g \in Existing : Met(g, {c}) # {}}
           found == UNION {{ContinuityLog(g)[i].line.id : i \in Met(g, {c})} : g \in met}
           f == First(met)
           author == ContinuityLog(f)[Min(Met(f, {c}))].fork
           p == ResolveLineGlobal({c})
<1>1. p = IF Cardinality(found) # 1 THEN NoPlace ELSE LastPoint(author, WithLine(author, found))
  BY DEF ResolveLineGlobal
<1>2. \A g \in met : \A i \in Met(g, {c}) : ContinuityLog(g)[i].line.id = c
  BY DEF Met
<1>3. CASE met = {}
  <2>1. found = {} /\ Cardinality(found) = 0
    <3>1. found = {}
      BY <1>3
    <3> QED BY <3>1, FS_EmptySet
  <2>2. p = NoPlace
    BY <1>1, <2>1
  <2>3. ASSUME NEW x \in AllLines, x.id = c PROVE FALSE
    <3>1. PICK g \in Forks : x \in ToSet(log[g])
      BY DEF AllLines
    <3>2. log[g] \in Seq(Line)
      BY DEF LineageInv, UnionInv, Typed
    <3>3. PICK j \in 1..Len(log[g]) : x = log[g][j]
      BY <3>1, <3>2 DEF ToSet
    <3>4. g \in Existing
      <4>1. anchor[g] = NoFork => log[g] = <<>>
        BY DEF LineageInv, UnionInv, LogInv
      <4>2. log[g] # <<>>
        BY <3>2, <3>3
      <4> QED BY <4>1, <4>2 DEF Existing
    <3>5. ShowsAll(g, ContinuityLog(g))
      BY <3>4, HistoryIs DEF AllRooted
    <3>6. PICK i \in 1..Len(ContinuityLog(g)) : ContinuityLog(g)[i] = [fork |-> g, line |-> log[g][j]]
      BY <3>5 DEF ShowsAll
    <3>7. i \in Met(g, {c})
      BY <2>3, <3>3, <3>6 DEF Met
    <3> QED BY <1>3, <3>4, <3>7
  <2> QED BY <2>2, <2>3
<1>4. CASE met # {}
  <2>1. f \in met
    <3>1. met \in SUBSET Forks
      BY DEF Existing
    <3> HIDE DEF met
    <3> QED BY <1>4, <3>1, FirstIs
  <2>2. found = {c}
    <3>1. \A z : z \in found <=> \E g \in met : \E k \in Met(g, {c}) : z = ContinuityLog(g)[k].line.id
      OBVIOUS
    <3>2. \E k \in Met(f, {c}) : TRUE
      BY <2>1
    <3> HIDE DEF found, met, f
    <3>3. \A z \in found : z = c
      BY <1>2, <3>1
    <3>4. c \in found
      BY <1>2, <2>1, <3>1, <3>2
    <3> QED BY <3>3, <3>4
  <2>3. Cardinality(found) = 1
    BY <2>2, FS_Singleton
  <2>4. f \in Existing /\ Met(f, {c}) # {} /\ Met(f, {c}) \subseteq 1..Len(ContinuityLog(f))
    BY <2>1 DEF Met
  <2> DEFINE i == Min(Met(f, {c}))
  <2>5. i \in Met(f, {c})
    <3> HIDE DEF f
    <3>1. Met(f, {c}) \subseteq Nat
      <4>1. \A k \in 1..Len(ContinuityLog(f)) : k \in Nat
        OBVIOUS
      <4> QED BY <2>4, <4>1
    <3> QED BY <2>4, <3>1, MinIn
  <2> HIDE DEF i, f
  <2>6. /\ author = ContinuityLog(f)[i].fork /\ i \in 1..Len(ContinuityLog(f))
        /\ ContinuityLog(f)[i].line.id = c
    BY <2>5 DEF i, Met
  <2> HIDE DEF author
  <2>7. author \in Existing /\ Shows(author, ContinuityLog(f)[i])
    BY <2>4, <2>6, HistoryIs DEF AllRooted
  <2>8. PICK j \in 1..Len(log[author]) :
          ContinuityLog(f)[i] = [fork |-> author, line |-> log[author][j]]
    BY <2>7 DEF Shows
  <2>9. ShowsAll(author, ContinuityLog(author))
    BY <2>7, HistoryIs DEF AllRooted
  <2>10. PICK k \in 1..Len(ContinuityLog(author)) : ContinuityLog(author)[k] = ContinuityLog(f)[i]
    BY <2>8, <2>9 DEF ShowsAll
  <2>11. WithLine(author, {c}) # {}
    <3>1. Rooted(author)
      BY <2>7 DEF AllRooted
    <3>2. WithLine(author, {c}) =
            {q \in 1..Len(ContinuityLog(author)) : ContinuityLog(author)[q].line.id = c}
      BY <2>7, <3>1, LineOn
    <3>3. ContinuityLog(author)[k].line.id = c
      BY <2>6, <2>10
    <3> QED BY <3>2, <3>3
  <2>12. LET q == LastPoint(author, WithLine(author, {c})) IN LineFound(q, c) /\ q # NoPlace
    BY <2>7, <2>11, LastLine DEF AllRooted
  <2>13. p = LastPoint(author, WithLine(author, {c}))
    <3> HIDE DEF p, found
    <3> QED BY <1>1, <2>2, <2>3
  <2> HIDE DEF p
  <2> QED BY <2>12, <2>13 DEF p
<1> QED BY <1>3, <1>4

\* resolve_line: on the fork's lineage, else anywhere.
LEMMA LineIs ==
  ASSUME LineageInv, AllRooted, NEW f \in Existing, NEW c, c # NoId
  PROVE  LET p == ResolveLine({c}, f)
         IN  /\ p # NoPlace => LineFound(p, c)
             /\ (\E x \in AllLines : x.id = c) => p # NoPlace
<1> DEFINE at == WithLine(f, {c})
           i == CHOOSE i \in at : TRUE
<1>0. Rooted(f)
  BY DEF AllRooted
<1>1. ResolveLine({c}, f) = IF at = {} THEN ResolveLineGlobal({c})
                            ELSE IF Cardinality(at) > 1 THEN NoPlace ELSE [fork |-> f, at |-> i]
  BY DEF ResolveLine
<1>2. CASE at = {}
  BY <1>1, <1>2, LineGlobal
<1>3. CASE at # {}
  <2>1. /\ at \subseteq 0..Len(ContinuityLog(f)) /\ \A j, k \in at : j = k
        /\ \A j \in at : \E x \in AllLines : x.id = c /\ LineageStates(f)[j].sum = x.after
    BY <1>0, LineOn
  <2>2. i \in at
    BY <1>3
  <2> HIDE DEF at, i
  <2>3. at = {i}
    BY <2>1, <2>2
  <2>4. Cardinality(at) = 1
    BY <2>3, FS_Singleton
  <2> DEFINE p == [fork |-> f, at |-> i]
  <2>5. ResolveLine({c}, f) = p
    BY <1>1, <1>3, <2>4
  <2>6. OnLineage(p) /\ p # NoPlace /\ PointAt(p) = LineageStates(f)[i]
    BY <2>1, <2>2, PlaceIs
  <2> HIDE DEF p
  <2>7. LineFound(p, c)
    BY <2>1, <2>2, <2>6 DEF LineFound
  <2> QED BY <2>5, <2>6, <2>7
<1> QED BY <1>2, <1>3

\* The suffixes of a revision, parsed.
StepsBack == Seq([op : {"~", "@"}, n : Nat])

\* One of them read from place q, where `top` is the newest point.
Back(top, q, s) ==
  LET from == IF s.op = "~" THEN q.at ELSE top
  IN  IF q = NoPlace THEN q
      ELSE IF from < s.n THEN NoPlace ELSE [q EXCEPT !.at = from - s.n]

\* However many steps back, a place is one on the same lineage, or none.
LEMMA SuffixedIs ==
  ASSUME LineageInv, AllRooted, NEW p, OnLineage(p), NEW suffixes \in StepsBack
  PROVE  /\ Suffixed(p, suffixes) = NoPlace \/ OnLineage(Suffixed(p, suffixes))
         /\ suffixes = <<>> => Suffixed(p, suffixes) = p
<1> DEFINE f == p.fork
           top == Newest(LineageStates(f))
           N == Len(ContinuityLog(f))
           A == {NoPlace} \cup {[fork |-> f, at |-> i] : i \in 0..N}
           n == Len(suffixes)
           Is(g) == g = [T \in SUBSET (DOMAIN suffixes) |->
                          IF T = {} THEN p ELSE Back(top, g[T \ {Max(T)}], suffixes[Max(T)])]
           g == CHOOSE h : Is(h)
<1>1. n \in Nat /\ DOMAIN suffixes = 1..n
      /\ \A i \in 1..n : suffixes[i].n \in Nat
  <2> DEFINE R == [op : {"~", "@"}, n : Nat]
  <2>1. \A x \in R : x.n \in Nat
    OBVIOUS
  <2> HIDE DEF R
  <2>2. suffixes \in Seq(R)
    BY DEF StepsBack, R
  <2> QED BY <2>1, <2>2
<1>p. f \in Existing /\ p.at \in 0..N /\ p = [fork |-> f, at |-> p.at] /\ p # NoPlace
  BY ForkAssumption DEF OnLineage, Existing, NoPlace
<1>t. top = N /\ N \in Nat
  BY <1>p, PointsAre DEF AllRooted
<1>2. Suffixed(p, suffixes) = g[DOMAIN suffixes]
  BY <1>p DEF Suffixed, Back, FoldLeft, MapThenFoldSet
<1>b. p \in A
  BY <1>p
<1> HIDE DEF f, top, N
<1>s. ASSUME NEW q \in A, NEW i \in 1..n PROVE Back(top, q, suffixes[i]) \in A
  <2> DEFINE s == suffixes[i]
             from == IF s.op = "~" THEN q.at ELSE top
  <2>1. s.n \in Nat
    BY <1>1
  <2>2. CASE q = NoPlace
    BY <2>2 DEF Back
  <2>3. CASE q # NoPlace
    <3>1. PICK j \in 0..N : q = [fork |-> f, at |-> j]
      BY <2>3
    <3>2. from \in 0..N
      BY <1>t, <3>1
    <3>3. Back(top, q, s) = IF from < s.n THEN NoPlace ELSE [fork |-> f, at |-> from - s.n]
      BY <2>3, <3>1 DEF Back
    <3> HIDE DEF from, s
    <3>4. ~(from < s.n) => from - s.n \in 0..N
      BY <1>t, <2>1, <3>2
    <3> QED BY <3>3, <3>4 DEF s
  <2> QED BY <2>2, <2>3
<1> HIDE DEF A
<1>3. \E h : Is(h)
  <2> DEFINE F == [z \in A \X (1..n) |-> Back(top, z[1], suffixes[z[2]])]
  <2>1. F \in [A \X (1..n) -> A]
    <3>1. ASSUME NEW z \in A \X (1..n) PROVE Back(top, z[1], suffixes[z[2]]) \in A
      <4>1. z[1] \in A /\ z[2] \in 1..n
        OBVIOUS
      <4> QED BY <1>s, <4>1
    <3> QED BY <3>1
  <2>2. PICK h : Folding(h, A, p, n, F)
    <3> HIDE DEF F, n
    <3> QED BY <1>1, <1>b, <2>1, FoldExists
  <2>3. ASSUME NEW T \in SUBSET (1..n), T # {}
        PROVE  F[<<h[T \ {Max(T)}], Max(T)>>] = Back(top, h[T \ {Max(T)}], suffixes[Max(T)])
    <3>1. T \subseteq Nat /\ \A x \in T : x <= n
      BY <1>1
    <3>2. Max(T) \in 1..n /\ T \ {Max(T)} \in SUBSET (1..n)
      BY <1>1, <2>3, <3>1, MaxIn
    <3>3. h[T \ {Max(T)}] \in A
      BY <2>2, <3>2 DEF Folding
    <3> QED BY <3>2, <3>3
  <2> HIDE DEF F
  <2>4. Is(h)
    BY <1>1, <2>2, <2>3 DEF Folding
  <2> QED BY <2>4
<1> HIDE DEF g
<1>4. Is(g)
  BY <1>3 DEF g
<1> DEFINE S == {k \in Nat : k <= n => g[1..k] \in A}
<1>5. g[1..0] = p
  <2>1. 1..0 = {} /\ {} \in SUBSET (DOMAIN suffixes)
    OBVIOUS
  <2> QED BY <1>4, <2>1
<1>6. ASSUME NEW k \in Nat, k \in S PROVE k + 1 \in S
  <2> SUFFICES ASSUME k + 1 <= n PROVE g[1..k + 1] \in A
    OBVIOUS
  <2>1. 1..k + 1 \in SUBSET (DOMAIN suffixes) /\ 1..k + 1 # {} /\ k <= n /\ k + 1 \in 1..n
    <3>1. k + 1 \in 1..k + 1 /\ k <= n /\ k + 1 \in 1..n
      BY <1>1
    <3>2. \A x \in 1..k + 1 : x \in 1..n
      BY <1>1
    <3> QED BY <1>1, <3>1, <3>2
  <2>2. Max(1..k + 1) = k + 1 /\ (1..k + 1) \ {k + 1} = 1..k
    BY MaxOfInterval
  <2>3. g[1..k + 1] = Back(top, g[1..k], suffixes[k + 1])
    BY <1>4, <2>1, <2>2
  <2> QED BY <1>s, <1>6, <2>1, <2>3
<1>7. n \in S
  <2>1. 0 \in S
    BY <1>b, <1>5
  <2> HIDE DEF S
  <2> QED BY <1>1, <2>1, <1>6, Induction
<1>8. Suffixed(p, suffixes) \in A
  BY <1>1, <1>2, <1>7
<1>9. Suffixed(p, suffixes) = NoPlace \/ OnLineage(Suffixed(p, suffixes))
  <2>1. SUFFICES ASSUME NEW i \in 0..N, Suffixed(p, suffixes) = [fork |-> f, at |-> i]
                 PROVE  OnLineage(Suffixed(p, suffixes))
    BY <1>8 DEF A
  <2> QED BY <1>p, <2>1, PlaceIs DEF N
<1>10. suffixes = <<>> => Suffixed(p, suffixes) = p
  <2>1. suffixes = <<>> => n = 0
    OBVIOUS
  <2> QED BY <1>1, <1>2, <1>5, <2>1
<1> QED BY <1>9, <1>10

\* What a reader may name, whatever the suffixes.
Named(r) ==
  \/ r = HeadRev
  \/ \E n \in Existing : r = ForkRev(n)
  \/ \E m : r = SumRev(m) \/ r = HexRev(m)
  \/ \E c : c # NoId /\ r = LineRev({c})

\* The base of a revision resolves to what it names.
LEMMA BaseIs ==
  ASSUME LineageInv, AllRooted, NEW f \in Existing, NEW r, Named(r)
  PROVE  IsPlace(ResolveBase(r, f)) /\ IsNamed(r, f, ResolveBase(r, f))
<1> DEFINE p == ResolveBase(r, f)
<1>0. \A g \in Existing : Rooted(g)
  BY DEF AllRooted
<1>1. CASE r = HeadRev
  <2>1. r.base = "head"
    BY <1>1 DEF HeadRev
  <2>2. p = [fork |-> f, at |-> Newest(LineageStates(f))]
    BY <2>1 DEF ResolveBase
  <2> HIDE DEF p
  <2>3. OnLineage(p) /\ PointAt(p).sum = State(f)
    BY <1>0, <2>2, NewestIs
  <2>4. IsNamed(r, f, p)
    BY <2>1, <2>3 DEF IsNamed
  <2> QED BY <2>3, <2>4 DEF p, IsPlace
<1>2. ASSUME NEW n \in Existing, r = ForkRev(n) PROVE IsPlace(p) /\ IsNamed(r, f, p)
  <2>1. r.base = "fork" /\ r.name = n
    BY <1>2 DEF ForkRev
  <2>2. p = [fork |-> n, at |-> Newest(LineageStates(n))]
    BY <2>1 DEF ResolveBase
  <2> HIDE DEF p
  <2>3. OnLineage(p) /\ PointAt(p).sum = State(n)
    BY <1>0, <2>2, NewestIs
  <2>4. IsNamed(r, f, p)
    BY <2>1, <2>3 DEF IsNamed
  <2> QED BY <2>3, <2>4 DEF IsPlace
<1>3. ASSUME NEW m, r = SumRev(m) PROVE IsPlace(p) /\ IsNamed(r, f, p)
  <2>1. r.base = "sum:" /\ r.sum = m
    BY <1>3 DEF SumRev
  <2>2. p = ResolveSum(m, f)
    BY <2>1 DEF ResolveBase
  <2> HIDE DEF p
  <2>3. p # NoPlace => OnLineage(p) /\ PointAt(p).sum = m
    BY <2>2, SumIs
  <2>4. IsNamed(r, f, p)
    BY <2>1, <2>3 DEF IsNamed
  <2> QED BY <2>3, <2>4 DEF IsPlace
<1>4. ASSUME NEW m, r = HexRev(m) PROVE IsPlace(p) /\ IsNamed(r, f, p)
  <2>1. r.base = "hex" /\ r.sum = m
    BY <1>4 DEF HexRev
  <2>2. p = LastPoint(f, WithSum(f, m))
    BY <2>1 DEF ResolveBase
  <2> HIDE DEF p
  <2>3. p # NoPlace => OnLineage(p) /\ PointAt(p).sum = m
    BY <1>0, <2>2, SumOn
  <2>4. IsNamed(r, f, p)
    BY <2>1, <2>3 DEF IsNamed
  <2> QED BY <2>3, <2>4 DEF IsPlace
<1>5. ASSUME NEW c, c # NoId, r = LineRev({c}) PROVE IsPlace(p) /\ IsNamed(r, f, p)
  <2>1. r.base = "line:" /\ r.ids = {c}
    BY <1>5 DEF LineRev
  <2>2. p = ResolveLine({c}, f)
    BY <2>1 DEF ResolveBase
  <2> HIDE DEF p
  <2>3. /\ p # NoPlace => LineFound(p, c)
        /\ (\E x \in AllLines : x.id = c) => p # NoPlace
    BY <1>5, <2>2, LineIs
  <2>4. p # NoPlace => OnLineage(p) /\ \E x \in AllLines : {x.id} = r.ids /\ PointAt(p).sum = x.after
    BY <2>1, <2>3 DEF LineFound
  <2>5. (\E x \in AllLines : {x.id} = r.ids) => p # NoPlace
    BY <2>1, <2>3
  <2>6. IsNamed(r, f, p)
    BY <2>1, <2>4, <2>5 DEF IsNamed
  <2> QED BY <2>4, <2>6 DEF IsPlace
<1> QED BY <1>1, <1>2, <1>3, <1>4, <1>5 DEF Named

\* Resolve gives a place or none; without suffixes it is what the base names.
LEMMA ResolveIs ==
  ASSUME LineageInv, AllRooted, NEW f \in Existing, NEW r, Named(r), NEW suffixes \in StepsBack
  PROVE  /\ IsPlace(Resolve(r, suffixes, f))
         /\ suffixes = <<>> => IsNamed(r, f, Resolve(r, suffixes, f))
<1> DEFINE p == ResolveBase(r, f)
<1>1. IsPlace(p) /\ IsNamed(r, f, p)
  BY BaseIs
<1>2. Resolve(r, suffixes, f) = Suffixed(p, suffixes)
  BY DEF Resolve
<1> HIDE DEF p
<1>3. CASE p = NoPlace
  <2>1. Suffixed(p, suffixes) = p
    BY <1>3 DEF Suffixed
  <2> QED BY <1>1, <1>2, <2>1
<1>4. CASE p # NoPlace
  BY <1>1, <1>2, <1>4, SuffixedIs DEF IsPlace
<1> QED BY <1>3, <1>4

RelicsNamed == \A x \in relics : x.id # NoId

\* Removed lines had ids.
LEMMA RelicsStay ==
  LineageInv /\ RelicsNamed /\ [LineageNext]_<<vars, lineageVars>> => RelicsNamed'
<1> SUFFICES ASSUME LineageInv, RelicsNamed, [LineageNext]_<<vars, lineageVars>>
             PROVE  RelicsNamed'
  OBVIOUS
<1>1. CASE relics' = relics
  BY <1>1 DEF RelicsNamed
<1>2. ASSUME NEW n \in Forks, NEW force \in BOOLEAN, RemoveFork(n, force) PROVE RelicsNamed'
  <2>1. n \in Existing /\ relics' = relics \cup ToSet(log[n])
    BY <1>2 DEF RemoveFork
  <2>2. ASSUME NEW x \in ToSet(log[n]) PROVE x.id # NoId
    <3>1. log[n] \in Seq(Line) /\ Marked(n, log[n])
      BY DEF LineageInv, UnionInv, LogInv
    <3>2. PICK j \in 1..Len(log[n]) : x = log[n][j]
      BY <3>1 DEF ToSet
    <3>3. x.id = LineId(n, j) /\ j \in Nat
      BY <3>1, <3>2 DEF Marked
    <3> QED BY <3>3, Ids
  <2> QED BY <2>1, <2>2 DEF RelicsNamed
<1> QED BY <1>1, <1>2 DEF LineageNext, lineageVars

\* Every revision a reader may name is one of the four kinds.
LEMMA RevisionsNamed ==
  ASSUME LineageInv, RelicsNamed, NEW r \in Revisions
  PROVE  Named(r)
<1>1. \A x \in AllLines : x.id # NoId
  <2> SUFFICES ASSUME NEW g \in Forks, NEW x \in ToSet(log[g]) PROVE x.id # NoId
    BY DEF AllLines
  <2>1. log[g] \in Seq(Line) /\ Marked(g, log[g])
    BY DEF LineageInv, UnionInv, LogInv
  <2>2. PICK j \in 1..Len(log[g]) : x = log[g][j]
    BY <2>1 DEF ToSet
  <2>3. x.id = LineId(g, j) /\ j \in Nat
    BY <2>1, <2>2 DEF Marked
  <2> QED BY <2>3, Ids
<1>2. \A x \in AllLines \cup relics : x.id # NoId
  BY <1>1 DEF RelicsNamed
<1> DEFINE H == UNION {History(f) : f \in Existing}
<1> HIDE DEF H
<1>3. \/ r = HeadRev
      \/ \E n \in Existing : r = ForkRev(n)
      \/ \E m \in H : r \in {SumRev(m), HexRev(m)}
      \/ \E x \in AllLines \cup relics : r = LineRev({x.id})
  BY DEF Revisions, H
<1>4. ASSUME NEW m, r \in {SumRev(m), HexRev(m)} PROVE Named(r)
  BY <1>4 DEF Named
<1>5. ASSUME NEW x \in AllLines \cup relics, r = LineRev({x.id}) PROVE Named(r)
  BY <1>2, <1>5 DEF Named
<1> QED BY <1>3, <1>4, <1>5 DEF Named

\* RevisionsResolve: on whatever fork a revision is read, the place it resolves
\* to is what it says: HEAD and a fork, the current state; a sum, that state; a
\* line id, the state that line led to, on the fork's lineage or on the one
\* that shows it (resolve_base, resolve_sum_global, resolve_line_id_global);
\* and the id of a line some fork has resolves, while all lineages have roots.
THEOREM RevisionsName == LineageSpec => []RevisionsResolve
<1>1. LineageInv /\ RelicsNamed => RevisionsResolve
  <2> SUFFICES ASSUME LineageInv, RelicsNamed, AllRooted,
                      NEW f \in Existing, NEW r \in Revisions
               PROVE  IsNamed(r, f, Resolve(r, <<>>, f))
    BY DEF RevisionsResolve
  <2>1. <<>> \in StepsBack
    BY DEF StepsBack
  <2> QED BY <2>1, RevisionsNamed, ResolveIs
<1>2. LineageInv /\ RelicsNamed /\ [LineageNext]_<<vars, lineageVars>>
        => LineageInv' /\ RelicsNamed'
  BY LineageKeeps, RelicsStay
<1>3. LineageInit => LineageInv /\ RelicsNamed
  BY LineageStarts DEF LineageInit, RelicsNamed
<1> QED BY <1>1, <1>2, <1>3, PTL DEF LineageSpec

-----------------------------------------------------------------------------
(* Ranges.                                                                 *)

\* The lines between two points of a lineage carry the one's state to the
\* other's.
LEMMA PointsCarry ==
  ASSUME LineageInv, NEW f \in Existing, Rooted(f),
         NEW s \in Nat, NEW e \in 1..Len(ContinuityLog(f)), s < e
  PROVE  Forward(SumAt(f, s), [i \in 1..e - s |-> ContinuityLog(f)[s + 1 + i - 1].line])
           = SumAt(f, e)
<1> DEFINE h == ContinuityLog(f)
           b == LineageBase(f)
           l == Plain(h)
           n == Len(h)
           u == [i \in 1..e - s |-> h[s + 1 + i - 1].line]
           m == SumAt(f, s)
<1>1. /\ h \in Seq(Shown) /\ l \in Seq(Line)
      /\ Len(l) = n /\ \A i \in 1..n : l[i] = h[i].line
      /\ b \in Manifest /\ Led(l, b)
  BY HistoryIs
<1>2. /\ h # <<>> => SumAt(f, 0) = b
      /\ \A i \in 1..n : SumAt(f, i) = h[i].line.after
  BY PointsAre DEF SumAt
<1>0. e \in 1..n /\ s < e
  OBVIOUS
<1> HIDE DEF h, b, l, m
<1>3. n \in Nat /\ h # <<>> /\ e \in 1..n /\ s < e
  <2>1. n \in Nat /\ (h = <<>> => n = 0)
    BY <1>1
  <2> QED BY <1>0, <2>1
<1>4. \A i \in 1..n : l[i] \in Line /\ l[i].after \in Manifest
  <2>1. \A i \in 1..n : l[i] \in Line
    BY <1>1
  <2> QED BY <2>1 DEF Line
<1>5. ASSUME NEW i \in 1..e - s
      PROVE  u[i] = l[s + i] /\ s + i \in 1..n /\ (i # 1 => i - 1 \in 1..e - s)
  <2>1. s + 1 + i - 1 = s + i /\ s + i \in 1..n
    BY <1>3
  <2> QED BY <1>1, <2>1
<1>6. u \in Seq(Line) /\ Len(u) = e - s /\ e - s \in 1..e - s /\ u # <<>>
  <2>1. e - s \in Nat /\ e - s \in 1..e - s
    BY <1>3
  <2>2. \A i \in 1..e - s : h[s + 1 + i - 1].line \in Line
    BY <1>4, <1>5
  <2> QED BY <2>1, <2>2
<1> HIDE DEF u
<1>7. m = IF s = 0 THEN b ELSE l[s].after
  <2>1. s # 0 => s \in 1..n
    BY <1>3
  <2> QED BY <1>1, <1>2, <1>3, <2>1 DEF m
<1>8. m \in Manifest
  <2>1. s # 0 => s \in 1..n
    BY <1>3
  <2> QED BY <1>1, <1>4, <1>7, <2>1
<1>9. Led(u, m)
  <2> SUFFICES ASSUME NEW i \in 1..e - s PROVE Follows(u[i], Before(u, m, i))
    BY <1>6 DEF Led
  <2>1. u[i] = l[s + i] /\ s + i \in 1..n /\ (i # 1 => i - 1 \in 1..e - s)
    BY <1>5
  <2>2. Before(u, m, i) = Before(l, b, s + i)
    <3>1. CASE i = 1
      <4>1. (s + i = 1 <=> s = 0) /\ (s + i) - 1 = s
        BY <3>1
      <4> QED BY <1>7, <3>1, <4>1 DEF Before
    <3>2. CASE i # 1
      <4>1. s + i # 1 /\ (s + i) - 1 = s + (i - 1)
        BY <3>2
      <4>2. u[i - 1] = l[s + (i - 1)]
        BY <1>5, <2>1, <3>2
      <4> QED BY <3>2, <4>1, <4>2 DEF Before
    <3> QED BY <3>1, <3>2
  <2>3. Follows(l[s + i], Before(l, b, s + i))
    BY <1>1, <2>1 DEF Led
  <2> QED BY <2>1, <2>2, <2>3
<1>10. Forward(m, u) = Tip(u, m)
  BY <1>6, <1>8, <1>9, ForwardLed
<1>11. Tip(u, m) = SumAt(f, e)
  <2>1. u[e - s] = l[s + (e - s)] /\ s + (e - s) = e
    BY <1>3, <1>5, <1>6
  <2>2. Tip(u, m) = l[e].after
    BY <1>6, <2>1 DEF Tip
  <2> QED BY <1>1, <1>2, <1>3, <2>2
<1> QED BY <1>10, <1>11 DEF u, m, h

\* The position of a place on another fork's lineage is in the same state.
LEMMA PositionIs ==
  ASSUME LineageInv, AllRooted, NEW f \in Existing, NEW q, OnLineage(q)
  PROVE  LET p == Position(q, f)
         IN  p # NoPlace => /\ p.fork = f /\ p.at \in 0..Len(ContinuityLog(f))
                            /\ SumAt(f, p.at) = PointAt(q).sum
<1> DEFINE to == PointAt(q)
           g == q.fork
           h == ContinuityLog(f)
           k == ContinuityLog(g)
           p == Position(q, f)
<1>1. g \in Existing /\ q.at \in 0..Len(k) /\ q # NoPlace /\ Rooted(f) /\ Rooted(g)
      /\ to = LineageStates(g)[q.at]
  BY ForkAssumption DEF OnLineage, Existing, NoPlace, AllRooted, PointAt
<1>2. /\ Len(k) \in Nat /\ LineageStates(g)[0].line = NoId
      /\ \A i \in 1..Len(k) : /\ LineageStates(g)[i].line = k[i].line.id
                              /\ LineageStates(g)[i].sum = k[i].line.after
  BY <1>1, PointsAre
<1>3. p = IF to.line # NoId THEN LastPoint(f, WithLine(f, {to.line}))
          ELSE IF to.sum = LineageStates(f)[0].sum THEN [fork |-> f, at |-> 0] ELSE NoPlace
  BY <1>1 DEF Position
<1>4. Len(h) \in Nat /\ \A i \in 1..Len(h) : SumAt(f, i) = h[i].line.after
  BY <1>1, PointsAre DEF SumAt
<1> HIDE DEF to, p
<1>5. CASE to.line = NoId
  <2>1. p # NoPlace => p = [fork |-> f, at |-> 0] /\ to.sum = LineageStates(f)[0].sum
    BY <1>3, <1>5
  <2> QED BY <1>4, <2>1 DEF to, p, SumAt
<1>6. CASE to.line # NoId
  <2> DEFINE c == to.line
             at == WithLine(f, {c})
  <2>1. at = {i \in 1..Len(h) : h[i].line.id = c} /\ at \subseteq 0..Len(h)
    <3> HIDE DEF c
    <3> QED BY <1>1, <1>6, LineOn DEF c
  <2>2. f \in Forks
    BY DEF Existing
  <2>3. p = LastPoint(f, at)
    BY <1>3, <1>6
  <2> HIDE DEF at
  <2>4. p # NoPlace => p.fork = f /\ p.at \in at
    <3> HIDE DEF h
    <3> QED BY <1>4, <2>1, <2>2, <2>3, LastPointIs
  <2>5. SUFFICES ASSUME p # NoPlace
                 PROVE  p.fork = f /\ p.at \in 0..Len(h) /\ SumAt(f, p.at) = to.sum
    BY DEF p, to
  <2>6. p.fork = f /\ p.at \in 1..Len(h) /\ p.at \in 0..Len(h) /\ h[p.at].line.id = c
    BY <2>1, <2>4, <2>5
  <2>7. q.at \in 1..Len(k) /\ c = k[q.at].line.id /\ to.sum = k[q.at].line.after
    <3>1. q.at # 0
      BY <1>1, <1>2, <1>6
    <3>2. q.at \in 1..Len(k)
      BY <1>1, <1>2, <3>1
    <3> QED BY <1>1, <1>2, <3>2
  <2>8. h[p.at].fork \in Existing /\ Shows(h[p.at].fork, h[p.at])
    BY <1>1, <2>6, HistoryIs
  <2>9. k[q.at].fork \in Existing /\ Shows(k[q.at].fork, k[q.at])
    BY <1>1, <2>7, HistoryIs
  <2>10. h[p.at] = k[q.at]
    <3> DEFINE x == k[q.at]
               y == h[p.at]
    <3>1. y.line.id = x.line.id /\ x.fork \in Existing /\ y.fork \in Existing
          /\ Shows(x.fork, x) /\ Shows(y.fork, y) /\ UnionInv
      BY <2>6, <2>7, <2>8, <2>9 DEF LineageInv
    <3> HIDE DEF x, y
    <3>2. x = y
      BY <3>1, ShownIs
    <3> QED BY <3>2 DEF x, y
  <2> QED BY <1>4, <2>6, <2>7, <2>10
<1> QED BY <1>5, <1>6

\* Where a range may start or end is one of the revisions of BaseIs.
LEMMA EndsNamed ==
  ASSUME LineageInv, NEW f \in Existing
  PROVE  /\ \A a \in Starts : Named(a.rev) /\ a.suffixes \in StepsBack
         /\ \A b \in Ends(f) : Named(b.rev) /\ b.suffixes \in StepsBack
<1>1. \A x \in AllLines : Named(LineRev({x.id}))
  <2> SUFFICES ASSUME NEW g \in Forks, NEW x \in ToSet(log[g]) PROVE Named(LineRev({x.id}))
    BY DEF AllLines
  <2>1. log[g] \in Seq(Line) /\ Marked(g, log[g])
    BY DEF LineageInv, UnionInv, LogInv
  <2>2. PICK j \in 1..Len(log[g]) : x = log[g][j]
    BY <2>1 DEF ToSet
  <2>3. x.id = LineId(g, j) /\ j \in Nat
    BY <2>1, <2>2 DEF Marked
  <2> QED BY <2>3, Ids DEF Named
<1>2. <<>> \in StepsBack /\ <<[op |-> "~", n |-> 1]>> \in StepsBack
  BY DEF StepsBack
<1>3. Named(HeadRev)
  BY DEF Named
<1>4. \A c \in IdsOf(log[f]) : \E x \in AllLines : x.id = c
  <2> SUFFICES ASSUME NEW j \in 1..Len(log[f]) PROVE \E x \in AllLines : x.id = log[f][j].id
    BY DEF IdsOf
  <2>1. f \in Forks /\ log[f] \in Seq(Line)
    BY DEF Existing, LineageInv, UnionInv, Typed
  <2>2. DOMAIN log[f] = 1..Len(log[f])
    BY <2>1
  <2>3. log[f][j] \in AllLines
    BY <2>1, <2>2 DEF AllLines, ToSet
  <2> QED BY <2>3
<1> DEFINE RevsA == {HeadRev} \cup {LineRev({x.id}) : x \in AllLines}
           RevsB == {HeadRev} \cup {LineRev({x}) : x \in IdsOf(log[f])}
<1>5. \A r \in RevsA : Named(r)
  BY <1>1, <1>3
<1>6. \A r \in RevsB : Named(r)
  BY <1>1, <1>3, <1>4
<1>7. /\ Starts = [rev : RevsA, suffixes : {<<>>, <<[op |-> "~", n |-> 1]>>}]
      /\ Ends(f) = [rev : RevsB, suffixes : {<<>>}]
  BY DEF Starts, Ends
<1> HIDE DEF RevsA, RevsB
<1> QED BY <1>2, <1>5, <1>6, <1>7

\* A range between two places, read on the right end's lineage.
LEMMA BetweenCarries ==
  ASSUME LineageInv, AllRooted, NEW left, IsPlace(left), NEW right, OnLineage(right)
  PROVE  Carries(Between(left, right))
<1> DEFINE f == right.fork
           start == Position(left, f)
           end == Position(right, f)
           w == Between(left, right)
           n == Len(ContinuityLog(f))
<1>1. f \in Existing /\ Rooted(f)
  BY DEF OnLineage, AllRooted
<1>2. w = IF NoPlace \in {left, start, right, end} THEN NoRange
          ELSE [fork |-> f, shown |-> Span(start, end),
                from |-> PointAt(left).sum, to |-> PointAt(right).sum]
  BY DEF Between, Bounds
<1>3. CASE NoPlace \in {left, start, right, end}
  <2>1. w = NoRange
    BY <1>2, <1>3
  <2> QED BY <2>1 DEF Carries
<1>4. CASE NoPlace \notin {left, start, right, end}
  <2>1. OnLineage(left) /\ start # NoPlace /\ end # NoPlace
    BY <1>4 DEF IsPlace
  <2>2. start.fork = f /\ start.at \in 0..n /\ SumAt(f, start.at) = PointAt(left).sum
    BY <1>1, <2>1, PositionIs
  <2>3. end.fork = f /\ end.at \in 0..n /\ SumAt(f, end.at) = PointAt(right).sum
    BY <1>1, <2>1, PositionIs
  <2>4. n \in Nat
    BY <1>1, PointsAre
  <2>5. /\ w.fork = f /\ w.shown = start.at + 1 .. end.at
        /\ w.from = PointAt(left).sum /\ w.to = PointAt(right).sum
    BY <1>2, <1>4 DEF Span
  <2> SUFFICES Carries(w)
    OBVIOUS
  <2> HIDE DEF w
  <2> SUFFICES ASSUME w.shown # {}
               PROVE  Forward(w.from, [i \in 1..Cardinality(w.shown) |->
                        ContinuityLog(f)[Min(w.shown) + i - 1].line]) = w.to
    BY <2>5 DEF Carries
  <2> DEFINE s == start.at
             e == end.at
  <2>6. s \in Nat /\ e \in 1..n /\ s < e
    <3>1. PICK x : x \in s + 1 .. e
      BY <2>5
    <3> QED BY <2>2, <2>3, <2>4, <3>1
  <2> HIDE DEF s, e, n
  <2>7. w.shown = s + 1 .. e
    BY <2>5 DEF s, e
  <2>8. Cardinality(w.shown) = e - s
    <3>1. s + 1 \in Int /\ e \in Int /\ ~(s + 1 > e)
      BY <2>6
    <3>2. Cardinality(s + 1 .. e) = e - (s + 1) + 1
      BY <3>1, FS_Interval
    <3> QED BY <2>6, <2>7, <3>2
  <2>9. Min(w.shown) = s + 1
    <3> DEFINE T == s + 1 .. e
    <3>1. T \subseteq Nat /\ s + 1 \in T /\ \A y \in T : s + 1 <= y
      BY <2>6
    <3> HIDE DEF T
    <3>2. Min(T) \in T /\ Min(T) <= s + 1
      BY <3>1, MinIn
    <3>3. s + 1 <= Min(T) /\ Min(T) \in Nat
      BY <3>1, <3>2
    <3> QED BY <2>6, <2>7, <3>2, <3>3 DEF T
  <2>10. Forward(SumAt(f, s), [i \in 1..e - s |-> ContinuityLog(f)[s + 1 + i - 1].line])
           = SumAt(f, e)
    BY <1>1, <2>6, PointsCarry DEF n
  <2>11. w.from = SumAt(f, s) /\ w.to = SumAt(f, e)
    BY <2>2, <2>3, <2>5 DEF s, e
  <2> HIDE DEF f
  <2> QED BY <2>8, <2>9, <2>10, <2>11
<1> QED BY <1>3, <1>4

\* RangesCarry: the lines A..B shows are exactly those that carry the state A
\* names to the state B names, also when A and B were read on different forks
\* (log_range), while all lineages have roots.
THEOREM RangesAreDeltas == LineageSpec => []RangesCarry
<1>1. LineageInv => RangesCarry
  <2> SUFFICES ASSUME LineageInv, AllRooted,
                      NEW f \in Existing, NEW a \in Starts, NEW b \in Ends(f)
               PROVE  Carries(LogRange(a, b, f))
    BY DEF RangesCarry
  <2> DEFINE right == Resolve(b.rev, b.suffixes, f)
             left == Resolve(a.rev, a.suffixes, right.fork)
  <2>1. IsPlace(right)
    BY EndsNamed, ResolveIs
  <2>2. LogRange(a, b, f) = Between(left, right)
    BY DEF LogRange, UpTo
  <2> HIDE DEF right
  <2>3. CASE right = NoPlace
    <3>1. Between(left, right) = NoRange
      BY <2>3 DEF Between, Bounds
    <3> QED BY <2>2, <3>1 DEF Carries
  <2>4. CASE OnLineage(right)
    <3>1. right.fork \in Existing
      BY <2>4 DEF OnLineage
    <3>2. IsPlace(left)
      BY <3>1, EndsNamed, ResolveIs
    <3> HIDE DEF left
    <3> QED BY <2>2, <2>4, <3>2, BetweenCarries
  <2> QED BY <2>1, <2>3, <2>4 DEF IsPlace
<1>2. LineageInv /\ [LineageNext]_<<vars, lineageVars>> => LineageInv'
  BY LineageKeeps
<1>3. LineageInit => LineageInv
  BY LineageStarts
<1> QED BY <1>1, <1>2, <1>3, PTL DEF LineageSpec
=============================================================================
