------------------------------ MODULE Lineage ------------------------------
(***************************************************************************)
(* Lineage, revisions and the removal of forks (src/src/repo.rs,           *)
(* revision.rs).  A fork records no parent, only the state it is anchored  *)
(* at: its history is put together by looking for a fork that has been in  *)
(* that state.  Every revision (HEAD~2, a fork, a sum, a line id) is read  *)
(* on the history found so.                                                *)
(***************************************************************************)
EXTENDS ForkUnion

CONSTANTS
  Names,        \* the forks in name order
  Imported,     \* the states `init --from-git` may anchor Main at
  MaxSnapshots, \* how many forks are snapshotted
  Unreadable    \* an error where a state was asked for

ASSUME LineageAssumption ==
  /\ Names \in Seq(Forks) /\ ToSet(Names) = Forks /\ Len(Names) = Cardinality(Forks)
  /\ Imported \subseteq Manifest /\ MaxSnapshots \in Nat
  /\ Unreadable \notin Manifest

VARIABLES
  moved,   \* history: the forks whose anchor a snapshot moved
  gone,    \* names of removed forks (none is used again),
  relics,  \*   and the lines that went with them,
  forced   \*   of which those removed with --force

lineageVars == <<moved, gone, relics, forced>>

-----------------------------------------------------------------------------
(* Lineage.                                                                *)

Authored(f, m) == LastAt(log[f], m) > 0

\* The first of some forks, in the order of fork_names.
First(fs) == Names[Min({i \in DOMAIN Names : Names[i] \in fs})]

\* The preference among equal candidates: Main, else the first by name.
Pick(fs) == IF Main \in fs THEN Main ELSE IF fs = {} THEN NoFork ELSE First(fs)

\* parent_fork: a fork with a line that leads to state m, else one anchored
\* there too.
ParentFork(child, m) ==
  LET authored == Pick({f \in Existing \ {child} : Authored(f, m)})
      shared == Pick({f \in Existing \ {child} : anchor[f] = m})
  IN  IF authored # NoFork THEN authored ELSE shared

\* Mutant of BranchPoint: up to the line before.
BranchPointShort(f, m) == IF Authored(f, m) THEN LastAt(log[f], m) - 1 ELSE 0

\* How many lines of f lead up to state m.
BranchPoint(f, m) == LastAt(log[f], m)

\* The walk from fork to parent.  `segs`: the forks met, oldest first, and
\* how many lines of each count.  It ends at a fork anchored at the empty
\* state or without a parent (`root`), or at a fork met before (no root).
Climb(w, parent) ==
  LET cur == w.segs[1].fork
  IN  IF anchor[cur] = EmptyManifest \/ parent = NoFork
      THEN [w EXCEPT !.done = TRUE, !.root = cur]
      ELSE IF \E i \in 1..Len(w.segs) : w.segs[i].fork = parent
      THEN [w EXCEPT !.done = TRUE]
      ELSE [w EXCEPT !.segs =
              <<[fork |-> parent,
                 take |-> BranchPoint(parent, anchor[cur])]>> \o @]
Walk(f) ==
  LET Step(w, n) ==
        LET cur == w.segs[1].fork
        IN  IF w.done THEN w ELSE Climb(w, ParentFork(cur, anchor[cur]))
  IN  FoldLeft(Step, [segs |-> <<[fork |-> f, take |-> Len(log[f])]>>,
                      root |-> NoFork, done |-> FALSE], Names)

\* continuity_log: every line with the fork it was read on, oldest first.
ContinuityLog(f) ==
  LET segs == Walk(f).segs
      Lines(s) == [j \in 1..s.take |-> [fork |-> s.fork, line |-> log[s.fork][j]]]
  IN  FoldLeft(LAMBDA h, s : h \o Lines(s), <<>>, segs)

\* lineage_base_sum: the root's anchor; on a cycle, the fork's own.
LineageBase(f) ==
  LET root == Walk(f).root IN anchor[IF root = NoFork THEN f ELSE root]

-----------------------------------------------------------------------------
(* The state at a point of history.                                        *)

\* A line undone.
Undone(x) == {[path |-> e.path, old |-> e.new, new |-> e.old] : e \in x.delta}

\* Mutant of ManifestAt: the line that led to m is undone too.
ManifestAtEarly(f, m) ==
  IF State(f) = m \/ anchor[f] = m THEN m
  ELSE IF ~Authored(f, m) THEN Unreadable
  ELSE FoldRight(LAMBDA x, n : Result(n, Undone(x)),
                 SubSeq(log[f], LastAt(log[f], m), Len(log[f])), State(f))

\* manifest_at: back from the current state, undoing lines.
ManifestAt(f, m) ==
  IF State(f) = m \/ anchor[f] = m THEN m
  ELSE IF ~Authored(f, m) THEN Unreadable
  ELSE FoldRight(LAMBDA x, n : Result(n, Undone(x)),
                 SubSeq(log[f], LastAt(log[f], m) + 1, Len(log[f])), State(f))

\* Replay that minds its preconditions.
Forward(m, l) ==
  FoldLeft(LAMBDA n, x : IF n # Unreadable /\ Applies(n, x.delta)
                         THEN Result(n, x.delta) ELSE Unreadable, m, l)

\* manifest_at_lineage: forward from the lineage's base to the first line
\* that names the state.
ForwardTo(m, base, lines) ==
  LET at == {i \in 1..Len(lines) : lines[i].after = m}
  IN  IF base = m \/ (at # {} /\ Forward(base, SubSeq(lines, 1, Min(at))) = m)
      THEN m ELSE Unreadable
ManifestAtLineage(f, m) ==
  LET h == ContinuityLog(f)
  IN  ForwardTo(m, IF h = <<>> THEN State(f) ELSE LineageBase(f),
                [i \in 1..Len(h) |-> h[i].line])

-----------------------------------------------------------------------------
(* Revisions.                                                              *)

\* lineage_states: point 0 is the state before the first line, found by
\* undoing it; each other is the state after a line.
PointsOf(h, state) ==
  LET before == IF h = <<>> THEN state
                ELSE Result(h[1].line.after, Undone(h[1].line))
  IN  [i \in 0..Len(h) |->
         IF i = 0 THEN [sum |-> before, line |-> NoId]
         ELSE [sum |-> h[i].line.after, line |-> h[i].line.id]]
LineageStates(f) == PointsOf(ContinuityLog(f), State(f))

Newest(pts) == Cardinality(DOMAIN pts) - 1

\* A revision, once the characters are parsed (split_suffixes): a base and
\* the steps after it.  A line id may be abbreviated: `ids` is every id it
\* is a prefix of.
HeadRev == [base |-> "head"]
ForkRev(n) == [base |-> "fork", name |-> n]
SumRev(m) == [base |-> "sum:", sum |-> m]
HexRev(m) == [base |-> "hex", sum |-> m]
LineRev(ids) == [base |-> "line:", ids |-> ids]

NoPlace == [fork |-> NoFork, at |-> 0]

\* The points of fork f's lineage that are in state m; that lines led to.
WithSum(f, m) ==
  LET pts == LineageStates(f) IN {i \in DOMAIN pts : pts[i].sum = m}
WithLine(f, ids) ==
  LET pts == LineageStates(f) IN {i \in DOMAIN pts : pts[i].line \in ids}

LastPoint(f, at) ==
  IF at = {} THEN NoPlace
  ELSE [fork |-> f, at |-> CHOOSE i \in at : \A j \in at : j <= i]

\* resolve_sum, and resolve_sum_global where f's lineage has no such state.
ResolveSum(m, f) ==
  LET here == WithSum(f, m)
      carry == {g \in Existing : WithSum(g, m) # {}}
  IN  IF here # {} \/ carry = {} THEN LastPoint(f, here)
      ELSE LastPoint(First(carry), WithSum(First(carry), m))

\* Of the lines with these ids, those fork f's lineage shows: where they stand.
Met(f, ids) ==
  LET h == ContinuityLog(f) IN {i \in 1..Len(h) : h[i].line.id \in ids}

\* resolve_line_id_global: one line of the whole repository, read on the fork
\* it was first met on.
ResolveLineGlobal(ids) ==
  LET met == {g \in Existing : Met(g, ids) # {}}
      found == UNION {{ContinuityLog(g)[i].line.id : i \in Met(g, ids)} : g \in met}
      first == First(met)
      author == ContinuityLog(first)[Min(Met(first, ids))].fork
  IN  IF Cardinality(found) # 1 THEN NoPlace
      ELSE LastPoint(author, WithLine(author, found))

\* Mutant of ResolveLine: only f's lineage is searched.
ResolveLineHere(ids, f) ==
  LastPoint(f, WithLine(f, ids))

\* resolve_line: one line of f's lineage; only when none is, of the whole
\* repository.
ResolveLine(ids, f) ==
  LET at == WithLine(f, ids)
  IN  IF at = {} THEN ResolveLineGlobal(ids)
      ELSE IF Cardinality(at) > 1 THEN NoPlace
      ELSE [fork |-> f, at |-> CHOOSE i \in at : TRUE]

\* The base of a revision.  A bare sum stays on f's lineage: it is tried as a
\* line id next, and no sum is one.
ResolveBase(r, f) ==
  CASE r.base = "head" -> [fork |-> f, at |-> Newest(LineageStates(f))]
    [] r.base = "fork" -> [fork |-> r.name, at |-> Newest(LineageStates(r.name))]
    [] r.base = "sum:" -> ResolveSum(r.sum, f)
    [] r.base = "hex" -> LastPoint(f, WithSum(f, r.sum))
    [] r.base = "line:" -> ResolveLine(r.ids, f)

\* apply_suffixes: ~N (^ is ~1) steps back from here, @{N} from the head.
Suffixed(p, suffixes) ==
  LET top == Newest(LineageStates(p.fork))
      Step(q, s) ==
        IF q = NoPlace THEN q
        ELSE LET from == IF s.op = "~" THEN q.at ELSE top
             IN  IF from < s.n THEN NoPlace ELSE [q EXCEPT !.at = from - s.n]
  IN  IF p = NoPlace THEN p ELSE FoldLeft(Step, p, suffixes)

\* resolve: a place on a lineage.
Resolve(r, suffixes, f) == Suffixed(ResolveBase(r, f), suffixes)

PointAt(p) == LineageStates(p.fork)[p.at]

\* The place log_range gives a revision q on fork f's lineage.  A revision
\* that names no line is on it only as its base.
Position(q, f) ==
  LET to == PointAt(q)
  IN  IF q = NoPlace THEN NoPlace
      ELSE IF to.line # NoId
      THEN LastPoint(f, WithLine(f, {to.line}))
      ELSE IF to.sum = LineageStates(f)[0].sum THEN [fork |-> f, at |-> 0]
      ELSE NoPlace

\* Mutant of Span: the left end is shown too.
SpanInclusive(start, end) == (IF start.at = 0 THEN 1 ELSE start.at)..end.at

\* The lines a range shows: the left end is not among them.
Span(start, end) == start.at + 1 .. end.at

NoRange == [fork |-> NoFork, shown |-> {}]

\* log_range of a..b: the right end names the lineage, the left end is read
\* on it.
Bounds(left, start, right, end) ==
  IF NoPlace \in {left, start, right, end} THEN NoRange
  ELSE [fork |-> right.fork, shown |-> Span(start, end),
        from |-> PointAt(left).sum, to |-> PointAt(right).sum]
Between(left, right) ==
  Bounds(left, Position(left, right.fork), right, Position(right, right.fork))
UpTo(a, right) == Between(Resolve(a.rev, a.suffixes, right.fork), right)
LogRange(a, b, f) == UpTo(a, Resolve(b.rev, b.suffixes, f))

-----------------------------------------------------------------------------
(* Actions.                                                                *)

\* Mutant of Subsumed: the fork's own lines count as copies.
SubsumedByAny(n, x) ==
  \E f \in Existing : x.id \in Carried(n, log[f])

\* A line of fork n that another fork carries, as it is or by union.
Subsumed(n, x) ==
  \E f \in Existing \ {n} : x.id \in Carried(n, log[f])

\* remove_fork.
RemoveFork(n, force) ==
  /\ n \in Existing \ {Main}
  /\ force \/ (Loads(n) /\ \A x \in ToSet(log[n]) : Subsumed(n, x))
  /\ anchor' = [anchor EXCEPT ![n] = NoFork]
  /\ log' = [log EXCEPT ![n] = <<>>]
  /\ gone' = gone \cup {n}
  /\ relics' = relics \cup ToSet(log[n])
  /\ forced' = IF force THEN forced \cup {n} ELSE forced
  /\ UNCHANGED <<parted, moved>>

\* init, or init --from-git: Main anchored at a commit's tree, and a line
\* without operations that says so.
ImportLine(m) ==
  [id |-> LineId(Main, 1), intent |-> NoIntent, delta |-> {}, after |-> m,
   reads |-> NoReads, origin |-> NoOrigin, fuse |-> NoFuse]

LineageInit ==
  /\ moved = {} /\ gone = {} /\ relics = {} /\ forced = {}
  /\ parted = [f \in Forks |-> 0]
  /\ \E m \in {EmptyManifest} \cup Imported :
       /\ anchor = [f \in Forks |-> IF f = Main THEN m ELSE NoFork]
       /\ log = [f \in Forks |->
                   IF f = Main /\ m # EmptyManifest THEN <<ImportLine(m)>> ELSE <<>>]

\* The lines ever written by an author; removal does not renew the bounds.
Authors == {x \in AllLines \cup relics : x.origin = NoOrigin}

LineageNext ==
  \/ /\ UNCHANGED lineageVars
     /\ \/ \E f \in Existing : \E i \in IntentsAt(State(f)) : Apply(f, i, NoReads)
        \/ \E f \in Existing : \E m \in History(f) : Repoint(f, m)
        \/ \E f \in Existing : \E a, b \in 1..Len(log[f]) : FuseSpan(f, a, b)
        \/ \E n \in Forks \ gone, from \in Bases : CreateFork(n, from)
        \/ \E s \in Existing, t \in Targets : Union(s, t)
     /\ Cardinality(AllLines' \cup relics) <= MaxLines
     /\ Cardinality(Authors') <= MaxOwn
  \/ \E f \in Existing :
       /\ Cardinality(moved) < MaxSnapshots
       /\ Snapshot(f)
       /\ moved' = moved \cup {f}
       /\ UNCHANGED <<gone, relics, forced>>
  \/ \E n \in Forks, force \in BOOLEAN : RemoveFork(n, force)

LineageSpec == LineageInit /\ [][LineageNext]_<<vars, lineageVars>>

-----------------------------------------------------------------------------
(* Properties.                                                             *)

\* No anchor has moved, and the walk from fork f met no fork twice.
Rooted(f) == moved = {} /\ Walk(f).root # NoFork
AllRooted == \A f \in Existing : Rooted(f)

Continuous(f, h) ==
  LET Before(i) == IF i = 1 THEN LineageBase(f) ELSE h[i - 1].line.after
  IN  /\ \A i \in 1..Len(h) : Follows(h[i].line, Before(i))
      /\ State(f) = IF h = <<>> THEN anchor[f] ELSE h[Len(h)].line.after
      /\ \A i, j \in 1..Len(h) : i # j => h[i].line.id # h[j].line.id

\* The lineage of a fork is one history: from its base each line follows the
\* one before it, to the fork's state, and none is met twice
\* (continuity_log, "the whole is a single continuous history").
SingleHistory == \A f \in Existing : Rooted(f) => Continuous(f, ContinuityLog(f))

Materializes(f) ==
  \A i \in DOMAIN LineageStates(f) :
    LET m == LineageStates(f)[i].sum IN ManifestAtLineage(f, m) = m

\* Whatever fork it is read on, every point of a lineage can be
\* materialized, and every state a fork was in can be undone back to:
\* manifest_at_lineage, "still names a materializable state", and
\* manifest_at.
PointsMaterialize ==
  \A f \in Existing :
    /\ \A m \in History(f) : ManifestAt(f, m) = m
    /\ Rooted(f) => Materializes(f)

\* The same of any repository.
AnyPointMaterializes == \A f \in Existing : Materializes(f)

\* What a reader may name: a fork, a state or a line that is or was there.
Revisions ==
  {HeadRev} \cup {ForkRev(n) : n \in Existing}
    \cup (UNION {{SumRev(m), HexRev(m)} : m \in UNION {History(f) : f \in Existing}})
    \cup {LineRev({x.id}) : x \in AllLines \cup relics}

IsNamed(r, f, p) ==
  /\ p # NoPlace =>
       CASE r.base = "head" -> PointAt(p).sum = State(f)
         [] r.base = "fork" -> PointAt(p).sum = State(r.name)
         [] r.base \in {"sum:", "hex"} -> PointAt(p).sum = r.sum
         [] r.base = "line:" ->
              \E x \in AllLines : {x.id} = r.ids /\ PointAt(p).sum = x.after
  /\ r.base = "line:" /\ (\E x \in AllLines : {x.id} = r.ids) => p # NoPlace

\* Where a revision resolves it names what it says: a line resolves to the
\* state it led to, wherever it was read; a state to itself; HEAD and a fork
\* to the current state.  A line some fork still has always resolves.
RevisionsResolve ==
  AllRooted => \A f \in Existing : \A r \in Revisions :
    IsNamed(r, f, Resolve(r, <<>>, f))

\* Where a range may start, and where it may end on fork f: at a line, a
\* head, or the state before.
Starts == [rev : {HeadRev} \cup {LineRev({x.id}) : x \in AllLines},
           suffixes : {<<>>, <<[op |-> "~", n |-> 1]>>}]
Ends(f) == [rev : {HeadRev} \cup {LineRev({x}) : x \in IdsOf(log[f])},
            suffixes : {<<>>}]

Carries(w) ==
  LET h == ContinuityLog(w.fork)
  IN  w # NoRange /\ w.shown # {} =>
        Forward(w.from, [i \in 1..Cardinality(w.shown) |->
                           h[Min(w.shown) + i - 1].line]) = w.to

\* A..B is exactly the lines that took the state from A to B, also across
\* forks (log_range).
RangesCarry ==
  AllRooted => \A f \in Existing : \A a \in Starts, b \in Ends(f) :
    Carries(LogRange(a, b, f))

\* A set of lines is a family when it has, with each line, the line a union
\* took it from and all that unions took it to.
Family(K, all) ==
  \A y, z \in all : z.id = y.origin.id => (y \in K <=> z \in K)

\* Removing forks loses no work: whatever unions and removals came between,
\* a line of a fork removed without --force is still, or has landed, in a
\* fork that exists (remove_fork's refusal), unless that copy was removed
\* with --force.
WorkKept ==
  forced = {} =>
    LET all == AllLines \cup relics
    IN  \A K \in SUBSET all :
          K \cap relics # {} /\ Family(K, all) => K \cap AllLines # {}
=============================================================================
