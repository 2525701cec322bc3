---------------------------- MODULE SessionPlan ----------------------------
(***************************************************************************)
(* How the calls of a coding session become the lines that record them     *)
(* (the intent and plan parts of src/src/claude.rs): calls are replayed in *)
(* memory, a call that only rewrites what one earlier call wrote is        *)
(* absorbed into it, and spans are aligned with the working tree.          *)
(*                                                                         *)
(* A state is a function from paths to contents; a blob hash stands for    *)
(* its content.  Element modes and characters of several bytes are left    *)
(* out.                                                                    *)
(***************************************************************************)
EXTENDS Texts

CONSTANTS
  Paths,   \* element paths
  NoFile   \* what a path holds when it holds nothing

ASSUME PlanAssumption == NoFile \notin Content /\ IsFiniteSet(Paths)

-----------------------------------------------------------------------------
(* Intents: sequences of operations.                                       *)

\* One operation of apply_intent on the state acc.m.
ApplyOp(acc, o) ==
  LET now == acc.m[o.path]
      ok == /\ acc.ok
            /\ CASE o.op = "edit" -> now # NoFile /\ Unique(now, o.old)
                 [] o.op = "create" -> now = NoFile
                 [] o.op = "delete" -> now = o.content
  IN  IF ~ok THEN [acc EXCEPT !.ok = FALSE]
      ELSE [ok |-> TRUE,
            m |-> [acc.m EXCEPT ![o.path] =
                     CASE o.op = "edit" -> Replaced(@, o.old, o.new)
                       [] o.op = "create" -> o.content
                       [] o.op = "delete" -> NoFile]]

\* apply_intent: all of the operations, or the state as it was.
ApplyIntent(m, ops) ==
  LET r == FoldLeft(ApplyOp, [ok |-> TRUE, m |-> m], ops)
  IN  IF r.ok THEN r ELSE [ok |-> FALSE, m |-> m]

\* The edits of one span in the content it meets: itself, or the anchored
\* series of an every-occurrence span.
SeriesOf(c, span) ==
  IF span.all THEN AnchoredReplaceAll(c, span.old, span.new)
              ELSE <<[old |-> span.old, new |-> span.new]>>

\* intent_for: the operations of a call's tool against state m.
IntentFor(m, tool) ==
  LET x == tool.path
      edit(acc, e) ==
        IF acc.ok /\ Unique(acc.content, e.old)
        THEN [acc EXCEPT
                !.content = Replaced(@, e.old, e.new),
                !.ops = Append(@, [op |-> "edit", path |-> x,
                                   old |-> e.old, new |-> e.new])]
        ELSE [acc EXCEPT !.ok = FALSE]
      each(acc, series) ==
        IF acc.ok /\ series # <<>> THEN FoldLeft(edit, acc, series)
                                   ELSE [acc EXCEPT !.ok = FALSE]
      spanned(acc, span) == each(acc, SeriesOf(acc.content, span))
      create == [op |-> "create", path |-> x, content |-> tool.content]
      delete == [op |-> "delete", path |-> x, content |-> m[x]]
  IN  CASE tool.tool = "Write" ->
             [ok |-> TRUE,
              ops |-> IF m[x] = NoFile THEN <<create>> ELSE <<delete, create>>]
        [] tool.tool # "Write" /\ m[x] = NoFile -> [ok |-> FALSE, ops |-> <<>>]
        [] OTHER ->
             LET r == FoldLeft(spanned,
                               [ok |-> TRUE, content |-> m[x], ops |-> <<>>],
                               tool.spans)
             IN  [ok |-> r.ok, ops |-> r.ops]

WholeFile == {<<"whole file">>}

\* Mutant of ReadsFor: of the state the line leaves.
ReadsAfter(m, ops, paths) ==
  {[path |-> x, blob |-> ApplyIntent(m, ops).m[x], spans |-> WholeFile] : x \in paths}

\* reads_for: what a line read, of the state it meets: the spans its edits
\* consumed or the file its delete did, and the files read before it.
ReadsFor(m, ops, paths) ==
  LET written == {ops[k].path : k \in 1..Len(ops)}
      on(x, kind) == {k \in 1..Len(ops) : ops[k].path = x /\ ops[k].op = kind}
      deleted == {[path |-> ops[k].path, blob |-> ops[k].content, spans |-> WholeFile] :
                    k \in {j \in 1..Len(ops) : ops[j].op = "delete"}}
      edited == {[path |-> x, blob |-> m[x],
                  spans |-> {ops[k].old : k \in on(x, "edit")}] :
                   x \in {y \in written : on(y, "delete") = {} /\ on(y, "edit") # {}}}
      own == deleted \cup edited
  IN  own \cup {[path |-> x, blob |-> m[x], spans |-> WholeFile] :
                  x \in paths \ {r.path : r \in own}}

-----------------------------------------------------------------------------
(* Who wrote which bytes: Track.                                           *)

\* A run is content[start..end) = new[at..] of operation `op` of the call in
\* seat `call`; a scar is where an edit deleted bytes and left none.  Runs do
\* not overlap, so a set of them loses nothing of the sorted list.
NoTrack == [runs |-> {}, scars |-> {}]

\* shift_scars.
ShiftedScars(scars, at, end, d) ==
  {IF s >= end /\ s > at THEN s + d ELSE s : s \in {s \in scars : s <= at \/ s >= end}}

\* Track::edit: `len` bytes at `at` become `n` bytes of this seat.
TrackEdit(t, at, len, n, call, op) ==
  LET end == at + len
      d == n - len
      before == {r \in t.runs : r.end <= at}
      after == {r \in t.runs \ before : r.start >= end}
      bitten == t.runs \ (before \cup after)
      own == [start |-> at, end |-> at + n, call |-> call, op |-> op, at |-> 0]
  IN  [runs |-> before
          \cup {[r EXCEPT !.start = @ + d, !.end = @ + d] : r \in after}
          \cup {[r EXCEPT !.end = at] : r \in {r \in bitten : r.start < at}}
          \cup {[r EXCEPT !.start = at + n, !.end = @ + d,
                          !.at = @ + (end - r.start)] :
                  r \in {r \in bitten : r.end > end}}
          \cup (IF n > 0 THEN {own} ELSE {}),
       scars |-> ShiftedScars(t.scars, at, end, d) \cup (IF n = 0 THEN {at} ELSE {})]

\* Mutant of Slide: pieces stay where they were in the new text.
SlideNot(r, w, d) == 0

\* How far piece r slides in its operation's new text when w changes by d.
Slide(r, w, d) == IF r.call = w.call /\ r.op = w.op /\ r.at > w.at THEN d ELSE 0

\* Track::rewrite_within: the bytes lie in run w, whose operation takes the
\* rewrite; later pieces of that operation slide along its new text.
RewriteWithin(t, w, at, len, n) ==
  LET end == at + len
      d == n - len
      shift(r) == IF r.start >= end THEN d ELSE 0
  IN  [runs |-> {[w EXCEPT !.end = @ + d]}
          \cup {[r EXCEPT !.start = @ + shift(r), !.end = @ + shift(r),
                          !.at = @ + Slide(r, w, d)] : r \in t.runs \ {w}},
       scars |-> ShiftedScars(t.scars, at, end, d)]

Unowned(t, from, to) == ~\E r \in t.runs : r.start < to /\ from < r.end
Scarred(t, from, to) == \E s \in t.scars : from <= s /\ s <= to

\* attribute: the operations of the call in `seat`, against the content of
\* their path before it.  A whole-file write starts unattributed.
Attribute(t, c, seat, ops) ==
  LET step(acc, k) ==
        IF ops[k].op # "edit" THEN [t |-> NoTrack, c |-> <<>>]
        ELSE LET at == Place(acc.c, ops[k].old)
             IN  [t |-> TrackEdit(acc.t, at, Len(ops[k].old), Len(ops[k].new),
                                  seat, k),
                  c |-> Replaced(acc.c, ops[k].old, ops[k].new)]
  IN  FoldLeft(step, [t |-> t, c |-> c], [k \in 1..Len(ops) |-> k]).t

-----------------------------------------------------------------------------
(* Absorption.                                                             *)

\* A call's place in the plan: what lands, and as its own fields wrote it.
Landing(call, ops) ==
  [call |-> call, kind |-> "land", ops |-> ops, faithful |-> ops,
   reads |-> {}, aligned |-> FALSE, absorbed |-> <<>>]

NoOwner == 0

\* absorb, one operation: its bytes must lie in one run of the one owner,
\* whose new text takes the rewrite.
AbsorbOp(planned, acc, o) ==
  LET at == Place(acc.content, o.old)
      end == at + Len(o.old)
      within == {r \in acc.track.runs : r.start <= at /\ end <= r.end}
      w == CHOOSE r \in within : TRUE
      target == acc.news[<<w.call, w.op>>]
      from == w.at + (at - w.start)
  IN  IF \/ ~acc.ok \/ o.op # "edit" \/ within = {}
         \/ acc.owner \notin {NoOwner, w.call}
         \/ Slice(target, from, from + Len(o.old)) # o.old
      THEN [acc EXCEPT !.ok = FALSE]
      ELSE [ok |-> TRUE, owner |-> w.call,
            track |-> RewriteWithin(acc.track, w, at, Len(o.old), Len(o.new)),
            content |-> Replaced(acc.content, o.old, o.new),
            news |-> [acc.news EXCEPT ![<<w.call, w.op>>] =
                        Splice(@, from, from + Len(o.old), o.new)]]

\* The new text of every edit that lands, by seat and operation.
NewsOf(planned) ==
  [p \in UNION {{<<s, k>> : k \in 1..Len(planned[s].ops)} : s \in 1..Len(planned)} |->
     IF planned[p[1]].ops[p[2]].op = "edit" THEN planned[p[1]].ops[p[2]].new
                                            ELSE <<>>]

\* absorb: every span of the call, which has some, rewrites only what one
\* earlier call wrote.
Absorb(planned, t, c, ops) ==
  FoldLeft(LAMBDA acc, o : AbsorbOp(planned, acc, o),
           [ok |-> ops # <<>>, owner |-> NoOwner, track |-> t, content |-> c,
            news |-> NewsOf(planned)],
           ops)

\* Mutant of Absorbing: the owner does not name the call.
AbsorbingSilent(p, owner, news, seat) ==
  [p EXCEPT
     !.ops = [k \in 1..Len(@) |->
                IF @[k].op = "edit" THEN [@[k] EXCEPT !.new = news[<<owner, k>>]]
                                    ELSE @[k]]]

\* The owner's line once it has absorbed the call in `seat`.
Absorbing(p, owner, news, seat) ==
  [p EXCEPT
     !.ops = [k \in 1..Len(@) |->
                IF @[k].op = "edit" THEN [@[k] EXCEPT !.new = news[<<owner, k>>]]
                                    ELSE @[k]],
     !.absorbed = Append(@, seat)]

\* plan, pass 1, one call: replay it as written, then fold it into an earlier
\* call or attribute its bytes.  Calls already recorded are left out.
Take(acc, call, i, fold) ==
  LET x == call.tool.path
      seat == Len(acc.planned) + 1
      land == Landing(call, i.ops)
  IN  IF ~i.ok
      THEN [acc EXCEPT !.planned = Append(@, [land EXCEPT !.kind = "skip"])]
      ELSE IF acc.m[x] # NoFile /\ fold.ok
      THEN [m |-> ApplyIntent(acc.m, i.ops).m,
            tracks |-> [acc.tracks EXCEPT ![x] = fold.track],
            planned |-> Append([acc.planned EXCEPT ![fold.owner] =
                                  Absorbing(@, fold.owner, fold.news, seat)],
                               [land EXCEPT !.kind = "absorbed"])]
      ELSE [m |-> ApplyIntent(acc.m, i.ops).m,
            tracks |-> [acc.tracks EXCEPT ![x] =
                          Attribute(@, acc.m[x], seat, i.ops)],
            planned |-> Append(acc.planned, land)]
Meet(acc, call, i) ==
  Take(acc, call, i,
       Absorb(acc.planned, acc.tracks[call.tool.path], acc.m[call.tool.path], i.ops))
Observe(acc, call) == Meet(acc, call, IntentFor(acc.m, call.tool))

Observed(start, calls, recorded) ==
  FoldLeft(LAMBDA acc, c : IF c.id \in recorded THEN acc ELSE Observe(acc, c),
           [m |-> start, tracks |-> [x \in Paths |-> NoTrack], planned |-> <<>>],
           calls)

-----------------------------------------------------------------------------
(* Alignment with the working tree.                                        *)

\* trim: the bytes of a hunk that differ.
Trim(old, new, h) ==
  LET a == Slice(old, h.from, h.to)
      b == Slice(new, h.nfrom, h.nto)
      head == CommonHead(a, b)
      tail == CommonTail(a, b, head)
  IN  [from |-> h.from + head, to |-> h.to - tail,
       nfrom |-> h.nfrom + head, nto |-> h.nto - tail]

\* containing: the run that owns a hunk outright.  An insertion belongs
\* inside a run, not at its edge.
Containing(t, h) ==
  {r \in t.runs : IF h.from = h.to THEN r.start < h.from /\ h.from < r.end
                                   ELSE r.start <= h.from /\ h.to <= r.end}

NoRange == [from |-> 0, to |-> 0]

\* align, one hunk: its owner holds it outright, or holds its changed bytes
\* together with untouched bytes beside them, over which the owner widens.
Own(t, news, acc, hunk, o) ==
  LET owns(r, h) == [acc EXCEPT !.owned = Append(@, [run |-> r, hunk |-> h])]
      overlapping == {r \in t.runs : r.start < o.to /\ o.from < r.end}
      run == CHOOSE r \in overlapping : TRUE
      seat == <<run.call, run.op>>
      before == o.from < run.start
      after == o.to > run.end
      mayWidenBefore ==
        /\ run.at = 0
        /\ acc.pre[seat] = NoRange
        /\ Unowned(t, o.from, run.start)
        /\ ~Scarred(t, o.from + 1, run.start)
      mayWidenAfter ==
        /\ run.at + (run.end - run.start) = Len(news[seat])
        /\ acc.suf[seat] = NoRange
        /\ Unowned(t, run.end, o.to)
        /\ ~Scarred(t, run.end, o.to - 1)
      widened ==
        [acc EXCEPT !.pre[seat] = IF before
                                  THEN [from |-> o.from, to |-> run.start] ELSE @]
  IN  CASE Containing(t, hunk) # {} ->
             owns(CHOOSE r \in Containing(t, hunk) : TRUE, hunk)
        [] Containing(t, hunk) = {} /\ Containing(t, o) # {} ->
             owns(CHOOSE r \in Containing(t, o) : TRUE, o)
        [] OTHER ->
             IF \/ o.from = o.to
                \/ Cardinality(overlapping) # 1
                \/ before /\ ~mayWidenBefore
             THEN acc
             ELSE IF after /\ ~mayWidenAfter THEN widened
             ELSE [widened EXCEPT
                     !.owned = Append(@, [run |-> run, hunk |-> o]),
                     !.suf[seat] = IF after
                                   THEN [from |-> run.end, to |-> o.to] ELSE @]

Owned(t, old, new, news) ==
  FoldLeft(LAMBDA acc, h : Own(t, news, acc, h, Trim(old, new, h)),
           [pre |-> [s \in DOMAIN news |-> NoRange],
            suf |-> [s \in DOMAIN news |-> NoRange], owned |-> <<>>],
           ChangedRanges(old, new))

\* Mutant of Lead: the widening is forgotten.
LeadBare(prefix, r) == r.at - r.start

\* From a run's place in the content to its place in the widened new text.
Lead(prefix, r) == Len(prefix) + r.at - r.start

\* align_op: the operation widened, and its new text spliced with the tree's
\* bytes; as it was when the replacements overlap or overrun.
AlignOp(o, own, seat, old, new) ==
  LET range(r) == Slice(old, r.from, r.to)
      prefix == range(own.pre[seat])
      suffix == range(own.suf[seat])
      text == prefix \o o.new \o suffix
      sorted(acc, w) ==
        LET lead == Lead(prefix, w.run)
            h == [w.hunk EXCEPT !.from = @ + lead, !.to = @ + lead]
            before == {k \in 1..Len(acc) : acc[k].from <= h.from}
        IN  IF <<w.run.call, w.run.op>> # seat THEN acc
            ELSE InsertAt(acc, Cardinality(before) + 1, h)
      seats == FoldLeft(sorted, <<>>, own.owned)
      fits == /\ \A k \in 2..Len(seats) : seats[k - 1].to <= seats[k].from
              /\ \A k \in 1..Len(seats) : seats[k].to <= Len(text)
  IN  IF seats = <<>> \/ ~fits THEN o
      ELSE [o EXCEPT !.old = prefix \o @ \o suffix,
                     !.new = Spliced(text, new, seats)]

\* align: every path some call wrote spans of and the tree still holds.
Align(obs, tree) ==
  LET live == {x \in Paths : /\ obs.tracks[x].runs # {}
                             /\ obs.m[x] # NoFile /\ tree[x] # NoFile
                             /\ obs.m[x] # tree[x]}
      news == NewsOf(obs.planned)
      own == [x \in live |-> Owned(obs.tracks[x], obs.m[x], tree[x], news)]
      with(p, ops) == [p EXCEPT !.ops = ops, !.aligned = ops # p.ops]
      aligned(s, p, x) ==
        with(p, [k \in 1..Len(p.ops) |->
                   IF x \in live /\ p.ops[k].op = "edit"
                   THEN AlignOp(p.ops[k], own[x], <<s, k>>, obs.m[x], tree[x])
                   ELSE p.ops[k]])
  IN  [s \in 1..Len(obs.planned) |->
         IF obs.planned[s].kind = "land"
         THEN aligned(s, obs.planned[s], obs.planned[s].call.tool.path)
         ELSE obs.planned[s]]

-----------------------------------------------------------------------------
(* The replay of the plan.                                                 *)

\* replay: land the plan's lines on `start`, each with the reads of the state
\* it meets.  A strict replay declines at the first line that fails; another
\* skips it.
Replay(planned, start, strict) ==
  LET step(acc, s) ==
        LET p == planned[s]
            carried == {s} \cup {p.absorbed[k] : k \in 1..Len(p.absorbed)}
            r == ApplyIntent(acc.m, p.ops)
        IN  IF p.kind # "land" \/ ~acc.ok THEN acc
            ELSE IF r.ok
            THEN [acc EXCEPT
                    !.m = r.m,
                    !.planned[s].reads =
                       ReadsFor(acc.m, p.ops, UNION {planned[c].call.reads : c \in carried})]
            ELSE IF strict THEN [acc EXCEPT !.ok = FALSE]
            ELSE [acc EXCEPT !.planned[s].kind = "skip"]
  IN  FoldLeft(step, [ok |-> TRUE, m |-> start, planned |-> planned],
               [s \in 1..Len(planned) |-> s])

\* unwind: every call back to what its own fields wrote.
Unwind(planned) ==
  [s \in 1..Len(planned) |->
     IF planned[s].kind = "skip" THEN planned[s]
     ELSE Landing(planned[s].call, planned[s].faithful)]

\* plan: the lines to land and the state they promise.
Settled(strict, obs, start) ==
  IF strict.ok THEN strict ELSE Replay(Unwind(obs.planned), start, FALSE)
Against(obs, start, tree) ==
  Settled(Replay(Align(obs, tree), start, TRUE), obs, start)
Plan(start, calls, recorded, tree) ==
  Against(Observed(start, calls, recorded), start, tree)
=============================================================================
