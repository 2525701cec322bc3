------------------------------- MODULE Packs -------------------------------
(***************************************************************************)
(* Segments, serve-manifests, and what a push makes of them (src/src/      *)
(* delta.rs, segment.rs, serve.rs, remote.rs).                             *)
(*                                                                         *)
(* A repository has one file, so a state is a blob or NoBlob.  Segments    *)
(* and manifests are named by content and are their own names; bytes and   *)
(* sizes are left out, and where the code compares sizes the model chooses *)
(* either outcome.                                                         *)
(***************************************************************************)
EXTENDS Integers, FiniteSets, SequencesExt

CONSTANTS
  Names,    \* fork names, in name order
  Blobs,    \* blob hashes (a hash stands for its content)
  Opaque,   \* the blobs no line's ops reproduce (a repoint's, a binary's)
  NoFork, NoBlob,
  Interval, \* Policy::keyframe_interval
  Trigger,  \* Policy::compact_trigger
  Sizes     \* how what a push sends may compare to the size thresholds

Forks == ToSet(Names)

ASSUME PacksAssumption ==
  /\ Len(Names) = Cardinality(Forks) /\ Names \in Seq(Forks)
  /\ IsFiniteSet(Blobs) /\ NoBlob \notin Blobs /\ Opaque \subseteq Blobs
  /\ Interval \in Nat /\ Trigger \in Nat
  /\ Sizes \subseteq {"small", "large", "split"} /\ Sizes \cap {"small", "large"} # {}

\* The elements of a sequence that are in a set, in order.
Within(l, S) == FlattenSeq([i \in 1..Len(l) |-> IF l[i] \in S THEN <<l[i]>> ELSE <<>>])

NoId == 0
States == Blobs \cup {NoBlob}
Line == [id : Nat, prev : Nat, old : States, new : States]

\* What an .idx says of a blob: stored whole (line = NoId), or the result of
\* replaying a log line's ops over a base.
Item == [blob : Blobs, base : States, line : Nat]

Segment == [items : SUBSET Item, spans : [Forks -> Seq(Line)], small : BOOLEAN]

ForkHead == [anchor : States, head : Nat, segs : Seq(Segment)]
Manifest == [forks : [Forks -> ForkHead \cup {NoFork}], live : SUBSET Segment]

\* No fork, where a fork or its head might be.
ASSUME NoForkAssumption == NoFork \notin Forks \cup States \cup Nat \cup ForkHead

\* What an empty store is taken to say.
EmptyStore == [forks |-> [f \in Forks |-> NoFork], live |-> {}]

\* A fork's log, from the segments its head names, in order.
LogOf(m, f) ==
  IF m.forks[f] = NoFork THEN <<>>
  ELSE FlattenSeq([i \in 1..Len(m.forks[f].segs) |->
                     m.forks[f].segs[i].spans[f]])

Items(m) == UNION {s.items : s \in m.live}
Stored(m) == {e.blob : e \in Items(m)}

-----------------------------------------------------------------------------
(* Construct chains.                                                       *)

\* Depths to a fixpoint: an item is settled once its base is.  One that
\* would be deeper than `limit`, or does not replay, is stored whole.
Depths(start, items, limit) ==
  LET round[n \in 0..Cardinality(Blobs)] ==
        IF n = 0 THEN start
        ELSE LET d == round[n - 1]
                 ready == {e \in items : e.base \in DOMAIN d}
             IN  [b \in DOMAIN d \cup {e.blob : e \in ready} |->
                    IF b \in DOMAIN d THEN d[b]
                    ELSE LET e == CHOOSE x \in ready : x.blob = b
                         IN  IF d[e.base] < limit /\ b \notin Opaque
                             THEN d[e.base] + 1 ELSE 0]
  IN  round[Cardinality(Blobs)]

\* RemoteView::load: the depth of every live blob; the empty blob is there.
LiveDepths(m) ==
  Depths([b \in {NoBlob} \cup {e.blob : e \in {x \in Items(m) : x.line = NoId}}
            |-> 0],
         {e \in Items(m) : e.line # NoId}, Cardinality(Blobs))

\* The image is a set (I12).
IsSet(m) ==
  /\ \A e1, e2 \in Items(m) : e1.blob = e2.blob => e1 = e2
  /\ \A s, t \in m.live : s.items \cap t.items # {} => s = t

\* What RemoteView::load refuses to build on.
Loadable(m) == IsSet(m) /\ Stored(m) \subseteq DOMAIN LiveDepths(m)

-----------------------------------------------------------------------------
(* delta::plan.  `rm` is the store's head of a fork, `s` what was read of  *)
(* the local one, `k` its head at the last clone or push.                  *)

InSync(rm, s) == rm # NoFork /\ rm.head = s.head
Knows(s, id) == \E i \in 1..Len(s.log) : s.log[i].id = id
Advances(rm, s) ==
  ~InSync(rm, s) /\ (rm = NoFork \/ rm.head = NoId \/ Knows(s, rm.head))

\* The log lacks the store's head: nothing to send if the local head is the
\* one last synced, otherwise the fork has diverged.
Lacks(rm, s) == ~InSync(rm, s) /\ ~Advances(rm, s)

Diverged(rm, s, k) == Lacks(rm, s) /\ k # s.head

\* Mutant of NewLines: the store's head travels again.
NewLinesAgain(rm, s) ==
  IF ~Advances(rm, s) THEN <<>>
  ELSE IF rm = NoFork \/ rm.head = NoId THEN s.log
  ELSE LET at == CHOOSE i \in 1..Len(s.log) : s.log[i].id = rm.head
       IN  SubSeq(s.log, at, Len(s.log))

\* The lines past the store's head.
NewLines(rm, s) ==
  IF ~Advances(rm, s) THEN <<>>
  ELSE IF rm = NoFork \/ rm.head = NoId THEN s.log
  ELSE LET at == CHOOSE i \in 1..Len(s.log) : s.log[i].id = rm.head
       IN  SubSeq(s.log, at + 1, Len(s.log))

\* All of them, forks in name order.
Pushed(m, seen) ==
  FlattenSeq([i \in 1..Len(Names) |->
    LET f == Names[i]
    IN  IF f \in DOMAIN seen THEN NewLines(m.forks[f], seen[f]) ELSE <<>>])

\* The forks whose head this push publishes.
Heads(m, seen) ==
  {f \in DOMAIN seen :
     \/ Advances(m.forks[f], seen[f])
     \/ InSync(m.forks[f], seen[f]) /\ m.forks[f].anchor # seen[f].anchor}

\* Mutant of ToSend: the blobs of the pushed lines, stored already or not.
ToSendAll(m, blobs) == blobs

\* The blobs no live segment holds.
ToSend(m, blobs) == blobs \ Stored(m)

\* The first pushed line that adds a blob is its construct candidate.
Adds(x, b) == x.new = b /\ x.old # b

Candidates(m, lines, send) ==
  LET Adder(b) == lines[SelectInSeq(lines, LAMBDA x : Adds(x, b))]
  IN  {[blob |-> b, base |-> Adder(b).old, line |-> Adder(b).id] :
         b \in {c \in send : \E i \in 1..Len(lines) : Adds(lines[i], c)}}

\* Mutant of Classified: every candidate is a construct.
ClassifiedDeep(m, lines, send) ==
  LET cand == Candidates(m, lines, send)
  IN  cand \cup {[blob |-> b, base |-> NoBlob, line |-> NoId] :
                   b \in send \ {e.blob : e \in cand}}

\* How each blob travels: a candidate whose base is replayable within the
\* interval as a construct, anything else whole.
Classified(m, lines, send) ==
  LET cand == Candidates(m, lines, send)
      live == LiveDepths(m)
      loose == {e.blob : e \in {c \in cand : c.base \notin send \cup DOMAIN live}}
      d == Depths([b \in DOMAIN live \cup loose |->
                     IF b \in loose THEN 0 ELSE live[b]], cand, Interval)
      built == {e \in cand : e.blob \in DOMAIN d /\ d[e.blob] > 0}
  IN  built \cup {[blob |-> b, base |-> NoBlob, line |-> NoId] :
                    b \in send \ {e.blob : e \in built}}

-----------------------------------------------------------------------------
(* delta::assemble.                                                        *)

\* Mutant of Foldable: any small segment.
FoldableAny(m) == {s \in m.live : s.small}

\* compaction_candidates: the small segments that form a suffix of every
\* fork's log.
Foldable(m) ==
  UNION {c \in SUBSET {s \in m.live : s.small} :
           \A f \in Forks : m.forks[f] # NoFork =>
             LET segs == m.forks[f].segs
             IN  \A i, j \in 1..Len(segs) :
                   i < j /\ segs[i] \in c => segs[j] \in c}

Folded(m) == IF Cardinality(Foldable(m)) >= Trigger THEN Foldable(m) ELSE {}

\* fold_inputs and coalesce: one fork's folded spans in log order, then the
\* pushed lines.
SpanOf(m, seen, f) ==
  LET rm == m.forks[f]
      folded == IF rm = NoFork THEN <<>> ELSE Within(rm.segs, Folded(m))
  IN  FlattenSeq([i \in 1..Len(folded) |-> folded[i].spans[f]])
        \o (IF f \in DOMAIN seen THEN NewLines(rm, seen[f]) ELSE <<>>)

\* Everything the new segments hold.
Inputs(m, seen, blobs) ==
  [items |-> Classified(m, Pushed(m, seen), ToSend(m, blobs))
               \cup UNION {s.items : s \in Folded(m)},
   spans |-> [f \in Forks |-> SpanOf(m, seen, f)]]

NoSpans == [f \in Forks |-> <<>>]

\* build_segments: one segment, under the small threshold or over it; or,
\* past the target size, a cut between inputs, blobs first and spans after.
Cuts(in) ==
  LET Seg(items, spans, small) == [items |-> items, spans |-> spans, small |-> small]
  IN  IF in.items = {} /\ in.spans = NoSpans THEN {<<>>}
      ELSE {<<Seg(in.items, in.spans, b = "small")>> : b \in Sizes \ {"split"}}
             \cup {<<Seg(in.items, NoSpans, FALSE), Seg({}, in.spans, TRUE)>> :
                     b \in {c \in Sizes : c = "split" /\ in.items # {}
                                            /\ in.spans # NoSpans}}

\* The manifest that publishes `segs` over m.
Assembled(m, seen, segs) ==
  LET Moved(f) ==
        IF f \notin Heads(m, seen) THEN m.forks[f]
        ELSE [anchor |-> seen[f].anchor, head |-> seen[f].head,
              segs |-> IF m.forks[f] = NoFork THEN <<>> ELSE m.forks[f].segs]
      Listed(h, f) ==
        [h EXCEPT !.segs = Within(@, ToSet(@) \ Folded(m))
                             \o Within(segs, {s \in ToSet(segs) : s.spans[f] # <<>>})]
  IN  [forks |-> [f \in Forks |-> IF Moved(f) = NoFork THEN NoFork
                                  ELSE Listed(Moved(f), f)],
       live |-> (m.live \ Folded(m)) \cup ToSet(segs)]

\* assemble returns None.
NothingNew(m, seen, blobs) == ToSend(m, blobs) = {} /\ Heads(m, seen) = {}

-----------------------------------------------------------------------------
(* serve::unpack_segments and serve::restore.                              *)

HeadOf(l) == IF l = <<>> THEN NoId ELSE l[Len(l)].id

\* current_state of a log anchored at state a.
Loads(a, l) ==
  LET at == {i \in 1..Len(l) : l[i].new = a}
  IN  /\ \A i \in 1..Len(l) : l[i].prev = HeadOf(SubSeq(l, 1, i - 1))
      /\ \A i \in 2..Len(l) : l[i].old = l[i - 1].new
      /\ at = {} /\ l # <<>> => l[1].old = a

\* The states one log leads to from the states known: all of it if it began
\* at one of them, else what follows the last visit to one.
Reached(known, l) ==
  {l[i].new : i \in {j \in 1..Len(l) :
     \/ l[1].old \in known
     \/ \E k \in 1..j - 1 : /\ l[k].new \in known
                            /\ \A n \in k + 1..Len(l) : l[n].new # l[k].new}}

\* The forks whose anchor manifest restore cannot derive.  It grows the known
\* states from the empty one, a round at a time, and gives up on the first
\* round that resolves no fork.
Unanchored(m) ==
  LET round[n \in 0..Len(Names)] ==
        IF n = 0
        THEN [known |-> {NoBlob}, stuck |-> FALSE,
              left |-> {f \in Forks : m.forks[f] # NoFork}]
        ELSE LET r == round[n - 1]
                 known == r.known \cup UNION {Reached(r.known, LogOf(m, f)) : f \in Forks}
                 left == {f \in r.left : m.forks[f].anchor \notin known}
             IN  IF r.stuck THEN r
                 ELSE [known |-> known, left |-> left, stuck |-> left = r.left]
  IN  round[Len(Names)].left

\* A clone of this manifest succeeds.
Restores(m) ==
  /\ Loadable(m)
  /\ \A e \in Items(m) : e.line # NoId =>
       /\ e.blob \notin Opaque
       /\ \E s \in m.live, f \in Forks : \E x \in ToSet(s.spans[f]) :
            x.id = e.line /\ x.new = e.blob
  /\ Unanchored(m) = {}
  /\ \A f \in Forks : m.forks[f] # NoFork =>
       /\ Loads(m.forks[f].anchor, LogOf(m, f))
       /\ HeadOf(LogOf(m, f)) = m.forks[f].head
=============================================================================
