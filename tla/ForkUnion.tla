------------------------------ MODULE ForkUnion ------------------------------
(***************************************************************************)
(* Forks and union (src/src/union.rs, and apply, repoint, fuse, snapshot   *)
(* and create_fork of src/src/repo.rs), one whole command at a time: every *)
(* command that changes a fork does so in one append under that fork's     *)
(* lock, against the state it loaded under the lock.  The steps inside an  *)
(* append, and what dies between them, are LooseLog's.                     *)
(***************************************************************************)
EXTENDS Patches, SequencesExt

CONSTANTS
  Forks,     \* fork names
  Main,      \* the fork every repository has
  NoFork,
  Bases,     \* the forks this deployment creates forks from,
  Targets,   \*   and those it unions into
  Observed,  \* what its editors record as read (see Observations)
  MaxLines,  \* lines in all forks,
  MaxOwn,    \*   those among them that no union landed,
  MaxAsides  \*   and of those, repoints and fuses

ASSUME ForkAssumption ==
  /\ Main \in Forks /\ NoFork \notin Forks \cup Manifest
  /\ Bases \subseteq Forks /\ Targets \subseteq Forks
  /\ MaxLines \in Nat /\ MaxOwn \in Nat /\ MaxAsides \in Nat

VARIABLES
  anchor,  \* each fork's anchor manifest, or NoFork where no fork exists
  log,     \* each fork's lines
  parted   \* history: how many lines the base of a fork had when it was made

vars == <<anchor, log, parted>>

-----------------------------------------------------------------------------
(* Lines and states.                                                       *)

\* Line ids are hashes, so unique: the fork and place a line was sealed at.
LineId(f, i) == <<f, i>>
NoId == <<NoFork, 0>>
LineIds == (Forks \X Nat) \cup {NoId}

NoOrigin == [fork |-> NoFork, id |-> NoId]
NoFuse == [from |-> NoId, to |-> NoId]

\* A log line.  sum_after stands for the state `after`.
Line == [id : LineIds, intent : Intents, delta : SUBSET Entry,
         after : Manifest, reads : Reads,
         origin : [fork : Forks \cup {NoFork}, id : LineIds],
         fuse : [from : LineIds, to : LineIds]]

Existing == {f \in Forks : anchor[f] # NoFork}

\* last_state_position, counted from 1: the last line that names state m, or
\* 0 when none does.  A state can recur, and a snapshot anchors mid-log.
LastAt(l, m) ==
  LET at == {i \in 1..Len(l) : l[i].after = m}
  IN  IF at = {} THEN 0 ELSE CHOOSE i \in at : \A j \in at : j <= i

\* The state lines lead to from state m, when every delta applies.
Replay(m, l) == FoldLeft(LAMBDA n, x : Result(n, x.delta), m, l)

\* current_state: replay the lines after the anchor's last occurrence.
Suffix(f) == SubSeq(log[f], LastAt(log[f], anchor[f]) + 1, Len(log[f]))
State(f) == Replay(anchor[f], Suffix(f))

\* One line's arithmetic against the state before it.
Follows(x, m) == Applies(m, x.delta) /\ x.after = Result(m, x.delta)

\* What current_state verifies before it returns State(f).
Loads(f) ==
  LET l == log[f]
      start == LastAt(l, anchor[f])
  IN  /\ \A i \in 2..Len(l) : Follows(l[i], l[i - 1].after)
      /\ start = 0 /\ l # <<>> => Follows(l[1], anchor[f])
      /\ \A i \in start + 1..Len(l) :
           Applies(Replay(anchor[f], SubSeq(l, start + 1, i - 1)), l[i].delta)
      /\ l # <<>> => State(f) = l[Len(l)].after

IdsOf(l) == {l[i].id : i \in 1..Len(l)}

-----------------------------------------------------------------------------
(* Commands other than union.                                              *)

Init ==
  /\ anchor = [f \in Forks |-> IF f = Main THEN EmptyManifest ELSE NoFork]
  /\ log = [f \in Forks |-> <<>>]
  /\ parted = [f \in Forks |-> 0]

AllLines == UNION {ToSet(log[f]) : f \in Forks}
Own == {x \in AllLines : x.origin = NoOrigin}
Asides == {x \in Own : x.intent = NoIntent}

\* Append one line of delta d to fork f.
Commit(f, i, d, r, fu) ==
  /\ Cardinality(Own) < MaxOwn /\ Cardinality(AllLines) < MaxLines
  /\ f \in Existing /\ Loads(f)
  /\ log' = [log EXCEPT ![f] = Append(@,
       [id |-> LineId(f, Len(@) + 1), intent |-> i, delta |-> d,
        after |-> Result(State(f), d), reads |-> r, origin |-> NoOrigin,
        fuse |-> fu])]
  /\ UNCHANGED <<anchor, parted>>

\* What an author may ask of state m.  An edit that changes nothing is left
\* out.
IntentsAt(m) ==
  {i \in Edits : Valid(m, i) /\ i.new # {i.old}}
    \cup {i \in Creates : Valid(m, i)}
    \cup {[op |-> "delete", path |-> x, blob |-> m[x]] :
            x \in {y \in Paths : m[y] # NoFile}}

\* What an author may have recorded as read: nothing (an andon line), the
\* line an edit replaces, that and another, the whole file, or a search.
Observations == {"none", "edited", "beside", "file", "search"}
ASSUME ObservedAssumption == Observed \subseteq Observations
ReadsFor(m, i) ==
  LET Span(s) == [kind |-> "spans", path |-> i.path, blob |-> m[i.path], spans |-> s]
      Beside == {t \in Texts : m[i.path][t] > 0} \ {i.old}
      Of(o) == CASE o = "none" -> {NoReads}
                 [] o = "edited" -> {Span({i.old})}
                 [] o = "beside" -> {Span({i.old, t}) : t \in Beside}
                 [] o = "file" -> {Span({})}
                 [] o = "search" -> {[kind |-> "any", state |-> m]}
  IN  IF i.op = "edit" THEN UNION {Of(o) : o \in Observed} ELSE {NoReads}

\* apply and record_observed.
Apply(f, i, r) ==
  /\ f \in Existing
  /\ Valid(State(f), i)
  /\ Commit(f, i, Realized(State(f), i), r, NoFuse)

\* repoint: a line back to a state of this fork's history, with no intent.
Repoint(f, m) ==
  /\ f \in Existing
  /\ Cardinality(Asides) < MaxAsides
  /\ Delta(State(f), m) # {}
  /\ Commit(f, NoIntent, Delta(State(f), m), NoReads, NoFuse)

\* fuse: a named span of this fork's lines, an arithmetic identity.
FuseSpan(f, a, b) ==
  /\ a <= b
  /\ Cardinality(Asides) < MaxAsides
  /\ Commit(f, NoIntent, {}, NoReads,
            [from |-> log[f][a].id, to |-> log[f][b].id])

\* snapshot: move the anchor to the current state; earlier lines remain.
Snapshot(f) ==
  /\ f \in Existing /\ Loads(f)
  /\ anchor' = [anchor EXCEPT ![f] = State(f)]
  /\ UNCHANGED <<log, parted>>

\* create_fork: an anchor and an empty log.
CreateFork(n, from) ==
  /\ from \in Existing /\ Loads(from)
  /\ n \notin Existing
  /\ anchor' = [anchor EXCEPT ![n] = State(from)]
  /\ parted' = [parted EXCEPT ![n] = Len(log[from])]
  /\ UNCHANGED log

-----------------------------------------------------------------------------
(* Union.                                                                  *)

\* Mutant of Carried: only lines carried under their own id.
CarriedById(s, l) == IdsOf(l)

\* What the target already carries of the source.
Carried(s, l) ==
  IdsOf(l) \cup {l[i].origin.id : i \in {j \in 1..Len(l) : l[j].origin.fork = s}}

\* The ids under which the target carries them.
Rekey(s, l) ==
  [x \in {l[i].origin.id : i \in {j \in 1..Len(l) : l[j].origin.fork = s}} |->
     (CHOOSE y \in ToSet(l) : y.origin = [fork |-> s, id |-> x]).id]

\* Mutant of Renamed: fuse endpoints travel untouched.
RenamedNot(rekey, x) == x

Renamed(rekey, x) == IF x \in DOMAIN rekey THEN rekey[x] ELSE x

\* Mutant of Concurrent: the slice starts one line late.
ConcurrentLate(s, l) == SubSeq(l, LastAt(l, anchor[s]) + 2, Len(l))

\* Everything the target wrote after the source diverged from it, by the
\* source's anchor; the whole log when the anchor is not found in it.
Concurrent(s, l) == SubSeq(l, LastAt(l, anchor[s]) + 1, Len(l))

\* Mutant of Landed: the line keeps the delta the source realized.
LandedUnrealized(s, acc, x, d) ==
  [id |-> LineId(acc.fork, acc.length + Len(acc.staged) + 1), intent |-> x.intent,
   delta |-> x.delta, after |-> Result(acc.scratch, d), reads |-> x.reads,
   origin |-> [fork |-> s, id |-> x.id],
   fuse |-> [from |-> Renamed(acc.rekey, x.fuse.from),
             to |-> Renamed(acc.rekey, x.fuse.to)]]

\* The landed form of source line x: a new id and union provenance.
Landed(s, acc, x, d) ==
  [id |-> LineId(acc.fork, acc.length + Len(acc.staged) + 1), intent |-> x.intent,
   delta |-> d, after |-> Result(acc.scratch, d), reads |-> x.reads,
   origin |-> [fork |-> s, id |-> x.id],
   fuse |-> [from |-> Renamed(acc.rekey, x.fuse.from),
             to |-> Renamed(acc.rekey, x.fuse.to)]]

\* Stratum 2, else stratum 3.
Replays(acc, x) ==
  IF Applies(acc.scratch, x.delta) THEN x.delta ELSE Realized(acc.scratch, x.intent)

\* Land x on the scratch state, and note whether the concurrent writes made
\* its reads stale: the forward tripwire.
Land(s, conc, acc, x) ==
  LET y == Landed(s, acc, x, Replays(acc, x))
  IN  [acc EXCEPT
         !.scratch = y.after,
         !.staged = Append(@, y),
         !.rekey = [a \in DOMAIN @ \cup {x.id} |->
                      IF a = x.id THEN y.id ELSE @[a]],
         !.stale = @ \/ \E c \in conc :
                     StaleReads(x.reads, WritePaths(c.delta), acc.scratch)]

\* Strata 1 to 3 for one source line.  Where neither stratum holds the
\* line's assumptions are dead and the whole union stops.
Stage(s, l, identical, acc, x) ==
  IF \/ acc.dead
     \/ x.id \in Carried(s, l)
     \/ identical /\ x.fuse = NoFuse
  THEN acc
  ELSE IF Applies(acc.scratch, x.delta) \/ Valid(acc.scratch, x.intent)
       THEN Land(s, ToSet(Concurrent(s, l)), acc, x)
       ELSE [acc EXCEPT !.dead = TRUE]

\* The replay of source s onto target t, when t has lines l and state m.
Merge(s, t, l, m) ==
  LET identical == State(s) = m
  IN  FoldLeft(LAMBDA acc, x : Stage(s, l, identical, acc, x),
               [fork |-> t, length |-> Len(l), scratch |-> m, staged |-> <<>>,
                rekey |-> Rekey(s, l), stale |-> FALSE, dead |-> FALSE],
               log[s])

\* The symmetric tripwire: would the merge strand a concurrent line's reads?
Strands(s, l, m, mg) ==
  \E c \in ToSet(Concurrent(s, l)) :
    StrandedReads(c.reads, UNION {WritePaths(y.delta) : y \in ToSet(mg.staged)},
                  m, mg.scratch)

\* Mutant of Clean: no symmetric tripwire.
CleanForward(s, l, m, mg) == ~mg.dead /\ ~mg.stale

\* Nothing gates: the staged lines may be published.
Clean(s, l, m, mg) == ~mg.dead /\ ~mg.stale /\ ~Strands(s, l, m, mg)

\* union: all of the staged lines in one append, or none of them.
Union(s, t) ==
  LET m == State(t)
      mg == Merge(s, t, log[t], m)
  IN  /\ s \in Existing /\ t \in Existing /\ Loads(s) /\ Loads(t)
      /\ Clean(s, log[t], m, mg)
      /\ mg.staged # <<>>
      /\ Cardinality(AllLines) + Len(mg.staged) <= MaxLines
      /\ log' = [log EXCEPT ![t] = @ \o mg.staged]
      /\ UNCHANGED <<anchor, parted>>

-----------------------------------------------------------------------------
History(f) == {anchor[f]} \cup {log[f][i].after : i \in 1..Len(log[f])}

Next ==
  \/ \E f \in Forks :
       \/ f \in Existing /\ \E i \in IntentsAt(State(f)) :
            \E r \in ReadsFor(State(f), i) : Apply(f, i, r)
       \/ f \in Existing /\ \E m \in History(f) : Repoint(f, m)
       \/ \E a, b \in 1..Len(log[f]) : FuseSpan(f, a, b)
       \/ Snapshot(f)
  \/ \E n \in Forks, from \in Bases : CreateFork(n, from)
  \/ \E s \in Forks, t \in Targets : Union(s, t)

Spec == Init /\ [][Next]_vars

-----------------------------------------------------------------------------
(* Properties.                                                             *)

\* Every variable has its type.
TypeOK ==
  /\ anchor \in [Forks -> Manifest \cup {NoFork}]
  /\ log \in [Forks -> Seq(Line)]
  /\ parted \in [Forks -> 0..MaxLines]
  /\ Cardinality(AllLines) <= MaxLines

\* Every fork loads, whatever was applied, undone, repointed, snapshotted or
\* unioned into it before: replay from the last line that names the anchor
\* agrees with the chain (current_state).
AlwaysLoads == \A f \in Existing : Loads(f)

\* The lines a step adds to t, and the state each landed on.
New(t) == Len(log[t]) + 1..Len(log'[t])
Under(t, i) == IF i = Len(log[t]) + 1 THEN State(t) ELSE log'[t][i - 1].after

\* This step lands lines of s in t.
Lands(s, t) == \E i \in New(t) : log'[t][i].origin.fork = s

\* The tripwires miss nothing, wherever a union goes: no line lands whose
\* author read something that is no longer so ("conservative, never
\* unsound").
NeverUnsound ==
  [][\A t \in Forks : \A i \in New(t) : StillSo(log'[t][i].reads, Under(t, i))]_vars

\* Fork s was made from Main, and Main has not come back since to the state
\* s is anchored at.
Apart(s) == s # Main /\ LastAt(log[Main], anchor[s]) <= parted[s]

\* The forward tripwire, of a fork unioned back into the fork it was made
\* from: no line lands whose author read something no longer so there
\* (note_stale_reads).
ReadsHold ==
  [][\A s \in Forks : Lands(s, Main) /\ Apart(s) =>
       \A i \in New(Main) : StillSo(log'[Main][i].reads, Under(Main, i))]_vars

\* The symmetric one: what a line written there since they parted had read,
\* and was still so, is not taken from under it (note_stranded_reads).
ReasoningKept ==
  [][\A s \in Forks : Lands(s, Main) /\ Apart(s) =>
       \A i \in parted[s] + 1..Len(log[Main]) :
         LET r == log[Main][i].reads
         IN  StillSo(r, State(Main)) => StillSo(r, State(Main)')]_vars

\* A union is never repeated: right after it, a second one carries nothing
\* and gates nothing.
Idempotent ==
  [][\A s, t \in Forks : Lands(s, t) =>
       Merge(s, t, log'[t], State(t)').staged = <<>>]_vars

\* A line without an intent lands with the delta it was sealed with: "realized
\* is authoritative for replay" (repoint, append_realized_batch).
EffectLands ==
  [][\A s, t \in Forks : \A i \in New(t) : \A x \in ToSet(log[s]) :
       log'[t][i].origin = [fork |-> s, id |-> x.id] /\ x.intent = NoIntent =>
         log'[t][i].delta = x.delta]_vars

\* A landed fuse spans the target's own lines: no endpoint keeps the name a
\* line had in the source once that line has landed (the re-key map).
FusesFollow ==
  \A t \in Existing : \A i, j \in 1..Len(log[t]) :
    LET o == log[t][i].origin
    IN  i < j /\ o # NoOrigin /\ log[t][j].origin.fork = o.fork =>
          o.id \notin {log[t][j].fuse.from, log[t][j].fuse.to}
=============================================================================
