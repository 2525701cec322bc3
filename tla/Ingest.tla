------------------------------- MODULE Ingest -------------------------------
(***************************************************************************)
(* Recording a coding session after the fact (commit, read_transcript and  *)
(* calls of src/src/claude.rs).  A harness runs sessions that edit the     *)
(* working tree and append to a transcript each; shells edit the tree      *)
(* unseen; an ingest reads a transcript back, plans, and appends one line  *)
(* per call to the session's fork and one line for the residue.            *)
(*                                                                         *)
(* A transcript line half written is one not written yet, to a reader that *)
(* skips what does not parse.  Prose and paths outside the repository are  *)
(* left out.                                                               *)
(***************************************************************************)
EXTENDS SessionPlan

CONSTANTS
  Sessions, NoSession,
  Start,      \* the state of main, which nobody moves
  Tools,      \* the calls the harness can make: tool, path and spans or content
  ShellEdits, \* the span edits a shell run can make: path, old and new
  Modes,      \* how ingests are run: "full", "dry" or "keep" (no reconcile)
  Resuming,   \* may a session continue another one?
  MaxCalls, MaxReads, MaxShells, MaxRuns

Span == [old : Content, new : Content, all : BOOLEAN]
Tool == [tool : {"Edit", "MultiEdit"}, path : Paths, spans : Seq(Span)]
          \cup [tool : {"Write"}, path : Paths, content : Content]

ASSUME IngestAssumption ==
  /\ Start \in [Paths -> Content \cup {NoFile}]
  /\ Tools \subseteq Tool
  /\ ShellEdits \subseteq [path : Paths, old : Content, new : Content]
  /\ NoSession \notin Sessions
  /\ Modes \subseteq {"full", "dry", "keep"}
  /\ Resuming \in BOOLEAN
  /\ {MaxCalls, MaxReads, MaxShells, MaxRuns} \subseteq Nat

VARIABLES
  entries,  \* each session's transcript
  tree,     \* the working tree
  fork,     \* each session's fork
  run,      \* the ingest under way, or the last one
  used      \* history: calls, reads, shell runs and ingests so far

vars == <<entries, tree, fork, run, used>>

-----------------------------------------------------------------------------
(* The harness.                                                            *)

\* A fork holds its own lines and, by its anchor, the ones before them.
NoFork == [exists |-> FALSE, prior |-> <<>>, lines |-> <<>>]
NoRun == [pc |-> "idle"]

Init ==
  /\ entries = [s \in Sessions |-> <<>>]
  /\ tree = Start
  /\ fork = [s \in Sessions |-> NoFork]
  /\ run = NoRun
  /\ used = [calls |-> 0, reads |-> 0, shells |-> 0, runs |-> 0]

\* An entry's uuid names the session that wrote it, which is also its stamp;
\* a copy keeps both.
NewId(s) == <<s, Len(entries[s]) + 1>>
Log(s, e) == entries' = [entries EXCEPT ![s] = Append(@, e)]

\* The call of s that has no result yet.
Results(s) == {entries[s][i].id : i \in {j \in 1..Len(entries[s]) :
                                           entries[s][j].kind = "result"}}
Pending(s) ==
  {e \in Range(entries[s]) : /\ e.kind = "call" /\ e.uuid[1] = s
                             /\ e.uuid \notin Results(s)}

Read(s, x) ==
  /\ used.reads < MaxReads /\ Pending(s) = {}
  /\ Log(s, [uuid |-> NewId(s), kind |-> "read", path |-> x])
  /\ used' = [used EXCEPT !.reads = @ + 1]
  /\ UNCHANGED <<tree, fork, run>>

\* The harness writes the call down before it makes it.
Ask(s, t) ==
  /\ used.calls < MaxCalls /\ Pending(s) = {}
  /\ Log(s, [uuid |-> NewId(s), kind |-> "call", tool |-> t])
  /\ used' = [used EXCEPT !.calls = @ + 1]
  /\ UNCHANGED <<tree, fork, run>>

\* One pass over the content, left to right.
OnePass(c, old, new) ==
  FoldRight(LAMBDA at, d : Splice(d, at, at + Len(old), new), Starts(c, old), c)

\* What the editor makes of a content: one span after another, or refusal.
Edited(c, spans) ==
  FoldLeft(LAMBDA d, sp :
             IF \/ d = NoFile \/ Occurrences(d, sp.old) = {}
                \/ ~sp.all /\ ~Unique(d, sp.old)
             THEN NoFile
             ELSE OnePass(d, sp.old, sp.new),
           c, spans)
After(t) == IF t.tool = "Write" THEN t.content ELSE Edited(tree[t.path], t.spans)

Answer(s, e, error) ==
  /\ Log(s, [uuid |-> NewId(s), kind |-> "result", id |-> e.uuid, error |-> error])
  /\ UNCHANGED <<fork, run, used>>

Make(s, e) ==
  /\ After(e.tool) # NoFile
  /\ tree' = [tree EXCEPT ![e.tool.path] = After(e.tool)]
  /\ Answer(s, e, FALSE)

\* The editor refuses the call, or the user does.
Refuse(s, e) == Answer(s, e, TRUE) /\ UNCHANGED tree

\* What a shell does is in no transcript.
Shell(ed) ==
  /\ used.shells < MaxShells
  /\ tree[ed.path] # NoFile /\ Unique(tree[ed.path], ed.old)
  /\ tree' = [tree EXCEPT ![ed.path] = Replaced(@, ed.old, ed.new)]
  /\ used' = [used EXCEPT !.shells = @ + 1]
  /\ UNCHANGED <<entries, fork, run>>

\* A session that continues another begins with its entries.
Resume(s, t) ==
  /\ Resuming
  /\ entries[s] # <<>> /\ entries[t] = <<>> /\ Pending(s) = {}
  /\ entries' = [entries EXCEPT ![t] = entries[s]]
  /\ UNCHANGED <<tree, fork, run, used>>

-----------------------------------------------------------------------------
(* Reading a transcript.                                                   *)

\* The uuids that other transcripts carry.
Siblings(s) == UNION {{e.uuid : e \in Range(entries[t])} : t \in Sessions \ {s}}

\* read_transcript: the first entry that no sibling carries and that is not
\* stamped with another session.
Origin(s) ==
  Min({Len(entries[s]) + 1} \cup
      {i \in 1..Len(entries[s]) : /\ entries[s][i].uuid \notin Siblings(s)
                                  /\ entries[s][i].uuid[1] = s})

\* The session of the newest entry before the origin.
Inherited(s) ==
  LET o == Origin(s)
  IN  IF o = 1 \/ entries[s][o - 1].uuid[1] = s THEN NoSession
      ELSE entries[s][o - 1].uuid[1]

\* errored_calls.
Errored(s) ==
  {e.id : e \in {r \in Range(entries[s]) : r.kind = "result" /\ r.error}}

\* calls: from the origin on, each with the files read since the one before.
Calls(s) ==
  LET step(acc, e) ==
        CASE e.kind = "read" -> [acc EXCEPT !.reads = @ \cup {e.path}]
          [] e.kind = "call" /\ e.uuid \notin Errored(s) ->
               [reads |-> {},
                out |-> Append(acc.out, [id |-> e.uuid, tool |-> e.tool, reads |-> acc.reads])]
          [] OTHER -> acc
  IN  FoldLeft(step, [reads |-> {}, out |-> <<>>],
               SubSeq(entries[s], Origin(s), Len(entries[s]))).out

-----------------------------------------------------------------------------
(* The fork of a session.                                                  *)

\* main has one line, that made Start.
SeedLine ==
  LET made == SetToSeq({x \in Paths : Start[x] # NoFile})
  IN  [ops |-> [k \in 1..Len(made) |->
                  [op |-> "create", path |-> made[k], content |-> Start[made[k]]]],
       after |-> Start, calls |-> <<>>, reads |-> {}]

\* continuity_log.
History(f) == <<SeedLine>> \o f.prior \o f.lines
StateOf(f) == History(f)[Len(History(f))].after

\* Mutant of RecordedCalls: the calls a line absorbed are not looked at.
RecordedFirst(f) == {x.calls[1] : x \in {y \in Range(History(f)) : y.calls # <<>>}}

\* recorded_calls: a line records its call and the ones it absorbed.
RecordedCalls(f) == UNION {Range(x.calls) : x \in Range(History(f))}

\* What a new fork of s starts from: the fork of the session it continues
\* when that was ingested, else main.
Basis(s) ==
  LET b == Inherited(s)
  IN  IF b # NoSession /\ fork[b].exists THEN fork[b].prior \o fork[b].lines ELSE <<>>

\* The fork of s, or the one ensure_fork would make.
Ensured(s) ==
  IF fork[s].exists THEN fork[s]
  ELSE [exists |-> TRUE, prior |-> Basis(s), lines |-> <<>>]

-----------------------------------------------------------------------------
(* An ingest: commit.                                                      *)

Begin(s, mode) ==
  /\ run.pc \in {"idle", "done"}
  /\ used.runs < MaxRuns
  /\ run' = [pc |-> "plan", s |-> s, mode |-> mode, calls |-> Calls(s),
             to |-> Ensured(s), planned |-> <<>>, next |-> 1, skipped |-> 0,
             appended |-> 0, scan |-> Start]
  /\ used' = [used EXCEPT !.runs = @ + 1]
  /\ UNCHANGED <<entries, tree, fork>>

\* The plan of the run, from the fork as Begin found it and the tree now.
PlanNow == Plan(StateOf(run.to), run.calls, RecordedCalls(run.to), tree)

MakePlan ==
  /\ run.pc = "plan"
  /\ \E p \in {PlanNow.planned} :
       run' = [run EXCEPT
                 !.planned = p,
                 !.pc = IF run.mode = "dry" THEN "done" ELSE "land",
                 !.skipped = Cardinality({k \in 1..Len(p) : p[k].kind = "skip"})]
  /\ fork' = IF run.mode = "dry" THEN fork
             ELSE [fork EXCEPT ![run.s] = run.to]
  /\ UNCHANGED <<entries, tree, used>>

\* Append one line to the fork of the run.
Appended(ops, after, calls, reads) ==
  fork' = [fork EXCEPT ![run.s].lines =
             Append(@, [ops |-> ops, after |-> after, calls |-> calls, reads |-> reads])]

Seats == {k \in run.next..Len(run.planned) : run.planned[k].kind = "land"}

\* The calls a planned line records: its own, and those it absorbed.
CallsOf(p) ==
  <<p.call.id>> \o [k \in 1..Len(p.absorbed) |-> run.planned[p.absorbed[k]].call.id]

\* record_observed: the line is validated again, against the fork as it is
\* under the lock; one that fails is left to the reconciliation.
Land ==
  LET k == Min(Seats)
      p == run.planned[k]
      r == ApplyIntent(StateOf(fork[run.s]), p.ops)
  IN  /\ run.pc = "land" /\ Seats # {}
      /\ run' = [run EXCEPT !.next = k + 1,
                            !.skipped = @ + (IF r.ok THEN 0 ELSE 1),
                            !.appended = @ + (IF r.ok THEN 1 ELSE 0)]
      /\ IF r.ok THEN Appended(p.ops, r.m, CallsOf(p), p.reads)
                 ELSE UNCHANGED fork
      /\ UNCHANGED <<entries, tree, used>>

\* residue: does the tree hold anything the fork does not?
Residue ==
  /\ run.pc = "land" /\ Seats = {}
  /\ run' = [run EXCEPT
               !.scan = tree,
               !.pc = IF tree = StateOf(fork[run.s]) \/ run.mode = "keep"
                      THEN "done" ELSE "scan"]
  /\ UNCHANGED <<entries, tree, fork, used>>

\* Repository::commit scans the tree again, and refuses an empty change.
Scan ==
  /\ run.pc = "scan"
  /\ run' = [run EXCEPT
               !.scan = tree,
               !.pc = IF tree = StateOf(fork[run.s]) THEN "idle" ELSE "commit"]
  /\ UNCHANGED <<entries, tree, fork, used>>

\* synthesize_intent, path by path.
SynthesizeIntent(m, n) ==
  LET ops(x) ==
        LET create == [op |-> "create", path |-> x, content |-> n[x]]
            delete == [op |-> "delete", path |-> x, content |-> m[x]]
            e == SynthesizeEdit(m[x], n[x])
        IN  CASE m[x] = n[x] -> <<>>
              [] m[x] # n[x] /\ m[x] = NoFile -> <<create>>
              [] m[x] # n[x] /\ n[x] = NoFile -> <<delete>>
              [] m[x] = <<>> /\ n[x] \notin {NoFile, <<>>} -> <<delete, create>>
              [] OTHER -> <<[op |-> "edit", path |-> x, old |-> e.old, new |-> e.new]>>
  IN  FoldLeft(LAMBDA acc, x : acc \o ops(x), <<>>, SetToSeq(Paths))

\* The reconciling line: what was scanned, and no reads.
Reconcile ==
  /\ run.pc = "commit"
  /\ Appended(SynthesizeIntent(StateOf(fork[run.s]), run.scan), run.scan, <<>>, {})
  /\ run' = [run EXCEPT !.pc = "done", !.appended = @ + 1]
  /\ UNCHANGED <<entries, tree, used>>

\* The process dies: the lines it appended stay.
Kill ==
  /\ run.pc \notin {"idle", "done"}
  /\ run' = [run EXCEPT !.pc = "idle"]
  /\ UNCHANGED <<entries, tree, fork, used>>

-----------------------------------------------------------------------------
Next ==
  \/ \E s \in Sessions :
       \/ \E x \in Paths : Read(s, x)
       \/ \E t \in Tools : Ask(s, t)
       \/ \E e \in Pending(s) : Make(s, e) \/ Refuse(s, e)
       \/ \E t \in Sessions : Resume(s, t)
       \/ \E mode \in Modes : Begin(s, mode)
  \/ \E ed \in ShellEdits : Shell(ed)
  \/ MakePlan \/ Land \/ Residue \/ Scan \/ Reconcile \/ Kill

Spec == Init /\ [][Next]_vars

-----------------------------------------------------------------------------
(* Properties.                                                             *)

\* The calls s made itself, its transcript says.
OwnCalls(s) ==
  {e \in Range(entries[s]) : e.kind = "call" /\ e.uuid[1] = s /\ e.uuid \notin Errored(s)}

\* However ingests die and are run again, a fork records no call twice, be it
\* as a line of its own or among the calls a line absorbed; a run that skipped
\* nothing leaves every call its session made on the fork, but those that
\* another transcript carries; and "a second run over the same session appends
\* only what is new": after such a run, with the transcript and the tree as it
\* last saw them, another finds no line to land and no residue (recorded_calls).
\* The exception is the code's: a call copied by a resume before its session
\* was ingested is before the origin of both transcripts (read_transcript), and
\* no ingest ever records it.
RecordedOnce ==
  /\ \A s \in Sessions :
       LET calls == FlattenSeq([k \in 1..Len(fork[s].lines) |-> fork[s].lines[k].calls])
       IN  IsInjective(calls)
  /\ /\ run.pc = "done" /\ run.mode # "dry" /\ run.skipped = 0 /\ Calls(run.s) = run.calls
     => \A e \in OwnCalls(run.s) : e.uuid \in RecordedCalls(fork[run.s]) \cup Siblings(run.s)
  /\ /\ run.pc = "done" /\ run.mode = "full" /\ run.skipped = 0
     /\ tree = run.scan /\ Calls(run.s) = run.calls
     => LET f == fork[run.s]
            again == Plan(StateOf(f), Calls(run.s), RecordedCalls(f), tree)
        IN  StateOf(f) = tree /\ \A p \in Range(again.planned) : p.kind # "land"

\* The first pass over the calls of the run about to be planned.
FirstPass == Observed(StateOf(run.to), run.calls, RecordedCalls(run.to))

TakesHunks(as, got, now) ==
  LET hunks == ChangedRanges(as, now)
      trimmed == [k \in 1..Len(hunks) |-> Trim(as, now, hunks[k])]
      chosen(in) == SelectSeq(trimmed, LAMBDA h : h \in in)
  IN  \E in \in SUBSET Range(trimmed) : got = Spliced(as, now, chosen(in))
KeepsBytes(wrote, promised) ==
  \A x \in Paths :
    promised[x] = wrote[x]
      \/ /\ wrote[x] # NoFile /\ tree[x] # NoFile
         /\ TakesHunks(wrote[x], promised[x], tree[x])

\* "Alignment never invents", and absorption leaves the same bytes: the plan
\* promises what the calls wrote, with some of the hunks in which the tree
\* differs, whole or trimmed, as the tree has them.
PlanKeepsBytes == run.pc = "plan" => KeepsBytes(FirstPass.m, PlanNow.m)

Honest(obs) ==
  \A x \in Paths : \A r \in obs.tracks[x].runs :
    LET p == obs.planned[r.call]
    IN  /\ p.kind = "land"
        /\ r.end <= Len(obs.m[x])
        /\ Slice(obs.m[x], r.start, r.end)
             = Slice(p.ops[r.op].new, r.at, r.at + (r.end - r.start))

\* A run of bytes is what its operation wrote, at the place it says, through
\* every later edit around it and rewrite within it (Track).
TracksHonest == run.pc = "plan" => Honest(FirstPass)

Accounted(p, first) ==
  LET of(kind) == {k \in 1..Len(p) : p[k].kind = kind}
      lists == FlattenSeq([k \in 1..Len(p) |-> IF p[k].kind = "land"
                                                THEN p[k].absorbed ELSE <<>>])
  IN  /\ of("skip") = {k \in 1..Len(p) : first[k].kind = "skip"}
      /\ IsInjective(lists)
      /\ Range(lists) = of("absorbed")
      /\ \A k \in of("land") : \A j \in Range(p[k].absorbed) : k < j

\* No call is lost on the way through the plan: the ones skipped are those
\* whose spans the first pass did not find ("calls as written, which pass 1
\* already validated"), and any other lands, or is absorbed by one that does.
CallsAccounted ==
  run.pc = "plan" => Accounted(PlanNow.planned, FirstPass.planned)

\* The state the k-th line of a fork met.
Before(f, k) == History(f)[Len(History(f)) - Len(f.lines) + k - 1].after

\* "a line whose spans were aligned or absorbed names the blobs its own
\* replay meets": the reads of a landed line are of the state it landed on.
ReadsNameMet ==
  \A s \in Sessions : \A k \in 1..Len(fork[s].lines) :
    \A r \in fork[s].lines[k].reads : r.blob = Before(fork[s], k)[r.path]

\* A line's intent, replayed, is its delta: also for the intent synthesized
\* for what the tree held ("the intent is what lets the line travel").
IntentTellsDelta ==
  \A s \in Sessions : \A k \in 1..Len(fork[s].lines) :
    ApplyIntent(Before(fork[s], k), fork[s].lines[k].ops)
      = [ok |-> TRUE, m |-> fork[s].lines[k].after]

\* The operations of a history on one path, each with its line.
OpsOn(f, x) ==
  FlattenSeq([k \in 1..Len(History(f)) |->
    LET ops == SelectSeq(History(f)[k].ops, LAMBDA o : o.path = x)
    IN  [j \in 1..Len(ops) |-> [line |-> k, op |-> ops[j]]]])

\* blame: the replay ends in the file's bytes, and a text line has been there
\* ever since its owner, unless a later edit only took bytes away.
BlameHolds ==
  \A s \in Sessions : \A x \in Paths :
    LET h == History(fork[s])
        ops == OpsOn(fork[s], x)
        t == Stamped(ops)
    IN  /\ t.exists <=> h[Len(h)].after[x] # NoFile
        /\ t.exists => t.content = h[Len(h)].after[x]
        /\ \A b \in Range(RollUp(t)) :
             \/ \E o \in Range(ops) : o.line > b.owner /\ o.op.op = "edit" /\ o.op.new = <<>>
             \/ \A k \in b.owner..Len(h) : Occurrences(h[k].after[x], b.text) # {}

\* The diff of the tree against a fork, applied: by splicing its byte ranges
\* ("reproduces `new` exactly"), and by the line numbers its hunks print.
DiffApplies ==
  \A s \in Sessions : \A x \in Paths :
    LET a == StateOf(fork[s])[x]
        b == tree[x]
        hunks == GroupHunks(LcsEdits(Lines(a), Lines(b)), 1)
        patched == FoldRight(LAMBDA h, c :
                     LET at(side) == Max({0, side.start - 1})
                     IN  Splice(c, at(h.old), at(h.old) + h.old.len,
                                Slice(Lines(b), at(h.new), at(h.new) + h.new.len)),
                     hunks, Lines(a))
    IN  a # NoFile /\ b # NoFile =>
          /\ Spliced(a, b, ChangedRanges(a, b)) = b
          /\ patched = Lines(b)
=============================================================================
