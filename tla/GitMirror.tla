----------------------------- MODULE GitMirror -----------------------------
(***************************************************************************)
(* The bridge to git (src/src/git.rs, cmd_git_* of src/src/bin/tally.rs):  *)
(* a mirror fork that imports the commits of an upstream branch, one line  *)
(* per commit, and branches rendered from forks for pull requests.         *)
(*                                                                         *)
(* A git command reads the fork and git first, without a lock, and then    *)
(* lands what it made of them: two steps, and any command of anyone may    *)
(* come between them, or the process may die.  The git repository itself   *)
(* and what is done to it upstream are external.                           *)
(***************************************************************************)
EXTENDS ForkUnion

CONSTANTS
  Editors,    \* the forks this deployment edits directly
  Clients,    \* processes that run git commands
  NoJob,
  Unbound,    \* no mirror binding, or no branch
  Roots,      \* trees git history may start with
  Drafts,     \* trees upstream may commit
  MaxCommits, \* commits in the git repository
  MaxLands    \* what pull, reanchor and pr complete in all

ASSUME MirrorAssumption ==
  /\ Editors \subseteq Forks /\ Roots \subseteq Manifest /\ Drafts \subseteq Manifest
  /\ MaxCommits \in Nat /\ MaxLands \in Nat

VARIABLES
  commits,  \* the git repository: each commit's parents and tree
  tip,      \* where the upstream branch points
  branch,   \* the branch `tally/pr/<fork>` of each fork, or Unbound
  imported, \* the import annotations: which line names which commit
  binding,  \* the mirror file: a fork and the ref it follows, or Unbound
  job,      \* what each client is in the middle of
  lands     \* how many of the bridge's commands have completed

gitVars == <<commits, tip, branch>>
mirrorVars == <<imported, binding, job, lands>>

-----------------------------------------------------------------------------
(* The git repository.                                                     *)

Tree(c) == commits[c].tree
FirstParent(c) == commits[c].parents[1]

\* rev-list --first-parent: c and what it descends from, oldest first.
FirstParents(c) ==
  FoldLeft(LAMBDA l, i : IF commits[l[1]].parents = <<>> THEN l
                         ELSE <<FirstParent(l[1])>> \o l,
           <<c>>, [i \in 1..Len(commits) |-> i])

\* linear_chain: back to the first commit that has no parent, or several.
LinearChain(c) ==
  LET l == FirstParents(c)
      ends == {i \in 1..Len(l) : Len(commits[l[i]].parents) # 1}
  IN  SubSeq(l, Max(ends), Len(l))

Reaches(c, d) == c \in ToSet(FirstParents(d))

\* Mutant of FirstParentSince: c is among them.
FirstParentSinceFrom(c, d) == SelectSeq(FirstParents(d), LAMBDA x : x >= c)

\* first_parent_since, where c is on d's first-parent line.
FirstParentSince(c, d) == SelectSeq(FirstParents(d), LAMBDA x : x > c)

\* A commit object; a parent is always older than its child.
AddCommit(parents, tree) == Append(commits, [parents |-> parents, tree |-> tree])

-----------------------------------------------------------------------------
(* What the commands read.                                                 *)

\* The commit the last import line of fork f names, or 0.
ImportBase(f) ==
  LET at == {i \in 1..Len(log[f]) : \E p \in imported : p.id = log[f][i].id}
  IN  IF at = {} THEN 0
      ELSE (CHOOSE p \in imported : p.id = log[f][Max(at)].id).commit

\* A ref is the upstream branch, or a commit by its name.
Upstream == 0
Refs == {Upstream} \cup 1..MaxCommits
RefCommit(ref) == IF ref = Upstream THEN tip ELSE ref

\* One line per commit, from tree m on: what the fork will be asked to take.
Run(m, cs) ==
  [i \in 1..Len(cs) |->
     [commit |-> cs[i],
      delta |-> Delta(IF i = 1 THEN m ELSE Tree(cs[i - 1]), Tree(cs[i]))]]

Idle(k) == job[k] = NoJob
Job(k, j) == job' = [job EXCEPT ![k] = j]

\* import_from_git's run, in a set; none where it refuses.  The fork must be
\* exactly at its commit's tree, and c a first-parent descendant of that.
FastForward(f, c) ==
  LET base == ImportBase(f)
  IN  IF base # 0 /\ Tree(base) = State(f) /\ Reaches(base, c)
      THEN {Run(Tree(base), FirstParentSince(base, c))} ELSE {}

\* pull's: that, or the whole chain for a fork without an import, which must
\* be empty.
PullPlan(f, c) ==
  IF ImportBase(f) # 0 THEN FastForward(f, c)
  ELSE IF log[f] = <<>> /\ State(f) = EmptyManifest
       THEN {Run(EmptyManifest, LinearChain(c))} ELSE {}

-----------------------------------------------------------------------------
(* Rendering.                                                              *)

\* Mutant of Resume: after the line that is the fuse.
ResumePastFuse(next, s) == Max({next, s[3] + 1})

\* Past a fused span <<from, to, fuse>>, the lines left start after its end.
Resume(next, s) == Max({next, s[2] + 1})

\* fused_beats: each fuse whose span resolves is a beat of that span, by
\* where it starts; a line under none of them is a beat of its own, unless
\* it is such a fuse.  A beat is the lines from..to.
FusedBeats(l) ==
  LET At(id) == {i \in 1..Len(l) : l[i].id = id}
      Spans == {<<a, b, i>> \in (1..Len(l)) \X (1..Len(l)) \X (1..Len(l)) :
                  a <= b /\ a \in At(l[i].fuse.from) /\ b \in At(l[i].fuse.to)}
      spans == SetToSortSeq(Spans, LAMBDA s, t : \/ s[1] < t[1]
                                                 \/ (s[1] = t[1] /\ s[3] < t[3]))
      fuses == {s[3] : s \in Spans}
      each == [i \in 1..Len(l) |-> [from |-> i, to |-> i]]
      Singles(a, b) == SelectSeq(SubSeq(each, a, b), LAMBDA x : x.from \notin fuses)
      Beat(acc, s) ==
        [beats |-> acc.beats \o Singles(acc.next, s[1] - 1)
                     \o <<[from |-> s[1], to |-> s[2]]>>,
         next |-> Resume(acc.next, s)]
      all == FoldLeft(Beat, [beats |-> <<>>, next |-> 1], spans)
  IN  all.beats \o Singles(all.next, Len(l))

\* pr_render's commits: the tree after each beat that changes something,
\* from tree m.  `dead`: a delta does not apply and nothing is exported.
Trees(l, m) ==
  LET Take(acc, x) ==
        IF acc.dead \/ ~Applies(acc.tree, x.delta) THEN [acc EXCEPT !.dead = TRUE]
        ELSE [acc EXCEPT !.tree = Result(@, x.delta)]
      Beat(acc, b) ==
        LET lines == SubSeq(l, b.from, b.to)
            next == FoldLeft(Take, acc, lines)
        IN  IF \A i \in 1..Len(lines) : lines[i].delta = {} THEN acc
            ELSE [next EXCEPT !.trees = Append(@, next.tree)]
  IN  FoldLeft(Beat, [tree |-> m, trees |-> <<>>, dead |-> FALSE], FusedBeats(l))

-----------------------------------------------------------------------------
(* Actions: the bridge.                                                    *)

\* git pull, up to the append: the fork and the ref are bound together, or
\* the binding says which.
PullRead(k, f) ==
  /\ Idle(k)
  /\ lands < MaxLands /\ f \in Existing /\ Loads(f)
  /\ binding # Unbound => f = binding.fork
  /\ LET ref == IF binding = Unbound THEN Upstream ELSE binding.ref
     IN  \E run \in PullPlan(f, RefCommit(ref)) :
           Job(k, [cmd |-> "pull", fork |-> f, ref |-> ref, run |-> run,
                   bind |-> binding = Unbound, seen |-> Len(log[f])])
  /\ UNCHANGED <<vars, gitVars, imported, binding, lands>>

\* import_from_git, up to the append: any commit, and no binding.
ImportRead(k, f, c) ==
  /\ Idle(k)
  /\ lands < MaxLands /\ f \in Existing /\ Loads(f) /\ c <= Len(commits)
  /\ \E run \in FastForward(f, c) :
       Job(k, [cmd |-> "import", fork |-> f, ref |-> c, run |-> run,
               bind |-> FALSE, seen |-> Len(log[f])])
  /\ UNCHANGED <<vars, gitVars, imported, binding, lands>>

\* git reanchor, up to the append: one line to the tree of any commit.
ReanchorRead(k, f, ref) ==
  /\ Idle(k)
  /\ lands < MaxLands /\ f \in Existing /\ Loads(f)
  /\ ref # Upstream => ref <= Len(commits)
  /\ Job(k, [cmd |-> "reanchor", fork |-> f, ref |-> ref,
             run |-> Run(State(f), <<RefCommit(ref)>>),
             bind |-> TRUE, seen |-> Len(log[f])])
  /\ UNCHANGED <<vars, gitVars, imported, binding, lands>>

\* append_realized_batch's lines on fork f: every delta must apply to the
\* state the fork is in by now.
Batch(f, run) ==
  LET Seal(acc, r) ==
        LET m == IF acc = <<>> THEN State(f) ELSE Last(acc).after
        IN  Append(acc,
              [id |-> LineId(f, Len(log[f]) + Len(acc) + 1), intent |-> NoIntent,
               delta |-> r.delta, after |-> Result(m, r.delta),
               reads |-> NoReads, origin |-> NoOrigin, fuse |-> NoFuse])
  IN  FoldLeft(Seal, <<>>, run)

\* Mutant of Fits: the run is taken as it was planned.
FitsAnyhow(f, lines) == TRUE

Fits(f, lines) ==
  \A i \in 1..Len(lines) :
    Applies(IF i = 1 THEN State(f) ELSE lines[i - 1].after, lines[i].delta)

\* write_mirror: the fork, and the ref it was brought to.
Bound(j) == [fork |-> j.fork, ref |-> j.ref]

\* The append, under the fork's lock: the whole run or, when a delta does not
\* apply, nothing and an error.  Then the binding is written, and the process
\* may die before that.
LandBatch(k) ==
  LET j == job[k]
      lines == Batch(j.fork, j.run)
      fits == Fits(j.fork, lines)
  IN  /\ j # NoJob /\ j.cmd # "pr"
      /\ Cardinality(AllLines) + Len(lines) <= MaxLines
      /\ log' = IF fits THEN [log EXCEPT ![j.fork] = @ \o lines] ELSE log
      /\ imported' = imported \cup
           {[id |-> lines[i].id, commit |-> j.run[i].commit] :
              i \in IF fits THEN 1..Len(lines) ELSE {}}
      /\ binding' \in {binding, IF fits /\ j.bind THEN Bound(j) ELSE binding}
      /\ Job(k, NoJob)
      /\ lands' = lands + 1
      /\ UNCHANGED <<anchor, parted, gitVars>>

\* git pr, up to the clone: the mirror must be exactly at its commit, and
\* the branch must not exist.
PrRead(k, s, t) ==
  /\ Idle(k)
  /\ lands < MaxLands /\ s \in Existing /\ t \in Existing /\ Loads(t)
  /\ ImportBase(t) # 0 /\ Tree(ImportBase(t)) = State(t)
  /\ branch[s] = Unbound
  /\ Job(k, [cmd |-> "pr", fork |-> s, into |-> t, base |-> ImportBase(t),
             seen |-> Len(log[t])])
  /\ UNCHANGED <<vars, gitVars, imported, binding, lands>>

\* The union of s into a clone of t as t is now, what it put past the lines
\* seen before, and the commits rendered of that.
Export(j) ==
  LET mg == Merge(j.fork, j.into, log[j.into], State(j.into))
      staged == log[j.into] \o mg.staged
      content == SubSeq(staged, j.seen + 1, Len(staged))
  IN  [mg |-> mg, content |-> content, out |-> Trees(content, Tree(j.base))]

\* commit_tree: a commit for each tree, each on the one before.
Rendered(base, trees) ==
  [i \in 1..Len(trees) |->
     [tree |-> trees[i],
      parents |-> <<IF i = 1 THEN base ELSE Len(commits) + i - 1>>]]

\* The branch, off the mirror's commit, or an error and no branch.
PrRender(k) ==
  LET j == job[k]
      e == Export(j)
      n == Len(e.out.trees)
  IN  /\ j # NoJob /\ j.cmd = "pr" /\ Loads(j.fork)
      /\ Len(commits) + n <= MaxCommits
      /\ IF Clean(j.fork, log[j.into], State(j.into), e.mg) /\ ~e.out.dead /\ n > 0
         THEN /\ commits' = commits \o Rendered(j.base, e.out.trees)
              /\ branch' = [branch EXCEPT ![j.fork] = Len(commits) + n]
         ELSE UNCHANGED <<commits, branch>>
      /\ Job(k, NoJob)
      /\ lands' = lands + 1
      /\ UNCHANGED <<vars, tip, imported, binding>>

\* The process dies: nothing it read has left a trace.
Die(k) == job[k] # NoJob /\ Job(k, NoJob)
          /\ UNCHANGED <<vars, gitVars, imported, binding, lands>>

-----------------------------------------------------------------------------
(* Actions: git itself, and the other commands.                            *)

\* Upstream, someone commits.
UpstreamCommit(m) ==
  /\ Len(commits) < MaxCommits /\ m # Tree(tip)
  /\ commits' = AddCommit(<<tip>>, m)
  /\ tip' = Len(commits) + 1
  /\ UNCHANGED <<vars, branch, mirrorVars>>

\* A pull request is merged, by fast-forward or by a merge commit, while
\* upstream is where it forked off; its branch is deleted.
UpstreamMerge(s) ==
  /\ branch[s] # Unbound /\ Reaches(tip, branch[s]) /\ tip # branch[s]
  /\ branch' = [branch EXCEPT ![s] = Unbound]
  /\ \/ tip' = branch[s] /\ UNCHANGED commits
     \/ /\ Len(commits) < MaxCommits
        /\ commits' = AddCommit(<<tip, branch[s]>>, Tree(branch[s]))
        /\ tip' = Len(commits) + 1
  /\ UNCHANGED <<vars, mirrorVars>>

\* A force push replaces upstream's history.
ForcePush(m) ==
  /\ Len(commits) < MaxCommits
  /\ commits' = AddCommit(<<>>, m)
  /\ tip' = Len(commits) + 1
  /\ UNCHANGED <<vars, branch, mirrorVars>>

\* Union copies the annotation of what it lands, the import among it.
UnionImports(s, t) ==
  /\ Union(s, t)
  /\ imported' = imported \cup
       {[id |-> y.id, commit |-> p.commit] :
          <<y, p>> \in {<<y, p>> \in ToSet(log'[t]) \X imported : y.origin.id = p.id}}
  /\ UNCHANGED <<gitVars, binding, job, lands>>

\* import: main anchored at a commit's tree, and a line without operations.
ZeroLine(m) ==
  [id |-> LineId(Main, 1), intent |-> NoIntent, delta |-> {}, after |-> m,
   reads |-> NoReads, origin |-> NoOrigin, fuse |-> NoFuse]

\* import_linear: that, and a line for each later commit.
LinearLog(cs) ==
  [i \in 1..Len(cs) |->
     IF i = 1 THEN ZeroLine(Tree(cs[1]))
     ELSE [ZeroLine(Tree(cs[i])) EXCEPT
             !.id = LineId(Main, i), !.delta = Delta(Tree(cs[i - 1]), Tree(cs[i]))]]

\* annotate_import: which line is which commit.
Stamps(cs) == {[id |-> LineId(Main, i), commit |-> cs[i]] : i \in 1..Len(cs)}

\* Two commits upstream, and a repository: empty, or made from the last of
\* them, or from both.
MirrorInit ==
  /\ \E m \in Roots, n \in Drafts :
       m # n /\ commits = <<[parents |-> <<>>, tree |-> m],
                           [parents |-> <<1>>, tree |-> n]>>
  /\ tip = 2
  /\ branch = [f \in Forks |-> Unbound]
  /\ binding = Unbound /\ job = [k \in Clients |-> NoJob] /\ lands = 0
  /\ parted = [f \in Forks |-> 0]
  /\ \E cs \in {<<>>, <<tip>>, LinearChain(tip)} :
       LET m == IF cs = <<>> THEN EmptyManifest ELSE Tree(cs[1])
       IN  /\ anchor = [f \in Forks |-> IF f = Main THEN m ELSE NoFork]
           /\ log = [f \in Forks |-> IF f = Main THEN LinearLog(cs) ELSE <<>>]
           /\ imported = Stamps(cs)

MirrorNext ==
  \/ \E k \in Clients :
       \/ \E f \in Forks : PullRead(k, f)
       \/ \E f \in Forks, c \in 1..MaxCommits : ImportRead(k, f, c)
       \/ \E f \in Forks, ref \in Refs : ReanchorRead(k, f, ref)
       \/ \E s \in Forks \ {Main}, t \in Forks : PrRead(k, s, t)
       \/ LandBatch(k) \/ PrRender(k) \/ Die(k)
  \/ \E m \in Drafts : UpstreamCommit(m)
  \/ \E s \in Forks : UpstreamMerge(s)
  \/ \E m \in Roots : ForcePush(m)
  \/ /\ UNCHANGED <<gitVars, mirrorVars>>
     /\ \/ \E f \in Editors \cap Existing :
             \E i \in IntentsAt(State(f)) : Apply(f, i, NoReads)
        \/ \E f \in Editors : \E a, b \in 1..Len(log[f]) : FuseSpan(f, a, b)
        \/ \E n \in Forks, from \in Bases : CreateFork(n, from)
  \/ \E s \in Existing, t \in Targets : UnionImports(s, t)

MirrorSpec == MirrorInit /\ [][MirrorNext]_<<vars, gitVars, mirrorVars>>

-----------------------------------------------------------------------------
(* Properties.                                                             *)

\* Client k completes its command: nobody has written to fork f since it read
\* it.
Completes(k, f) ==
  job'[k] = NoJob /\ lands' # lands /\ Len(log[f]) = job[k].seen

\* What git's history is, the fork's is: an undisturbed import appends the
\* commits of a first-parent line that continues the commit the fork was at,
\* none skipped and none twice, up to the one asked for, and leaves the fork
\* in each one's tree (pull, import_from_git, reanchor).
ImportsMirror ==
  [][\A k \in Clients, f \in Forks :
       job[k] # NoJob /\ job[k].cmd # "pr" /\ job[k].fork = f /\ Completes(k, f) =>
       LET cs == [i \in 1..Len(job[k].run) |-> job[k].run[i].commit]
           new == SubSeq(log'[f], job[k].seen + 1, Len(log'[f]))
       IN  /\ Len(new) = Len(cs)
           /\ \A i \in 1..Len(cs) :
                /\ new[i].after = Tree(cs[i])
                /\ [id |-> new[i].id, commit |-> cs[i]] \in imported'
                /\ i > 1 => FirstParent(cs[i]) = cs[i - 1]
           /\ job[k].cmd # "reanchor" /\ cs # <<>> =>
                IF ImportBase(f) = 0 THEN Len(commits[cs[1]].parents) # 1
                ELSE FirstParent(cs[1]) = ImportBase(f)
           /\ cs # <<>> => ImportBase(f)' = Last(cs)]_<<vars, gitVars, mirrorVars>>

\* No fused span of these lines overlaps another.
Disjoint(l) ==
  LET b == FusedBeats(l)
  IN  \A i, j \in 1..Len(b) : i < j => b[i].to < b[j].from

\* Client k opens a pull request from s to the mirror t.
Opens(k, s, t) ==
  /\ job[k] # NoJob /\ job[k].cmd = "pr" /\ job[k].into = t
  /\ branch[s] = Unbound /\ branch'[s] # Unbound /\ Completes(k, t)

\* A pull request is the union: the branch rendered from a fork, one commit
\* per beat, ends in the tree the union with the mirror would leave, forks
\* off the mirror's commit and changes no fork ("acts exactly like union").
\* This needs spans that do not overlap, and a mirror that did not move.
PrIsUnion ==
  [][\A k \in Clients, s, t \in Forks :
       Opens(k, s, t) /\ Disjoint(Export(job[k]).content) =>
       /\ Tree(branch[s])' = Merge(s, t, log[t], State(t)).scratch
       /\ \E c \in 1..Len(commits) : c = ImportBase(t) /\ Reaches(c, branch[s])'
       /\ log' = log]_<<vars, gitVars, mirrorVars>>
=============================================================================
