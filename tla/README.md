# tally-vcs in TLA+

tally is a version control system whose unit is the *log line*: every fork is an
append-only, hash-chained log of applied patches, and a state is what a log
replays to. This directory models the parts of it where order, concurrency and
failure matter, model-checks them with TLC, and proves the central ones with
TLAPS. Paths below are as in `PROJECT.json` (`src/` is the repository, its Rust
code is under `src/src/`).

## 1. Inventory

| Component | State it keeps | Operations | Why it is hard | What makes it correct |
|---|---|---|---|---|
| Loose log (`repo.rs`, `log.rs`) | `forks/<f>/log.jsonl`, `forks/<f>/lock` | `apply`, `commit`, `append_realized_batch`, `repoint`, `fuse`, `read_log` with tail repair, `lock_fork` | several processes, unlocked readers that repair, crashes between system calls | the log stays loadable; what was acknowledged stays; nothing but a reader's repair rewrites what is committed; the lock comes back |
| Blob pool (`blobs.rs`) | `blobs/` | `put_unsynced`, `sync`, `gc_blobs` | a line must not reach the disk before the blobs it names | no line ever names a missing or torn blob |
| Patches, manifests (`patch.rs`, `manifest.rs`) | none | intents, realized entries, replay | replay in a state other than the author's | an op either applies as written or fails |
| Forks and union (`union.rs`, `fork.rs`, `repo.rs`) | one log and one anchor per fork | `create_fork`, `snapshot`, `repoint`, `fuse`, `union` | lines land on a target that moved; states recur; ids change when lines land | stale reasoning is gated in both directions; unions do not repeat; fuses follow |
| Fork lifecycle (`repo.rs`, `fork.rs`) | `forks/<f>/fork`, `forks/<f>/lock`, `anchors/` | create, ensure, snapshot, remove, lock | check-then-act on directories; files written in place; a lock that lives in the directory it guards; deaths between files | anchors exist; acknowledged lines stay; a fork that was created loads; where commands clash on one name, only that name suffers |
| Lineage, revisions (`repo.rs`, `revision.rs`) | none | `parent_fork`, `continuity_log`, `manifest_at_lineage`; resolve `HEAD~n`, ids, sums; log ranges | no parent is recorded: it is guessed from anchors; states recur | one history per fork; every revision names a state that can be rebuilt |
| Segments, delta, wire, remote cache (`segment.rs`, `delta.rs`, `wire.rs`, `remote.rs`) | an object store: segments and a chain of manifests; per repository a cached manifest and synced heads | `push_with`, `clone`, `plan`, compaction | pushes race for one commit point; stale caches; deaths between steps; a repository edited while it is pushed | a published image is a set, restores, and only ever grows |
| Serve (`serve.rs`) | a packed directory | `pack`, `unpack`, `restore` | anchors are not stored, they are re-derived | what was packed restores |
| Git bridge (`git.rs`, `views.rs`) | the mirror binding, lines that record commits | init from git, import, pull, reanchor, pr | state checked before the lock is taken; an upstream that merges and is replaced | imports follow the first-parent line; a pr is what a union would land |
| Claude ingestion (`claude.rs`) | a fork per session | read a transcript, plan (attribute, absorb, align, unwind), land, reconcile | the tree has moved on since the calls; interrupted, repeated and resumed sessions | no call recorded twice, none lost but those a resume copied first; each with what it did and read |
| diff, blame (`diff.rs`, `blame.rs`) | none | LCS, changed ranges, synthesized edits, blame | boundaries, repeated text | applied, the diff is the change |
| Working tree (`repo.rs`) | the files | scan, refresh, checkout, restore, status | every fork's commands write it | |
| ignore, b64 | none | string functions | none beyond unit tests | |
| command line, editor hook | none | argument parsing; `tally git ...` reads before it calls | none of their own | |

How they interact: commands call `Repo`; `Repo` takes the fork lock, reads the
log, puts blobs, syncs the pool, appends and fsyncs. Union reads a second fork's
log without its lock. Push reads every fork without locks and writes only to the
store, whose put-if-absent of the next manifest number is the only commit point,
then to the repository's remote cache. Processes share nothing but files; there
are no threads and no callbacks.

The hazards, each at its line and with the properties aimed at it, are in
`PROJECT.json`.

## 2. Modules

| Module | Models | Extends |
|---|---|---|
| `LogLines` | lines, ids, chaining, replay (one realized entry per line) | |
| `CommittedLog` | the abstract promise: a history that only grows, and the ids commands were told are in it | |
| `LooseLog` | one fork of a loose repository under several processes, at system-call granularity | `LogLines`; instantiates `CommittedLog` |
| `LooseLogProofs` | type correctness, write-ahead ordering; loadability, durability and refinement; what of them is left beside unlocked readers | `LooseLog` |
| `ForkFiles` | the files of a fork, created, anchored, removed and appended to by processes that may die | |
| `FoldFacts` | facts for proofs: naturals, greatest elements, flattening, folds over sequences | |
| `StepFolds` | the same for folds, from the left and the right, whose step is an operator: instantiated with the step | |
| `ForkFilesProofs` | type correctness; anchors exist; acknowledged lines stay; created forks load | `ForkFiles`, `FoldFacts` |
| `Patches` | intents, realized entries, reads and when they are stale | |
| `ForkUnion` | forks, repoint, fuse, snapshot, union, one whole command at a time | `Patches` |
| `ForkUnionProofs` | every fork loads; landed fuses are renamed; unions are not repeated; the two tripwires | `ForkUnion`, `FoldFacts` |
| `Lineage` | the lineage of forks, revisions, log ranges, removal | `ForkUnion` |
| `LineageProofs` | one history per lineage; its points can be rebuilt; removal keeps work; revisions and ranges | `Lineage`, `ForkUnionProofs` |
| `GitMirror` | import, pull, reanchor and pr, two steps each, beside an upstream that moves | `ForkUnion` |
| `Texts` | span replacement, line diff, synthesized edits and blame on short byte sequences: pure operators | |
| `SessionPlan` | how an ingest plans lines from calls: pure operators | `Texts` |
| `Ingest` | a harness that edits and writes transcripts, shells, and ingests that may die | `SessionPlan` |
| `IngestProofs` | tracks are honest, calls accounted for and recorded once, reads and intents are of the state met | `Ingest`, `FoldFacts`; instantiates `StepFolds` |
| `Packs` | segments, serve-manifests, planning, compaction, restore: pure operators | |
| `Wire` | repositories pushing to and cloning from one store, with the remote cache | `Packs` |
| `WireProofs` | one published manifest and the next: what is extended, how deep constructs are, nothing twice; pushes: types, growth, depth, sets, what Ok means, completeness, restorability | `Wire`, `FoldFacts` |
| `MC...` | symmetry sets and instance values for TLC | |

An operator whose comment says "Mutant of" is a plausible bug of the definition
it names, which follows it; no specification uses it, and replacing the definition
by it makes the property it is paired with in `PROJECT.json` fail.

### 2.1 LooseLog

A process runs one command at a time; `pc` is the next system call.

| Action | Code |
|---|---|
| `Start`, `Acquire` | a command begins; `lock_fork`, a blocking exclusive OS lock |
| `ReadLog`, `Repair`, `Fail` | `read_log`: read and parse leniently, then `set_len` to the parsed prefix; a damaged log is an error return |
| `Scan` | the unlocked first half of `commit`: diff the tree against the state just loaded, put the blobs |
| `Realize`, `Adjudicate`, `Seal` | put the blob and seal a line on the loaded state; `commit` re-adjudicates its delta under the lock |
| `SyncBlobs`, `Tear`, `Put`, `Fsync` | pool sync, one `write_all` seen whole or half done, `sync_all` and acknowledgement |
| `GcList`, `GcRemove`, `GcDone` | `gc_blobs` |
| `Kill`, `Crash` | a process dies or meets an I/O error; the machine stops |

`cut` is a history variable: a repair has cut a file that no longer held just what the
repairing process had read. Only a process that read without the lock can do that: it
parsed a half written append, and meanwhile the writer went on.

`Kinds` says which commands a deployment runs: `"apply"` (also `record_observed`),
`"batch"` (union's landing, `append_realized_batch`), `"commit"` (also repoint),
`"read"` (log, show, a union's source, a push), `"gc"`. Fuse is an unlocked read
followed by an apply.

Assumptions of the model: one `write_all` is one `write(2)` under the inode lock,
so a concurrent `set_len` waits for it, while a reader, which locks nothing, may see
it half done; `set_len` and the sync after it are one step; fsync,
acknowledgement, unlock and the refresh of the working tree are one step (the tree
is not modelled); within one append, bytes persist in order; sums and ids do not
collide; the fork's anchor is the empty state.

### 2.2 Patches and ForkUnion

The state is `anchor` and `log` per fork; `parted` is a ghost: how many lines the
base fork had when a fork was made from it. Each command is one step, because it
appends once, under the target's lock, against what it loaded under that lock;
the other fork it may read is append-only. `Union` folds `Stage` over the
source's lines: skip what `Carried` says has landed already, replay by realized
delta (stratum 2) or by intent (stratum 3), re-key fuses, and collect stale
reads; `Strands` is the symmetric tripwire; nothing is appended unless `Clean`.
A union that lands nothing is not a step.

Assumptions: a file is a bag of lines, so that an edit's `old` text is unique or
ambiguous as in the code but positions are left out; an intent has at most one
op; modes and chmod are left out; a line's id is its fork and position.

### 2.3 Packs and Wire

`Packs` says what a push computes: which forks are in sync, ahead or diverged
(`Diverged`), which lines and blobs travel (`NewLines`, `ToSend`), which blobs are
stored as constructs over a base and which whole (`Classified`), which live
segments are folded (`Foldable`), how the input is cut (`Cuts`), the manifest
(`Assembled`), and what `unpack` and `restore` accept (`Restores`).

`Wire` runs it: `Find` (discover from the cached manifest), `Forget` and
`ForgetSynced` (invalidate a cache whose chain is gone), `ReadState` and
`ReadLines` per fork, `Refuse`, `Idle`, `Plan`, `Upload` one object at a time,
`Publish` or `Lose` and plan again, `Remember` and `Mark` (the caches), beside
`Create`, `Apply`, `Fork`, `Snapshot` and `Clone` on repositories, deaths of a push
(`Kill`) and a wiped store (`Wipe`).

Assumptions: a repository has one file, so a state is a blob; segments and
manifests are named by content and stand for their names; where the code compares
sizes the model takes either outcome allowed by `Sizes`; a prefix of the chain
stands for the manifest that ends it; clone reads the store at one moment;
`Kill` is only worth a step once something was written; `Wipe` happens while no
push is under way. Left out: lines overflowing into blobs, dictionaries, payload
caching and `fetch`, `pack`'s directory layout.

### 2.4 ForkFiles

A fork is a directory with a fork file, a log and a lock; anchor manifests are
shared. The variables are the files, `born` (which creation of a name a lock
belongs to), the locks held and, per process, the command it is in and its next
step.

| Action | Code |
|---|---|
| `Start` | ensure_fork and an append, fork, apply, snapshot, remove-fork with and without `--force` begin |
| `Apply` | ensure_fork returned: the append goes on |
| `Derive`, `Pool`, `Fill` | `create_fork` reads its source without a lock; `write_anchor_manifest` puts the manifest if the name is absent, a truncation and a write |
| `Exists`, `MkDir`, `WriteFile`, `FileWritten`, `WriteLog` | `create_fork_raw`; the two middle ones are also `snapshot`'s rewrite of the fork file |
| `OpenLock`, `Acquire` | `lock_fork`: a file is opened, and that file is locked |
| `Load`, `AppendLine` | `current_state` under the lock, and the append (one step: `LooseLog` has its details) |
| `Check`, `Delete` | `remove_fork`: the check, then the directory file by file |
| `Kill` | a process dies, inside an `fs::write` too |

Every command may run beside every other, on the same name too. Three history variables
record where the code itself gives up a promise (section 5), so that the properties can
except just that: `raced`, the names on which two commands clashed (two creations that both
found the directory absent; a removal past its check, beside any other command that is
about the name and past its own); `halfFork` and `halfAnchor`, the fork files and anchor manifests
whose writer died inside the write. `Reuse` bounds what happens afterwards: with FALSE, no
command starts on a name once it has been clashed on; those under way go on.

Assumptions: a removable fork has an empty log (what "subsumed" means is `Lineage`'s); a
machine crash, and `fsync_dir`, are left out.

### 2.5 Lineage

`ParentFork`, `ContinuityLog`, `LineageBase`, `ManifestAt`, `ManifestAtLineage`,
`Resolve` and `LogRange` are the functions of their names, as operators over the
forks that `ForkUnion`'s actions reach. A revision is a record (head, fork, sum,
hex prefix, line id) with a list of suffixes, not a string; a bare hex string is
tried as a line id and as a sum, as in the code. Actions besides `ForkUnion`'s:
`RemoveFork`, and initial states made by `init` and by `init --from-git`
(`Imported`). Removed names are not used again.

`Rooted(f)` says that no snapshot has moved an anchor and that the walk from fork f
met no fork twice; `AllRooted`, that this is so of every fork. The walk's choice among
several candidates is the first in the order of `fork_names` (`First`). `WorkKept`
speaks of families: a set of lines closed under landing, so that every line that was
copied by a union is in it together with its copies, which were made of it.

### 2.6 GitMirror

`commits`, `tip` and `branch` are the git repository; `imported` is the import
annotation of lines; `binding` is the mirror file. A command is two steps: what it
reads without a lock (`PullRead`, `ImportRead`, `ReanchorRead`, `PrRead`), and what
it lands (`LandBatch`, which re-adjudicates under the lock; `PrRender`). Between
them the fork may grow, upstream may commit, merge a pull request or be force-pushed,
and the process may die (`Die`). `FusedBeats` is the view a pr renders.

Assumptions: trees are the manifests of one path; the staging fork in which pr
runs its union is not a fork of the model (nor is one left behind by a killed pr);
author names and messages are left out. Two things the code does that no property
speaks of: `reanchor <commit>` binds the mirror to that commit, after which a pull is
always "up to date"; and where a first-parent chain meets a merge `linear_chain`
stops and imports the rest as one state.

### 2.7 Texts, SessionPlan and Ingest

`Texts` has the byte-level functions of `patch.rs`, `diff.rs` and `blame.rs` on
contents, which are sequences over `Bytes`, one of which ends a line. `SessionPlan!Plan` is `plan` of `claude.rs`:
the first pass (`Observed`: an intent per call on the state in memory, and a track
per path of which call's bytes are where), absorption of a call that only rewrites
what an earlier call wrote, alignment of spans with the tree (`Align`), a replay
and, where it fails, the unwinding of alignments (`Unwind`).

`Ingest` runs it. `Ask`, `Make`, `Refuse`, `Read` and `Shell` are the harness and the
user; `Begin` reads the transcript and the fork, `MakePlan` the tree; `Land` appends
one line per planned call, validating again; `Residue`, `Scan` and `Reconcile` end
with one line for what the tree still differs in; `Kill` may come at any point.
Modes are the dry run, the whole one, and the one that does not reconcile.

Assumptions: element modes, multi-byte characters, prose, paths outside the
repository and subagents are left out; main is at one state; the transcript of a
call half written is one that is not there yet; ingests run one at a time (nothing in
`commit` keeps two from running beside each other: the `claude.rs:1497` hazard).

## 3. Runs

Every run's properties and mutants are in `PROJECT.json`. Sizes are distinct
states.

| Run | Expect | Instance | Shows |
|---|---|---|---|
| `LooseLocked` | pass | 2 processes, 2 paths, 2 blobs, 3 ids, applies and batches of up to 2 lines, 2 faults; 69,096 | when every command locks before it reads, the log stays chained and loadable, acknowledged lines survive, blobs precede lines, and the log implements `CommittedLog` |
| `LooseMixed` | pass | 2 processes, 1 path, 1 blob, 2 ids, all five kinds, batches of up to 2 lines, 2 faults, readers that see appends half written; 388,669 | commits prepared before the lock, unlocked readers and gc beside writers: the log stays sound until a reader's repair cuts a file that has changed, nothing else takes back a committed line, and every holder releases the lock |
| `UnionMain` | pass | main and one fork, one file of two texts, 7 lines of which 4 are original and 1 a repoint or fuse; 305,962 | forks always load, tripwires hold in both directions, unions are idempotent, fuses follow |
| `ForkFiles` | pass | 2 processes, main and one fork, 2 lines, each name created twice, one death, inside a write too; 2,614,127 | anchors exist, acknowledged lines stay, and created forks load, but for the names two commands clash on and the files a writer dies in |
| `Lineage` | pass | main and two forks, one of which may be made from the other, 3 original lines of 4, one snapshot, empty or imported main; 94,119 | the lineage of a fork is one history, its points can be rebuilt, revisions and ranges resolve to what they name, removal loses nothing |
| `LineageImport` | violation of `AnyPointMaterializes` | as above, main imported | forks of an imported main have points that cannot be rebuilt |
| `GitMirror` | pass | main and one fork, one path, a git repository of 4 commits, 2 completed commands, 4 lines; 435,409 | whatever moves between a command's read and its append, forks load, imports are the first-parent line, a pr is the union |
| `IngestPlans` | pass | one session of 3 calls out of 7 (edits inside, across and beside earlier ones, every occurrence, whole files), one shell edit; 390,102 | plans keep the tree's bytes, account for every call and track who wrote what; intents, blame and diff agree with the states |
| `IngestSession` | pass | two sessions, one may resume the other, 2 calls, 1 read, 1 shell edit, 2 ingests of any mode, killed anywhere; 906,782 | no fork records a call twice; an ingest that skipped nothing leaves every call of its session recorded, but those another transcript carries; a repeated ingest adds nothing; lines name the blobs they met |
| `WirePush` | pass | 2 repositories pushing at once, 2 forks, 3 commands, 2 manifests, 2 attempts; 1,157,038 | racing pushes: the image is a set, restores and extends |
| `WireFold` | pass | 1 repository, 2 forks, 4 commands, 4 manifests, one blob no op reproduces, both size classes; 2,184,085 | compaction and constructs keep the image restorable and ordered |
| `WireFaults` | pass | 2 repositories, 1 fork, 2 manifests, one death or wipe; 591,297 | deaths between uploading, publishing and caching, and a wiped store, are safe, and a push that says Ok has stored what it read |

Bounds. In `LooseLog` the interesting cases need two processes (one mid-write, one
reading or waiting), a batch of two lines (one kept, one lost), two faults (one
that leaves a torn tail and one while it is repaired) and a third id to append
after it. A reader's cut of a live append needs two processes and no fault, so that
`LooseMixed`, which has every kind of command, does with one blob and two ids. In `ForkUnion` a stale read needs a fork, a line on each side and a
union; four original lines allow an undo and a second union, and the limit of
seven leaves room for what lands. In `Wire` a race needs two pushers, a fold needs
two small segments and a third push (`Trigger` 2, in `WireFold`; with `Trigger` 1 a second
push folds already, in the others), a chain of constructs one more
blob than `Interval` allows. `MaxManifests` is needed because two clones whose
anchors differ publish each other's anchor away in turn without end; at the bound a
push may still refuse, or find nothing to do, but plans no further manifest.
In `ForkFiles` the cases need two processes, a name that exists and one that does
not, a second creation of it, a death, and a line under each; with `Reuse = TRUE` the run
passes too (8,852,960 states, more than half of them beyond what the properties speak of). In `Lineage` a walk of
two steps needs three forks, and a cycle two that share an anchor. In `GitMirror` a
command disturbed between its steps, after another that bound the mirror, needs two
completed commands; four commits are a merge, or a force push and a commit on it; the
fused spans that four lines allow never overlap (section 5 has the case). In
`IngestPlans` three calls let a call rewrite what another wrote across what a third
wrote; in `IngestSession` the second ingest meets what the first left.
`CHECK_DEADLOCK FALSE` in the runs of `Wire`, `Ingest`, `GitMirror` and `Lineage`:
with their budgets spent nothing is left to do.

Fairness. Only `LooseMixed` states any: weak fairness of each process's own next
step. A step is a system call that returns, except the wait for the lock, and the
operating system schedules every process; nothing is assumed of when commands
start, and starvation of a process waiting for the lock is not excluded (nor is
it claimed: `Released` is about the holder).

## 4. Proofs

Each theorem holds for every value of the constants that meets the modules' ASSUMEs and
the hypothesis in the last column: any number of processes, repositories, forks, paths,
texts, blobs, ids, deaths and commands. A hypothesis names the deployments in which
the code keeps the promise; the rows of section 5 show what happens without it.

| Theorem | Says | Under |
|---|---|---|
| **LooseLog** | | |
| `TypeCorrect` | `[]TypeOK` | |
| `WriteAheadHolds` | `[]WriteAhead` | no gc beside writers, and a filesystem that does not keep a rename while losing its bytes (`DelayedAlloc = FALSE`) |
| `SoundUntilReaderCuts` | `[]SoundUntilCut` | |
| `NothingElseRewrites` | `OnlyCutsRewrite` | |
| `StaysLoadable` | `[]ChainIntact` | `LockedOnly` |
| `AckedStaysDurable` | `[]AckedDurable` | `LockedOnly` |
| `ImplementsCommittedLog` | `KeepsPromise` | `LockedOnly` |
| **ForkFiles** | | |
| `TypeCorrect` | `[]TypeOK` | |
| `AnchorsExist` | `[]AnchorExists` | (`halfAnchor`, in the property) |
| `AckedStay` | `[]Kept` | (`raced`, in the property) |
| `MadeLoad` | `[]Usable` | (`raced`, `halfFork` and `halfAnchor`, in the property) |
| **ForkUnion** | | |
| `EveryForkLoads` | `[]AlwaysLoads` | |
| `FusesRenamed` | `[]FusesFollow` | |
| `UnionedOnce` | `Idempotent` | |
| `NothingStranded` | `ReasoningKept` | (`Apart`, in the property) |
| `NoStaleReadsOfOneFile` | `ReadsHold` | `Star`: forks are made from `Main` and unioned into it; one file (and `Apart`, in the property) |
| `NoStaleReads` | `ReadsHold`, of forks in which no repoint changed a file | `Star`; any number of files |
| **Lineage** | | |
| `LineageLoads` | `[]AlwaysLoads`, with removals and imports | |
| `LineageOneHistory` | `[]SingleHistory` | (`Rooted`, in the property) |
| `LineageMaterializes` | `[]PointsMaterialize` | (`Rooted`, in its second half) |
| `RevisionsName` | `[]RevisionsResolve` | (`AllRooted`, in the property) |
| `RangesAreDeltas` | `[]RangesCarry` | (`AllRooted`, in the property) |
| `RemovalKeepsWork` | `[]WorkKept` | (no `--force`, in the property) |
| **Wire** | | |
| `WireTyped` | `[]TypeOK` | |
| `PublishingOnlyExtends` | `OnlyExtends` | |
| `ChainsShallow` | `[]DepthBound` | |
| `ImageAlwaysSet` | `[]ImageIsSet` | no fork moves between a push's reads of its head and of its lines (`LiveEdits = FALSE`) |
| `PublishedComplete` | `[]Complete`: `Restorable` but for the search for anchors | as `ImageAlwaysSet` |
| `PushesStore` | `PushedMeansStored` | as `ImageAlwaysSet`; `OneEach`; no death between the two unlinks of `invalidate` (`TornForget = FALSE`) |
| `AlwaysRestorable` | `[]Restorable` | as `PushesStore`, histories that began empty (`Seeds` holds at most `NoBlob`), at most two forks |
| **Ingest** | | |
| `IngestInvariant` | `[]IInv`, on which the others rest | one ingest at a time, here and below |
| `TracksAlwaysHonest` | `[]TracksHonest` | |
| `CallsAlwaysAccounted` | `[]CallsAccounted` | |
| `ReadsAlwaysMet` | `[]ReadsNameMet` | |
| `IntentsTellDeltas` | `[]IntentTellsDelta` | |
| `CallsRecordedOnce` | `[]RecordedOnce` | (what other transcripts carry, in the property) |

`LockedOnly` says that every command locks before it reads: applies and batches, which
includes a union's landing. `OneEach` says
that no two pushes run in one repository; `remote.rs:191` is the hazard without it.

**The loose log.** `TypeOK` is not inductive: that the write pointer stays within the
sealed lines, and the types of what `Fsync` makes durable, depend on where the process is.
`TypeInv` adds `LocalInv(p)`: sealed lines exist only under the lock, the write advances
through them, and `pc` agrees with both. `WriteAhead` needs `PoolInv`: a sealed line's
blob is present before the pool sync and synced after it, and nothing synced is ever lost.
`ChainIntact` alone is not preserved by `Put`, which appends what the process *sealed*,
onto what the file *holds*: `LogInv` adds, to it and to `AckedDurable`, `HolderInv`, which
says that what the lock's holder loaded is the file minus what it has written.
`SafeInv` is the types, and `LogInv` until `cut`: a repair keeps `LogInv` just
when the file still holds what the repairing process read and a torn tail after it, which is
what `cut` denies. One lemma per group of actions shows this, and from the same case split
that the committed lines stay. Where every command locks first, `LockedInv` says that only
the lock's holder repairs, so that `cut` never becomes true; the three theorems under
`LockedOnly` follow, the refinement under `history <- Committed, told <- acked`.

**The files of a fork.** That the state a process is about to write into a fork file has
a manifest depends on where the process is. `AnchorInv` adds that a manifest that is torn
is being written by someone (`TornFills`), that whoever is past `write_anchor_manifest`
has a manifest to name (`NamedAll`), and that a fork file names one, torn or not
(`AnchorNamed`). It needs neither locks nor exclusive names, because manifests are
never removed and a put never replaces one. A death inside the write leaves a torn one with
nobody writing it, which `halfAnchor` names.

`FilesInv` is about the names outside `raced`. On such a name two processes are at most both
appending, taking snapshots, or waiting to: whoever makes it, or has passed its check to remove
it, is alone about it (`Exclusive`). A lock on the directory that is there has one holder
(`OneHolder`); what each process knows from its checks still holds while it is in the
steps that rely on it (`ProcInv`: its role, and what it relies on); a fork that was
acknowledged has its files and a chained log, except while its fork file is being
rewritten or after a death inside that write (`ForkInv`). A step is then shown harmless by what it
touches: on another name (`Apart`), on the same name by someone else (`OthersKeep`), or by the
process itself (`OwnKeeps`), where anything else would have put the name into `raced`
(`Noted`).

**Union.** `UnionInv` is, per fork, a log that is chained from the anchor
(`Chained`), whose ids say where each line was sealed (`Marked`), and in which no line
goes by the name an earlier one had in its source (`Followed`). Apply, repoint, fuse,
create and snapshot keep it by what `Delta`, `Result` and `Applies` do. A union keeps
it because its fold does: `MergeInv` is carried through the fold over the source's
lines and says what is staged so far (`Stagings`: it continues the target's chain), what
the re-key map knows (`Known`), that fuses were renamed (`Renames`), and that each line
gone through has landed, was carried already, or needed nothing (`Through`). Idempotence
follows from `Through`, for a second fold that starts from the first one's outcome.
`ReasoningKept` compares two states a long way apart: paths no staged line writes stay as
they were (`Untouched`), on the others nothing that was read and still so is found stale
(`NotStranded`), and every line after `parted` is among the concurrent ones, because the
anchor does not come later (`IsConcurrent`).

`ReadsHold` needs to know where each line of a fork was sealed and what of the fork has
landed. `StarInv` says that a fork's log leads on from its root, the state main had when it
was made (`TreeInv`); that each of its lines was sealed in the state its author read, and
that a repoint writes only what intents wrote before it (`OwnInv`); and that what landed did
so after the fork was made, under its own intent, and in order, fuses apart (`CarryInv`).
From these follows that a line which wrote a path main left alone has not landed yet
(`NotCarried`); so in the fold the paths main left alone are, before each line, as its
author had them (`Faithful`), and a read is either on such a path or was compared with a
write that makes it stale (`NotFlagged`). The step that fails without the hypothesis
on files or repoints is `LandsAlike`: a repoint over two files that no longer applies because
of one of them leaves the other as it was, too (the second `union.rs:224` row of section 5).

**Lineage.** `LineageInv` is `UnionInv`, and that as long as no snapshot moved an anchor
each log leads on from its fork's anchor (`Unmoved`). The rest speaks of one state: a
lineage cut at the branch points is continuous, a walk that meets no fork twice shows
no line twice, undoing what lies after a point leads to that point. `WorkKept` and the
lines a reader remembers need what is true of lines that were removed: that they were
given ids (`RelicsNamed`), and that a family of them is carried on by the check of
`remove_fork`.

**Packs and pushes.** `StoreInv` says that each manifest of the chain is sound
(`Packed`: its lines are on the forks that name their segments, and a rank exists for
its constructs) and extends the one before, and that a push works on a prefix of the
chain which its own next manifest extends, so that a put-if-absent that succeeds
publishes a sound extension whoever raced. `LogInv` says that a line of a fork, in
whatever repository, manifest or push it is found, has the same place and the same lines
before it (`LogsAgree`), and that the heads, anchors and blobs kept beside a log fit it:
duplicates cannot come from a stale read, only from one that saw two moments.
`CacheInv` adds that a repository's synced heads are lines of the chain it cached,
unless a push is just about to discard them, and that whatever a push has read is in what
it is about to publish; "behind" is then never said of a fork that diverged. `ObjectsInv`
says that an object is uploaded before the manifest that names it is published, and stays.
`AnchorInv` (of `WireProofs`) says where a fork's anchor comes from: the state a
fork began with is the empty one or one that Main's lines lead to, wherever both are found,
so that restore, which searches twice when there are two forks, meets it.

**Ingestion.** `IInv` is `Typed`, which says what transcripts, forks and runs hold (calls
have ids of their own, states map paths to contents), and `Recording`. `Recording` says of
each fork that every line tells its delta and names reads of the state it met (`Tells`),
and that no call is on it twice (`Once`); and of a run between two steps of `commit` that the
fork is as the run left it, that the lines it has yet to land still apply to it one after
another (`Ahead`), that the ids on them are not on the fork (`Waiting`), and that with the
fork they are all the calls, unless one was skipped (`Covered`). `Land` needs the
first three to append what was planned; `RecordedOnce` needs the last, for which a
second ingest finds every id on the fork. That the calls of a run are all that its session
made and no other transcript carries is what the origin (`OriginIs`) and the fold of `Calls`
(`Listing`) give.

That a plan starts out this way is a statement about `Plan`, for any session and any
contents. The first pass is a fold over the calls which keeps, in `Passed`: each run of
bytes of a track is what its operation wrote, at the place it says, and runs do not
overlap (`Tracked`); a line that was absorbed is on the list of exactly one that was
planned before it (`Absorbings`); the calls' own fields lead from state to state (`Chained`);
and the lines are the calls the fork did not have, in order (`FromCalls`). Alignment then
changes texts, not the shape of the plan. A strict replay that succeeds has applied every
line; where it fails, each call goes back to what its own fields wrote, on a line of its
own, and `Chained` says that those apply.
An intent synthesized for what the tree holds tells its delta because the diff's script
does: it is a path through the grid of the LCS (`Script`), its hunks are apart, and each
becomes an edit whose old text was widened until it occurs once.

A TLC run cannot evaluate `IInv`: it quantifies over sequences of any length. The
properties it implies are those the two Ingest runs check. The proof found one
thing TLC had not: `SynthesizeIntent` had a CASE whose guards overlapped,
which TLC reads from the top, as the code does, and TLA+ as a choice; the guards
now exclude each other.

**How the folds are proved.** No installed prover can instantiate the library's
induction theorems, which take an operator as a parameter. `FoldFacts` replaces them: a
nonempty set of naturals has a least element (`Least`, from the library's well-foundedness
of `<`), so an induction is a proof that the least counterexample is none, and a fold over
a sequence is shown to be the last of a sequence of partial results, which the
same argument then walks along. `StepFolds` does this for any step: a module can be
instantiated with an operator where a theorem cannot, so each fold of `SessionPlan` and `Texts`
has an instance of its own, named for the step. `StepFolds` takes induction as a
hypothesis (`Inducts`) and extends nothing, because an instance would bring along whatever
it extends. Facts about `Replay`, `Merge`, `Walk`, `ContinuityLog`
and `LogOf` are proved this way for logs of any length. No module declares a RECURSIVE
operator, so that all of them can carry theorems.

Only model-checked:
- `Released`, since liveness under fairness is out of this prover's reach;
- `ImportsMirror`, `PrIsUnion`, and `AlwaysLoads` over the steps of `GitMirror` (over those
  of `ForkUnion` and `Lineage` it is proved);
- `PlanKeepsBytes`, `BlameHolds` and `DiffApplies` of `Ingest`. The first says which
  bytes of the tree an aligned plan reaches, the other two that a fold of patches and a
  roll-up agree with a diff: statements about where each byte of a file came from through
  several texts, for which the invariant above keeps too little;
- of `LineageImport`, that the property fails.

## 5. What the models found

`LineageImport` is the violation kept as a run: in a repository made by `init
--from-git` with a session fork made before and another after main moved, the
walk over anchors runs in a circle (`repo.rs:561`) and `HEAD~1` on the second fork
cannot be materialized, although `repo.rs:522` says it can. A snapshot of main, or
three session forks whose anchors meet in name order, do the same. So can a repository
that began empty and never took a snapshot: with `Bases` all of the forks, four forks, two
paths and three lines, s2 forks from main and creates f, which leads to S; s1 forks
from s2 at S and creates g, which leads to T; s3 forks from s1 at T and deletes g,
which leads to S again. Now s1 is anchored at S, where s3 has been, and s3 at T, where s1
has been: the walk runs between them, although `repo.rs:587` calls the result "a
single continuous history".

The others are properties that hold in the deployments the runs describe and fail
outside them. Each is reproduced by the change named:

| Where | What happens | Change | Violates |
|---|---|---|---|
| `repo.rs:405` | `read_log` repairs a torn tail without the lock: a reader that parsed a half-written append cuts lines since acknowledged, and what is appended next may chain to a line that is gone. `SPEC.md:108`: "Nothing in them is ever rewritten" | `LooseMixed` with `PROPERTY KeepsPromise`, or with `INVARIANT ChainIntact` and `MaxFaults = 0` | `KeepsPromise`, `ChainIntact` |
| `repo.rs:889` | a crash, or a death, keeps whole leading lines of a batch. `union.rs:105`: "A union either lands in full or not at all" | `LooseLocked` with `INVARIANT BatchAtomic` | `BatchAtomic` |
| `repo.rs:1386` | gc lists, then deletes, without a lock | `LooseLocked` with `"gc"` among the kinds | `WriteAhead` |
| `blobs.rs:119` | `put` takes any existing name for a stored blob | `LooseLocked` with `DelayedAlloc = TRUE` | `WriteAhead` |
| `union.rs:224` | a repoint line that no longer applies replays by its empty intent: it lands as a no-op and counts as carried. `repo.rs:1256`: "realized is authoritative for replay" | `UnionMain` with `PROPERTY EffectLands` | `EffectLands` |
| `union.rs:224` | the same, seen by the tripwire: a fork edits two files, repoints back over both, then edits the first, which it read whole; main edits only the second. The repoint lands as a no-op because of the second file, and the last edit lands on a first file its author never saw, unflagged, since main wrote only the second. `union.rs:128`: "conservative, never unsound" | `UnionMain` with a second path, `"file"` among `Observed`, `MaxOwn` 7, `MaxLines` 11 | `ReadsHold` |
| `union.rs:130` | a target forked from main after main changed has the change in its anchor, not in its log: a stale read lands unflagged. `union.rs:128`: "conservative, never unsound" | `UnionMain` with a third fork among the bases and targets, and `PROPERTY NeverUnsound` | `NeverUnsound` |
| `serve.rs:459` | an anchor made by `init --from-git` is on no log's history from the empty state: the pushed image does not clone. `serve.rs:443`: "so this is total" | `WirePush` with `Seeds = {NoBlob, b1}` | `Restorable` |
| `delta.rs:133` | a push reads a fork's head and its lines at two moments: a line appended in between makes them disagree, and no clone succeeds | `WirePush` with `LiveEdits = TRUE` | `Restorable` |
| `serve.rs:554` | `restore` stops at the first round that resolves no fork although it may have derived new states | `WirePush` with `Names <- ThreeNames`, a third blob, one repository and `MaxCommands = 6`, `MaxManifests = 1`: edit, fork, edit, fork, edit, snapshot, push | `Restorable` |
| `remote.rs:93` | a death between the two unlinks of `invalidate` leaves synced heads of a chain that is gone; a diverged fork then passes for one merely behind | `WireFaults` with `TornForget = TRUE` and two faults | `PushedMeansStored` |
| `repo.rs:151` | a death inside `write_anchor_manifest` leaves a torn manifest under its final name; the retried command names it. `SPEC.md:131`: it "MUST exist" | `ForkFiles` without the exception for `halfAnchor` | `AnchorExists`, `Usable` |
| `repo.rs:1139` | a death inside snapshot's rewrite of the fork file leaves the fork unreadable | `ForkFiles` without the exception for `halfFork` | `Usable` |
| `repo.rs:204` | two creators both find the directory absent, and the later empties the log of the earlier. `repo.rs:236`: "idempotent under concurrency" | `ForkFiles` without the exception for `raced` | `Kept`, `Usable` |
| `repo.rs:337` | a line appended after remove_fork's check is deleted | the same | `Kept` |
| `repo.rs:374` | a process that waits for the lock of a directory that is removed gets it, and appends beside one that holds the lock of the directory created since: the log no longer chains | the same | `Usable` |
| `claude.rs:213` | a session that continues another begins with its entries; if it does so before that one is ingested, they are before the origin of both transcripts, and no ingest ever records their calls. `claude.rs:25`: "those entries are another fork's work and ingesting them again would duplicate it" | `IngestSession` with `\cup Siblings(run.s)` dropped from `RecordedOnce` | `RecordedOnce` |
| `git.rs:783` | with overlapping fuses a pr renders lines twice or not at all, and differs from the union it "acts exactly like" | `GitMirror` with six lines, one command, and `Disjoint` dropped from `PrIsUnion` (with it, those bounds pass: 4,740,557 states) | `PrIsUnion` |

Two more limits are conditions of properties: `ReadsHold` and `ReasoningKept` are
stated for a source made from `Main` and only while `Main` has not returned to the
source's anchor state (`Apart`): when it has, `last_state_position` takes the later
visit for the parting point and forgets the lines before it. `SingleHistory`, the
lineage half of `PointsMaterialize`, `RevisionsResolve` and `RangesCarry` are stated for
lineages whose walk ends at a root, in a repository in which no snapshot moved an anchor
(`Rooted`, `AllRooted`): the circles above, and a snapshot that moves an anchor past lines
the walk needs, are the two ways in which they fail.

## 6. Not modelled, and the plan

Not modelled: byte formats, hashing, compression and canonical JSON (codecs,
checked by hashes in the code); `pack`'s directory layout; the working tree beyond
what commit and an ingest scan (its refresh after each line, `checkout`, `restore`,
`status`); ignore and base64 (pure string functions); argument parsing, printing
and the wording of diffs; subagent transcripts.

The type invariants of `ForkUnion` and `Wire` are proved (within `UnionInv`, and as
`WireTyped`) and hold in their runs' instances; the runs do not list them.

Open, in this order:

1. Proofs: `AlwaysLoads` over the steps of `GitMirror`, from `UnionInv` and the
   re-adjudication in `LandBatch`; `DiffApplies`, from `Script`.
2. Two ingests of one session beside each other, and an ingest beside an editor of the
   same fork, with the lock at line granularity.
3. The working tree that every fork's commands refresh, composed with `ForkUnion`.
4. `pack` and `restore` of a directory, sharing `Packs`; restore with three forks.
