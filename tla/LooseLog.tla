------------------------------ MODULE LooseLog ------------------------------
(***************************************************************************)
(* One fork of a loose tally repository, as several tally processes on one *)
(* machine use it: the log file, the blob pool, the fork lock, and the     *)
(* system calls that read and write them (src/src/repo.rs, log.rs,         *)
(* blobs.rs).                                                              *)
(*                                                                         *)
(* A process runs one command at a time.  Commands that append do so under *)
(* forks/<f>/lock; commands that only look read the log without it, and so *)
(* does the first half of `tally commit`.  Reading repairs: a torn tail is *)
(* cut off by whoever reads it, be it what a dead writer left or the       *)
(* append of a live one.  The machine may crash and a process may be       *)
(* killed, or meet an I/O error, between any two system calls.             *)
(***************************************************************************)
EXTENDS LogLines

CONSTANTS
  Procs,        \* tally processes
  NoProc,
  Kinds,        \* the commands this deployment runs
  MaxBatch,     \* lines one append may carry
  MaxFaults,    \* crashes, kills and I/O errors in one behaviour
  DelayedAlloc  \* may a crash keep a rename and lose the renamed bytes?

AllKinds == {"apply", "batch", "commit", "read", "gc"}

\* The commands that first read the log without holding the fork lock.
UnlockedKinds == {"commit", "read", "gc"}

ASSUME LooseAssumption ==
  /\ NoProc \notin Procs
  /\ Kinds \subseteq AllKinds
  /\ MaxBatch \in Nat \ {0}
  /\ MaxFaults \in Nat
  /\ DelayedAlloc \in BOOLEAN

VARIABLES
  lines,   \* log.jsonl as a reader sees it now: the valid prefix, and
  tail,    \*   what follows it: "clean", "torn", or "damaged" for a torn line
           \*   with a valid line after it
  durable, \* how many of the lines an fsync has covered
  blob,    \* the pool: [Blobs -> {"absent", "ok", "torn"}]
  synced,  \* the pooled blobs a device sync has covered
  lock,    \* the process holding forks/<f>/lock, or NoProc
  pc,      \* what each process does next
  job,     \* the command each process runs
  view,    \* the verified lines each process loaded, then those it sealed
  base,    \* how many of them it loaded
  delta,   \* the realized entry a commit computed before it locked
  wrote,   \* how many sealed lines its write has put in the file
  doomed,  \* the blobs a gc decided to remove
  faults,  \* faults so far
  cut,     \* history: a repair cut a file that no longer held just the lines
           \*   the repairing process had read
  used,    \* history: ids sealed so far
  acked,   \* history: ids of lines whose append returned Ok
  batches  \* history: the id sets of multi-line appends

file == <<lines, tail, durable>>
pool == <<blob, synced>>
local == <<pc, job, view, base, delta, wrote, doomed>>
past == <<used, acked, batches>>
history == <<cut, past>>
vars == <<file, pool, lock, local, faults, history>>

-----------------------------------------------------------------------------
NoEntry == [path |-> NoBlob, old |-> NoBlob, new |-> NoBlob]

\* The lines an fsync has covered.
Committed == SubSeq(lines, 1, durable)

-----------------------------------------------------------------------------
(* The blob pool.                                                          *)

Present == {b \in Blobs : blob[b] # "absent"}

\* BlobStore::put_unsynced: an existing name is a deduplication hit.
Pooled(b) ==
  IF b = NoBlob \/ b \in Present THEN blob ELSE [blob EXCEPT ![b] = "ok"]

-----------------------------------------------------------------------------
(* Processes.                                                              *)

Init ==
  /\ lines = <<>> /\ tail = "clean" /\ durable = 0
  /\ blob = [b \in Blobs |-> "absent"] /\ synced = {}
  /\ lock = NoProc
  /\ pc = [p \in Procs |-> "idle"]
  /\ job = [p \in Procs |-> "none"]
  /\ view = [p \in Procs |-> <<>>]
  /\ base = [p \in Procs |-> 0]
  /\ delta = [p \in Procs |-> NoEntry]
  /\ wrote = [p \in Procs |-> 0]
  /\ doomed = [p \in Procs |-> {}]
  /\ faults = 0
  /\ cut = FALSE /\ used = {} /\ acked = {} /\ batches = {}

Goto(p, to) == pc' = [pc EXCEPT ![p] = to]

\* A process ends its command: locals are dropped, and the lock with them.
Finish(p) ==
  /\ Goto(p, "idle")
  /\ job' = [job EXCEPT ![p] = "none"]
  /\ view' = [view EXCEPT ![p] = <<>>]
  /\ base' = [base EXCEPT ![p] = 0]
  /\ delta' = [delta EXCEPT ![p] = NoEntry]
  /\ wrote' = [wrote EXCEPT ![p] = 0]
  /\ doomed' = [doomed EXCEPT ![p] = {}]
  /\ lock' = IF lock = p THEN NoProc ELSE lock

\* apply, record_observed, append_realized_batch and union lock first;
\* commit, repoint, fuse, gc_blobs and every reader load first.
Start(p, kind) ==
  /\ pc[p] = "idle"
  /\ job' = [job EXCEPT ![p] = kind]
  /\ Goto(p, IF kind \in UnlockedKinds THEN "load" ELSE "want")
  /\ UNCHANGED <<file, pool, lock, view, base, delta, wrote, doomed, faults,
                 history>>

\* Mutant of Acquire: a shared lock.
AcquireShared(p) ==
  /\ pc[p] = "want"
  /\ lock' = p
  /\ Goto(p, "load")
  /\ UNCHANGED <<file, pool, job, view, base, delta, wrote, doomed, faults,
                 history>>

\* lock_fork: a blocking, exclusive OS lock.
Acquire(p) ==
  /\ pc[p] = "want"
  /\ lock = NoProc
  /\ lock' = p
  /\ Goto(p, "load")
  /\ UNCHANGED <<file, pool, job, view, base, delta, wrote, doomed, faults,
                 history>>

MidWrite == \E q \in Procs : pc[q] \in {"writing", "tearing"}

\* read_log, first half: read the bytes and parse the valid prefix.  The
\* bytes may be those of an append under way.
ReadLog(p) ==
  /\ pc[p] = "load"
  /\ tail # "damaged"
  /\ view' = [view EXCEPT ![p] = lines]
  /\ base' = [base EXCEPT ![p] = Len(lines)]
  /\ Goto(p, IF tail = "torn" THEN "repair" ELSE "loaded")
  /\ UNCHANGED <<file, pool, lock, job, delta, wrote, doomed, faults, history>>

\* Mutant of Repair: it cuts at the last newline but one.
RepairShort(p) ==
  /\ pc[p] = "repair"
  /\ ~MidWrite
  /\ lines' = SubSeq(lines, 1, Len(lines) - 1)
  /\ tail' = "clean"
  /\ durable' = Len(lines')
  /\ cut' = (cut \/ lines # view[p])
  /\ Goto(p, "loaded")
  /\ UNCHANGED <<pool, lock, job, view, base, delta, wrote, doomed, faults,
                 past>>

\* read_log, second half: set_len to the prefix this process read, whatever
\* the file holds by now, then sync_all.  A file that no longer starts with
\* the lines read is cut, or extended with zeros, at a byte that need not
\* end a line.  The inode lock keeps it out of another process's write(2).
Repair(p) ==
  /\ pc[p] = "repair"
  /\ ~MidWrite
  /\ \/ Prefix(view[p], lines) /\ lines' = view[p] /\ tail' = "clean"
     \/ /\ ~Prefix(view[p], lines)
        /\ \E n \in 0..Len(lines) :
             /\ lines' = SubSeq(lines, 1, n)
             /\ tail' \in {"clean", "torn"}
                            \cup (IF n = Len(lines) THEN {tail} ELSE {})
  /\ durable' = Len(lines')
  /\ cut' = (cut \/ lines # view[p])
  /\ Goto(p, "loaded")
  /\ UNCHANGED <<pool, lock, job, view, base, delta, wrote, doomed, faults,
                 past>>

\* Mutant of Fail: an error is retried under the lock instead of returned.
FailRetry(p) ==
  /\ \/ pc[p] = "load" /\ tail = "damaged"
     \/ pc[p] = "loaded"
  /\ Goto(p, "load")
  /\ UNCHANGED <<file, pool, lock, job, view, base, delta, wrote, doomed,
                 faults, history>>

\* Any error return: a damaged log, a chain that does not verify, a failed
\* precondition, an unreadable blob.  Nothing has been appended.
Fail(p) ==
  /\ \/ pc[p] = "load" /\ tail = "damaged"
     \/ pc[p] = "loaded"
  /\ Finish(p)
  /\ UNCHANGED <<file, pool, faults, history>>

\* A reader is done once its load verified.
ReadDone(p) ==
  /\ pc[p] = "loaded"
  /\ job[p] = "read"
  /\ Chained(view[p])
  /\ Finish(p)
  /\ UNCHANGED <<file, pool, faults, history>>

-----------------------------------------------------------------------------
(* Appending.                                                              *)

\* commit, before the lock: scan the working tree into the pool and diff it
\* against the state just loaded; synthesizing the intent reads the old blob.
Scan(p, x, b) ==
  LET old == State(view[p])[x]
  IN  /\ pc[p] = "loaded"
      /\ job[p] = "commit"
      /\ lock # p
      /\ Chained(view[p])
      /\ old # b
      /\ old # NoBlob => blob[old] = "ok"
      /\ blob' = Pooled(b)
      /\ delta' = [delta EXCEPT ![p] = [path |-> x, old |-> old, new |-> b]]
      /\ Goto(p, "want")
      /\ UNCHANGED <<file, synced, lock, job, view, base, wrote, doomed,
                     faults, history>>

\* How many lines a process has sealed since it loaded, and their ids.
Fresh(p) == Len(view[p]) - base[p]
FreshIds(p) == {view[p][i].id : i \in base[p] + 1..Len(view[p])}

\* Mutant of Seal: the entry is not adjudicated against the running state.
SealUnchecked(p, a, e) ==
  /\ pc[p] = "loaded"
  /\ lock = p
  /\ Chained(view[p])
  /\ a \notin used
  /\ view' = [view EXCEPT ![p] = Append(@, Sealed(a, e, @))]
  /\ used' = used \cup {a}
  /\ UNCHANGED <<file, synced, lock, pc, job, base, delta, wrote, doomed,
                 faults, cut, acked, batches>>

\* Validate entry e against the running state and seal a line, chained to
\* the running head.
Seal(p, a, e) ==
  /\ pc[p] = "loaded"
  /\ lock = p
  /\ Chained(view[p])
  /\ a \notin used
  /\ Applies(State(view[p]), e)
  /\ view' = [view EXCEPT ![p] = Append(@, Sealed(a, e, @))]
  /\ used' = used \cup {a}
  /\ UNCHANGED <<file, synced, lock, pc, job, base, delta, wrote, doomed,
                 faults, cut, acked, batches>>

\* apply_inner, and the replay loops of union and append_realized_batch:
\* validate against the state loaded under the lock, pool the new blob,
\* realize and seal.  An applied edit reads the blob it replaces.
Realize(p, a, x, b) ==
  LET old == State(view[p])[x]
  IN  /\ job[p] \in {"apply", "batch"}
      /\ Fresh(p) < (IF job[p] = "batch" THEN MaxBatch ELSE 1)
      /\ old # b
      /\ job[p] = "apply" /\ NoBlob \notin {old, b} => blob[old] = "ok"
      /\ Seal(p, a, [path |-> x, old |-> old, new |-> b])
      /\ blob' = Pooled(b)

\* apply_realized: the delta computed before the lock is adjudicated against
\* the state loaded under it, and the added blob must be in the pool.
Adjudicate(p, a) ==
  /\ job[p] = "commit"
  /\ Fresh(p) = 0
  /\ delta[p].new \in Present \cup {NoBlob}
  /\ Seal(p, a, delta[p])
  /\ UNCHANGED blob

\* Mutant of SyncBlobs: a batch takes its blobs for synced.
SyncApplied(p) ==
  /\ pc[p] = "loaded"
  /\ Fresh(p) > 0
  /\ synced' = IF job[p] = "batch" THEN synced ELSE Present
  /\ batches' = batches \cup
       (IF Fresh(p) > 1 THEN {FreshIds(p)} ELSE {})
  /\ Goto(p, "append")
  /\ UNCHANGED <<file, blob, lock, job, view, base, delta, wrote, doomed,
                 faults, cut, used, acked>>

\* One device sync covers the whole pool; then the append begins.
SyncBlobs(p) ==
  /\ pc[p] = "loaded"
  /\ Fresh(p) > 0
  /\ synced' = Present
  /\ batches' = batches \cup
       (IF Fresh(p) > 1 THEN {FreshIds(p)} ELSE {})
  /\ Goto(p, "append")
  /\ UNCHANGED <<file, blob, lock, job, view, base, delta, wrote, doomed,
                 faults, cut, used, acked>>

\* The single write(2) of the append, seen part way through a line.
Tear(p) ==
  /\ pc[p] \in {"append", "writing"}
  /\ tail = "clean"
  /\ tail' = "torn"
  /\ Goto(p, "tearing")
  /\ UNCHANGED <<lines, durable, pool, lock, job, view, base, delta, wrote,
                 doomed, faults, history>>

\* The same write, past the end of its next line.  Appended to torn bytes
\* that were there before, the first line merges with them and the next one
\* is a valid line in the middle of damage.
Put(p) ==
  /\ pc[p] \in {"append", "writing", "tearing"}
  /\ \/ /\ tail = "clean" \/ pc[p] = "tearing"
        /\ lines' = Append(lines, view[p][base[p] + wrote[p] + 1])
        /\ tail' = "clean"
     \/ /\ tail # "clean" /\ pc[p] # "tearing"
        /\ tail' = IF pc[p] = "append" THEN tail ELSE "damaged"
        /\ UNCHANGED lines
  /\ wrote' = [wrote EXCEPT ![p] = @ + 1]
  /\ Goto(p, IF wrote[p] + 1 = Fresh(p) THEN "fsync" ELSE "writing")
  /\ UNCHANGED <<durable, pool, lock, job, view, base, delta, doomed, faults,
                 history>>

\* Mutant of Fsync: Ok before the sync.
FsyncLater(p) ==
  /\ pc[p] = "fsync"
  /\ acked' = acked \cup FreshIds(p)
  /\ Finish(p)
  /\ UNCHANGED <<file, pool, faults, cut, used, batches>>

\* fsync of the file and its directory: the linearization point.  The caller
\* is told Ok and the lock is dropped.
Fsync(p) ==
  /\ pc[p] = "fsync"
  /\ durable' = Len(lines)
  /\ acked' = acked \cup FreshIds(p)
  /\ Finish(p)
  /\ UNCHANGED <<lines, tail, pool, faults, cut, used, batches>>

-----------------------------------------------------------------------------
(* Garbage collection: no lock at all.                                     *)

\* referenced_blobs came from the load; the pool is listed after it.
GcList(p) ==
  /\ pc[p] = "loaded"
  /\ job[p] = "gc"
  /\ Chained(view[p])
  /\ doomed' = [doomed EXCEPT ![p] = Present \ BlobsOf(view[p])]
  /\ Goto(p, "sweep")
  /\ UNCHANGED <<file, pool, lock, job, view, base, delta, wrote, faults,
                 history>>

\* BlobStore::remove: unlink one blob and fsync its directory.
GcRemove(p, b) ==
  /\ pc[p] = "sweep"
  /\ b \in doomed[p]
  /\ blob' = [blob EXCEPT ![b] = "absent"]
  /\ synced' = synced \ {b}
  /\ doomed' = [doomed EXCEPT ![p] = @ \ {b}]
  /\ UNCHANGED <<file, lock, pc, job, view, base, delta, wrote, faults,
                 history>>

GcDone(p) ==
  /\ pc[p] = "sweep"
  /\ doomed[p] = {}
  /\ Finish(p)
  /\ UNCHANGED <<file, pool, faults, history>>

-----------------------------------------------------------------------------
(* Faults.                                                                 *)

\* A process dies, or an I/O error ends its command: the kernel keeps what
\* it wrote and releases its lock.
Kill(p) ==
  /\ pc[p] # "idle"
  /\ faults < MaxFaults
  /\ faults' = faults + 1
  /\ Finish(p)
  /\ UNCHANGED <<file, pool, history>>

\* The machine stops.  Unsynced lines survive up to some byte; an unsynced
\* blob survives, vanishes, or keeps its name and loses its bytes.
Crash ==
  /\ faults < MaxFaults
  /\ faults' = faults + 1
  /\ \E n \in durable..Len(lines) :
       /\ lines' = SubSeq(lines, 1, n)
       /\ durable' = n
       /\ tail' \in IF n < Len(lines) \/ tail = "torn" THEN {"clean", "torn"}
                    ELSE {tail}
  /\ blob' \in [Blobs -> {"absent", "ok", "torn"}]
  /\ \A b \in Blobs :
       \/ blob'[b] = blob[b]
       \/ b \notin synced /\ blob'[b] = "absent"
       \/ b \in Present \ synced /\ DelayedAlloc /\ blob'[b] = "torn"
  /\ synced' = {b \in Blobs : blob'[b] # "absent"}
  /\ lock' = NoProc
  /\ pc' = [p \in Procs |-> "idle"]
  /\ job' = [p \in Procs |-> "none"]
  /\ view' = [p \in Procs |-> <<>>]
  /\ base' = [p \in Procs |-> 0]
  /\ delta' = [p \in Procs |-> NoEntry]
  /\ wrote' = [p \in Procs |-> 0]
  /\ doomed' = [p \in Procs |-> {}]
  /\ UNCHANGED history

-----------------------------------------------------------------------------
\* What a process does once its command has started.
Step(p) ==
  \/ Acquire(p) \/ ReadLog(p) \/ Repair(p) \/ Fail(p) \/ ReadDone(p)
  \/ \E x \in Paths, b \in Blobs \cup {NoBlob} : Scan(p, x, b)
  \/ \E a \in Ids, x \in Paths, b \in Blobs \cup {NoBlob} : Realize(p, a, x, b)
  \/ \E a \in Ids : Adjudicate(p, a)
  \/ SyncBlobs(p) \/ Tear(p) \/ Put(p) \/ Fsync(p)
  \/ GcList(p) \/ GcDone(p)
  \/ \E b \in Blobs : GcRemove(p, b)

Next ==
  \/ \E p \in Procs, kind \in Kinds : Start(p, kind)
  \/ \E p \in Procs : Step(p) \/ Kill(p)
  \/ Crash

Spec == Init /\ [][Next]_vars

\* A running process keeps making system calls and none of them blocks for
\* ever, except the wait for the lock.
FairSpec == Spec /\ \A p \in Procs : WF_vars(Step(p))

-----------------------------------------------------------------------------
(* Properties.                                                             *)

PCs == {"idle", "want", "load", "repair", "loaded", "append", "writing",
        "tearing", "fsync", "sweep"}

\* Every variable has its type: no command leaves the file, the pool or its
\* own locals in a shape no code path writes.
TypeOK ==
  /\ lines \in Seq(Line) /\ tail \in {"clean", "torn", "damaged"}
  /\ durable \in 0..Len(lines)
  /\ blob \in [Blobs -> {"absent", "ok", "torn"}] /\ synced \subseteq Blobs
  /\ lock \in Procs \cup {NoProc}
  /\ pc \in [Procs -> PCs]
  /\ job \in [Procs -> Kinds \cup {"none"}]
  /\ view \in [Procs -> Seq(Line)]
  /\ delta \in [Procs -> Entry \cup {NoEntry}]
  /\ base \in [Procs -> Nat] /\ wrote \in [Procs -> Nat]
  /\ doomed \in [Procs -> SUBSET Blobs]
  /\ faults \in 0..MaxFaults
  /\ cut \in BOOLEAN
  /\ used \subseteq Ids /\ acked \subseteq Ids /\ batches \subseteq SUBSET Ids

\* The fork stays loadable: whatever died, was cut or was appended, the file
\* parses (a torn tail at most) and its lines chain (read_log,
\* current_state).  Otherwise every later command on the fork fails.
ChainIntact == tail # "damaged" /\ Chained(lines)

\* A line whose command was told Ok is in the log and stays there through
\* crashes: fsync is the linearization point (apply_inner step 5).
AckedDurable == acked \subseteq IdsOf(Committed)

\* I8 write-ahead ordering: a line in the log, committed or only visible,
\* never names a blob that is absent, unreadable, or not yet on the device.
WriteAhead == \A b \in BlobsOf(lines) : b \in synced /\ blob[b] = "ok"

\* Whatever commands and faults the deployment has, the log loads and holds
\* what was acknowledged, until a reader's repair cuts a file that is no
\* longer as it was read (repo.rs:405: no lock keeps the log from growing in
\* between).  Torn tails left by the dead, tails met in the middle of an
\* append, repairs of either by a reader, and commits diffed against a state
\* that has moved, do no harm by themselves.
SoundUntilCut == cut \/ (ChainIntact /\ AckedDurable)

\* I3, "nothing in them is ever rewritten": committed lines stay where they
\* are in every step of every command and through every fault, until then.
OnlyCutsRewrite == [][cut' \/ Prefix(Committed, Committed')]_vars

\* "A union either lands in full or not at all" (union.rs:105): with the fork
\* at rest, a batch is in the log whole or absent.  So it is until a process
\* dies in the middle of one; no run checks it.
BatchAtomic ==
  lock = NoProc =>
    \A g \in batches : g \subseteq IdsOf(lines) \/ g \cap IdsOf(lines) = {}

\* The log and its acknowledgements implement the promise of CommittedLog.
Promise == INSTANCE CommittedLog WITH history <- Committed, told <- acked
KeepsPromise == Promise!Spec

\* Every command that gets the fork lock gives it back: ForkLock drops on
\* every return path of a command, the failing ones too.
Released == \A p \in Procs : lock = p ~> lock # p

-----------------------------------------------------------------------------
(* Invariants the proofs of LooseLogProofs rest on.                        *)

\* The program counters of a process that holds the lock.
Critical == {"load", "repair", "loaded", "append", "writing", "tearing",
             "fsync"}

\* One process's locals agree with each other and with the lock: sealed
\* lines exist only under the lock, and the write advances through them.
LocalInv(p) ==
  /\ base[p] <= Len(view[p])
  /\ Fresh(p) > 0 => lock = p
  /\ lock = p => pc[p] \in Critical
  /\ pc[p] \in {"idle", "want", "load", "repair", "sweep"} => Fresh(p) = 0
  /\ pc[p] \notin {"writing", "tearing", "fsync"} => wrote[p] = 0
  /\ pc[p] \in {"append", "writing", "tearing"} => wrote[p] < Fresh(p)
  /\ pc[p] = "fsync" => wrote[p] = Fresh(p) /\ Fresh(p) > 0
  /\ job[p] = "gc" => lock # p /\ pc[p] # "want"
  /\ job[p] = "commit" /\ (pc[p] = "want" \/ lock = p) => delta[p] \in Entry

TypeInv == TypeOK /\ \A p \in Procs : LocalInv(p)

\* A deployment in which every command locks before it reads, so that only
\* the lock's holder reads or repairs, and no repair is of a changed file.
LockedOnly == Kinds \cap UnlockedKinds = {}
LockedInv ==
  /\ ~cut
  /\ \A p \in Procs : pc[p] \in {"load", "repair"} => lock = p

\* What the lock's holder loaded is what the file holds, plus what it wrote.
HolderInv(p) ==
  lock = p /\ pc[p] # "load" =>
    /\ Chained(view[p])
    /\ Len(lines) = base[p] + wrote[p]
    /\ \A i \in 1..Len(lines) : lines[i] = view[p][i]
    /\ pc[p] \in {"loaded", "append", "writing", "fsync"} => tail = "clean"

LogInv ==
  /\ ChainIntact
  /\ AckedDurable
  /\ \A p \in Procs : HolderInv(p)

SafeInv == TypeInv /\ (cut \/ LogInv)

\* A sealed line's blob is pooled before the device sync, and on the device
\* after it; nobody collects.
PoolLocal(p) ==
  /\ pc[p] # "sweep" /\ job[p] # "gc"
  /\ \A i \in base[p] + 1..Len(view[p]) :
       view[p][i].entry.new \in
         {NoBlob} \cup (IF pc[p] = "loaded" THEN Present ELSE synced)

PoolInv ==
  /\ \A b \in Blobs : blob[b] # "torn"
  /\ synced \subseteq Present
  /\ BlobsOf(lines) \subseteq synced
  /\ \A p \in Procs : PoolLocal(p)

WriteAheadInv == TypeInv /\ PoolInv
=============================================================================
