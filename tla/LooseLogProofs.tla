--------------------------- MODULE LooseLogProofs ---------------------------
(***************************************************************************)
(* Theorems about LooseLog, for every set of processes, paths, blobs and   *)
(* ids and every bound.                                                    *)
(*                                                                         *)
(* First what holds of any deployment: types, write-ahead ordering, and    *)
(* that the log stays loadable, keeps what it told its callers and only    *)
(* grows until a repair cuts a file that is no longer as it was read.      *)
(* Then that no repair does where every command locks the fork before it   *)
(* reads it, so that there the log implements CommittedLog.                *)
(***************************************************************************)
EXTENDS LooseLog, TLAPS

-----------------------------------------------------------------------------
(* Lines.                                                                  *)

\* The last line of a well-typed log names a state and an id (State, HeadId).
LEMMA TipType ==
  ASSUME NEW l \in Seq(Line)
  PROVE  State(l) \in Manifest /\ HeadId(l) \in Ids \cup {NoId}
<1>1. CASE l = <<>>
  BY <1>1 DEF State, HeadId, EmptyManifest, Manifest
<1>2. CASE l # <<>>
  <2>1. Len(l) \in 1..Len(l)
    BY <1>2
  <2>2. l[Len(l)] \in Line
    BY <2>1
  <2> QED BY <1>2, <2>2 DEF State, HeadId, Line
<1> QED BY <1>1, <1>2

\* Sealing an entry onto a well-typed log makes a well-typed line.
LEMMA SealedType ==
  ASSUME NEW l \in Seq(Line), NEW a \in Ids, NEW e \in Entry
  PROVE  Sealed(a, e, l) \in Line
<1>1. State(l) \in Manifest /\ HeadId(l) \in Ids \cup {NoId}
  BY TipType
<1>2. Result(State(l), e) \in Manifest
  BY <1>1 DEF Result, Manifest, Entry
<1> QED BY <1>1, <1>2 DEF Sealed, Line

\* Pooling a blob keeps the pool well typed (BlobStore::put_unsynced).
LEMMA PooledType ==
  ASSUME TypeOK, NEW b \in Blobs \cup {NoBlob}
  PROVE  Pooled(b) \in [Blobs -> {"absent", "ok", "torn"}]
BY DEF TypeOK, Pooled

-----------------------------------------------------------------------------
(* Type correctness.                                                       *)

\* The ids a process sealed are ids.
LEMMA FreshIdsType ==
  ASSUME TypeInv, NEW p \in Procs
  PROVE  FreshIds(p) \subseteq Ids
<1> SUFFICES ASSUME NEW i \in base[p] + 1..Len(view[p])
             PROVE  view[p][i].id \in Ids
  BY DEF FreshIds
<1>1. view[p] \in Seq(Line) /\ base[p] \in Nat
  BY DEF TypeInv, TypeOK
<1>2. i \in 1..Len(view[p])
  BY <1>1
<1>3. view[p][i] \in Line
  BY <1>1, <1>2
<1> QED BY <1>3 DEF Line

\* A process whose locals and share of the lock do not change keeps LocalInv.
Untouched(q) ==
  /\ pc'[q] = pc[q] /\ job'[q] = job[q] /\ view'[q] = view[q]
  /\ base'[q] = base[q] /\ delta'[q] = delta[q] /\ wrote'[q] = wrote[q]
  /\ lock' = q <=> lock = q

\* A process that a step leaves alone keeps its locals consistent.
LEMMA UntouchedLocal ==
  ASSUME NEW q \in Procs, LocalInv(q), Untouched(q)
  PROVE  LocalInv(q)'
BY DEF LocalInv, Untouched, Fresh

\* What Finish leaves behind: p idle with empty locals, the rest untouched.
LEMMA FinishLocal ==
  ASSUME TypeInv, NEW p \in Procs, Finish(p)
  PROVE  /\ lock' \in Procs \cup {NoProc}
         /\ pc' \in [Procs -> PCs]
         /\ job' \in [Procs -> Kinds \cup {"none"}]
         /\ view' \in [Procs -> Seq(Line)]
         /\ delta' \in [Procs -> Entry \cup {NoEntry}]
         /\ base' \in [Procs -> Nat] /\ wrote' \in [Procs -> Nat]
         /\ doomed' \in [Procs -> SUBSET Blobs]
         /\ lock' # p /\ pc'[p] = "idle" /\ job'[p] = "none"
         /\ view'[p] = <<>> /\ base'[p] = 0 /\ wrote'[p] = 0
         /\ \A q \in Procs \ {p} : Untouched(q)
         /\ \A q \in Procs : LocalInv(q)'
<1> USE DEF TypeInv, TypeOK, Finish, Goto
<1>1. /\ lock' \in Procs \cup {NoProc}
      /\ pc' \in [Procs -> PCs]
      /\ job' \in [Procs -> Kinds \cup {"none"}]
      /\ delta' \in [Procs -> Entry \cup {NoEntry}]
      /\ base' \in [Procs -> Nat] /\ wrote' \in [Procs -> Nat]
      /\ doomed' \in [Procs -> SUBSET Blobs]
  BY DEF PCs
<1>2. view' \in [Procs -> Seq(Line)]
  OBVIOUS
<1>3. /\ lock' # p /\ pc'[p] = "idle" /\ job'[p] = "none"
      /\ view'[p] = <<>> /\ base'[p] = 0 /\ wrote'[p] = 0
  BY LooseAssumption
<1>4. \A q \in Procs \ {p} : Untouched(q)
  BY LooseAssumption DEF Untouched
<1>5. \A q \in Procs \ {p} : LocalInv(q)'
  BY <1>4, UntouchedLocal
<1>6. LocalInv(p)'
  BY <1>3 DEF LocalInv, Fresh
<1> QED BY <1>1, <1>2, <1>3, <1>4, <1>5, <1>6

\* Whatever p does, the other processes' locals stay, and a lock of theirs.
LEMMA Others ==
  ASSUME TypeInv, NEW p \in Procs,
         (\E kind \in Kinds : Start(p, kind)) \/ Step(p) \/ Kill(p)
  PROVE  \A q \in Procs \ {p} : Untouched(q)
<1> SUFFICES ASSUME NEW q \in Procs, q # p PROVE Untouched(q)
  OBVIOUS
<1> USE LooseAssumption DEF TypeInv, TypeOK, Goto, Untouched
<1>1. CASE \E kind \in Kinds : Start(p, kind)
  BY <1>1 DEF Start
<1>2. CASE Acquire(p) \/ ReadLog(p) \/ Repair(p)
  BY <1>2 DEF Acquire, ReadLog, Repair
<1>3. CASE Fail(p) \/ ReadDone(p) \/ Fsync(p) \/ GcDone(p) \/ Kill(p)
  <2>1. Finish(p)
    BY <1>3 DEF Fail, ReadDone, Fsync, GcDone, Kill
  <2> QED BY <2>1, FinishLocal
<1>4. CASE \E x \in Paths, b \in Blobs \cup {NoBlob} : Scan(p, x, b)
  BY <1>4 DEF Scan
<1>5. CASE \/ \E a \in Ids, x \in Paths, b \in Blobs \cup {NoBlob} :
                Realize(p, a, x, b)
           \/ \E a \in Ids : Adjudicate(p, a)
  <2>1. ASSUME NEW a \in Ids, NEW x \in Paths, NEW b \in Blobs \cup {NoBlob},
               Realize(p, a, x, b)
        PROVE  Untouched(q)
    BY <2>1 DEF Realize, Seal
  <2>2. ASSUME NEW a \in Ids, Adjudicate(p, a) PROVE Untouched(q)
    BY <2>2 DEF Adjudicate, Seal
  <2> QED BY <1>5, <2>1, <2>2
<1>6. CASE SyncBlobs(p) \/ Tear(p) \/ Put(p) \/ GcList(p)
  BY <1>6 DEF SyncBlobs, Tear, Put, GcList
<1>7. CASE \E b \in Blobs : GcRemove(p, b)
  BY <1>7 DEF GcRemove
<1> QED BY <1>1, <1>2, <1>3, <1>4, <1>5, <1>6, <1>7 DEF Step

\* The initial state is well typed.
LEMMA TypeInit == Init => TypeInv
<1> SUFFICES ASSUME Init PROVE TypeInv
  OBVIOUS
<1>0. cut \in BOOLEAN
  BY DEF Init
<1>1. TypeOK
  BY <1>0, LooseAssumption DEF Init, TypeOK, PCs
<1>2. \A p \in Procs : LocalInv(p)
  BY LooseAssumption DEF Init, LocalInv, Fresh, Critical
<1> QED BY <1>1, <1>2 DEF TypeInv

\* Commands start, lock, read and repair without breaking the types.
LEMMA TypeLoad ==
  ASSUME TypeInv, NEW p \in Procs,
         \/ \E kind \in Kinds : Start(p, kind)
         \/ Acquire(p) \/ ReadLog(p) \/ Repair(p)
  PROVE  TypeInv'
<1> USE DEF TypeInv, TypeOK, Goto, file, pool, history, past
<1>1. ASSUME NEW kind \in Kinds, Start(p, kind) PROVE TypeInv'
  <2>1. TypeOK'
    BY <1>1 DEF Start, PCs
  <2>2. \A q \in Procs \ {p} : Untouched(q)
    BY <1>1, Others DEF Step
  <2>3. LocalInv(p)'
    BY <1>1 DEF Start, LocalInv, Fresh, Critical, UnlockedKinds
  <2> QED BY <2>1, <2>2, <2>3, UntouchedLocal
<1>2. CASE Acquire(p)
  <2>1. TypeOK'
    BY <1>2 DEF Acquire, PCs
  <2>2. \A q \in Procs \ {p} : Untouched(q)
    BY <1>2, Others DEF Step
  <2>3. LocalInv(p)'
    BY <1>2 DEF Acquire, LocalInv, Fresh, Critical
  <2> QED BY <2>1, <2>2, <2>3, UntouchedLocal
<1>3. CASE ReadLog(p)
  <2>1. TypeOK'
    BY <1>3 DEF ReadLog, PCs
  <2>2. \A q \in Procs \ {p} : Untouched(q)
    BY <1>3, Others DEF Step
  <2>3. /\ pc[p] = "load" /\ pc'[p] \in {"repair", "loaded"}
        /\ Fresh(p)' = 0 /\ base'[p] <= Len(view'[p])
        /\ job'[p] = job[p] /\ lock' = lock
        /\ delta'[p] = delta[p] /\ wrote'[p] = wrote[p]
    BY <1>3 DEF ReadLog, Fresh
  <2>4. LocalInv(p)'
    BY <2>3 DEF LocalInv, Critical
  <2> QED BY <2>1, <2>2, <2>4, UntouchedLocal
<1>4. CASE Repair(p)
  <2>1. lines' \in Seq(Line)
    BY <1>4 DEF Repair
  <2>a. tail' \in {"clean", "torn", "damaged"}
    BY <1>4 DEF Repair
  <2>2. TypeOK'
    BY <1>4, <2>1, <2>a DEF Repair, PCs
  <2>3. \A q \in Procs \ {p} : Untouched(q)
    BY <1>4, Others DEF Step
  <2>4. LocalInv(p)'
    BY <1>4 DEF Repair, LocalInv, Fresh, Critical
  <2> QED BY <2>2, <2>3, <2>4, UntouchedLocal
<1> QED BY <1>1, <1>2, <1>3, <1>4

\* A command that ends, by any return or by being killed, leaves the types.
LEMMA TypeEnd ==
  ASSUME TypeInv, NEW p \in Procs,
         Fail(p) \/ ReadDone(p) \/ Fsync(p) \/ GcDone(p) \/ Kill(p)
  PROVE  TypeInv'
<1>1. Finish(p)
  BY DEF Fail, ReadDone, Fsync, GcDone, Kill
<1>2. \A q \in Procs : LocalInv(q)'
  BY <1>1, FinishLocal
<1>3. FreshIds(p) \subseteq Ids
  BY FreshIdsType
<1>4. /\ lines' = lines /\ tail' = tail /\ blob' = blob /\ synced' = synced
      /\ used' = used /\ batches' = batches /\ cut' = cut
      /\ durable' \in {durable, Len(lines)}
      /\ acked' \in {acked, acked \cup FreshIds(p)}
      /\ faults' = faults \/ (faults' = faults + 1 /\ faults < MaxFaults)
  BY DEF Fail, ReadDone, Fsync, GcDone, Kill, file, pool, history, past
<1>5. faults' \in 0..MaxFaults
  BY <1>4, LooseAssumption DEF TypeInv, TypeOK
<1>6. TypeOK'
  BY <1>1, <1>3, <1>4, <1>5, FinishLocal DEF TypeInv, TypeOK
<1> QED BY <1>2, <1>6 DEF TypeInv

\* Sealing a line keeps the types: what is sealed is a line.
LEMMA TypeSeal ==
  ASSUME TypeInv, NEW p \in Procs, NEW a \in Ids, NEW e \in Entry, Seal(p, a, e),
         blob' \in [Blobs -> {"absent", "ok", "torn"}]
  PROVE  TypeInv'
<1> USE DEF TypeInv, TypeOK, file, Seal
<1>1. Sealed(a, e, view[p]) \in Line
  BY SealedType
<1>2. view' \in [Procs -> Seq(Line)]
  BY <1>1
<1>3. TypeOK'
  BY <1>2
<1>4. \A q \in Procs \ {p} : Untouched(q)
  BY DEF Untouched
<1>5. Len(view'[p]) = Len(view[p]) + 1
  BY <1>1
<1>6. /\ pc'[p] = "loaded" /\ lock' = p /\ pc[p] = "loaded" /\ lock = p
      /\ job'[p] = job[p] /\ delta'[p] = delta[p] /\ wrote'[p] = wrote[p]
      /\ base'[p] <= Len(view'[p])
  BY <1>5 DEF LocalInv
<1>7. LocalInv(p)'
  BY <1>6 DEF LocalInv, Critical
<1> QED BY <1>3, <1>4, <1>7, UntouchedLocal

\* Commands prepare and write their lines without breaking the types.
LEMMA TypeAppend ==
  ASSUME TypeInv, NEW p \in Procs,
         \/ \E x \in Paths, b \in Blobs \cup {NoBlob} : Scan(p, x, b)
         \/ \E a \in Ids, x \in Paths, b \in Blobs \cup {NoBlob} :
              Realize(p, a, x, b)
         \/ \E a \in Ids : Adjudicate(p, a)
         \/ SyncBlobs(p) \/ Tear(p) \/ Put(p)
  PROVE  TypeInv'
<1> USE DEF TypeInv, TypeOK, Goto, file, pool, history, past
<1>0. ASSUME NEW x \in Paths, NEW b \in Blobs \cup {NoBlob}
      PROVE  [path |-> x, old |-> State(view[p])[x], new |-> b] \in Entry
  BY TipType DEF Entry, Manifest
<1>1. ASSUME NEW x \in Paths, NEW b \in Blobs \cup {NoBlob}, Scan(p, x, b)
      PROVE  TypeInv'
  <2>1. delta' \in [Procs -> Entry \cup {NoEntry}] /\ delta'[p] \in Entry
    BY <1>0, <1>1 DEF Scan
  <2>2. TypeOK'
    BY <1>1, <2>1, PooledType DEF Scan, PCs
  <2>3. \A q \in Procs \ {p} : Untouched(q)
    BY <1>1, Others DEF Step
  <2>4. /\ pc'[p] = "want" /\ lock' = lock /\ lock # p /\ pc[p] = "loaded"
        /\ job'[p] = "commit" /\ wrote'[p] = wrote[p]
        /\ view'[p] = view[p] /\ base'[p] = base[p]
    BY <1>1 DEF Scan
  <2>5. Fresh(p) = 0 /\ Fresh(p)' = 0
    BY <2>4 DEF LocalInv, Fresh
  <2>6. LocalInv(p)'
    BY <2>1, <2>4, <2>5 DEF LocalInv
  <2> QED BY <2>2, <2>3, <2>6, UntouchedLocal
<1>2. ASSUME NEW a \in Ids, NEW x \in Paths, NEW b \in Blobs \cup {NoBlob},
             Realize(p, a, x, b)
      PROVE  TypeInv'
  BY <1>0, <1>2, PooledType, TypeSeal DEF Realize
<1>3. ASSUME NEW a \in Ids, Adjudicate(p, a) PROVE TypeInv'
  <2>1. delta[p] \in Entry
    BY <1>3 DEF Adjudicate, Seal, LocalInv
  <2> QED BY <1>3, <2>1, TypeSeal DEF Adjudicate
<1>4. CASE SyncBlobs(p)
  <2>1. FreshIds(p) \subseteq Ids
    BY FreshIdsType
  <2>2. TypeOK'
    BY <1>4, <2>1 DEF SyncBlobs, PCs, Present
  <2>3. \A q \in Procs \ {p} : Untouched(q)
    BY <1>4, Others DEF Step
  <2>4. LocalInv(p)'
    BY <1>4 DEF SyncBlobs, LocalInv, Fresh, Critical
  <2> QED BY <2>2, <2>3, <2>4, UntouchedLocal
<1>5. CASE Tear(p)
  <2>1. TypeOK'
    BY <1>5 DEF Tear, PCs
  <2>2. \A q \in Procs \ {p} : Untouched(q)
    BY <1>5, Others DEF Step
  <2>3. LocalInv(p)'
    BY <1>5 DEF Tear, LocalInv, Fresh, Critical
  <2> QED BY <2>1, <2>2, <2>3, UntouchedLocal
<1>6. CASE Put(p)
  <2>1. base[p] + wrote[p] + 1 \in 1..Len(view[p])
    BY <1>6 DEF Put, LocalInv, Fresh
  <2>2. view[p][base[p] + wrote[p] + 1] \in Line
    BY <2>1
  <2>3. lines' \in Seq(Line) /\ Len(lines') >= Len(lines)
    <3>1. PICK e \in Line : lines' \in {lines, Append(lines, e)}
      BY <1>6, <2>2 DEF Put
    <3>2. Append(lines, e) \in Seq(Line) /\ Len(Append(lines, e)) >= Len(lines)
      OBVIOUS
    <3>3. CASE lines' = lines
      BY <3>3
    <3>4. CASE lines' = Append(lines, e)
      BY <3>2, <3>4
    <3> QED BY <3>1, <3>3, <3>4
  <2>4. TypeOK'
    BY <1>6, <2>3 DEF Put, PCs
  <2>5. \A q \in Procs \ {p} : Untouched(q)
    BY <1>6, Others DEF Step
  <2>6. LocalInv(p)'
    BY <1>6 DEF Put, LocalInv, Fresh, Critical
  <2> QED BY <2>4, <2>5, <2>6, UntouchedLocal
<1> QED BY <1>1, <1>2, <1>3, <1>4, <1>5, <1>6

\* Collecting garbage keeps the types.
LEMMA TypeGc ==
  ASSUME TypeInv, NEW p \in Procs,
         GcList(p) \/ \E b \in Blobs : GcRemove(p, b)
  PROVE  TypeInv'
<1> USE DEF TypeInv, TypeOK, Goto, file, pool, history, past
<1>1. CASE GcList(p)
  <2>1. TypeOK'
    BY <1>1 DEF GcList, PCs, Present
  <2>2. \A q \in Procs \ {p} : Untouched(q)
    BY <1>1, Others DEF Step
  <2>3. /\ pc[p] = "loaded" /\ pc'[p] = "sweep" /\ job[p] = "gc"
        /\ lock' = lock /\ job'[p] = job[p] /\ wrote'[p] = wrote[p]
        /\ view'[p] = view[p] /\ base'[p] = base[p]
    BY <1>1 DEF GcList
  <2>4. lock # p /\ Fresh(p) = 0 /\ Fresh(p)' = 0
    BY <2>3 DEF LocalInv, Fresh
  <2>5. LocalInv(p)'
    BY <2>3, <2>4 DEF LocalInv
  <2> QED BY <2>1, <2>2, <2>5, UntouchedLocal
<1>2. ASSUME NEW b \in Blobs, GcRemove(p, b) PROVE TypeInv'
  <2>1. TypeOK'
    BY <1>2 DEF GcRemove
  <2>2. \A q \in Procs : Untouched(q)
    BY <1>2 DEF GcRemove, Untouched
  <2> QED BY <2>1, <2>2, UntouchedLocal
<1> QED BY <1>1, <1>2

\* A crash leaves a well-typed file and pool, and no process.
LEMMA TypeCrash == TypeInv /\ Crash => TypeInv'
<1> SUFFICES ASSUME TypeInv, Crash PROVE TypeInv'
  OBVIOUS
<1> USE DEF TypeInv, TypeOK, history, past
<1>1. lines' \in Seq(Line) /\ durable' \in 0..Len(lines')
  BY DEF Crash
<1>2. TypeOK'
  BY <1>1, LooseAssumption DEF Crash, PCs
<1>3. \A p \in Procs : LocalInv(p)'
  BY LooseAssumption DEF Crash, LocalInv, Fresh, Critical
<1> QED BY <1>2, <1>3

\* A stuttering step keeps the types.
LEMMA TypeStutter == TypeInv /\ UNCHANGED vars => TypeInv'
BY DEF TypeInv, TypeOK, LocalInv, Fresh, vars, file, pool, local, history, past

\* Every action keeps the types and the locals' consistency.
LEMMA TypeNext == TypeInv /\ [Next]_vars => TypeInv'
BY TypeLoad, TypeEnd, TypeAppend, TypeGc, TypeCrash, TypeStutter
   DEF Next, Step

\* Type correctness: whatever commands run, whatever faults happen and
\* however many lines are appended, every variable keeps its type.
THEOREM TypeCorrect == Spec => []TypeOK
<1>1. Spec => []TypeInv
  BY TypeInit, TypeNext, PTL DEF Spec
<1>2. TypeInv => TypeOK
  BY DEF TypeInv
<1> QED BY <1>1, <1>2, PTL

-----------------------------------------------------------------------------
(* Write-ahead ordering.                                                   *)

\* A prefix of a log names no other blobs.
LEMMA BlobsOfPrefix ==
  ASSUME NEW s \in Seq(Line), NEW t \in Seq(Line), Prefix(s, t)
  PROVE  BlobsOf(s) \subseteq BlobsOf(t)
BY DEF BlobsOf, Prefix

\* One more line adds at most the blob it names.
LEMMA BlobsOfAppend ==
  ASSUME NEW s \in Seq(Line), NEW x \in Line
  PROVE  BlobsOf(Append(s, x)) \subseteq BlobsOf(s) \cup ({x.entry.new} \ {NoBlob})
<1> SUFFICES ASSUME NEW i \in 1..Len(Append(s, x))
             PROVE  Append(s, x)[i].entry.new
                      \in {s[j].entry.new : j \in 1..Len(s)} \cup {x.entry.new}
  BY DEF BlobsOf
<1>1. CASE i <= Len(s)
  BY <1>1
<1>2. CASE i = Len(s) + 1
  BY <1>2
<1> QED BY <1>1, <1>2

\* A step that removes nothing from the pool and leaves a process alone
\* leaves that process's blobs pooled.
LEMMA UntouchedPool ==
  ASSUME NEW q \in Procs, PoolLocal(q), Untouched(q),
         Present \subseteq Present', synced \subseteq synced'
  PROVE  PoolLocal(q)'
BY DEF PoolLocal, Untouched

\* Pooling adds the blob, removes none and tears none.
LEMMA PooledGrows ==
  ASSUME TypeOK, NEW b \in Blobs \cup {NoBlob}, blob' = Pooled(b)
  PROVE  /\ Present \subseteq Present' /\ b \in Present' \cup {NoBlob}
         /\ (\A c \in Blobs : blob[c] # "torn") =>
              \A c \in Blobs : blob'[c] # "torn"
BY DEF TypeOK, Pooled, Present

\* Initially nothing is pooled and nothing is named.
LEMMA PoolInit == Init /\ "gc" \notin Kinds => PoolInv
BY LooseAssumption DEF Init, PoolInv, PoolLocal, BlobsOf, Present

\* What one action of process p does to the file, the pool and p's lines.
LEMMA PoolStep ==
  ASSUME "gc" \notin Kinds, TypeInv, TypeInv', PoolInv, NEW p \in Procs,
         (\E kind \in Kinds : Start(p, kind)) \/ Step(p) \/ Kill(p)
  PROVE  PoolInv'
<1> USE DEF TypeInv, TypeOK, PoolInv, file, pool, history, past, Goto
<1>0. \A q \in Procs \ {p} : Untouched(q)
  BY Others
<1>a. ASSUME Present \subseteq Present', synced \subseteq synced', PoolLocal(p)',
             \A b \in Blobs : blob'[b] # "torn", synced' \subseteq Present',
             BlobsOf(lines') \subseteq synced'
      PROVE  PoolInv'
  BY <1>0, <1>a, UntouchedPool
<1>b. ASSUME UNCHANGED pool, UNCHANGED lines, PoolLocal(p)'
      PROVE  PoolInv'
  BY <1>a, <1>b DEF Present
<1>1. CASE \E kind \in Kinds : Start(p, kind)
  <2>1. PoolLocal(p)'
    BY <1>1 DEF Start, PoolLocal, LocalInv, Fresh
  <2> QED BY <1>1, <1>b, <2>1 DEF Start
<1>2. CASE Acquire(p)
  <2>1. PoolLocal(p)'
    BY <1>2 DEF Acquire, PoolLocal
  <2> QED BY <1>2, <1>b, <2>1 DEF Acquire
<1>3. CASE ReadLog(p)
  <2>1. PoolLocal(p)'
    BY <1>3 DEF ReadLog, PoolLocal
  <2> QED BY <1>3, <1>b, <2>1 DEF ReadLog
<1>4. CASE Repair(p)
  <2>1. PoolLocal(p)'
    BY <1>4 DEF Repair, PoolLocal, LocalInv, Fresh
  <2>2. Prefix(lines', lines)
    BY <1>4 DEF Repair, Prefix
  <2>3. BlobsOf(lines') \subseteq synced
    BY <2>2, BlobsOfPrefix
  <2> QED BY <1>4, <1>a, <2>1, <2>3 DEF Repair, Present
<1>5. CASE Fail(p) \/ ReadDone(p) \/ Fsync(p) \/ GcDone(p) \/ Kill(p)
  <2>1. Finish(p) /\ UNCHANGED pool /\ UNCHANGED lines
    BY <1>5 DEF Fail, ReadDone, Fsync, GcDone, Kill
  <2>2. /\ pc'[p] = "idle" /\ job'[p] = "none"
        /\ base'[p] + 1..Len(view'[p]) = {}
    BY <2>1, FinishLocal
  <2>3. PoolLocal(p)'
    BY <2>2 DEF PoolLocal
  <2> QED BY <1>b, <2>1, <2>3
<1>6. ASSUME NEW x \in Paths, NEW b \in Blobs \cup {NoBlob}, Scan(p, x, b)
      PROVE  PoolInv'
  <2>1. PoolLocal(p)'
    BY <1>6 DEF Scan, PoolLocal, LocalInv, Fresh
  <2> QED BY <1>6, <1>a, <2>1, PooledGrows DEF Scan
<1>7. ASSUME NEW a \in Ids, NEW e, Seal(p, a, e), e.new \in Present' \cup {NoBlob},
             Present \subseteq Present', \A b \in Blobs : blob'[b] # "torn"
      PROVE  PoolInv'
  <2>1. /\ view'[p] = Append(view[p], Sealed(a, e, view[p]))
        /\ view[p] \in Seq(Line) /\ base'[p] = base[p] /\ pc'[p] = "loaded"
        /\ pc[p] = "loaded" /\ job'[p] = job[p] /\ lines' = lines
        /\ synced' = synced
    BY <1>7 DEF Seal
  <2>2. Sealed(a, e, view[p]).entry = e
    BY DEF Sealed
  <2>3. ASSUME NEW i \in base[p] + 1..Len(view'[p])
        PROVE  view'[p][i].entry.new \in {NoBlob} \cup Present'
    <3>1. CASE i <= Len(view[p])
      <4>1. i \in base[p] + 1..Len(view[p]) /\ view'[p][i] = view[p][i]
        BY <2>1, <3>1
      <4>2. view[p][i].entry.new \in {NoBlob} \cup Present
        BY <2>1, <4>1 DEF PoolLocal
      <4> QED BY <1>7, <4>1, <4>2
    <3>2. CASE i = Len(view[p]) + 1
      BY <1>7, <2>1, <2>2, <3>2
    <3> QED BY <2>1, <3>1, <3>2
  <2>4. PoolLocal(p)'
    BY <2>1, <2>3 DEF PoolLocal
  <2> QED BY <1>a, <1>7, <2>1, <2>4
<1>8. ASSUME NEW a \in Ids, NEW x \in Paths, NEW b \in Blobs \cup {NoBlob},
             Realize(p, a, x, b)
      PROVE  PoolInv'
  BY <1>7, <1>8, PooledGrows DEF Realize
<1>9. ASSUME NEW a \in Ids, Adjudicate(p, a) PROVE PoolInv'
  BY <1>7, <1>9 DEF Adjudicate, Present
<1>10. CASE SyncBlobs(p)
  <2>1. PoolLocal(p)'
    BY <1>10 DEF SyncBlobs, PoolLocal
  <2> QED BY <1>10, <1>a, <2>1 DEF SyncBlobs, Present
<1>11. CASE Tear(p)
  <2>1. PoolLocal(p)'
    BY <1>11 DEF Tear, PoolLocal
  <2> QED BY <1>11, <1>b, <2>1 DEF Tear
<1>12. CASE Put(p)
  <2>1. PoolLocal(p)'
    BY <1>12 DEF Put, PoolLocal
  <2>2. base[p] + wrote[p] + 1 \in base[p] + 1..Len(view[p])
    BY <1>12 DEF Put, LocalInv, Fresh
  <2>3. PICK x \in Line : /\ x.entry.new \in {NoBlob} \cup synced
                          /\ lines' \in {lines, Append(lines, x)}
    <3>1. view[p][base[p] + wrote[p] + 1] \in Line
      BY <2>2
    <3>2. view[p][base[p] + wrote[p] + 1].entry.new \in {NoBlob} \cup synced
      BY <1>12, <2>2 DEF Put, PoolLocal
    <3> QED BY <1>12, <3>1, <3>2 DEF Put
  <2>4. BlobsOf(Append(lines, x)) \subseteq synced
    BY <2>3, BlobsOfAppend
  <2>5. BlobsOf(lines') \subseteq synced
    BY <2>3, <2>4
  <2> QED BY <1>12, <1>a, <2>1, <2>5 DEF Put, Present
<1>13. CASE GcList(p) \/ \E b \in Blobs : GcRemove(p, b)
  BY <1>13 DEF GcList, GcRemove, PoolLocal
<1> QED BY <1>1, <1>2, <1>3, <1>4, <1>5, <1>6, <1>8, <1>9, <1>10, <1>11, <1>12,
           <1>13 DEF Step

\* A crash keeps every synced blob and a prefix of the log.
LEMMA PoolCrash ==
  ASSUME DelayedAlloc = FALSE, TypeInv, TypeInv', PoolInv, Crash
  PROVE  PoolInv'
<1> USE DEF TypeInv, TypeOK, PoolInv
<1>1. \A b \in Blobs : blob'[b] # "torn"
  BY DEF Crash
<1>2. synced \subseteq synced' /\ synced' \subseteq Present'
  BY DEF Crash, Present
<1>3. Prefix(lines', lines)
  BY DEF Crash, Prefix
<1>4. BlobsOf(lines') \subseteq synced'
  BY <1>2, <1>3, BlobsOfPrefix
<1>5. ASSUME NEW p \in Procs PROVE PoolLocal(p)'
  BY DEF Crash, PoolLocal
<1> QED BY <1>1, <1>2, <1>4, <1>5

\* I8, write-ahead ordering: where nobody collects garbage and a rename never
\* outlives its bytes, every line any command ever puts in the log names a
\* blob that is intact and on the device, whatever readers repair and
\* whatever fails (SyncBlobs before Put).
THEOREM WriteAheadHolds ==
  ASSUME "gc" \notin Kinds, DelayedAlloc = FALSE
  PROVE  Spec => []WriteAhead
<1>1. Init => WriteAheadInv
  BY TypeInit, PoolInit DEF WriteAheadInv
<1>2. WriteAheadInv /\ [Next]_vars => WriteAheadInv'
  <2> SUFFICES ASSUME WriteAheadInv, [Next]_vars PROVE WriteAheadInv'
    OBVIOUS
  <2>0. TypeInv /\ TypeInv' /\ PoolInv
    BY TypeNext DEF WriteAheadInv
  <2>1. PoolInv'
    <3>1. CASE UNCHANGED vars
      BY <2>0, <3>1
         DEF PoolInv, PoolLocal, Present, vars, file, pool, local, history, past
    <3>2. CASE Crash
      BY <2>0, <3>2, PoolCrash
    <3>3. CASE Next /\ ~Crash
      BY <2>0, <3>3, PoolStep DEF Next
    <3> QED BY <3>1, <3>2, <3>3
  <2> QED BY <2>0, <2>1 DEF WriteAheadInv
<1>3. WriteAheadInv => WriteAhead
  BY DEF WriteAheadInv, TypeInv, TypeOK, PoolInv, Present, WriteAhead
<1> QED BY <1>1, <1>2, <1>3, PTL DEF Spec

-----------------------------------------------------------------------------
(* Chains.                                                                 *)

\* A prefix of a chained log is chained: cutting lines off the end, by a
\* crash or a repair, leaves a valid history.
LEMMA ChainedPrefix ==
  ASSUME NEW s \in Seq(Line), NEW t \in Seq(Line), Prefix(s, t), Chained(t)
  PROVE  Chained(s)
<1> SUFFICES ASSUME NEW i \in 1..Len(s)
             PROVE  IF i = 1 THEN Links(s[1], NoId, EmptyManifest)
                    ELSE Links(s[i], s[i - 1].id, s[i - 1].after)
  BY DEF Chained
<1>1. i \in 1..Len(t) /\ t[i] = s[i]
  BY DEF Prefix
<1>2. IF i = 1 THEN Links(t[1], NoId, EmptyManifest)
      ELSE Links(t[i], t[i - 1].id, t[i - 1].after)
  BY <1>1 DEF Chained
<1>3. CASE i = 1
  BY <1>1, <1>2, <1>3
<1>4. CASE i # 1
  <2>1. i - 1 \in 1..Len(s)
    BY <1>4
  <2>2. t[i - 1] = s[i - 1]
    BY <2>1 DEF Prefix
  <2> QED BY <1>1, <1>2, <1>4, <2>2
<1> QED BY <1>3, <1>4

\* A line sealed onto a chained log extends the chain (LogLine::seal).
LEMMA ChainedSeal ==
  ASSUME NEW l \in Seq(Line), NEW a \in Ids, NEW e \in Entry,
         Chained(l), Applies(State(l), e)
  PROVE  Chained(Append(l, Sealed(a, e, l)))
<1> DEFINE x == Sealed(a, e, l)
           t == Append(l, x)
<1>1. x \in Line
  BY SealedType
<1>2. /\ Len(t) = Len(l) + 1 /\ t[Len(l) + 1] = x
      /\ \A i \in 1..Len(l) : t[i] = l[i]
  BY <1>1
<1>3. Links(x, HeadId(l), State(l))
  BY DEF Links, Sealed
<1> SUFFICES ASSUME NEW i \in 1..Len(t)
             PROVE  IF i = 1 THEN Links(t[1], NoId, EmptyManifest)
                             ELSE Links(t[i], t[i - 1].id, t[i - 1].after)
  BY DEF Chained
<1> HIDE DEF t, x
<1>4. CASE i <= Len(l)
  BY <1>2, <1>4 DEF Chained
<1>5. CASE i = Len(l) + 1
  <2>1. CASE l = <<>>
    BY <1>2, <1>3, <1>5, <2>1 DEF HeadId, State
  <2>2. CASE l # <<>>
    <3>1. Len(l) \in 1..Len(l)
      BY <2>2
    <3>2. t[i - 1] = l[Len(l)] /\ t[i] = x /\ i # 1
      BY <1>2, <1>5, <3>1
    <3> QED BY <1>3, <2>2, <3>2 DEF HeadId, State
  <2> QED BY <2>1, <2>2
<1> QED BY <1>2, <1>4, <1>5

\* The first n lines of a log, one by one.
LEMMA CutLines ==
  ASSUME NEW l \in Seq(Line), NEW n \in 0..Len(l)
  PROVE  /\ SubSeq(l, 1, n) \in Seq(Line) /\ Len(SubSeq(l, 1, n)) = n
         /\ \A i \in 1..n : SubSeq(l, 1, n)[i] = l[i]
         /\ IdsOf(SubSeq(l, 1, n)) = {l[i].id : i \in 1..n}
<1>1. /\ SubSeq(l, 1, n) \in Seq(Line) /\ Len(SubSeq(l, 1, n)) = n
      /\ \A i \in 1..n : SubSeq(l, 1, n)[i] = l[i]
  OBVIOUS
<1> QED BY <1>1 DEF IdsOf

-----------------------------------------------------------------------------
(* What one step does to the file.                                         *)

\* The committed lines stay where they are.
Grows == durable <= durable' /\ \A i \in 1..durable : lines'[i] = lines[i]

\* If the committed lines stay, the committed log is a prefix of the next and
\* keeps its ids.
LEMMA GrowsPrefix ==
  ASSUME TypeOK, TypeOK', Grows
  PROVE  /\ Prefix(Committed, Committed')
         /\ IdsOf(Committed) \subseteq IdsOf(Committed')
<1>1. /\ durable \in 0..Len(lines) /\ lines \in Seq(Line)
      /\ durable' \in 0..Len(lines') /\ lines' \in Seq(Line)
  BY DEF TypeOK
<1>2. /\ Len(Committed) = durable
      /\ \A i \in 1..durable : Committed[i] = lines[i]
      /\ IdsOf(Committed) = {lines[i].id : i \in 1..durable}
  BY <1>1, CutLines DEF Committed
<1>3. /\ Len(Committed') = durable'
      /\ \A i \in 1..durable' : Committed'[i] = lines'[i]
      /\ IdsOf(Committed') = {lines'[i].id : i \in 1..durable'}
  BY <1>1, CutLines DEF Committed
<1>4. \A i \in 1..durable : i \in 1..durable' /\ lines'[i] = lines[i]
  BY <1>1 DEF Grows
<1> QED BY <1>1, <1>2, <1>3, <1>4 DEF Grows, Prefix

\* Steps that leave the file, the acknowledgements and every repair alone.
Aside == UNCHANGED file /\ UNCHANGED acked

\* Such a step keeps what is said of the file, whoever holds the lock.
LEMMA AsideKeeps ==
  ASSUME TypeOK, LogInv, Aside
  PROVE  ChainIntact' /\ AckedDurable' /\ Grows
BY DEF TypeOK, LogInv, Aside, file, ChainIntact, AckedDurable, Committed, Grows

\* A holder the step leaves alone, over a file it leaves alone, stays exact.
LEMMA UntouchedHolder ==
  ASSUME NEW q \in Procs, HolderInv(q), Untouched(q), UNCHANGED file
  PROVE  HolderInv(q)'
BY DEF HolderInv, Untouched, file

\* A repair that cuts nothing but the torn bytes its own load saw.
LEMMA FaithfulRepair ==
  ASSUME TypeInv, NEW p \in Procs, Repair(p), ~cut'
  PROVE  /\ ~cut /\ view[p] = lines /\ lines' = lines /\ tail' = "clean"
         /\ durable' = Len(lines)
<1>1. ~cut /\ view[p] = lines
  BY DEF Repair
<1>2. Prefix(view[p], lines)
  BY <1>1 DEF Prefix, TypeInv, TypeOK
<1> QED BY <1>1, <1>2 DEF Repair

\* A process that is appending holds the lock.
LEMMA WriterHolds ==
  ASSUME TypeInv, NEW p \in Procs,
         pc[p] \in {"append", "writing", "tearing", "fsync"}
  PROVE  lock = p
<1>1. Len(view[p]) \in Nat /\ base[p] \in Nat /\ wrote[p] \in Nat
  BY DEF TypeInv, TypeOK
<1> QED BY <1>1 DEF TypeInv, LocalInv, Fresh

\* What the lock's holder loaded and sealed stays what the file holds, the
\* file stays loadable and keeps what was told, and committed lines stay.
LEMMA HolderStep ==
  ASSUME TypeInv, TypeInv', LogInv, ~cut', NEW p \in Procs,
         (\E kind \in Kinds : Start(p, kind)) \/ Step(p) \/ Kill(p)
  PROVE  ChainIntact' /\ AckedDurable' /\ Grows /\ \A q \in Procs : HolderInv(q)'
<1> USE DEF TypeInv, TypeOK, file, pool, history, past, Goto
<1>0. \A q \in Procs \ {p} : Untouched(q)
  BY Others
<1>a. ASSUME Aside, HolderInv(p)'
      PROVE  ChainIntact' /\ AckedDurable' /\ Grows
             /\ \A q \in Procs : HolderInv(q)'
  BY <1>0, <1>a, AsideKeeps, UntouchedHolder DEF Aside, LogInv
<1>b. ASSUME lock = p, HolderInv(p)'
      PROVE  \A q \in Procs : HolderInv(q)'
  BY <1>0, <1>b DEF Untouched, HolderInv
<1>1. CASE \E kind \in Kinds : Start(p, kind)
  <2>1. HolderInv(p)'
    BY <1>1 DEF Start, HolderInv, LocalInv, Critical
  <2> QED BY <1>1, <1>a, <2>1 DEF Start, Aside
<1>2. CASE Acquire(p)
  <2>1. HolderInv(p)'
    BY <1>2 DEF Acquire, HolderInv
  <2> QED BY <1>2, <1>a, <2>1 DEF Acquire, Aside
<1>3. CASE ReadLog(p)
  <2>1. /\ view'[p] = lines /\ base'[p] = Len(lines) /\ wrote'[p] = 0
        /\ pc'[p] = "loaded" => tail = "clean"
    BY <1>3 DEF ReadLog, LocalInv
  <2>2. HolderInv(p)'
    BY <1>3, <2>1 DEF ReadLog, HolderInv, LogInv, ChainIntact
  <2> QED BY <1>3, <1>a, <2>2 DEF ReadLog, Aside
<1>4. CASE Repair(p)
  <2>1. /\ lines' = lines /\ view[p] = lines /\ tail' = "clean"
        /\ durable' = Len(lines)
    BY <1>4, FaithfulRepair
  <2>2. ASSUME NEW q \in Procs PROVE HolderInv(q)'
    <3>1. /\ view'[q] = view[q] /\ base'[q] = base[q] /\ wrote'[q] = wrote[q]
          /\ lock' = lock /\ (pc'[q] # "load" => pc[q] # "load")
      BY <1>4 DEF Repair
    <3> QED BY <2>1, <3>1 DEF HolderInv, LogInv
  <2>3. Grows
    BY <2>1 DEF Grows
  <2>4. AckedDurable'
    BY <1>4, <2>3, GrowsPrefix DEF Repair, LogInv, AckedDurable
  <2>5. ChainIntact'
    BY <2>1 DEF LogInv, ChainIntact
  <2> QED BY <2>2, <2>3, <2>4, <2>5
<1>5. CASE Fail(p) \/ ReadDone(p) \/ GcDone(p) \/ Kill(p)
  <2>1. Finish(p) /\ Aside
    BY <1>5 DEF Fail, ReadDone, GcDone, Kill, Aside
  <2>2. HolderInv(p)'
    BY <2>1, FinishLocal DEF HolderInv
  <2> QED BY <1>a, <2>1, <2>2
<1>6. ASSUME NEW x \in Paths, NEW b \in Blobs \cup {NoBlob}, Scan(p, x, b)
      PROVE  Aside /\ HolderInv(p)'
  BY <1>6 DEF Scan, Aside, HolderInv
<1>7. ASSUME NEW a \in Ids, NEW e \in Entry, Seal(p, a, e)
      PROVE  Aside /\ HolderInv(p)'
  <2>1. /\ pc[p] = "loaded" /\ lock = p /\ pc'[p] = "loaded"
        /\ view'[p] = Append(view[p], Sealed(a, e, view[p]))
        /\ base'[p] = base[p] /\ wrote'[p] = wrote[p]
        /\ lines' = lines /\ tail' = tail
    BY <1>7 DEF Seal
  <2>2. Chained(view'[p])
    BY <1>7, <2>1, ChainedSeal DEF Seal
  <2>3. /\ Len(lines) = base[p] + wrote[p] /\ wrote[p] = 0 /\ tail = "clean"
        /\ \A i \in 1..Len(lines) : lines[i] = view[p][i]
        /\ base[p] <= Len(view[p])
    BY <2>1 DEF LogInv, HolderInv, LocalInv
  <2>4. Sealed(a, e, view[p]) \in Line
    BY SealedType
  <2>5. \A i \in 1..Len(lines) : view'[p][i] = view[p][i]
    BY <2>1, <2>3, <2>4
  <2>6. HolderInv(p)'
    BY <2>1, <2>2, <2>3, <2>5 DEF HolderInv
  <2> QED BY <1>7, <2>6 DEF Seal, Aside
<1>8. ASSUME NEW a \in Ids, NEW x \in Paths, NEW b \in Blobs \cup {NoBlob},
             Realize(p, a, x, b)
      PROVE  Aside /\ HolderInv(p)'
  <2>1. [path |-> x, old |-> State(view[p])[x], new |-> b] \in Entry
    BY TipType DEF Entry, Manifest
  <2> QED BY <1>7, <1>8, <2>1 DEF Realize
<1>9. ASSUME NEW a \in Ids, Adjudicate(p, a) PROVE Aside /\ HolderInv(p)'
  <2>1. delta[p] \in Entry
    BY <1>9 DEF Adjudicate, Seal, LocalInv
  <2> QED BY <1>7, <1>9, <2>1 DEF Adjudicate
<1>10. CASE SyncBlobs(p)
  <2>1. lock = p
    BY <1>10 DEF SyncBlobs, LocalInv
  <2>2. HolderInv(p)'
    BY <1>10, <2>1 DEF SyncBlobs, HolderInv, LogInv
  <2> QED BY <1>10, <1>a, <2>2 DEF SyncBlobs, Aside
<1>11. CASE Tear(p)
  <2>1. lock = p
    BY <1>11, WriterHolds DEF Tear
  <2>2. HolderInv(p)'
    BY <1>11, <2>1 DEF Tear, HolderInv, LogInv
  <2>3. ChainIntact' /\ Grows /\ Committed' = Committed
    BY <1>11 DEF Tear, LogInv, ChainIntact, Grows, Committed
  <2>4. AckedDurable'
    BY <1>11, <2>3 DEF Tear, LogInv, AckedDurable
  <2> QED BY <1>b, <2>1, <2>2, <2>3, <2>4
<1>12. CASE Put(p)
  <2> DEFINE k == base[p] + wrote[p] + 1
  <2>1. lock = p /\ pc[p] \in {"append", "writing", "tearing"}
    BY <1>12, WriterHolds DEF Put
  <2>2. /\ k \in 1..Len(view[p]) /\ Len(lines) = k - 1 /\ Chained(view[p])
        /\ \A i \in 1..Len(lines) : lines[i] = view[p][i]
        /\ pc[p] # "tearing" => tail = "clean"
    BY <1>12, <2>1 DEF LogInv, HolderInv, LocalInv, Fresh
  <2>3. view[p][k] \in Line
    BY <2>2
  <2>4. lines' = Append(lines, view[p][k]) /\ tail' = "clean"
    BY <1>12, <2>2 DEF Put
  <2>a. /\ Len(lines') = Len(lines) + 1
        /\ lines'[Len(lines) + 1] = view[p][k]
        /\ \A i \in 1..Len(lines) : lines'[i] = lines[i]
    BY <2>3, <2>4
  <2>b. Len(lines) + 1 = k /\ k \in Nat
    BY <2>2
  <2> HIDE DEF k
  <2>5. /\ Len(lines') = k
        /\ \A i \in 1..k : lines'[i] = view[p][i]
    <3>1. \A i \in 1..k : i \in 1..Len(lines) \/ i = k
      BY <2>b
    <3> QED BY <2>2, <2>a, <2>b, <3>1
  <2>6. Prefix(lines', view[p])
    BY <2>2, <2>5 DEF Prefix
  <2>7. ChainIntact'
    BY <2>2, <2>4, <2>6, ChainedPrefix DEF ChainIntact
  <2>8. /\ view'[p] = view[p] /\ base'[p] = base[p] /\ wrote'[p] = wrote[p] + 1
        /\ durable' = durable /\ acked' = acked
    BY <1>12 DEF Put
  <2>c. k = base[p] + wrote[p] + 1
    BY DEF k
  <2>d. base[p] \in Nat /\ wrote[p] \in Nat /\ durable \in 0..Len(lines)
    OBVIOUS
  <2>e. Len(lines') = base'[p] + wrote'[p]
    BY <2>5, <2>8, <2>c, <2>d
  <2>9. HolderInv(p)'
    BY <2>2, <2>4, <2>5, <2>8, <2>e DEF HolderInv
  <2>10. Grows
    <3>1. \A i \in 1..durable : i \in 1..Len(lines)
      BY <2>d
    <3> QED BY <2>8, <2>a, <2>d, <3>1 DEF Grows
  <2>11. AckedDurable'
    BY <2>8, <2>10, GrowsPrefix DEF LogInv, AckedDurable
  <2> QED BY <1>b, <2>1, <2>7, <2>9, <2>10, <2>11
<1>13. CASE Fsync(p)
  <2>1. lock = p /\ pc[p] = "fsync"
    BY <1>13 DEF Fsync, LocalInv
  <2>2. /\ Len(lines) = Len(view[p]) /\ base[p] \in Nat
        /\ \A i \in 1..Len(lines) : lines[i] = view[p][i]
    BY <2>1 DEF LogInv, HolderInv, LocalInv, Fresh
  <2>3. HolderInv(p)'
    BY <1>13, FinishLocal DEF Fsync, HolderInv
  <2>4. lines' = lines /\ tail' = tail /\ durable' = Len(lines)
    BY <1>13 DEF Fsync
  <2>5. ChainIntact' /\ Grows
    BY <2>4 DEF LogInv, ChainIntact, Grows
  <2>6. IdsOf(Committed') = {lines[i].id : i \in 1..Len(lines)}
    BY <2>4, CutLines DEF Committed
  <2>7. FreshIds(p) \subseteq IdsOf(Committed')
    <3>1. ASSUME NEW i \in base[p] + 1..Len(view[p])
          PROVE  view[p][i].id \in IdsOf(Committed')
      <4>0. Len(view[p]) \in Nat
        OBVIOUS
      <4>a. i \in 1..Len(lines)
        BY <2>2, <4>0
      <4>1. i \in 1..Len(lines) /\ lines[i] = view[p][i]
        BY <2>2, <4>a
      <4> QED BY <2>6, <4>1
    <3> QED BY <3>1 DEF FreshIds
  <2>8. acked \subseteq IdsOf(Committed')
    BY <2>5, GrowsPrefix DEF LogInv, AckedDurable
  <2>9. AckedDurable'
    BY <1>13, <2>7, <2>8 DEF Fsync, AckedDurable
  <2> QED BY <1>b, <2>1, <2>3, <2>5, <2>9
<1>14. CASE GcList(p)
  <2>1. HolderInv(p)'
    BY <1>14 DEF GcList, HolderInv, LocalInv
  <2> QED BY <1>14, <1>a, <2>1 DEF GcList, Aside
<1>15. ASSUME NEW b \in Blobs, GcRemove(p, b) PROVE Aside /\ HolderInv(p)'
  <2>1. Untouched(p) /\ Aside
    BY <1>15 DEF GcRemove, Untouched, Aside
  <2> QED BY <2>1, UntouchedHolder DEF Aside, LogInv
<1> QED BY <1>a, <1>1, <1>2, <1>3, <1>4, <1>5, <1>6, <1>8, <1>9, <1>10, <1>11,
           <1>12, <1>13, <1>14, <1>15 DEF Step

\* A crash cuts only lines no fsync covered.
LEMMA CrashStep ==
  ASSUME TypeInv, TypeInv', LogInv, Crash
  PROVE  LogInv' /\ Grows
<1> USE DEF TypeInv, TypeOK, history, past
<1>1. PICK n \in durable..Len(lines) : lines' = SubSeq(lines, 1, n) /\ durable' = n
  BY DEF Crash
<1>2. n \in 0..Len(lines)
  BY <1>1
<1>3. /\ lines' \in Seq(Line) /\ Len(lines') = n
      /\ \A i \in 1..n : lines'[i] = lines[i]
  BY <1>1, <1>2, CutLines
<1>4. Grows
  BY <1>1, <1>2, <1>3 DEF Grows
<1>5. AckedDurable'
  BY <1>4, GrowsPrefix DEF Crash, LogInv, AckedDurable
<1>6. Prefix(lines', lines)
  <2>1. Len(lines) \in Nat
    OBVIOUS
  <2> QED BY ONLY <1>2, <1>3, <2>1 DEF Prefix
<1>7. ChainIntact'
  BY <1>3, <1>6, ChainedPrefix DEF Crash, LogInv, ChainIntact
<1>8. \A p \in Procs : HolderInv(p)'
  BY LooseAssumption DEF Crash, HolderInv
<1> QED BY <1>4, <1>5, <1>7, <1>8 DEF LogInv

\* Only a repair sets cut, and nothing resets it.
LEMMA CutStays ==
  ASSUME [Next]_vars
  PROVE  /\ cut => cut'
         /\ cut' # cut => \E p \in Procs : Repair(p)
<1> USE DEF history
<1>1. ASSUME NEW p \in Procs,
             (\E kind \in Kinds : Start(p, kind)) \/ Step(p) \/ Kill(p)
      PROVE  (cut => cut') /\ (cut' # cut => Repair(p))
  <2>1. CASE \/ \E a \in Ids, x \in Paths, b \in Blobs \cup {NoBlob} :
                  Realize(p, a, x, b)
             \/ \E a \in Ids : Adjudicate(p, a)
    <3>1. ASSUME NEW a \in Ids, NEW e, Seal(p, a, e) PROVE cut' = cut
      BY <3>1 DEF Seal
    <3>2. cut' = cut
      BY <2>1, <3>1 DEF Realize, Adjudicate
    <3> QED BY <3>2
  <2>2. CASE \/ \E x \in Paths, b \in Blobs \cup {NoBlob} : Scan(p, x, b)
             \/ \E b \in Blobs : GcRemove(p, b)
             \/ \E kind \in Kinds : Start(p, kind)
    BY <2>2 DEF Scan, GcRemove, Start
  <2>3. CASE Fail(p) \/ ReadDone(p) \/ Fsync(p) \/ GcDone(p) \/ Kill(p)
    BY <2>3 DEF Fail, ReadDone, Fsync, GcDone, Kill
  <2>4. CASE Acquire(p) \/ ReadLog(p)
    BY <2>4 DEF Acquire, ReadLog
  <2>5. CASE Repair(p)
    BY <2>5 DEF Repair
  <2>6. CASE SyncBlobs(p) \/ Tear(p) \/ Put(p) \/ GcList(p)
    BY <2>6 DEF SyncBlobs, Tear, Put, GcList
  <2> QED BY <1>1, <2>1, <2>2, <2>3, <2>4, <2>5, <2>6 DEF Step
<1>2. Crash => cut' = cut
  BY DEF Crash
<1>3. UNCHANGED vars => cut' = cut
  BY DEF vars
<1> QED BY <1>1, <1>2, <1>3 DEF Next

\* The empty log is safe.
LEMMA SafeInit == Init => SafeInv
<1> SUFFICES ASSUME Init PROVE LogInv
  BY TypeInit DEF SafeInv
<1>1. lines = <<>> /\ tail = "clean" /\ durable = 0 /\ acked = {}
  BY DEF Init
<1>2. ChainIntact /\ AckedDurable
  BY <1>1 DEF ChainIntact, Chained, AckedDurable
<1>3. \A p \in Procs : HolderInv(p)
  BY <1>1, LooseAssumption DEF Init, HolderInv
<1> QED BY <1>2, <1>3 DEF LogInv

\* SafeInv is inductive, and a step that leaves the file uncut keeps the
\* committed lines.
LEMMA SafeNext ==
  ASSUME SafeInv, [Next]_vars
  PROVE  SafeInv' /\ (~cut' => Grows)
<1>0. TypeInv /\ TypeInv'
  BY TypeNext DEF SafeInv
<1>1. CASE cut'
  BY <1>0, <1>1 DEF SafeInv
<1>2. CASE ~cut'
  <2>1. LogInv
    BY <1>2, CutStays DEF SafeInv
  <2>2. CASE UNCHANGED vars
    <3>1. LogInv'
      BY <2>1, <2>2
         DEF LogInv, ChainIntact, AckedDurable, Committed, HolderInv, vars, file,
             local, history, past
    <3>2. Grows
      BY <1>0, <2>2 DEF TypeInv, TypeOK, Grows, vars, file
    <3> QED BY <1>0, <3>1, <3>2 DEF SafeInv
  <2>3. CASE Crash
    BY <1>0, <2>1, <2>3, CrashStep DEF SafeInv
  <2>4. CASE Next /\ ~Crash
    BY <1>0, <1>2, <2>1, <2>4, HolderStep DEF Next, SafeInv, LogInv
  <2> QED BY <2>2, <2>3, <2>4
<1> QED BY <1>1, <1>2

\* Where every command locks before it reads, only the lock's holder loads or
\* repairs, and what it loaded is what the file holds: no repair cuts more.
LEMMA LockedNext ==
  ASSUME LockedOnly, SafeInv, LockedInv, [Next]_vars
  PROVE  LockedInv'
<1> USE DEF TypeInv, TypeOK, file, pool, history, past, Goto
<1>0. TypeInv /\ LogInv
  BY DEF SafeInv, LockedInv
<1>1. ~cut'
  <2>1. ASSUME NEW p \in Procs, Repair(p) PROVE ~cut'
    <3>1. lock = p /\ pc[p] = "repair"
      BY <2>1 DEF LockedInv, Repair
    <3>2. /\ Len(lines) = base[p] + wrote[p] /\ wrote[p] = 0
          /\ Len(view[p]) = base[p]
          /\ \A i \in 1..Len(lines) : lines[i] = view[p][i]
      BY <1>0, <3>1 DEF LogInv, HolderInv, LocalInv, Fresh
    <3>a. lines \in Seq(Line) /\ view[p] \in Seq(Line) /\ Len(view[p]) = Len(lines)
      BY <1>0, <3>2
    <3>3. view[p] = lines
      BY ONLY <3>2, <3>a
    <3> QED BY <2>1, <3>3 DEF LockedInv, Repair
  <2> QED BY <2>1, CutStays DEF LockedInv
<1>2. ASSUME NEW q \in Procs, pc'[q] \in {"load", "repair"} PROVE lock' = q
  <2>1. CASE UNCHANGED vars
    BY <1>2, <2>1 DEF vars, local, LockedInv
  <2>2. CASE Crash
    BY <1>2, <2>2 DEF Crash
  <2>3. ASSUME NEW p \in Procs,
               (\E kind \in Kinds : Start(p, kind)) \/ Step(p) \/ Kill(p)
        PROVE  lock' = q
    <3>1. CASE q # p
      <4>1. Untouched(q)
        BY <1>0, <2>3, <3>1, Others
      <4> QED BY <1>2, <4>1 DEF Untouched, LockedInv
    <3>2. CASE q = p
      <4>1. (\E kind \in Kinds : Start(p, kind)) \/ Acquire(p) \/ ReadLog(p)
        BY <1>0, <1>2, <2>3, <3>2, FinishLocal
           DEF Step, Repair, Fail, ReadDone, Fsync, GcDone, Kill, Scan, Realize,
               Adjudicate, Seal, SyncBlobs, Tear, Put, GcList, GcRemove
      <4>2. CASE \E kind \in Kinds : Start(p, kind)
        BY <1>0, <1>2, <3>2, <4>2 DEF Start, LockedOnly
      <4>3. CASE Acquire(p)
        BY <1>0, <3>2, <4>3 DEF Acquire
      <4>4. CASE ReadLog(p)
        BY <1>0, <3>2, <4>4 DEF ReadLog, LockedInv
      <4> QED BY <4>1, <4>2, <4>3, <4>4
    <3> QED BY <3>1, <3>2
  <2> QED BY <2>1, <2>2, <2>3 DEF Next
<1> QED BY <1>1, <1>2 DEF LockedInv

\* At first nothing is loaded and nothing was cut.
LEMMA LockedInit == Init => LockedInv
BY DEF Init, LockedInv

-----------------------------------------------------------------------------
(* Theorems.                                                               *)

\* Whatever commands run and whatever fails, the log loads and holds what
\* was acknowledged until a repair cuts a file that is no longer as the
\* repairing process read it (read_log, the first half of commit).
THEOREM SoundUntilReaderCuts == Spec => []SoundUntilCut
<1>1. SafeInv /\ [Next]_vars => SafeInv'
  BY SafeNext
<1>2. SafeInv => SoundUntilCut
  BY DEF SafeInv, LogInv, SoundUntilCut
<1> QED BY SafeInit, <1>1, <1>2, PTL DEF Spec

\* I3: until then no step of any command and no fault rewrites a committed
\* line.
THEOREM NothingElseRewrites == Spec => OnlyCutsRewrite
<1>1. SafeInv /\ [Next]_vars => SafeInv'
  BY SafeNext
<1>2. SafeInv /\ [Next]_vars => cut' \/ Prefix(Committed, Committed')
  <2> SUFFICES ASSUME SafeInv, [Next]_vars, ~cut'
               PROVE  Prefix(Committed, Committed')
    OBVIOUS
  <2>1. TypeOK /\ TypeOK' /\ Grows
    BY SafeNext DEF SafeInv, TypeInv
  <2> QED BY <2>1, GrowsPrefix
<1> QED BY SafeInit, <1>1, <1>2, PTL DEF Spec, OnlyCutsRewrite

\* Where every command locks before it reads, no repair cuts a changed file.
LEMMA LockedSafe ==
  ASSUME LockedOnly
  PROVE  Spec => [](SafeInv /\ LockedInv)
<1>1. SafeInv /\ [Next]_vars => SafeInv'
  BY SafeNext
<1>2. SafeInv /\ LockedInv /\ [Next]_vars => LockedInv'
  BY LockedNext
<1> QED BY SafeInit, LockedInit, <1>1, <1>2, PTL DEF Spec

\* There the fork stays loadable: no interleaving of commands, kills and
\* crashes leaves a log that read_log or current_state rejects.
THEOREM StaysLoadable ==
  ASSUME LockedOnly
  PROVE  Spec => []ChainIntact
<1>1. SafeInv /\ LockedInv => ChainIntact
  BY DEF SafeInv, LogInv, LockedInv
<1> QED BY LockedSafe, <1>1, PTL

\* There a line whose command returned Ok survives every later command, kill
\* and crash (apply_inner step 5, the linearization point).
THEOREM AckedStaysDurable ==
  ASSUME LockedOnly
  PROVE  Spec => []AckedDurable
<1>1. SafeInv /\ LockedInv => AckedDurable
  BY DEF SafeInv, LogInv, LockedInv
<1> QED BY LockedSafe, <1>1, PTL

\* Commands are only ever told more, never less.
LEMMA AckedGrows == [Next]_vars => acked \subseteq acked'
<1> USE DEF history, past
<1>1. ASSUME NEW p \in Procs,
             (\E kind \in Kinds : Start(p, kind)) \/ Step(p) \/ Kill(p)
      PROVE  acked \subseteq acked'
  <2>1. CASE \/ \E a \in Ids, x \in Paths, b \in Blobs \cup {NoBlob} :
                  Realize(p, a, x, b)
             \/ \E a \in Ids : Adjudicate(p, a)
    BY <2>1 DEF Realize, Adjudicate, Seal
  <2>2. CASE \/ \E x \in Paths, b \in Blobs \cup {NoBlob} : Scan(p, x, b)
             \/ \E b \in Blobs : GcRemove(p, b)
             \/ \E kind \in Kinds : Start(p, kind)
    BY <2>2 DEF Scan, GcRemove, Start
  <2>3. CASE Fail(p) \/ ReadDone(p) \/ Fsync(p) \/ GcDone(p) \/ Kill(p)
    BY <2>3 DEF Fail, ReadDone, Fsync, GcDone, Kill
  <2>4. CASE Acquire(p) \/ ReadLog(p) \/ Repair(p)
    BY <2>4 DEF Acquire, ReadLog, Repair
  <2>5. CASE SyncBlobs(p) \/ Tear(p) \/ Put(p) \/ GcList(p)
    BY <2>5 DEF SyncBlobs, Tear, Put, GcList
  <2> QED BY <1>1, <2>1, <2>2, <2>3, <2>4, <2>5 DEF Step
<1>2. Crash => acked \subseteq acked'
  BY DEF Crash
<1>3. UNCHANGED vars => acked \subseteq acked'
  BY DEF vars
<1> QED BY <1>1, <1>2, <1>3 DEF Next

\* There the log implements CommittedLog: each step of the system calls is a
\* step of the abstract log, or leaves it alone.
THEOREM ImplementsCommittedLog ==
  ASSUME LockedOnly
  PROVE  Spec => KeepsPromise
<1>1. SafeInv /\ LockedInv /\ [Next]_vars => SafeInv' /\ LockedInv'
  BY SafeNext, LockedNext
<1>2. Init => Promise!Init
  BY DEF Init, Promise!Init, Committed
<1>3. SafeInv /\ LockedInv /\ [Next]_vars => Promise!Land
  <2> SUFFICES ASSUME SafeInv, LockedInv, [Next]_vars PROVE Promise!Land
    OBVIOUS
  <2>0. SafeInv' /\ LockedInv'
    BY <1>1
  <2>1. LogInv' /\ TypeOK /\ TypeOK' /\ Grows
    BY <2>0, SafeNext DEF SafeInv, TypeInv, LockedInv
  <2>2. Prefix(Committed, Committed')
    BY <2>1, GrowsPrefix
  <2>3. Committed' \in Seq(Line) /\ Prefix(Committed', lines')
    <3>1. lines' \in Seq(Line) /\ durable' \in 0..Len(lines')
      BY <2>1 DEF TypeOK
    <3>2. /\ Committed' \in Seq(Line) /\ Len(Committed') = durable'
          /\ \A i \in 1..durable' : Committed'[i] = lines'[i]
      BY <3>1, CutLines DEF Committed
    <3> QED BY <3>1, <3>2 DEF Prefix
  <2>4. lines' \in Seq(Line) /\ Chained(lines')
    BY <2>1 DEF TypeOK, LogInv, ChainIntact
  <2>5. Chained(Committed')
    BY <2>3, <2>4, ChainedPrefix
  <2>6. acked \subseteq acked' /\ acked' \subseteq IdsOf(Committed')
    BY <2>1, AckedGrows DEF LogInv, AckedDurable
  <2> QED BY <2>2, <2>5, <2>6
     DEF Promise!Land, Promise!Prefix, Promise!Chained, Promise!Links,
         Promise!EmptyManifest, Promise!Applies, Promise!Result,
         Promise!IdsOf, Prefix, Chained, Links, EmptyManifest, Applies,
         Result, IdsOf
<1> QED BY SafeInit, LockedInit, <1>1, <1>2, <1>3, PTL
        DEF Spec, KeepsPromise, Promise!Spec
=============================================================================
