----------------------------- MODULE ForkFiles -----------------------------
(***************************************************************************)
(* The files of a fork (src/src/repo.rs): a directory that holds a fork    *)
(* file (the state the fork is anchored at), a log and a lock, beside a    *)
(* pool of anchor manifests that all forks share.  Forks are created,      *)
(* anchored anew, removed and appended to by processes that may die        *)
(* between any two steps, inside fs::write too; only appends and snapshots *)
(* hold the lock while they work.                                          *)
(*                                                                         *)
(* What one append does to a log and to the device is the business of      *)
(* LooseLog: here it is a step.                                            *)
(***************************************************************************)
EXTENDS Naturals, Sequences, SequencesExt

CONSTANTS
  Forks, Main,
  Procs,
  Absent, Torn, \* no file; a file truncated and not yet written
  NoJob,
  MaxLines,     \* lines ever written
  MaxBirths,    \* how often one name is created
  MaxKills,
  Reuse         \* commands start on names two commands clashed on

VARIABLES
  dir,   \* the forks whose directory exists
  born,  \* how often each was created: a lock belongs to one directory
  file,  \* the fork file: a state, Torn or Absent
  log,   \* the log, or Absent
  pool,  \* the anchor manifests: for each state "none", "torn" or "whole"
  locks, \* who holds the lock of which directory
  job,   \* what each process is doing
  used,  \* lines written
  kills,
  made,  \* history: forks whose creation returned Ok and was not undone
  acked, \* history: lines whose append returned Ok, but for forced removals
  halfFork,   \* history: forks whose file was being written when its writer died
  halfAnchor, \* history: states whose manifest was
  raced       \* history: names two processes clashed on (Clash)

\* No guard reads a history variable, but for the bound Reuse.
disk == <<dir, born, file, log, pool>>
half == <<halfFork, halfAnchor>>
past == <<used, kills, made, acked, half>>
vars == <<disk, locks, job, past, raced>>

-----------------------------------------------------------------------------
(* A state is the set of the lines it includes.                            *)

State == SUBSET (1..MaxLines)
Line == [id : 1..MaxLines, after : State]

Commands == {"ensure", "fork", "apply", "snapshot", "remove", "force"}
Steps == {"derive", "pool", "fill", "absent", "mkdir", "file", "written", "log",
          "lock", "acquire", "load", "append", "check", "delete"}
Job == [cmd : Commands, fork : Forks, from : Forks, state : State,
        born : Nat, pc : Steps]

ASSUME FilesAssumption ==
  /\ Main \in Forks /\ NoJob \notin Job
  /\ Torn # Absent /\ \A m \in State : m # Absent /\ m # Torn
  /\ Absent \notin Seq(Line)
  /\ MaxLines \in Nat /\ MaxBirths \in Nat /\ MaxKills \in Nat
  /\ Reuse \in BOOLEAN

\* last_state_position.
LastAt(l, m) == SelectLastInSubSeq(l, 1, Len(l), LAMBDA x : x.after = m)

\* The fork file names a state.
Anchored(f) == file[f] \notin {Absent, Torn}

\* What current_state verifies: the fork file and its manifest read, and the
\* log chains, from the anchor on where no line led there.
Chains(l, m) ==
  /\ \A i \in 2..Len(l) : l[i].after = l[i - 1].after \cup {l[i].id}
  /\ LastAt(l, m) = 0 /\ l # <<>> => l[1].after = m \cup {l[1].id}

Loads(f) ==
  /\ f \in dir /\ Anchored(f)
  /\ pool[file[f]] = "whole"
  /\ log[f] # Absent /\ Chains(log[f], file[f])

StateOf(f) == IF log[f] = <<>> THEN file[f] ELSE log[f][Len(log[f])].after

-----------------------------------------------------------------------------
(* Where two commands on one name meet and nothing in the code keeps them  *)
(* apart.                                                                  *)

At(p, pc) == job[p] # NoJob /\ job[p].pc = pc
Fork(p) == job[p].fork

\* create_fork_raw past its check that the directory is absent.
Founding(p) ==
  /\ job[p] # NoJob /\ job[p].cmd \in {"fork", "ensure"}
  /\ job[p].pc \in {"mkdir", "file", "written", "log"}

\* remove_fork past its check of the fork's lines; --force looks at none, and
\* counts from where it has let go of the lock.
Unmaking(p) ==
  \/ At(p, "delete")
  \/ job[p] # NoJob /\ job[p].cmd = "remove" /\ job[p].pc \in {"lock", "acquire"}

\* p is about f, and if it is to make or remove f, past its check.
About(p, f) ==
  /\ job[p] # NoJob /\ Fork(p) = f
  /\ job[p].cmd \in {"fork", "ensure"} => Founding(p)
  /\ job[p].pc # "check"

\* Two processes make f, or one unmakes it while another is about it.
Clash(f) ==
  \E p, q \in Procs :
    /\ p # q /\ About(p, f) /\ About(q, f)
    /\ Unmaking(p) \/ (Founding(p) /\ Founding(q))

\* A conjunct of every step.
NoteRaces == raced' = raced \cup {f \in Forks : Clash(f)'}

-----------------------------------------------------------------------------
(* Commands.                                                               *)

Goto(p, pc) == job' = [job EXCEPT ![p].pc = pc] /\ NoteRaces

\* A command ends, well or with an error, or its process dies: its lock is
\* released.
Free(p) == locks' = {l \in locks : l.proc # p}
Over(p) == Free(p) /\ job' = [job EXCEPT ![p] = NoJob] /\ NoteRaces
Fail(p) == Over(p) /\ UNCHANGED <<disk, past>>

Begin(cmd, f, from, pc) ==
  [cmd |-> cmd, fork |-> f, from |-> from, state |-> {}, born |-> 0, pc |-> pc]

\* ensure_fork and an append (what an editor's hook runs), fork, apply,
\* snapshot, remove-fork and remove-fork --force.  ensure_fork of a fork that
\* is there does nothing: that hook's append is an apply.
Start(p, cmd, f, from) ==
  /\ job[p] = NoJob
  /\ f \in raced => Reuse
  /\ cmd = "ensure" => f \notin dir
  /\ cmd \in {"remove", "force"} => f # Main
  /\ cmd \in {"fork", "ensure"} \/ from = f
  /\ job' = [job EXCEPT ![p] = Begin(cmd, f, from,
                 IF cmd \in {"fork", "ensure"} THEN "derive"
                 ELSE IF cmd = "remove" THEN "check" ELSE "lock")]
  /\ NoteRaces /\ UNCHANGED <<disk, locks, past>>

\* ensure_fork returned Ok: the append.
Apply(p) ==
  job' = [job EXCEPT ![p] = Begin("apply", Fork(p), Fork(p), "lock")] /\ NoteRaces

\* Mutant of Derive: the anchor manifest is taken to be there.
DeriveUnpooled(p) ==
  /\ At(p, "derive")
  /\ IF Loads(job[p].from)
     THEN /\ job' = [job EXCEPT ![p].from = Fork(p),
                                ![p].state = StateOf(job[p].from), ![p].pc = "absent"]
          /\ NoteRaces /\ UNCHANGED <<disk, locks, past>>
     ELSE Fail(p)

\* create_fork: the state of the fork it is made from, without a lock.  (Which
\* fork that was no longer matters.)
Derive(p) ==
  /\ At(p, "derive")
  /\ IF Loads(job[p].from)
     THEN /\ job' = [job EXCEPT ![p].from = Fork(p),
                                ![p].state = StateOf(job[p].from), ![p].pc = "pool"]
          /\ NoteRaces /\ UNCHANGED <<disk, locks, past>>
     ELSE Fail(p)

\* The anchor manifest is there: a snapshot goes on to the fork file, a new
\* fork to its directory.
Pooled(p) == Goto(p, IF job[p].cmd = "snapshot" THEN "file" ELSE "absent")

\* write_anchor_manifest: put-if-absent, by name; fs::write is two steps.
Pool(p) ==
  /\ At(p, "pool")
  /\ LET m == job[p].state
     IN  IF pool[m] # "none" THEN Pooled(p) /\ UNCHANGED pool
         ELSE Goto(p, "fill") /\ pool' = [pool EXCEPT ![m] = "torn"]
  /\ UNCHANGED <<dir, born, file, log, locks, past>>

Fill(p) ==
  /\ At(p, "fill")
  /\ pool' = [pool EXCEPT ![job[p].state] = "whole"]
  /\ Pooled(p)
  /\ UNCHANGED <<dir, born, file, log, locks, past>>

\* Mutant of Exists: a directory that is there is used.
ExistsAnyway(p) ==
  At(p, "absent") /\ Goto(p, "mkdir") /\ UNCHANGED <<disk, locks, past>>

\* create_fork_raw: the directory must be absent.  ensure_fork takes one that
\* has appeared for the fork.
Exists(p) ==
  /\ At(p, "absent")
  /\ IF Fork(p) \notin dir
     THEN Goto(p, "mkdir") /\ UNCHANGED <<disk, locks, past>>
     ELSE IF job[p].cmd = "ensure" THEN Apply(p) /\ UNCHANGED <<disk, locks, past>>
     ELSE Fail(p)

\* create_dir_all succeeds on a directory that is there.  (At the bound it
\* fails.)
MkDir(p) ==
  /\ At(p, "mkdir")
  /\ IF Fork(p) \notin dir /\ born[Fork(p)] = MaxBirths THEN Fail(p)
     ELSE /\ dir' = dir \cup {Fork(p)}
          /\ born' = [born EXCEPT ![Fork(p)] = IF Fork(p) \in dir THEN @ ELSE @ + 1]
          /\ Goto(p, "file")
          /\ UNCHANGED <<file, log, pool, locks, past>>

\* fs::write of the fork file, new or in place: truncate, then write.
WriteFile(p) ==
  /\ At(p, "file")
  /\ IF Fork(p) \notin dir THEN Fail(p)
     ELSE /\ file' = [file EXCEPT ![Fork(p)] = Torn]
          /\ Goto(p, "written")
          /\ UNCHANGED <<dir, born, log, pool, locks, past>>

\* A snapshot ends here; a new fork goes on to its log.  (What is written to
\* a file unlinked meanwhile is gone with it.)
FileWritten(p) ==
  /\ At(p, "written")
  /\ file' = [file EXCEPT ![Fork(p)] = IF @ = Absent THEN Absent ELSE job[p].state]
  /\ IF job[p].cmd = "snapshot" THEN Over(p) ELSE Goto(p, "log") /\ UNCHANGED locks
  /\ halfFork' = halfFork \ {Fork(p)}
  /\ UNCHANGED <<dir, born, log, pool, used, kills, made, acked, halfAnchor>>

\* fs::write of an empty log; creation returns Ok.
WriteLog(p) ==
  /\ At(p, "log")
  /\ IF Fork(p) \notin dir THEN Fail(p)
     ELSE /\ log' = [log EXCEPT ![Fork(p)] = <<>>]
          /\ made' = made \cup {Fork(p)}
          /\ IF job[p].cmd = "fork" THEN Over(p) ELSE Apply(p) /\ UNCHANGED locks
          /\ UNCHANGED <<dir, born, file, pool, used, kills, acked, half>>

\* lock_fork: the lock file is opened (and made), and that file is locked,
\* wherever its directory has gone meanwhile.
OpenLock(p) ==
  /\ At(p, "lock")
  /\ IF Fork(p) \notin dir THEN Fail(p)
     ELSE /\ job' = [job EXCEPT ![p].born = born[Fork(p)], ![p].pc = "acquire"]
          /\ NoteRaces /\ UNCHANGED <<disk, locks, past>>

\* Mutant of Grant: the lock file is opened and not locked.
GrantAny(p) == TRUE

\* Nobody else holds the lock p waits for.
Grant(p) ==
  \A l \in locks : ~(l.fork = Fork(p) /\ l.born = job[p].born)

\* remove_fork lets go of it at once.
Acquire(p) ==
  /\ At(p, "acquire")
  /\ Grant(p)
  /\ IF job[p].cmd \in {"remove", "force"} THEN Goto(p, "delete") /\ UNCHANGED locks
     ELSE /\ locks' = locks \cup {[fork |-> Fork(p), born |-> job[p].born, proc |-> p]}
          /\ Goto(p, "load")
  /\ acked' = IF job[p].cmd = "force" THEN {a \in acked : a.fork # Fork(p)} ELSE acked
  /\ made' = IF job[p].cmd \in {"remove", "force"} THEN made \ {Fork(p)} ELSE made
  /\ UNCHANGED <<disk, used, kills, half>>

\* current_state, under the lock.
Load(p) ==
  /\ At(p, "load")
  /\ IF Loads(Fork(p))
     THEN /\ job' = [job EXCEPT ![p].state = StateOf(Fork(p)),
                                ![p].pc = IF job[p].cmd = "snapshot" THEN "pool" ELSE "append"]
          /\ NoteRaces /\ UNCHANGED <<disk, locks, past>>
     ELSE Fail(p)

\* The append, and Ok.  (At the bound it fails, as on a full device.)
AppendLine(p) ==
  /\ At(p, "append")
  /\ IF log[Fork(p)] = Absent \/ used = MaxLines THEN Fail(p)
     ELSE /\ log' = [log EXCEPT ![Fork(p)] =
                       Append(@, [id |-> used + 1, after |-> job[p].state \cup {used + 1}])]
          /\ acked' = acked \cup {[fork |-> Fork(p), id |-> used + 1]}
          /\ used' = used + 1
          /\ Over(p)
          /\ UNCHANGED <<dir, born, file, pool, kills, made, half>>

\* remove_fork without --force: the fork loads and has no lines of its own.
\* (No union is modelled here, so no other fork carries copies.)
Removable(f) == Loads(f) /\ log[f] = <<>>

Check(p) ==
  /\ At(p, "check")
  /\ IF Removable(Fork(p)) THEN Goto(p, "lock") /\ UNCHANGED <<disk, locks, past>>
     ELSE Fail(p)

\* remove_dir_all, a file at a time.
Delete(p) ==
  /\ At(p, "delete")
  /\ LET f == Fork(p)
     IN  \/ /\ log[f] # Absent /\ log' = [log EXCEPT ![f] = Absent]
            /\ UNCHANGED <<dir, file, job, locks>> /\ NoteRaces
         \/ /\ file[f] # Absent /\ file' = [file EXCEPT ![f] = Absent]
            /\ UNCHANGED <<dir, log, job, locks>> /\ NoteRaces
         \/ /\ log[f] = Absent /\ file[f] = Absent /\ dir' = dir \ {f}
            /\ Over(p) /\ UNCHANGED <<file, log>>
  /\ UNCHANGED <<born, pool, past>>

\* A process dies, inside fs::write too: the file stays empty.
Kill(p) ==
  /\ job[p] # NoJob /\ kills < MaxKills
  /\ kills' = kills + 1
  /\ halfFork' = IF job[p].pc = "written" THEN halfFork \cup {Fork(p)} ELSE halfFork
  /\ halfAnchor' = IF job[p].pc = "fill" THEN halfAnchor \cup {job[p].state} ELSE halfAnchor
  /\ Over(p)
  /\ UNCHANGED <<disk, used, made, acked>>

-----------------------------------------------------------------------------

\* init: main, anchored at the empty state.
Init ==
  /\ dir = {Main} /\ born = [f \in Forks |-> IF f = Main THEN 1 ELSE 0]
  /\ file = [f \in Forks |-> IF f = Main THEN {} ELSE Absent]
  /\ log = [f \in Forks |-> IF f = Main THEN <<>> ELSE Absent]
  /\ pool = [m \in State |-> IF m = {} THEN "whole" ELSE "none"]
  /\ locks = {} /\ job = [p \in Procs |-> NoJob]
  /\ used = 0 /\ kills = 0 /\ made = {Main} /\ acked = {}
  /\ halfFork = {} /\ halfAnchor = {} /\ raced = {}

Next ==
  \E p \in Procs :
    \/ \E cmd \in Commands, f, from \in Forks : Start(p, cmd, f, from)
    \/ Derive(p) \/ Pool(p) \/ Fill(p) \/ Exists(p) \/ MkDir(p)
    \/ WriteFile(p) \/ FileWritten(p) \/ WriteLog(p)
    \/ OpenLock(p) \/ Acquire(p) \/ Load(p) \/ AppendLine(p)
    \/ Check(p) \/ Delete(p) \/ Kill(p)

Spec == Init /\ [][Next]_vars

-----------------------------------------------------------------------------
(* Properties.                                                             *)

\* Every variable has its type.
TypeOK ==
  /\ dir \subseteq Forks /\ born \in [Forks -> Nat]
  /\ file \in [Forks -> State \cup {Absent, Torn}]
  /\ log \in [Forks -> Seq(Line) \cup {Absent}]
  /\ pool \in [State -> {"none", "torn", "whole"}]
  /\ job \in [Procs -> Job \cup {NoJob}]
  /\ used \in 0..MaxLines

\* Process p is inside write_anchor_manifest of state m; inside the write
\* of f's fork file.
Filling(p, m) == At(p, "fill") /\ job[p].state = m
Writing(p, f) == At(p, "written") /\ Fork(p) = f

\* A fork file names a manifest that can be read, is about to be, or whose
\* writer died inside the write: "which MUST exist and whose own sum MUST
\* equal anchor" (write_anchor_manifest, before the fork file).  Nothing
\* writes a manifest again that was left empty.
AnchorExists ==
  \A f \in Forks : Anchored(f) =>
    \/ pool[file[f]] = "whole"
    \/ \E p \in Procs : Filling(p, file[f])
    \/ file[f] \in halfAnchor

\* A line whose append returned Ok stays in its fork, unless the fork is
\* removed with --force, through creations that find the name taken or taken
\* meanwhile, removals that wait for a writer's lock, and deaths anywhere; but
\* not on a name where two creations both found the directory absent, or
\* where a removal past its check met another command.
Kept ==
  \A a \in acked : a.fork \notin raced =>
    /\ log[a.fork] # Absent
    /\ \E i \in 1..Len(log[a.fork]) : log[a.fork][i].id = a.id

\* A fork whose creation returned Ok can be loaded until it is removed
\* (current_state), through the same creations, removals and deaths and with
\* the same exception; but not while a snapshot writes its file or somebody
\* the manifest it names, nor after a death inside either write.
Usable ==
  \A f \in made \ raced :
    \/ Loads(f)
    \/ f \in halfFork \/ \E p \in Procs : Writing(p, f)
    \/ Anchored(f) /\ (file[f] \in halfAnchor \/ \E p \in Procs : Filling(p, file[f]))
=============================================================================
