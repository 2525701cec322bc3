-------------------------- MODULE ForkFilesProofs --------------------------
(***************************************************************************)
(* Proofs about ForkFiles, for any number of forks, processes, lines and   *)
(* deaths, whatever races.  Every fork file names an anchor manifest that  *)
(* is there, unless its writer died inside the write; a line whose append  *)
(* returned Ok stays and a fork whose creation returned Ok loads, unless   *)
(* two commands clashed on the fork's name.                                *)
(***************************************************************************)
EXTENDS ForkFiles, FoldFacts, TLAPS

-----------------------------------------------------------------------------
(* Type correctness.                                                       *)

\* The initial files and jobs have their types.
LEMMA TypeInit == Init => TypeOK
BY FilesAssumption
   DEF Init, TypeOK, State, Line

\* What current_state returns is a state.
LEMMA StateOfType ==
  ASSUME TypeOK, NEW f \in Forks, Loads(f)
  PROVE  StateOf(f) \in State
<1>1. file[f] \in State /\ log[f] \in Seq(Line)
  BY DEF TypeOK, Loads, Anchored
<1>2. CASE log[f] # <<>>
  <2>1. Len(log[f]) \in 1..Len(log[f])
    BY <1>1, <1>2
  <2>2. log[f][Len(log[f])] \in Line
    BY <1>1, <2>1
  <2> QED BY <1>2, <2>2 DEF StateOf, Line
<1>3. CASE log[f] = <<>>
  BY <1>1, <1>3 DEF StateOf
<1> QED BY <1>2, <1>3

Jobs == [Procs -> Job \cup {NoJob}]

\* The table of jobs keeps its type when a command moves on or ends.
LEMMA JobTypes ==
  ASSUME TypeOK, NEW p \in Procs, job[p] # NoJob
  PROVE  /\ job[p] \in Job /\ Fork(p) \in Forks
         /\ job[p].from \in Forks /\ job[p].state \in State
         /\ \A pc \in Steps : [job EXCEPT ![p].pc = pc] \in Jobs
         /\ [job EXCEPT ![p] = NoJob] \in Jobs
         /\ Apply(p) => job' \in Jobs
<1>1. job[p] \in Job /\ job \in Jobs
  BY DEF TypeOK, Jobs
<1>2. Fork(p) \in Forks
  BY <1>1 DEF Job, Fork
<1>3. Begin("apply", Fork(p), Fork(p), "lock") \in Job
  BY <1>2 DEF Begin, Job, Commands, Steps, State
<1>4. Apply(p) => job' \in Jobs
  BY <1>1, <1>3 DEF Apply, Jobs
<1> QED BY <1>1, <1>4 DEF Job, Jobs, Fork

\* A step that leaves the files alone.
LEMMA FilesStay ==
  ASSUME TypeOK, UNCHANGED <<disk, used>>, job' \in Jobs
  PROVE  TypeOK'
BY DEF TypeOK, disk, Jobs

\* So does a command that returns an error.
LEMMA FailStays ==
  ASSUME TypeOK, NEW p \in Procs, job[p] # NoJob, Fail(p)
  PROVE  TypeOK'
<1>1. job' \in Jobs /\ UNCHANGED <<disk, used>>
  BY JobTypes DEF Steps, Fail, Over, past
<1> QED BY <1>1, FilesStay

\* Every step of every command keeps the types.
LEMMA TypeNext == TypeOK /\ [Next]_vars => TypeOK'
<1> SUFFICES ASSUME TypeOK, [Next]_vars PROVE TypeOK'
  OBVIOUS
<1>1. CASE UNCHANGED vars
  BY <1>1 DEF vars, disk, past, TypeOK
<1>2. CASE Next
  <2>0. PICK p \in Procs :
    \/ \E cmd \in Commands, f, from \in Forks : Start(p, cmd, f, from)
    \/ Derive(p) \/ Pool(p) \/ Fill(p) \/ Exists(p) \/ MkDir(p)
    \/ WriteFile(p) \/ FileWritten(p) \/ WriteLog(p)
    \/ OpenLock(p) \/ Acquire(p) \/ Load(p) \/ AppendLine(p)
    \/ Check(p) \/ Delete(p) \/ Kill(p)
    BY <1>2 DEF Next
  <2>1. CASE \E cmd \in Commands, f, from \in Forks : Start(p, cmd, f, from)
    <3>1. PICK cmd \in Commands, f \in Forks, from \in Forks : Start(p, cmd, f, from)
      BY <2>1
    <3>2. {} \in State
      BY DEF State
    <3>3. PICK pc \in Steps : job' = [job EXCEPT ![p] = Begin(cmd, f, from, pc)]
      BY <3>1 DEF Start, Steps
    <3>4. job' \in Jobs
      BY <3>2, <3>3 DEF TypeOK, Jobs, Job, Begin
    <3>5. UNCHANGED <<disk, used>>
      BY <3>1 DEF Start, past
    <3> QED BY <3>4, <3>5, FilesStay
  <2>a. job[p] # NoJob \/ \E cmd \in Commands, f, from \in Forks : Start(p, cmd, f, from)
    BY <2>0 DEF Derive, Pool, Fill, Exists, MkDir, WriteFile, FileWritten, WriteLog,
                OpenLock, Acquire, Load, AppendLine, Check, Delete, Kill, At
  <2> SUFFICES ASSUME job[p] # NoJob PROVE TypeOK'
    BY <2>1, <2>a
  <2>b. /\ job[p] \in Job /\ Fork(p) \in Forks
        /\ job[p].from \in Forks /\ job[p].state \in State
        /\ job \in Jobs
    BY JobTypes DEF TypeOK, Jobs
  <2>c. CASE Fail(p)
    BY <2>c, FailStays
  <2>2. CASE Derive(p) /\ ~Fail(p)
    <3>1. Loads(job[p].from)
      BY <2>2 DEF Derive
    <3> DEFINE m == StateOf(job[p].from)
    <3>2. m \in State
      BY <2>b, <3>1, StateOfType
    <3>3. job' \in Jobs
      <4>1. job' = [job EXCEPT ![p].from = Fork(p), ![p].state = m, ![p].pc = "pool"]
        BY <2>2, <3>1 DEF Derive
      <4> HIDE DEF m
      <4> QED BY <2>b, <3>2, <4>1 DEF Jobs, Job, Steps
    <3>4. UNCHANGED <<disk, used>>
      BY <2>2, <3>1 DEF Derive, past
    <3> QED BY <3>3, <3>4, FilesStay
  <2>3. CASE Pool(p)
    <3>1. job' \in Jobs
      BY <2>3, JobTypes DEF Steps, Pool, Pooled, Goto
    <3> QED BY <2>3, <2>b, <3>1 DEF Pool, TypeOK, Jobs, past
  <2>4. CASE Fill(p)
    <3>1. job' \in Jobs
      BY <2>4, JobTypes DEF Steps, Fill, Pooled, Goto
    <3> QED BY <2>4, <2>b, <3>1 DEF Fill, TypeOK, Jobs, past
  <2>5. CASE Exists(p) /\ ~Fail(p)
    <3>1. job' \in Jobs /\ UNCHANGED <<disk, used>>
      BY <2>5, JobTypes DEF Steps, Exists, Goto, past, At
    <3> QED BY <3>1, FilesStay
  <2>6. CASE MkDir(p) /\ ~Fail(p)
    <3>1. job' \in Jobs
      BY <2>6, JobTypes DEF Steps, MkDir, Goto
    <3>2. dir' \subseteq Forks /\ born' \in [Forks -> Nat]
      BY <2>6, <2>b DEF MkDir, TypeOK
    <3> QED BY <2>6, <3>1, <3>2 DEF MkDir, TypeOK, Jobs, past
  <2>7. CASE WriteFile(p) /\ ~Fail(p)
    <3>1. job' \in Jobs
      BY <2>7, JobTypes DEF Steps, WriteFile, Goto
    <3> QED BY <2>7, <2>b, <3>1 DEF WriteFile, TypeOK, Jobs, past
  <2>8. CASE FileWritten(p)
    <3>1. job' \in Jobs
      BY <2>8, JobTypes DEF Steps, FileWritten, Goto, Over
    <3>2. file' \in [Forks -> State \cup {Absent, Torn}]
      BY <2>8, <2>b DEF FileWritten, TypeOK
    <3> QED BY <2>8, <3>1, <3>2 DEF FileWritten, TypeOK, Jobs, past
  <2>9. CASE WriteLog(p) /\ ~Fail(p)
    <3>1. job' \in Jobs
      BY <2>9, JobTypes DEF Steps, WriteLog, Goto, Over, At
    <3>2. log' \in [Forks -> Seq(Line) \cup {Absent}]
      <4>1. <<>> \in Seq(Line) /\ log \in [Forks -> Seq(Line) \cup {Absent}]
        BY DEF TypeOK
      <4>2. log' = [log EXCEPT ![Fork(p)] = <<>>]
        BY <2>9 DEF WriteLog
      <4> QED BY <2>b, <4>1, <4>2
    <3> QED BY <2>9, <3>1, <3>2 DEF WriteLog, TypeOK, Jobs
  <2>10. CASE OpenLock(p) /\ ~Fail(p)
    <3>1. born[Fork(p)] \in Nat
      BY <2>b DEF TypeOK
    <3>2. job' \in Jobs
      <4>1. job' = [job EXCEPT ![p].born = born[Fork(p)], ![p].pc = "acquire"]
        BY <2>10 DEF OpenLock
      <4> QED BY <2>b, <3>1, <4>1 DEF Jobs, Job, Steps
    <3>3. UNCHANGED <<disk, used>>
      BY <2>10 DEF OpenLock, past
    <3> QED BY <3>2, <3>3, FilesStay
  <2>11. CASE Acquire(p)
    <3>1. job' \in Jobs
      BY <2>11, JobTypes DEF Steps, Acquire, Goto
    <3>2. UNCHANGED <<disk, used>>
      BY <2>11 DEF Acquire
    <3> QED BY <3>1, <3>2, FilesStay
  <2>12. CASE Load(p) /\ ~Fail(p)
    <3>1. Loads(Fork(p))
      BY <2>12 DEF Load
    <3> DEFINE m == StateOf(Fork(p))
    <3>2. m \in State
      BY <2>b, <3>1, StateOfType
    <3>3. job' \in Jobs
      <4>1. PICK pc \in Steps : job' = [job EXCEPT ![p].state = m, ![p].pc = pc]
        BY <2>12, <3>1 DEF Load, Steps
      <4> HIDE DEF m
      <4> QED BY <2>b, <3>2, <4>1 DEF Jobs, Job
    <3>4. UNCHANGED <<disk, used>>
      BY <2>12, <3>1 DEF Load, past
    <3> QED BY <3>3, <3>4, FilesStay
  <2>13. CASE AppendLine(p) /\ ~Fail(p)
    <3> DEFINE x == [id |-> used + 1, after |-> job[p].state \cup {used + 1}]
    <3>1. log[Fork(p)] # Absent /\ used # MaxLines
      BY <2>13 DEF AppendLine
    <3>2. used + 1 \in 1..MaxLines
      BY <3>1, FilesAssumption DEF TypeOK
    <3>3. x \in Line
      BY <2>b, <3>2 DEF State, Line
    <3>4. Append(log[Fork(p)], x) \in Seq(Line)
      BY <2>b, <3>1, <3>3 DEF TypeOK
    <3>5. /\ log' = [log EXCEPT ![Fork(p)] = Append(log[Fork(p)], x)]
          /\ used' = used + 1 /\ UNCHANGED <<dir, born, file, pool>>
      BY <2>13, <3>1 DEF AppendLine
    <3>6. job' \in Jobs
      BY <2>13, <3>1, JobTypes DEF Steps, AppendLine, Over
    <3>7. log' \in [Forks -> Seq(Line) \cup {Absent}] /\ used' \in 0..MaxLines
      BY <2>b, <3>2, <3>4, <3>5 DEF TypeOK
    <3> HIDE DEF x
    <3> QED BY <3>5, <3>6, <3>7 DEF TypeOK, Jobs
  <2>14. CASE Check(p) /\ ~Fail(p)
    <3>1. job' \in Jobs /\ UNCHANGED <<disk, used>>
      BY <2>14, JobTypes DEF Steps, Check, Goto, past
    <3> QED BY <3>1, FilesStay
  <2>15. CASE Delete(p)
    <3>1. job' \in Jobs
      BY <2>15, JobTypes DEF Steps, Delete, Over, TypeOK, Jobs
    <3>2. log' \in [Forks -> Seq(Line) \cup {Absent}]
      BY <2>15, <2>b DEF Delete, TypeOK
    <3>3. file' \in [Forks -> State \cup {Absent, Torn}] /\ dir' \subseteq Forks
      BY <2>15, <2>b DEF Delete, TypeOK
    <3> QED BY <2>15, <3>1, <3>2, <3>3 DEF Delete, TypeOK, Jobs, past
  <2>16. CASE Kill(p)
    <3>1. job' \in Jobs /\ UNCHANGED <<disk, used>>
      BY <2>16, JobTypes DEF Steps, Kill, Over
    <3> QED BY <3>1, FilesStay
  <2> QED BY <2>0, <2>1, <2>c, <2>2, <2>3, <2>4, <2>5, <2>6, <2>7, <2>8, <2>9,
             <2>10, <2>11, <2>12, <2>13, <2>14, <2>15, <2>16
<1> QED BY <1>1, <1>2

\* Every variable of ForkFiles keeps its type, whoever dies and races.
THEOREM TypeCorrect == Spec => []TypeOK
BY TypeInit, TypeNext, PTL DEF Spec

-----------------------------------------------------------------------------
(* Anchors.  AnchorExists is not inductive: that the fork file about to be *)
(* written names a manifest depends on where its writer is.                *)

\* A torn manifest is being written by someone, or its writer died at it.
TornFills ==
  \A m \in State : pool[m] = "torn" => m \in halfAnchor \/ \E p \in Procs : Filling(p, m)

\* Who is past write_anchor_manifest has a manifest to name.
Naming(p) == At(p, "absent") \/ At(p, "mkdir") \/ At(p, "file") \/ At(p, "written")
Named(p) == Naming(p) => pool[job[p].state] # "none"

NamedAll == \A p \in Procs : Named(p)

\* A fork file names a manifest, perhaps torn.
AnchorNamed == \A f \in Forks : Anchored(f) => pool[file[f]] # "none"

AnchorInv == TypeOK /\ TornFills /\ NamedAll /\ AnchorNamed

\* The repository as init leaves it satisfies the invariant.
LEMMA AnchorInit == Init => AnchorInv
<1> SUFFICES ASSUME Init PROVE AnchorInv
  OBVIOUS
<1>1. TypeOK
  BY TypeInit
<1>2. TornFills
  BY DEF Init, TornFills
<1>3. NamedAll
  BY DEF Init, NamedAll, Named, Naming, At
<1>4. AnchorNamed
  BY DEF Init, AnchorNamed, Anchored, State
<1> QED BY <1>1, <1>2, <1>3, <1>4 DEF AnchorInv

\* A step is a step of one process.
StepOf(p) ==
  \/ \E cmd \in Commands, f, from \in Forks : Start(p, cmd, f, from)
  \/ Derive(p) \/ Pool(p) \/ Fill(p) \/ Exists(p) \/ MkDir(p)
  \/ WriteFile(p) \/ FileWritten(p) \/ WriteLog(p)
  \/ OpenLock(p) \/ Acquire(p) \/ Load(p) \/ AppendLine(p)
  \/ Check(p) \/ Delete(p) \/ Kill(p)

\* Nobody's job but its own.
LEMMA OwnJob ==
  ASSUME TypeOK, NEW p \in Procs, StepOf(p)
  PROVE  \A q \in Procs \ {p} : job'[q] = job[q]
BY DEF StepOf, TypeOK, Start, Derive, Pool, Pooled, Fill, Exists, MkDir,
       WriteFile, FileWritten, WriteLog, OpenLock, Acquire, Load, AppendLine,
       Check, Delete, Kill, Goto, Apply, Fail, Over

\* The pool changes in write_anchor_manifest only: a name appears, torn, and
\* its bytes arrive.
LEMMA PoolSteps ==
  ASSUME TypeOK, NEW p \in Procs, StepOf(p), pool' # pool
  PROVE  \/ /\ Pool(p) /\ pool[job[p].state] = "none"
            /\ pool' = [pool EXCEPT ![job[p].state] = "torn"]
         \/ Fill(p) /\ pool' = [pool EXCEPT ![job[p].state] = "whole"]
BY DEF StepOf, Start, Derive, Pool, Pooled, Fill, Exists, MkDir, WriteFile,
       FileWritten, WriteLog, OpenLock, Acquire, Load, AppendLine, Check,
       Delete, Kill, Fail, disk

\* The fork files change three ways: truncated, unlinked, and written with
\* the state the process is about.
LEMMA FileSteps ==
  ASSUME TypeOK, NEW p \in Procs, StepOf(p), NEW f \in Forks, file'[f] # file[f]
  PROVE  \/ file'[f] \in {Absent, Torn}
         \/ At(p, "written") /\ file'[f] = job[p].state
BY DEF StepOf, TypeOK, Start, Derive, Pool, Fill, Exists, MkDir, WriteFile,
       FileWritten, WriteLog, OpenLock, Acquire, Load, AppendLine, Check,
       Delete, Kill, Fail, disk

\* From within the write of a manifest there is one way on, and one out.
LEMMA OnlyFill ==
  ASSUME NEW p \in Procs, StepOf(p), At(p, "fill")
  PROVE  Fill(p) \/ Kill(p)
BY DEF StepOf, Start, Derive, Pool, Exists, MkDir, WriteFile, FileWritten,
       WriteLog, OpenLock, Acquire, Load, AppendLine, Check, Delete, At

\* What was left half written is remembered.
LEMMA HalfStays ==
  ASSUME NEW p \in Procs, StepOf(p)
  PROVE  halfAnchor \subseteq halfAnchor'
BY DEF StepOf, Start, Derive, Pool, Fill, Exists, MkDir, WriteFile, FileWritten, WriteLog,
       OpenLock, Acquire, Load, AppendLine, Check, Delete, Kill, Fail, past, half

\* Where a process that has a manifest to name comes from.
LEMMA NamingSteps ==
  ASSUME TypeOK, NEW p \in Procs, StepOf(p), Naming(p)'
  PROVE  /\ job'[p].state = job[p].state
         /\ \/ Naming(p)
            \/ Pool(p) /\ pool[job[p].state] # "none"
            \/ Fill(p)
<1>1. CASE Pool(p)
  BY <1>1 DEF TypeOK, Pool, Pooled, Goto, Naming, At, Job, Steps
<1>2. CASE Fill(p)
  BY <1>2 DEF TypeOK, Fill, Pooled, Goto, Naming, At, Job, Steps
<1>3. CASE Exists(p) \/ MkDir(p) \/ WriteFile(p)
  BY <1>3 DEF TypeOK, Exists, MkDir, WriteFile, Fail, Over, Goto, Apply, Begin, Naming, At, Job,
              Steps
<1>4. CASE ~(Pool(p) \/ Fill(p) \/ Exists(p) \/ MkDir(p) \/ WriteFile(p))
  BY <1>4 DEF StepOf, TypeOK, Start, Derive, FileWritten, WriteLog, OpenLock,
              Acquire, Load, AppendLine, Check, Delete, Kill, Fail, Over, Goto,
              Apply, Begin, Naming, At, Job, Steps
<1> QED BY <1>1, <1>2, <1>3, <1>4

\* Every step keeps the invariant.
LEMMA AnchorNext ==
  ASSUME AnchorInv, [Next]_vars
  PROVE  AnchorInv'
<1>1. TypeOK /\ TypeOK'
  BY TypeNext DEF AnchorInv
<1>2. CASE UNCHANGED vars
  BY <1>1, <1>2 DEF AnchorInv, TornFills, Filling, NamedAll, Named, Naming,
                    AnchorNamed, Anchored, At, vars, disk, past, half
<1>3. CASE Next
  <2>1. PICK p \in Procs : StepOf(p)
    BY <1>3 DEF Next, StepOf
  <2>2. \A q \in Procs \ {p} : job'[q] = job[q]
    BY <1>1, <2>1, OwnJob
  <2>3. \A m \in State : pool[m] # "none" => pool'[m] # "none"
    BY <1>1, <2>1, PoolSteps DEF TypeOK
  <2>4. TornFills'
    <3> SUFFICES ASSUME NEW m \in State, pool'[m] = "torn"
                 PROVE  m \in halfAnchor' \/ \E q \in Procs : Filling(q, m)'
      BY DEF TornFills
    <3>1. CASE pool[m] = "torn"
      <4> SUFFICES ASSUME m \notin halfAnchor' PROVE \E q \in Procs : Filling(q, m)'
        OBVIOUS
      <4>1. PICK q \in Procs : Filling(q, m)
        BY <2>1, <3>1, HalfStays DEF AnchorInv, TornFills
      <4>2. q # p
        <5> SUFFICES ASSUME q = p PROVE FALSE
          OBVIOUS
        <5>1. job[p].state = m /\ job[p].pc = "fill" /\ (Fill(p) \/ Kill(p))
          BY <2>1, <4>1, OnlyFill DEF Filling, At
        <5>2. CASE Fill(p)
          BY <1>1, <5>1, <5>2 DEF Fill, TypeOK
        <5>3. CASE Kill(p)
          BY <5>1, <5>3 DEF Kill
        <5> QED BY <5>1, <5>2, <5>3
      <4> QED BY <2>2, <4>1, <4>2 DEF Filling, At
    <3>2. CASE pool[m] # "torn"
      <4>1. Pool(p) /\ pool[job[p].state] = "none" /\ m = job[p].state
        BY <1>1, <2>1, <3>2, PoolSteps DEF TypeOK
      <4>2. job[p] \in Job /\ job' = [job EXCEPT ![p].pc = "fill"]
        BY <1>1, <4>1 DEF Pool, Goto, At, TypeOK
      <4>3. job'[p] \in Job /\ job'[p].pc = "fill" /\ job'[p].state = m
        BY <1>1, <4>1, <4>2 DEF TypeOK, Job, Steps
      <4>4. Filling(p, m)'
        BY <4>3, FilesAssumption DEF Filling, At
      <4> QED BY <4>4
    <3> QED BY <3>1, <3>2
  <2>5. NamedAll'
    <3> SUFFICES ASSUME NEW q \in Procs, Naming(q)'
                 PROVE  pool'[job'[q].state] # "none"
      BY DEF NamedAll, Named, Naming, At
    <3>1. job'[q].state \in State
      BY <1>1 DEF Naming, At, TypeOK, Job
    <3>2. CASE q # p
      BY <2>2, <2>3, <3>1, <3>2 DEF AnchorInv, NamedAll, Named, Naming, At
    <3>3. CASE q = p
      <4>1. job'[p].state = job[p].state
        BY <1>1, <2>1, <3>3, NamingSteps
      <4>2. CASE Naming(p) \/ (Pool(p) /\ pool[job[p].state] # "none")
        BY <2>3, <3>1, <3>3, <4>1, <4>2 DEF AnchorInv, NamedAll, Named, Naming
      <4>3. CASE Fill(p)
        BY <1>1, <3>1, <3>3, <4>1, <4>3 DEF Fill, TypeOK
      <4> QED BY <1>1, <2>1, <3>3, <4>2, <4>3, NamingSteps
    <3> QED BY <3>2, <3>3
  <2>6. AnchorNamed'
    <3> SUFFICES ASSUME NEW f \in Forks, file'[f] \notin {Absent, Torn}
                 PROVE  pool'[file'[f]] # "none"
      BY DEF AnchorNamed, Anchored
    <3>1. file'[f] \in State
      BY <1>1 DEF TypeOK
    <3>2. CASE file'[f] = file[f]
      BY <2>3, <3>1, <3>2 DEF AnchorInv, AnchorNamed, Anchored
    <3>3. CASE file'[f] # file[f]
      <4>1. At(p, "written") /\ file'[f] = job[p].state
        BY <1>1, <2>1, <3>3, FileSteps
      <4>2. pool[job[p].state] # "none"
        BY <4>1 DEF AnchorInv, NamedAll, Named, Naming
      <4> QED BY <2>3, <3>1, <4>1, <4>2
    <3> QED BY <3>2, <3>3
  <2> QED BY <1>1, <2>4, <2>5, <2>6 DEF AnchorInv
<1> QED BY <1>2, <1>3

\* A fork file names a manifest that can be read, is being written, or whose
\* writer died inside the write, for any number of commands that create,
\* snapshot, remove and append at once (write_anchor_manifest).
THEOREM AnchorsExist == Spec => []AnchorExists
<1>1. AnchorInv /\ [Next]_vars => AnchorInv'
  BY AnchorNext
<1>2. AnchorInv => AnchorExists
  <2> SUFFICES ASSUME AnchorInv, NEW f \in Forks, Anchored(f)
               PROVE  \/ pool[file[f]] = "whole"
                      \/ \E p \in Procs : Filling(p, file[f])
                      \/ file[f] \in halfAnchor
    BY DEF AnchorExists
  <2>1. file[f] \in State /\ pool[file[f]] \in {"none", "torn", "whole"}
    BY DEF AnchorInv, TypeOK, Anchored
  <2> QED BY <2>1 DEF AnchorInv, AnchorNamed, TornFills
<1> QED BY AnchorInit, <1>1, <1>2, PTL DEF Spec

-----------------------------------------------------------------------------
(* The inductive invariant.                                                *)

Busy(p) == job[p] # NoJob

\* A name without a clash so far has none now.
Exclusive == \A f \in Forks : f \notin raced => ~Clash(f)

\* All of a creation; remove_fork past its own check.
Making(p) ==
  /\ Busy(p) /\ job[p].cmd # "snapshot"
  /\ job[p].pc \in {"derive", "pool", "fill", "absent", "mkdir", "file", "written", "log"}
Removing(p) ==
  /\ Busy(p) /\ job[p].cmd = "remove" /\ job[p].pc \in {"lock", "acquire"}
Deleting(p) == At(p, "delete")

\* Which commands are where.
Role(p) ==
  Busy(p) =>
    /\ Making(p) <=> job[p].cmd \in {"fork", "ensure"}
    /\ job[p].pc \in {"derive", "absent", "mkdir", "log"} => job[p].cmd # "snapshot"
    /\ job[p].pc = "check" => job[p].cmd = "remove"
    /\ job[p].pc = "delete" => job[p].cmd \in {"remove", "force"}
    /\ job[p].pc = "append" => job[p].cmd = "apply"
    /\ job[p].pc = "load" => job[p].cmd \in {"apply", "snapshot"}

\* The part of a command that runs under the lock it asked for: the lock of
\* the present directory.
Shooting(p) ==
  /\ Busy(p) /\ job[p].cmd = "snapshot"
  /\ job[p].pc \in {"pool", "fill", "file", "written"}
Locked(p) == At(p, "load") \/ At(p, "append") \/ Shooting(p)
LockOf(p) == [fork |-> Fork(p), born |-> job[p].born, proc |-> p]

Holds(p) ==
  /\ Locked(p) => LockOf(p) \in locks
  /\ Locked(p) \/ At(p, "acquire") => Fork(p) \in dir /\ job[p].born = born[Fork(p)]

OneHolder == \A k, l \in locks : k.fork = l.fork /\ k.born = l.born => k = l

\* What a command loaded under the lock is still so when it writes.
Ready(p) ==
  /\ At(p, "append") \/ (Shooting(p) /\ job[p].pc # "written") =>
       Loads(Fork(p)) /\ job[p].state = StateOf(Fork(p))
  /\ Shooting(p) /\ job[p].pc = "written" =>
       /\ Fork(p) \in dir /\ file[Fork(p)] = Torn
       /\ log[Fork(p)] # Absent /\ Chains(log[Fork(p)], job[p].state)

\* What a creation has written, and that it and a removal meet no line that
\* was acknowledged and no fork whose creation returned Ok.
NoAcked(f) == \A a \in acked : a.fork # f
Clear(p) ==
  /\ Founding(p) => log[Fork(p)] = Absent
  /\ Founding(p) /\ job[p].pc = "mkdir" => Fork(p) \notin dir
  /\ Founding(p) /\ job[p].pc = "written" => file[Fork(p)] # Absent
  /\ Founding(p) /\ job[p].pc = "log" => file[Fork(p)] = job[p].state
  /\ Removing(p) => NoAcked(Fork(p))
  /\ Deleting(p) => NoAcked(Fork(p)) /\ Fork(p) \notin made

\* On a name two commands clashed on, nothing is relied on.
Relies(p) == Busy(p) /\ Fork(p) \notin raced => Holds(p) /\ Ready(p) /\ Clear(p)
ProcInv(p) == Role(p) /\ Relies(p)

\* Without a directory there is no file.
Gone(f) == f \notin dir => file[f] = Absent /\ log[f] = Absent

\* A fork whose creation returned Ok is whole, but for the moment a snapshot
\* rewrites its fork file, or a death in that moment.
Whole(f) ==
  f \in made /\ f \notin raced =>
    /\ f \in dir /\ log[f] # Absent
    /\ \/ Anchored(f) /\ Chains(log[f], file[f])
       \/ /\ file[f] = Torn
          /\ f \in halfFork \/ \E p \in Procs : Shooting(p) /\ Writing(p, f)

ForkInv(f) == Gone(f) /\ Whole(f)

FilesInv ==
  /\ AnchorInv
  /\ Exclusive /\ OneHolder
  /\ \A p \in Procs : ProcInv(p)
  /\ \A f \in Forks : ForkInv(f)
  /\ acked \subseteq [fork : Forks, id : Nat] /\ made \subseteq Forks
  /\ Kept

-----------------------------------------------------------------------------
(* Chains.                                                                 *)

\* last_state_position finds a line exactly when there is one.
LEMMA LastAtZero ==
  ASSUME NEW l \in Seq(Line), NEW m
  PROVE  LastAt(l, m) = 0 <=> \A i \in 1..Len(l) : l[i].after # m
<1> DEFINE I == {i \in 1..Len(l) : l[i].after = m}
<1>1. LastAt(l, m) = IF I # {} THEN Max(I) ELSE 0
  BY DEF LastAt, SelectLastInSubSeq
<1>2. Len(l) \in Nat /\ I \subseteq Nat /\ \A x \in I : x <= Len(l) /\ x # 0
  OBVIOUS
<1>3. I # {} => Max(I) \in I
  <2> HIDE DEF I
  <2> QED BY <1>2, MaxIn
<1>4. I # {} => LastAt(l, m) # 0
  BY <1>1, <1>2, <1>3
<1> QED BY <1>1, <1>4

\* The state a log leads to from its anchor.
Tip(l, m) == IF l = <<>> THEN m ELSE l[Len(l)].after

\* A line appended to the state of a chained log extends the chain.
LEMMA ChainsGrow ==
  ASSUME NEW l \in Seq(Line), NEW m \in State, Chains(l, m), NEW id \in 1..MaxLines,
         NEW x \in Line, x = [id |-> id, after |-> Tip(l, m) \cup {id}]
  PROVE  Chains(Append(l, x), m)
<1> DEFINE t == Append(l, x)
<1>1. /\ Len(l) \in Nat /\ t \in Seq(Line) /\ Len(t) = Len(l) + 1
      /\ t[Len(l) + 1] = x /\ \A i \in 1..Len(l) : t[i] = l[i]
  OBVIOUS
<1> HIDE DEF t
<1>2. ASSUME NEW i \in 2..Len(t) PROVE t[i].after = t[i - 1].after \cup {t[i].id}
  <2>1. CASE i <= Len(l)
    <3>1. i \in 2..Len(l) /\ i \in 1..Len(l) /\ i - 1 \in 1..Len(l)
      BY <2>1
    <3> QED BY <1>1, <3>1 DEF Chains
  <2>2. CASE i = Len(l) + 1
    <3>1. l # <<>> /\ i - 1 = Len(l) /\ i - 1 \in 1..Len(l)
      BY <1>1, <2>2
    <3> QED BY <1>1, <2>2, <3>1 DEF Tip
  <2> QED BY <1>1, <2>1, <2>2
<1>3. ASSUME LastAt(t, m) = 0 PROVE t[1].after = m \cup {t[1].id}
  <2>1. CASE l = <<>>
    BY <1>1, <2>1 DEF Tip
  <2>2. CASE l # <<>>
    <3>1. \A i \in 1..Len(t) : t[i].after # m
      BY <1>1, <1>3, LastAtZero
    <3>2. \A i \in 1..Len(l) : i \in 1..Len(t)
      BY <1>1
    <3>3. \A i \in 1..Len(l) : l[i].after # m
      BY <1>1, <3>1, <3>2
    <3>4. LastAt(l, m) = 0
      BY <3>3, LastAtZero
    <3>5. 1 \in 1..Len(l)
      BY <1>1, <2>2
    <3> QED BY <1>1, <2>2, <3>4, <3>5 DEF Chains
  <2> QED BY <2>1, <2>2
<1> QED BY <1>2, <1>3 DEF Chains, t

\* A chained log chains from the state it leads to: a snapshot may move the
\* anchor there.
LEMMA ChainsTip ==
  ASSUME NEW l \in Seq(Line), NEW m \in State, Chains(l, m)
  PROVE  Chains(l, Tip(l, m))
<1>1. CASE l = <<>>
  BY <1>1 DEF Tip
<1>2. CASE l # <<>>
  <2>1. Len(l) \in 1..Len(l)
    BY <1>2
  <2>2. LastAt(l, Tip(l, m)) # 0
    BY <1>2, <2>1, LastAtZero DEF Tip
  <2> QED BY <2>2 DEF Chains
<1> QED BY <1>1, <1>2

-----------------------------------------------------------------------------
(* What one step does.                                                     *)

\* The whole of f's files, and what was promised of them, stays.
Same(f) ==
  /\ (f \in dir' <=> f \in dir) /\ born'[f] = born[f]
  /\ file'[f] = file[f] /\ log'[f] = log[f]
  /\ (f \in made' <=> f \in made) /\ (f \in halfFork => f \in halfFork')
  /\ \A a : a.fork = f => (a \in acked' <=> a \in acked)

\* A removal is granted the lock.
Removed(p) == Acquire(p) /\ job[p].cmd \in {"remove", "force"}

\* Only a command on f that makes it, works under its lock or removes it
\* changes f; and only one that makes its directory begins another life of
\* the name.
LEMMA Touch ==
  ASSUME TypeOK, NEW p \in Procs, Role(p), StepOf(p), NEW f \in Forks, ~Same(f)
  PROVE  /\ Busy(p) /\ Fork(p) = f /\ ~Fail(p)
         /\ \/ Founding(p) /\ (MkDir(p) \/ WriteFile(p) \/ FileWritten(p) \/ WriteLog(p))
            \/ Shooting(p) /\ (WriteFile(p) \/ FileWritten(p))
            \/ AppendLine(p) \/ Removed(p) \/ Delete(p)
         /\ f \in dir => Delete(p) \/ f \in dir'
         /\ born'[f] = born[f] \/ (MkDir(p) /\ f \notin dir)
<1> USE DEF TypeOK, disk, past, half, Same
<1>1. CASE \E cmd \in Commands, g, from \in Forks : Start(p, cmd, g, from)
  BY <1>1 DEF Start
<1>2. CASE \/ Derive(p) \/ Pool(p) \/ Fill(p) \/ Exists(p) \/ OpenLock(p)
           \/ Load(p) \/ Check(p) \/ Kill(p) \/ Fail(p)
  BY <1>2 DEF Derive, Pool, Fill, Exists, OpenLock, Load, Check, Kill, Fail
<1>3. CASE MkDir(p) /\ ~Fail(p)
  BY <1>3 DEF MkDir, Role, Making, Founding, Busy, At
<1>4. CASE WriteFile(p) /\ ~Fail(p)
  BY <1>4 DEF WriteFile, Role, Making, Founding, Busy, At, Shooting
<1>5. CASE FileWritten(p) /\ ~Fail(p)
  BY <1>5 DEF FileWritten, Role, Making, Founding, Busy, At, Shooting
<1>6. CASE WriteLog(p) /\ ~Fail(p)
  BY <1>6 DEF WriteLog, Role, Making, Founding, Busy, At
<1>7. CASE Acquire(p) /\ ~Fail(p)
  BY <1>7 DEF Acquire, Removed, Busy, At
<1>8. CASE AppendLine(p) /\ ~Fail(p)
  BY <1>8 DEF AppendLine, Busy, At
<1>9. CASE Delete(p) /\ ~Fail(p)
  BY <1>9 DEF Delete, Busy, At
<1> QED BY <1>1, <1>2, <1>3, <1>4, <1>5, <1>6, <1>7, <1>8, <1>9 DEF StepOf

\* Locks are taken by Acquire alone, for a directory nobody has locked, and
\* those of other processes stay.
LEMMA LockSteps ==
  ASSUME TypeOK, NEW p \in Procs, StepOf(p)
  PROVE  /\ \A k \in locks : k.proc # p => k \in locks'
         /\ \/ locks' \subseteq locks
            \/ /\ locks' = locks \cup {LockOf(p)}
               /\ \A k \in locks : ~(k.fork = Fork(p) /\ k.born = job[p].born)
<1> USE DEF Free, Over, Fail
<1>1. CASE \E cmd \in Commands, f, from \in Forks : Start(p, cmd, f, from)
  BY <1>1 DEF Start
<1>2. CASE \/ Derive(p) \/ Pool(p) \/ Fill(p) \/ Exists(p) \/ OpenLock(p)
           \/ Load(p) \/ Check(p) \/ Kill(p) \/ MkDir(p)
  BY <1>2 DEF Derive, Pool, Fill, Exists, OpenLock, Load, Check, Kill, MkDir
<1>3. CASE WriteFile(p) \/ FileWritten(p) \/ WriteLog(p) \/ AppendLine(p) \/ Delete(p)
  BY <1>3 DEF WriteFile, FileWritten, WriteLog, AppendLine, Delete
<1>4. CASE Acquire(p)
  <2>1. locks' = locks \/ locks' = locks \cup {LockOf(p)}
    BY <1>4 DEF Acquire, LockOf
  <2>2. \A k \in locks : ~(k.fork = Fork(p) /\ k.born = job[p].born)
    BY <1>4 DEF Acquire, Grant
  <2> QED BY <2>1, <2>2
<1> QED BY <1>1, <1>2, <1>3, <1>4 DEF StepOf

\* Two processes never hold the lock of one fork.
LEMMA OneLocked ==
  ASSUME FilesInv, NEW p \in Procs, NEW q \in Procs, Locked(p), Locked(q), Fork(p) = Fork(q),
         Fork(p) \notin raced
  PROVE  p = q
<1>1. LockOf(p) \in locks /\ LockOf(q) \in locks /\ job[p].born = job[q].born
  BY DEF FilesInv, ProcInv, Relies, Holds, Locked, Shooting, At, Busy
<1>2. LockOf(p) = LockOf(q)
  BY <1>1 DEF FilesInv, OneHolder, LockOf
<1> QED BY <1>2 DEF LockOf

\* A fork that loads still does when its own files stay: manifests in the
\* pool are never taken away.
LEMMA LoadsStay ==
  ASSUME TypeOK, TypeOK', NEW p \in Procs, StepOf(p), NEW f \in Forks, Loads(f), Same(f)
  PROVE  Loads(f)' /\ StateOf(f)' = StateOf(f)
<1>1. pool'[file[f]] = "whole"
  <2>1. file[f] \in State /\ pool[file[f]] = "whole"
    BY DEF Loads, Anchored, TypeOK
  <2> QED BY <2>1, PoolSteps DEF TypeOK
<1> QED BY <1>1 DEF Loads, Anchored, Same, StateOf

\* Where another process's step changes f, nobody is that relies on f.
LEMMA Apart ==
  ASSUME FilesInv, TypeOK', NEW p \in Procs, NEW q \in Procs, q # p, StepOf(p),
         Busy(q), Fork(q) \notin raced', raced \subseteq raced', Exclusive', ~Same(Fork(q))
  PROVE  /\ ~Founding(q) /\ ~Removing(q) /\ ~Deleting(q) /\ ~At(q, "append") /\ ~Shooting(q)
         /\ Locked(q) \/ At(q, "acquire") =>
              Fork(q) \in dir' /\ born'[Fork(q)] = born[Fork(q)]
<1>f. PICK f \in Forks : f = Fork(q)
  BY JobTypes DEF FilesInv, AnchorInv, Busy
<1>0. /\ TypeOK /\ Role(p) /\ Role(q) /\ f \notin raced /\ f \notin raced'
      /\ job'[q] = job[q] /\ job[q] \in Job
  BY <1>f, OwnJob, JobTypes DEF FilesInv, AnchorInv, ProcInv, Busy
<1>1. /\ Busy(p) /\ Fork(p) = f /\ ~Fail(p)
      /\ \/ Founding(p) /\ (MkDir(p) \/ WriteFile(p) \/ FileWritten(p) \/ WriteLog(p))
         \/ Shooting(p) /\ (WriteFile(p) \/ FileWritten(p))
         \/ AppendLine(p) \/ Removed(p) \/ Delete(p)
      /\ f \in dir => Delete(p) \/ f \in dir'
      /\ born'[f] = born[f] \/ (MkDir(p) /\ f \notin dir)
  BY <1>0, <1>f, Touch
<1>2. ~Clash(f) /\ ~Clash(f)'
  BY <1>0 DEF FilesInv, Exclusive
<1>3. Holds(p) /\ Ready(p) /\ Clear(p) /\ Holds(q) /\ Ready(q) /\ Clear(q)
  BY <1>0, <1>1, <1>f DEF FilesInv, ProcInv, Relies
<1> DEFINE Rel == Founding(q) \/ Removing(q) \/ Deleting(q) \/ Locked(q) \/ At(q, "acquire")
<1>4. Rel => About(q, f) /\ About(q, f)'
  BY <1>0, <1>f DEF About, Founding, Removing, Deleting, Locked, Shooting, At, Role, Making, Busy, Fork
<1>5. Removing(q) \/ Deleting(q) => Unmaking(q)
  BY DEF Removing, Deleting, Unmaking, Busy
<1> HIDE DEF Rel
<1>6. CASE Founding(p)
  <2>1. About(p, f)
    BY <1>1, <1>6 DEF About, Founding, Busy
  <2>2. ~Founding(q) /\ ~Removing(q) /\ ~Deleting(q)
    BY <1>2, <1>4, <1>5, <1>6, <2>1 DEF Clash, Rel
  <2>3. log[f] = Absent
    BY <1>1, <1>3, <1>6 DEF Clear
  <2>4. ~At(q, "append") /\ ~Shooting(q)
    BY <1>f, <1>3, <2>3 DEF Ready, Loads
  <2>5. ~Delete(p)
    BY <1>6 DEF Delete, Founding, At
  <2> QED BY <1>1, <1>3, <2>2, <2>4, <2>5, <1>f DEF Holds
<1>7. CASE Shooting(p) \/ AppendLine(p)
  <2>1. Locked(p) /\ About(p, f)
    BY <1>0, <1>1, <1>7
       DEF About, Shooting, AppendLine, At, Locked, Busy, Role, Making
  <2>2. ~Removing(q) /\ ~Deleting(q)
    BY <1>2, <1>4, <1>5, <2>1 DEF Clash, Rel
  <2>3. log[f] # Absent
    BY <1>1, <1>3, <1>7 DEF Ready, Loads, AppendLine
  <2>4. ~Founding(q)
    BY <1>f, <1>3, <2>3 DEF Clear
  <2>5. ~Locked(q)
    BY <1>0, <1>1, <2>1, OneLocked, <1>f
  <2>6. ~Delete(p) /\ ~MkDir(p)
    BY <2>1 DEF Delete, MkDir, Locked, Shooting, At
  <2> QED BY <1>1, <1>3, <2>2, <2>4, <2>5, <2>6, <1>f DEF Holds, Locked
<1>8. CASE Removed(p)
  <2>1. job' = [job EXCEPT ![p].pc = "delete"] /\ job[p] \in Job
    BY <1>0, <1>8, JobTypes DEF Removed, Acquire, Goto, At
  <2>2. job'[p] = [job[p] EXCEPT !.pc = "delete"]
    BY <1>0, <2>1 DEF TypeOK
  <2>3. job'[p] # NoJob /\ job'[p].pc = "delete" /\ job'[p].cmd \in {"remove", "force"}
        /\ job'[p].fork = job[p].fork
    BY <1>8, <2>1, <2>2, FilesAssumption DEF Removed, TypeOK, Job, Steps
  <2>4. About(p, f)' /\ Unmaking(p)'
    BY <1>1, <2>3 DEF About, Unmaking, At, Fork
  <2>5. ~Rel
    BY <1>2, <1>4, <2>4 DEF Clash
  <2> QED BY <2>5 DEF Locked, Rel
<1>9. CASE Delete(p)
  <2>1. About(p, f) /\ Unmaking(p)
    BY <1>0, <1>1, <1>9 DEF About, Unmaking, Delete, At, Role
  <2>2. ~Rel
    BY <1>2, <1>4, <2>1 DEF Clash, Rel
  <2> QED BY <2>2 DEF Locked, Rel
<1> QED BY <1>1, <1>6, <1>7, <1>8, <1>9

\* What a process relies on, another process's step leaves so.
LEMMA OthersKeep ==
  ASSUME FilesInv, TypeOK', NEW p \in Procs, NEW q \in Procs, q # p, StepOf(p),
         raced \subseteq raced', Exclusive'
  PROVE  ProcInv(q)'
<1>0. TypeOK /\ Role(p) /\ ProcInv(q) /\ job'[q] = job[q]
  BY OwnJob DEF FilesInv, AnchorInv, ProcInv
<1>1. /\ Busy(q)' = Busy(q) /\ Fork(q)' = Fork(q) /\ Making(q)' = Making(q)
      /\ Founding(q)' = Founding(q) /\ Removing(q)' = Removing(q) /\ Deleting(q)' = Deleting(q)
      /\ Shooting(q)' = Shooting(q) /\ Locked(q)' = Locked(q) /\ LockOf(q)' = LockOf(q)
      /\ \A pc \in Steps : At(q, pc)' = At(q, pc)
  BY <1>0 DEF Busy, Fork, Making, Founding, Removing, Deleting, Shooting, Locked, LockOf, At
<1>2. Role(q)'
  BY <1>0, <1>1 DEF ProcInv, Role
<1> SUFFICES ASSUME Busy(q), Fork(q) \notin raced' PROVE Holds(q)' /\ Ready(q)' /\ Clear(q)'
  BY <1>1, <1>2 DEF ProcInv, Relies
<1>3. /\ Fork(q) \in Forks /\ job[q] \in Job
      /\ Holds(q) /\ Ready(q) /\ Clear(q)
  BY <1>0, JobTypes DEF Busy, ProcInv, Relies
<1>4. LockOf(q) \in locks => LockOf(q) \in locks'
  BY <1>0, LockSteps DEF LockOf
<1>6. CASE Same(Fork(q))
  <2>1. Loads(Fork(q)) => Loads(Fork(q))' /\ StateOf(Fork(q))' = StateOf(Fork(q))
    <3> SUFFICES ASSUME Loads(Fork(q)) PROVE Loads(Fork(q))' /\ StateOf(Fork(q))' = StateOf(Fork(q))
      OBVIOUS
    <3>1. PICK f \in Forks : f = Fork(q)
      BY <1>3
    <3>2. Loads(f)' /\ StateOf(f)' = StateOf(f)
      BY <1>0, <1>6, <3>1, LoadsStay
    <3> QED BY <1>1, <3>1, <3>2 DEF Loads, Anchored, StateOf
  <2>2. Ready(q)'
    BY <1>0, <1>1, <1>3, <1>6, <2>1 DEF Ready, Same, Steps
  <2>3. Clear(q)'
    BY <1>0, <1>1, <1>3, <1>6 DEF Clear, Same, NoAcked
  <2>4. Holds(q)'
    BY <1>0, <1>1, <1>3, <1>4, <1>6 DEF Holds, Same, Steps
  <2> QED BY <2>2, <2>3, <2>4
<1>7. CASE ~Same(Fork(q))
  <2>1. /\ ~Founding(q) /\ ~Removing(q) /\ ~Deleting(q) /\ ~At(q, "append") /\ ~Shooting(q)
        /\ Locked(q) \/ At(q, "acquire") =>
             Fork(q) \in dir' /\ born'[Fork(q)] = born[Fork(q)]
    BY <1>7, Apart
  <2>2. Ready(q)'
    BY <1>1, <2>1 DEF Ready, Steps
  <2>3. Clear(q)'
    BY <1>1, <2>1 DEF Clear
  <2>4. Holds(q)'
    BY <1>0, <1>1, <1>3, <1>4, <2>1 DEF Holds, Steps
  <2> QED BY <2>2, <2>3, <2>4
<1> QED BY <1>6, <1>7

\* A command that moves on is still the same command.
LEMMA Moved ==
  ASSUME TypeOK, NEW p \in Procs, Busy(p), NEW pc \in Steps, job' = [job EXCEPT ![p].pc = pc]
  PROVE  /\ Busy(p)' /\ job'[p] \in Job /\ Fork(p)' = Fork(p) /\ job'[p].pc = pc
         /\ job'[p].cmd = job[p].cmd
         /\ job'[p].state = job[p].state /\ job'[p].born = job[p].born
<1>1. job[p] \in Job
  BY DEF TypeOK, Busy
<1>2. job'[p] = [job[p] EXCEPT !.pc = pc]
  BY DEF TypeOK
<1>3. job'[p] \in Job
  BY <1>1, <1>2 DEF Job
<1> QED BY <1>1, <1>2, <1>3, FilesAssumption DEF Busy, Fork, Job

\* Where no command is, nothing is relied on.
LEMMA Ended ==
  ASSUME TypeOK, NEW p \in Procs, job' = [job EXCEPT ![p] = NoJob]
  PROVE  ProcInv(p)'
<1>1. ~Busy(p)'
  BY DEF TypeOK, Busy
<1> QED BY <1>1 DEF Busy, ProcInv, Role, Relies

\* Nor where one begins.
LEMMA Begun ==
  ASSUME NEW p \in Procs, NEW cmd \in Commands, NEW f, NEW from, NEW pc \in {"derive", "check", "lock"},
         job'[p] = Begin(cmd, f, from, pc),
         pc = "derive" <=> cmd \in {"fork", "ensure"}, pc = "check" <=> cmd = "remove"
  PROVE  ProcInv(p)'
<1>1. job'[p].cmd = cmd /\ job'[p].pc = pc
  BY DEF Begin
<1>2. /\ ~Locked(p)' /\ ~Shooting(p)' /\ ~Founding(p)' /\ ~Removing(p)' /\ ~Deleting(p)'
      /\ ~At(p, "acquire")' /\ ~At(p, "append")'
  BY <1>1 DEF Locked, Shooting, Founding, Removing, Deleting, At
<1>3. Role(p)'
  BY <1>1 DEF Role, Making
<1> QED BY <1>2, <1>3 DEF ProcInv, Relies, Holds, Ready, Clear

\* The append after ensure_fork is such a beginning.
LEMMA Applied ==
  ASSUME TypeOK, NEW p \in Procs, Apply(p)
  PROVE  ProcInv(p)'
<1>1. job'[p] = Begin("apply", Fork(p), Fork(p), "lock")
  BY DEF Apply, TypeOK
<1> QED BY <1>1, Begun DEF Commands

\* No line is acknowledged in a fork without lines, unless commands clashed
\* on its name.
LEMMA NoneKept ==
  ASSUME Kept, NEW f, f \notin raced, log[f] \in {Absent, <<>>}
  PROVE  NoAcked(f)
BY DEF Kept, NoAcked

\* Steps of a creation.
LEMMA MakingKeeps ==
  ASSUME FilesInv, NEW p \in Procs, Making(p), ~Fail(p), raced \subseteq raced',
         Derive(p) \/ Pool(p) \/ Fill(p) \/ Exists(p) \/ MkDir(p) \/ WriteFile(p)
           \/ FileWritten(p) \/ WriteLog(p)
  PROVE  ProcInv(p)'
<1> USE DEF Busy, At, Goto, Pooled
<1>0. /\ TypeOK /\ ProcInv(p) /\ Busy(p) /\ job[p] \in Job
      /\ job[p].cmd \in {"fork", "ensure"} /\ Fork(p) \in Forks
  BY JobTypes DEF FilesInv, AnchorInv, ProcInv, Role, Making, TypeOK
<1>a. ASSUME Busy(p)', job'[p].cmd = job[p].cmd, job'[p].pc \in {"pool", "fill", "absent"}
      PROVE  ProcInv(p)'
  BY <1>0, <1>a
     DEF ProcInv, Role, Relies, Holds, Ready, Clear, Founding, Making, Removing, Deleting,
         Shooting, Locked
<1>b. Fork(p) \notin raced /\ Founding(p) => log[Fork(p)] = Absent
  BY <1>0 DEF ProcInv, Relies, Clear
<1>c. ASSUME Busy(p)', job'[p].cmd = job[p].cmd,
             job'[p].pc \in {"mkdir", "file", "written", "log"}, Fork(p)' = Fork(p),
             Fork(p) \notin raced => log'[Fork(p)] = Absent,
             job'[p].pc = "mkdir" => Fork(p) \notin dir',
             job'[p].pc = "written" => file'[Fork(p)] # Absent,
             job'[p].pc = "log" => (Fork(p) \notin raced => file'[Fork(p)] = job'[p].state)
      PROVE  ProcInv(p)'
  <2>1. Role(p)'
    BY <1>0, <1>c DEF Role, Making
  <2>2. ~Locked(p)' /\ ~Shooting(p)' /\ ~Removing(p)' /\ ~Deleting(p)' /\ ~At(p, "acquire")'
        /\ ~At(p, "append")'
    BY <1>0, <1>c DEF Locked, Shooting, Removing, Deleting
  <2> QED BY <1>c, <2>1, <2>2 DEF ProcInv, Relies, Holds, Ready, Clear
<1>1. CASE Derive(p)
  <2>1. /\ job' = [job EXCEPT ![p].from = Fork(p), ![p].state = StateOf(job[p].from),
                              ![p].pc = "pool"]
        /\ Loads(job[p].from)
    BY <1>1 DEF Derive
  <2>2. PICK m \in State : m = StateOf(job[p].from)
    BY <1>0, <2>1, JobTypes, StateOfType
  <2>3. job'[p] = [job[p] EXCEPT !.from = Fork(p), !.state = m, !.pc = "pool"]
    BY <1>0, <2>1, <2>2 DEF TypeOK
  <2>4. job'[p] \in Job /\ job'[p].cmd = job[p].cmd /\ job'[p].pc = "pool"
    BY <1>0, <2>2, <2>3 DEF Job, Steps
  <2> QED BY <1>a, <2>4, FilesAssumption
<1>2. CASE Pool(p) \/ Fill(p)
  <2>1. PICK pc \in {"fill", "absent"} : job' = [job EXCEPT ![p].pc = pc]
    BY <1>0, <1>2 DEF Pool, Fill
  <2> QED BY <1>0, <1>a, <2>1, Moved DEF Steps
<1>3. CASE Exists(p)
  <2>1. CASE Fork(p) \notin dir
    <3>1. log[Fork(p)] = Absent
      BY <1>0, <2>1 DEF FilesInv, ForkInv, Gone
    <3>2. job' = [job EXCEPT ![p].pc = "mkdir"] /\ UNCHANGED <<dir, log>>
      BY <1>3, <2>1 DEF Exists, disk
    <3> QED BY <1>0, <1>c, <2>1, <3>1, <3>2, Moved DEF Steps
  <2>2. CASE Fork(p) \in dir
    BY <1>0, <1>3, <2>2, Applied DEF Exists
  <2> QED BY <2>1, <2>2
<1>4. CASE MkDir(p)
  <2>1. job' = [job EXCEPT ![p].pc = "file"] /\ UNCHANGED log
    BY <1>4 DEF MkDir
  <2>2. Founding(p)
    BY <1>0, <1>4 DEF MkDir, Founding
  <2> QED BY <1>0, <1>b, <1>c, <2>1, <2>2, Moved DEF Steps
<1>5. CASE WriteFile(p)
  <2>1. /\ job' = [job EXCEPT ![p].pc = "written"] /\ UNCHANGED log
        /\ file' = [file EXCEPT ![Fork(p)] = Torn]
    BY <1>5 DEF WriteFile
  <2>2. Founding(p)
    BY <1>0, <1>5 DEF WriteFile, Founding
  <2>3. file'[Fork(p)] # Absent
    BY <1>0, <2>1, FilesAssumption DEF TypeOK
  <2> QED BY <1>0, <1>b, <1>c, <2>1, <2>2, <2>3, Moved DEF Steps
<1>6. CASE FileWritten(p)
  <2>1. /\ job' = [job EXCEPT ![p].pc = "log"] /\ UNCHANGED log
        /\ file' = [file EXCEPT ![Fork(p)] = IF @ = Absent THEN Absent ELSE job[p].state]
    BY <1>0, <1>6 DEF FileWritten
  <2>2. Founding(p) /\ job[p].pc = "written"
    BY <1>0, <1>6 DEF FileWritten, Founding
  <2>3. Fork(p) \notin raced => file'[Fork(p)] = job[p].state
    BY <1>0, <2>1, <2>2 DEF TypeOK, ProcInv, Relies, Clear
  <2> QED BY <1>0, <1>b, <1>c, <2>1, <2>2, <2>3, Moved DEF Steps
<1>7. CASE WriteLog(p)
  <2>1. CASE job[p].cmd = "fork"
    BY <1>0, <1>7, <2>1, Ended DEF WriteLog, Over
  <2>2. CASE job[p].cmd # "fork"
    BY <1>0, <1>7, <2>2, Applied DEF WriteLog
  <2> QED BY <2>1, <2>2
<1> QED BY <1>1, <1>2, <1>3, <1>4, <1>5, <1>6, <1>7

\* A command that begins.
LEMMA StartKeeps ==
  ASSUME FilesInv, NEW p \in Procs, NEW cmd \in Commands, NEW f \in Forks, NEW from \in Forks,
         Start(p, cmd, f, from)
  PROVE  ProcInv(p)'
<1>1. PICK pc \in {"derive", "check", "lock"} :
        /\ job'[p] = Begin(cmd, f, from, pc)
        /\ pc = "derive" <=> cmd \in {"fork", "ensure"}
        /\ pc = "check" <=> cmd = "remove"
  BY DEF Start, FilesInv, AnchorInv, TypeOK
<1> QED BY <1>1, Begun

\* Removals: the check, the wait for the lock, and the deletion.
LEMMA RemovalKeeps ==
  ASSUME FilesInv, NEW p \in Procs, ~Fail(p), job' # [job EXCEPT ![p] = NoJob],
         raced \subseteq raced', Check(p) \/ Delete(p) \/ Removed(p)
  PROVE  ProcInv(p)'
<1> USE DEF Busy, At
<1>0. /\ TypeOK /\ ProcInv(p) /\ Busy(p) /\ job[p] \in Job /\ Fork(p) \in Forks
      /\ job[p].cmd \in {"remove", "force"}
  <2>1. TypeOK /\ ProcInv(p) /\ Busy(p)
    BY DEF FilesInv, AnchorInv, Check, Delete, Removed, Acquire
  <2>2. job[p].cmd \in {"remove", "force"}
    BY <2>1 DEF ProcInv, Role, Check, Delete, Removed
  <2> QED BY <2>1, <2>2, JobTypes
<1>a. ASSUME Busy(p)', job'[p].cmd = job[p].cmd, Fork(p)' = Fork(p),
             job'[p].pc \in {"lock", "delete"},
             job'[p].pc = "lock" => job[p].cmd = "remove",
             job'[p].pc = "lock" /\ Fork(p) \notin raced => NoAcked(Fork(p)) /\ UNCHANGED acked,
             job'[p].pc = "delete" /\ Fork(p) \notin raced =>
               (\A a \in acked' : a.fork # Fork(p)) /\ Fork(p) \notin made'
      PROVE  ProcInv(p)'
  <2>1. /\ ~Locked(p)' /\ ~Shooting(p)' /\ ~Making(p)' /\ ~Founding(p)'
        /\ ~At(p, "acquire")' /\ ~At(p, "append")'
    BY <1>0, <1>a DEF Locked, Shooting, Making, Founding
  <2>2. Role(p)'
    BY <1>0, <1>a, <2>1 DEF Role
  <2>3. Fork(p) \notin raced /\ Removing(p)' => NoAcked(Fork(p))'
    BY <1>a DEF Removing, NoAcked
  <2>4. Fork(p) \notin raced /\ Deleting(p)' => NoAcked(Fork(p))' /\ (Fork(p) \notin made)'
    BY <1>a DEF Deleting, NoAcked
  <2> QED BY <1>a, <2>1, <2>2, <2>3, <2>4 DEF ProcInv, Relies, Holds, Ready, Clear
<1>1. CASE Check(p)
  <2>1. Removable(Fork(p)) /\ job' = [job EXCEPT ![p].pc = "lock"] /\ UNCHANGED acked
    BY <1>1 DEF Check, Goto, past
  <2>2. job[p].cmd = "remove" /\ (Fork(p) \notin raced => NoAcked(Fork(p)))
    BY <1>0, <1>1, <2>1, NoneKept DEF FilesInv, Removable, ProcInv, Role, Check
  <2> QED BY <1>0, <1>a, <2>1, <2>2, Moved DEF Steps
<1>2. CASE Removed(p)
  <2>1. /\ job' = [job EXCEPT ![p].pc = "delete"]
        /\ acked' = IF job[p].cmd = "force" THEN {a \in acked : a.fork # Fork(p)} ELSE acked
        /\ made' = made \ {Fork(p)}
    BY <1>0, <1>2 DEF Removed, Acquire, Goto
  <2>2. Fork(p) \notin raced => \A a \in acked' : a.fork # Fork(p)
    <3>1. CASE job[p].cmd = "force"
      BY <2>1, <3>1
    <3>2. CASE job[p].cmd = "remove"
      BY <1>0, <1>2, <2>1, <3>2
         DEF Removed, Acquire, ProcInv, Relies, Clear, Removing, NoAcked
    <3> QED BY <1>0, <3>1, <3>2
  <2> QED BY <1>0, <1>a, <2>1, <2>2, Moved DEF Steps
<1>3. CASE Delete(p)
  <2>1. job' = job /\ UNCHANGED <<acked, made>>
    BY <1>0, <1>3 DEF Delete, past, Over
  <2>2. Fork(p) \notin raced => NoAcked(Fork(p)) /\ Fork(p) \notin made
    BY <1>0, <1>3 DEF Delete, ProcInv, Relies, Clear, Deleting
  <2> QED BY <1>0, <1>3, <1>a, <2>1, <2>2 DEF Delete, NoAcked, Fork
<1> QED BY <1>1, <1>2, <1>3

\* The lock: its file is opened, it is granted, and the state is loaded.
LEMMA LockingKeeps ==
  ASSUME FilesInv, TypeOK', NEW p \in Procs, ~Fail(p), raced \subseteq raced',
         OpenLock(p) \/ Load(p) \/ (Acquire(p) /\ ~Removed(p))
  PROVE  ProcInv(p)'
<1> USE DEF Busy, At
<1>0. /\ TypeOK /\ ProcInv(p) /\ Busy(p) /\ job[p] \in Job /\ Fork(p) \in Forks
      /\ job[p].cmd \notin {"fork", "ensure"}
  <2>1. TypeOK /\ ProcInv(p) /\ Busy(p)
    BY DEF FilesInv, AnchorInv, OpenLock, Load, Acquire
  <2>2. job[p].cmd \notin {"fork", "ensure"}
    BY <2>1 DEF ProcInv, Role, Making, OpenLock, Load, Acquire
  <2> QED BY <2>1, <2>2, JobTypes
<1>1. CASE OpenLock(p)
  <2>0. /\ job' = [job EXCEPT ![p].born = born[Fork(p)], ![p].pc = "acquire"]
        /\ UNCHANGED <<born, acked, dir>> /\ Fork(p) \in dir
    BY <1>1 DEF OpenLock, disk, past
  <2>1. job'[p] = [job[p] EXCEPT !.born = born[Fork(p)], !.pc = "acquire"]
    BY <1>0, <2>0 DEF TypeOK
  <2>2. /\ job'[p].cmd = job[p].cmd /\ job'[p].pc = "acquire"
        /\ job'[p].born = born[Fork(p)] /\ Fork(p)' = Fork(p)
    BY <1>0, <2>1 DEF Job, Fork
  <2>3. /\ ~Locked(p)' /\ ~Shooting(p)' /\ ~Making(p)' /\ ~Founding(p)' /\ ~Deleting(p)'
        /\ ~At(p, "append")'
    BY <2>2 DEF Locked, Shooting, Making, Founding, Deleting
  <2>4. Role(p)'
    BY <1>0, <2>2, <2>3 DEF ProcInv, Role
  <2>5. Fork(p) \notin raced /\ Removing(p)' => NoAcked(Fork(p))'
    BY <1>0, <1>1, <2>0, <2>2 DEF Removing, NoAcked, ProcInv, Relies, Clear, OpenLock
  <2>6. Fork(p) \notin raced => Clear(p)'
    BY <2>3, <2>5 DEF Clear
  <2>7. Holds(p)' /\ Ready(p)'
    BY <2>0, <2>2, <2>3 DEF Holds, Ready
  <2> QED BY <2>2, <2>4, <2>6, <2>7 DEF ProcInv, Relies
<1>2. CASE Acquire(p) /\ ~Removed(p)
  <2>1. /\ job' = [job EXCEPT ![p].pc = "load"] /\ locks' = locks \cup {LockOf(p)}
        /\ job[p].cmd \notin {"remove", "force"} /\ UNCHANGED <<born, acked, dir>>
    BY <1>2 DEF Removed, Acquire, Goto, LockOf, disk
  <2>2. /\ job'[p].cmd = job[p].cmd /\ job'[p].pc = "load"
        /\ job'[p].born = job[p].born /\ Fork(p)' = Fork(p)
    BY <1>0, <2>1, Moved DEF Steps
  <2>3. /\ ~Shooting(p)' /\ ~Making(p)' /\ ~Founding(p)' /\ ~Deleting(p)' /\ ~Removing(p)'
        /\ ~At(p, "append")' /\ ~At(p, "acquire")' /\ LockOf(p)' = LockOf(p)
    BY <2>2 DEF Shooting, Making, Founding, Deleting, Removing, LockOf
  <2>4. Role(p)'
    BY <1>0, <2>1, <2>2, <2>3 DEF ProcInv, Role, Job, Commands
  <2>5. Fork(p) \notin raced => Fork(p) \in dir /\ job[p].born = born[Fork(p)]
    BY <1>0, <1>2 DEF Acquire, ProcInv, Relies, Holds
  <2>6. Fork(p) \notin raced => Holds(p)'
    BY <2>1, <2>2, <2>3, <2>5 DEF Holds
  <2> QED BY <2>2, <2>3, <2>4, <2>6 DEF ProcInv, Relies, Ready, Clear
<1>3. CASE Load(p)
  <2>0. PICK pc \in Steps :
          /\ pc = IF job[p].cmd = "snapshot" THEN "pool" ELSE "append"
          /\ job' = [job EXCEPT ![p].state = StateOf(Fork(p)), ![p].pc = pc]
          /\ Loads(Fork(p)) /\ UNCHANGED <<disk, locks, past>>
    BY <1>3 DEF Load, Steps
  <2>m. PICK m \in State : m = StateOf(Fork(p))
    BY <1>0, <2>0, StateOfType
  <2>1. job'[p] = [job[p] EXCEPT !.state = m, !.pc = pc]
    BY <1>0, <2>0, <2>m DEF TypeOK
  <2>2. /\ job'[p].cmd = job[p].cmd /\ job'[p].pc = pc
        /\ job'[p].born = job[p].born /\ Fork(p)' = Fork(p) /\ job'[p].state = m
    BY <1>0, <2>1 DEF Job, Fork
  <2>3. /\ ~Making(p)' /\ ~Founding(p)' /\ ~Deleting(p)' /\ ~Removing(p)'
        /\ ~At(p, "acquire")' /\ LockOf(p)' = LockOf(p)
    <3>1. job'[p].pc = "append" \/ (job'[p].pc = "pool" /\ job'[p].cmd = "snapshot")
      BY <2>0, <2>2
    <3>2. ~Making(p)'
      BY <3>1 DEF Making
    <3> QED BY <2>2, <3>1, <3>2 DEF Founding, Deleting, Removing, LockOf
  <2>4. Role(p)'
    BY <1>0, <1>3, <2>0, <2>2, <2>3 DEF ProcInv, Role, Load
  <2>5. Fork(p) \notin raced =>
          Locked(p) /\ Fork(p) \in dir /\ job[p].born = born[Fork(p)] /\ LockOf(p) \in locks
    BY <1>0, <1>3 DEF Load, Locked, ProcInv, Relies, Holds
  <2>6. Fork(p) \notin raced => Holds(p)'
    BY <2>0, <2>2, <2>3, <2>5 DEF Holds, disk
  <2>7. Ready(p)'
    <3>1. Loads(Fork(p))' /\ StateOf(Fork(p))' = m
      BY <2>0, <2>2, <2>m DEF Loads, Anchored, StateOf, disk
    <3>2. ~(Shooting(p) /\ job[p].pc = "written")'
      BY <2>0, <2>2
    <3> QED BY <2>2, <3>1, <3>2 DEF Ready
  <2> QED BY <2>2, <2>3, <2>4, <2>6, <2>7 DEF ProcInv, Relies, Clear
<1> QED BY <1>0, <1>1, <1>2, <1>3

\* Steps of a snapshot: what it loaded stays so under its lock.
LEMMA ShootingKeeps ==
  ASSUME FilesInv, TypeOK', NEW p \in Procs, StepOf(p), Shooting(p), ~Fail(p),
         raced \subseteq raced',
         Pool(p) \/ Fill(p) \/ WriteFile(p) \/ FileWritten(p)
  PROVE  ProcInv(p)'
<1> USE DEF Busy, At
<1>0. /\ TypeOK /\ ProcInv(p) /\ Busy(p) /\ job[p] \in Job /\ Fork(p) \in Forks
      /\ job[p].cmd = "snapshot"
  BY JobTypes DEF FilesInv, AnchorInv, Shooting
<1>1. CASE FileWritten(p)
  BY <1>0, <1>1, Ended DEF FileWritten, Over
<1> SUFFICES ASSUME Fork(p) \notin raced \/ FileWritten(p)
             PROVE  ProcInv(p)'
  <2>1. CASE Pool(p) \/ Fill(p) \/ WriteFile(p)
    <3>1. PICK pc \in {"fill", "file", "written"} : job' = [job EXCEPT ![p].pc = pc]
      BY <1>0, <2>1 DEF Pool, Fill, WriteFile, Pooled, Goto
    <3>2. job'[p].cmd = job[p].cmd /\ Fork(p)' = Fork(p) /\ job'[p].pc = pc
      BY <1>0, <3>1, Moved DEF Steps
    <3>3. Role(p)'
      BY <1>0, <3>2 DEF Role, Making
    <3> QED BY <3>2, <3>3 DEF ProcInv, Relies
  <2> QED BY <2>1
<1>a. ASSUME NEW pc \in {"fill", "file", "written"}, job' = [job EXCEPT ![p].pc = pc],
             UNCHANGED <<locks, born, dir>>, Fork(p) \notin raced
      PROVE  /\ Role(p)' /\ Holds(p)' /\ Clear(p)'
             /\ Fork(p)' = Fork(p) /\ job'[p].pc = pc /\ job'[p].state = job[p].state
             /\ ~At(p, "append")'
  <2>1. /\ Busy(p)' /\ Fork(p)' = Fork(p) /\ job'[p].pc = pc /\ job'[p].cmd = job[p].cmd
        /\ job'[p].state = job[p].state
        /\ job'[p].born = job[p].born
    BY <1>0, <1>a, Moved DEF Steps
  <2>2. ~Making(p)' /\ ~Founding(p)' /\ ~Removing(p)' /\ ~Deleting(p)'
    BY <1>0, <2>1 DEF Making, Founding, Removing, Deleting
  <2>3. Role(p)' /\ Clear(p)'
    BY <1>0, <2>1, <2>2 DEF Role, Clear
  <2>4. LockOf(p) \in locks /\ Fork(p) \in dir /\ job[p].born = born[Fork(p)]
    BY <1>0, <1>a DEF ProcInv, Relies, Holds, Locked
  <2>5. Holds(p)'
    BY <1>a, <2>1, <2>4 DEF Holds, LockOf
  <2> QED BY <2>1, <2>3, <2>5
<1>2. CASE (Pool(p) \/ Fill(p)) /\ Fork(p) \notin raced
  <2>1. PICK pc \in {"fill", "file"} : job' = [job EXCEPT ![p].pc = pc]
    BY <1>0, <1>2 DEF Pool, Fill, Pooled, Goto
  <2>2. UNCHANGED <<locks, born, dir, file, log, past>>
    BY <1>2 DEF Pool, Fill
  <2>3. PICK f \in Forks : f = Fork(p)
    BY <1>0
  <2>4. Loads(f) /\ job[p].state = StateOf(f)
    BY <1>0, <1>2, <2>3 DEF ProcInv, Relies, Ready, Pool, Fill
  <2>5. Loads(f)' /\ StateOf(f)' = StateOf(f)
    <3>1. Same(f)
      BY <2>2 DEF Same, past, half
    <3> QED BY <1>0, <2>4, <3>1, LoadsStay
  <2>6. /\ Role(p)' /\ Holds(p)' /\ Clear(p)'
        /\ Fork(p)' = Fork(p) /\ job'[p].pc = pc /\ job'[p].state = job[p].state
        /\ ~At(p, "append")'
    BY <1>2, <1>a, <2>1, <2>2
  <2>7. Ready(p)'
    <3>1. Loads(Fork(p))' /\ StateOf(Fork(p))' = StateOf(f)
      BY <2>3, <2>5, <2>6 DEF Loads, Anchored, StateOf
    <3> QED BY <2>4, <2>6, <3>1 DEF Ready, Shooting
  <2> QED BY <2>6, <2>7 DEF ProcInv, Relies
<1>3. CASE WriteFile(p) /\ Fork(p) \notin raced
  <2>1. /\ job' = [job EXCEPT ![p].pc = "written"] /\ UNCHANGED <<locks, born, dir, log>>
        /\ file' = [file EXCEPT ![Fork(p)] = Torn]
    BY <1>3 DEF WriteFile, Goto
  <2>2. Loads(Fork(p)) /\ job[p].state = StateOf(Fork(p))
    BY <1>0, <1>3 DEF ProcInv, Relies, Ready, WriteFile
  <2>3. Chains(log[Fork(p)], job[p].state)
    <3>1. log[Fork(p)] \in Seq(Line) /\ file[Fork(p)] \in State
      BY <1>0, <2>2 DEF TypeOK, Loads, Anchored
    <3>2. StateOf(Fork(p)) = Tip(log[Fork(p)], file[Fork(p)])
      BY DEF StateOf, Tip
    <3> QED BY <2>2, <3>1, <3>2, ChainsTip DEF Loads
  <2>4. /\ Role(p)' /\ Holds(p)' /\ Clear(p)'
        /\ Fork(p)' = Fork(p) /\ job'[p].pc = "written" /\ job'[p].state = job[p].state
        /\ ~At(p, "append")'
    BY <1>3, <1>a, <2>1
  <2>5. Ready(p)'
    <3>1. Fork(p) \in dir /\ log[Fork(p)] # Absent
      BY <2>2 DEF Loads
    <3>2. file'[Fork(p)] = Torn
      BY <1>0, <2>1 DEF TypeOK
    <3>3. /\ Fork(p)' \in dir' /\ file'[Fork(p)'] = Torn
          /\ log'[Fork(p)'] # Absent /\ Chains(log[Fork(p)], job[p].state)'
      BY <2>1, <2>3, <2>4, <3>1, <3>2
    <3> QED BY <2>4, <3>3 DEF Ready, Shooting
  <2> QED BY <2>4, <2>5 DEF ProcInv, Relies
<1> QED BY <1>1, <1>2, <1>3

\* What a process relies on, its own step leaves so.
LEMMA OwnKeeps ==
  ASSUME FilesInv, TypeOK', NEW p \in Procs, StepOf(p), raced \subseteq raced'
  PROVE  ProcInv(p)'
<1>0. TypeOK /\ ProcInv(p)
  BY DEF FilesInv, AnchorInv
<1>1. CASE \E cmd \in Commands, f, from \in Forks : Start(p, cmd, f, from)
  BY <1>1, StartKeeps
<1>2. CASE Fail(p) \/ Kill(p) \/ job' = [job EXCEPT ![p] = NoJob]
  BY <1>0, <1>2, Ended DEF Fail, Kill, Over
<1> SUFFICES ASSUME ~Fail(p), job' # [job EXCEPT ![p] = NoJob] PROVE ProcInv(p)'
  BY <1>1, <1>2
<1>3. CASE AppendLine(p)
  BY <1>3 DEF AppendLine, Over
<1>4. CASE Check(p) \/ Delete(p)
  BY <1>4, RemovalKeeps
<1>5. CASE OpenLock(p) \/ Load(p)
  BY <1>5, LockingKeeps
<1>6. CASE Acquire(p)
  BY <1>6, RemovalKeeps, LockingKeeps
<1>7. CASE \/ Derive(p) \/ Pool(p) \/ Fill(p) \/ Exists(p)
           \/ MkDir(p) \/ WriteFile(p) \/ FileWritten(p) \/ WriteLog(p)
  <2>1. CASE Making(p)
    BY <1>7, <2>1, MakingKeeps
  <2>2. CASE ~Making(p)
    <3>1. Shooting(p) /\ job[p].pc \in {"pool", "fill", "file", "written"}
      BY <1>0, <1>7, <2>2
         DEF ProcInv, Role, Making, Shooting, Busy, At, Derive, Pool, Fill, Exists, MkDir, WriteFile,
             FileWritten, WriteLog
    <3>2. Pool(p) \/ Fill(p) \/ WriteFile(p) \/ FileWritten(p)
      BY <1>7, <3>1 DEF At, Derive, Exists, MkDir, WriteLog
    <3> QED BY <3>1, <3>2, ShootingKeeps
  <2> QED BY <2>1, <2>2
<1> QED BY <1>1, <1>2, <1>3, <1>4, <1>5, <1>6, <1>7 DEF StepOf

-----------------------------------------------------------------------------
(* Steps and the parts of the invariant that relate processes and forks.   *)

\* Every step notes the names on which it makes two commands clash.
LEMMA Noted ==
  ASSUME NEW p \in Procs, StepOf(p)
  PROVE  NoteRaces
BY DEF StepOf, Start, Derive, Pool, Pooled, Fill, Exists, MkDir, WriteFile, FileWritten, WriteLog,
       OpenLock, Acquire, Load, AppendLine, Check, Delete, Kill, Fail, Over, Goto, Apply

\* A lock has one holder.
LEMMA OneHolderKeeps ==
  ASSUME FilesInv, NEW p \in Procs, StepOf(p)
  PROVE  OneHolder'
<1>1. TypeOK
  BY DEF FilesInv, AnchorInv
<1>2. \/ locks' \subseteq locks
      \/ /\ locks' = locks \cup {LockOf(p)}
         /\ \A k \in locks : ~(k.fork = Fork(p) /\ k.born = job[p].born)
  BY <1>1, LockSteps
<1> QED BY <1>2 DEF FilesInv, OneHolder, LockOf

\* What was said of a fork whose files and promises a step leaves alone.
LEMMA ForkStays ==
  ASSUME FilesInv, TypeOK', NEW p \in Procs, StepOf(p), raced \subseteq raced',
         NEW f \in Forks, Same(f)
  PROVE  ForkInv(f)'
<1>0. TypeOK /\ ForkInv(f) /\ ProcInv(p) /\ \A q \in Procs \ {p} : job'[q] = job[q]
  BY OwnJob DEF FilesInv, AnchorInv
<1>1. Gone(f)'
  BY <1>0 DEF ForkInv, Gone, Same
<1>2. Whole(f)'
  <2> SUFFICES ASSUME f \in made, f \notin raced PROVE Whole(f)'
    BY DEF Whole, Same
  <2>1. f \in dir' /\ log'[f] # Absent
    BY <1>0 DEF ForkInv, Whole, Same
  <2>2. CASE Anchored(f) /\ Chains(log[f], file[f])
    <3>1. Anchored(f)' /\ Chains(log[f], file[f])'
      BY <2>2 DEF Anchored, Same
    <3> QED BY <2>1, <3>1 DEF Whole
  <2>3. CASE ~(Anchored(f) /\ Chains(log[f], file[f]))
    <3>0. file[f] = Torn /\ file'[f] = Torn
      BY <1>0, <2>3 DEF ForkInv, Whole, Same
    <3> SUFFICES ASSUME f \notin halfFork' PROVE Whole(f)'
      BY <2>1, <3>0 DEF Whole
    <3>1. PICK q \in Procs : Shooting(q) /\ Writing(q, f)
      BY <1>0, <2>3 DEF ForkInv, Whole, Same
    <3>2. q # p
      <4> SUFFICES ASSUME q = p PROVE FALSE
        OBVIOUS
      <4>1. (FileWritten(p) \/ Kill(p)) /\ job[p] # NoJob /\ job[p].pc = "written"
        BY <3>1 DEF StepOf, Start, Derive, Pool, Fill, Exists, MkDir, WriteFile, WriteLog, OpenLock,
                    Acquire, Load, AppendLine, Check, Delete, Writing, At
      <4>2. CASE FileWritten(p)
        <5>1. file'[f] = job[p].state
          BY <1>0, <3>0, <3>1, <4>2, FilesAssumption DEF FileWritten, Writing, TypeOK
        <5> QED BY <1>0, <3>0, <4>1, <5>1, JobTypes, FilesAssumption
      <4>3. CASE Kill(p)
        BY <3>1, <4>1, <4>3 DEF Kill, Writing
      <4> QED BY <4>1, <4>2, <4>3
    <3>3. Shooting(q)' /\ Writing(q, f)'
      BY <1>0, <3>1, <3>2 DEF Shooting, Writing, Busy, At, Fork
    <3> QED BY <2>1, <3>0, <3>3 DEF Whole
  <2> QED BY <2>2, <2>3
<1> QED BY <1>1, <1>2 DEF ForkInv

\* What a step does to the fork of its own command.
LEMMA ForkTouched ==
  ASSUME FilesInv, TypeOK', NEW p \in Procs, StepOf(p), raced \subseteq raced', NEW f \in Forks,
         ~Same(f)
  PROVE  ForkInv(f)'
<1> USE DEF Busy, At
<1>i. TypeOK /\ ForkInv(f) /\ ProcInv(p)
  BY DEF FilesInv, AnchorInv
<1>q. /\ Busy(p) /\ Fork(p) = f /\ ~Fail(p)
      /\ \/ Founding(p) /\ (MkDir(p) \/ WriteFile(p) \/ FileWritten(p) \/ WriteLog(p))
         \/ Shooting(p) /\ (WriteFile(p) \/ FileWritten(p))
         \/ AppendLine(p) \/ Removed(p) \/ Delete(p)
  BY <1>i, Touch DEF ProcInv
<1>0. TypeOK /\ ForkInv(f) /\ ProcInv(p) /\ job[p] \in Job /\ Fork(p) = f
  BY <1>i, <1>q, JobTypes
<1>g. Gone(f)'
  BY <1>0, <1>q
     DEF ForkInv, Gone, MkDir, WriteFile, FileWritten, WriteLog, AppendLine, Removed, Acquire,
         Delete, TypeOK, disk
<1>h. ASSUME f \notin raced PROVE Whole(f)'
  <2>r. Ready(p) /\ Clear(p)
    BY <1>0, <1>q, <1>h DEF ProcInv, Relies
  <2>m. Founding(p) => f \notin made
    BY <1>0, <1>h, <2>r DEF ForkInv, Whole, Clear
  <2>a. ASSUME f \notin made' PROVE Whole(f)'
    BY <2>a DEF Whole
  <2>b. ASSUME f \in dir', log'[f] # Absent, Anchored(f)', Chains(log[f], file[f])'
        PROVE  Whole(f)'
    BY <2>b DEF Whole
  <2>1. CASE Founding(p) /\ (MkDir(p) \/ WriteFile(p) \/ FileWritten(p))
    <3>1. made' = made
      BY <1>q, <2>1 DEF MkDir, WriteFile, FileWritten, past
    <3> QED BY <2>1, <2>a, <2>m, <3>1
  <2>2. CASE Shooting(p) /\ WriteFile(p)
    <3>1. /\ dir' = dir /\ log' = log /\ job' = [job EXCEPT ![p].pc = "written"]
          /\ file'[f] = Torn
      BY <1>0, <1>q, <2>2 DEF WriteFile, TypeOK, Goto
    <3>2. f \in dir /\ log[f] # Absent
      BY <1>0, <2>2, <2>r DEF Ready, WriteFile, Loads
    <3>3. Busy(p)' /\ Fork(p)' = f /\ job'[p].pc = "written" /\ job'[p].cmd = "snapshot"
      BY <1>0, <1>q, <2>2, <3>1, Moved DEF Steps, Shooting
    <3>4. Shooting(p)' /\ Writing(p, f)'
      BY <3>3 DEF Shooting, Writing
    <3> QED BY <3>1, <3>2, <3>4 DEF Whole
  <2>3. CASE Shooting(p) /\ FileWritten(p)
    <3>1. /\ dir' = dir /\ log' = log
          /\ file'[f] = IF file[f] = Absent THEN Absent ELSE job[p].state
      BY <1>0, <2>3 DEF FileWritten, TypeOK
    <3>2. f \in dir /\ file[f] = Torn /\ log[f] # Absent /\ Chains(log[f], job[p].state)
      BY <1>0, <2>3, <2>r DEF Ready, FileWritten
    <3>3. job[p].state \in State /\ file'[f] = job[p].state
      BY <1>0, <1>q, <3>1, <3>2, FilesAssumption, JobTypes
    <3>4. Anchored(f)' /\ Chains(log[f], file[f])'
      BY <3>1, <3>2, <3>3, FilesAssumption DEF Anchored
    <3> QED BY <2>b, <3>1, <3>2, <3>4
  <2>4. CASE Founding(p) /\ WriteLog(p)
    <3>1. /\ f \in dir' /\ file' = file /\ log'[f] = <<>>
      BY <1>0, <1>q, <2>4 DEF WriteLog, TypeOK
    <3>2. file[f] = job[p].state /\ job[p].state \in State
      BY <1>0, <1>q, <2>4, <2>r, JobTypes DEF WriteLog, Clear
    <3>3. Anchored(f)'
      BY <3>1, <3>2, FilesAssumption DEF Anchored
    <3>4. Chains(<<>>, job[p].state)
      <4>1. 2..Len(<<>>) = {}
        BY SMT
      <4> QED BY <4>1 DEF Chains
    <3>5. log'[f] # Absent
      <4>1. <<>> \in Seq(Line)
        OBVIOUS
      <4> QED BY <3>1, <4>1, FilesAssumption
    <3>6. Chains(log[f], file[f])'
      BY <3>1, <3>2, <3>4
    <3> QED BY <2>b, <3>1, <3>3, <3>5, <3>6
  <2>5. CASE Removed(p)
    BY <1>0, <2>5, <2>a DEF Removed, Acquire
  <2>6. CASE AppendLine(p)
    <3> DEFINE x == [id |-> used + 1, after |-> job[p].state \cup {used + 1}]
    <3>1. /\ log' = [log EXCEPT ![f] = Append(log[f], x)]
          /\ dir' = dir /\ file' = file /\ log[f] # Absent /\ used # MaxLines
      BY <1>0, <1>q, <2>6 DEF AppendLine
    <3>2. Loads(f) /\ job[p].state = StateOf(f) /\ job[p].state \in State
      BY <1>0, <1>q, <2>6, <2>r, JobTypes DEF AppendLine, Ready
    <3>3. log[f] \in Seq(Line) /\ file[f] \in State /\ Chains(log[f], file[f])
      BY <1>0, <3>1, <3>2 DEF TypeOK, Loads, Anchored
    <3>4. used + 1 \in 1..MaxLines
      BY <1>0, <3>1, FilesAssumption DEF TypeOK
    <3>5. x \in Line
      BY <3>2, <3>4 DEF Line, State
    <3>6. x = [id |-> used + 1, after |-> Tip(log[f], file[f]) \cup {used + 1}]
      BY <3>2 DEF StateOf, Tip
    <3> HIDE DEF x
    <3>7. Chains(Append(log[f], x), file[f]) /\ Append(log[f], x) \in Seq(Line)
      BY <3>3, <3>4, <3>5, <3>6, ChainsGrow
    <3>8. log'[f] = Append(log[f], x) /\ file'[f] = file[f]
      BY <1>0, <3>1 DEF TypeOK
    <3>9. log'[f] # Absent /\ Chains(log[f], file[f])' /\ Anchored(f)' /\ f \in dir'
      BY <3>1, <3>2, <3>7, <3>8, FilesAssumption DEF Anchored, Loads
    <3> QED BY <2>b, <3>9
  <2>7. CASE Delete(p)
    <3>1. f \notin made /\ made' = made
      BY <1>0, <2>7, <2>r DEF Delete, past, Clear, Deleting
    <3> QED BY <2>a, <3>1
  <2> QED BY <1>q, <2>1, <2>2, <2>3, <2>4, <2>5, <2>6, <2>7
<1> QED BY <1>g, <1>h DEF ForkInv, Whole

\* Logs shrink and promises are made in four places only.
LEMMA KeptSteps ==
  ASSUME NEW p \in Procs, StepOf(p), ~Fail(p),
         ~(WriteLog(p) \/ AppendLine(p) \/ Delete(p))
  PROVE  log' = log /\ acked' \subseteq acked
<1>1. CASE Acquire(p)
  BY <1>1 DEF Acquire, disk
<1>2. CASE ~Acquire(p)
  BY <1>2 DEF StepOf, Start, Derive, Pool, Fill, Exists, MkDir, WriteFile, FileWritten, OpenLock,
              Load, Check, Kill, disk, past
<1> QED BY <1>1, <1>2

\* A line whose append returned Ok stays.
LEMMA KeptKeeps ==
  ASSUME FilesInv, NEW p \in Procs, StepOf(p), raced \subseteq raced'
  PROVE  Kept' /\ acked' \subseteq [fork : Forks, id : Nat]
<1>0. /\ TypeOK /\ ProcInv(p) /\ Kept /\ acked \subseteq [fork : Forks, id : Nat]
  BY DEF FilesInv, AnchorInv
<1>1. CASE log' = log /\ acked' \subseteq acked
  BY <1>0, <1>1 DEF Kept
<1>2. CASE Fail(p)
  BY <1>1, <1>2 DEF Fail, disk, past
<1>3. CASE (WriteLog(p) \/ Delete(p)) /\ ~Fail(p)
  <2>1. acked' = acked /\ \A f \in Forks : f # Fork(p) => log'[f] = log[f]
    BY <1>0, <1>3 DEF WriteLog, Delete, past, TypeOK
  <2>2. Fork(p) \notin raced => NoAcked(Fork(p))
    <3>1. CASE Delete(p)
      BY <1>0, <3>1 DEF Delete, ProcInv, Relies, Clear, Deleting, At, Busy
    <3>2. CASE WriteLog(p)
      <4>1. Founding(p)
        BY <1>0, <3>2 DEF WriteLog, ProcInv, Role, Making, Founding, At, Busy
      <4>2. Fork(p) \notin raced => log[Fork(p)] = Absent
        BY <1>0, <3>2, <4>1 DEF WriteLog, ProcInv, Relies, Clear, At, Busy
      <4> QED BY <1>0, <4>2, NoneKept
    <3> QED BY <1>3, <3>1, <3>2
  <2>3. \A a \in acked : a.fork \notin raced =>
          a.fork \in Forks /\ a.fork # Fork(p) /\ log'[a.fork] = log[a.fork]
    BY <1>0, <2>1, <2>2 DEF NoAcked
  <2> QED BY <1>0, <2>1, <2>3 DEF Kept
<1>4. CASE AppendLine(p) /\ ~Fail(p)
  <2>1. PICK f \in Forks : f = Fork(p)
    BY <1>0, <1>4, JobTypes DEF AppendLine, At
  <2> DEFINE x == [id |-> used + 1, after |-> job[p].state \cup {used + 1}]
             a == [fork |-> f, id |-> used + 1]
  <2>2. /\ log[f] # Absent /\ log' = [log EXCEPT ![f] = Append(log[f], x)]
        /\ acked' = acked \cup {a}
    BY <1>4, <2>1 DEF AppendLine
  <2>3. log[f] \in Seq(Line) /\ used + 1 \in Nat
    BY <1>0, <2>2 DEF TypeOK
  <2>t. x.id = used + 1
    OBVIOUS
  <2> HIDE DEF x
  <2>4. /\ log'[f] = Append(log[f], x) /\ Len(log'[f]) = Len(log[f]) + 1
        /\ \A i \in 1..Len(log[f]) : log'[f][i] = log[f][i]
        /\ log'[f][Len(log[f]) + 1] = x /\ Len(log[f]) \in Nat
    BY <1>0, <2>2, <2>3 DEF TypeOK
  <2>5. \A g \in Forks : g # f => log'[g] = log[g]
    BY <1>0, <2>2 DEF TypeOK
  <2>6. log'[f] # Absent
    <3>1. x \in Line
      <4>1. used # MaxLines /\ job[p].state \in State
        BY <1>0, <1>4, JobTypes DEF AppendLine, At
      <4>2. used + 1 \in 1..MaxLines
        BY <1>0, <4>1, FilesAssumption DEF TypeOK
      <4> QED BY <4>1, <4>2 DEF x, Line, State
    <3> QED BY <2>3, <2>4, <3>1, FilesAssumption
  <2>7. ASSUME NEW b \in acked', b.fork \notin raced'
        PROVE  log'[b.fork] # Absent /\ \E i \in 1..Len(log'[b.fork]) : log'[b.fork][i].id = b.id
    <3>1. CASE b \in acked
      <4>1. /\ b.fork \in Forks /\ log[b.fork] # Absent
            /\ \E i \in 1..Len(log[b.fork]) : log[b.fork][i].id = b.id
        BY <1>0, <2>7, <3>1 DEF Kept
      <4>2. CASE b.fork # f
        BY <2>5, <4>1, <4>2
      <4>3. CASE b.fork = f
        <5>1. PICK i \in 1..Len(log[f]) : log[f][i].id = b.id
          BY <4>1, <4>3
        <5>2. i \in 1..Len(log'[f]) /\ log'[f][i].id = b.id
          BY <2>4, <5>1
        <5> QED BY <2>6, <4>3, <5>2
      <4> QED BY <4>2, <4>3
    <3>2. CASE b = a
      <4>1. Len(log[f]) + 1 \in 1..Len(log'[f]) /\ log'[f][Len(log[f]) + 1].id = used + 1
        BY <2>4, <2>t
      <4> QED BY <2>6, <3>2, <4>1
    <3> QED BY <2>2, <3>1, <3>2
  <2>8. a \in [fork : Forks, id : Nat]
    BY <2>3
  <2>9. Kept'
    BY <2>7 DEF Kept
  <2> QED BY <1>0, <2>2, <2>8, <2>9
<1> QED BY <1>1, <1>2, <1>3, <1>4, KeptSteps

\* Only forks are made.
LEMMA MadeTyped ==
  ASSUME TypeOK, NEW p \in Procs, StepOf(p), made \subseteq Forks
  PROVE  made' \subseteq Forks
<1>1. CASE WriteLog(p) /\ ~Fail(p)
  <2>1. made' = made \cup {Fork(p)} /\ Fork(p) \in Forks
    BY <1>1, JobTypes DEF WriteLog, At
  <2> QED BY <2>1
<1>2. CASE Acquire(p)
  BY <1>2 DEF Acquire
<1>3. CASE ~(WriteLog(p) /\ ~Fail(p)) /\ ~Acquire(p)
  BY <1>3 DEF StepOf, Start, Derive, Pool, Fill, Exists, MkDir, WriteFile, FileWritten, WriteLog,
              OpenLock, Load, AppendLine, Check, Delete, Kill, Fail, past
<1> QED BY <1>1, <1>2, <1>3

\* The repository as init leaves it satisfies the invariant.
LEMMA FilesInit == Init => FilesInv
<1> SUFFICES ASSUME Init PROVE FilesInv
  OBVIOUS
<1>1. AnchorInv
  BY AnchorInit
<1>2. \A p \in Procs : ~Busy(p)
  BY DEF Init, Busy
<1>3. \A p \in Procs : ProcInv(p)
  BY <1>2 DEF ProcInv, Role, Relies
<1>4. Exclusive /\ OneHolder
  BY <1>2 DEF Exclusive, Clash, About, OneHolder, Init, Busy
<1>5. ASSUME NEW f \in Forks PROVE ForkInv(f)
  <2>1. CASE f = Main
    <3>1. f \in dir /\ log[f] = <<>> /\ file[f] = {} /\ {} \in State
      BY <2>1 DEF Init, State
    <3>2. <<>> \in Seq(Line) /\ 2..Len(<<>>) = {}
      BY SMT
    <3>3. log[f] # Absent /\ Anchored(f)
      BY <3>1, <3>2, FilesAssumption DEF Anchored
    <3>4. Chains(log[f], file[f])
      BY <3>1, <3>2 DEF Chains
    <3> QED BY <3>1, <3>3, <3>4 DEF ForkInv, Gone, Whole
  <2>2. CASE f # Main
    BY <2>2 DEF Init, ForkInv, Gone, Whole
  <2> QED BY <2>1, <2>2
<1>6. acked \subseteq [fork : Forks, id : Nat] /\ made \subseteq Forks /\ Kept
  BY FilesAssumption DEF Init, Kept
<1> QED BY <1>1, <1>3, <1>4, <1>5, <1>6 DEF FilesInv

\* Every step of every command keeps the invariant.
LEMMA FilesNext ==
  ASSUME FilesInv, [Next]_vars
  PROVE  FilesInv'
<1>1. AnchorInv' /\ TypeOK' /\ TypeOK
  BY AnchorNext DEF FilesInv, AnchorInv
<1>2. CASE UNCHANGED vars
  <2>1. /\ dir' = dir /\ born' = born /\ file' = file /\ log' = log /\ pool' = pool
        /\ locks' = locks /\ job' = job /\ made' = made /\ acked' = acked
        /\ raced' = raced /\ halfFork' = halfFork
    BY <1>2 DEF vars, disk, past, half
  <2>2. Exclusive' /\ OneHolder'
    BY <2>1 DEF FilesInv, Exclusive, OneHolder, Clash, About, Founding, Unmaking, At, Fork
  <2>3. ASSUME NEW p \in Procs PROVE ProcInv(p)'
    <3>1. ProcInv(p)
      BY DEF FilesInv
    <3> QED BY <2>1, <3>1
       DEF ProcInv, Role, Relies, Holds, Ready, Clear, Founding, Making, Removing, Deleting,
           Shooting, Locked, At, Busy, Fork, LockOf, NoAcked, Loads, Anchored, StateOf
  <2>4. ASSUME NEW f \in Forks PROVE ForkInv(f)'
    <3>1. ForkInv(f)
      BY DEF FilesInv
    <3> QED BY <2>1, <3>1 DEF ForkInv, Gone, Whole, Anchored, Shooting, Writing, At, Busy, Fork
  <2>5. Kept'
    BY <2>1 DEF FilesInv, Kept
  <2> QED BY <1>1, <2>1, <2>2, <2>3, <2>4, <2>5 DEF FilesInv
<1>3. CASE Next
  <2>1. PICK p \in Procs : StepOf(p)
    BY <1>3 DEF Next, StepOf
  <2>2. raced \subseteq raced' /\ Exclusive' /\ OneHolder'
    <3>1. NoteRaces
      BY <2>1, Noted
    <3>2. Exclusive'
      BY <3>1 DEF Exclusive, NoteRaces
    <3> QED BY <2>1, <3>1, <3>2, OneHolderKeeps DEF NoteRaces
  <2>3. \A q \in Procs : ProcInv(q)'
    BY <1>1, <2>1, <2>2, OwnKeeps, OthersKeep
  <2>4. ASSUME NEW f \in Forks PROVE ForkInv(f)'
    BY <1>1, <2>1, <2>2, ForkStays, ForkTouched
  <2>5. Kept' /\ acked' \subseteq [fork : Forks, id : Nat] /\ made' \subseteq Forks
    BY <1>1, <2>1, <2>2, KeptKeeps, MadeTyped DEF FilesInv
  <2> QED BY <1>1, <2>2, <2>3, <2>4, <2>5 DEF FilesInv
<1> QED BY <1>2, <1>3

-----------------------------------------------------------------------------
(* Theorems.                                                               *)

\* A line whose append returned Ok stays in its fork unless the fork is
\* removed with --force, whoever else creates, removes, snapshots and appends
\* and wherever processes die, unless two creations both found the fork's
\* directory absent or a removal past its check met another command there
\* (append_change, create_fork_raw, remove_fork).
THEOREM AckedStay == Spec => []Kept
<1>1. FilesInv /\ [Next]_vars => FilesInv'
  BY FilesNext
<1>2. FilesInv => Kept
  BY DEF FilesInv
<1> QED BY FilesInit, <1>1, <1>2, PTL DEF Spec

\* A fork whose creation returned Ok loads until it is removed, with the same
\* exception, but while its file or the manifest it names is being written,
\* and after a death inside either write (current_state).
THEOREM MadeLoad == Spec => []Usable
<1>1. FilesInv /\ [Next]_vars => FilesInv'
  BY FilesNext
<1>2. FilesInv => Usable
  <2> SUFFICES ASSUME FilesInv, NEW f \in made \ raced
               PROVE  \/ Loads(f)
                      \/ f \in halfFork \/ \E p \in Procs : Writing(p, f)
                      \/ /\ Anchored(f)
                         /\ file[f] \in halfAnchor \/ \E p \in Procs : Filling(p, file[f])
    BY DEF Usable
  <2>1. f \in Forks /\ Whole(f)
    BY DEF FilesInv, ForkInv
  <2>2. Anchored(f) =>
          \/ pool[file[f]] = "whole"
          \/ file[f] \in halfAnchor
          \/ \E p \in Procs : Filling(p, file[f])
    <3> SUFFICES ASSUME Anchored(f)
                 PROVE  \/ pool[file[f]] = "whole"
                        \/ file[f] \in halfAnchor
                        \/ \E p \in Procs : Filling(p, file[f])
      OBVIOUS
    <3>1. file[f] \in State /\ pool[file[f]] \in {"none", "torn", "whole"}
      BY <2>1 DEF FilesInv, AnchorInv, TypeOK, Anchored
    <3> QED BY <2>1, <3>1 DEF FilesInv, AnchorInv, AnchorNamed, TornFills
  <2> QED BY <2>1, <2>2 DEF Whole, Loads
<1> QED BY FilesInit, <1>1, <1>2, PTL DEF Spec
=============================================================================
