-------------------------------- MODULE Wire --------------------------------
(***************************************************************************)
(* Repositories that push to and clone from one object store (src/src/     *)
(* wire.rs, remote.rs).  The store computes nothing: it keeps segments and *)
(* a numbered chain of manifests, and its put-if-absent of the next number *)
(* is the only commit point.  A push discovers, reads, plans, uploads and  *)
(* publishes in separate steps, while other pushes, and the editors of its *)
(* own repository, go on.                                                  *)
(***************************************************************************)
EXTENDS Packs

CONSTANTS
  Repos,
  Pushers,     \* processes that run `tally push`
  Home,        \* the repository each of them runs in
  Main,
  Seeds,       \* states a repository may begin at: NoBlob, or a git tree
  MaxCommands, \* commands run on repositories
  MaxManifests,\* manifests in the store before pushes stop planning
  MaxAttempts, \* PUSH_ATTEMPTS
  MaxFaults,   \* pushes that die, and wipes of the store
  LiveEdits,   \* may an editor append between a push's reads of one fork?
  TornForget   \* may a push die half way through invalidating its cache?

\* What a push reads of a fork: its anchor and head, then its log as well.
Reading == [anchor : States, head : Nat, log : Seq(Line) \cup {NoFork}]

ASSUME WireAssumption ==
  /\ NoFork \notin Reading \cup Seq(Line)
  /\ Main \in Forks
  /\ Home \in [Pushers -> Repos]
  /\ Seeds \subseteq States
  /\ {MaxCommands, MaxManifests, MaxFaults} \subseteq Nat /\ MaxAttempts \in Nat \ {0}
  /\ {LiveEdits, TornForget} \subseteq BOOLEAN

VARIABLES
  repo,    \* each repository's forks, pool and remote cache
  chain,   \* the store's manifests
  objects, \* the segment objects the store holds
  push,    \* each push's progress
  made,    \* commands run so far; their numbers are the line ids
  faults   \* faults so far

vars == <<repo, chain, objects, push, made, faults>>

NoRepo ==
  [anchor |-> [f \in Forks |-> NoFork],  \* forks/<f>/fork
   log |-> [f \in Forks |-> <<>>],       \* forks/<f>/log.jsonl
   pool |-> {},                          \* blobs/
   cache |-> <<>>,                       \* manifest.json: the chain it ends
   synced |-> [f \in Forks |-> NoFork]]  \* synced.json

NoPush ==
  [pc |-> "idle", base |-> <<>>, known |-> NoRepo.synced, seen |-> <<>>,
   segs |-> <<>>, put |-> 0, attempt |-> 1]

Init ==
  /\ repo = [r \in Repos |-> NoRepo]
  /\ chain = <<>> /\ objects = {}
  /\ push = [p \in Pushers |-> NoPush]
  /\ made = 0 /\ faults = 0

\* The manifest a chain ends in.
Latest(c) == IF c = <<>> THEN EmptyStore ELSE c[Len(c)]

ForksOf(r) == {f \in Forks : repo[r].anchor[f] # NoFork}
StateOf(r, f) ==
  LET l == repo[r].log[f]
  IN  IF l = <<>> THEN repo[r].anchor[f] ELSE l[Len(l)].new

-----------------------------------------------------------------------------
(* Commands on a repository.                                               *)

Local == <<chain, objects, push, faults>>
Counted == made < MaxCommands /\ made' = made + 1

\* tally init; or tally init --from-git, which anchors main at the imported
\* tree and logs one line that changes nothing.
Create(r, b) ==
  /\ ForksOf(r) = {}
  /\ IF b = NoBlob THEN UNCHANGED made ELSE Counted
  /\ repo' = [repo EXCEPT
       ![r].anchor[Main] = b,
       ![r].log[Main] = IF b = NoBlob THEN <<>>
                        ELSE <<[id |-> made + 1, prev |-> NoId, old |-> b, new |-> b]>>,
       ![r].pool = {b} \ {NoBlob}]
  /\ UNCHANGED Local

\* Any command that appends a line.
Apply(r, f, b) ==
  /\ f \in ForksOf(r)
  /\ b # StateOf(r, f)
  /\ \A p \in Pushers : Home[p] = r /\ push[p].pc = "reread" => LiveEdits
  /\ Counted
  /\ repo' = [repo EXCEPT
       ![r].log[f] = Append(@, [id |-> made + 1, prev |-> HeadOf(@),
                                old |-> StateOf(r, f), new |-> b]),
       ![r].pool = @ \cup ({b} \ {NoBlob})]
  /\ UNCHANGED Local

\* tally fork f g.
Fork(r, f, g) ==
  /\ g \in ForksOf(r)
  /\ f \notin ForksOf(r)
  /\ Counted
  /\ repo' = [repo EXCEPT ![r].anchor[f] = StateOf(r, g)]
  /\ UNCHANGED Local

\* tally snapshot.
Snapshot(r, f) ==
  /\ f \in ForksOf(r)
  /\ repo[r].anchor[f] # StateOf(r, f)
  /\ Counted
  /\ repo' = [repo EXCEPT ![r].anchor[f] = StateOf(r, f)]
  /\ UNCHANGED Local

\* clone: everything under a published manifest is immutable, so it reads
\* one moment of the store; a manifest that does not restore is an error.
Clone(r) ==
  LET m == Latest(chain)
      Of(f) == m.forks[f]
  IN  /\ ForksOf(r) = {}
      /\ chain # <<>>
      /\ Restores(m)
      /\ \A s \in m.live : {<<s, "pk">>, <<s, "idx">>} \subseteq objects
      /\ repo' = [repo EXCEPT ![r] =
           [anchor |-> [f \in Forks |-> IF Of(f) = NoFork THEN NoFork
                                      ELSE Of(f).anchor],
            log |-> [f \in Forks |-> LogOf(m, f)],
            pool |-> Stored(m),
            cache |-> chain,
            synced |-> [f \in Forks |-> IF Of(f) = NoFork THEN NoFork
                                      ELSE Of(f).head]]]
      /\ UNCHANGED <<Local, made>>

-----------------------------------------------------------------------------
(* Push.                                                                   *)

\* A push moves on.
Step(p, new) ==
  /\ push' = [push EXCEPT ![p] = new]
  /\ UNCHANGED <<made, faults>>

\* A push begins, or begins again after losing a race.
Begins(p) ==
  /\ push[p].pc \in {"idle", "again"}
  /\ ForksOf(Home[p]) # {}

\* discover, when the cached manifest is still the store's, or there is none:
\* probe (or LIST) to the end of the chain and remember it.  Then read the
\* synced heads and what the store holds (an image that is not a set, or does
\* not resolve, is an error), and list the forks.
Find(p) ==
  LET r == Home[p]
  IN  /\ Begins(p)
      /\ IsPrefix(repo[r].cache, chain)
      /\ repo' = [repo EXCEPT ![r].cache = chain]
      /\ Step(p, IF ~Loadable(Latest(chain)) THEN NoPush
                 ELSE [push[p] EXCEPT
                         !.pc = "read", !.base = chain, !.known = repo[r].synced,
                         !.seen = [f \in ForksOf(r) |-> NoFork]])
      /\ UNCHANGED <<chain, objects>>

\* Mutant of Forget: the synced heads survive the chain they describe.
ForgetManifest(p) ==
  LET r == Home[p]
  IN  /\ Begins(p)
      /\ ~IsPrefix(repo[r].cache, chain)
      /\ repo' = [repo EXCEPT ![r].cache = <<>>]
      /\ Step(p, [push[p] EXCEPT !.pc = "again"])
      /\ UNCHANGED <<chain, objects>>

\* RemoteCache::invalidate, first file: the cached manifest is not the
\* store's.
Forget(p) ==
  LET r == Home[p]
  IN  /\ Begins(p)
      /\ ~IsPrefix(repo[r].cache, chain)
      /\ repo' = [repo EXCEPT ![r].cache = <<>>]
      /\ Step(p, [push[p] EXCEPT !.pc = "forget"])
      /\ UNCHANGED <<chain, objects>>

\* The second: the synced heads describe a chain that no longer exists.
ForgetSynced(p) ==
  /\ push[p].pc = "forget"
  /\ repo' = [repo EXCEPT ![Home[p]].synced = NoRepo.synced]
  /\ Step(p, [push[p] EXCEPT !.pc = "again"])
  /\ UNCHANGED <<chain, objects>>

\* The places of the forks not read yet; they are read in name order.
Unread(p) == {i \in DOMAIN Names : /\ Names[i] \in DOMAIN push[p].seen
                                   /\ push[p].seen[Names[i]] = NoFork}

\* plan: the next fork's anchor and current head.
ReadState(p) ==
  LET r == repo[Home[p]]
      f == Names[Min(Unread(p))]
  IN  /\ push[p].pc = "read"
      /\ Unread(p) # {}
      /\ Step(p, [push[p] EXCEPT !.pc = "reread",
           !.seen[f] = [anchor |-> r.anchor[f], head |-> HeadOf(r.log[f]),
                        log |-> NoFork]])
      /\ UNCHANGED <<repo, chain, objects>>

\* plan: the same fork's log, read again.
ReadLines(p) ==
  /\ push[p].pc = "reread"
  /\ \E f \in DOMAIN push[p].seen :
       /\ push[p].seen[f] # NoFork
       /\ push[p].seen[f].log = NoFork
       /\ Step(p, [push[p] EXCEPT !.pc = "read",
                     !.seen[f].log = repo[Home[p]].log[f]])
  /\ UNCHANGED <<repo, chain, objects>>

\* Every fork has been read.
Read(p) == push[p].pc = "read" /\ Unread(p) = {}

SomeDiverged(p) ==
  \E f \in DOMAIN push[p].seen :
    Diverged(Latest(push[p].base).forks[f], push[p].seen[f], push[p].known[f])

\* "refusing to splice".
Refuse(p) ==
  /\ Read(p)
  /\ SomeDiverged(p)
  /\ Step(p, NoPush)
  /\ UNCHANGED <<repo, chain, objects>>

\* Plan::synced merged over what is recorded.
Marked(p) ==
  LET seen == push[p].seen
  IN  [f \in Forks |->
         IF f \in DOMAIN seen
              /\ ~Lacks(Latest(push[p].base).forks[f], seen[f])
         THEN seen[f].head ELSE repo[Home[p]].synced[f]]

\* Nothing to publish: the plan is only marked as synced.  Ok.
Idle(p) ==
  /\ Read(p)
  /\ ~SomeDiverged(p)
  /\ NothingNew(Latest(push[p].base), push[p].seen, repo[Home[p]].pool)
  /\ repo' = [repo EXCEPT ![Home[p]].synced = Marked(p)]
  /\ Step(p, NoPush)
  /\ UNCHANGED <<chain, objects>>

\* List the pool, build the segments.
Plan(p) ==
  LET m == Latest(push[p].base)
      blobs == repo[Home[p]].pool
  IN  /\ Read(p)
      /\ Len(push[p].base) < MaxManifests
      /\ ~SomeDiverged(p)
      /\ ~NothingNew(m, push[p].seen, blobs)
      /\ \E segs \in Cuts(Inputs(m, push[p].seen, blobs)) :
           Step(p, [push[p] EXCEPT !.pc = "put", !.segs = segs, !.put = 0])
      /\ UNCHANGED <<repo, chain, objects>>

\* HEAD, then PUT: each segment's .pk, then its .idx.
Upload(p) ==
  LET n == push[p].put
  IN  /\ push[p].pc = "put"
      /\ n < 2 * Len(push[p].segs)
      /\ objects' = objects \cup {<<push[p].segs[(n \div 2) + 1],
                                    IF n % 2 = 0 THEN "pk" ELSE "idx">>}
      /\ Step(p, [push[p] EXCEPT !.put = @ + 1])
      /\ UNCHANGED <<repo, chain>>

\* Every object has been uploaded.
Uploaded(p) == push[p].pc = "put" /\ push[p].put = 2 * Len(push[p].segs)

\* Mutants of Publish: a plain PUT; and one that does not wait for uploads.
PublishOver(p) ==
  LET n == Append(push[p].base,
                  Assembled(Latest(push[p].base), push[p].seen, push[p].segs))
  IN  /\ Uploaded(p)
      /\ chain' = n
      /\ Step(p, [push[p] EXCEPT !.pc = "won", !.base = n])
      /\ UNCHANGED <<repo, objects>>

PublishEarly(p) ==
  LET n == Append(push[p].base,
                  Assembled(Latest(push[p].base), push[p].seen, push[p].segs))
  IN  /\ push[p].pc = "put"
      /\ Len(chain) = Len(push[p].base)
      /\ chain' = n
      /\ Step(p, [push[p] EXCEPT !.pc = "won", !.base = n])
      /\ UNCHANGED <<repo, objects>>

\* The put-if-absent of the next manifest wins.
Publish(p) ==
  LET n == Append(push[p].base,
                  Assembled(Latest(push[p].base), push[p].seen, push[p].segs))
  IN  /\ Uploaded(p)
      /\ Len(chain) = Len(push[p].base)
      /\ chain' = n
      /\ Step(p, [push[p] EXCEPT !.pc = "won", !.base = n])
      /\ UNCHANGED <<repo, objects>>

\* It loses: plan again against the winner, or give up.
Lose(p) ==
  /\ Uploaded(p)
  /\ Len(chain) # Len(push[p].base)
  /\ Step(p, IF push[p].attempt = MaxAttempts THEN NoPush
             ELSE [NoPush EXCEPT !.pc = "again",
                                 !.attempt = push[p].attempt + 1])
  /\ UNCHANGED <<repo, chain, objects>>

\* After the commit point: the cached manifest, then the synced heads.  Ok.
Remember(p) ==
  /\ push[p].pc = "won"
  /\ repo' = [repo EXCEPT ![Home[p]].cache = push[p].base]
  /\ Step(p, [push[p] EXCEPT !.pc = "mark"])
  /\ UNCHANGED <<chain, objects>>

Mark(p) ==
  /\ push[p].pc = "mark"
  /\ repo' = [repo EXCEPT ![Home[p]].synced = Marked(p)]
  /\ Step(p, NoPush)
  /\ UNCHANGED <<chain, objects>>

\* A push dies after it has written something.
Kill(p) ==
  /\ push[p].pc \in {"put", "won", "mark"} \cup (IF TornForget THEN {"forget"} ELSE {})
  /\ faults < MaxFaults
  /\ faults' = faults + 1
  /\ push' = [push EXCEPT ![p] = NoPush]
  /\ UNCHANGED <<repo, chain, objects, made>>

\* The store's owner empties it, with no push under way.
Wipe ==
  /\ faults < MaxFaults
  /\ \A p \in Pushers : push[p].pc = "idle"
  /\ faults' = faults + 1
  /\ chain' = <<>> /\ objects' = {}
  /\ UNCHANGED <<repo, push, made>>

-----------------------------------------------------------------------------
Push(p) ==
  \/ Find(p) \/ Forget(p) \/ ForgetSynced(p)
  \/ ReadState(p) \/ ReadLines(p)
  \/ Refuse(p) \/ Idle(p) \/ Plan(p) \/ Upload(p) \/ Publish(p) \/ Lose(p)
  \/ Remember(p) \/ Mark(p)

Next ==
  \/ \E r \in Repos :
       \/ Clone(r)
       \/ \E b \in Seeds : Create(r, b)
       \/ \E f \in Forks :
            \/ Snapshot(r, f)
            \/ \E g \in Forks : Fork(r, f, g)
            \/ \E b \in Blobs \cup {NoBlob} : Apply(r, f, b)
  \/ \E p \in Pushers : Push(p) \/ Kill(p)
  \/ Wipe

Spec == Init /\ [][Next]_vars

-----------------------------------------------------------------------------
(* Properties.                                                             *)

\* Every variable has its type: what a push carries between its steps (the
\* attempt, the objects put, the forks read) stays within what push_with allows.
TypeOK ==
  /\ chain \in Seq(Manifest)
  /\ objects \subseteq Segment \X {"pk", "idx"}
  /\ \A r \in Repos :
       /\ repo[r].anchor \in [Forks -> States \cup {NoFork}]
       /\ repo[r].log \in [Forks -> Seq(Line)]
       /\ repo[r].pool \subseteq Blobs
       /\ repo[r].cache \in Seq(Manifest)
       /\ repo[r].synced \in [Forks -> Nat \cup {NoFork}]
  /\ \A p \in Pushers :
       /\ push[p].pc \in {"idle", "again", "forget", "read", "reread", "put", "won", "mark"}
       /\ push[p].base \in Seq(Manifest) /\ push[p].segs \in Seq(Segment)
       /\ push[p].known \in [Forks -> Nat \cup {NoFork}]
       /\ \A f \in DOMAIN push[p].seen : push[p].seen[f] \in Reading \cup {NoFork}
       /\ push[p].put \in 0..2 * Len(push[p].segs)
       /\ push[p].attempt \in 1..MaxAttempts
  /\ made \in 0..MaxCommands /\ faults \in 0..MaxFaults

\* I12: in the published image no blob is held by two live segments, and no
\* line of a fork travels twice, however pushes raced, folded and retried.
ImageIsSet ==
  LET m == Latest(chain)
  IN  /\ IsSet(m)
      /\ \A f \in Forks : IsInjective(LogOf(m, f))
      /\ \A f \in Forks : \A s \in m.live : s.spans[f] # <<>> =>
           m.forks[f] # NoFork /\ s \in ToSet(m.forks[f].segs)

\* I2: whatever is published can be cloned: every object it names is in the
\* store, every blob its logs name is too, and unpack and restore succeed.
Restorable ==
  LET m == Latest(chain)
  IN  /\ Restores(m)
      /\ \A s \in m.live : {<<s, "pk">>, <<s, "idx">>} \subseteq objects
      /\ \A f \in Forks : \A x \in ToSet(LogOf(m, f)) : x.new \in Stored(m) \cup {NoBlob}

\* I8 at the store: publishing only ever extends a fork's log, and keeps
\* every blob; a push never splices its lines in place of another's.
OnlyExtends ==
  [][~Wipe =>
       /\ \A f \in Forks : IsPrefix(LogOf(Latest(chain), f), LogOf(Latest(chain'), f))
       /\ Stored(Latest(chain)) \subseteq Stored(Latest(chain'))]_vars

\* A construct chain is never deeper than the keyframe interval, whoever
\* pushed its links.
DepthBound ==
  \A b \in DOMAIN LiveDepths(Latest(chain)) : LiveDepths(Latest(chain))[b] <= Interval

\* A push that returns Ok leaves every line it read in the store: it sent
\* them, or the store was ahead.  "Behind" is never said of a fork that has
\* diverged.
PushedMeansStored ==
  [][\A p \in Pushers : Idle(p) \/ Mark(p) =>
       \A f \in DOMAIN push[p].seen :
         IsPrefix(push[p].seen[f].log, LogOf(Latest(push[p].base), f))]_vars
=============================================================================
