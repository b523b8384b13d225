------------------------------- MODULE Backups -------------------------------
(***************************************************************************)
(* The copies a cluster can be brought back from, and who works on them at *)
(* the same time without a common lock: restores (src/src/engine/restore), *)
(* whose rollback the escrow gate captures first (escrow/), retention      *)
(* (retention/), which releases such captures again, and backups (backup/, *)
(* restic/), which restores read.                                          *)
(*                                                                         *)
(* Escrow captures carry the number of their run, in the order in which    *)
(* the captures began; ages are counted against --escrow-min-age.          *)
(***************************************************************************)
EXTENDS Integers, FiniteSets

CONSTANTS
  Instances, Primary,
  PVCs,          \* the volumes, numbered in the order of the recovery set
  DataPVC, Volumes,  \* the naming rule, and the volumes an instance really has
  Commits,
  Ops,           \* invocations of restore
  Cap,           \* maxOutstandingEscrows: 12
  KeepLast       \* --keep-last

ASSUME BackupAssumption ==
  /\ Primary \in Instances /\ PVCs \subseteq Nat
  /\ Volumes \in [Instances -> SUBSET PVCs]
  /\ \A v \in PVCs : \E i \in Instances : \A j \in Instances : v \in Volumes[j] <=> i = j
  /\ DataPVC \in [Instances -> PVCs] /\ \A i \in Instances : DataPVC[i] \in Volumes[i]
  /\ IsFiniteSet(Ops) /\ Cap \in Nat \ {0} /\ KeepLast \in Nat \ {0}

Runs == 1..Cardinality(Ops)

VARIABLES
  engine,
  holds,     \* what each instance holds
  pods, up,  \* the pod objects there are, and the Ready ones
  fenced,
  dumps,     \* what there is among the dumps of the restic repository
  escrows,   \* the captures: [run, pvc, by, holds, ready]
  aged,      \* the runs up to this one are past the minimum age
  doomed,    \* what a retention run listed and decided to release
  pc,        \* where each restore is
  by,        \* its escrow provider: "snapshot" or "restic"
  set, refs, \* the volumes to capture, and those captured
  run,       \* the number of its capture, 0 before
  seen       \* history: <<i, k>>: what the copies of a restore owe until they are past the
             \* minimum age, namely every k that i held when the provider was chosen and
             \* until all was captured, except what was copied file by file from a
             \* running instance

cluster == <<engine, holds, pods, up, fenced>>
store   == <<dumps, escrows, aged, doomed>>
locals  == <<by, set, refs, run, seen>>
vars    == <<cluster, store, pc, locals>>

Replicas == Instances \ {Primary}
Active   == {o \in Ops : pc[o] \notin {"idle", "ended"}}
Copies   == [run : Runs, pvc : PVCs, by : {"snapshot", "restic"}, holds : SUBSET Commits,
             ready : BOOLEAN]

TypeOK ==
  /\ engine \in {"cnpg", "galera"}
  /\ holds \in [Instances -> SUBSET Commits]
  /\ pods \subseteq Instances /\ up \subseteq pods \ fenced
  /\ fenced \subseteq Replicas
  /\ dumps \subseteq SUBSET Commits
  /\ escrows \subseteq Copies /\ doomed \subseteq Copies
  /\ \A e, f \in escrows : e.run = f.run => e.by = f.by /\ (e.pvc = f.pvc => e = f)
  /\ \A e \in escrows : \E o \in Ops : run[o] = e.run
  /\ aged \in {0} \cup Runs
  /\ pc \in [Ops -> {"idle", "select", "capture", "verify", "fence", "stream",
                     "unfence", "resync", "ended"}]
  /\ by \in [Ops -> {"snapshot", "restic"}]
  /\ set \in [Ops -> SUBSET PVCs] /\ refs \in [Ops -> SUBSET PVCs]
  /\ \A o \in Ops : refs[o] \subseteq set[o]
  /\ run \in [Ops -> {0} \cup Runs]
  /\ \A o, q \in Ops : run[o] = run[q] => o = q \/ run[o] = 0
  /\ seen \in [Ops -> SUBSET (Instances \X Commits)]

Init ==
  /\ engine \in {"cnpg", "galera"}
  /\ holds \in [Instances -> SUBSET Commits]
  /\ pods \in {s \in SUBSET Instances : Primary \in s} /\ up = pods
  /\ fenced = {}
  /\ dumps \in SUBSET SUBSET holds[Primary]
  /\ escrows = {} /\ doomed = {} /\ aged = 0
  /\ pc = [o \in Ops |-> "idle"]
  /\ by = [o \in Ops |-> "snapshot"]
  /\ set = [o \in Ops |-> {}] /\ refs = [o \in Ops |-> {}] /\ run = [o \in Ops |-> 0]
  /\ seen = [o \in Ops |-> {}]

Goto(o, l) == pc' = [pc EXCEPT ![o] = l]

\* What an invocation knows goes with it; the number of its capture is taken.
Cleared(o) == /\ by' = [by EXCEPT ![o] = "snapshot"]
              /\ set' = [set EXCEPT ![o] = {}] /\ refs' = [refs EXCEPT ![o] = {}]
              /\ UNCHANGED run

Refuse(o) == Goto(o, "ended") /\ Cleared(o) /\ seen' = [seen EXCEPT ![o] = {}]

\* What others no longer hold is not up to a restore that still captures.
Unseen == [q \in Ops |-> IF pc[q] = "capture"
                         THEN {x \in seen[q] : x[2] \in holds'[x[1]]} ELSE seen[q]]

-----------------------------------------------------------------------------
(* Restore: the target must be Ready, and the data newer than the dump expendable *)

\* Galera: straight to the stream.
BeginGalera(o) ==
  /\ pc[o] = "idle" /\ engine = "galera"
  /\ Goto(o, "stream")
  /\ UNCHANGED <<cluster, store, locals>>

\* Triage finds a replica in the lead; it can tell only if it could read all of them.
LeaderNotPrimary(read) ==
  /\ read = Instances
  /\ \E i \in Instances : /\ holds[i] # holds[Primary]
                          /\ \A j \in Instances : holds[j] \subseteq holds[i]

\* CNPG: guardRestoreRegression, never over a leading replica; else, diverged or not, by
\* force.
BeginCnpg(o) ==
  /\ pc[o] = "idle" /\ engine = "cnpg"
  /\ \E force, noEscrow \in BOOLEAN, read \in {r \in SUBSET Instances : up \subseteq r} :
       IF Primary \in up /\ force /\ ~LeaderNotPrimary(read)
       THEN Goto(o, IF noEscrow THEN "fence" ELSE "select") /\ UNCHANGED locals
       ELSE Refuse(o)
  /\ UNCHANGED <<cluster, store>>

-----------------------------------------------------------------------------
(* The escrow gate *)

\* DiscoverPVCs: a pod that is gone has no volume list, only the naming rule.
RecoverySet == UNION {IF i \in pods THEN Volumes[i] ELSE {DataPVC[i]} : i \in Instances}

Owner(v) == CHOOSE i \in Instances : v \in Volumes[i]

Snapshots == {e \in escrows : e.by = "snapshot"}

\* Choose the provider, count what is outstanding, look for room.  A set somebody writes
\* to, or may write to, is for a snapshot if its storage has a class for it; a quiet one,
\* and one without a class, for a file copy.
Prepare(o) ==
  /\ pc[o] = "select"
  /\ \/ /\ Cardinality(Snapshots) < Cap
        /\ \E p \in {"snapshot", "restic"} : by' = [by EXCEPT ![o] = p]
        /\ set' = [set EXCEPT ![o] = RecoverySet]
        /\ seen' = [seen EXCEPT ![o] = {x \in Instances \X Commits : x[2] \in holds[x[1]]}]
        /\ Goto(o, "capture") /\ UNCHANGED <<refs, run>>
     \/ Refuse(o)
  /\ UNCHANGED <<cluster, store>>

\* The runs are numbered as they begin.
Numbered == Cardinality({q \in Ops : run[q] # 0})

\* One volume after the other; what was captured before a failure stays.  A file copy of a
\* running instance may be torn, and counts for nothing.
Capture(o, v) ==
  /\ pc[o] = "capture" /\ v \in set[o] \ refs[o] /\ \A w \in set[o] \ refs[o] : v <= w
  /\ run' = IF run[o] = 0 THEN [run EXCEPT ![o] = Numbered + 1] ELSE run
  /\ LET torn == by[o] = "restic" /\ Owner(v) \in up IN
       /\ escrows' = escrows \cup
            {[run |-> run'[o], pvc |-> v, by |-> by[o], ready |-> FALSE,
              holds |-> IF torn THEN {} ELSE holds[Owner(v)]]}
       /\ seen' = IF torn THEN [seen EXCEPT ![o] = {x \in @ : x[1] # Owner(v)}] ELSE seen
  /\ refs' = [refs EXCEPT ![o] = @ \cup {v}]
  /\ UNCHANGED <<cluster, dumps, aged, doomed, pc, by, set>>

Captured(o) ==
  /\ pc[o] = "capture"
  /\ \/ refs[o] = set[o] /\ Goto(o, "verify") /\ UNCHANGED locals
     \/ refs[o] # set[o] /\ Refuse(o)
  /\ UNCHANGED <<cluster, store>>

\* Mutant: a copy that is not ready in time is taken all the same.
VerifyHopefully(o) ==
  /\ pc[o] = "verify"
  /\ \E late \in SUBSET PVCs :
       escrows' = {IF e.run = run[o] /\ e.pvc \notin late THEN [e EXCEPT !.ready = TRUE] ELSE e
                     : e \in escrows}
  /\ Goto(o, "fence")
  /\ UNCHANGED <<cluster, dumps, aged, doomed, locals>>

\* Every copy is still there and proves restorable, or the operation is refused.
Verify(o) ==
  /\ pc[o] = "verify"
  /\ \/ /\ \A v \in refs[o] : \E e \in escrows : e.run = run[o] /\ e.pvc = v
        /\ escrows' = {IF e.run = run[o] THEN [e EXCEPT !.ready = TRUE] ELSE e : e \in escrows}
        /\ Goto(o, "fence") /\ UNCHANGED locals
     \/ Refuse(o) /\ UNCHANGED escrows
  /\ UNCHANGED <<cluster, dumps, aged, doomed>>

-----------------------------------------------------------------------------
(* The restore itself *)

\* Mutant: the primary is fenced with its replicas.
FenceAll(o) ==
  /\ pc[o] = "fence"
  /\ Goto(o, "stream") /\ fenced' = Instances /\ up' = {}
  /\ UNCHANGED <<engine, holds, pods, store, locals>>

\* The list of fenced instances is written, not added to.
Fence(o) ==
  /\ pc[o] = "fence"
  /\ \/ Goto(o, "stream") /\ fenced' = Replicas /\ up' = up \ Replicas /\ UNCHANGED locals
     \/ Refuse(o) /\ UNCHANGED <<fenced, up>>
  /\ UNCHANGED <<engine, holds, pods, store>>

\* What the cluster holds once d has been streamed into the target; Galera passes it on.
Overwritten(d) == IF engine = "cnpg" THEN [holds EXCEPT ![Primary] = d]
                  ELSE [i \in Instances |-> d]

Over(o, ok) == /\ Goto(o, IF engine = "galera" THEN "ended" ELSE IF ok THEN "resync" ELSE "unfence")
               /\ Cleared(o)

\* A dump of the repository, "latest" or named, over the target's data; broken off, it
\* leaves part of it, or all as it was.
Stream(o) ==
  /\ pc[o] = "stream"
  /\ \/ /\ up # {} /\ (engine = "cnpg" => Primary \in up)
        /\ \E dump \in dumps, ok \in BOOLEAN :
             /\ \E d \in IF ok THEN {dump} ELSE SUBSET dump : holds' = Overwritten(d)
             /\ Over(o, ok)
     \/ Over(o, FALSE) /\ UNCHANGED holds
  /\ seen' = Unseen
  /\ UNCHANGED <<engine, pods, up, fenced, store>>

\* unfenceAll, whose failure is only warned of; after a success the replicas' pods are
\* deleted, to sync again from the primary.
Unfence(o) ==
  /\ pc[o] \in {"unfence", "resync"}
  /\ Goto(o, "ended")
  /\ fenced' \in {{}, fenced}
  /\ up' = IF pc[o] = "resync" THEN up \ Replicas ELSE up
  /\ UNCHANGED <<engine, holds, pods, store, locals>>

Restore(o) == \/ BeginGalera(o) \/ BeginCnpg(o) \/ Prepare(o) \/ Captured(o) \/ Verify(o)
              \/ Fence(o) \/ Stream(o) \/ Unfence(o)
              \/ \E v \in PVCs : Capture(o, v)

-----------------------------------------------------------------------------
(* Retention *)

\* Mutant: the runs are counted from the oldest.
SelectOldestKept ==
  LET runs == {e.run : e \in Snapshots} IN
  {e \in Snapshots : Cardinality({r \in runs : r < e.run}) >= KeepLast /\ e.run <= aged}

\* selectForRelease: snapshots beyond the newest KeepLast runs, and past the minimum age.
SelectForRelease ==
  LET runs == {e.run : e \in Snapshots} IN
  {e \in Snapshots : Cardinality({r \in runs : r > e.run}) >= KeepLast /\ e.run <= aged}

List ==
  /\ doomed = {} /\ doomed' = SelectForRelease /\ doomed' # {}
  /\ UNCHANGED <<cluster, dumps, escrows, aged, pc, locals>>

\* One object after the other; one that cannot be deleted is passed over.
ReleaseOne ==
  /\ \E e \in doomed : doomed' = doomed \ {e} /\ escrows' \in {escrows \ {e}, escrows}
  /\ UNCHANGED <<cluster, dumps, aged, pc, locals>>

\* A week passes, in which every operation has long ended.
Age ==
  /\ Active = {} /\ aged < Numbered /\ aged' = aged + 1
  /\ seen' = [o \in Ops |-> IF run[o] <= aged' THEN {} ELSE seen[o]]
  /\ UNCHANGED <<cluster, dumps, escrows, doomed, pc, by, set, refs, run>>

-----------------------------------------------------------------------------
(* Backup, and the retention of dumps *)

\* The CNPG dump is of the primary, Galera's of any Ready node.
Donors == IF engine = "cnpg" THEN up \cap {Primary} ELSE up

\* When the dump breaks off, restic sees the end of its input and keeps what it read.
Dumped(donor) == SUBSET holds[donor]

BackupDump ==
  /\ \E donor \in Donors : \E d \in Dumped(donor) : dumps' = dumps \cup {d}
  /\ UNCHANGED <<cluster, escrows, aged, doomed, pc, locals>>

\* Whatever the policy, it keeps one.
Forget ==
  /\ dumps' \in (SUBSET dumps) \ {{}}
  /\ UNCHANGED <<cluster, escrows, aged, doomed, pc, locals>>

-----------------------------------------------------------------------------
(* The database and its operator *)

Aside == UNCHANGED <<store, pc, by, set, refs, run>>

Commit(k) ==
  /\ IF engine = "cnpg"
     THEN Primary \in up /\ holds' = [holds EXCEPT ![Primary] = @ \cup {k}]
     ELSE up # {} /\ holds' = [i \in Instances |-> IF i \in up THEN holds[i] \cup {k} ELSE holds[i]]
  /\ Aside /\ UNCHANGED <<engine, pods, up, fenced, seen>>

\* A replica streams from the primary, what a restore did to it included; one that cannot
\* is cloned.
Replicate(i) ==
  /\ engine = "cnpg" /\ {i, Primary} \subseteq up
  /\ holds' = [holds EXCEPT ![i] = holds[Primary]] /\ seen' = Unseen
  /\ Aside /\ UNCHANGED <<engine, pods, up, fenced>>

Die(i) ==
  /\ i \in up /\ up' = up \ {i}
  /\ Aside /\ UNCHANGED <<engine, holds, pods, fenced, seen>>

Start(i) ==
  /\ i \in pods \ (up \cup fenced) /\ up' = up \cup {i}
  /\ Aside /\ UNCHANGED <<engine, holds, pods, fenced, seen>>

Next == \/ \E o \in Ops : Restore(o)
        \/ List \/ ReleaseOne \/ Age
        \/ BackupDump \/ Forget
        \/ \E k \in Commits : Commit(k)
        \/ \E i \in Instances : Replicate(i) \/ Die(i) \/ Start(i)

Spec == Init /\ [][Next]_vars

-----------------------------------------------------------------------------
(* Properties *)

\* What run n's captures of instance i bring back: all its volumes, each proved.
RolledBack(n, i) ==
  {k \in Commits : \A v \in Volumes[i] :
     \E e \in escrows : e.run = n /\ e.pvc = v /\ e.ready /\ k \in e.holds}

\* From its first mutation until the copies are past the minimum age, what a restore owes
\* can be brought back, whatever retention and other restores do meanwhile.  Not owed is
\* the second volume of an instance whose pod is gone: the naming rule misses it.
RollbackKept ==
  \A o \in Ops : pc[o] \in {"fence", "stream", "unfence", "resync", "ended"} =>
    \A x \in seen[o] : \/ x[2] \in RolledBack(run[o], x[1])
                       \/ x[1] \notin pods /\ Volumes[x[1]] # {DataPVC[x[1]]}

\* Retention, at work beside running captures, releases no snapshot of the newest
\* KeepLast runs and none within the minimum age, as things stand when it is deleted.
NewestRunsKept ==
  [][\A e \in Snapshots \ escrows' :
       \/ e.ready /= TRUE /\ [e EXCEPT !.ready = TRUE] \in escrows'
       \/ /\ e.run <= aged
          /\ Cardinality({f.run : f \in {g \in Snapshots : g.run > e.run}}) >= KeepLast]_vars
=============================================================================
