----------------------------- MODULE Backups_proofs -----------------------------
(***************************************************************************)
(* Backups' properties for any instances, volumes, commits and finitely    *)
(* many restores.  Nothing is assumed beyond the constants' types and that *)
(* a volume belongs to one instance.                                       *)
(***************************************************************************)
EXTENDS Backups, FiniteSetTheorems, NaturalsInduction, TLAPS

-----------------------------------------------------------------------------
(* The inductive invariant *)

\* The runs in progress are the youngest; what is aged has been numbered.
Youngest ==
  /\ \A o \in Ops : run[o] <= Numbered
  /\ aged <= Numbered
  /\ \A o \in Active : run[o] # 0 => run[o] > aged

\* A restore numbers itself and captures only in its capture phase; it has captured what
\* its copies say, and all it means to once it verifies.
Capturing ==
  \A o \in Ops :
    /\ pc[o] \in {"idle", "select"} => run[o] = 0 /\ refs[o] = {} /\ seen[o] = {}
    /\ pc[o] = "capture" =>
         \A e \in escrows : e.run = run[o] => e.by = by[o] /\ e.pvc \in refs[o]
    /\ pc[o] = "verify" => refs[o] = set[o]
    /\ pc[o] \in {"capture", "verify"} =>
         /\ refs[o] # {} => run[o] # 0
         /\ \A i \in Instances :
              /\ DataPVC[i] \in set[o]
              /\ i \in pods \/ Volumes[i] = {DataPVC[i]} => Volumes[i] \subseteq set[o]

\* The copy of volume v that restore o took has commit k.
CopyHas(o, v, k) == \E e \in escrows : e.run = run[o] /\ e.pvc = v /\ k \in e.holds

Secured == {"fence", "stream", "unfence", "resync", "ended"}

\* What restore o owes is copied as far as it got, and still held where it has not been;
\* once secured it can be brought back, and is owed by a run not yet aged.
OwedBy(o) ==
  \A x \in seen[o] :
    /\ pc[o] = "capture" => x[2] \in holds[x[1]]
    /\ pc[o] \in {"capture", "verify"} =>
         \A v \in refs[o] \cap Volumes[x[1]] : CopyHas(o, v, x[2])
    /\ pc[o] \notin {"capture", "verify"} => run[o] > aged
    /\ pc[o] \in Secured => \/ x[2] \in RolledBack(run[o], x[1])
                            \/ x[1] \notin pods /\ Volumes[x[1]] # {DataPVC[x[1]]}

Owed == \A o \in Ops : OwedBy(o)

\* Retention condemns only what has aged, and spares KeepLast runs newer than all of it.
Spared == {f.run : f \in {g \in Snapshots : \A e \in doomed : g.run > e.run}}

Condemned ==
  /\ \A e \in doomed : e.run <= aged
  /\ doomed # {} => Cardinality(Spared) >= KeepLast

BackupInv == Youngest /\ Capturing /\ Owed /\ Condemned

-----------------------------------------------------------------------------
(* Volumes and numbers *)

\* The constants' types, as every step needs them.
LEMMA Given ==
  /\ Primary \in Instances /\ PVCs \subseteq Nat /\ IsFiniteSet(Ops)
  /\ Volumes \in [Instances -> SUBSET PVCs] /\ DataPVC \in [Instances -> PVCs]
  /\ \A i \in Instances : DataPVC[i] \in Volumes[i]
  /\ KeepLast \in Nat \ {0} /\ Cardinality(Ops) \in Nat /\ Replicas \subseteq Instances
  BY BackupAssumption, FS_CardinalityType DEF Replicas

\* A volume has one owner.
LEMMA OwnerOf ==
  ASSUME NEW v \in PVCs
  PROVE  Owner(v) \in Instances /\ v \in Volumes[Owner(v)]
         /\ \A i \in Instances : v \in Volumes[i] => i = Owner(v)
<1>1. \E i \in Instances : \A j \in Instances : v \in Volumes[j] <=> i = j
  BY BackupAssumption
<1> QED
  BY <1>1 DEF Owner

\* There is a number left for a restore that has none.
LEMMA NumbersLeft ==
  ASSUME NEW r \in [Ops -> Nat]
  PROVE  /\ Cardinality({q \in Ops : r[q] # 0}) \in Nat
         /\ \A o \in Ops : r[o] = 0 => Cardinality({q \in Ops : r[q] # 0}) < Cardinality(Ops)
<1> DEFINE N == {q \in Ops : r[q] # 0}
<1>1. IsFiniteSet(N) /\ Cardinality(N) <= Cardinality(Ops) /\ (Cardinality(Ops) = Cardinality(N) => Ops = N)
  BY Given, FS_Subset
<1>2. Cardinality(N) \in Nat
  BY <1>1, FS_CardinalityType
<1>3. ASSUME NEW o \in Ops, r[o] = 0 PROVE Cardinality(N) < Cardinality(Ops)
  <2>1. N # Ops
    BY <1>3
  <2> QED
    BY <1>1, <1>2, <2>1, Given
<1> QED
  BY <1>2, <1>3

\* No more restores are numbered than there are.
LEMMA NumbersAtMost ==
  ASSUME NEW r \in [Ops -> Nat]
  PROVE  /\ Cardinality({q \in Ops : r[q] # 0}) \in Nat
         /\ Cardinality({q \in Ops : r[q] # 0}) <= Cardinality(Ops)
  BY Given, FS_Subset, FS_CardinalityType

\* Numbering one more counts one more.
LEMMA NumberedNext ==
  ASSUME NEW r \in [Ops -> Nat], NEW o \in Ops, r[o] = 0, NEW s \in [Ops -> Nat],
         s[o] # 0, \A q \in Ops : q # o => s[q] = r[q]
  PROVE  Cardinality({q \in Ops : s[q] # 0}) = Cardinality({q \in Ops : r[q] # 0}) + 1
<1> DEFINE N == {q \in Ops : r[q] # 0}
<1>1. {q \in Ops : s[q] # 0} = N \cup {o} /\ o \notin N
  OBVIOUS
<1>2. IsFiniteSet(N)
  BY Given, FS_Subset
<1> QED
  BY <1>1, <1>2, FS_AddElement

\* The first capture of a restore numbers it, and no later step numbers anything.
LEMMA CaptureNumbers ==
  ASSUME TypeOK, NEW o \in Ops, NEW v \in PVCs, Capture(o, v), Youngest
  PROVE  /\ run[o] # 0 => run' = run /\ Numbered' = Numbered
         /\ run[o] = 0 => /\ run' = [run EXCEPT ![o] = Numbered + 1] /\ Numbered' = Numbered + 1
                          /\ Numbered + 1 \in Runs
         /\ run' \in [Ops -> {0} \cup Runs] /\ run'[o] \in Runs /\ Numbered \in Nat
         /\ \A q \in Ops : run'[q] <= Numbered' /\ (q # o => run'[q] = run[q])
         /\ \A q, w \in Ops : run'[q] = run'[w] => q = w \/ run'[q] = 0
<1> USE Given DEF TypeOK, Runs
<1>1. run \in [Ops -> Nat] /\ run \in [Ops -> {0} \cup Runs]
  OBVIOUS
<1>2. Numbered \in Nat /\ (run[o] = 0 => Numbered < Cardinality(Ops))
  BY <1>1, NumbersLeft DEF Numbered
<1>3. CASE run[o] # 0
  <2>1. run' = run
    BY <1>3 DEF Capture
  <2>2. Numbered' = Numbered
    BY <2>1 DEF Numbered
  <2> QED
    BY <1>1, <1>2, <1>3, <2>1, <2>2 DEF Youngest
<1>4. CASE run[o] = 0
  <2>1. run' = [run EXCEPT ![o] = Numbered + 1]
    BY <1>4 DEF Capture
  <2>2. Numbered' = Numbered + 1
    <3>1. run' \in [Ops -> Nat] /\ run'[o] # 0 /\ \A q \in Ops : q # o => run'[q] = run[q]
      BY <1>1, <1>2, <2>1
    <3> QED
      BY <1>1, <1>4, <3>1, NumberedNext DEF Numbered
  <2>3. Numbered + 1 \in Runs
    BY <1>2, <1>4
  <2>4. /\ run' \in [Ops -> {0} \cup Runs] /\ run'[o] = Numbered + 1
        /\ \A q \in Ops : q # o => run'[q] = run[q]
    BY <1>1, <2>1, <2>3
  <2>5. \A q \in Ops : run[q] <= Numbered /\ run[q] \in Nat
    BY <1>1 DEF Youngest
  <2>6. \A q \in Ops : run'[q] <= Numbered'
    BY <1>2, <2>2, <2>4, <2>5
  <2>7. \A q, w \in Ops : run'[q] = run'[w] => q = w \/ run'[q] = 0
    BY <1>2, <2>4, <2>5
  <2> QED
    BY <1>2, <1>4, <2>1, <2>2, <2>3, <2>4, <2>6, <2>7
<1> QED
  BY <1>3, <1>4

\* The recovery set are volumes, and all of an instance's whose pod is there.
LEMMA SetOfVolumes ==
  ASSUME TypeOK
  PROVE  /\ RecoverySet \subseteq PVCs
         /\ \A i \in Instances :
              /\ DataPVC[i] \in RecoverySet
              /\ i \in pods \/ Volumes[i] = {DataPVC[i]} => Volumes[i] \subseteq RecoverySet
  BY Given DEF RecoverySet

Readied(o) == {IF e.run = run[o] THEN [e EXCEPT !.ready = TRUE] ELSE e : e \in escrows}

\* Proving the copies of a restore changes nothing about them but that.
LEMMA VerifyReadies ==
  ASSUME TypeOK, NEW o \in Ops, escrows' = Readied(o)
  PROVE  /\ escrows' \subseteq Copies
         /\ \A f \in escrows' : \E e \in escrows :
              /\ f = IF e.run = run[o] THEN [e EXCEPT !.ready = TRUE] ELSE e
              /\ f.run = e.run /\ f.pvc = e.pvc /\ f.by = e.by /\ f.holds = e.holds
         /\ \A e \in escrows : \E f \in escrows' :
              /\ f.run = e.run /\ f.pvc = e.pvc /\ f.by = e.by /\ f.holds = e.holds
              /\ e.ready \/ e.run = run[o] => f.ready
         /\ \A e \in escrows : e.run # run[o] => e \in escrows'
         /\ \A e \in escrows : e.run = run[o] => [e EXCEPT !.ready = TRUE] \in escrows'
<1> DEFINE R(e) == IF e.run = run[o] THEN [e EXCEPT !.ready = TRUE] ELSE e
<1>1. ASSUME NEW e \in escrows
      PROVE  /\ R(e) \in Copies
             /\ R(e).run = e.run /\ R(e).pvc = e.pvc /\ R(e).by = e.by /\ R(e).holds = e.holds
             /\ e.ready \/ e.run = run[o] => R(e).ready
  <2>1. e \in [run : Runs, pvc : PVCs, by : {"snapshot", "restic"}, holds : SUBSET Commits, ready : BOOLEAN]
    BY DEF TypeOK, Copies
  <2>2. CASE e.run = run[o]
    BY <2>1, <2>2 DEF Copies
  <2>3. CASE e.run # run[o]
    BY <2>1, <2>3 DEF Copies
  <2> QED
    BY <2>2, <2>3
<1>2. escrows' = {R(e) : e \in escrows}
  BY DEF Readied
<1> HIDE DEF R
<1>3. escrows' \subseteq Copies
  BY <1>1, <1>2
<1>4. \A f \in escrows' : \E e \in escrows :
        f = R(e) /\ f.run = e.run /\ f.pvc = e.pvc /\ f.by = e.by /\ f.holds = e.holds
  BY <1>1, <1>2
<1>5. \A e \in escrows : \E f \in escrows' :
        /\ f.run = e.run /\ f.pvc = e.pvc /\ f.by = e.by /\ f.holds = e.holds
        /\ e.ready \/ e.run = run[o] => f.ready
  BY <1>1, <1>2
<1>6. \A e \in escrows : R(e) \in escrows'
  BY <1>2
<1> QED
  BY <1>3, <1>4, <1>5, <1>6 DEF R

\* What others no longer hold is struck off, and nothing else.
LEMMA UnseenIs ==
  ASSUME seen \in [Ops -> SUBSET (Instances \X Commits)]
  PROVE  /\ Unseen \in [Ops -> SUBSET (Instances \X Commits)]
         /\ \A o \in Ops : Unseen[o] \subseteq seen[o]
         /\ \A o \in Ops : pc[o] = "capture" => \A x \in Unseen[o] : x[2] \in holds'[x[1]]
  BY DEF Unseen

\* A stream leaves some data in each data directory.
LEMMA OverwrittenIs ==
  ASSUME TypeOK, NEW d \in SUBSET Commits
  PROVE  Overwritten(d) \in [Instances -> SUBSET Commits]
  BY Given DEF TypeOK, Overwritten

-----------------------------------------------------------------------------
(* The types and the numbers *)

\* Every step keeps the types.
LEMMA TypedNext ==
  ASSUME TypeOK, Youngest, Capturing, [Next]_vars
  PROVE  TypeOK'
<1> USE Given DEF TypeOK, cluster, store, locals, Goto, Cleared, Refuse, Over, Aside
<1>1. ASSUME NEW o \in Ops, BeginGalera(o) PROVE TypeOK'
  BY <1>1 DEF BeginGalera
<1>2. ASSUME NEW o \in Ops, BeginCnpg(o) PROVE TypeOK'
  BY <1>2 DEF BeginCnpg
<1>3. ASSUME NEW o \in Ops, Prepare(o) PROVE TypeOK'
  <2>1. seen' \in [Ops -> SUBSET (Instances \X Commits)]
    <3>1. {x \in Instances \X Commits : x[2] \in holds[x[1]]} \in SUBSET (Instances \X Commits)
      OBVIOUS
    <3> QED
      BY <1>3, <3>1 DEF Prepare
  <2>2. /\ set' \in [Ops -> SUBSET PVCs] /\ refs' \in [Ops -> SUBSET PVCs]
        /\ \A q \in Ops : refs'[q] \subseteq set'[q]
    <3>1. RecoverySet \subseteq PVCs
      BY SetOfVolumes
    <3>2. refs[o] = {}
      BY <1>3 DEF Prepare, Capturing
    <3> QED
      <4>1. CASE set' = [set EXCEPT ![o] = RecoverySet] /\ UNCHANGED refs
        BY <3>1, <3>2, <4>1
      <4>2. CASE set' = [set EXCEPT ![o] = {}] /\ refs' = [refs EXCEPT ![o] = {}]
        BY <4>2
      <4> QED
        BY <1>3, <4>1, <4>2 DEF Prepare
  <2>3. by' \in [Ops -> {"snapshot", "restic"}]
    BY <1>3 DEF Prepare
  <2>4. UNCHANGED <<cluster, store, run>> /\ pc' \in {[pc EXCEPT ![o] = "capture"], [pc EXCEPT ![o] = "ended"]}
    BY <1>3 DEF Prepare
  <2> QED
    BY <2>1, <2>2, <2>3, <2>4
<1>4. ASSUME NEW o \in Ops, Captured(o) PROVE TypeOK'
  <2>1. CASE Refuse(o) /\ UNCHANGED <<cluster, store>>
    <3>1. /\ pc' = [pc EXCEPT ![o] = "ended"] /\ by' = [by EXCEPT ![o] = "snapshot"]
          /\ set' = [set EXCEPT ![o] = {}] /\ refs' = [refs EXCEPT ![o] = {}]
          /\ seen' = [seen EXCEPT ![o] = {}] /\ UNCHANGED run
      BY <2>1
    <3>2. \A q \in Ops : refs'[q] \subseteq set'[q]
      BY <3>1
    <3> QED
      BY <2>1, <3>1, <3>2
  <2>2. CASE UNCHANGED <<cluster, store, locals>> /\ pc' = [pc EXCEPT ![o] = "verify"]
    BY <2>2
  <2> QED
    BY <1>4, <2>1, <2>2 DEF Captured
<1>5. ASSUME NEW o \in Ops, Verify(o) PROVE TypeOK'
  <2>1. CASE Refuse(o) /\ UNCHANGED escrows
    BY <1>5, <2>1 DEF Verify
  <2>2. CASE ~(Refuse(o) /\ UNCHANGED escrows)
    <3>1. escrows' = Readied(o)
      BY <1>5, <2>2 DEF Verify, Readied
    <3>2. UNCHANGED <<cluster, dumps, aged, doomed, locals>> /\ pc' = [pc EXCEPT ![o] = "fence"]
      BY <1>5, <2>2 DEF Verify
    <3>3. escrows' \subseteq Copies /\ \A e \in escrows' : \E q \in Ops : run'[q] = e.run
      BY <3>1, <3>2, VerifyReadies
    <3>4. \A e, f \in escrows' : e.run = f.run => e.by = f.by /\ (e.pvc = f.pvc => e = f)
      <4> TAKE f, g \in escrows'
      <4>1. PICK e \in escrows : /\ f = IF e.run = run[o] THEN [e EXCEPT !.ready = TRUE] ELSE e
                                 /\ f.run = e.run /\ f.pvc = e.pvc /\ f.by = e.by
        BY <3>1, VerifyReadies
      <4>2. PICK d \in escrows : /\ g = IF d.run = run[o] THEN [d EXCEPT !.ready = TRUE] ELSE d
                                 /\ g.run = d.run /\ g.pvc = d.pvc /\ g.by = d.by
        BY <3>1, VerifyReadies
      <4>3. e.run = d.run => e.by = d.by /\ (e.pvc = d.pvc => e = d)
        OBVIOUS
      <4> QED
        BY <4>1, <4>2, <4>3
    <3>5. pc' \in [Ops -> {"idle", "select", "capture", "verify", "fence", "stream", "unfence", "resync", "ended"}]
      BY <3>2
    <3> QED
      BY <3>2, <3>3, <3>4, <3>5
  <2> QED
    BY <2>1, <2>2
<1>6. ASSUME NEW o \in Ops, Fence(o) PROVE TypeOK'
  <2>1. CASE Refuse(o) /\ UNCHANGED <<cluster, store>>
    <3>1. /\ pc' = [pc EXCEPT ![o] = "ended"] /\ by' = [by EXCEPT ![o] = "snapshot"]
          /\ set' = [set EXCEPT ![o] = {}] /\ refs' = [refs EXCEPT ![o] = {}]
          /\ seen' = [seen EXCEPT ![o] = {}] /\ UNCHANGED run
      BY <2>1
    <3>2. \A q \in Ops : refs'[q] \subseteq set'[q]
      BY <3>1
    <3> QED
      BY <2>1, <3>1, <3>2
  <2>2. CASE /\ UNCHANGED <<engine, holds, pods, store, locals>> /\ pc' = [pc EXCEPT ![o] = "stream"]
             /\ fenced' = Replicas /\ up' = up \ Replicas
    BY <2>2
  <2> QED
    BY <1>6, <2>1, <2>2 DEF Fence
<1>7. ASSUME NEW o \in Ops, Stream(o) PROVE TypeOK'
  <2>1. holds' \in [Instances -> SUBSET Commits]
    <3>1. CASE UNCHANGED holds
      BY <3>1
    <3>2. CASE ~(UNCHANGED holds)
      <4>1. PICK dump \in dumps : \E d \in SUBSET dump : holds' = Overwritten(d)
        BY <1>7, <3>2 DEF Stream
      <4>2. PICK d \in SUBSET dump : holds' = Overwritten(d)
        BY <4>1
      <4> QED
        BY <4>2, OverwrittenIs
    <3> QED
      BY <3>1, <3>2
  <2>2. seen' \in [Ops -> SUBSET (Instances \X Commits)]
    BY <1>7, UnseenIs DEF Stream
  <2>3. UNCHANGED <<engine, pods, up, fenced, store, run>> /\ Cleared(o)
    BY <1>7 DEF Stream
  <2>4. pc' \in [Ops -> {"idle", "select", "capture", "verify", "fence", "stream", "unfence", "resync", "ended"}]
    BY <1>7 DEF Stream
  <2> QED
    BY <2>1, <2>2, <2>3, <2>4
<1>8. ASSUME NEW o \in Ops, Unfence(o) PROVE TypeOK'
  BY <1>8 DEF Unfence
<1>9. ASSUME NEW o \in Ops, NEW v \in PVCs, Capture(o, v) PROVE TypeOK'
  <2> DEFINE torn == by[o] = "restic" /\ Owner(v) \in up
             c == [run |-> run'[o], pvc |-> v, by |-> by[o], ready |-> FALSE,
                   holds |-> IF torn THEN {} ELSE holds[Owner(v)]]
  <2>1. /\ run' \in [Ops -> {0} \cup Runs] /\ run'[o] \in Runs
        /\ \A q, w \in Ops : run'[q] = run'[w] => q = w \/ run'[q] = 0
        /\ \A q \in Ops : run[q] # 0 => run'[q] = run[q]
        /\ \A q \in Ops : run[q] \in Nat
    BY <1>9, CaptureNumbers DEF Runs
  <2>2. /\ v \in set[o] \ refs[o] /\ refs' = [refs EXCEPT ![o] = @ \cup {v}] /\ escrows' = escrows \cup {c}
        /\ pc[o] = "capture" /\ UNCHANGED <<cluster, dumps, aged, doomed, pc, by, set>>
    BY <1>9 DEF Capture
  <2>3. holds[Owner(v)] \in SUBSET Commits
    BY OwnerOf
  <2>4. seen' \in [Ops -> SUBSET (Instances \X Commits)]
    BY <1>9 DEF Capture
  <2>6. c \in Copies
    BY <2>1, <2>3 DEF Copies
  <2> HIDE DEF c
  <2>7. c.run = run'[o] /\ c.by = by[o] /\ c.pvc = v
    BY DEF c
  <2>8. \A e \in escrows : e.run # 0 /\ \E q \in Ops : run[q] = e.run /\ run'[q] = e.run
    BY <2>1 DEF Copies, Runs
  <2>9. \A e \in escrows : e.run = c.run => e.by = c.by /\ e.pvc # c.pvc
    <3> SUFFICES ASSUME NEW e \in escrows, e.run = c.run PROVE e.by = c.by /\ e.pvc # c.pvc
      OBVIOUS
    <3>1. PICK q \in Ops : run[q] = e.run /\ run'[q] = e.run
      BY <2>8
    <3>2. q = o
      BY <2>1, <2>7, <2>8, <3>1
    <3> QED
      BY <2>2, <2>7, <3>1, <3>2 DEF Capturing
  <2>10. /\ escrows' \subseteq Copies
         /\ \A e, f \in escrows' : e.run = f.run => e.by = f.by /\ (e.pvc = f.pvc => e = f)
    BY <2>2, <2>6, <2>9
  <2>11. \A e \in escrows' : \E q \in Ops : run'[q] = e.run
    BY <2>2, <2>7, <2>8
  <2>12. refs' \in [Ops -> SUBSET PVCs] /\ \A q \in Ops : refs'[q] \subseteq set'[q]
    BY <2>2
  <2> QED
    BY <2>1, <2>2, <2>4, <2>10, <2>11, <2>12
<1>10. CASE List
  BY <1>10 DEF List, SelectForRelease, Snapshots
<1>11. CASE ReleaseOne
  BY <1>11 DEF ReleaseOne
<1>12. CASE Age
  <2>1. aged + 1 \in Runs
    <3>1. run \in [Ops -> Nat]
      BY DEF Runs
    <3>2. Numbered \in Nat /\ Numbered <= Cardinality(Ops)
      BY <3>1, NumbersAtMost DEF Numbered
    <3> QED
      BY <1>12, <3>2 DEF Age, Runs
  <2> QED
    BY <1>12, <2>1 DEF Age
<1>13. CASE BackupDump
  <2>1. dumps' \subseteq SUBSET Commits
    <3>1. PICK donor \in Donors : \E d \in Dumped(donor) : dumps' = dumps \cup {d}
      BY <1>13 DEF BackupDump
    <3>2. donor \in Instances
      BY DEF Donors
    <3> QED
      BY <3>1, <3>2 DEF Dumped
  <2> QED
    BY <1>13, <2>1 DEF BackupDump
<1>14. CASE Forget
  BY <1>14 DEF Forget
<1>15. ASSUME NEW k \in Commits, Commit(k) PROVE TypeOK'
  BY <1>15 DEF Commit
<1>16. ASSUME NEW i \in Instances, Replicate(i) PROVE TypeOK'
  <2>1. holds' \in [Instances -> SUBSET Commits] /\ seen' \in [Ops -> SUBSET (Instances \X Commits)]
    BY <1>16, UnseenIs DEF Replicate
  <2> QED
    BY <1>16, <2>1 DEF Replicate
<1>17. ASSUME NEW i \in Instances, Die(i) PROVE TypeOK'
  BY <1>17 DEF Die
<1>18. ASSUME NEW i \in Instances, Start(i) PROVE TypeOK'
  BY <1>18 DEF Start
<1>19. CASE UNCHANGED vars
  BY <1>19 DEF vars
<1> QED
  BY <1>1, <1>2, <1>3, <1>4, <1>5, <1>6, <1>7, <1>8, <1>9, <1>10, <1>11, <1>12, <1>13, <1>14,
     <1>15, <1>16, <1>17, <1>18, <1>19 DEF Next, Restore

\* A run begins numbered above all others, and none ages while one is in progress.
LEMMA YoungestNext ==
  ASSUME TypeOK, TypeOK', Youngest, Capturing, [Next]_vars
  PROVE  Youngest'
<1> USE Given DEF TypeOK, cluster, store, locals, Goto, Cleared, Refuse, Over, Aside, Youngest,
        Capturing, Active, Runs
<1>a. run' = run => Numbered' = Numbered
  BY DEF Numbered
<1>1. ASSUME NEW o \in Ops, BeginGalera(o) PROVE Youngest'
  BY <1>1, <1>a DEF BeginGalera
<1>2. ASSUME NEW o \in Ops, BeginCnpg(o) PROVE Youngest'
  BY <1>2, <1>a DEF BeginCnpg
<1>3. ASSUME NEW o \in Ops, Prepare(o) PROVE Youngest'
  BY <1>3, <1>a DEF Prepare
<1>4. ASSUME NEW o \in Ops, Captured(o) PROVE Youngest'
  BY <1>4, <1>a DEF Captured
<1>5. ASSUME NEW o \in Ops, Verify(o) PROVE Youngest'
  BY <1>5, <1>a DEF Verify
<1>6. ASSUME NEW o \in Ops, Fence(o) PROVE Youngest'
  BY <1>6, <1>a DEF Fence
<1>7. ASSUME NEW o \in Ops, Stream(o) PROVE Youngest'
  BY <1>7, <1>a DEF Stream
<1>8. ASSUME NEW o \in Ops, Unfence(o) PROVE Youngest'
  BY <1>8, <1>a DEF Unfence
<1>9. ASSUME NEW o \in Ops, NEW v \in PVCs, Capture(o, v) PROVE Youngest'
  <2>1. /\ run[o] # 0 => run' = run /\ Numbered' = Numbered
        /\ run[o] = 0 => run'[o] = Numbered' /\ Numbered' = Numbered + 1
        /\ Numbered \in Nat
        /\ \A q \in Ops : run'[q] <= Numbered' /\ (q # o => run'[q] = run[q])
    <3>1. run \in [Ops -> {0} \cup Runs]
      OBVIOUS
    <3> QED
      BY <1>9, <3>1, CaptureNumbers
  <2>2. pc' = pc /\ aged' = aged
    BY <1>9 DEF Capture
  <2>3. CASE run[o] # 0
    BY <2>1, <2>2, <2>3
  <2>4. CASE run[o] = 0
    <3>1. aged <= Numbered' /\ run'[o] > aged
      BY <2>1, <2>4
    <3> QED
      BY <2>1, <2>2, <2>4, <3>1
  <2> QED
    BY <2>3, <2>4
<1>10. CASE List
  BY <1>10, <1>a DEF List
<1>11. CASE ReleaseOne
  BY <1>11, <1>a DEF ReleaseOne
<1>12. CASE Age
  <2>1. run' = run /\ aged' = aged + 1 /\ aged < Numbered /\ Active = {} /\ pc' = pc
    BY <1>12 DEF Age
  <2>2. Numbered \in Nat
    BY NumbersAtMost DEF Numbered
  <2> QED
    BY <2>1, <2>2, <1>a
<1>13. CASE BackupDump
  BY <1>13, <1>a DEF BackupDump
<1>14. CASE Forget
  BY <1>14, <1>a DEF Forget
<1>15. ASSUME NEW k \in Commits, Commit(k) PROVE Youngest'
  BY <1>15, <1>a DEF Commit
<1>16. ASSUME NEW i \in Instances, Replicate(i) PROVE Youngest'
  BY <1>16, <1>a DEF Replicate
<1>17. ASSUME NEW i \in Instances, Die(i) PROVE Youngest'
  BY <1>17, <1>a DEF Die
<1>18. ASSUME NEW i \in Instances, Start(i) PROVE Youngest'
  BY <1>18, <1>a DEF Start
<1>19. CASE UNCHANGED vars
  BY <1>19, <1>a DEF vars
<1> QED
  BY <1>1, <1>2, <1>3, <1>4, <1>5, <1>6, <1>7, <1>8, <1>9, <1>10, <1>11, <1>12, <1>13, <1>14,
     <1>15, <1>16, <1>17, <1>18, <1>19 DEF Next, Restore

\* A restore captures its set in its capture phase, and nobody else for it.
LEMMA CapturingNext ==
  ASSUME TypeOK, TypeOK', Youngest, Capturing, [Next]_vars
  PROVE  Capturing'
<1> USE Given DEF TypeOK, cluster, store, locals, Goto, Cleared, Refuse, Over, Aside, Capturing,
        Runs
<1>1. ASSUME NEW o \in Ops, BeginGalera(o) PROVE Capturing'
  BY <1>1 DEF BeginGalera
<1>2. ASSUME NEW o \in Ops, BeginCnpg(o) PROVE Capturing'
  BY <1>2 DEF BeginCnpg
<1>3. ASSUME NEW o \in Ops, Prepare(o) PROVE Capturing'
  <2>1. CASE Refuse(o)
    BY <1>3, <2>1 DEF Prepare
  <2>2. CASE ~Refuse(o)
    <3>1. /\ pc[o] = "select" /\ pc' = [pc EXCEPT ![o] = "capture"]
          /\ set' = [set EXCEPT ![o] = RecoverySet] /\ UNCHANGED <<cluster, store, refs, run>>
      BY <1>3, <2>2 DEF Prepare
    <3>2. \A q \in Ops : q # o => by'[q] = by[q] /\ seen'[q] = seen[q]
      BY <1>3, <2>2 DEF Prepare
    <3>3. run[o] = 0 /\ \A e \in escrows : e.run # 0
      BY <3>1 DEF Copies
    <3> QED
      BY <3>1, <3>2, <3>3, SetOfVolumes
  <2> QED
    BY <2>1, <2>2
<1>4. ASSUME NEW o \in Ops, Captured(o) PROVE Capturing'
  BY <1>4 DEF Captured
<1>5. ASSUME NEW o \in Ops, Verify(o) PROVE Capturing'
  <2>1. CASE Refuse(o) /\ UNCHANGED escrows
    BY <1>5, <2>1 DEF Verify
  <2>2. CASE ~(Refuse(o) /\ UNCHANGED escrows)
    <3>1. escrows' = Readied(o)
      BY <1>5, <2>2 DEF Verify, Readied
    <3>2. UNCHANGED <<cluster, dumps, aged, doomed, locals>> /\ pc' = [pc EXCEPT ![o] = "fence"]
      BY <1>5, <2>2 DEF Verify
    <3>3. \A f \in escrows' : \E e \in escrows : f.run = e.run /\ f.pvc = e.pvc /\ f.by = e.by
      BY <3>1, VerifyReadies
    <3> QED
      BY <3>2, <3>3
  <2> QED
    BY <2>1, <2>2
<1>6. ASSUME NEW o \in Ops, Fence(o) PROVE Capturing'
  BY <1>6 DEF Fence
<1>7. ASSUME NEW o \in Ops, Stream(o) PROVE Capturing'
  <2>1. /\ UNCHANGED <<engine, pods, up, fenced, store, run>> /\ Cleared(o) /\ pc[o] = "stream"
        /\ pc' = [pc EXCEPT ![o] = pc'[o]] /\ pc'[o] \in {"ended", "resync", "unfence"}
    BY <1>7 DEF Stream
  <2>2. \A q \in Ops : seen'[q] \subseteq seen[q]
    <3>1. seen' = Unseen
      BY <1>7 DEF Stream
    <3> QED
      BY <3>1, UnseenIs
  <2> QED
    BY <2>1, <2>2
<1>8. ASSUME NEW o \in Ops, Unfence(o) PROVE Capturing'
  BY <1>8 DEF Unfence
<1>9. ASSUME NEW o \in Ops, NEW v \in PVCs, Capture(o, v) PROVE Capturing'
  <2>1. /\ \A q \in Ops : run'[q] <= Numbered' /\ (q # o => run'[q] = run[q])
        /\ \A q, w \in Ops : run'[q] = run'[w] => q = w \/ run'[q] = 0
        /\ run[o] # 0 => run' = run
        /\ run[o] = 0 => run'[o] = Numbered + 1 /\ Numbered \in Nat
    <3>1. run \in [Ops -> {0} \cup Runs]
      OBVIOUS
    <3> QED
      BY <1>9, <3>1, CaptureNumbers
  <2>2. /\ refs' = [refs EXCEPT ![o] = @ \cup {v}] /\ pc[o] = "capture"
        /\ UNCHANGED <<cluster, dumps, aged, doomed, pc, by, set>>
    BY <1>9 DEF Capture
  <2>3. \E c : escrows' = escrows \cup {c} /\ c.run = run'[o] /\ c.pvc = v /\ c.by = by[o]
    <3> DEFINE torn == by[o] = "restic" /\ Owner(v) \in up
               d == [run |-> run'[o], pvc |-> v, by |-> by[o], ready |-> FALSE,
                     holds |-> IF torn THEN {} ELSE holds[Owner(v)]]
    <3>1. escrows' = escrows \cup {d}
      BY <1>9 DEF Capture
    <3>2. d.run = run'[o] /\ d.pvc = v /\ d.by = by[o]
      OBVIOUS
    <3> HIDE DEF d
    <3> QED
      BY <3>1, <3>2
  <2>4. \A q \in Ops : q # o => seen'[q] = seen[q]
    BY <1>9 DEF Capture
  <2>5. \A e \in escrows : e.run # 0 /\ \E q \in Ops : run[q] = e.run
    BY DEF Copies
  <2>6. run'[o] # 0 /\ run'[o] \in Nat
    BY <2>1
  <2>7. ASSUME NEW e \in escrows', e.run = run'[o] PROVE e.by = by[o] /\ e.pvc \in refs'[o]
    <3>1. CASE e \in escrows
      <4>1. PICK q \in Ops : run[q] = e.run
        BY <2>5, <3>1
      <4>2. run[o] # 0
        <5>1. SUFFICES ASSUME run[o] = 0 PROVE FALSE
          OBVIOUS
        <5>2. run[q] <= Numbered /\ run'[o] = Numbered + 1 /\ Numbered \in Nat
          BY <2>1, <5>1 DEF Youngest
        <5> QED
          BY <2>7, <4>1, <5>2
      <4>3. e.run = run[o]
        BY <2>1, <2>7, <4>2
      <4> QED
        BY <2>2, <3>1, <4>3
    <3>2. CASE e \notin escrows
      BY <2>2, <2>3, <3>2
    <3> QED
      BY <3>1, <3>2
  <2>8. ASSUME NEW q \in Ops, q # o, pc[q] = "capture", NEW e \in escrows', e.run = run'[q]
        PROVE  e.by = by[q] /\ e.pvc \in refs[q]
    <3>1. e \in escrows
      BY <2>1, <2>3, <2>6, <2>8
    <3> QED
      BY <2>1, <2>8, <3>1
  <2> QED
    BY <2>1, <2>2, <2>4, <2>7, <2>8
<1>10. CASE List
  BY <1>10 DEF List
<1>11. CASE ReleaseOne
  BY <1>11 DEF ReleaseOne
<1>12. CASE Age
  BY <1>12 DEF Age
<1>13. CASE BackupDump
  BY <1>13 DEF BackupDump
<1>14. CASE Forget
  BY <1>14 DEF Forget
<1>15. ASSUME NEW k \in Commits, Commit(k) PROVE Capturing'
  BY <1>15 DEF Commit
<1>16. ASSUME NEW i \in Instances, Replicate(i) PROVE Capturing'
  <2>1. UNCHANGED <<engine, pods, up, fenced, store, pc, by, set, refs, run>>
    BY <1>16 DEF Replicate
  <2>2. \A q \in Ops : seen'[q] \subseteq seen[q]
    <3>1. seen' = Unseen
      BY <1>16 DEF Replicate
    <3> QED
      BY <3>1, UnseenIs
  <2> QED
    BY <2>1, <2>2
<1>17. ASSUME NEW i \in Instances, Die(i) PROVE Capturing'
  BY <1>17 DEF Die
<1>18. ASSUME NEW i \in Instances, Start(i) PROVE Capturing'
  BY <1>18 DEF Start
<1>19. CASE UNCHANGED vars
  BY <1>19 DEF vars
<1> QED
  BY <1>1, <1>2, <1>3, <1>4, <1>5, <1>6, <1>7, <1>8, <1>9, <1>10, <1>11, <1>12, <1>13, <1>14,
     <1>15, <1>16, <1>17, <1>18, <1>19 DEF Next, Restore

-----------------------------------------------------------------------------
(* What is owed *)

\* What the copies of a restore have, they keep unless retention releases them.
Keeps == \A e \in escrows : e.run > aged =>
           \E f \in escrows' : /\ f.run = e.run /\ f.pvc = e.pvc /\ f.holds = e.holds
                               /\ e.ready => f.ready

\* Only what has aged is ever released.
LEMMA YoungKept ==
  ASSUME TypeOK, Condemned, [Next]_vars
  PROVE  Keeps
<1> USE DEF TypeOK, Keeps, store, cluster, locals, Refuse, Aside, Cleared
<1>1. CASE escrows' = escrows
  BY <1>1
<1>2. ASSUME NEW o \in Ops, Verify(o) PROVE Keeps
  <2>1. CASE escrows' = escrows
    BY <1>1, <2>1
  <2>2. CASE escrows' = Readied(o)
    BY <2>2, VerifyReadies
  <2> QED
    BY <1>2, <2>1, <2>2 DEF Verify, Readied
<1>3. ASSUME NEW o \in Ops, NEW v \in PVCs, Capture(o, v) PROVE Keeps
  <2>1. escrows \subseteq escrows'
    BY <1>3 DEF Capture
  <2> QED
    BY <2>1
<1>4. CASE ReleaseOne
  <2>1. \A e \in escrows : e \notin doomed => e \in escrows'
    BY <1>4 DEF ReleaseOne
  <2>2. \A e \in escrows : e.run > aged => e \notin doomed
    <3> SUFFICES ASSUME NEW e \in escrows, e.run > aged, e \in doomed PROVE FALSE
      OBVIOUS
    <3>1. e.run <= aged /\ e.run \in Nat /\ aged \in Nat
      BY DEF Condemned, Copies, Runs
    <3> QED
      BY <3>1
  <2> QED
    BY <2>1, <2>2
<1>5. escrows' = escrows \/ ReleaseOne \/ (\E o \in Ops : Verify(o)) \/ (\E o \in Ops, v \in PVCs : Capture(o, v))
  BY DEF Next, Restore, BeginGalera, BeginCnpg, Prepare, Captured, Fence, Stream, Unfence,
         List, Age, BackupDump, Forget, Commit, Replicate, Die, Start, vars
<1> QED
  BY <1>1, <1>2, <1>3, <1>4, <1>5

\* What restore q owes stays copied, and recoverable once secured.
LEMMA OwedStays ==
  ASSUME TypeOK, Youngest, Keeps, NEW q \in Ops, OwedBy(q),
         UNCHANGED pods, run'[q] = run[q], seen'[q] \subseteq seen[q],
         pc'[q] \in {"capture", "verify"} => refs'[q] = refs[q],
         \/ pc'[q] = pc[q]
         \/ pc[q] = "capture" /\ pc'[q] = "verify"
         \/ pc[q] \in Secured /\ pc'[q] \in Secured,
         pc'[q] = "capture" => \A x \in seen'[q] : x[2] \in holds'[x[1]],
         pc'[q] \in {"capture", "verify"} \/ seen'[q] = {} \/ run[q] > aged'
  PROVE  OwedBy(q)'
<1> USE Given DEF TypeOK
<1>1. \A e \in escrows : e.run # 0
  BY DEF Copies, Runs
<1>2. ASSUME NEW x \in seen'[q], pc'[q] \in {"capture", "verify"}, NEW v \in refs[q] \cap Volumes[x[1]]
      PROVE  CopyHas(q, v, x[2])'
  <2>1. pc[q] \in {"capture", "verify"}
    BY <1>2 DEF Secured
  <2>2. PICK e \in escrows : e.run = run[q] /\ e.pvc = v /\ x[2] \in e.holds
    BY <1>2, <2>1 DEF OwedBy, CopyHas
  <2>3. e.run > aged
    BY <1>1, <2>1, <2>2 DEF Youngest, Active
  <2>4. PICK f \in escrows' : f.run = e.run /\ f.pvc = e.pvc /\ f.holds = e.holds
    BY <2>3 DEF Keeps
  <2> QED
    BY <2>2, <2>4 DEF CopyHas
<1>3. ASSUME NEW x \in seen'[q], pc'[q] \in Secured, x[2] \in RolledBack(run[q], x[1])
      PROVE  x[2] \in RolledBack(run[q], x[1])'
  <2>1. pc[q] \in Secured /\ pc[q] \notin {"capture", "verify"}
    BY <1>3 DEF Secured
  <2>2. run[q] > aged /\ run[q]' = run[q]
    BY <1>3, <2>1 DEF OwedBy
  <2>3. ASSUME NEW v \in Volumes[x[1]]
        PROVE  \E f \in escrows' : f.run = run[q] /\ f.pvc = v /\ f.ready /\ x[2] \in f.holds
    <3>1. PICK e \in escrows : e.run = run[q] /\ e.pvc = v /\ e.ready /\ x[2] \in e.holds
      BY <1>3, <2>3 DEF RolledBack
    <3> QED
      BY <2>2, <3>1 DEF Keeps
  <2>4. x[2] \in Commits
    BY <1>3 DEF RolledBack
  <2> QED
    BY <2>2, <2>3, <2>4 DEF RolledBack
<1>4. ASSUME NEW x \in seen'[q], pc'[q] \in Secured
      PROVE  \/ x[2] \in RolledBack(run[q], x[1])'
             \/ x[1] \notin pods' /\ Volumes[x[1]] # {DataPVC[x[1]]}
  <2>1. pc[q] \in Secured /\ x \in seen[q]
    BY <1>4 DEF Secured
  <2> QED
    BY <1>3, <1>4, <2>1 DEF OwedBy
<1>5. pc'[q] \notin {"capture", "verify"} => \A x \in seen'[q] : run'[q] > aged'
  OBVIOUS
<1> QED
  BY <1>2, <1>4, <1>5 DEF OwedBy


\* Whatever a step does, what each restore owes stays recoverable.
LEMMA OwedNext ==
  ASSUME TypeOK, TypeOK', Youngest, Capturing, Owed, Condemned, [Next]_vars
  PROVE  Owed'
<1> USE Given DEF TypeOK, cluster, store, locals, Goto, Cleared, Refuse, Over, Aside, Owed
<1>a. Keeps /\ \A q \in Ops : OwedBy(q)
  BY YoungKept
<1>b. ASSUME UNCHANGED <<pods, aged, holds, pc, run, refs, seen>> PROVE \A q \in Ops : OwedBy(q)'
  <2> TAKE q \in Ops
  <2>1. OwedBy(q)
    OBVIOUS
  <2>2. pc'[q] = "capture" => \A x \in seen'[q] : x[2] \in holds'[x[1]]
    BY <1>b, <2>1 DEF OwedBy
  <2>3. pc'[q] \in {"capture", "verify"} \/ seen'[q] = {} \/ run[q] > aged'
    BY <1>b, <2>1 DEF OwedBy
  <2> QED
    BY <1>a, <1>b, <2>1, <2>2, <2>3, OwedStays
<1>1. ASSUME NEW o \in Ops, BeginGalera(o) PROVE Owed'
  <2>1. ASSUME NEW q \in Ops, q # o PROVE OwedBy(q)'
    <3>1. /\ run'[q] = run[q] /\ refs'[q] = refs[q] /\ seen'[q] = seen[q] /\ pc'[q] = pc[q]
          /\ UNCHANGED <<pods, aged, holds>>
      BY <1>1, <2>1 DEF BeginGalera
    <3>2. pc'[q] = "capture" => \A x \in seen'[q] : x[2] \in holds'[x[1]]
      BY <1>a, <3>1 DEF OwedBy
    <3>3. pc'[q] \in {"capture", "verify"} \/ seen'[q] = {} \/ run[q] > aged'
      BY <1>a, <3>1 DEF OwedBy
    <3> QED
      BY <1>a, <3>1, <3>2, <3>3, OwedStays
  <2>2. seen'[o] = {}
    BY <1>1 DEF BeginGalera, Capturing
  <2> QED
    BY <2>1, <2>2 DEF OwedBy
<1>2. ASSUME NEW o \in Ops, BeginCnpg(o) PROVE Owed'
  <2>1. ASSUME NEW q \in Ops, q # o PROVE OwedBy(q)'
    <3>1. /\ run'[q] = run[q] /\ refs'[q] = refs[q] /\ seen'[q] = seen[q] /\ pc'[q] = pc[q]
          /\ UNCHANGED <<pods, aged, holds>>
      BY <1>2, <2>1 DEF BeginCnpg
    <3>2. pc'[q] = "capture" => \A x \in seen'[q] : x[2] \in holds'[x[1]]
      BY <1>a, <3>1 DEF OwedBy
    <3>3. pc'[q] \in {"capture", "verify"} \/ seen'[q] = {} \/ run[q] > aged'
      BY <1>a, <3>1 DEF OwedBy
    <3> QED
      BY <1>a, <3>1, <3>2, <3>3, OwedStays
  <2>2. seen'[o] = {}
    BY <1>2 DEF BeginCnpg, Capturing
  <2> QED
    BY <2>1, <2>2 DEF OwedBy
<1>3. ASSUME NEW o \in Ops, Prepare(o) PROVE Owed'
  <2>1. ASSUME NEW q \in Ops, q # o PROVE OwedBy(q)'
    <3>1. /\ run'[q] = run[q] /\ refs'[q] = refs[q] /\ seen'[q] = seen[q] /\ pc'[q] = pc[q]
          /\ UNCHANGED <<pods, aged, holds>>
      BY <1>3, <2>1 DEF Prepare
    <3>2. pc'[q] = "capture" => \A x \in seen'[q] : x[2] \in holds'[x[1]]
      BY <1>a, <3>1 DEF OwedBy
    <3>3. pc'[q] \in {"capture", "verify"} \/ seen'[q] = {} \/ run[q] > aged'
      BY <1>a, <3>1 DEF OwedBy
    <3> QED
      BY <1>a, <3>1, <3>2, <3>3, OwedStays
  <2>2. CASE seen'[o] = {}
    BY <2>1, <2>2 DEF OwedBy
  <2>3. CASE seen'[o] # {}
    <3>1. /\ pc'[o] = "capture" /\ refs' = refs /\ pc[o] = "select"
          /\ seen'[o] = {x \in Instances \X Commits : x[2] \in holds[x[1]]} /\ holds' = holds
      BY <1>3, <2>3 DEF Prepare
    <3>2. refs'[o] = {}
      BY <3>1 DEF Capturing
    <3>3. OwedBy(o)'
      BY <3>1, <3>2 DEF OwedBy, Secured
    <3> QED
      BY <2>1, <3>3
  <2> QED
    BY <2>2, <2>3
<1>4. ASSUME NEW o \in Ops, Captured(o) PROVE Owed'
  <2>1. ASSUME NEW q \in Ops, q # o PROVE OwedBy(q)'
    <3>1. /\ run'[q] = run[q] /\ refs'[q] = refs[q] /\ seen'[q] = seen[q] /\ pc'[q] = pc[q]
          /\ UNCHANGED <<pods, aged, holds>>
      BY <1>4, <2>1 DEF Captured
    <3>2. pc'[q] = "capture" => \A x \in seen'[q] : x[2] \in holds'[x[1]]
      BY <1>a, <3>1 DEF OwedBy
    <3>3. pc'[q] \in {"capture", "verify"} \/ seen'[q] = {} \/ run[q] > aged'
      BY <1>a, <3>1 DEF OwedBy
    <3> QED
      BY <1>a, <3>1, <3>2, <3>3, OwedStays
  <2>2. CASE seen'[o] = {}
    BY <2>1, <2>2 DEF OwedBy
  <2>3. CASE seen'[o] # {}
    <3>1. pc[o] = "capture" /\ pc'[o] = "verify" /\ UNCHANGED <<pods, aged, holds, run, refs, seen>>
      BY <1>4, <2>3 DEF Captured
    <3>2. OwedBy(o)'
      BY <1>a, <3>1, OwedStays
    <3> QED
      BY <2>1, <3>2
  <2> QED
    BY <2>2, <2>3
<1>5. ASSUME NEW o \in Ops, Verify(o) PROVE Owed'
  <2>1. ASSUME NEW q \in Ops, q # o PROVE OwedBy(q)'
    <3>1. /\ run'[q] = run[q] /\ refs'[q] = refs[q] /\ seen'[q] = seen[q] /\ pc'[q] = pc[q]
          /\ UNCHANGED <<pods, aged, holds>>
      BY <1>5, <2>1 DEF Verify
    <3>2. pc'[q] = "capture" => \A x \in seen'[q] : x[2] \in holds'[x[1]]
      BY <1>a, <3>1 DEF OwedBy
    <3>3. pc'[q] \in {"capture", "verify"} \/ seen'[q] = {} \/ run[q] > aged'
      BY <1>a, <3>1 DEF OwedBy
    <3> QED
      BY <1>a, <3>1, <3>2, <3>3, OwedStays
  <2>2. CASE seen'[o] = {}
    BY <2>1, <2>2 DEF OwedBy
  <2>3. CASE seen'[o] # {}
    <3>1. /\ pc[o] = "verify" /\ pc'[o] = "fence" /\ UNCHANGED <<pods, aged, holds, run, refs, seen>>
          /\ escrows' = Readied(o)
      BY <1>5, <2>3 DEF Verify, Readied
    <3>2. /\ refs[o] = set[o] /\ (refs[o] # {} => run[o] # 0)
          /\ \A i \in Instances :
               /\ DataPVC[i] \in set[o]
               /\ i \in pods \/ Volumes[i] = {DataPVC[i]} => Volumes[i] \subseteq set[o]
      BY <3>1 DEF Capturing
    <3>3. run[o] > aged
      BY <3>1, <3>2 DEF Youngest, Active
    <3>4. ASSUME NEW x \in seen[o], x[1] \in pods \/ Volumes[x[1]] = {DataPVC[x[1]]}
          PROVE  x[2] \in RolledBack(run[o], x[1])'
      <4>1. x[1] \in Instances /\ x[2] \in Commits
        OBVIOUS
      <4>2. ASSUME NEW v \in Volumes[x[1]]
            PROVE  \E f \in escrows' : f.run = run[o] /\ f.pvc = v /\ f.ready /\ x[2] \in f.holds
        <5>1. v \in refs[o] \cap Volumes[x[1]]
          BY <3>2, <3>4, <4>1
        <5>2. PICK e \in escrows : e.run = run[o] /\ e.pvc = v /\ x[2] \in e.holds
          BY <3>1, <5>1 DEF OwedBy, CopyHas
        <5>3. PICK f \in escrows' : /\ f.run = e.run /\ f.pvc = e.pvc /\ f.holds = e.holds
                                    /\ e.ready \/ e.run = run[o] => f.ready
          BY <3>1, VerifyReadies
        <5> QED
          BY <5>2, <5>3
      <4> QED
        BY <3>1, <4>1, <4>2 DEF RolledBack
    <3>5. OwedBy(o)'
      BY <3>1, <3>3, <3>4 DEF OwedBy
    <3> QED
      BY <2>1, <3>5
  <2> QED
    BY <2>2, <2>3
<1>6. ASSUME NEW o \in Ops, Fence(o) PROVE Owed'
  <2>1. ASSUME NEW q \in Ops, q # o PROVE OwedBy(q)'
    <3>1. /\ run'[q] = run[q] /\ refs'[q] = refs[q] /\ seen'[q] = seen[q] /\ pc'[q] = pc[q]
          /\ UNCHANGED <<pods, aged, holds>>
      BY <1>6, <2>1 DEF Fence
    <3>2. pc'[q] = "capture" => \A x \in seen'[q] : x[2] \in holds'[x[1]]
      BY <1>a, <3>1 DEF OwedBy
    <3>3. pc'[q] \in {"capture", "verify"} \/ seen'[q] = {} \/ run[q] > aged'
      BY <1>a, <3>1 DEF OwedBy
    <3> QED
      BY <1>a, <3>1, <3>2, <3>3, OwedStays
  <2>2. CASE seen'[o] = {}
    BY <2>1, <2>2 DEF OwedBy
  <2>3. CASE seen'[o] # {}
    <3>1. pc[o] = "fence" /\ pc'[o] = "stream" /\ UNCHANGED <<pods, aged, holds, run, refs, seen>>
      BY <1>6, <2>3 DEF Fence
    <3>2. run[o] > aged
      BY <2>3, <3>1 DEF OwedBy
    <3>3. OwedBy(o)'
      BY <1>a, <3>1, <3>2, OwedStays DEF Secured
    <3> QED
      BY <2>1, <3>3
  <2> QED
    BY <2>2, <2>3
<1>7. ASSUME NEW o \in Ops, Stream(o) PROVE Owed'
  <2>1. /\ UNCHANGED <<pods, aged, run>> /\ seen' = Unseen /\ pc[o] = "stream"
        /\ pc'[o] \in {"ended", "resync", "unfence"}
        /\ \A q \in Ops : q # o => pc'[q] = pc[q] /\ refs'[q] = refs[q]
        /\ refs'[o] = {}
    BY <1>7 DEF Stream
  <2>2. /\ \A q \in Ops : seen'[q] \subseteq seen[q]
        /\ \A q \in Ops : pc[q] = "capture" => \A x \in seen'[q] : x[2] \in holds'[x[1]]
    BY <2>1, UnseenIs
  <2>3. ASSUME NEW q \in Ops, q # o PROVE OwedBy(q)'
    <3>1. pc'[q] \in {"capture", "verify"} \/ seen'[q] = {} \/ run[q] > aged'
      BY <2>1, <2>2, <2>3 DEF OwedBy
    <3> QED
      BY <1>a, <2>1, <2>2, <2>3, <3>1, OwedStays
  <2>4. OwedBy(o)'
    <3>1. pc[o] \in Secured /\ pc'[o] \in Secured /\ pc'[o] \notin {"capture", "verify"}
      BY <2>1 DEF Secured
    <3>2. seen'[o] = {} \/ run[o] > aged'
      BY <2>1, <2>2 DEF OwedBy
    <3> QED
      BY <1>a, <2>1, <2>2, <3>1, <3>2, OwedStays
  <2> QED
    BY <2>3, <2>4
<1>8. ASSUME NEW o \in Ops, Unfence(o) PROVE Owed'
  <2>1. ASSUME NEW q \in Ops, q # o PROVE OwedBy(q)'
    <3>1. /\ run'[q] = run[q] /\ refs'[q] = refs[q] /\ seen'[q] = seen[q] /\ pc'[q] = pc[q]
          /\ UNCHANGED <<pods, aged, holds>>
      BY <1>8, <2>1 DEF Unfence
    <3>2. pc'[q] = "capture" => \A x \in seen'[q] : x[2] \in holds'[x[1]]
      BY <1>a, <3>1 DEF OwedBy
    <3>3. pc'[q] \in {"capture", "verify"} \/ seen'[q] = {} \/ run[q] > aged'
      BY <1>a, <3>1 DEF OwedBy
    <3> QED
      BY <1>a, <3>1, <3>2, <3>3, OwedStays
  <2>2. CASE seen'[o] = {}
    BY <2>1, <2>2 DEF OwedBy
  <2>3. CASE seen'[o] # {}
    <3>1. pc[o] \in Secured /\ pc'[o] = "ended" /\ UNCHANGED <<pods, aged, holds, run, refs, seen>>
          /\ pc[o] \notin {"capture", "verify"}
      BY <1>8 DEF Unfence, Secured
    <3>2. run[o] > aged
      BY <2>3, <3>1 DEF OwedBy
    <3>3. OwedBy(o)'
      BY <1>a, <3>1, <3>2, OwedStays DEF Secured
    <3> QED
      BY <2>1, <3>3
  <2> QED
    BY <2>2, <2>3
<1>9. ASSUME NEW o \in Ops, NEW v \in PVCs, Capture(o, v) PROVE Owed'
  <2> DEFINE torn == by[o] = "restic" /\ Owner(v) \in up
             c == [run |-> run'[o], pvc |-> v, by |-> by[o], ready |-> FALSE,
                   holds |-> IF torn THEN {} ELSE holds[Owner(v)]]
  <2>1. /\ UNCHANGED <<pods, aged, holds, pc, up, by>> /\ pc[o] = "capture"
        /\ refs' = [refs EXCEPT ![o] = @ \cup {v}] /\ escrows' = escrows \cup {c}
        /\ seen' = IF torn THEN [seen EXCEPT ![o] = {x \in @ : x[1] # Owner(v)}] ELSE seen
    BY <1>9 DEF Capture
  <2>2. /\ run[o] # 0 => run' = run
        /\ \A q \in Ops : q # o => run'[q] = run[q]
    <3>1. run \in [Ops -> {0} \cup Runs]
      OBVIOUS
    <3> QED
      BY <1>9, <3>1, CaptureNumbers
  <2>3. ASSUME NEW q \in Ops, q # o PROVE OwedBy(q)'
    <3>1. refs'[q] = refs[q] /\ seen'[q] = seen[q]
      BY <2>1, <2>3
    <3>2. pc'[q] = "capture" => \A x \in seen'[q] : x[2] \in holds'[x[1]]
      BY <2>1, <3>1 DEF OwedBy
    <3>3. pc'[q] \in {"capture", "verify"} \/ seen'[q] = {} \/ run[q] > aged'
      BY <2>1, <3>1 DEF OwedBy
    <3> QED
      BY <1>a, <2>1, <2>2, <2>3, <3>1, <3>2, <3>3, OwedStays
  <2>4. seen'[o] \subseteq seen[o]
    BY <2>1
  <2>5. ASSUME NEW x \in seen'[o], NEW w \in refs'[o] \cap Volumes[x[1]] PROVE CopyHas(o, w, x[2])'
    <3>1. CASE w = v
      <4>1. x[1] \in Instances /\ x[1] = Owner(v)
        BY <2>4, <2>5, <3>1, OwnerOf
      <4>2. ~torn
        BY <2>1, <2>5, <4>1
      <4>3. x[2] \in holds[Owner(v)]
        BY <2>1, <2>4, <2>5, <4>1 DEF OwedBy
      <4>4. c.run = run'[o] /\ c.pvc = w /\ x[2] \in c.holds
        BY <3>1, <4>2, <4>3
      <4> HIDE DEF c
      <4> QED
        BY <2>1, <4>4 DEF CopyHas
    <3>2. CASE w # v
      <4>1. w \in refs[o]
        BY <2>1, <2>5, <3>2
      <4>2. PICK e \in escrows : e.run = run[o] /\ e.pvc = w /\ x[2] \in e.holds
        BY <2>1, <2>4, <2>5, <4>1 DEF OwedBy, CopyHas
      <4>3. e.run # 0
        BY DEF Copies, Runs
      <4>4. run' = run /\ e \in escrows'
        BY <2>1, <2>2, <4>2, <4>3
      <4> QED
        BY <4>2, <4>4 DEF CopyHas
    <3> QED
      BY <3>1, <3>2
  <2>6. OwedBy(o)'
    BY <2>1, <2>4, <2>5 DEF OwedBy, Secured
  <2> QED
    BY <2>3, <2>6
<1>10. CASE List
  <2>1. /\ UNCHANGED <<pods, aged, holds, pc, run, refs, seen>>
    BY <1>10 DEF List
  <2> QED
    BY <1>a, <2>1, <1>b
<1>11. CASE ReleaseOne
  <2>1. /\ UNCHANGED <<pods, aged, holds, pc, run, refs, seen>>
    BY <1>11 DEF ReleaseOne
  <2> QED
    BY <1>a, <2>1, <1>b
<1>12. CASE Age
  <2>1. /\ UNCHANGED <<pods, holds, pc, run, refs>> /\ Active = {} /\ aged' = aged + 1
        /\ seen' = [q \in Ops |-> IF run[q] <= aged' THEN {} ELSE seen[q]]
    BY <1>12 DEF Age
  <2>2. ASSUME NEW q \in Ops PROVE OwedBy(q)'
    <3>1. pc[q] \notin {"capture", "verify"}
      BY <2>1 DEF Active
    <3>2. seen'[q] \subseteq seen[q]
      BY <2>1
    <3>3. seen'[q] = {} \/ run[q] > aged'
      BY <2>1 DEF Runs
    <3> QED
      BY <1>a, <2>1, <3>1, <3>2, <3>3, OwedStays
  <2> QED
    BY <2>2
<1>13. CASE BackupDump
  <2>1. /\ UNCHANGED <<pods, aged, holds, pc, run, refs, seen>>
    BY <1>13 DEF BackupDump
  <2> QED
    BY <1>a, <2>1, <1>b
<1>14. CASE Forget
  <2>1. /\ UNCHANGED <<pods, aged, holds, pc, run, refs, seen>>
    BY <1>14 DEF Forget
  <2> QED
    BY <1>a, <2>1, <1>b
<1>15. ASSUME NEW k \in Commits, Commit(k) PROVE Owed'
  <2>1. UNCHANGED <<pods, aged, pc, run, refs, seen>>
    BY <1>15 DEF Commit
  <2>2. \A i \in Instances : holds[i] \subseteq holds'[i]
    BY <1>15 DEF Commit
  <2>3. ASSUME NEW q \in Ops PROVE OwedBy(q)'
    <3>1. pc'[q] = "capture" => \A x \in seen'[q] : x[2] \in holds'[x[1]]
      <4>1. \A x \in seen[q] : x[1] \in Instances
        OBVIOUS
      <4> QED
        BY <2>1, <2>2, <4>1 DEF OwedBy
    <3>2. pc'[q] \in {"capture", "verify"} \/ seen'[q] = {} \/ run[q] > aged'
      BY <2>1 DEF OwedBy
    <3> QED
      BY <1>a, <2>1, <3>1, <3>2, OwedStays
  <2> QED
    BY <2>3
<1>16. ASSUME NEW i \in Instances, Replicate(i) PROVE Owed'
  <2>1. UNCHANGED <<pods, aged, pc, run, refs>> /\ seen' = Unseen
    BY <1>16 DEF Replicate
  <2>2. /\ \A q \in Ops : seen'[q] \subseteq seen[q]
        /\ \A q \in Ops : pc[q] = "capture" => \A x \in seen'[q] : x[2] \in holds'[x[1]]
    BY <2>1, UnseenIs
  <2>3. ASSUME NEW q \in Ops PROVE OwedBy(q)'
    <3>1. pc'[q] \in {"capture", "verify"} \/ seen'[q] = {} \/ run[q] > aged'
      BY <2>1, <2>2 DEF OwedBy
    <3> QED
      BY <1>a, <2>1, <2>2, <3>1, OwedStays
  <2> QED
    BY <2>3
<1>17. ASSUME NEW i \in Instances, Die(i) PROVE Owed'
  <2>1. /\ UNCHANGED <<pods, aged, holds, pc, run, refs, seen>>
    BY <1>17 DEF Die
  <2> QED
    BY <1>a, <2>1, <1>b
<1>18. ASSUME NEW i \in Instances, Start(i) PROVE Owed'
  <2>1. /\ UNCHANGED <<pods, aged, holds, pc, run, refs, seen>>
    BY <1>18 DEF Start
  <2> QED
    BY <1>a, <2>1, <1>b
<1>19. CASE UNCHANGED vars
  <2>1. /\ UNCHANGED <<pods, aged, holds, pc, run, refs, seen>>
    BY <1>19 DEF vars
  <2> QED
    BY <1>a, <2>1, <1>b
<1> QED
  BY <1>1, <1>2, <1>3, <1>4, <1>5, <1>6, <1>7, <1>8, <1>9, <1>10, <1>11, <1>12, <1>13, <1>14,
     <1>15, <1>16, <1>17, <1>18, <1>19 DEF Next, Restore

-----------------------------------------------------------------------------
(* What retention spares *)

\* The runs of any captures are finitely many.
LEMMA RunsOf ==
  ASSUME NEW S, \A e \in S : e.run \in Runs
  PROVE  IsFiniteSet({e.run : e \in S}) /\ {e.run : e \in S} \subseteq Runs
<1>1. IsFiniteSet(Runs)
  BY Given, FS_Interval DEF Runs
<1>2. {e.run : e \in S} \subseteq Runs
  OBVIOUS
<1> QED
  BY <1>1, <1>2, FS_Subset

\* Among condemned captures one has the newest run.
LEMMA NewestRun ==
  ASSUME NEW D, D # {}, \A e \in D : e.run \in Runs
  PROVE  \E e \in D : \A d \in D : d.run <= e.run
<1> DEFINE N == Cardinality(Ops)
           T == {N - d.run : d \in D}
<1>1. N \in Nat /\ Runs = 1..N
  BY Given DEF Runs
<1>2. T \subseteq Nat /\ T # {}
  BY <1>1
<1>3. PICK x \in T : \A y \in T : ~(<<y, x>> \in OpToRel(<, Nat))
  BY <1>2, WFMin, NatLessThanWellFounded
<1>4. \A y \in T : x <= y
  <2> TAKE y \in T
  <2>1. x \in Nat /\ y \in Nat
    BY <1>2
  <2>2. ~(y < x)
    BY <1>3, <2>1 DEF OpToRel
  <2> QED
    BY <2>1, <2>2
<1>5. PICK e \in D : x = N - e.run
  OBVIOUS
<1>6. ASSUME NEW d \in D PROVE d.run <= e.run
  <2>1. N - e.run <= N - d.run
    BY <1>4, <1>5
  <2> QED
    BY <1>1, <2>1
<1> QED
  BY <1>6

\* What is spared are finitely many runs, so that sparing more counts no less.
LEMMA SparedCounts ==
  ASSUME TypeOK, NEW S, S \subseteq Spared
  PROVE  Cardinality(S) \in Nat /\ Cardinality(Spared) \in Nat /\ Cardinality(S) <= Cardinality(Spared)
<1>1. \A g \in Snapshots : g.run \in Runs
  BY DEF TypeOK, Snapshots, Copies
<1>2. IsFiniteSet({g.run : g \in {h \in Snapshots : \A e \in doomed : h.run > e.run}})
  BY <1>1, RunsOf
<1>3. IsFiniteSet(Spared)
  BY <1>2 DEF Spared
<1> QED
  BY <1>3, FS_Subset, FS_CardinalityType

\* The same after a step.
LEMMA SparedCountsNext ==
  ASSUME TypeOK', NEW S, S \subseteq Spared'
  PROVE  /\ Cardinality(S) \in Nat /\ Cardinality(Spared)' \in Nat
         /\ Cardinality(S) <= Cardinality(Spared)'
<1>1. \A g \in Snapshots' : g.run \in Runs
  BY DEF TypeOK, Snapshots, Copies
<1>2. IsFiniteSet({g.run : g \in {h \in Snapshots' : \A e \in doomed' : h.run > e.run}})
  BY <1>1, RunsOf
<1>3. IsFiniteSet(Spared')
  BY <1>2 DEF Spared
<1> QED
  BY <1>3, FS_Subset, FS_CardinalityType

\* Retention condemns nothing newer than what it spares, and releases only the condemned.
LEMMA CondemnedNext ==
  ASSUME TypeOK, TypeOK', Condemned, [Next]_vars
  PROVE  Condemned'
<1> USE Given DEF TypeOK, store, cluster, locals, Refuse, Aside, Cleared
<1>a. \A e \in escrows \cup doomed : e.run \in Nat
  BY DEF Copies, Runs
<1>b. aged \in Nat /\ aged' \in Nat
  BY DEF Runs
<1>1. ASSUME doomed' = doomed, aged' = aged, escrows \subseteq escrows' PROVE Condemned'
  <2>1. Spared \subseteq Spared'
    BY <1>1 DEF Spared, Snapshots
  <2> QED
    BY <1>1, <2>1, SparedCountsNext DEF Condemned
<1>2. ASSUME NEW o \in Ops, Verify(o) PROVE Condemned'
  <2>1. CASE escrows' = escrows
    BY <1>1, <1>2, <2>1 DEF Verify
  <2>2. CASE escrows' = Readied(o)
    <3>1. \A e \in escrows : \E f \in escrows' : f.run = e.run /\ f.by = e.by
      BY <2>2, VerifyReadies
    <3>2. UNCHANGED <<doomed, aged>>
      BY <1>2 DEF Verify
    <3>3. Spared \subseteq Spared'
      <4> SUFFICES ASSUME NEW e \in escrows, e.by = "snapshot", \A d \in doomed : e.run > d.run
                   PROVE  e.run \in Spared'
        BY DEF Spared, Snapshots
      <4>1. PICK f \in escrows' : f.run = e.run /\ f.by = e.by
        BY <3>1
      <4> QED
        BY <3>2, <4>1 DEF Spared, Snapshots
    <3> QED
      BY <3>2, <3>3, SparedCountsNext DEF Condemned
  <2> QED
    BY <1>2, <2>1, <2>2 DEF Verify, Readied
<1>3. ASSUME NEW o \in Ops, NEW v \in PVCs, Capture(o, v) PROVE Condemned'
  BY <1>1, <1>3 DEF Capture
<1>4. CASE List
  <2>1. /\ doomed' = SelectForRelease /\ doomed' # {} /\ UNCHANGED <<escrows, aged>>
    BY <1>4 DEF List
  <2>2. \A e \in doomed' : e \in Snapshots /\ e.run <= aged
    BY <2>1 DEF SelectForRelease
  <2>3. \A e \in doomed' : e.run \in Runs /\ e.run \in Nat
    BY <2>2 DEF Snapshots, Copies, Runs
  <2>4. PICK e \in doomed' : \A d \in doomed' : d.run <= e.run
    BY <2>1, <2>3, NewestRun
  <2> DEFINE newer == {r \in {f.run : f \in Snapshots} : r > e.run}
  <2>5. Cardinality(newer) >= KeepLast
    BY <2>1 DEF SelectForRelease
  <2>6. newer \subseteq Spared'
    <3> SUFFICES ASSUME NEW f \in Snapshots, f.run > e.run PROVE f.run \in Spared'
      OBVIOUS
    <3>1. f.run \in Nat
      BY <1>a DEF Snapshots
    <3>2. \A d \in doomed' : f.run > d.run
      BY <2>3, <2>4, <3>1
    <3>3. f \in Snapshots'
      BY <2>1 DEF Snapshots
    <3> QED
      BY <3>2, <3>3 DEF Spared
  <2>7. Cardinality(Spared)' >= KeepLast
    <3> HIDE DEF newer
    <3> QED
      BY <2>5, <2>6, SparedCountsNext
  <2> QED
    BY <2>1, <2>2, <2>7 DEF Condemned
<1>5. CASE ReleaseOne
  <2>1. PICK e \in doomed : doomed' = doomed \ {e} /\ escrows' \in {escrows \ {e}, escrows}
    BY <1>5 DEF ReleaseOne
  <2>2. ~(e.run > e.run)
    BY <1>a
  <2>3. Spared \subseteq Spared'
    BY <2>1, <2>2 DEF Spared, Snapshots
  <2>4. aged' = aged
    BY <1>5 DEF ReleaseOne
  <2> QED
    BY <2>1, <2>3, <2>4, SparedCountsNext DEF Condemned
<1>6. CASE Age
  <2>1. doomed' = doomed /\ escrows' = escrows /\ aged' = aged + 1
    BY <1>6 DEF Age
  <2>2. Spared' = Spared
    BY <2>1 DEF Spared, Snapshots
  <2>3. \A e \in doomed : e.run <= aged'
    BY <1>a, <1>b, <2>1 DEF Condemned
  <2> QED
    BY <2>1, <2>2, <2>3 DEF Condemned
<1>7. \/ List \/ ReleaseOne \/ Age \/ (\E o \in Ops : Verify(o)) \/ (\E o \in Ops, v \in PVCs : Capture(o, v))
      \/ UNCHANGED <<doomed, aged, escrows>>
  BY DEF Next, Restore, BeginGalera, BeginCnpg, Prepare, Captured, Fence, Stream, Unfence,
         BackupDump, Forget, Commit, Replicate, Die, Start, vars
<1> QED
  BY <1>1, <1>2, <1>3, <1>4, <1>5, <1>6, <1>7

-----------------------------------------------------------------------------
(* The theorems *)

\* It starts typed, with nothing captured and nothing owed.
LEMMA BackupInit == Init => TypeOK /\ BackupInv
<1> SUFFICES ASSUME Init PROVE TypeOK /\ BackupInv
  OBVIOUS
<1> USE Given DEF Init
<1>1. TypeOK
  BY DEF TypeOK
<1>2. Numbered = 0
  <2>1. {q \in Ops : run[q] # 0} = {}
    OBVIOUS
  <2> QED
    BY <2>1, FS_EmptySet DEF Numbered
<1>3. Youngest
  BY <1>2 DEF Youngest, Active
<1>4. Capturing
  BY DEF Capturing
<1>5. Owed
  BY DEF Owed, OwedBy
<1>6. Condemned
  BY DEF Condemned
<1> QED
  BY <1>1, <1>3, <1>4, <1>5, <1>6 DEF BackupInv

\* Together: the invariant is inductive.
LEMMA BackupNext == TypeOK /\ BackupInv /\ [Next]_vars => TypeOK' /\ BackupInv'
  BY TypedNext, YoungestNext, CapturingNext, OwedNext, CondemnedNext DEF BackupInv

\* Every variable keeps its range, and every capture its name and owner, for any number
\* of restores.
THEOREM BackupsTyped == Spec => []TypeOK
<1>1. Init => TypeOK /\ BackupInv
  BY BackupInit
<1>2. TypeOK /\ BackupInv /\ [Next]_vars => TypeOK' /\ BackupInv'
  BY BackupNext
<1> QED
  BY <1>1, <1>2, PTL DEF Spec

\* Where a restore stands tells what its captures hold and how old they are; what
\* retention condemned, how many runs are newer.
THEOREM BackupsInvariant == Spec => []BackupInv
<1>1. Init => TypeOK /\ BackupInv
  BY BackupInit
<1>2. TypeOK /\ BackupInv /\ [Next]_vars => TypeOK' /\ BackupInv'
  BY BackupNext
<1> QED
  BY <1>1, <1>2, PTL DEF Spec

\* A restore can be rolled back from its first mutation until its copies have aged,
\* whatever retention and any number of other restores do meanwhile.
THEOREM BackupsRollBack == Spec => []RollbackKept
<1>1. BackupInv => RollbackKept
  BY DEF BackupInv, Owed, OwedBy, Secured, RollbackKept
<1> QED
  BY <1>1, BackupsInvariant, PTL

\* Retention releases only what has aged, and of no run among the newest KeepLast.
THEOREM BackupsKeepNewest == Spec => NewestRunsKept
<1>1. TypeOK /\ BackupInv /\ [Next]_vars =>
        [\A e \in Snapshots \ escrows' :
           \/ e.ready /= TRUE /\ [e EXCEPT !.ready = TRUE] \in escrows'
           \/ /\ e.run <= aged
              /\ Cardinality({f.run : f \in {g \in Snapshots : g.run > e.run}}) >= KeepLast]_vars
  <2> SUFFICES ASSUME TypeOK, BackupInv, Next, NEW e \in Snapshots, e \notin escrows'
               PROVE  \/ e.ready /= TRUE /\ [e EXCEPT !.ready = TRUE] \in escrows'
                      \/ /\ e.run <= aged
                         /\ Cardinality({f.run : f \in {g \in Snapshots : g.run > e.run}}) >= KeepLast
    OBVIOUS
  <2>1. e \in escrows /\ e \in Copies
    BY DEF Snapshots, TypeOK
  <2>2. ASSUME NEW o \in Ops, Verify(o)
        PROVE  e.ready /= TRUE /\ [e EXCEPT !.ready = TRUE] \in escrows'
    <3>1. escrows' = Readied(o)
      BY <2>1, <2>2 DEF Verify, Readied
    <3>2. e.run = run[o] /\ [e EXCEPT !.ready = TRUE] \in escrows'
      BY <2>1, <3>1, VerifyReadies
    <3>3. e.ready = TRUE => [e EXCEPT !.ready = TRUE] = e
      BY <2>1 DEF Copies
    <3> QED
      BY <3>2, <3>3
  <2>3. CASE ReleaseOne
    <3>1. e \in doomed
      BY <2>1, <2>3 DEF ReleaseOne
    <3> DEFINE newer == {f.run : f \in {g \in Snapshots : g.run > e.run}}
    <3>2. e.run <= aged /\ Cardinality(Spared) >= KeepLast /\ Spared \subseteq newer
      BY <3>1 DEF BackupInv, Condemned, Spared
    <3>3. IsFiniteSet(newer)
      <4>1. \A g \in {h \in Snapshots : h.run > e.run} : g.run \in Runs
        BY DEF TypeOK, Snapshots, Copies
      <4> QED
        BY <4>1, RunsOf
    <3>4. Cardinality(Spared) <= Cardinality(newer) /\ Cardinality(newer) \in Nat
      BY <3>2, <3>3, FS_Subset, FS_CardinalityType
    <3>5. Cardinality(Spared) \in Nat
      BY SparedCounts
    <3> HIDE DEF newer
    <3>6. Cardinality(newer) >= KeepLast
      BY <3>2, <3>4, <3>5, Given
    <3> QED
      BY <3>2, <3>6 DEF newer
  <2>4. ASSUME NEW o \in Ops, NEW v \in PVCs, Capture(o, v) PROVE FALSE
    BY <2>1, <2>4 DEF Capture
  <2>5. ReleaseOne \/ (\E o \in Ops : Verify(o)) \/ (\E o \in Ops, v \in PVCs : Capture(o, v))
    BY <2>1 DEF Next, Restore, BeginGalera, BeginCnpg, Prepare, Captured, Fence, Stream, Unfence,
         List, Age, BackupDump, Forget, Commit, Replicate, Die, Start, store, Aside
  <2> QED
    BY <2>2, <2>3, <2>4, <2>5
<1> QED
  BY <1>1, BackupsTyped, BackupsInvariant, PTL DEF Spec, NewestRunsKept
=============================================================================
