------------------------------- MODULE PruneWal -------------------------------
(***************************************************************************)
(* prune-wal of a CloudNativePG instance whose disk is full of WAL:        *)
(* src/src/engine/prunewal/cnpg.go (delete what lies before the            *)
(* checkpoint) and deadlock.go (move the WAL away, replay it, move what is *)
(* left back).  Its offline job, call by call, is in OfflineJob.           *)
(*                                                                         *)
(* WAL is a sequence of records; segments are as long as one record, and   *)
(* an LSN is the number of records before it.  There are two timelines:    *)
(* the second shares the first's records below the fork.                   *)
(***************************************************************************)
EXTENDS Integers, FiniteSets

CONSTANTS
  Target,     \* --instance
  Replicas,   \* the other instances
  MaxEnd,     \* bound on the records
  Short,      \* by how much "redo done at" falls short of the last record's end: the
              \* code takes it for 0; PostgreSQL prints where that record begins, 1
  Runs        \* bound on the invocations

ASSUME PruneAssumption ==
  Target \notin Replicas /\ MaxEnd \in Nat /\ Short \in {0, 1} /\ Runs \in Nat

Instances == Replicas \cup {Target}
Records   == 0..MaxEnd

VARIABLES
  primary,   \* status.currentPrimary
  up,        \* Ready instances
  fenced,    \* is the target fenced?
  timeline, end, fork,          \* the WAL each instance has flushed or received
  applied,   \* the target's checkpoint REDO: its data files hold every record before it
  wal,       \* the records in pg_wal on the target's volume
  layout,    \* pg_wal is a "dir", a "link" to the helper's scratch volume, or "dangling"
  scratch,   \* the records on that volume
  saved,     \* what each escrow copy of the volume can recover
  pc, order, \* the invocation: [deadlock, force, noEscrow]
  cached,    \* the primary in the Cluster object it holds
  checked,   \* the replicas its triage found ready
  redo,      \* the boundary it read
  recovered, \* "redo done at"
  safe,      \* may a recovered primary be released?
  led,       \* history: was the target still the primary when the replicas were read?
  before,    \* history: what the target's volume could recover when triaged
  outcome, runs

cluster == <<primary, up, timeline, end, fork>>
volume  == <<applied, wal, layout, scratch>>
locals  == <<order, cached, checked, redo, recovered, safe, led, before>>
vars    == <<cluster, fenced, volume, saved, pc, locals, outcome, runs>>

\* The job has the volume and the operator's reconciliation is off.
OnVolume == {"boundary", "verify", "delete", "relocate", "replay", "trim", "moveback",
             "peers", "done"}
Labels   == {"idle", "triage", "escrow", "fence", "acquire", "unfence", "ended"} \cup OnVolume
Orders   == [deadlock : BOOLEAN, force : BOOLEAN, noEscrow : BOOLEAN]

\* Crash recovery reads on from the checkpoint to the first record that is missing.
Recoverable(a, w) == {n \in Records : n < a \/ a..n \subseteq w}

TypeOK ==
  /\ primary \in Instances /\ cached \in Instances /\ up \subseteq Instances
  /\ fenced \in BOOLEAN /\ (fenced => Target \notin up)
  /\ timeline \in [Instances -> {1, 2}] /\ end \in [Instances -> Records] /\ fork \in Records
  /\ applied \in Records /\ wal \subseteq Records
  /\ layout \in {"dir", "link", "dangling"} /\ scratch \subseteq Records
  /\ (layout # "dir" => wal = {}) /\ (scratch # {} => pc \in OnVolume)
  /\ saved \subseteq SUBSET Records
  /\ pc \in Labels /\ order \in Orders /\ (pc \in OnVolume => fenced)
  /\ checked \subseteq Replicas
  /\ redo \in Records /\ recovered \in 0..(MaxEnd + 1)
  /\ safe \in BOOLEAN /\ led \in BOOLEAN /\ before \subseteq Records
  /\ outcome \in {"none", "ok", "error"} /\ runs \in 0..Runs

\* Any cluster whose instances agree below the fork; the target needs the WAL from its
\* checkpoint on, and may keep more of it for its replicas.
Init ==
  /\ primary \in Instances /\ up \in SUBSET Instances
  /\ fenced = FALSE
  /\ timeline \in [Instances -> {1, 2}] /\ end \in [Instances -> Records] /\ fork \in Records
  /\ \A i \in Instances : timeline[i] = 2 => fork <= end[i]
  /\ (timeline = [i \in Instances |-> 1]) => fork = MaxEnd
  /\ \E lo \in Records : /\ applied \in lo..end[Target]
                         /\ wal = lo..(end[Target] - 1)
  /\ layout = "dir" /\ scratch = {} /\ saved = {}
  /\ pc = "idle" /\ order = [deadlock |-> FALSE, force |-> FALSE, noEscrow |-> FALSE]
  /\ cached = primary /\ checked = {} /\ redo = 0 /\ recovered = 0
  /\ safe = FALSE /\ led = FALSE /\ before = {}
  /\ outcome = "none" /\ runs = 0

-----------------------------------------------------------------------------
(* Records of different instances *)

\* Instance i has record n of instance j's history.
Has(i, j, n) == n < end[i] /\ (timeline[i] = timeline[j] \/ n < fork)

Contains(i, j) == \A n \in 0..(end[j] - 1) : Has(i, j, n)

\* What triage concludes (CnpgAuthority) of a cluster it could read.
IsAuthority == \A r \in Replicas : Contains(Target, r)
Diverged    == \E r \in Replicas : ~Contains(Target, r) /\ ~Contains(r, Target)

-----------------------------------------------------------------------------
(* How an invocation goes on, and how it ends *)

Goto(l) == pc' = l /\ UNCHANGED outcome
End(o)  == pc' = "ended" /\ outcome' = o

\* The job gives up: its helper pod goes, and the scratch volume with it; the fence
\* stays.  The death of the process leaves the data no better off.
Fail ==
  /\ End("error")
  /\ scratch' = {}
  /\ layout' = IF layout = "link" THEN "dangling" ELSE layout

NoChange == UNCHANGED <<cluster, runs>>

Begin ==
  /\ pc \in {"idle", "ended"} /\ runs < Runs /\ runs' = runs + 1
  /\ order' \in Orders
  /\ cached' = primary
  /\ pc' = "triage" /\ outcome' = "none"
  /\ UNCHANGED <<cluster, fenced, volume, saved, checked, redo, recovered, safe, led, before>>

-----------------------------------------------------------------------------
(* Phases 1 and 2: triage and the safety checks *)

IsPrimary == cached = Target

\* Only the data authority, or the side an operator chose in a divergence, is relieved.
ReliefEligible == IsAuthority \/ (Diverged /\ order.force)

VerifyReplicas == IsPrimary /\ ~order.deadlock

Eligible ==
  /\ Target \notin up
  /\ IF VerifyReplicas THEN up \cap Replicas # {} \/ order.force ELSE ReliefEligible

Triage ==
  /\ pc = "triage"
  /\ before' = Recoverable(applied, wal)
  /\ checked' = IF VerifyReplicas THEN up \cap Replicas ELSE {}
  /\ IF Eligible
     THEN Goto(IF order.deadlock THEN "escrow" ELSE "fence")
     ELSE End("error")
  /\ NoChange /\ UNCHANGED <<fenced, volume, saved, order, cached, redo, recovered, safe, led>>

\* Mutant: --force skips the escrow too, as the refusal's text says it does.
EscrowUnlessForced ==
  /\ pc = "escrow"
  /\ \/ (order.noEscrow \/ order.force) /\ Goto("fence") /\ UNCHANGED saved
     \/ /\ ~order.noEscrow
        /\ saved' = saved \cup {Recoverable(applied, wal)} /\ Goto("fence")
  /\ NoChange /\ UNCHANGED <<fenced, volume, locals>>

\* deadlockRecover, step 1: no mutation before the copy, unless waived by name.
Escrow ==
  /\ pc = "escrow"
  /\ \/ order.noEscrow /\ Goto("fence") /\ UNCHANGED saved
     \/ ~order.noEscrow /\ saved' = saved \cup {Recoverable(applied, wal)} /\ Goto("fence")
     \/ ~order.noEscrow /\ End("error") /\ UNCHANGED saved
  /\ NoChange /\ UNCHANGED <<fenced, volume, locals>>

\* Mutant: a fence that could not be set stops nothing.
FenceUnchecked ==
  /\ pc = "fence"
  /\ \/ Goto("acquire") /\ fenced' = TRUE /\ up' = up \ {Target}
     \/ Goto("acquire") /\ UNCHANGED <<fenced, up>>
  /\ UNCHANGED <<primary, timeline, end, fork, volume, saved, locals, runs>>

Fence ==
  /\ pc = "fence"
  /\ \/ Goto("acquire") /\ fenced' = TRUE /\ up' = up \ {Target}
     \/ End("error") /\ UNCHANGED <<fenced, up>>
  /\ UNCHANGED <<primary, timeline, end, fork, volume, saved, locals, runs>>

Acquire ==
  /\ pc = "acquire"
  /\ \/ Goto(IF order.deadlock THEN "relocate" ELSE "boundary") /\ UNCHANGED volume
     \/ Fail /\ UNCHANGED <<applied, wal>>
  /\ NoChange /\ UNCHANGED <<fenced, saved, locals>>

-----------------------------------------------------------------------------
(* pruneWALOnPVC: delete what lies before the checkpoint *)

Boundary ==
  /\ pc = "boundary"
  /\ \/ /\ redo' = applied /\ Goto(IF VerifyReplicas THEN "verify" ELSE "delete")
        /\ UNCHANGED volume
     \/ Fail /\ UNCHANGED <<applied, wal, redo>>
  /\ NoChange
  /\ UNCHANGED <<fenced, saved, order, cached, checked, recovered, safe, led, before>>

\* Mutant: one replica that has caught up is taken for all of them.
VerifyOne ==
  /\ pc = "verify"
  /\ \E replay \in [checked -> Records] :
       /\ \A r \in checked : replay[r] <= end[r]
       /\ \/ order.force
          \/ \E r \in checked : replay[r] >= redo
  /\ Goto("delete")
  /\ NoChange /\ UNCHANGED <<fenced, volume, saved, locals>>

\* assertReplicasCaughtUp: a standby has replayed no more than it received.
Verify ==
  /\ pc = "verify"
  /\ \/ /\ \E replay \in [checked -> Records] :
             /\ \A r \in checked : replay[r] <= end[r]
             /\ \/ order.force
                \/ checked # {} /\ \A r \in checked : replay[r] >= redo
        /\ Goto("delete") /\ UNCHANGED volume
     \/ Fail /\ UNCHANGED <<applied, wal>>
  /\ NoChange /\ UNCHANGED <<fenced, saved, locals>>

\* deleteWALOlderThan: rm may fail after some of the files.
Delete ==
  /\ pc = "delete"
  /\ \/ wal' = {n \in wal : n >= redo} /\ Goto("done") /\ UNCHANGED <<layout, scratch>>
     \/ (\E gone \in SUBSET {n \in wal : n < redo} : wal' = wal \ gone) /\ Fail
  /\ NoChange /\ UNCHANGED <<applied, fenced, saved, locals>>

-----------------------------------------------------------------------------
(* deadlockRecoverOnPVC: relocate, replay, trim, move back *)

\* Mutant: the emptied directory is removed with rm -r, so whatever did not move goes too.
RelocateForcibly ==
  /\ pc = "relocate"
  /\ \E left \in SUBSET wal : scratch' = wal \ left
  /\ wal' = {} /\ layout' = "link" /\ Goto("replay")
  /\ NoChange /\ UNCHANGED <<applied, fenced, saved, locals>>

\* mv may fail on some files, which "|| true" hides; then rmdir fails on what is left.
\* A pg_wal an earlier attempt turned into a link is taken for relocated.
Relocate ==
  /\ pc = "relocate"
  /\ \/ layout # "dir" /\ Goto("replay") /\ UNCHANGED <<wal, layout, scratch>>
     \/ /\ layout = "dir" /\ layout' = "link" /\ Goto("replay")
        /\ scratch' = wal /\ wal' = {}
     \/ (\E left \in SUBSET wal : wal' = left) /\ Fail
  /\ NoChange /\ UNCHANGED <<applied, fenced, saved, locals>>

\* postgres --single replays to the first missing record and checkpoints there; without
\* any WAL to start from it refuses.  Failing, or not "shut down" after, ends the job.
Replay ==
  /\ pc = "replay"
  /\ \/ /\ layout = "link"
        /\ applied' \in applied..MaxEnd
        /\ applied..(applied' - 1) \subseteq scratch /\ applied' \notin scratch
        /\ recovered' = IF applied' = applied THEN MaxEnd + 1 ELSE applied' - Short
        /\ Goto("trim") /\ UNCHANGED <<layout, scratch>>
     \/ Fail /\ UNCHANGED <<applied, recovered>>
  /\ NoChange
  /\ UNCHANGED <<wal, fenced, saved, order, cached, checked, redo, safe, led, before>>

\* pg_archivecleanup, up to the new checkpoint's REDO.
Trim ==
  /\ pc = "trim"
  /\ \/ scratch' = {n \in scratch : n >= applied} /\ Goto("moveback") /\ UNCHANGED layout
     \/ Fail
  /\ NoChange /\ UNCHANGED <<applied, wal, fenced, saved, locals>>

MoveBack ==
  /\ pc = "moveback"
  /\ layout' = "dir" /\ scratch' = {}
  /\ \/ wal' = scratch /\ Goto("peers")
     \/ wal' \in SUBSET scratch /\ End("error")
  /\ NoChange /\ UNCHANGED <<applied, fenced, saved, locals>>

\* What readReplicaPositions may be told: an instance just promoted still has the old
\* timeline in its control file, and the position it had received before.
Reported(r) ==
  {[timeline |-> timeline[r], lsn |-> end[r]]} \cup
  {[timeline |-> 1, lsn |-> l] : l \in IF r = primary /\ timeline[r] = 2 THEN {fork} ELSE {}}

\* Mutant: positions are compared across timelines.
ReleaseAnyTimeline(p) == p.lsn >= recovered

SafeToRelease(p) == p.timeline = timeline[Target] /\ p.lsn >= recovered

\* An instance that is not Ready, or does not answer, counts for nothing.
Peers ==
  /\ pc = "peers"
  /\ \E read \in SUBSET (up \cap Replicas) :
       \E p \in [read -> UNION {Reported(r) : r \in read}] :
         /\ \A r \in read : p[r] \in Reported(r)
         /\ safe' = (IsPrimary /\ \E r \in read : SafeToRelease(p[r]))
  /\ led' = (primary = Target)
  /\ Goto("done")
  /\ NoChange
  /\ UNCHANGED <<fenced, volume, saved, order, cached, checked, redo, recovered, before>>

-----------------------------------------------------------------------------
(* The job's end, and the release *)

\* Drop the helper and switch the operator on again; unfence what was the primary, and
\* after a deadlock recovery only if a replica has all of it.
Restored ==
  /\ pc = "done"
  /\ \/ Goto("unfence") /\ IsPrimary /\ (order.deadlock => safe)
     \/ End("ok") /\ ~(IsPrimary /\ (order.deadlock => safe))
     \/ End("error")
  /\ NoChange /\ UNCHANGED <<fenced, volume, saved, locals>>

Unfence ==
  /\ pc = "unfence"
  /\ \/ fenced' = FALSE /\ End("ok")
     \/ UNCHANGED fenced /\ End("error")
  /\ NoChange /\ UNCHANGED <<volume, saved, locals>>

Run == \/ Begin \/ Triage \/ Escrow \/ Fence \/ Acquire
       \/ Boundary \/ Verify \/ Delete
       \/ Relocate \/ Replay \/ Trim \/ MoveBack \/ Peers
       \/ Restored \/ Unfence

-----------------------------------------------------------------------------
(* PostgreSQL and the operator, which does nothing while the job has the volume *)

Reconciling == pc \notin OnVolume
Aside == UNCHANGED <<saved, pc, locals, outcome, runs>>

\* An instance starts: the target only as the primary, on the disk somebody enlarged.
Start(i) ==
  /\ Reconciling /\ i \notin up
  /\ i = Target => primary = Target /\ ~fenced /\ layout = "dir"
  /\ up' = up \cup {i}
  /\ Aside /\ UNCHANGED <<primary, timeline, end, fork, fenced, volume>>

\* The most advanced of the ready replicas takes over, on a timeline of its own.
Failover(r) ==
  /\ Reconciling /\ primary \notin up /\ r \in up
  /\ \A i \in Instances : timeline[i] = 1
  /\ \A s \in up : end[s] <= end[r]
  /\ primary' = r /\ fork' = end[r] /\ timeline' = [timeline EXCEPT ![r] = 2]
  /\ Aside /\ UNCHANGED <<up, end, fenced, volume>>

Commit ==
  /\ primary \in up /\ end[primary] < MaxEnd
  /\ end' = [end EXCEPT ![primary] = @ + 1]
  /\ wal' = IF primary = Target THEN wal \cup {end[Target]} ELSE wal
  /\ Aside /\ UNCHANGED <<primary, up, timeline, fork, fenced, applied, layout, scratch>>

\* A standby receives the next record from the primary, if that still has it.
Stream(r) ==
  /\ primary \in up /\ r \in up \ {primary} /\ end[r] < end[primary]
  /\ Contains(primary, r)
  /\ primary = Target => end[r] \in wal
  /\ end' = [end EXCEPT ![r] = @ + 1]
  /\ timeline' = [timeline EXCEPT ![r] = IF end[r] >= fork THEN timeline[primary] ELSE @]
  /\ Aside /\ UNCHANGED <<primary, up, fork, fenced, volume>>

World == \/ \E i \in Instances : Start(i)
         \/ \E r \in Replicas : Failover(r) \/ Stream(r)
         \/ Commit

Next == Run \/ World

Spec == Init /\ [][Next]_vars

-----------------------------------------------------------------------------
(* Properties *)

\* Whatever the target could recover when it was triaged, it can recover now, or a copy
\* in escrow can; only a deadlock recovery with --no-escrow gives that up.
RecoverableUnlessWaived ==
  (pc # "triage" /\ ~(order.deadlock /\ order.noEscrow)) =>
    \A n \in before : n \in Recoverable(applied, wal) \/ \E copy \in saved : n \in copy

\* A run that reports success has lost nothing of it from the volume itself, waived or
\* not: what was trimmed had been applied first.
OkKeepsAll == outcome = "ok" => before \subseteq Recoverable(applied, wal)

\* A plain prune of the primary, not forced, takes from no replica it found ready the WAL
\* that replica still has to receive.
NoReplicaStranded ==
  [][(pc = "delete" /\ IsPrimary /\ ~order.force) =>
       \A r \in checked : \A n \in wal \ wal' : n < end[r]]_vars

\* A recovered primary is handed back only when whoever leads, or may be promoted, has
\* every record it recovered (but the Short last ones), provided that it was still the
\* primary when the replicas were read.
ReleaseLosesNothing ==
  [][(pc = "unfence" /\ ~fenced' /\ order.deadlock /\ led) =>
       \E r \in up \cap Replicas :
         /\ primary \in {r, Target}
         /\ \A n \in 0..(applied - 1 - Short) : Has(r, Target, n)]_vars
=============================================================================
