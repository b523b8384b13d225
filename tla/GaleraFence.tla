----------------------------- MODULE GaleraFence -----------------------------
(***************************************************************************)
(* The two Galera operations that stop a whole cluster to read its         *)
(* authoritative positions: triage's deepRecover                           *)
(* (src/src/engine/triage/galera.go), which puts everything back, and      *)
(* bootstrap's executeBootstrap (src/src/engine/bootstrap/galera.go), which*)
(* declares a bootstrap source or rolls back.  Which node is chosen is     *)
(* left open here; it is the subject of GaleraAuthority.                   *)
(***************************************************************************)
EXTENDS GaleraCluster, FiniteSets

CONSTANTS
  Recovers,    \* the operations that are triage's deepRecover; the others bootstrap
  Forcing,     \* bootstraps run with --force
  Overlap,     \* operations that may run beside one another; the others run alone
  MayDie       \* may a process die?

Bootstraps == Ops \ Recovers

ASSUME FenceAssumption ==
  /\ Recovers \subseteq Ops /\ Forcing \subseteq Bootstraps
  /\ Overlap \subseteq Ops /\ MayDie \in BOOLEAN

VARIABLES
  pc,
  todo,        \* nodes whose position is still to be read, or marker to be cleared
  candidate,
  did,         \* what rescue() would have to undo
  warned       \* operations that told the user to restore something by hand

locals == <<todo, candidate, did, warned>>
vars   == <<cluster, interrupted, pc, locals>>

\* Between its first and its last write to the cluster.
Fencing == {"suspend", "lock", "scaleDown", "wait", "recover", "clear", "mark", "force",
            "scaleUp", "await", "unforce", "resume", "unlock",
            "undoForce", "undoMark", "undoLock", "undoScale", "undoResume"}
Ended == {"done", "skipped", "failed", "dead"}
Effects == {"suspended", "locked", "scaled", "marked", "forced"}

TypeOK ==
  /\ ClusterTypeOK
  /\ pc \in [Ops -> {"idle", "swap", "gates"} \cup Fencing \cup Ended]
  /\ todo \in [Ops -> SUBSET Nodes]
  /\ candidate \in [Ops -> Nodes \cup {NoNode}]
  /\ did \in [Ops -> SUBSET Effects]
  /\ warned \subseteq Ops

Init ==
  /\ ClusterInit
  /\ pc = [o \in Ops |-> "idle"]
  /\ todo = [o \in Ops |-> {}]
  /\ candidate = [o \in Ops |-> NoNode]
  /\ did = [o \in Ops |-> {}]
  /\ warned = {}

Goto(o, l) == pc' = [pc EXCEPT ![o] = l]
Done(o, e) == did' = [did EXCEPT ![o] = @ \cup {e}]
Undone(o, e) == did' = [did EXCEPT ![o] = @ \ {e}]
Outcomes == {TRUE, FALSE}

MayBegin(o) ==
  /\ pc[o] = "idle"
  /\ \A p \in Ops \ {o} : pc[p] \in {"idle"} \cup Ended \/ {o, p} \subseteq Overlap

-----------------------------------------------------------------------------
(* Triage's deep recovery *)

\* Nothing serves; then the read half of AcquireFenceLock.
Gate(r) ==
  /\ r \in Recovers /\ MayBegin(r)
  /\ serving = {}
  /\ \/ /\ LockAvailable
        /\ fresh' = fresh \cup {r}
        /\ Goto(r, "swap")
     \/ /\ ~LockAvailable \/ "get" \in MayFail
        /\ Goto(r, "skipped")
        /\ UNCHANGED fresh
  /\ UNCHANGED <<operator, lock, lockAge, forced, nodes, helper, locals>>

\* Mutant: the lock is patched in, without the resourceVersion of the read.
SwapBlind(r) ==
  /\ pc[r] = "swap"
  /\ WriteLock(r, TRUE)
  /\ Goto(r, "suspend")
  /\ UNCHANGED <<nodes, helper, locals>>

\* The compare-and-swap: a conflict or an error means the recovery is skipped.
Swap(r) ==
  /\ pc[r] = "swap"
  /\ \/ /\ r \in fresh
        /\ \E ok \in Outcomes : WriteLock(r, ok) /\ Goto(r, IF ok THEN "suspend" ELSE "skipped")
     \/ /\ r \notin fresh
        /\ Goto(r, "skipped")
        /\ UNCHANGED resource
  /\ UNCHANGED <<nodes, helper, locals>>

Suspend(r) ==
  /\ r \in Recovers /\ pc[r] = "suspend"
  /\ \E ok \in Outcomes : SuspendCR(Live(r), ok) /\ Goto(r, IF ok THEN "scaleDown" ELSE "unlock")
  /\ UNCHANGED <<nodes, helper, locals>>

ScaleDown(r) ==
  /\ r \in Recovers /\ pc[r] = "scaleDown"
  /\ \E ok \in Outcomes : ScaleStatefulSet(Live(r), 0, ok) /\ Goto(r, IF ok THEN "wait" ELSE "resume")
  /\ todo' = [todo EXCEPT ![r] = Nodes]
  /\ UNCHANGED <<resource, up, serving, marked, helper, candidate, did, warned>>

\* Mutant: a timeout of the wait is taken for "close enough".
WaitImpatient(r) ==
  /\ r \in Recovers /\ pc[r] = "wait"
  /\ Goto(r, "recover")
  /\ UNCHANGED <<cluster, locals>>

\* WaitPodsTerminated: no pod left, or a timeout and nothing is read.
Wait(r) ==
  /\ r \in Recovers /\ pc[r] = "wait"
  /\ \/ up = {} /\ Live(r) /\ Goto(r, "recover")
     \/ Goto(r, "scaleUp")
  /\ UNCHANGED <<cluster, locals>>

\* RunWsrepRecover, one node after the other; a failure skips the node.  When
\* interrupted, all that are left fail, and a helper at work stays behind.
StartRecover(o, n) ==
  /\ pc[o] = "recover" /\ helper[o] = NoNode /\ Live(o)
  /\ n \in todo[o]
  /\ helper' = [helper EXCEPT ![o] = n]
  /\ UNCHANGED <<resource, nodes, pc, locals>>

EndRecover(o) ==
  /\ pc[o] = "recover" /\ helper[o] # NoNode /\ Live(o)
  /\ helper' = [helper EXCEPT ![o] = NoNode]
  /\ todo' = [todo EXCEPT ![o] = @ \ {helper[o]}]
  /\ UNCHANGED <<resource, nodes, pc, candidate, did, warned>>

RecoverOver(o) == pc[o] = "recover" /\ (Live(o) => helper[o] = NoNode /\ todo[o] = {})

AllRead(r) ==
  /\ r \in Recovers /\ RecoverOver(r)
  /\ Goto(r, "scaleUp")
  /\ UNCHANGED <<cluster, locals>>

\* The deferred restores, last in first out; each failure is only a warning.
ScaleUp(r) ==
  /\ r \in Recovers /\ pc[r] = "scaleUp"
  /\ \E ok \in Outcomes :
       /\ ScaleStatefulSet(Live(r), Replicas, ok)
       /\ warned' = IF ok THEN warned ELSE warned \cup {r}
  /\ Goto(r, "resume")
  /\ UNCHANGED <<resource, up, serving, marked, helper, todo, candidate, did>>

\* Mutant: a recovery that read nothing does not resume the operator.
ResumeForgotten(r) ==
  /\ r \in Recovers /\ pc[r] = "resume"
  /\ IF todo[r] = {} THEN ResumeCR(Live(r), TRUE) ELSE UNCHANGED resource
  /\ Goto(r, "unlock")
  /\ UNCHANGED <<nodes, helper, locals>>

Resume(r) ==
  /\ r \in Recovers /\ pc[r] = "resume"
  /\ \E ok \in Outcomes :
       /\ ResumeCR(Live(r), ok)
       /\ warned' = IF ok THEN warned ELSE warned \cup {r}
  /\ Goto(r, "unlock")
  /\ UNCHANGED <<nodes, helper, todo, candidate, did>>

Unlock(r) ==
  /\ r \in Recovers /\ pc[r] = "unlock"
  /\ \E ok \in Outcomes : ClearFenceLock(Live(r), ok)
  /\ Goto(r, "done")
  /\ UNCHANGED <<nodes, helper, locals>>

DeepRecover(r) ==
  /\ \/ Gate(r) \/ Swap(r) \/ Suspend(r) \/ ScaleDown(r) \/ Wait(r)
     \/ r \in Recovers /\ \E n \in Nodes : StartRecover(r, n)
     \/ r \in Recovers /\ EndRecover(r)
     \/ AllRead(r) \/ ScaleUp(r) \/ Resume(r) \/ Unlock(r)
  /\ UNCHANGED interrupted

-----------------------------------------------------------------------------
(* Bootstrap *)

\* The stale-lock check, at the very beginning; it takes nothing.
CheckLock(b) ==
  /\ b \in Bootstraps /\ MayBegin(b)
  /\ \/ /\ lock = NoOne \/ lockAge = "stale" \/ b \in Forcing \/ "get" \in MayFail
        /\ Goto(b, "gates")
     \/ /\ lock # NoOne /\ lockAge = "fresh" /\ b \notin Forcing
        /\ Goto(b, "skipped")
  /\ UNCHANGED <<cluster, locals>>

\* Triage found every node down; the escrow gate passed.
Gates(b) ==
  /\ b \in Bootstraps /\ pc[b] = "gates"
  /\ \/ serving = {} /\ Live(b) /\ Goto(b, "suspend")
     \/ Goto(b, "skipped")
  /\ UNCHANGED <<cluster, locals>>

BootSuspend(b) ==
  /\ b \in Bootstraps /\ pc[b] = "suspend"
  /\ \E ok \in Outcomes :
       /\ SuspendCR(Live(b), ok)
       /\ Goto(b, IF ok THEN "lock" ELSE "undoForce")
       /\ IF ok THEN Done(b, "suspended") ELSE UNCHANGED did
  /\ UNCHANGED <<nodes, helper, todo, candidate, warned>>

\* The generation lock is a plain patch.
BootLock(b) ==
  /\ b \in Bootstraps /\ pc[b] = "lock"
  /\ \E ok \in Outcomes :
       /\ WriteLock(b, ok)
       /\ Goto(b, IF ok THEN "scaleDown" ELSE "undoForce")
       /\ IF ok THEN Done(b, "locked") ELSE UNCHANGED did
  /\ UNCHANGED <<nodes, helper, todo, candidate, warned>>

BootScaleDown(b) ==
  /\ b \in Bootstraps /\ pc[b] = "scaleDown"
  /\ \E ok \in Outcomes :
       /\ ScaleStatefulSet(Live(b), 0, ok)
       /\ Goto(b, IF ok THEN "wait" ELSE "undoForce")
       /\ IF ok THEN Done(b, "scaled") ELSE UNCHANGED did
  /\ todo' = [todo EXCEPT ![b] = Nodes]
  /\ UNCHANGED <<resource, up, serving, marked, helper, candidate, warned>>

BootWait(b) ==
  /\ b \in Bootstraps /\ pc[b] = "wait"
  /\ \/ up = {} /\ Live(b) /\ Goto(b, "recover")
     \/ Goto(b, "undoForce")
  /\ UNCHANGED <<cluster, locals>>

\* selectCandidate, its gates included: some node, or an abort.  The other
\* nodes with a marker are to be cleared; those far behind lose their
\* galera.cache, through a helper of the same kind.
Select(b) ==
  /\ b \in Bootstraps /\ RecoverOver(b)
  /\ \/ /\ \E n \in Nodes, behind \in SUBSET Nodes :
             /\ candidate' = [candidate EXCEPT ![b] = n]
             /\ todo' = [todo EXCEPT ![b] = (marked \cup behind) \ {n}]
        /\ Goto(b, "clear")
     \/ Goto(b, "undoForce") /\ UNCHANGED <<candidate, todo>>
  /\ UNCHANGED <<cluster, did, warned>>

\* Mutant: markers that other nodes carry are left alone.
ClearNothing(b, n) ==
  /\ b \in Bootstraps /\ pc[b] = "clear" /\ helper[b] = n
  /\ helper' = [helper EXCEPT ![b] = NoNode]
  /\ todo' = [todo EXCEPT ![b] = @ \ {n}]
  /\ UNCHANGED <<resource, nodes, pc, candidate, did, warned>>

\* Clear a marker another node carries; a failure is only logged.
ClearMarker(b, n) ==
  /\ b \in Bootstraps /\ pc[b] = "clear" /\ helper[b] = n /\ Live(b)
  /\ \/ marked' = marked \ {n}
     \/ "helper" \in MayFail /\ UNCHANGED marked
  /\ helper' = [helper EXCEPT ![b] = NoNode]
  /\ todo' = [todo EXCEPT ![b] = @ \ {n}]
  /\ UNCHANGED <<resource, size, up, serving, pc, candidate, did, warned>>

\* When interrupted, no helper can be created, the one for the candidate neither.
StartClear(b) ==
  /\ b \in Bootstraps /\ pc[b] = "clear"
  /\ \/ /\ ~Live(b)
        /\ Goto(b, "undoForce")
        /\ UNCHANGED helper
     \/ /\ Live(b) /\ helper[b] = NoNode
        /\ \E n \in todo[b] : helper' = [helper EXCEPT ![b] = n]
        /\ UNCHANGED pc
     \/ /\ Live(b) /\ helper[b] = NoNode /\ todo[b] = {}
        /\ helper' = [helper EXCEPT ![b] = candidate[b]]
        /\ Goto(b, "mark")
  /\ UNCHANGED <<resource, nodes, locals>>

\* safe_to_bootstrap: 1 on the candidate.  When interrupted, it is not known
\* whether the helper wrote it, and the helper stays behind.
Mark(b) ==
  /\ b \in Bootstraps /\ pc[b] = "mark"
  /\ \/ /\ Live(b)
        /\ \E ok \in Outcomes :
             /\ marked' \in Answer(TRUE, "helper", ok, marked, marked \cup {candidate[b]})
             /\ Goto(b, IF ok THEN "force" ELSE "undoForce")
             /\ IF ok THEN Done(b, "marked") ELSE UNCHANGED did
        /\ helper' = [helper EXCEPT ![b] = NoNode]
     \/ /\ ~Live(b)
        /\ marked' \in {marked, marked \cup {candidate[b]}}
        /\ Goto(b, "undoForce")
        /\ UNCHANGED <<helper, did>>
  /\ UNCHANGED <<resource, size, up, serving, todo, candidate, warned>>

PatchForced(ctx, call, n, ok) ==
  /\ forced' \in Answer(ctx, call, ok, forced, n)
  /\ UNCHANGED <<operator, lock, lockAge>>
  /\ Touched

ForceInPod(b) ==
  /\ b \in Bootstraps /\ pc[b] = "force"
  /\ \E ok \in Outcomes :
       /\ PatchForced(Live(b), "force", candidate[b], ok)
       /\ Goto(b, IF ok THEN "scaleUp" ELSE "undoForce")
       /\ IF ok THEN Done(b, "forced") ELSE UNCHANGED did
  /\ UNCHANGED <<nodes, helper, todo, candidate, warned>>

\* Mutant: one pod too many.
BootScaleUpOneMore(b) ==
  /\ b \in Bootstraps /\ pc[b] = "scaleUp"
  /\ \E ok \in Outcomes :
       /\ ScaleStatefulSet(Live(b), Replicas + 1, ok)
       /\ Goto(b, IF ok THEN "await" ELSE "undoForce")
       /\ IF ok THEN Undone(b, "scaled") ELSE UNCHANGED did
  /\ UNCHANGED <<resource, up, serving, marked, helper, todo, candidate, warned>>

\* The point of no return.
BootScaleUp(b) ==
  /\ b \in Bootstraps /\ pc[b] = "scaleUp"
  /\ \E ok \in Outcomes :
       /\ ScaleStatefulSet(Live(b), Replicas, ok)
       /\ Goto(b, IF ok THEN "await" ELSE "undoForce")
       /\ IF ok THEN Undone(b, "scaled") ELSE UNCHANGED did
  /\ UNCHANGED <<resource, up, serving, marked, helper, todo, candidate, warned>>

\* All pods ready, or the soft timeout.
Await(b) ==
  /\ b \in Bootstraps /\ pc[b] = "await"
  /\ Goto(b, "unforce")
  /\ UNCHANGED <<cluster, locals>>

\* Five verified attempts; then only a warning.
Unforce(b) ==
  /\ b \in Bootstraps /\ pc[b] = "unforce"
  /\ \E ok \in Outcomes :
       /\ PatchForced(Live(b), "unforce", NoNode, ok)
       /\ warned' = IF ok THEN warned ELSE warned \cup {b}
  /\ Goto(b, "unlock")
  /\ UNCHANGED <<nodes, helper, todo, candidate, did>>

BootUnlock(b) ==
  /\ b \in Bootstraps /\ pc[b] = "unlock"
  /\ \E ok \in Outcomes : ClearFenceLock(Live(b), ok)
  /\ Undone(b, "locked")
  /\ Goto(b, "resume")
  /\ UNCHANGED <<nodes, helper, todo, candidate, warned>>

BootResume(b) ==
  /\ b \in Bootstraps /\ pc[b] = "resume"
  /\ \E ok \in Outcomes :
       /\ ResumeCR(Live(b), ok)
       /\ warned' = IF ok THEN warned ELSE warned \cup {b}
  /\ Undone(b, "suspended")
  /\ Goto(b, "done")
  /\ UNCHANGED <<nodes, helper, todo, candidate>>

-----------------------------------------------------------------------------
(* rescue(): undo what "did" records, in this order; every error is ignored. *)

UndoForce(b) ==
  /\ pc[b] = "undoForce"
  /\ IF "forced" \in did[b]
     THEN \E ok \in Outcomes : PatchForced(Live(b), "unforce", NoNode, ok)
     ELSE UNCHANGED resource
  /\ helper' = IF "marked" \in did[b] /\ Live(b) THEN [helper EXCEPT ![b] = candidate[b]] ELSE helper
  /\ Goto(b, "undoMark")
  /\ UNCHANGED <<nodes, locals>>

UndoMark(b) ==
  /\ pc[b] = "undoMark"
  /\ marked' \in IF "marked" \notin did[b] THEN {marked}
                 ELSE IF Live(b) THEN UNION {Answer(TRUE, "helper", ok, marked, marked \ {candidate[b]}) : ok \in Outcomes}
                 ELSE {marked, marked \ {candidate[b]}}
  /\ helper' = IF Live(b) THEN [helper EXCEPT ![b] = NoNode] ELSE helper
  /\ Goto(b, "undoLock")
  /\ UNCHANGED <<resource, size, up, serving, locals>>

UndoLock(b) ==
  /\ pc[b] = "undoLock"
  /\ IF "locked" \in did[b]
     THEN \E ok \in Outcomes : ClearFenceLock(Live(b), ok)
     ELSE UNCHANGED resource
  /\ Goto(b, "undoScale")
  /\ UNCHANGED <<nodes, helper, locals>>

UndoScale(b) ==
  /\ pc[b] = "undoScale"
  /\ IF "scaled" \in did[b]
     THEN \E ok \in Outcomes : ScaleStatefulSet(Live(b), Replicas, ok)
     ELSE UNCHANGED size
  /\ Goto(b, "undoResume")
  /\ UNCHANGED <<resource, up, serving, marked, helper, locals>>

UndoResume(b) ==
  /\ pc[b] = "undoResume"
  /\ IF "suspended" \in did[b]
     THEN \E ok \in Outcomes : ResumeCR(Live(b), ok)
     ELSE UNCHANGED resource
  /\ Goto(b, "failed")
  /\ UNCHANGED <<nodes, helper, locals>>

Rescue(b) == UndoForce(b) \/ UndoMark(b) \/ UndoLock(b) \/ UndoScale(b) \/ UndoResume(b)

Bootstrap(b) ==
  /\ \/ CheckLock(b) \/ Gates(b) \/ BootSuspend(b) \/ BootLock(b) \/ BootScaleDown(b) \/ BootWait(b)
     \/ b \in Bootstraps /\ \E n \in Nodes : StartRecover(b, n)
     \/ b \in Bootstraps /\ EndRecover(b)
     \/ Select(b) \/ StartClear(b) \/ (\E n \in Nodes : ClearMarker(b, n)) \/ Mark(b) \/ ForceInPod(b)
     \/ BootScaleUp(b) \/ Await(b) \/ Unforce(b) \/ BootUnlock(b) \/ BootResume(b)
     \/ Rescue(b)
  /\ UNCHANGED interrupted

-----------------------------------------------------------------------------
\* A signal cancels the operation's context: it goes on, but its calls fail.
Interrupt(o) ==
  /\ o \in MayInterrupt /\ Live(o)
  /\ pc[o] \notin {"idle"} \cup Ended
  /\ interrupted' = interrupted \cup {o}
  /\ UNCHANGED <<cluster, pc, locals>>

\* The process dies; its helper pod, if any, is left behind to its deadline.
Die(o) ==
  /\ MayDie
  /\ pc[o] \in Fencing
  /\ Goto(o, "dead")
  /\ UNCHANGED <<cluster, interrupted, locals>>

HelperExpires(o) ==
  /\ pc[o] = "dead" \/ ~Live(o)
  /\ helper[o] # NoNode
  /\ helper' = [helper EXCEPT ![o] = NoNode]
  /\ UNCHANGED <<resource, nodes, interrupted, pc, locals>>

\* No operation, nor a helper one left behind, outlives its lock: the hour only
\* passes over one that ended.
LockExpires ==
  /\ \A o \in Ops : lock = o => pc[o] \in Ended /\ helper[o] = NoNode
  /\ LockAges
  /\ UNCHANGED <<interrupted, pc, locals>>

World == Environment /\ UNCHANGED <<interrupted, pc, locals>>

Next ==
  \/ \E o \in Ops : DeepRecover(o) \/ Bootstrap(o) \/ Interrupt(o) \/ Die(o) \/ HelperExpires(o)
  \/ LockExpires
  \/ World

Spec == Init /\ [][Next]_vars

-----------------------------------------------------------------------------
(* Properties *)

\* Two nodes never both start as the source of a new cluster (DatadirExclusive,
\* of GaleraCluster, is the other half of data safety).
OneSource == Cardinality(marked \cap up) <= 1

\* "a failed run never resumes the operator with a live directive to bootstrap
\* from a candidate we just abandoned".
AbandonedIsCleared ==
  [][\A b \in Ops : (pc[b] # "failed" /\ pc'[b] = "failed" /\ candidate[b] # NoNode) =>
       operator' = "suspended" \/ (forced' # candidate[b] /\ candidate[b] \notin marked')]_vars

\* When the operations are over and none died or was interrupted, the operator
\* is active again (and sees to the StatefulSet's size), unless the user was
\* told to see to it.
ClusterRestored ==
  (\A o \in Ops : pc[o] \in {"idle", "gates", "done", "skipped", "failed"})
    /\ warned = {} /\ interrupted = {} =>
     operator = "active"

\* At most one deep recovery at a time is between taking and clearing the lock.
Exclusive == INSTANCE ExclusiveOperation WITH
               Ops <- Recovers, active <- {r \in Recovers : pc[r] \in Fencing}
RecoversExclude == Exclusive!Spec
=============================================================================
