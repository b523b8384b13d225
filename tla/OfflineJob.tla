----------------------------- MODULE OfflineJob -----------------------------
(***************************************************************************)
(* The offline PVC job of src/src/engine/cnpgjob/offlinejob.go: fence a    *)
(* CNPG instance, switch the operator's reconciliation off, hand the       *)
(* instance's RWO volume to a helper pod, and put everything back.         *)
(*                                                                         *)
(* Jobs are concurrent invocations of Run on ONE cluster.  They share the  *)
(* two annotations of the Cluster resource (the reconciliation switch and  *)
(* the fenced list, updated by read-modify-write) and the volumes.  Every  *)
(* API call may fail, with the server having committed it or not; the      *)
(* process may die anywhere.  The CNPG operator, the scheduler's volume    *)
(* attachment and pods dying on their own are the environment.             *)
(***************************************************************************)
EXTENDS Naturals

CONSTANTS
  Instances,
  Jobs,         \* invocations of Run
  NoJob,
  Target,       \* Jobs -> Instances: TargetPod, which is also its PVC's name
  Locked,       \* jobs whose caller holds the cluster operation lock
  GoDriven,     \* jobs with OnPVCAcquired: the helper only sleeps
  Destructive,  \* jobs that leave the datadir unusable until they succeed
  KeepFenced,   \* jobs that leave the instance fenced on success
  MaxAttempts,  \* attempts of the deferred restore (5 in the code)
  MayCrash      \* may the process die?

ASSUME JobAssumption ==
  /\ NoJob \notin Jobs
  /\ Target \in [Jobs -> Instances]
  /\ Locked \subseteq Jobs /\ GoDriven \subseteq Jobs
  /\ Destructive \subseteq Jobs /\ KeepFenced \subseteq Jobs
  /\ MaxAttempts \in Nat \ {0}
  /\ MayCrash \in BOOLEAN

VARIABLES
  \* the Cluster resource's annotations
  reconcile,    \* cnpg.io/reconciliationLoop
  fenced,       \* cnpg.io/fencedInstances
  \* pods and volumes
  pod,          \* "up" (postgres runs), "frozen" (fenced, no postgres), "absent"
  helper,       \* each job's helper pod
  data,         \* "good", "cleared" (no control file) or "relocated" (WAL moved away)
  \* the cluster operation lock
  owner,
  \* each invocation's control state and locals
  pc,
  seen,         \* the fenced list it last read
  helperCreated,
  reconcileDisabled,
  attempts,
  result,
  \* history: instances a KeepFenced job left fenced on purpose
  isolated

cluster == <<reconcile, fenced>>
volumes == <<pod, helper, data>>
locals  == <<seen, helperCreated, reconcileDisabled, attempts, result>>
vars    == <<cluster, volumes, owner, pc, locals, isolated>>

Running == {"fence", "fencePatch", "disable", "create", "acquire", "work", "callback",
            "drop", "enable", "unfence", "unfencePatch", "cleanup", "restore", "release"}
Over    == {"done", "crashed"}

TypeOK ==
  /\ reconcile \in {"enabled", "disabled"}
  /\ fenced \subseteq Instances
  /\ pod \in [Instances -> {"up", "frozen", "absent"}]
  /\ helper \in [Jobs -> {"none", "pending", "running", "succeeded", "failed"}]
  /\ data \in [Instances -> {"good", "cleared", "relocated"}]
  /\ owner \in Jobs \cup {NoJob}
  /\ pc \in [Jobs -> {"idle"} \cup Running \cup Over]
  /\ seen \in [Jobs -> SUBSET Instances]
  /\ helperCreated \subseteq Jobs
  /\ reconcileDisabled \subseteq Jobs
  /\ attempts \in [Jobs -> 0..MaxAttempts]
  /\ result \in [Jobs -> {"none", "ok", "error"}]
  /\ isolated \subseteq Instances

Init ==
  /\ reconcile = "enabled"
  /\ fenced = {}
  /\ pod = [i \in Instances |-> "up"]
  /\ helper = [j \in Jobs |-> "none"]
  /\ data = [i \in Instances |-> "good"]
  /\ owner = NoJob
  /\ pc = [j \in Jobs |-> "idle"]
  /\ seen = [j \in Jobs |-> {}]
  /\ helperCreated = {}
  /\ reconcileDisabled = {}
  /\ attempts = [j \in Jobs |-> 0]
  /\ result = [j \in Jobs |-> "none"]
  /\ isolated = {}

Goto(j, l) == pc' = [pc EXCEPT ![j] = l]

\* Give up at the point l of Run's exit path.
Fail(j, l) == /\ Goto(j, l)
              /\ result' = [result EXCEPT ![j] = "error"]

\* A patch that returned an error: the server may still have committed it.
Ambiguous(v, new) == {v, new}

-----------------------------------------------------------------------------
(* STEP 1: fence.  Read the list; write it back with the target added. *)

\* Mutant: the caller forgot to take the cluster lock.
StartUnlocked(j) ==
  /\ pc[j] = "idle"
  /\ Goto(j, "fence")
  /\ UNCHANGED <<cluster, volumes, owner, locals, isolated>>

\* A locked caller acquired the cluster lock before it got here.  The other
\* caller, triage's deep recovery, only looked whether anything was alive.
Start(j) ==
  /\ pc[j] = "idle"
  /\ \/ j \in Locked /\ owner = NoJob /\ owner' = j
     \/ j \notin Locked /\ (\A i \in Instances : pod[i] # "up") /\ UNCHANGED owner
  /\ Goto(j, "fence")
  /\ UNCHANGED <<cluster, volumes, locals, isolated>>

Fence(j) ==
  /\ pc[j] = "fence"
  /\ \/ Fail(j, "release") /\ UNCHANGED seen
     \/ /\ Target[j] \in fenced                       \* already fenced
        /\ Goto(j, "disable")
        /\ UNCHANGED <<seen, result>>
     \/ /\ Target[j] \notin fenced
        /\ seen' = [seen EXCEPT ![j] = fenced]
        /\ Goto(j, "fencePatch")
        /\ UNCHANGED result
  /\ UNCHANGED <<cluster, volumes, owner, helperCreated, reconcileDisabled, attempts, isolated>>

FencePatch(j) ==
  LET new == seen[j] \cup {Target[j]} IN
  /\ pc[j] = "fencePatch"
  /\ \/ fenced' = new /\ Goto(j, "disable") /\ UNCHANGED result
     \/ fenced' \in Ambiguous(fenced, new) /\ Fail(j, "release")
  /\ UNCHANGED <<reconcile, volumes, owner, seen, helperCreated, reconcileDisabled, attempts, isolated>>

-----------------------------------------------------------------------------
(* STEP 2: switch reconciliation off.  The deferred restore is armed first,  *)
(* and an ambiguous failure counts as switched off.                          *)
\* Mutant: the restore is armed only once the disable is known to have worked.
DisableArmsLate(j) ==
  /\ pc[j] = "disable"
  /\ \/ /\ reconcile' = "disabled"
        /\ reconcileDisabled' = reconcileDisabled \cup {j}
        /\ Goto(j, "create") /\ UNCHANGED result
     \/ /\ reconcile' \in Ambiguous(reconcile, "disabled")
        /\ Fail(j, "cleanup") /\ UNCHANGED reconcileDisabled
  /\ UNCHANGED <<fenced, volumes, owner, seen, helperCreated, attempts, isolated>>

Disable(j) ==
  /\ pc[j] = "disable"
  /\ reconcileDisabled' = reconcileDisabled \cup {j}
  /\ \/ reconcile' = "disabled" /\ Goto(j, "create") /\ UNCHANGED result
     \/ reconcile' \in Ambiguous(reconcile, "disabled") /\ Fail(j, "cleanup")
  /\ UNCHANGED <<fenced, volumes, owner, seen, helperCreated, attempts, isolated>>

(* STEPs 3 and 4: create the helper; delete the target until the helper has  *)
(* its volume.                                                               *)
CreateHelper(j) ==
  /\ pc[j] = "create"
  /\ \/ /\ helper' = [helper EXCEPT ![j] = "pending"]
        /\ helperCreated' = helperCreated \cup {j}
        /\ Goto(j, "acquire")
        /\ UNCHANGED result
     \/ /\ \E h \in Ambiguous("none", "pending") : helper' = [helper EXCEPT ![j] = h]
        /\ Fail(j, "cleanup")
        /\ UNCHANGED helperCreated
  /\ UNCHANGED <<cluster, pod, data, owner, seen, reconcileDisabled, attempts, isolated>>

\* One turn of the loop: the helper was not seen to hold the volume yet.
PollAcquire(j) ==
  /\ pc[j] = "acquire"
  /\ helper[j] \notin {"running", "succeeded", "failed"}
  /\ pod' = [pod EXCEPT ![Target[j]] = "absent"]
  /\ UNCHANGED <<cluster, helper, data, owner, pc, locals, isolated>>

Acquired(j) ==
  /\ pc[j] = "acquire"
  /\ helper[j] \in {"running", "succeeded"}
  /\ Goto(j, "work")
  /\ UNCHANGED <<cluster, volumes, owner, locals, isolated>>

\* Mutant: the acquire loop has no time limit.
AcquireUnbounded(j) ==
  /\ pc[j] = "acquire" /\ helper[j] = "failed"
  /\ Fail(j, "cleanup")
  /\ UNCHANGED <<cluster, volumes, owner, seen, helperCreated, reconcileDisabled, attempts, isolated>>

\* The helper failed or is unschedulable, or the loop ran out of time (the
\* pods may have changed since the last look).
NotAcquired(j) ==
  /\ pc[j] = "acquire"
  /\ Fail(j, "cleanup")
  /\ UNCHANGED <<cluster, volumes, owner, seen, helperCreated, reconcileDisabled, attempts, isolated>>

-----------------------------------------------------------------------------
(* STEP 5: the work, while the helper holds the volume.                      *)

\* Go-driven: the callback execs into the sleeping helper.  A destructive one
\* (WAL relocation) needs a datadir that is whole to begin with.
BeginCallback(j) ==
  /\ pc[j] = "work" /\ j \in GoDriven
  /\ helper[j] = "running"
  /\ \/ /\ j \in Destructive /\ data[Target[j]] = "good"
        /\ data' = [data EXCEPT ![Target[j]] = "relocated"]
     \/ /\ j \notin Destructive /\ data[Target[j]] # "cleared"
        /\ UNCHANGED data
  /\ Goto(j, "callback")
  /\ UNCHANGED <<cluster, pod, helper, owner, locals, isolated>>

EndCallback(j) ==
  /\ pc[j] = "callback"
  /\ helper[j] = "running"
  /\ data' = IF j \in Destructive THEN [data EXCEPT ![Target[j]] = "good"] ELSE data
  /\ Goto(j, "drop")
  /\ UNCHANGED <<cluster, pod, helper, owner, locals, isolated>>

\* Run-once: wait for the helper's own command to succeed.
SeeSucceeded(j) ==
  /\ pc[j] = "work" /\ j \notin GoDriven
  /\ helper[j] = "succeeded"
  /\ Goto(j, "drop")
  /\ UNCHANGED <<cluster, volumes, owner, locals, isolated>>

\* The callback returned an error, the helper failed, or the wait timed out.
WorkFails(j) ==
  /\ pc[j] \in {"work", "callback"}
  /\ Fail(j, "cleanup")
  /\ UNCHANGED <<cluster, volumes, owner, seen, helperCreated, reconcileDisabled, attempts, isolated>>

\* Delete the helper, ignoring an error, to release the volume.
DropHelper(j) ==
  /\ pc[j] = "drop"
  /\ \E h \in {"none", helper[j]} : helper' = [helper EXCEPT ![j] = h]
  /\ helperCreated' = helperCreated \ {j}
  /\ Goto(j, "enable")
  /\ UNCHANGED <<cluster, pod, data, owner, seen, reconcileDisabled, attempts, result, isolated>>

-----------------------------------------------------------------------------
(* STEPs 6 and 7: reconciliation back on, then unfence unless KeepFenced.    *)
Enable(j) ==
  /\ pc[j] = "enable"
  /\ \/ /\ reconcile' = "enabled"
        /\ reconcileDisabled' = reconcileDisabled \ {j}
     \/ /\ reconcile' \in Ambiguous(reconcile, "enabled")  \* the deferred restore retries
        /\ UNCHANGED reconcileDisabled
  /\ \/ /\ j \in KeepFenced
        /\ Goto(j, "restore")
        /\ result' = [result EXCEPT ![j] = "ok"]
        /\ isolated' = isolated \cup {Target[j]}
     \/ /\ j \notin KeepFenced
        /\ Goto(j, "unfence")
        /\ UNCHANGED <<result, isolated>>
  /\ UNCHANGED <<fenced, volumes, owner, seen, helperCreated, attempts>>

Unfence(j) ==
  /\ pc[j] = "unfence"
  /\ \/ Fail(j, "cleanup") /\ UNCHANGED seen
     \/ /\ seen' = [seen EXCEPT ![j] = fenced]
        /\ Goto(j, "unfencePatch")
        /\ UNCHANGED result
  /\ UNCHANGED <<cluster, volumes, owner, helperCreated, reconcileDisabled, attempts, isolated>>

\* Mutant: unfencing drops the whole annotation.
UnfenceAll(j) ==
  /\ pc[j] = "unfencePatch"
  /\ fenced' = {}
  /\ Goto(j, "restore")
  /\ result' = [result EXCEPT ![j] = "ok"]
  /\ UNCHANGED <<reconcile, volumes, owner, seen, helperCreated, reconcileDisabled, attempts, isolated>>

\* Mutant: a failed unfence is swallowed.
UnfenceSwallowed(j) ==
  /\ pc[j] = "unfencePatch"
  /\ fenced' \in Ambiguous(fenced, seen[j] \ {Target[j]})
  /\ Goto(j, "restore")
  /\ result' = [result EXCEPT ![j] = "ok"]
  /\ UNCHANGED <<reconcile, volumes, owner, seen, helperCreated, reconcileDisabled, attempts, isolated>>

UnfencePatch(j) ==
  LET new == seen[j] \ {Target[j]} IN
  /\ pc[j] = "unfencePatch"
  /\ \/ /\ fenced' = new
        /\ Goto(j, "restore")
        /\ result' = [result EXCEPT ![j] = "ok"]
     \/ fenced' \in Ambiguous(fenced, new) /\ Fail(j, "cleanup")
  /\ UNCHANGED <<reconcile, volumes, owner, seen, helperCreated, reconcileDisabled, attempts, isolated>>

-----------------------------------------------------------------------------
(* Exit paths *)

\* Mutant: cleanup removes the fence too.
CleanupUnfences(j) ==
  /\ pc[j] = "cleanup"
  /\ fenced' = fenced \ {Target[j]}
  /\ IF j \in helperCreated THEN helper' = [helper EXCEPT ![j] = "none"] ELSE UNCHANGED helper
  /\ Goto(j, "restore")
  /\ UNCHANGED <<reconcile, pod, data, owner, locals, isolated>>

\* cleanup(): best-effort delete of the helper; the fence stays.
Cleanup(j) ==
  /\ pc[j] = "cleanup"
  /\ \/ /\ j \in helperCreated
        /\ \E h \in {"none", helper[j]} : helper' = [helper EXCEPT ![j] = h]
     \/ j \notin helperCreated /\ UNCHANGED helper
  /\ Goto(j, "restore")
  /\ UNCHANGED <<cluster, pod, data, owner, locals, isolated>>

\* Mutant: the retry counter is not checked.
RestoreForever(j) ==
  /\ pc[j] = "restore"
  /\ j \in reconcileDisabled
  /\ attempts' = [attempts EXCEPT ![j] = @ + 1]
  /\ UNCHANGED <<cluster, volumes, owner, pc, seen, helperCreated, reconcileDisabled, result, isolated>>

\* restoreReconciliation, deferred: detached context, MaxAttempts attempts.
Restore(j) ==
  /\ pc[j] = "restore"
  /\ \/ /\ j \notin reconcileDisabled
        /\ Goto(j, "release")
        /\ UNCHANGED <<reconcile, reconcileDisabled, attempts>>
     \/ /\ j \in reconcileDisabled
        /\ reconcile' = "enabled"
        /\ reconcileDisabled' = reconcileDisabled \ {j}
        /\ Goto(j, "release")
        /\ UNCHANGED attempts
     \/ /\ j \in reconcileDisabled /\ attempts[j] < MaxAttempts
        /\ reconcile' \in Ambiguous(reconcile, "enabled")
        /\ attempts' = [attempts EXCEPT ![j] = @ + 1]
        /\ Goto(j, IF attempts[j] + 1 = MaxAttempts THEN "release" ELSE "restore")
        /\ UNCHANGED reconcileDisabled
  /\ UNCHANGED <<fenced, volumes, owner, seen, helperCreated, result, isolated>>

\* Run returned; the caller's deferred release frees the cluster lock.
Release(j) ==
  /\ pc[j] = "release"
  /\ Goto(j, "done")
  /\ owner' = IF owner = j THEN NoJob ELSE owner
  /\ UNCHANGED <<cluster, volumes, locals, isolated>>

\* The process dies (no deferred call runs); its lease expires.
Crash(j) ==
  /\ MayCrash
  /\ pc[j] \in Running
  /\ Goto(j, "crashed")
  /\ owner' = IF owner = j THEN NoJob ELSE owner
  /\ UNCHANGED <<cluster, volumes, locals, isolated>>

-----------------------------------------------------------------------------
(* The environment *)

VolumeFree(i) ==
  /\ pod[i] = "absent"
  /\ \A j \in Jobs : Target[j] = i => helper[j] # "running"

\* A helper pod comes up as soon as its volume is free, whether or not the
\* job that created it is still there.
HelperStarts(j) ==
  /\ helper[j] = "pending"
  /\ VolumeFree(Target[j])
  /\ helper' = [helper EXCEPT ![j] = "running"]
  /\ data' = IF j \in Destructive \ GoDriven
             THEN [data EXCEPT ![Target[j]] = "cleared"] ELSE data
  /\ UNCHANGED <<cluster, pod, owner, pc, locals, isolated>>

\* A run-once helper (clear, then base backup) ends by itself.
HelperEnds(j) ==
  /\ helper[j] = "running" /\ j \notin GoDriven
  /\ \/ /\ helper' = [helper EXCEPT ![j] = "succeeded"]
        /\ data' = [data EXCEPT ![Target[j]] = "good"]
     \/ helper' = [helper EXCEPT ![j] = "failed"] /\ UNCHANGED data
  /\ UNCHANGED <<cluster, pod, owner, pc, locals, isolated>>

PodState(i) == IF i \in fenced THEN "frozen" ELSE "up"

\* The operator recreates a missing instance pod, and stops or starts postgres
\* as the fence says, but only while reconciliation is on.
OperatorActs(i) ==
  /\ reconcile = "enabled"
  /\ pod[i] # PodState(i)
  /\ pod[i] = "absent" => VolumeFree(i)
  /\ pod' = [pod EXCEPT ![i] = PodState(i)]
  /\ UNCHANGED <<cluster, helper, data, owner, pc, locals, isolated>>

PodDies(i) ==
  /\ pod[i] # "absent"
  /\ pod' = [pod EXCEPT ![i] = "absent"]
  /\ UNCHANGED <<cluster, helper, data, owner, pc, locals, isolated>>

Step(j) ==
  \/ Fence(j) \/ FencePatch(j) \/ Disable(j) \/ CreateHelper(j)
  \/ PollAcquire(j) \/ Acquired(j) \/ NotAcquired(j)
  \/ BeginCallback(j) \/ EndCallback(j) \/ SeeSucceeded(j) \/ WorkFails(j)
  \/ DropHelper(j) \/ Enable(j) \/ Unfence(j) \/ UnfencePatch(j)
  \/ Cleanup(j) \/ Restore(j) \/ Release(j)

Next ==
  \/ \E j \in Jobs : Start(j) \/ Step(j) \/ Crash(j) \/ HelperStarts(j) \/ HelperEnds(j)
  \/ \E i \in Instances : OperatorActs(i) \/ PodDies(i)

Spec == Init /\ [][Next]_vars

\* The goroutine running Run is scheduled, and both waits are bounded loops.
FairSpec ==
  Spec /\ \A j \in Jobs : WF_vars(Step(j)) /\ WF_vars(NotAcquired(j)) /\ WF_vars(WorkFails(j))

-----------------------------------------------------------------------------
(* Properties *)

\* "EXCLUSIVE ownership of the PVC while the instance is down": as long as a
\* job works on a volume, the operator is off, the instance fenced, its pod gone.
HandoffExclusive ==
  \A j \in Jobs : pc[j] \in {"work", "callback"} /\ helper[j] = "running" =>
    reconcile = "disabled" /\ Target[j] \in fenced /\ pod[Target[j]] = "absent"

\* Postgres never starts on a datadir some job left half written; this is
\* what leaving the fence in place on failure is for.
NeverStartsHalfWritten ==
  \A i \in Instances : pod[i] = "up" => data[i] = "good"

\* An instance left fenced to protect its data stays fenced until a deliberate
\* promotion: no job undoes it.
IsolationKept == isolated \subseteq fenced

\* Reconciliation is off only while some job is answerable for it: one that
\* will still restore it, one that died, or one that ran out of attempts.
OperatorNotForgotten ==
  reconcile = "disabled" => \E j \in Jobs :
    /\ j \in reconcileDisabled
    /\ pc[j] \in Running \/ pc[j] = "crashed" \/ attempts[j] = MaxAttempts

\* When Run reports success the datadir is whole, and the instance is fenced
\* exactly if the caller asked to keep it so.
OkIsHonest ==
  [][\A j \in Jobs : (result[j] # "ok" /\ result'[j] = "ok") =>
       /\ data'[Target[j]] = "good"
       /\ (Target[j] \in fenced') <=> (j \in KeepFenced)]_vars

\* Run always returns: no wait is unbounded.
RunReturns == \A j \in Jobs : pc[j] \in Running ~> pc[j] \in Over
=============================================================================
