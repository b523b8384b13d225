------------------------- MODULE GaleraFence_proofs -------------------------
(***************************************************************************)
(* For any number of deep recoveries and bootstraps, nodes, faults, signals*)
(* and deaths: what a lock, a suspended operator and an empty StatefulSet  *)
(* keep apart, and what is put back.  What each theorem takes for granted  *)
(* of the faults is the least that its claim needs, and stands in it.      *)
(***************************************************************************)
EXTENDS GaleraFence, FiniteSetTheorems, TLAPS

Active(o) == pc[o] \notin {"idle"} \cup Ended

\* A bootstrap that clears or sets a marker has chosen its candidate.
Chosen == \A b \in Bootstraps : pc[b] \in {"clear", "mark"} => candidate[b] \in Nodes

\* A recovery goes through its own phases only, and so does a bootstrap.
RecoverPhases == {"idle", "swap", "suspend", "scaleDown", "wait", "recover", "scaleUp", "resume",
                  "unlock"} \cup Ended
BootPhases    == {"idle", "gates"} \cup Fencing \cup Ended

Phases ==
  /\ \A r \in Recovers : pc[r] \in RecoverPhases
  /\ \A b \in Bootstraps : pc[b] \in BootPhases

\* A bootstrap is alone.
BootsAlone == \A b \in Bootstraps : Active(b) => \A o \in Ops \ {b} : ~Active(o)

\* A recovery at work holds the lock; one that may still take it would find it free.
LockedBy(o) == lock = o /\ lockAge = "fresh"

Locked ==
  /\ \A r \in Recovers : pc[r] \in Fencing => LockedBy(r)
  /\ \A r \in Recovers \cap fresh : pc[r] = "swap" => LockAvailable

ExclusionInv == Phases /\ BootsAlone /\ Locked

\* While a helper may work, and from a scale-down that was seen to complete to the scale-up,
\* no pod runs, none can start, and the lock says whose doing that is.
Quiet == up = {} /\ size = 0 /\ operator = "suspended"

FencedFor(o) ==
  /\ helper[o] # NoNode => Quiet /\ LockedBy(o)
  /\ helper[o] # NoNode => \/ pc[o] \in {"recover", "clear", "mark", "undoMark"}
                           \/ pc[o] = "dead" \/ ~Live(o)
  /\ pc[o] \in {"recover", "clear", "mark", "force"} => Quiet /\ LockedBy(o)
  /\ pc[o] = "wait" => size = 0
  /\ pc[o] \in {"scaleDown", "wait"} => operator = "suspended" /\ LockedBy(o)

BootFencedFor(b) ==
  /\ Active(b) => \A o \in Ops \ {b} : helper[o] = NoNode
  /\ pc[b] = "lock" => operator = "suspended"
  /\ pc[b] = "scaleUp" => Quiet /\ LockedBy(b)
  /\ "marked" \in did[b] =>
       pc[b] \notin {"idle", "gates", "suspend", "lock", "scaleDown", "wait", "recover",
                     "clear", "mark"}
  /\ "marked" \in did[b] /\ pc[b] = "undoForce" => Quiet /\ LockedBy(b)

Fenced ==
  /\ \A o \in Ops : FencedFor(o)
  /\ \A b \in Bootstraps : BootFencedFor(b)

FencedInv == ExclusionInv /\ Fenced

\* One node at most carries a marker; a bootstrap clears the others' before it sets one.
OneMarker ==
  /\ \A m, n \in marked : m = n
  /\ \A b \in Bootstraps :
       /\ pc[b] = "clear" => marked \subseteq todo[b] \cup {candidate[b]}
       /\ pc[b] = "mark" => marked \subseteq {candidate[b]}

\* While the operator is suspended somebody has it to resume, or has died or failed to.
Resumes(o) ==
  \/ pc[o] = "dead"
  \/ o \in Recovers /\ pc[o] \in {"scaleDown", "wait", "recover", "scaleUp", "resume"}
  \/ o \in Bootstraps /\ "suspended" \in did[o] /\ pc[o] \in Fencing

Owed ==
  /\ \A b \in Bootstraps :
       pc[b] \in Fencing \ {"suspend", "undoForce", "undoMark", "undoLock", "undoScale", "undoResume"}
         => "suspended" \in did[b]
  /\ operator = "suspended" => warned # {} \/ interrupted # {} \/ \E o \in Ops : Resumes(o)

\* No bootstrap can come upon the directive of another, or its own patch does not fail.
OneBootOrForces == (\A a, b \in Bootstraps : a = b) \/ "force" \notin MayFail

\* A bootstrap that has chosen has the operator suspended, and rescue() knows of every
\* directive and marker for its candidate, until it has taken them back.
Undoing == {"undoForce", "undoMark", "undoLock", "undoScale", "undoResume"}
BeforeChoice == {"idle", "gates", "suspend", "lock", "scaleDown", "wait", "recover"}

UndoesFor(b) ==
  /\ pc[b] \in BeforeChoice => candidate[b] = NoNode
  /\ pc[b] \in {"lock", "scaleDown", "wait", "recover", "clear", "mark", "force", "scaleUp"}
       => operator = "suspended"
  /\ pc[b] \in Undoing /\ candidate[b] # NoNode => operator = "suspended"
  /\ pc[b] \in {"force", "scaleUp"} => "marked" \in did[b]
  /\ pc[b] = "scaleUp" => "forced" \in did[b]
  /\ pc[b] \in BeforeChoice \cup {"clear", "mark", "force"} =>
       forced = NoNode \/ "force" \notin MayFail
  /\ Live(b) /\ candidate[b] # NoNode =>
       /\ pc[b] = "undoForce" /\ forced = candidate[b] => "forced" \in did[b]
       /\ pc[b] \in Undoing \ {"undoForce"} => forced # candidate[b]
       /\ pc[b] \in {"undoForce", "undoMark"} /\ candidate[b] \in marked => "marked" \in did[b]
       /\ pc[b] \in {"undoLock", "undoScale", "undoResume"} => candidate[b] \notin marked

Undoes == \A b \in Bootstraps : UndoesFor(b)

-----------------------------------------------------------------------------
(* Constants, calls and steps *)

\* What is assumed of the constants, together.
LEMMA Given ==
  /\ NoOne \notin Ops /\ Replicas \in Nat \ {0} /\ Recovers \subseteq Ops /\ Bootstraps \subseteq Ops
  /\ Nodes = 0..(Replicas - 1) /\ NoNode = Replicas /\ NoNode \notin Nodes
  /\ Forcing \subseteq Bootstraps /\ MayMislead \subseteq MayFail
  /\ \A o \in Ops : o \in Recovers <=> o \notin Bootstraps
  BY ClusterAssumption, FenceAssumption DEF Bootstraps, Nodes, NoNode

\* A step is one of an operation, of the lock's clock, or of the environment.
LEMMA StepCases ==
  ASSUME [Next]_vars
  PROVE  \/ \E o \in Ops :
              /\ UNCHANGED interrupted
              /\ \/ Gate(o) \/ Swap(o) \/ Suspend(o) \/ ScaleDown(o) \/ Wait(o) \/ AllRead(o)
                 \/ ScaleUp(o) \/ Resume(o) \/ Unlock(o)
                 \/ CheckLock(o) \/ Gates(o) \/ BootSuspend(o) \/ BootLock(o) \/ BootScaleDown(o)
                 \/ BootWait(o) \/ Select(o) \/ StartClear(o) \/ Mark(o) \/ ForceInPod(o)
                 \/ BootScaleUp(o) \/ Await(o) \/ Unforce(o) \/ BootUnlock(o) \/ BootResume(o)
                 \/ UndoForce(o) \/ UndoMark(o) \/ UndoLock(o) \/ UndoScale(o) \/ UndoResume(o)
                 \/ \E n \in Nodes : StartRecover(o, n) \/ ClearMarker(o, n)
                 \/ EndRecover(o)
         \/ \E o \in Ops : Interrupt(o) \/ Die(o) \/ HelperExpires(o)
         \/ LockExpires
         \/ /\ UNCHANGED <<interrupted, pc, locals>>
            /\ \/ OperatorScales \/ OperatorWrites
               \/ \E n \in Nodes : PodStarts(n) \/ PodStops(n) \/ NodeFails(n) \/ NodeServes(n)
         \/ UNCHANGED vars
  BY DEF Next, DeepRecover, Bootstrap, Rescue, World, Environment

-----------------------------------------------------------------------------
(* What a step that makes a call may leave behind: the call takes effect and is seen to,    *)
(* or it is not seen to, and the effect may be there or not.                                *)

\* Who wrote the resource is outdated, or nothing was written.
Noticed == fresh' = {} \/ UNCHANGED <<fresh, operator, lock, lockAge, forced>>

\* The lock is taken, or perhaps, or it is not.
LEMMA SwapIs ==
  ASSUME NEW o \in Ops, Swap(o)
  PROVE  /\ pc[o] = "swap"
         /\ \/ o \in fresh /\ Live(o) /\ lock' = o /\ lockAge' = "fresh" /\ pc' = [pc EXCEPT ![o] = "suspend"]
            \/ /\ pc' = [pc EXCEPT ![o] = "skipped"]
               /\ \/ UNCHANGED <<lock, lockAge>>
                  \/ o \in fresh /\ lock' = o /\ lockAge' = "fresh"
         /\ UNCHANGED <<operator, forced, nodes, helper, locals>> /\ Noticed
<1>1. PICK ok \in Outcomes :
         \/ o \in fresh /\ WriteLock(o, ok) /\ Goto(o, IF ok THEN "suspend" ELSE "skipped")
         \/ Goto(o, "skipped") /\ UNCHANGED resource
  BY DEF Swap, Outcomes
<1>2. CASE ok = TRUE
  BY <1>1, <1>2 DEF Swap, WriteLock, Answer, Goto, Noticed, Touched, resource, nodes, locals
<1>3. CASE ok = FALSE
  BY <1>1, <1>3 DEF Swap, WriteLock, Answer, Goto, Noticed, Touched, resource, nodes, locals
<1> QED
  BY <1>2, <1>3 DEF Outcomes

\* The operator is suspended before anything is taken down.
LEMMA SuspendIs ==
  ASSUME NEW o \in Ops, Suspend(o)
  PROVE  /\ o \in Recovers /\ pc[o] = "suspend"
         /\ \/ Live(o) /\ operator' = "suspended" /\ pc' = [pc EXCEPT ![o] = "scaleDown"]
            \/ /\ pc' = [pc EXCEPT ![o] = "unlock"]
               /\ operator' = operator \/ ("suspend" \in MayMislead /\ operator' = "suspended")
         /\ UNCHANGED <<lock, lockAge, forced, nodes, helper, locals>> /\ Noticed
<1>1. PICK ok \in Outcomes :
         SuspendCR(Live(o), ok) /\ Goto(o, IF ok THEN "scaleDown" ELSE "unlock")
  BY DEF Suspend, Outcomes
<1>2. CASE ok = TRUE
  BY <1>1, <1>2 DEF Suspend, SuspendCR, Answer, Goto, Noticed, Touched, nodes, locals
<1>3. CASE ok = FALSE
  BY <1>1, <1>3 DEF Suspend, SuspendCR, Answer, Goto, Noticed, Touched, nodes, locals
<1> QED
  BY <1>2, <1>3 DEF Outcomes

\* A scale-down that is seen to complete leaves no place for a pod.
LEMMA ScaleDownIs ==
  ASSUME NEW o \in Ops, ScaleDown(o)
  PROVE  /\ o \in Recovers /\ pc[o] = "scaleDown"
         /\ \/ Live(o) /\ size' = 0 /\ pc' = [pc EXCEPT ![o] = "wait"]
            \/ /\ pc' = [pc EXCEPT ![o] = "resume"]
               /\ size' = size \/ ("scale" \in MayMislead /\ size' = 0)
         /\ todo' = [todo EXCEPT ![o] = Nodes]
         /\ UNCHANGED <<resource, up, serving, marked, helper, candidate, did, warned>>
<1>1. PICK ok \in Outcomes :
         ScaleStatefulSet(Live(o), 0, ok) /\ Goto(o, IF ok THEN "wait" ELSE "resume")
  BY DEF ScaleDown, Outcomes
<1>2. CASE ok = TRUE
  BY <1>1, <1>2 DEF ScaleDown, ScaleStatefulSet, Answer, Goto, resource
<1>3. CASE ok = FALSE
  BY <1>1, <1>3 DEF ScaleDown, ScaleStatefulSet, Answer, Goto, resource
<1> QED
  BY <1>2, <1>3 DEF Outcomes

\* A scale-up that is not seen to complete is reported.
LEMMA ScaleUpIs ==
  ASSUME NEW o \in Ops, ScaleUp(o)
  PROVE  /\ o \in Recovers /\ pc[o] = "scaleUp" /\ pc' = [pc EXCEPT ![o] = "resume"]
         /\ size' = size \/ (Live(o) /\ size' = Replicas)
         /\ warned' \in {warned, warned \cup {o}}
         /\ UNCHANGED <<resource, up, serving, marked, helper, todo, candidate, did>>
<1>1. PICK ok \in Outcomes :
         /\ ScaleStatefulSet(Live(o), Replicas, ok) /\ warned' = IF ok THEN warned ELSE warned \cup {o}
  BY DEF ScaleUp, Outcomes
<1>2. CASE ok = TRUE
  BY <1>1, <1>2 DEF ScaleUp, ScaleStatefulSet, Answer, Goto, resource
<1>3. CASE ok = FALSE
  BY <1>1, <1>3 DEF ScaleUp, ScaleStatefulSet, Answer, Goto, resource
<1> QED
  BY <1>2, <1>3 DEF Outcomes

\* So is a resume.
LEMMA ResumeIs ==
  ASSUME NEW o \in Ops, Resume(o)
  PROVE  /\ o \in Recovers /\ pc[o] = "resume" /\ pc' = [pc EXCEPT ![o] = "unlock"]
         /\ \/ Live(o) /\ operator' = "active" /\ warned' = warned
            \/ /\ operator' = operator \/ (Live(o) /\ operator' = "active")
               /\ warned' = warned \cup {o}
         /\ UNCHANGED <<lock, lockAge, forced, nodes, helper, todo, candidate, did>> /\ Noticed
<1>1. PICK ok \in Outcomes :
         ResumeCR(Live(o), ok) /\ warned' = IF ok THEN warned ELSE warned \cup {o}
  BY DEF Resume, Outcomes
<1>2. CASE ok = TRUE
  BY <1>1, <1>2 DEF Resume, ResumeCR, Answer, Goto, Noticed, Touched, nodes
<1>3. CASE ok = FALSE
  BY <1>1, <1>3 DEF Resume, ResumeCR, Answer, Goto, Noticed, Touched, nodes
<1> QED
  BY <1>2, <1>3 DEF Outcomes

\* The lock is cleared by a live recovery, or not at all.
LEMMA UnlockIs ==
  ASSUME NEW o \in Ops, Unlock(o)
  PROVE  /\ o \in Recovers /\ pc[o] = "unlock" /\ pc' = [pc EXCEPT ![o] = "done"]
         /\ lock' = lock \/ (Live(o) /\ lock' = NoOne)
         /\ UNCHANGED <<operator, lockAge, forced, nodes, helper, locals>> /\ Noticed
<1>1. PICK ok \in Outcomes :
         ClearFenceLock(Live(o), ok)
  BY DEF Unlock, Outcomes
<1>2. CASE ok = TRUE
  BY <1>1, <1>2 DEF Unlock, ClearFenceLock, Answer, Goto, Noticed, Touched, nodes, locals
<1>3. CASE ok = FALSE
  BY <1>1, <1>3 DEF Unlock, ClearFenceLock, Answer, Goto, Noticed, Touched, nodes, locals
<1> QED
  BY <1>2, <1>3 DEF Outcomes

\* What a bootstrap is seen to do is recorded, for rescue().
LEMMA BootSuspendIs ==
  ASSUME NEW o \in Ops, BootSuspend(o)
  PROVE  /\ o \in Bootstraps /\ pc[o] = "suspend"
         /\ \/ /\ Live(o) /\ operator' = "suspended" /\ pc' = [pc EXCEPT ![o] = "lock"]
               /\ did' = [did EXCEPT ![o] = @ \cup {"suspended"}]
            \/ /\ pc' = [pc EXCEPT ![o] = "undoForce"] /\ did' = did
               /\ operator' = operator \/ ("suspend" \in MayMislead /\ operator' = "suspended")
         /\ UNCHANGED <<lock, lockAge, forced, nodes, helper, todo, candidate, warned>> /\ Noticed
<1>1. PICK ok \in Outcomes :
         /\ SuspendCR(Live(o), ok) /\ Goto(o, IF ok THEN "lock" ELSE "undoForce")
           /\ IF ok THEN Done(o, "suspended") ELSE UNCHANGED did
  BY DEF BootSuspend, Outcomes
<1>2. CASE ok = TRUE
  BY <1>1, <1>2 DEF BootSuspend, SuspendCR, Answer, Goto, Done, Noticed, Touched, nodes
<1>3. CASE ok = FALSE
  BY <1>1, <1>3 DEF BootSuspend, SuspendCR, Answer, Goto, Done, Noticed, Touched, nodes
<1> QED
  BY <1>2, <1>3 DEF Outcomes

\* So is its lock.
LEMMA BootLockIs ==
  ASSUME NEW o \in Ops, BootLock(o)
  PROVE  /\ o \in Bootstraps /\ pc[o] = "lock"
         /\ \/ /\ Live(o) /\ lock' = o /\ lockAge' = "fresh" /\ pc' = [pc EXCEPT ![o] = "scaleDown"]
               /\ did' = [did EXCEPT ![o] = @ \cup {"locked"}]
            \/ /\ pc' = [pc EXCEPT ![o] = "undoForce"] /\ did' = did
               /\ UNCHANGED <<lock, lockAge>> \/ (lock' = o /\ lockAge' = "fresh")
         /\ UNCHANGED <<operator, forced, nodes, helper, todo, candidate, warned>> /\ Noticed
<1>1. PICK ok \in Outcomes :
         /\ WriteLock(o, ok) /\ Goto(o, IF ok THEN "scaleDown" ELSE "undoForce")
           /\ IF ok THEN Done(o, "locked") ELSE UNCHANGED did
  BY DEF BootLock, Outcomes
<1>2. CASE ok = TRUE
  BY <1>1, <1>2 DEF BootLock, WriteLock, Answer, Goto, Done, Noticed, Touched, nodes
<1>3. CASE ok = FALSE
  BY <1>1, <1>3 DEF BootLock, WriteLock, Answer, Goto, Done, Noticed, Touched, nodes
<1> QED
  BY <1>2, <1>3 DEF Outcomes

\* And its scale-down.
LEMMA BootScaleDownIs ==
  ASSUME NEW o \in Ops, BootScaleDown(o)
  PROVE  /\ o \in Bootstraps /\ pc[o] = "scaleDown"
         /\ \/ /\ Live(o) /\ size' = 0 /\ pc' = [pc EXCEPT ![o] = "wait"]
               /\ did' = [did EXCEPT ![o] = @ \cup {"scaled"}]
            \/ /\ pc' = [pc EXCEPT ![o] = "undoForce"] /\ did' = did
               /\ size' = size \/ ("scale" \in MayMislead /\ size' = 0)
         /\ todo' = [todo EXCEPT ![o] = Nodes]
         /\ UNCHANGED <<resource, up, serving, marked, helper, candidate, warned>>
<1>1. PICK ok \in Outcomes :
         /\ ScaleStatefulSet(Live(o), 0, ok) /\ Goto(o, IF ok THEN "wait" ELSE "undoForce")
           /\ IF ok THEN Done(o, "scaled") ELSE UNCHANGED did
  BY DEF BootScaleDown, Outcomes
<1>2. CASE ok = TRUE
  BY <1>1, <1>2 DEF BootScaleDown, ScaleStatefulSet, Answer, Goto, Done, resource
<1>3. CASE ok = FALSE
  BY <1>1, <1>3 DEF BootScaleDown, ScaleStatefulSet, Answer, Goto, Done, resource
<1> QED
  BY <1>2, <1>3 DEF Outcomes

\* And the directive to the operator.
LEMMA ForceInPodIs ==
  ASSUME NEW o \in Ops, ForceInPod(o)
  PROVE  /\ o \in Bootstraps /\ pc[o] = "force"
         /\ forced' \in {forced, candidate[o]}
         /\ \/ /\ Live(o) /\ pc' = [pc EXCEPT ![o] = "scaleUp"]
               /\ did' = [did EXCEPT ![o] = @ \cup {"forced"}]
            \/ /\ pc' = [pc EXCEPT ![o] = "undoForce"] /\ did' = did
               /\ Live(o) => "force" \in MayFail
               /\ forced' = forced \/ "force" \in MayMislead
         /\ UNCHANGED <<operator, lock, lockAge, nodes, helper, todo, candidate, warned>> /\ Noticed
<1>1. PICK ok \in Outcomes :
         /\ PatchForced(Live(o), "force", candidate[o], ok) /\ Goto(o, IF ok THEN "scaleUp" ELSE "undoForce")
           /\ IF ok THEN Done(o, "forced") ELSE UNCHANGED did
  BY DEF ForceInPod, Outcomes
<1>2. CASE ok = TRUE
  BY <1>1, <1>2 DEF ForceInPod, PatchForced, Answer, Goto, Done, Noticed, Touched, nodes
<1>3. CASE ok = FALSE
  BY <1>1, <1>3 DEF ForceInPod, PatchForced, Answer, Goto, Done, Noticed, Touched, nodes
<1> QED
  BY <1>2, <1>3 DEF Outcomes

\* Once the scale-up is seen to complete there is no scale to undo.
LEMMA BootScaleUpIs ==
  ASSUME NEW o \in Ops, BootScaleUp(o)
  PROVE  /\ o \in Bootstraps /\ pc[o] = "scaleUp"
         /\ \/ /\ Live(o) /\ size' = Replicas /\ pc' = [pc EXCEPT ![o] = "await"]
               /\ did' = [did EXCEPT ![o] = @ \ {"scaled"}]
            \/ /\ pc' = [pc EXCEPT ![o] = "undoForce"] /\ did' = did
               /\ size' = size \/ ("scale" \in MayMislead /\ size' = Replicas)
         /\ UNCHANGED <<resource, up, serving, marked, helper, todo, candidate, warned>>
<1>1. PICK ok \in Outcomes :
         /\ ScaleStatefulSet(Live(o), Replicas, ok) /\ Goto(o, IF ok THEN "await" ELSE "undoForce")
           /\ IF ok THEN Undone(o, "scaled") ELSE UNCHANGED did
  BY DEF BootScaleUp, Outcomes
<1>2. CASE ok = TRUE
  BY <1>1, <1>2 DEF BootScaleUp, ScaleStatefulSet, Answer, Goto, Undone, resource
<1>3. CASE ok = FALSE
  BY <1>1, <1>3 DEF BootScaleUp, ScaleStatefulSet, Answer, Goto, Undone, resource
<1> QED
  BY <1>2, <1>3 DEF Outcomes

\* A directive that may still stand is reported.
LEMMA UnforceIs ==
  ASSUME NEW o \in Ops, Unforce(o)
  PROVE  /\ o \in Bootstraps /\ pc[o] = "unforce" /\ pc' = [pc EXCEPT ![o] = "unlock"]
         /\ forced' \in {forced, NoNode} /\ warned' \in {warned, warned \cup {o}}
         /\ UNCHANGED <<operator, lock, lockAge, nodes, helper, todo, candidate, did>> /\ Noticed
<1>1. PICK ok \in Outcomes :
         /\ PatchForced(Live(o), "unforce", NoNode, ok) /\ warned' = IF ok THEN warned ELSE warned \cup {o}
  BY DEF Unforce, Outcomes
<1>2. CASE ok = TRUE
  BY <1>1, <1>2 DEF Unforce, PatchForced, Answer, Goto, Noticed, Touched, nodes
<1>3. CASE ok = FALSE
  BY <1>1, <1>3 DEF Unforce, PatchForced, Answer, Goto, Noticed, Touched, nodes
<1> QED
  BY <1>2, <1>3 DEF Outcomes

\* The lock is cleared by a live bootstrap, or not at all.
LEMMA BootUnlockIs ==
  ASSUME NEW o \in Ops, BootUnlock(o)
  PROVE  /\ o \in Bootstraps /\ pc[o] = "unlock" /\ pc' = [pc EXCEPT ![o] = "resume"]
         /\ lock' = lock \/ (Live(o) /\ lock' = NoOne)
         /\ did' = [did EXCEPT ![o] = @ \ {"locked"}]
         /\ UNCHANGED <<operator, lockAge, forced, nodes, helper, todo, candidate, warned>> /\ Noticed
<1>1. PICK ok \in Outcomes :
         ClearFenceLock(Live(o), ok)
  BY DEF BootUnlock, Outcomes
<1>2. CASE ok = TRUE
  BY <1>1, <1>2 DEF BootUnlock, ClearFenceLock, Answer, Goto, Undone, Noticed, Touched, nodes
<1>3. CASE ok = FALSE
  BY <1>1, <1>3 DEF BootUnlock, ClearFenceLock, Answer, Goto, Undone, Noticed, Touched, nodes
<1> QED
  BY <1>2, <1>3 DEF Outcomes

\* An operator that may still be suspended is reported.
LEMMA BootResumeIs ==
  ASSUME NEW o \in Ops, BootResume(o)
  PROVE  /\ o \in Bootstraps /\ pc[o] = "resume" /\ pc' = [pc EXCEPT ![o] = "done"]
         /\ \/ Live(o) /\ operator' = "active" /\ warned' = warned
            \/ /\ operator' = operator \/ (Live(o) /\ operator' = "active")
               /\ warned' = warned \cup {o}
         /\ did' = [did EXCEPT ![o] = @ \ {"suspended"}]
         /\ UNCHANGED <<lock, lockAge, forced, nodes, helper, todo, candidate>> /\ Noticed
<1>1. PICK ok \in Outcomes :
         ResumeCR(Live(o), ok) /\ warned' = IF ok THEN warned ELSE warned \cup {o}
  BY DEF BootResume, Outcomes
<1>2. CASE ok = TRUE
  BY <1>1, <1>2 DEF BootResume, ResumeCR, Answer, Goto, Undone, Noticed, Touched, nodes
<1>3. CASE ok = FALSE
  BY <1>1, <1>3 DEF BootResume, ResumeCR, Answer, Goto, Undone, Noticed, Touched, nodes
<1> QED
  BY <1>2, <1>3 DEF Outcomes

\* rescue() takes the directive back, and starts a helper on a marked candidate.
LEMMA UndoForceIs ==
  ASSUME NEW o \in Ops, UndoForce(o)
  PROVE  /\ pc[o] = "undoForce" /\ pc' = [pc EXCEPT ![o] = "undoMark"]
         /\ forced' \in {forced, NoNode}
         /\ "forced" \in did[o] /\ Live(o) => forced' = NoNode \/ "unforce" \in MayFail
         /\ helper' = IF "marked" \in did[o] /\ Live(o) THEN [helper EXCEPT ![o] = candidate[o]] ELSE helper
         /\ UNCHANGED <<operator, lock, lockAge, nodes, locals>> /\ Noticed
<1>1. PICK ok \in Outcomes :
         \/ PatchForced(Live(o), "unforce", NoNode, ok)
         \/ UNCHANGED resource /\ "forced" \notin did[o]
  BY DEF UndoForce, Outcomes
<1>2. CASE ok = TRUE
  BY <1>1, <1>2 DEF UndoForce, PatchForced, Answer, Goto, Noticed, Touched, resource, nodes, locals
<1>3. CASE ok = FALSE
  BY <1>1, <1>3 DEF UndoForce, PatchForced, Answer, Goto, Noticed, Touched, resource, nodes, locals
<1> QED
  BY <1>2, <1>3 DEF Outcomes

\* A live rescue() takes the lock back, or leaves it.
LEMMA UndoLockIs ==
  ASSUME NEW o \in Ops, UndoLock(o)
  PROVE  /\ pc[o] = "undoLock" /\ pc' = [pc EXCEPT ![o] = "undoScale"]
         /\ lock' = lock \/ (Live(o) /\ lock' = NoOne)
         /\ UNCHANGED <<operator, lockAge, forced, nodes, helper, locals>> /\ Noticed
<1>1. PICK ok \in Outcomes :
         \/ ClearFenceLock(Live(o), ok)
         \/ UNCHANGED resource
  BY DEF UndoLock, Outcomes
<1>2. CASE ok = TRUE
  BY <1>1, <1>2 DEF UndoLock, ClearFenceLock, Answer, Goto, Noticed, Touched, resource, nodes,
     locals
<1>3. CASE ok = FALSE
  BY <1>1, <1>3 DEF UndoLock, ClearFenceLock, Answer, Goto, Noticed, Touched, resource, nodes,
     locals
<1> QED
  BY <1>2, <1>3 DEF Outcomes

\* A live rescue() scales up again, or tries to.
LEMMA UndoScaleIs ==
  ASSUME NEW o \in Ops, UndoScale(o)
  PROVE  /\ pc[o] = "undoScale" /\ pc' = [pc EXCEPT ![o] = "undoResume"]
         /\ size' = size \/ (Live(o) /\ size' = Replicas)
         /\ UNCHANGED <<resource, up, serving, marked, helper, locals>>
<1>1. PICK ok \in Outcomes :
         \/ ScaleStatefulSet(Live(o), Replicas, ok)
         \/ UNCHANGED size
  BY DEF UndoScale, Outcomes
<1>2. CASE ok = TRUE
  BY <1>1, <1>2 DEF UndoScale, ScaleStatefulSet, Answer, Goto, resource, locals
<1>3. CASE ok = FALSE
  BY <1>1, <1>3 DEF UndoScale, ScaleStatefulSet, Answer, Goto, resource, locals
<1> QED
  BY <1>2, <1>3 DEF Outcomes

\* A live rescue() resumes the operator, if the call does not fail.
LEMMA UndoResumeIs ==
  ASSUME NEW o \in Ops, UndoResume(o)
  PROVE  /\ pc[o] = "undoResume" /\ pc' = [pc EXCEPT ![o] = "failed"]
         /\ operator' = operator \/ (Live(o) /\ operator' = "active")
         /\ "suspended" \in did[o] /\ Live(o) => operator' = "active" \/ "resume" \in MayFail
         /\ UNCHANGED <<lock, lockAge, forced, nodes, helper, locals>> /\ Noticed
<1>1. PICK ok \in Outcomes :
         \/ ResumeCR(Live(o), ok)
         \/ UNCHANGED resource /\ "suspended" \notin did[o]
  BY DEF UndoResume, Outcomes
<1>2. CASE ok = TRUE
  BY <1>1, <1>2 DEF UndoResume, ResumeCR, Answer, Goto, Noticed, Touched, resource, nodes, locals
<1>3. CASE ok = FALSE
  BY <1>1, <1>3 DEF UndoResume, ResumeCR, Answer, Goto, Noticed, Touched, resource, nodes, locals
<1> QED
  BY <1>2, <1>3 DEF Outcomes

\* The candidate is marked, or perhaps; an interrupted helper stays behind.
LEMMA MarkIs ==
  ASSUME NEW o \in Ops, Mark(o)
  PROVE  /\ o \in Bootstraps /\ pc[o] = "mark"
         /\ \/ /\ Live(o) /\ marked' = marked \cup {candidate[o]} /\ pc' = [pc EXCEPT ![o] = "force"]
               /\ did' = [did EXCEPT ![o] = @ \cup {"marked"}]
            \/ /\ marked' \in {marked, marked \cup {candidate[o]}} /\ did' = did
               /\ pc' = [pc EXCEPT ![o] = "undoForce"] /\ (Live(o) => "helper" \in MayFail)
         /\ helper' = IF Live(o) THEN [helper EXCEPT ![o] = NoNode] ELSE helper
         /\ UNCHANGED <<resource, size, up, serving, todo, candidate, warned>>
<1>1. o \in Bootstraps /\ pc[o] = "mark" /\ UNCHANGED <<resource, size, up, serving, todo, candidate, warned>>
  BY DEF Mark
<1>2. CASE Live(o)
  <2>1. PICK ok \in Outcomes :
           /\ marked' \in Answer(TRUE, "helper", ok, marked, marked \cup {candidate[o]})
           /\ Goto(o, IF ok THEN "force" ELSE "undoForce")
           /\ IF ok THEN Done(o, "marked") ELSE UNCHANGED did
    BY <1>2 DEF Mark
  <2>2. CASE ok = TRUE
    BY <1>1, <1>2, <2>1, <2>2 DEF Mark, Answer, Goto, Done
  <2>3. CASE ok = FALSE
    BY <1>1, <1>2, <2>1, <2>3 DEF Mark, Answer, Goto
  <2> QED
    BY <2>2, <2>3 DEF Outcomes
<1>3. CASE ~Live(o)
  BY <1>1, <1>3 DEF Mark, Goto
<1> QED
  BY <1>2, <1>3

\* rescue() takes the mark back, or tries to.
LEMMA UndoMarkIs ==
  ASSUME NEW o \in Ops, UndoMark(o)
  PROVE  /\ pc[o] = "undoMark" /\ pc' = [pc EXCEPT ![o] = "undoLock"]
         /\ marked' \in {marked, marked \ {candidate[o]}}
         /\ "marked" \in did[o] /\ Live(o) => candidate[o] \notin marked' \/ "helper" \in MayFail
         /\ helper' = IF Live(o) THEN [helper EXCEPT ![o] = NoNode] ELSE helper
         /\ UNCHANGED <<resource, size, up, serving, locals>>
  BY DEF UndoMark, Answer, Goto

\* A bootstrap's candidate, and the markers it has to clear; or it gives up.
LEMMA SelectIs ==
  ASSUME NEW o \in Ops, Select(o)
  PROVE  /\ o \in Bootstraps /\ pc[o] = "recover" /\ (Live(o) => helper[o] = NoNode)
         /\ \/ /\ pc' = [pc EXCEPT ![o] = "clear"]
               /\ \E n \in Nodes, behind \in SUBSET Nodes :
                    /\ candidate' = [candidate EXCEPT ![o] = n]
                    /\ todo' = [todo EXCEPT ![o] = (marked \cup behind) \ {n}]
            \/ pc' = [pc EXCEPT ![o] = "undoForce"] /\ UNCHANGED <<candidate, todo>>
         /\ UNCHANGED <<cluster, did, warned>>
  BY DEF Select, RecoverOver, Goto

-----------------------------------------------------------------------------
(* Types *)

\* Every step keeps the types.
LEMMA TypedNext ==
  ASSUME TypeOK, Chosen, [Next]_vars
  PROVE  TypeOK'
<1> USE Given DEF TypeOK, ClusterTypeOK, Goto, Done, Undone, resource, nodes, cluster, locals,
        Fencing, Ended, Effects, Noticed, vars
<1>1. ASSUME NEW o \in Ops, Gate(o), UNCHANGED interrupted PROVE TypeOK'
  BY <1>1 DEF Gate
<1>2. ASSUME NEW o \in Ops, Swap(o), UNCHANGED interrupted PROVE TypeOK'
  <2>1. ClusterTypeOK'
    BY <1>2, SwapIs
  <2>2. pc' \in [Ops -> {"idle", "swap", "gates"} \cup Fencing \cup Ended]
    BY <1>2, SwapIs
  <2>3. todo' \in [Ops -> SUBSET Nodes] /\ candidate' \in [Ops -> Nodes \cup {NoNode}]
    BY <1>2, SwapIs
  <2>4. did' \in [Ops -> SUBSET Effects] /\ warned' \subseteq Ops
    BY <1>2, SwapIs
  <2> QED
    BY <2>1, <2>2, <2>3, <2>4
<1>3. ASSUME NEW o \in Ops, Suspend(o), UNCHANGED interrupted PROVE TypeOK'
  <2>1. ClusterTypeOK'
    BY <1>3, SuspendIs
  <2>2. pc' \in [Ops -> {"idle", "swap", "gates"} \cup Fencing \cup Ended]
    BY <1>3, SuspendIs
  <2>3. todo' \in [Ops -> SUBSET Nodes] /\ candidate' \in [Ops -> Nodes \cup {NoNode}]
    BY <1>3, SuspendIs
  <2>4. did' \in [Ops -> SUBSET Effects] /\ warned' \subseteq Ops
    BY <1>3, SuspendIs
  <2> QED
    BY <2>1, <2>2, <2>3, <2>4
<1>4. ASSUME NEW o \in Ops, ScaleDown(o), UNCHANGED interrupted PROVE TypeOK'
  <2>1. size' \in 0..Replicas
    BY <1>4, ScaleDownIs
  <2>2. ClusterTypeOK'
    BY <1>4, <2>1, ScaleDownIs
  <2>3. pc' \in [Ops -> {"idle", "swap", "gates"} \cup Fencing \cup Ended]
    BY <1>4, ScaleDownIs
  <2>4. todo' \in [Ops -> SUBSET Nodes] /\ candidate' \in [Ops -> Nodes \cup {NoNode}]
    BY <1>4, ScaleDownIs
  <2>5. did' \in [Ops -> SUBSET Effects] /\ warned' \subseteq Ops
    BY <1>4, ScaleDownIs
  <2> QED
    BY <2>2, <2>3, <2>4, <2>5
<1>5. ASSUME NEW o \in Ops, Wait(o), UNCHANGED interrupted PROVE TypeOK'
  BY <1>5 DEF Wait
<1>6. ASSUME NEW o \in Ops, AllRead(o), UNCHANGED interrupted PROVE TypeOK'
  BY <1>6 DEF AllRead, RecoverOver
<1>7. ASSUME NEW o \in Ops, ScaleUp(o), UNCHANGED interrupted PROVE TypeOK'
  <2>1. size' \in 0..Replicas
    BY <1>7, ScaleUpIs
  <2>2. ClusterTypeOK'
    BY <1>7, <2>1, ScaleUpIs
  <2>3. pc' \in [Ops -> {"idle", "swap", "gates"} \cup Fencing \cup Ended]
    BY <1>7, ScaleUpIs
  <2>4. todo' \in [Ops -> SUBSET Nodes] /\ candidate' \in [Ops -> Nodes \cup {NoNode}]
    BY <1>7, ScaleUpIs
  <2>5. did' \in [Ops -> SUBSET Effects] /\ warned' \subseteq Ops
    BY <1>7, ScaleUpIs
  <2> QED
    BY <2>2, <2>3, <2>4, <2>5
<1>8. ASSUME NEW o \in Ops, Resume(o), UNCHANGED interrupted PROVE TypeOK'
  <2>1. ClusterTypeOK'
    BY <1>8, ResumeIs
  <2>2. pc' \in [Ops -> {"idle", "swap", "gates"} \cup Fencing \cup Ended]
    BY <1>8, ResumeIs
  <2>3. todo' \in [Ops -> SUBSET Nodes] /\ candidate' \in [Ops -> Nodes \cup {NoNode}]
    BY <1>8, ResumeIs
  <2>4. did' \in [Ops -> SUBSET Effects] /\ warned' \subseteq Ops
    BY <1>8, ResumeIs
  <2> QED
    BY <2>1, <2>2, <2>3, <2>4
<1>9. ASSUME NEW o \in Ops, Unlock(o), UNCHANGED interrupted PROVE TypeOK'
  <2>1. ClusterTypeOK'
    BY <1>9, UnlockIs
  <2>2. pc' \in [Ops -> {"idle", "swap", "gates"} \cup Fencing \cup Ended]
    BY <1>9, UnlockIs
  <2>3. todo' \in [Ops -> SUBSET Nodes] /\ candidate' \in [Ops -> Nodes \cup {NoNode}]
    BY <1>9, UnlockIs
  <2>4. did' \in [Ops -> SUBSET Effects] /\ warned' \subseteq Ops
    BY <1>9, UnlockIs
  <2> QED
    BY <2>1, <2>2, <2>3, <2>4
<1>10. ASSUME NEW o \in Ops, CheckLock(o), UNCHANGED interrupted PROVE TypeOK'
  BY <1>10 DEF CheckLock
<1>11. ASSUME NEW o \in Ops, Gates(o), UNCHANGED interrupted PROVE TypeOK'
  BY <1>11 DEF Gates
<1>12. ASSUME NEW o \in Ops, BootSuspend(o), UNCHANGED interrupted PROVE TypeOK'
  <2>1. ClusterTypeOK'
    BY <1>12, BootSuspendIs
  <2>2. pc' \in [Ops -> {"idle", "swap", "gates"} \cup Fencing \cup Ended]
    BY <1>12, BootSuspendIs
  <2>3. todo' \in [Ops -> SUBSET Nodes] /\ candidate' \in [Ops -> Nodes \cup {NoNode}]
    BY <1>12, BootSuspendIs
  <2>4. did' \in [Ops -> SUBSET Effects] /\ warned' \subseteq Ops
    BY <1>12, BootSuspendIs
  <2> QED
    BY <2>1, <2>2, <2>3, <2>4
<1>13. ASSUME NEW o \in Ops, BootLock(o), UNCHANGED interrupted PROVE TypeOK'
  <2>1. ClusterTypeOK'
    BY <1>13, BootLockIs
  <2>2. pc' \in [Ops -> {"idle", "swap", "gates"} \cup Fencing \cup Ended]
    BY <1>13, BootLockIs
  <2>3. todo' \in [Ops -> SUBSET Nodes] /\ candidate' \in [Ops -> Nodes \cup {NoNode}]
    BY <1>13, BootLockIs
  <2>4. did' \in [Ops -> SUBSET Effects] /\ warned' \subseteq Ops
    BY <1>13, BootLockIs
  <2> QED
    BY <2>1, <2>2, <2>3, <2>4
<1>14. ASSUME NEW o \in Ops, BootScaleDown(o), UNCHANGED interrupted PROVE TypeOK'
  <2>1. size' \in 0..Replicas
    BY <1>14, BootScaleDownIs
  <2>2. ClusterTypeOK'
    BY <1>14, <2>1, BootScaleDownIs
  <2>3. pc' \in [Ops -> {"idle", "swap", "gates"} \cup Fencing \cup Ended]
    BY <1>14, BootScaleDownIs
  <2>4. todo' \in [Ops -> SUBSET Nodes] /\ candidate' \in [Ops -> Nodes \cup {NoNode}]
    BY <1>14, BootScaleDownIs
  <2>5. did' \in [Ops -> SUBSET Effects] /\ warned' \subseteq Ops
    BY <1>14, BootScaleDownIs
  <2> QED
    BY <2>2, <2>3, <2>4, <2>5
<1>15. ASSUME NEW o \in Ops, BootWait(o), UNCHANGED interrupted PROVE TypeOK'
  BY <1>15 DEF BootWait
<1>16. ASSUME NEW o \in Ops, Select(o), UNCHANGED interrupted PROVE TypeOK'
  <2>1. CASE pc' = [pc EXCEPT ![o] = "undoForce"] /\ UNCHANGED <<candidate, todo>>
    BY <1>16, <2>1, SelectIs
  <2>2. ASSUME NEW n \in Nodes, NEW behind \in SUBSET Nodes, pc' = [pc EXCEPT ![o] = "clear"],
               candidate' = [candidate EXCEPT ![o] = n],
               todo' = [todo EXCEPT ![o] = (marked \cup behind) \ {n}]
        PROVE  TypeOK'
    <3>1. todo' \in [Ops -> SUBSET Nodes]
      BY <2>2
    <3>2. /\ candidate' \in [Ops -> Nodes \cup {NoNode}]
          /\ pc' \in [Ops -> {"idle", "swap", "gates"} \cup Fencing \cup Ended]
      BY <2>2
    <3> QED
      BY <1>16, <3>1, <3>2, SelectIs
  <2> QED
    BY <1>16, <2>1, <2>2, SelectIs
<1>17. ASSUME NEW o \in Ops, StartClear(o), UNCHANGED interrupted PROVE TypeOK'
  BY <1>17 DEF StartClear
<1>18. ASSUME NEW o \in Ops, Mark(o), UNCHANGED interrupted PROVE TypeOK'
  <2>1. candidate[o] \in Nodes
    BY <1>18, MarkIs DEF Chosen
  <2>2. marked' \in {marked, marked \cup {candidate[o]}}
    BY <1>18, <2>1, MarkIs DEF Chosen
  <2>3. marked' \subseteq Nodes
    BY <1>18, <2>1, <2>2, MarkIs
  <2>4. helper' \in [Ops -> Nodes \cup {NoNode}]
    BY <1>18, <2>1, <2>2, <2>3, MarkIs
  <2>5. ClusterTypeOK'
    BY <1>18, <2>1, <2>2, <2>3, <2>4, MarkIs
  <2>6. pc' \in [Ops -> {"idle", "swap", "gates"} \cup Fencing \cup Ended]
    BY <1>18, MarkIs
  <2>7. todo' \in [Ops -> SUBSET Nodes] /\ candidate' \in [Ops -> Nodes \cup {NoNode}]
    BY <1>18, MarkIs
  <2>8. did' \in [Ops -> SUBSET Effects] /\ warned' \subseteq Ops
    BY <1>18, MarkIs
  <2> QED
    BY <2>5, <2>6, <2>7, <2>8
<1>19. ASSUME NEW o \in Ops, ForceInPod(o), UNCHANGED interrupted PROVE TypeOK'
  <2>1. forced' \in Nodes \cup {NoNode}
    BY <1>19, ForceInPodIs
  <2>2. ClusterTypeOK'
    BY <1>19, <2>1, ForceInPodIs
  <2>3. pc' \in [Ops -> {"idle", "swap", "gates"} \cup Fencing \cup Ended]
    BY <1>19, ForceInPodIs
  <2>4. todo' \in [Ops -> SUBSET Nodes] /\ candidate' \in [Ops -> Nodes \cup {NoNode}]
    BY <1>19, ForceInPodIs
  <2>5. did' \in [Ops -> SUBSET Effects] /\ warned' \subseteq Ops
    BY <1>19, ForceInPodIs
  <2> QED
    BY <2>2, <2>3, <2>4, <2>5
<1>20. ASSUME NEW o \in Ops, BootScaleUp(o), UNCHANGED interrupted PROVE TypeOK'
  <2>1. size' \in 0..Replicas
    BY <1>20, BootScaleUpIs
  <2>2. ClusterTypeOK'
    BY <1>20, <2>1, BootScaleUpIs
  <2>3. pc' \in [Ops -> {"idle", "swap", "gates"} \cup Fencing \cup Ended]
    BY <1>20, BootScaleUpIs
  <2>4. todo' \in [Ops -> SUBSET Nodes] /\ candidate' \in [Ops -> Nodes \cup {NoNode}]
    BY <1>20, BootScaleUpIs
  <2>5. did' \in [Ops -> SUBSET Effects] /\ warned' \subseteq Ops
    BY <1>20, BootScaleUpIs
  <2> QED
    BY <2>2, <2>3, <2>4, <2>5
<1>21. ASSUME NEW o \in Ops, Await(o), UNCHANGED interrupted PROVE TypeOK'
  BY <1>21 DEF Await
<1>22. ASSUME NEW o \in Ops, Unforce(o), UNCHANGED interrupted PROVE TypeOK'
  <2>1. ClusterTypeOK'
    BY <1>22, UnforceIs
  <2>2. pc' \in [Ops -> {"idle", "swap", "gates"} \cup Fencing \cup Ended]
    BY <1>22, UnforceIs
  <2>3. todo' \in [Ops -> SUBSET Nodes] /\ candidate' \in [Ops -> Nodes \cup {NoNode}]
    BY <1>22, UnforceIs
  <2>4. did' \in [Ops -> SUBSET Effects] /\ warned' \subseteq Ops
    BY <1>22, UnforceIs
  <2> QED
    BY <2>1, <2>2, <2>3, <2>4
<1>23. ASSUME NEW o \in Ops, BootUnlock(o), UNCHANGED interrupted PROVE TypeOK'
  <2>1. ClusterTypeOK'
    BY <1>23, BootUnlockIs
  <2>2. pc' \in [Ops -> {"idle", "swap", "gates"} \cup Fencing \cup Ended]
    BY <1>23, BootUnlockIs
  <2>3. todo' \in [Ops -> SUBSET Nodes] /\ candidate' \in [Ops -> Nodes \cup {NoNode}]
    BY <1>23, BootUnlockIs
  <2>4. did' \in [Ops -> SUBSET Effects] /\ warned' \subseteq Ops
    BY <1>23, BootUnlockIs
  <2> QED
    BY <2>1, <2>2, <2>3, <2>4
<1>24. ASSUME NEW o \in Ops, BootResume(o), UNCHANGED interrupted PROVE TypeOK'
  <2>1. ClusterTypeOK'
    BY <1>24, BootResumeIs
  <2>2. pc' \in [Ops -> {"idle", "swap", "gates"} \cup Fencing \cup Ended]
    BY <1>24, BootResumeIs
  <2>3. todo' \in [Ops -> SUBSET Nodes] /\ candidate' \in [Ops -> Nodes \cup {NoNode}]
    BY <1>24, BootResumeIs
  <2>4. did' \in [Ops -> SUBSET Effects] /\ warned' \subseteq Ops
    BY <1>24, BootResumeIs
  <2> QED
    BY <2>1, <2>2, <2>3, <2>4
<1>25. ASSUME NEW o \in Ops, UndoForce(o), UNCHANGED interrupted PROVE TypeOK'
  <2>1. forced' \in Nodes \cup {NoNode}
    BY <1>25, UndoForceIs
  <2>2. helper' \in [Ops -> Nodes \cup {NoNode}]
    BY <1>25, <2>1, UndoForceIs
  <2>3. ClusterTypeOK'
    BY <1>25, <2>1, <2>2, UndoForceIs
  <2>4. pc' \in [Ops -> {"idle", "swap", "gates"} \cup Fencing \cup Ended]
    BY <1>25, UndoForceIs
  <2>5. todo' \in [Ops -> SUBSET Nodes] /\ candidate' \in [Ops -> Nodes \cup {NoNode}]
    BY <1>25, UndoForceIs
  <2>6. did' \in [Ops -> SUBSET Effects] /\ warned' \subseteq Ops
    BY <1>25, UndoForceIs
  <2> QED
    BY <2>3, <2>4, <2>5, <2>6
<1>26. ASSUME NEW o \in Ops, UndoMark(o), UNCHANGED interrupted PROVE TypeOK'
  <2>1. marked' \subseteq Nodes
    BY <1>26, UndoMarkIs
  <2>2. helper' \in [Ops -> Nodes \cup {NoNode}]
    BY <1>26, <2>1, UndoMarkIs
  <2>3. ClusterTypeOK'
    BY <1>26, <2>1, <2>2, UndoMarkIs
  <2>4. pc' \in [Ops -> {"idle", "swap", "gates"} \cup Fencing \cup Ended]
    BY <1>26, UndoMarkIs
  <2>5. todo' \in [Ops -> SUBSET Nodes] /\ candidate' \in [Ops -> Nodes \cup {NoNode}]
    BY <1>26, UndoMarkIs
  <2>6. did' \in [Ops -> SUBSET Effects] /\ warned' \subseteq Ops
    BY <1>26, UndoMarkIs
  <2> QED
    BY <2>3, <2>4, <2>5, <2>6
<1>27. ASSUME NEW o \in Ops, UndoLock(o), UNCHANGED interrupted PROVE TypeOK'
  BY <1>27, UndoLockIs
<1>28. ASSUME NEW o \in Ops, UndoScale(o), UNCHANGED interrupted PROVE TypeOK'
  <2>1. size' \in 0..Replicas
    BY <1>28, UndoScaleIs
  <2>2. ClusterTypeOK'
    BY <1>28, <2>1, UndoScaleIs
  <2>3. pc' \in [Ops -> {"idle", "swap", "gates"} \cup Fencing \cup Ended]
    BY <1>28, UndoScaleIs
  <2>4. todo' \in [Ops -> SUBSET Nodes] /\ candidate' \in [Ops -> Nodes \cup {NoNode}]
    BY <1>28, UndoScaleIs
  <2>5. did' \in [Ops -> SUBSET Effects] /\ warned' \subseteq Ops
    BY <1>28, UndoScaleIs
  <2> QED
    BY <2>2, <2>3, <2>4, <2>5
<1>29. ASSUME NEW o \in Ops, UndoResume(o), UNCHANGED interrupted PROVE TypeOK'
  BY <1>29, UndoResumeIs
<1>30. ASSUME NEW o \in Ops, NEW n \in Nodes, StartRecover(o, n), UNCHANGED interrupted
       PROVE  TypeOK'
  BY <1>30 DEF StartRecover
<1>31. ASSUME NEW o \in Ops, NEW n \in Nodes, ClearMarker(o, n), UNCHANGED interrupted PROVE TypeOK'
  BY <1>31 DEF ClearMarker
<1>32. ASSUME NEW o \in Ops, EndRecover(o), UNCHANGED interrupted PROVE TypeOK'
  BY <1>32 DEF EndRecover
<1>33. ASSUME NEW o \in Ops, Interrupt(o) PROVE TypeOK'
  BY <1>33 DEF Interrupt
<1>34. ASSUME NEW o \in Ops, Die(o) PROVE TypeOK'
  BY <1>34 DEF Die
<1>35. ASSUME NEW o \in Ops, HelperExpires(o) PROVE TypeOK'
  BY <1>35 DEF HelperExpires
<1>36. ASSUME LockExpires PROVE TypeOK'
  BY <1>36 DEF LockExpires, LockAges
<1>37. ASSUME OperatorScales, UNCHANGED <<interrupted, pc, locals>> PROVE TypeOK'
  BY <1>37 DEF OperatorScales
<1>38. ASSUME OperatorWrites, UNCHANGED <<interrupted, pc, locals>> PROVE TypeOK'
  BY <1>38 DEF OperatorWrites
<1>39. ASSUME NEW n \in Nodes, PodStarts(n), UNCHANGED <<interrupted, pc, locals>> PROVE TypeOK'
  BY <1>39 DEF PodStarts
<1>40. ASSUME NEW n \in Nodes, PodStops(n), UNCHANGED <<interrupted, pc, locals>> PROVE TypeOK'
  BY <1>40 DEF PodStops
<1>41. ASSUME NEW n \in Nodes, NodeFails(n), UNCHANGED <<interrupted, pc, locals>> PROVE TypeOK'
  BY <1>41 DEF NodeFails
<1>42. ASSUME NEW n \in Nodes, NodeServes(n), UNCHANGED <<interrupted, pc, locals>> PROVE TypeOK'
  BY <1>42 DEF NodeServes
<1>43. ASSUME UNCHANGED vars PROVE TypeOK'
  BY <1>43 DEF vars
<1> QED
  BY <1>1, <1>2, <1>3, <1>4, <1>5, <1>6, <1>7, <1>8, <1>9, <1>10, <1>11, <1>12, <1>13, <1>14,
     <1>15, <1>16, <1>17, <1>18, <1>19, <1>20, <1>21, <1>22, <1>23, <1>24, <1>25, <1>26,
     <1>27, <1>28, <1>29, <1>30, <1>31, <1>32, <1>33, <1>34, <1>35, <1>36, <1>37, <1>38,
     <1>39, <1>40, <1>41, <1>42, <1>43, StepCases


\* A candidate is chosen before it is used, and stays.
LEMMA ChosenNext ==
  ASSUME TypeOK, Chosen, [Next]_vars
  PROVE  Chosen'
<1> USE Given DEF TypeOK, Chosen, Goto, cluster, locals, Ended, vars
<1>1. ASSUME NEW o \in Ops, Gate(o), UNCHANGED interrupted PROVE Chosen'
  BY <1>1 DEF Gate
<1>2. ASSUME NEW o \in Ops, Swap(o), UNCHANGED interrupted PROVE Chosen'
  BY <1>2, SwapIs
<1>3. ASSUME NEW o \in Ops, Suspend(o), UNCHANGED interrupted PROVE Chosen'
  BY <1>3, SuspendIs
<1>4. ASSUME NEW o \in Ops, ScaleDown(o), UNCHANGED interrupted PROVE Chosen'
  BY <1>4, ScaleDownIs
<1>5. ASSUME NEW o \in Ops, Wait(o), UNCHANGED interrupted PROVE Chosen'
  BY <1>5 DEF Wait
<1>6. ASSUME NEW o \in Ops, AllRead(o), UNCHANGED interrupted PROVE Chosen'
  BY <1>6 DEF AllRead, RecoverOver
<1>7. ASSUME NEW o \in Ops, ScaleUp(o), UNCHANGED interrupted PROVE Chosen'
  BY <1>7, ScaleUpIs
<1>8. ASSUME NEW o \in Ops, Resume(o), UNCHANGED interrupted PROVE Chosen'
  BY <1>8, ResumeIs
<1>9. ASSUME NEW o \in Ops, Unlock(o), UNCHANGED interrupted PROVE Chosen'
  BY <1>9, UnlockIs
<1>10. ASSUME NEW o \in Ops, CheckLock(o), UNCHANGED interrupted PROVE Chosen'
  BY <1>10 DEF CheckLock
<1>11. ASSUME NEW o \in Ops, Gates(o), UNCHANGED interrupted PROVE Chosen'
  BY <1>11 DEF Gates
<1>12. ASSUME NEW o \in Ops, BootSuspend(o), UNCHANGED interrupted PROVE Chosen'
  BY <1>12, BootSuspendIs
<1>13. ASSUME NEW o \in Ops, BootLock(o), UNCHANGED interrupted PROVE Chosen'
  BY <1>13, BootLockIs
<1>14. ASSUME NEW o \in Ops, BootScaleDown(o), UNCHANGED interrupted PROVE Chosen'
  BY <1>14, BootScaleDownIs
<1>15. ASSUME NEW o \in Ops, BootWait(o), UNCHANGED interrupted PROVE Chosen'
  BY <1>15 DEF BootWait
<1>16. ASSUME NEW o \in Ops, Select(o), UNCHANGED interrupted PROVE Chosen'
  BY <1>16, SelectIs
<1>17. ASSUME NEW o \in Ops, StartClear(o), UNCHANGED interrupted PROVE Chosen'
  BY <1>17 DEF StartClear
<1>18. ASSUME NEW o \in Ops, Mark(o), UNCHANGED interrupted PROVE Chosen'
  BY <1>18, MarkIs
<1>19. ASSUME NEW o \in Ops, ForceInPod(o), UNCHANGED interrupted PROVE Chosen'
  BY <1>19, ForceInPodIs
<1>20. ASSUME NEW o \in Ops, BootScaleUp(o), UNCHANGED interrupted PROVE Chosen'
  BY <1>20, BootScaleUpIs
<1>21. ASSUME NEW o \in Ops, Await(o), UNCHANGED interrupted PROVE Chosen'
  BY <1>21 DEF Await
<1>22. ASSUME NEW o \in Ops, Unforce(o), UNCHANGED interrupted PROVE Chosen'
  BY <1>22, UnforceIs
<1>23. ASSUME NEW o \in Ops, BootUnlock(o), UNCHANGED interrupted PROVE Chosen'
  BY <1>23, BootUnlockIs
<1>24. ASSUME NEW o \in Ops, BootResume(o), UNCHANGED interrupted PROVE Chosen'
  BY <1>24, BootResumeIs
<1>25. ASSUME NEW o \in Ops, UndoForce(o), UNCHANGED interrupted PROVE Chosen'
  BY <1>25, UndoForceIs
<1>26. ASSUME NEW o \in Ops, UndoMark(o), UNCHANGED interrupted PROVE Chosen'
  BY <1>26, UndoMarkIs
<1>27. ASSUME NEW o \in Ops, UndoLock(o), UNCHANGED interrupted PROVE Chosen'
  BY <1>27, UndoLockIs
<1>28. ASSUME NEW o \in Ops, UndoScale(o), UNCHANGED interrupted PROVE Chosen'
  BY <1>28, UndoScaleIs
<1>29. ASSUME NEW o \in Ops, UndoResume(o), UNCHANGED interrupted PROVE Chosen'
  BY <1>29, UndoResumeIs
<1>30. ASSUME NEW o \in Ops, NEW n \in Nodes, StartRecover(o, n), UNCHANGED interrupted
       PROVE  Chosen'
  BY <1>30 DEF StartRecover
<1>31. ASSUME NEW o \in Ops, NEW n \in Nodes, ClearMarker(o, n), UNCHANGED interrupted PROVE Chosen'
  BY <1>31 DEF ClearMarker
<1>32. ASSUME NEW o \in Ops, EndRecover(o), UNCHANGED interrupted PROVE Chosen'
  BY <1>32 DEF EndRecover
<1>33. ASSUME NEW o \in Ops, Interrupt(o) PROVE Chosen'
  BY <1>33 DEF Interrupt
<1>34. ASSUME NEW o \in Ops, Die(o) PROVE Chosen'
  BY <1>34 DEF Die
<1>35. ASSUME NEW o \in Ops, HelperExpires(o) PROVE Chosen'
  BY <1>35 DEF HelperExpires
<1>36. ASSUME LockExpires PROVE Chosen'
  BY <1>36 DEF LockExpires, LockAges
<1>37. ASSUME OperatorScales, UNCHANGED <<interrupted, pc, locals>> PROVE Chosen'
  BY <1>37 DEF OperatorScales
<1>38. ASSUME OperatorWrites, UNCHANGED <<interrupted, pc, locals>> PROVE Chosen'
  BY <1>38 DEF OperatorWrites
<1>39. ASSUME NEW n \in Nodes, PodStarts(n), UNCHANGED <<interrupted, pc, locals>> PROVE Chosen'
  BY <1>39 DEF PodStarts
<1>40. ASSUME NEW n \in Nodes, PodStops(n), UNCHANGED <<interrupted, pc, locals>> PROVE Chosen'
  BY <1>40 DEF PodStops
<1>41. ASSUME NEW n \in Nodes, NodeFails(n), UNCHANGED <<interrupted, pc, locals>> PROVE Chosen'
  BY <1>41 DEF NodeFails
<1>42. ASSUME NEW n \in Nodes, NodeServes(n), UNCHANGED <<interrupted, pc, locals>> PROVE Chosen'
  BY <1>42 DEF NodeServes
<1>43. ASSUME UNCHANGED vars PROVE Chosen'
  BY <1>43 DEF vars
<1> QED
  BY <1>1, <1>2, <1>3, <1>4, <1>5, <1>6, <1>7, <1>8, <1>9, <1>10, <1>11, <1>12, <1>13, <1>14,
     <1>15, <1>16, <1>17, <1>18, <1>19, <1>20, <1>21, <1>22, <1>23, <1>24, <1>25, <1>26,
     <1>27, <1>28, <1>29, <1>30, <1>31, <1>32, <1>33, <1>34, <1>35, <1>36, <1>37, <1>38,
     <1>39, <1>40, <1>41, <1>42, <1>43, StepCases


-----------------------------------------------------------------------------
(* Exclusion *)

\* Whose a phase is.
LEMMA PhaseOwner ==
  ASSUME Phases, NEW o \in Ops
  PROVE  /\ pc[o] = "swap" => o \in Recovers
         /\ pc[o] \in {"lock", "clear", "mark", "force", "await", "unforce", "undoForce", "undoMark",
                       "undoLock", "undoScale", "undoResume"} => o \in Bootstraps
<1>1. CASE o \in Recovers
  BY <1>1 DEF Phases, RecoverPhases, Ended
<1>2. CASE o \in Bootstraps
  BY <1>2 DEF Phases, BootPhases, Fencing, Ended
<1> QED
  BY <1>1, <1>2, Given

\* Recoveries and bootstraps stay in their phases.
LEMMA PhasesNext ==
  ASSUME TypeOK, Phases, [Next]_vars
  PROVE  Phases'
<1> USE Given DEF TypeOK, Phases, RecoverPhases, BootPhases, Fencing, Ended, Goto, locals, vars
<1>1. ASSUME NEW o \in Ops, Gate(o), UNCHANGED interrupted PROVE Phases'
  BY <1>1 DEF Gate
<1>2. ASSUME NEW o \in Ops, Swap(o), UNCHANGED interrupted PROVE Phases'
  BY <1>2, SwapIs
<1>3. ASSUME NEW o \in Ops, Suspend(o), UNCHANGED interrupted PROVE Phases'
  BY <1>3, SuspendIs
<1>4. ASSUME NEW o \in Ops, ScaleDown(o), UNCHANGED interrupted PROVE Phases'
  BY <1>4, ScaleDownIs
<1>5. ASSUME NEW o \in Ops, Wait(o), UNCHANGED interrupted PROVE Phases'
  BY <1>5 DEF Wait
<1>6. ASSUME NEW o \in Ops, AllRead(o), UNCHANGED interrupted PROVE Phases'
  BY <1>6 DEF AllRead, RecoverOver
<1>7. ASSUME NEW o \in Ops, ScaleUp(o), UNCHANGED interrupted PROVE Phases'
  BY <1>7, ScaleUpIs
<1>8. ASSUME NEW o \in Ops, Resume(o), UNCHANGED interrupted PROVE Phases'
  BY <1>8, ResumeIs
<1>9. ASSUME NEW o \in Ops, Unlock(o), UNCHANGED interrupted PROVE Phases'
  BY <1>9, UnlockIs
<1>10. ASSUME NEW o \in Ops, CheckLock(o), UNCHANGED interrupted PROVE Phases'
  BY <1>10 DEF CheckLock
<1>11. ASSUME NEW o \in Ops, Gates(o), UNCHANGED interrupted PROVE Phases'
  BY <1>11 DEF Gates
<1>12. ASSUME NEW o \in Ops, BootSuspend(o), UNCHANGED interrupted PROVE Phases'
  BY <1>12, BootSuspendIs
<1>13. ASSUME NEW o \in Ops, BootLock(o), UNCHANGED interrupted PROVE Phases'
  BY <1>13, BootLockIs
<1>14. ASSUME NEW o \in Ops, BootScaleDown(o), UNCHANGED interrupted PROVE Phases'
  BY <1>14, BootScaleDownIs
<1>15. ASSUME NEW o \in Ops, BootWait(o), UNCHANGED interrupted PROVE Phases'
  BY <1>15 DEF BootWait
<1>16. ASSUME NEW o \in Ops, Select(o), UNCHANGED interrupted PROVE Phases'
  BY <1>16, SelectIs
<1>17. ASSUME NEW o \in Ops, StartClear(o), UNCHANGED interrupted PROVE Phases'
  BY <1>17 DEF StartClear
<1>18. ASSUME NEW o \in Ops, Mark(o), UNCHANGED interrupted PROVE Phases'
  BY <1>18, MarkIs
<1>19. ASSUME NEW o \in Ops, ForceInPod(o), UNCHANGED interrupted PROVE Phases'
  BY <1>19, ForceInPodIs
<1>20. ASSUME NEW o \in Ops, BootScaleUp(o), UNCHANGED interrupted PROVE Phases'
  BY <1>20, BootScaleUpIs
<1>21. ASSUME NEW o \in Ops, Await(o), UNCHANGED interrupted PROVE Phases'
  BY <1>21 DEF Await
<1>22. ASSUME NEW o \in Ops, Unforce(o), UNCHANGED interrupted PROVE Phases'
  BY <1>22, UnforceIs
<1>23. ASSUME NEW o \in Ops, BootUnlock(o), UNCHANGED interrupted PROVE Phases'
  BY <1>23, BootUnlockIs
<1>24. ASSUME NEW o \in Ops, BootResume(o), UNCHANGED interrupted PROVE Phases'
  BY <1>24, BootResumeIs
<1>25. ASSUME NEW o \in Ops, UndoForce(o), UNCHANGED interrupted PROVE Phases'
  BY <1>25, UndoForceIs
<1>26. ASSUME NEW o \in Ops, UndoMark(o), UNCHANGED interrupted PROVE Phases'
  BY <1>26, UndoMarkIs
<1>27. ASSUME NEW o \in Ops, UndoLock(o), UNCHANGED interrupted PROVE Phases'
  BY <1>27, UndoLockIs
<1>28. ASSUME NEW o \in Ops, UndoScale(o), UNCHANGED interrupted PROVE Phases'
  BY <1>28, UndoScaleIs
<1>29. ASSUME NEW o \in Ops, UndoResume(o), UNCHANGED interrupted PROVE Phases'
  BY <1>29, UndoResumeIs
<1>30. ASSUME NEW o \in Ops, NEW n \in Nodes, StartRecover(o, n), UNCHANGED interrupted
       PROVE  Phases'
  BY <1>30 DEF StartRecover
<1>31. ASSUME NEW o \in Ops, NEW n \in Nodes, ClearMarker(o, n), UNCHANGED interrupted PROVE Phases'
  BY <1>31 DEF ClearMarker
<1>32. ASSUME NEW o \in Ops, EndRecover(o), UNCHANGED interrupted PROVE Phases'
  BY <1>32 DEF EndRecover
<1>33. ASSUME NEW o \in Ops, Interrupt(o) PROVE Phases'
  BY <1>33 DEF Interrupt
<1>34. ASSUME NEW o \in Ops, Die(o) PROVE Phases'
  BY <1>34 DEF Die
<1>35. ASSUME NEW o \in Ops, HelperExpires(o) PROVE Phases'
  BY <1>35 DEF HelperExpires
<1>36. ASSUME LockExpires PROVE Phases'
  BY <1>36 DEF LockExpires, LockAges
<1>37. ASSUME OperatorScales, UNCHANGED <<interrupted, pc, locals>> PROVE Phases'
  BY <1>37 DEF OperatorScales
<1>38. ASSUME OperatorWrites, UNCHANGED <<interrupted, pc, locals>> PROVE Phases'
  BY <1>38 DEF OperatorWrites
<1>39. ASSUME NEW n \in Nodes, PodStarts(n), UNCHANGED <<interrupted, pc, locals>> PROVE Phases'
  BY <1>39 DEF PodStarts
<1>40. ASSUME NEW n \in Nodes, PodStops(n), UNCHANGED <<interrupted, pc, locals>> PROVE Phases'
  BY <1>40 DEF PodStops
<1>41. ASSUME NEW n \in Nodes, NodeFails(n), UNCHANGED <<interrupted, pc, locals>> PROVE Phases'
  BY <1>41 DEF NodeFails
<1>42. ASSUME NEW n \in Nodes, NodeServes(n), UNCHANGED <<interrupted, pc, locals>> PROVE Phases'
  BY <1>42 DEF NodeServes
<1>43. ASSUME UNCHANGED vars PROVE Phases'
  BY <1>43 DEF vars
<1> QED
  BY <1>1, <1>2, <1>3, <1>4, <1>5, <1>6, <1>7, <1>8, <1>9, <1>10, <1>11, <1>12, <1>13, <1>14,
     <1>15, <1>16, <1>17, <1>18, <1>19, <1>20, <1>21, <1>22, <1>23, <1>24, <1>25, <1>26,
     <1>27, <1>28, <1>29, <1>30, <1>31, <1>32, <1>33, <1>34, <1>35, <1>36, <1>37, <1>38,
     <1>39, <1>40, <1>41, <1>42, <1>43, StepCases


\* Nothing begins beside a bootstrap, nor a bootstrap beside anything.
LEMMA BootsAloneNext ==
  ASSUME TypeOK, Overlap \subseteq Recovers, BootsAlone, [Next]_vars
  PROVE  BootsAlone'
<1> USE Given DEF TypeOK, BootsAlone, Active, Ended, Goto, locals, vars
<1>1. ASSUME NEW o \in Ops, Gate(o), UNCHANGED interrupted PROVE BootsAlone'
  BY <1>1 DEF Gate, MayBegin
<1>2. ASSUME NEW o \in Ops, Swap(o), UNCHANGED interrupted PROVE BootsAlone'
  BY <1>2, SwapIs
<1>3. ASSUME NEW o \in Ops, Suspend(o), UNCHANGED interrupted PROVE BootsAlone'
  BY <1>3, SuspendIs
<1>4. ASSUME NEW o \in Ops, ScaleDown(o), UNCHANGED interrupted PROVE BootsAlone'
  BY <1>4, ScaleDownIs
<1>5. ASSUME NEW o \in Ops, Wait(o), UNCHANGED interrupted PROVE BootsAlone'
  BY <1>5 DEF Wait
<1>6. ASSUME NEW o \in Ops, AllRead(o), UNCHANGED interrupted PROVE BootsAlone'
  BY <1>6 DEF AllRead, RecoverOver
<1>7. ASSUME NEW o \in Ops, ScaleUp(o), UNCHANGED interrupted PROVE BootsAlone'
  BY <1>7, ScaleUpIs
<1>8. ASSUME NEW o \in Ops, Resume(o), UNCHANGED interrupted PROVE BootsAlone'
  BY <1>8, ResumeIs
<1>9. ASSUME NEW o \in Ops, Unlock(o), UNCHANGED interrupted PROVE BootsAlone'
  BY <1>9, UnlockIs
<1>10. ASSUME NEW o \in Ops, CheckLock(o), UNCHANGED interrupted PROVE BootsAlone'
  BY <1>10 DEF CheckLock, MayBegin
<1>11. ASSUME NEW o \in Ops, Gates(o), UNCHANGED interrupted PROVE BootsAlone'
  BY <1>11 DEF Gates
<1>12. ASSUME NEW o \in Ops, BootSuspend(o), UNCHANGED interrupted PROVE BootsAlone'
  BY <1>12, BootSuspendIs
<1>13. ASSUME NEW o \in Ops, BootLock(o), UNCHANGED interrupted PROVE BootsAlone'
  BY <1>13, BootLockIs
<1>14. ASSUME NEW o \in Ops, BootScaleDown(o), UNCHANGED interrupted PROVE BootsAlone'
  BY <1>14, BootScaleDownIs
<1>15. ASSUME NEW o \in Ops, BootWait(o), UNCHANGED interrupted PROVE BootsAlone'
  BY <1>15 DEF BootWait
<1>16. ASSUME NEW o \in Ops, Select(o), UNCHANGED interrupted PROVE BootsAlone'
  BY <1>16, SelectIs
<1>17. ASSUME NEW o \in Ops, StartClear(o), UNCHANGED interrupted PROVE BootsAlone'
  BY <1>17 DEF StartClear
<1>18. ASSUME NEW o \in Ops, Mark(o), UNCHANGED interrupted PROVE BootsAlone'
  BY <1>18, MarkIs
<1>19. ASSUME NEW o \in Ops, ForceInPod(o), UNCHANGED interrupted PROVE BootsAlone'
  BY <1>19, ForceInPodIs
<1>20. ASSUME NEW o \in Ops, BootScaleUp(o), UNCHANGED interrupted PROVE BootsAlone'
  BY <1>20, BootScaleUpIs
<1>21. ASSUME NEW o \in Ops, Await(o), UNCHANGED interrupted PROVE BootsAlone'
  BY <1>21 DEF Await
<1>22. ASSUME NEW o \in Ops, Unforce(o), UNCHANGED interrupted PROVE BootsAlone'
  BY <1>22, UnforceIs
<1>23. ASSUME NEW o \in Ops, BootUnlock(o), UNCHANGED interrupted PROVE BootsAlone'
  BY <1>23, BootUnlockIs
<1>24. ASSUME NEW o \in Ops, BootResume(o), UNCHANGED interrupted PROVE BootsAlone'
  BY <1>24, BootResumeIs
<1>25. ASSUME NEW o \in Ops, UndoForce(o), UNCHANGED interrupted PROVE BootsAlone'
  BY <1>25, UndoForceIs
<1>26. ASSUME NEW o \in Ops, UndoMark(o), UNCHANGED interrupted PROVE BootsAlone'
  BY <1>26, UndoMarkIs
<1>27. ASSUME NEW o \in Ops, UndoLock(o), UNCHANGED interrupted PROVE BootsAlone'
  BY <1>27, UndoLockIs
<1>28. ASSUME NEW o \in Ops, UndoScale(o), UNCHANGED interrupted PROVE BootsAlone'
  BY <1>28, UndoScaleIs
<1>29. ASSUME NEW o \in Ops, UndoResume(o), UNCHANGED interrupted PROVE BootsAlone'
  BY <1>29, UndoResumeIs
<1>30. ASSUME NEW o \in Ops, NEW n \in Nodes, StartRecover(o, n), UNCHANGED interrupted
       PROVE  BootsAlone'
  BY <1>30 DEF StartRecover
<1>31. ASSUME NEW o \in Ops, NEW n \in Nodes, ClearMarker(o, n), UNCHANGED interrupted
       PROVE  BootsAlone'
  BY <1>31 DEF ClearMarker
<1>32. ASSUME NEW o \in Ops, EndRecover(o), UNCHANGED interrupted PROVE BootsAlone'
  BY <1>32 DEF EndRecover
<1>33. ASSUME NEW o \in Ops, Interrupt(o) PROVE BootsAlone'
  BY <1>33 DEF Interrupt
<1>34. ASSUME NEW o \in Ops, Die(o) PROVE BootsAlone'
  BY <1>34 DEF Die
<1>35. ASSUME NEW o \in Ops, HelperExpires(o) PROVE BootsAlone'
  BY <1>35 DEF HelperExpires
<1>36. ASSUME LockExpires PROVE BootsAlone'
  BY <1>36 DEF LockExpires, LockAges
<1>37. ASSUME OperatorScales, UNCHANGED <<interrupted, pc, locals>> PROVE BootsAlone'
  BY <1>37 DEF OperatorScales
<1>38. ASSUME OperatorWrites, UNCHANGED <<interrupted, pc, locals>> PROVE BootsAlone'
  BY <1>38 DEF OperatorWrites
<1>39. ASSUME NEW n \in Nodes, PodStarts(n), UNCHANGED <<interrupted, pc, locals>> PROVE BootsAlone'
  BY <1>39 DEF PodStarts
<1>40. ASSUME NEW n \in Nodes, PodStops(n), UNCHANGED <<interrupted, pc, locals>> PROVE BootsAlone'
  BY <1>40 DEF PodStops
<1>41. ASSUME NEW n \in Nodes, NodeFails(n), UNCHANGED <<interrupted, pc, locals>> PROVE BootsAlone'
  BY <1>41 DEF NodeFails
<1>42. ASSUME NEW n \in Nodes, NodeServes(n), UNCHANGED <<interrupted, pc, locals>>
       PROVE  BootsAlone'
  BY <1>42 DEF NodeServes
<1>43. ASSUME UNCHANGED vars PROVE BootsAlone'
  BY <1>43 DEF vars
<1> QED
  BY <1>1, <1>2, <1>3, <1>4, <1>5, <1>6, <1>7, <1>8, <1>9, <1>10, <1>11, <1>12, <1>13, <1>14,
     <1>15, <1>16, <1>17, <1>18, <1>19, <1>20, <1>21, <1>22, <1>23, <1>24, <1>25, <1>26,
     <1>27, <1>28, <1>29, <1>30, <1>31, <1>32, <1>33, <1>34, <1>35, <1>36, <1>37, <1>38,
     <1>39, <1>40, <1>41, <1>42, <1>43, StepCases


\* A lock is taken only where no recovery holds it.
LEMMA LockedNext ==
  ASSUME TypeOK, Phases, BootsAlone, Locked, [Next]_vars
  PROVE  Locked'
<1> USE Given DEF TypeOK, ClusterTypeOK, Phases, Locked, LockedBy, LockAvailable, Fencing, Ended,
        Goto, Noticed, resource, nodes, cluster, locals, vars
<1>1. ASSUME NEW o \in Ops, Gate(o), UNCHANGED interrupted PROVE Locked'
  BY <1>1 DEF Gate
<1>2. ASSUME NEW o \in Ops, Swap(o), UNCHANGED interrupted PROVE Locked'
  <2>1. o \in Recovers
    BY <1>2, SwapIs, PhaseOwner
  <2>2. CASE o \in fresh
    <3>1. LockAvailable
      BY <1>2, <2>1, <2>2, SwapIs
    <3>2. \A r \in Recovers : pc[r] \notin Fencing
      BY <3>1
    <3>3. \A r \in Recovers \ {o} : pc'[r] = pc[r]
      BY <1>2, SwapIs
    <3>4. CASE pc'[o] = "suspend" /\ lock' = o /\ lockAge' = "fresh"
      <4>1. fresh' = {}
        BY <1>2, <3>1, <3>4, SwapIs
      <4> QED
        BY <3>2, <3>3, <3>4, <4>1
    <3>5. CASE pc'[o] = "skipped"
      BY <1>2, <2>1, <3>1, <3>2, <3>3, <3>5, SwapIs
    <3> QED
      BY <1>2, <3>4, <3>5, SwapIs
  <2>3. CASE o \notin fresh
    BY <1>2, <2>3, SwapIs
  <2> QED
    BY <2>2, <2>3
<1>3. ASSUME NEW o \in Ops, Suspend(o), UNCHANGED interrupted PROVE Locked'
  BY <1>3, SuspendIs
<1>4. ASSUME NEW o \in Ops, ScaleDown(o), UNCHANGED interrupted PROVE Locked'
  BY <1>4, ScaleDownIs
<1>5. ASSUME NEW o \in Ops, Wait(o), UNCHANGED interrupted PROVE Locked'
  BY <1>5 DEF Wait
<1>6. ASSUME NEW o \in Ops, AllRead(o), UNCHANGED interrupted PROVE Locked'
  BY <1>6 DEF AllRead, RecoverOver
<1>7. ASSUME NEW o \in Ops, ScaleUp(o), UNCHANGED interrupted PROVE Locked'
  BY <1>7, ScaleUpIs
<1>8. ASSUME NEW o \in Ops, Resume(o), UNCHANGED interrupted PROVE Locked'
  BY <1>8, ResumeIs
<1>9. ASSUME NEW o \in Ops, Unlock(o), UNCHANGED interrupted PROVE Locked'
  BY <1>9, UnlockIs
<1>10. ASSUME NEW o \in Ops, CheckLock(o), UNCHANGED interrupted PROVE Locked'
  BY <1>10 DEF CheckLock
<1>11. ASSUME NEW o \in Ops, Gates(o), UNCHANGED interrupted PROVE Locked'
  BY <1>11 DEF Gates
<1>12. ASSUME NEW o \in Ops, BootSuspend(o), UNCHANGED interrupted PROVE Locked'
  BY <1>12, BootSuspendIs
<1>13. ASSUME NEW o \in Ops, BootLock(o), UNCHANGED interrupted PROVE Locked'
  <2>1. o \in Bootstraps /\ Active(o)
    BY <1>13, BootLockIs, PhaseOwner DEF Active
  <2>2. \A r \in Recovers : ~Active(r)
    BY <2>1 DEF BootsAlone
  <2>3. \A r \in Recovers : pc[r] \notin Fencing /\ pc[r] # "swap" /\ pc'[r] = pc[r]
    BY <1>13, <2>1, <2>2, BootLockIs DEF Active
  <2> QED
    BY <2>3
<1>14. ASSUME NEW o \in Ops, BootScaleDown(o), UNCHANGED interrupted PROVE Locked'
  BY <1>14, BootScaleDownIs
<1>15. ASSUME NEW o \in Ops, BootWait(o), UNCHANGED interrupted PROVE Locked'
  BY <1>15 DEF BootWait
<1>16. ASSUME NEW o \in Ops, Select(o), UNCHANGED interrupted PROVE Locked'
  BY <1>16, SelectIs
<1>17. ASSUME NEW o \in Ops, StartClear(o), UNCHANGED interrupted PROVE Locked'
  BY <1>17 DEF StartClear
<1>18. ASSUME NEW o \in Ops, Mark(o), UNCHANGED interrupted PROVE Locked'
  BY <1>18, MarkIs
<1>19. ASSUME NEW o \in Ops, ForceInPod(o), UNCHANGED interrupted PROVE Locked'
  BY <1>19, ForceInPodIs
<1>20. ASSUME NEW o \in Ops, BootScaleUp(o), UNCHANGED interrupted PROVE Locked'
  BY <1>20, BootScaleUpIs
<1>21. ASSUME NEW o \in Ops, Await(o), UNCHANGED interrupted PROVE Locked'
  BY <1>21 DEF Await
<1>22. ASSUME NEW o \in Ops, Unforce(o), UNCHANGED interrupted PROVE Locked'
  BY <1>22, UnforceIs
<1>23. ASSUME NEW o \in Ops, BootUnlock(o), UNCHANGED interrupted PROVE Locked'
  <2>1. o \in Bootstraps /\ Active(o)
    BY <1>23, BootUnlockIs, PhaseOwner DEF Active
  <2>2. \A r \in Recovers : ~Active(r)
    BY <2>1 DEF BootsAlone
  <2>3. \A r \in Recovers : pc[r] \notin Fencing /\ pc[r] # "swap" /\ pc'[r] = pc[r]
    BY <1>23, <2>1, <2>2, BootUnlockIs DEF Active
  <2> QED
    BY <2>3
<1>24. ASSUME NEW o \in Ops, BootResume(o), UNCHANGED interrupted PROVE Locked'
  BY <1>24, BootResumeIs
<1>25. ASSUME NEW o \in Ops, UndoForce(o), UNCHANGED interrupted PROVE Locked'
  BY <1>25, UndoForceIs
<1>26. ASSUME NEW o \in Ops, UndoMark(o), UNCHANGED interrupted PROVE Locked'
  BY <1>26, UndoMarkIs
<1>27. ASSUME NEW o \in Ops, UndoLock(o), UNCHANGED interrupted PROVE Locked'
  <2>1. o \in Bootstraps /\ Active(o)
    BY <1>27, UndoLockIs, PhaseOwner DEF Active
  <2>2. \A r \in Recovers : ~Active(r)
    BY <2>1 DEF BootsAlone
  <2>3. \A r \in Recovers : pc[r] \notin Fencing /\ pc[r] # "swap" /\ pc'[r] = pc[r]
    BY <1>27, <2>1, <2>2, UndoLockIs DEF Active
  <2> QED
    BY <2>3
<1>28. ASSUME NEW o \in Ops, UndoScale(o), UNCHANGED interrupted PROVE Locked'
  BY <1>28, UndoScaleIs
<1>29. ASSUME NEW o \in Ops, UndoResume(o), UNCHANGED interrupted PROVE Locked'
  BY <1>29, UndoResumeIs
<1>30. ASSUME NEW o \in Ops, NEW n \in Nodes, StartRecover(o, n), UNCHANGED interrupted
       PROVE  Locked'
  BY <1>30 DEF StartRecover
<1>31. ASSUME NEW o \in Ops, NEW n \in Nodes, ClearMarker(o, n), UNCHANGED interrupted PROVE Locked'
  BY <1>31 DEF ClearMarker
<1>32. ASSUME NEW o \in Ops, EndRecover(o), UNCHANGED interrupted PROVE Locked'
  BY <1>32 DEF EndRecover
<1>33. ASSUME NEW o \in Ops, Interrupt(o) PROVE Locked'
  BY <1>33 DEF Interrupt
<1>34. ASSUME NEW o \in Ops, Die(o) PROVE Locked'
  BY <1>34 DEF Die
<1>35. ASSUME NEW o \in Ops, HelperExpires(o) PROVE Locked'
  BY <1>35 DEF HelperExpires
<1>36. ASSUME LockExpires PROVE Locked'
  BY <1>36 DEF LockExpires, LockAges
<1>37. ASSUME OperatorScales, UNCHANGED <<interrupted, pc, locals>> PROVE Locked'
  BY <1>37 DEF OperatorScales
<1>38. ASSUME OperatorWrites, UNCHANGED <<interrupted, pc, locals>> PROVE Locked'
  BY <1>38 DEF OperatorWrites
<1>39. ASSUME NEW n \in Nodes, PodStarts(n), UNCHANGED <<interrupted, pc, locals>> PROVE Locked'
  BY <1>39 DEF PodStarts
<1>40. ASSUME NEW n \in Nodes, PodStops(n), UNCHANGED <<interrupted, pc, locals>> PROVE Locked'
  BY <1>40 DEF PodStops
<1>41. ASSUME NEW n \in Nodes, NodeFails(n), UNCHANGED <<interrupted, pc, locals>> PROVE Locked'
  BY <1>41 DEF NodeFails
<1>42. ASSUME NEW n \in Nodes, NodeServes(n), UNCHANGED <<interrupted, pc, locals>> PROVE Locked'
  BY <1>42 DEF NodeServes
<1>43. ASSUME UNCHANGED vars PROVE Locked'
  BY <1>43 DEF vars
<1> QED
  BY <1>1, <1>2, <1>3, <1>4, <1>5, <1>6, <1>7, <1>8, <1>9, <1>10, <1>11, <1>12, <1>13, <1>14,
     <1>15, <1>16, <1>17, <1>18, <1>19, <1>20, <1>21, <1>22, <1>23, <1>24, <1>25, <1>26,
     <1>27, <1>28, <1>29, <1>30, <1>31, <1>32, <1>33, <1>34, <1>35, <1>36, <1>37, <1>38,
     <1>39, <1>40, <1>41, <1>42, <1>43, StepCases


-----------------------------------------------------------------------------
(* The fence *)

\* Where one operation is at work, no other has a helper or relies on the fence.
LEMMA OthersFenced ==
  ASSUME TypeOK, Phases, BootsAlone, Locked, Fenced, NEW o \in Ops,
         (o \in Recovers /\ pc[o] \in Fencing) \/ (o \in Bootstraps /\ Active(o)),
         \A p \in Ops \ {o} : pc'[p] = pc[p] /\ helper'[p] = helper[p] /\ did'[p] = did[p]
  PROVE  \A p \in Ops \ {o} : FencedFor(p)' /\ (p \in Bootstraps => BootFencedFor(p)')
<1> SUFFICES ASSUME NEW p \in Ops \ {o} PROVE FencedFor(p)' /\ (p \in Bootstraps => BootFencedFor(p)')
  OBVIOUS
<1>1. Active(o) /\ pc'[p] = pc[p] /\ helper'[p] = helper[p] /\ did'[p] = did[p]
  BY DEF Active, Fencing, Ended
<1>2. CASE o \in Bootstraps
  <2>1. helper[p] = NoNode /\ ~Active(p)
    BY <1>1, <1>2 DEF Fenced, BootFencedFor, BootsAlone
  <2>2. pc[p] \in {"idle"} \cup Ended
    BY <2>1 DEF Active
  <2> QED
    BY <1>1, <2>1, <2>2 DEF FencedFor, BootFencedFor, Ended, Active, Fenced
<1>3. CASE o \in Recovers
  <2>1. LockedBy(o) /\ ~LockedBy(p)
    BY <1>3, Given DEF Locked, LockedBy
  <2>2. helper[p] = NoNode /\ pc[p] \notin {"recover", "clear", "mark", "force", "scaleDown", "wait"}
    BY <2>1 DEF Fenced, FencedFor
  <2>3. FencedFor(p)'
    BY <1>1, <2>2 DEF FencedFor
  <2>4. ASSUME p \in Bootstraps PROVE BootFencedFor(p)'
    <3>1. ~Active(p)
      BY <1>1, <2>4 DEF BootsAlone
    <3>2. pc[p] \in {"idle"} \cup Ended
      BY <3>1 DEF Active
    <3> QED
      BY <1>1, <2>4, <3>2 DEF BootFencedFor, Active, Ended, Fenced
  <2> QED
    BY <2>3, <2>4
<1> QED
  BY <1>2, <1>3, Given

\* Nothing that could start a pod, or take the lock away, happens behind the fence.
LEMMA FencedNext ==
  ASSUME TypeOK, Chosen, ExclusionInv, Fenced, Forcing = {}, "get" \notin MayFail,
         "scale" \notin MayMislead, [Next]_vars
  PROVE  Fenced'
<1> USE Given DEF TypeOK, ClusterTypeOK, ExclusionInv, Fenced, FencedFor, BootFencedFor, Quiet,
        LockedBy, LockAvailable, Live, Active, Fencing, Ended, Goto, Noticed, resource, nodes,
        cluster, locals, vars
<1>1. ASSUME NEW o \in Ops, Gate(o), UNCHANGED interrupted PROVE Fenced'
  BY <1>1 DEF Gate, MayBegin
<1>2. ASSUME NEW o \in Ops, Swap(o), UNCHANGED interrupted PROVE Fenced'
  <2>1. o \in Recovers /\ helper' = helper /\ did' = did /\ UNCHANGED <<up, size, operator>>
    BY <1>2, SwapIs, PhaseOwner
  <2>2. \A p \in Ops \ {o} : pc'[p] = pc[p]
    BY <1>2, SwapIs
  <2>3. pc'[o] \in {"suspend", "skipped"} /\ Active(o)
    BY <1>2, SwapIs
  <2>4. \A b \in Bootstraps : b # o /\ ~Active(b)
    BY <2>1, <2>3 DEF BootsAlone
  <2>5. CASE UNCHANGED <<lock, lockAge>>
    <3>1. \A p \in Ops : FencedFor(p)'
      <4>1. FencedFor(o)'
        BY <1>2, <2>1, <2>3, <2>5, SwapIs
      <4>2. ASSUME NEW p \in Ops \ {o} PROVE FencedFor(p)'
        BY <1>2, <2>1, <2>2, <2>5
      <4> QED
        BY <4>1, <4>2
    <3>2. \A b \in Bootstraps : BootFencedFor(b)'
      BY <2>1, <2>2, <2>4
    <3> QED
      BY <3>1, <3>2
  <2>6. CASE o \in fresh
    <3>1. LockAvailable
      BY <1>2, <2>1, <2>6, SwapIs DEF Locked
    <3>2. \A p \in Ops : ~LockedBy(p)
      BY <3>1
    <3>3. \A p \in Ops : /\ helper[p] = NoNode
                        /\ pc[p] \notin {"recover", "clear", "mark", "force", "scaleDown", "wait"}
      BY <3>2
    <3>4. \A p \in Ops : FencedFor(p)'
      BY <2>1, <2>2, <2>3, <3>3
    <3>5. \A b \in Bootstraps : BootFencedFor(b)'
      BY <2>1, <2>2, <2>4
    <3> QED
      BY <3>4, <3>5
  <2> QED
    BY <1>2, <2>5, <2>6, SwapIs
<1>3. ASSUME NEW o \in Ops, Suspend(o), UNCHANGED interrupted PROVE Fenced'
  <2>1. (o \in Recovers /\ pc[o] \in Fencing) \/ (o \in Bootstraps /\ Active(o))
    BY <1>3, SuspendIs, PhaseOwner
  <2>2. \A p \in Ops \ {o} : pc'[p] = pc[p] /\ helper'[p] = helper[p] /\ did'[p] = did[p]
    BY <1>3, SuspendIs
  <2>3. \A p \in Ops \ {o} : FencedFor(p)' /\ (p \in Bootstraps => BootFencedFor(p)')
    BY <2>1, <2>2, OthersFenced DEF ExclusionInv
  <2>4. FencedFor(o)'
    <3>1. (helper[o] # NoNode => Quiet /\ LockedBy(o))'
      <4>1. helper[o] # NoNode => Quiet /\ LockedBy(o)
        OBVIOUS
      <4>2. helper' = helper /\ UNCHANGED <<up, size, lock, lockAge>>
        BY <1>3, SuspendIs
      <4>3. operator' = operator \/ operator' = "suspended"
        BY <1>3, SuspendIs
      <4> QED
        BY <4>1, <4>2, <4>3
    <3>2. (helper[o] # NoNode => \/ pc[o] \in {"recover", "clear", "mark", "undoMark"}
                                   \/ pc[o] = "dead" \/ ~Live(o))'
      BY <1>3, SuspendIs
    <3>3. (pc[o] \in {"recover", "clear", "mark", "force"} => Quiet /\ LockedBy(o))'
      BY <1>3, SuspendIs
    <3>4. (pc[o] = "wait" => size = 0)'
      BY <1>3, SuspendIs
    <3>5. (pc[o] \in {"scaleDown", "wait"} => operator = "suspended" /\ LockedBy(o))'
      BY <1>3, SuspendIs, <2>1 DEF Locked
    <3> QED
      BY <3>1, <3>2, <3>3, <3>4, <3>5
  <2>5. o \in Bootstraps => BootFencedFor(o)'
    BY <1>3, SuspendIs, <2>1, <2>2
  <2> QED
    BY <2>3, <2>4, <2>5
<1>4. ASSUME NEW o \in Ops, ScaleDown(o), UNCHANGED interrupted PROVE Fenced'
  <2>1. (o \in Recovers /\ pc[o] \in Fencing) \/ (o \in Bootstraps /\ Active(o))
    BY <1>4, ScaleDownIs, PhaseOwner
  <2>2. \A p \in Ops \ {o} : pc'[p] = pc[p] /\ helper'[p] = helper[p] /\ did'[p] = did[p]
    BY <1>4, ScaleDownIs
  <2>3. \A p \in Ops \ {o} : FencedFor(p)' /\ (p \in Bootstraps => BootFencedFor(p)')
    BY <2>1, <2>2, OthersFenced DEF ExclusionInv
  <2>4. FencedFor(o)'
    <3>1. (helper[o] # NoNode => Quiet /\ LockedBy(o))'
      BY <1>4, ScaleDownIs
    <3>2. (helper[o] # NoNode => \/ pc[o] \in {"recover", "clear", "mark", "undoMark"}
                                   \/ pc[o] = "dead" \/ ~Live(o))'
      BY <1>4, ScaleDownIs
    <3>3. (pc[o] \in {"recover", "clear", "mark", "force"} => Quiet /\ LockedBy(o))'
      BY <1>4, ScaleDownIs
    <3>4. (pc[o] = "wait" => size = 0)'
      BY <1>4, ScaleDownIs
    <3>5. (pc[o] \in {"scaleDown", "wait"} => operator = "suspended" /\ LockedBy(o))'
      BY <1>4, ScaleDownIs
    <3> QED
      BY <3>1, <3>2, <3>3, <3>4, <3>5
  <2>5. o \in Bootstraps => BootFencedFor(o)'
    BY <1>4, ScaleDownIs, <2>1, <2>2
  <2> QED
    BY <2>3, <2>4, <2>5
<1>5. ASSUME NEW o \in Ops, Wait(o), UNCHANGED interrupted PROVE Fenced'
  <2>1. (o \in Recovers /\ pc[o] \in Fencing) \/ (o \in Bootstraps /\ Active(o))
    BY <1>5, PhaseOwner DEF Wait
  <2>2. \A p \in Ops \ {o} : pc'[p] = pc[p] /\ helper'[p] = helper[p] /\ did'[p] = did[p]
    BY <1>5 DEF Wait
  <2>3. \A p \in Ops \ {o} : FencedFor(p)' /\ (p \in Bootstraps => BootFencedFor(p)')
    BY <2>1, <2>2, OthersFenced DEF ExclusionInv
  <2>4. FencedFor(o)'
    BY <1>5 DEF Wait
  <2>5. o \in Bootstraps => BootFencedFor(o)'
    BY <1>5, <2>1, <2>2 DEF Wait
  <2> QED
    BY <2>3, <2>4, <2>5
<1>6. ASSUME NEW o \in Ops, AllRead(o), UNCHANGED interrupted PROVE Fenced'
  <2>1. (o \in Recovers /\ pc[o] \in Fencing) \/ (o \in Bootstraps /\ Active(o))
    BY <1>6, PhaseOwner DEF AllRead, RecoverOver
  <2>2. \A p \in Ops \ {o} : pc'[p] = pc[p] /\ helper'[p] = helper[p] /\ did'[p] = did[p]
    BY <1>6 DEF AllRead, RecoverOver
  <2>3. \A p \in Ops \ {o} : FencedFor(p)' /\ (p \in Bootstraps => BootFencedFor(p)')
    BY <2>1, <2>2, OthersFenced DEF ExclusionInv
  <2>4. FencedFor(o)'
    BY <1>6 DEF AllRead, RecoverOver
  <2>5. o \in Bootstraps => BootFencedFor(o)'
    BY <1>6, <2>1, <2>2 DEF AllRead, RecoverOver
  <2> QED
    BY <2>3, <2>4, <2>5
<1>7. ASSUME NEW o \in Ops, ScaleUp(o), UNCHANGED interrupted PROVE Fenced'
  <2>1. (o \in Recovers /\ pc[o] \in Fencing) \/ (o \in Bootstraps /\ Active(o))
    BY <1>7, ScaleUpIs, PhaseOwner
  <2>2. \A p \in Ops \ {o} : pc'[p] = pc[p] /\ helper'[p] = helper[p] /\ did'[p] = did[p]
    BY <1>7, ScaleUpIs
  <2>3. \A p \in Ops \ {o} : FencedFor(p)' /\ (p \in Bootstraps => BootFencedFor(p)')
    BY <2>1, <2>2, OthersFenced DEF ExclusionInv
  <2>4. FencedFor(o)'
    <3>1. /\ helper'[o] = helper[o]
          /\ pc'[o] \notin {"recover", "clear", "mark", "force", "wait", "scaleDown"}
      BY <1>7, ScaleUpIs
    <3>2. helper[o] # NoNode => ~Live(o) /\ Quiet /\ LockedBy(o)
      BY <1>7, ScaleUpIs
    <3>3. ~Live(o) => UNCHANGED <<up, size, operator, lock, lockAge, interrupted>>
      BY <1>7, ScaleUpIs
    <3> QED
      BY <3>1, <3>2, <3>3
  <2>5. o \in Bootstraps => BootFencedFor(o)'
    BY <1>7, ScaleUpIs, <2>1, <2>2
  <2> QED
    BY <2>3, <2>4, <2>5
<1>8. ASSUME NEW o \in Ops, Resume(o), UNCHANGED interrupted PROVE Fenced'
  <2>1. (o \in Recovers /\ pc[o] \in Fencing) \/ (o \in Bootstraps /\ Active(o))
    BY <1>8, ResumeIs, PhaseOwner
  <2>2. \A p \in Ops \ {o} : pc'[p] = pc[p] /\ helper'[p] = helper[p] /\ did'[p] = did[p]
    BY <1>8, ResumeIs
  <2>3. \A p \in Ops \ {o} : FencedFor(p)' /\ (p \in Bootstraps => BootFencedFor(p)')
    BY <2>1, <2>2, OthersFenced DEF ExclusionInv
  <2>4. FencedFor(o)'
    <3>1. /\ helper'[o] = helper[o]
          /\ pc'[o] \notin {"recover", "clear", "mark", "force", "wait", "scaleDown"}
      BY <1>8, ResumeIs
    <3>2. helper[o] # NoNode => ~Live(o) /\ Quiet /\ LockedBy(o)
      BY <1>8, ResumeIs
    <3>3. ~Live(o) => UNCHANGED <<up, size, operator, lock, lockAge, interrupted>>
      BY <1>8, ResumeIs
    <3> QED
      BY <3>1, <3>2, <3>3
  <2>5. o \in Bootstraps => BootFencedFor(o)'
    BY <1>8, ResumeIs, <2>1, <2>2
  <2> QED
    BY <2>3, <2>4, <2>5
<1>9. ASSUME NEW o \in Ops, Unlock(o), UNCHANGED interrupted PROVE Fenced'
  <2>1. (o \in Recovers /\ pc[o] \in Fencing) \/ (o \in Bootstraps /\ Active(o))
    BY <1>9, UnlockIs, PhaseOwner
  <2>2. \A p \in Ops \ {o} : pc'[p] = pc[p] /\ helper'[p] = helper[p] /\ did'[p] = did[p]
    BY <1>9, UnlockIs
  <2>3. \A p \in Ops \ {o} : FencedFor(p)' /\ (p \in Bootstraps => BootFencedFor(p)')
    BY <2>1, <2>2, OthersFenced DEF ExclusionInv
  <2>4. FencedFor(o)'
    <3>1. /\ helper'[o] = helper[o]
          /\ pc'[o] \notin {"recover", "clear", "mark", "force", "wait", "scaleDown"}
      BY <1>9, UnlockIs
    <3>2. helper[o] # NoNode => ~Live(o) /\ Quiet /\ LockedBy(o)
      BY <1>9, UnlockIs
    <3>3. ~Live(o) => UNCHANGED <<up, size, operator, lock, lockAge, interrupted>>
      BY <1>9, UnlockIs
    <3> QED
      BY <3>1, <3>2, <3>3
  <2>5. o \in Bootstraps => BootFencedFor(o)'
    BY <1>9, UnlockIs, <2>1, <2>2
  <2> QED
    BY <2>3, <2>4, <2>5
<1>10. ASSUME NEW o \in Ops, CheckLock(o), UNCHANGED interrupted PROVE Fenced'
  BY <1>10 DEF CheckLock, MayBegin
<1>11. ASSUME NEW o \in Ops, Gates(o), UNCHANGED interrupted PROVE Fenced'
  <2>1. (o \in Recovers /\ pc[o] \in Fencing) \/ (o \in Bootstraps /\ Active(o))
    BY <1>11, PhaseOwner DEF Gates
  <2>2. \A p \in Ops \ {o} : pc'[p] = pc[p] /\ helper'[p] = helper[p] /\ did'[p] = did[p]
    BY <1>11 DEF Gates
  <2>3. \A p \in Ops \ {o} : FencedFor(p)' /\ (p \in Bootstraps => BootFencedFor(p)')
    BY <2>1, <2>2, OthersFenced DEF ExclusionInv
  <2>4. FencedFor(o)'
    BY <1>11 DEF Gates
  <2>5. o \in Bootstraps => BootFencedFor(o)'
    BY <1>11, <2>1, <2>2 DEF Gates
  <2> QED
    BY <2>3, <2>4, <2>5
<1>12. ASSUME NEW o \in Ops, BootSuspend(o), UNCHANGED interrupted PROVE Fenced'
  <2>1. (o \in Recovers /\ pc[o] \in Fencing) \/ (o \in Bootstraps /\ Active(o))
    BY <1>12, BootSuspendIs, PhaseOwner
  <2>2. \A p \in Ops \ {o} : pc'[p] = pc[p] /\ helper'[p] = helper[p] /\ did'[p] = did[p]
    BY <1>12, BootSuspendIs
  <2>3. \A p \in Ops \ {o} : FencedFor(p)' /\ (p \in Bootstraps => BootFencedFor(p)')
    BY <2>1, <2>2, OthersFenced DEF ExclusionInv
  <2>4. FencedFor(o)'
    <3>1. (helper[o] # NoNode => Quiet /\ LockedBy(o))'
      <4>1. helper[o] # NoNode => Quiet /\ LockedBy(o)
        OBVIOUS
      <4>2. helper' = helper /\ UNCHANGED <<up, size, lock, lockAge>>
        BY <1>12, BootSuspendIs
      <4>3. operator' = operator \/ operator' = "suspended"
        BY <1>12, BootSuspendIs
      <4> QED
        BY <4>1, <4>2, <4>3
    <3>2. (helper[o] # NoNode => \/ pc[o] \in {"recover", "clear", "mark", "undoMark"}
                                   \/ pc[o] = "dead" \/ ~Live(o))'
      BY <1>12, BootSuspendIs
    <3>3. (pc[o] \in {"recover", "clear", "mark", "force"} => Quiet /\ LockedBy(o))'
      BY <1>12, BootSuspendIs
    <3>4. (pc[o] = "wait" => size = 0)'
      BY <1>12, BootSuspendIs
    <3>5. (pc[o] \in {"scaleDown", "wait"} => operator = "suspended" /\ LockedBy(o))'
      BY <1>12, BootSuspendIs
    <3> QED
      BY <3>1, <3>2, <3>3, <3>4, <3>5
  <2>5. o \in Bootstraps => BootFencedFor(o)'
    BY <1>12, BootSuspendIs, <2>1, <2>2
  <2> QED
    BY <2>3, <2>4, <2>5
<1>13. ASSUME NEW o \in Ops, BootLock(o), UNCHANGED interrupted PROVE Fenced'
  <2>1. (o \in Recovers /\ pc[o] \in Fencing) \/ (o \in Bootstraps /\ Active(o))
    BY <1>13, BootLockIs, PhaseOwner
  <2>2. \A p \in Ops \ {o} : pc'[p] = pc[p] /\ helper'[p] = helper[p] /\ did'[p] = did[p]
    BY <1>13, BootLockIs
  <2>3. \A p \in Ops \ {o} : FencedFor(p)' /\ (p \in Bootstraps => BootFencedFor(p)')
    BY <2>1, <2>2, OthersFenced DEF ExclusionInv
  <2>4. FencedFor(o)'
    <3>1. (helper[o] # NoNode => Quiet /\ LockedBy(o))'
      BY <1>13, BootLockIs
    <3>2. (helper[o] # NoNode => \/ pc[o] \in {"recover", "clear", "mark", "undoMark"}
                                   \/ pc[o] = "dead" \/ ~Live(o))'
      BY <1>13, BootLockIs
    <3>3. (pc[o] \in {"recover", "clear", "mark", "force"} => Quiet /\ LockedBy(o))'
      BY <1>13, BootLockIs
    <3>4. (pc[o] = "wait" => size = 0)'
      BY <1>13, BootLockIs
    <3>5. (pc[o] \in {"scaleDown", "wait"} => operator = "suspended" /\ LockedBy(o))'
      BY <1>13, BootLockIs
    <3> QED
      BY <3>1, <3>2, <3>3, <3>4, <3>5
  <2>5. o \in Bootstraps => BootFencedFor(o)'
    BY <1>13, BootLockIs, <2>1, <2>2
  <2> QED
    BY <2>3, <2>4, <2>5
<1>14. ASSUME NEW o \in Ops, BootScaleDown(o), UNCHANGED interrupted PROVE Fenced'
  <2>1. (o \in Recovers /\ pc[o] \in Fencing) \/ (o \in Bootstraps /\ Active(o))
    BY <1>14, BootScaleDownIs, PhaseOwner
  <2>2. \A p \in Ops \ {o} : pc'[p] = pc[p] /\ helper'[p] = helper[p] /\ did'[p] = did[p]
    BY <1>14, BootScaleDownIs
  <2>3. \A p \in Ops \ {o} : FencedFor(p)' /\ (p \in Bootstraps => BootFencedFor(p)')
    BY <2>1, <2>2, OthersFenced DEF ExclusionInv
  <2>4. FencedFor(o)'
    <3>1. (helper[o] # NoNode => Quiet /\ LockedBy(o))'
      BY <1>14, BootScaleDownIs
    <3>2. (helper[o] # NoNode => \/ pc[o] \in {"recover", "clear", "mark", "undoMark"}
                                   \/ pc[o] = "dead" \/ ~Live(o))'
      BY <1>14, BootScaleDownIs
    <3>3. (pc[o] \in {"recover", "clear", "mark", "force"} => Quiet /\ LockedBy(o))'
      BY <1>14, BootScaleDownIs
    <3>4. (pc[o] = "wait" => size = 0)'
      BY <1>14, BootScaleDownIs
    <3>5. (pc[o] \in {"scaleDown", "wait"} => operator = "suspended" /\ LockedBy(o))'
      BY <1>14, BootScaleDownIs
    <3> QED
      BY <3>1, <3>2, <3>3, <3>4, <3>5
  <2>5. o \in Bootstraps => BootFencedFor(o)'
    BY <1>14, BootScaleDownIs, <2>1, <2>2
  <2> QED
    BY <2>3, <2>4, <2>5
<1>15. ASSUME NEW o \in Ops, BootWait(o), UNCHANGED interrupted PROVE Fenced'
  <2>1. (o \in Recovers /\ pc[o] \in Fencing) \/ (o \in Bootstraps /\ Active(o))
    BY <1>15, PhaseOwner DEF BootWait
  <2>2. \A p \in Ops \ {o} : pc'[p] = pc[p] /\ helper'[p] = helper[p] /\ did'[p] = did[p]
    BY <1>15 DEF BootWait
  <2>3. \A p \in Ops \ {o} : FencedFor(p)' /\ (p \in Bootstraps => BootFencedFor(p)')
    BY <2>1, <2>2, OthersFenced DEF ExclusionInv
  <2>4. FencedFor(o)'
    BY <1>15 DEF BootWait
  <2>5. o \in Bootstraps => BootFencedFor(o)'
    BY <1>15, <2>1, <2>2 DEF BootWait
  <2> QED
    BY <2>3, <2>4, <2>5
<1>16. ASSUME NEW o \in Ops, Select(o), UNCHANGED interrupted PROVE Fenced'
  <2>1. (o \in Recovers /\ pc[o] \in Fencing) \/ (o \in Bootstraps /\ Active(o))
    BY <1>16, SelectIs, PhaseOwner
  <2>2. \A p \in Ops \ {o} : pc'[p] = pc[p] /\ helper'[p] = helper[p] /\ did'[p] = did[p]
    BY <1>16, SelectIs
  <2>3. \A p \in Ops \ {o} : FencedFor(p)' /\ (p \in Bootstraps => BootFencedFor(p)')
    BY <2>1, <2>2, OthersFenced DEF ExclusionInv
  <2>4. FencedFor(o)'
    BY <1>16, SelectIs
  <2>5. o \in Bootstraps => BootFencedFor(o)'
    BY <1>16, SelectIs, <2>1, <2>2
  <2> QED
    BY <2>3, <2>4, <2>5
<1>17. ASSUME NEW o \in Ops, StartClear(o), UNCHANGED interrupted PROVE Fenced'
  <2>1. (o \in Recovers /\ pc[o] \in Fencing) \/ (o \in Bootstraps /\ Active(o))
    BY <1>17, PhaseOwner DEF StartClear
  <2>2. \A p \in Ops \ {o} : pc'[p] = pc[p] /\ helper'[p] = helper[p] /\ did'[p] = did[p]
    BY <1>17 DEF StartClear
  <2>3. \A p \in Ops \ {o} : FencedFor(p)' /\ (p \in Bootstraps => BootFencedFor(p)')
    BY <2>1, <2>2, OthersFenced DEF ExclusionInv
  <2>4. FencedFor(o)'
    BY <1>17 DEF StartClear
  <2>5. o \in Bootstraps => BootFencedFor(o)'
    BY <1>17, <2>1, <2>2 DEF StartClear
  <2> QED
    BY <2>3, <2>4, <2>5
<1>18. ASSUME NEW o \in Ops, Mark(o), UNCHANGED interrupted PROVE Fenced'
  <2>1. (o \in Recovers /\ pc[o] \in Fencing) \/ (o \in Bootstraps /\ Active(o))
    BY <1>18, MarkIs, PhaseOwner
  <2>2. \A p \in Ops \ {o} : pc'[p] = pc[p] /\ helper'[p] = helper[p] /\ did'[p] = did[p]
    BY <1>18, MarkIs
  <2>3. \A p \in Ops \ {o} : FencedFor(p)' /\ (p \in Bootstraps => BootFencedFor(p)')
    BY <2>1, <2>2, OthersFenced DEF ExclusionInv
  <2>4. FencedFor(o)'
    <3>1. (helper[o] # NoNode => Quiet /\ LockedBy(o))'
      BY <1>18, MarkIs
    <3>2. (helper[o] # NoNode => \/ pc[o] \in {"recover", "clear", "mark", "undoMark"}
                                   \/ pc[o] = "dead" \/ ~Live(o))'
      BY <1>18, MarkIs
    <3>3. (pc[o] \in {"recover", "clear", "mark", "force"} => Quiet /\ LockedBy(o))'
      BY <1>18, MarkIs
    <3>4. (pc[o] = "wait" => size = 0)'
      BY <1>18, MarkIs
    <3>5. (pc[o] \in {"scaleDown", "wait"} => operator = "suspended" /\ LockedBy(o))'
      BY <1>18, MarkIs
    <3> QED
      BY <3>1, <3>2, <3>3, <3>4, <3>5
  <2>5. o \in Bootstraps => BootFencedFor(o)'
    BY <1>18, MarkIs, <2>1, <2>2
  <2> QED
    BY <2>3, <2>4, <2>5
<1>19. ASSUME NEW o \in Ops, ForceInPod(o), UNCHANGED interrupted PROVE Fenced'
  <2>1. (o \in Recovers /\ pc[o] \in Fencing) \/ (o \in Bootstraps /\ Active(o))
    BY <1>19, ForceInPodIs, PhaseOwner
  <2>2. \A p \in Ops \ {o} : pc'[p] = pc[p] /\ helper'[p] = helper[p] /\ did'[p] = did[p]
    BY <1>19, ForceInPodIs
  <2>3. \A p \in Ops \ {o} : FencedFor(p)' /\ (p \in Bootstraps => BootFencedFor(p)')
    BY <2>1, <2>2, OthersFenced DEF ExclusionInv
  <2>4. FencedFor(o)'
    BY <1>19, ForceInPodIs
  <2>5. o \in Bootstraps => BootFencedFor(o)'
    <3>1. (Active(o) => \A p \in Ops \ {o} : helper[p] = NoNode)'
      BY <1>19, ForceInPodIs, <2>1, <2>2
    <3>2. (pc[o] = "lock" => operator = "suspended")'
      BY <1>19, ForceInPodIs, <2>1, <2>2
    <3>3. (o \in Bootstraps /\ pc[o] = "scaleUp" => Quiet /\ LockedBy(o))'
      BY <1>19, ForceInPodIs, <2>1, <2>2
    <3>4. ("marked" \in did[o] =>
             pc[o] \notin {"idle", "gates", "suspend", "lock", "scaleDown", "wait", "recover",
                           "clear", "mark"})'
      BY <1>19, ForceInPodIs, <2>1, <2>2
    <3>5. ("marked" \in did[o] /\ pc[o] = "undoForce" => Quiet /\ LockedBy(o))'
      BY <1>19, ForceInPodIs, <2>1, <2>2
    <3> QED
      BY <3>1, <3>2, <3>3, <3>4, <3>5
  <2> QED
    BY <2>3, <2>4, <2>5
<1>20. ASSUME NEW o \in Ops, BootScaleUp(o), UNCHANGED interrupted PROVE Fenced'
  <2>1. (o \in Recovers /\ pc[o] \in Fencing) \/ (o \in Bootstraps /\ Active(o))
    BY <1>20, BootScaleUpIs, PhaseOwner
  <2>2. \A p \in Ops \ {o} : pc'[p] = pc[p] /\ helper'[p] = helper[p] /\ did'[p] = did[p]
    BY <1>20, BootScaleUpIs
  <2>3. \A p \in Ops \ {o} : FencedFor(p)' /\ (p \in Bootstraps => BootFencedFor(p)')
    BY <2>1, <2>2, OthersFenced DEF ExclusionInv
  <2>4. FencedFor(o)'
    <3>1. (helper[o] # NoNode => Quiet /\ LockedBy(o))'
      BY <1>20, BootScaleUpIs
    <3>2. (helper[o] # NoNode => \/ pc[o] \in {"recover", "clear", "mark", "undoMark"}
                                   \/ pc[o] = "dead" \/ ~Live(o))'
      BY <1>20, BootScaleUpIs
    <3>3. (pc[o] \in {"recover", "clear", "mark", "force"} => Quiet /\ LockedBy(o))'
      BY <1>20, BootScaleUpIs
    <3>4. (pc[o] = "wait" => size = 0)'
      BY <1>20, BootScaleUpIs
    <3>5. (pc[o] \in {"scaleDown", "wait"} => operator = "suspended" /\ LockedBy(o))'
      BY <1>20, BootScaleUpIs
    <3> QED
      BY <3>1, <3>2, <3>3, <3>4, <3>5
  <2>5. o \in Bootstraps => BootFencedFor(o)'
    <3>1. (Active(o) => \A p \in Ops \ {o} : helper[p] = NoNode)'
      BY <1>20, BootScaleUpIs, <2>1, <2>2
    <3>2. (pc[o] = "lock" => operator = "suspended")'
      BY <1>20, BootScaleUpIs, <2>1, <2>2
    <3>3. (o \in Bootstraps /\ pc[o] = "scaleUp" => Quiet /\ LockedBy(o))'
      BY <1>20, BootScaleUpIs, <2>1, <2>2
    <3>4. ("marked" \in did[o] =>
             pc[o] \notin {"idle", "gates", "suspend", "lock", "scaleDown", "wait", "recover",
                           "clear", "mark"})'
      BY <1>20, BootScaleUpIs, <2>1, <2>2
    <3>5. ("marked" \in did[o] /\ pc[o] = "undoForce" => Quiet /\ LockedBy(o))'
      <4>1. Quiet /\ LockedBy(o)
        BY <1>20, BootScaleUpIs, <2>1
      <4>2. pc'[o] = "undoForce" => size' = size
        BY <1>20, BootScaleUpIs
      <4>3. UNCHANGED <<up, operator, lock, lockAge>>
        BY <1>20, BootScaleUpIs
      <4> QED
        BY <4>1, <4>2, <4>3
    <3> QED
      BY <3>1, <3>2, <3>3, <3>4, <3>5
  <2> QED
    BY <2>3, <2>4, <2>5
<1>21. ASSUME NEW o \in Ops, Await(o), UNCHANGED interrupted PROVE Fenced'
  <2>1. (o \in Recovers /\ pc[o] \in Fencing) \/ (o \in Bootstraps /\ Active(o))
    BY <1>21, PhaseOwner DEF Await
  <2>2. \A p \in Ops \ {o} : pc'[p] = pc[p] /\ helper'[p] = helper[p] /\ did'[p] = did[p]
    BY <1>21 DEF Await
  <2>3. \A p \in Ops \ {o} : FencedFor(p)' /\ (p \in Bootstraps => BootFencedFor(p)')
    BY <2>1, <2>2, OthersFenced DEF ExclusionInv
  <2>4. FencedFor(o)'
    BY <1>21 DEF Await
  <2>5. o \in Bootstraps => BootFencedFor(o)'
    BY <1>21, <2>1, <2>2 DEF Await
  <2> QED
    BY <2>3, <2>4, <2>5
<1>22. ASSUME NEW o \in Ops, Unforce(o), UNCHANGED interrupted PROVE Fenced'
  <2>1. (o \in Recovers /\ pc[o] \in Fencing) \/ (o \in Bootstraps /\ Active(o))
    BY <1>22, UnforceIs, PhaseOwner
  <2>2. \A p \in Ops \ {o} : pc'[p] = pc[p] /\ helper'[p] = helper[p] /\ did'[p] = did[p]
    BY <1>22, UnforceIs
  <2>3. \A p \in Ops \ {o} : FencedFor(p)' /\ (p \in Bootstraps => BootFencedFor(p)')
    BY <2>1, <2>2, OthersFenced DEF ExclusionInv
  <2>4. FencedFor(o)'
    <3>1. /\ helper'[o] = helper[o]
          /\ pc'[o] \notin {"recover", "clear", "mark", "force", "wait", "scaleDown"}
      BY <1>22, UnforceIs
    <3>2. helper[o] # NoNode => ~Live(o) /\ Quiet /\ LockedBy(o)
      BY <1>22, UnforceIs
    <3>3. ~Live(o) => UNCHANGED <<up, size, operator, lock, lockAge, interrupted>>
      BY <1>22, UnforceIs
    <3> QED
      BY <3>1, <3>2, <3>3
  <2>5. o \in Bootstraps => BootFencedFor(o)'
    BY <1>22, UnforceIs, <2>1, <2>2
  <2> QED
    BY <2>3, <2>4, <2>5
<1>23. ASSUME NEW o \in Ops, BootUnlock(o), UNCHANGED interrupted PROVE Fenced'
  <2>1. (o \in Recovers /\ pc[o] \in Fencing) \/ (o \in Bootstraps /\ Active(o))
    BY <1>23, BootUnlockIs, PhaseOwner
  <2>2. \A p \in Ops \ {o} : pc'[p] = pc[p] /\ helper'[p] = helper[p] /\ did'[p] = did[p]
    BY <1>23, BootUnlockIs
  <2>3. \A p \in Ops \ {o} : FencedFor(p)' /\ (p \in Bootstraps => BootFencedFor(p)')
    BY <2>1, <2>2, OthersFenced DEF ExclusionInv
  <2>4. FencedFor(o)'
    <3>1. (helper[o] # NoNode => Quiet /\ LockedBy(o))'
      BY <1>23, BootUnlockIs
    <3>2. (helper[o] # NoNode => \/ pc[o] \in {"recover", "clear", "mark", "undoMark"}
                                   \/ pc[o] = "dead" \/ ~Live(o))'
      BY <1>23, BootUnlockIs
    <3>3. (pc[o] \in {"recover", "clear", "mark", "force"} => Quiet /\ LockedBy(o))'
      BY <1>23, BootUnlockIs
    <3>4. (pc[o] = "wait" => size = 0)'
      BY <1>23, BootUnlockIs
    <3>5. (pc[o] \in {"scaleDown", "wait"} => operator = "suspended" /\ LockedBy(o))'
      BY <1>23, BootUnlockIs
    <3> QED
      BY <3>1, <3>2, <3>3, <3>4, <3>5
  <2>5. o \in Bootstraps => BootFencedFor(o)'
    BY <1>23, BootUnlockIs, <2>1, <2>2
  <2> QED
    BY <2>3, <2>4, <2>5
<1>24. ASSUME NEW o \in Ops, BootResume(o), UNCHANGED interrupted PROVE Fenced'
  <2>1. (o \in Recovers /\ pc[o] \in Fencing) \/ (o \in Bootstraps /\ Active(o))
    BY <1>24, BootResumeIs, PhaseOwner
  <2>2. \A p \in Ops \ {o} : pc'[p] = pc[p] /\ helper'[p] = helper[p] /\ did'[p] = did[p]
    BY <1>24, BootResumeIs
  <2>3. \A p \in Ops \ {o} : FencedFor(p)' /\ (p \in Bootstraps => BootFencedFor(p)')
    BY <2>1, <2>2, OthersFenced DEF ExclusionInv
  <2>4. FencedFor(o)'
    <3>1. (helper[o] # NoNode => Quiet /\ LockedBy(o))'
      BY <1>24, BootResumeIs
    <3>2. (helper[o] # NoNode => \/ pc[o] \in {"recover", "clear", "mark", "undoMark"}
                                   \/ pc[o] = "dead" \/ ~Live(o))'
      BY <1>24, BootResumeIs
    <3>3. (pc[o] \in {"recover", "clear", "mark", "force"} => Quiet /\ LockedBy(o))'
      BY <1>24, BootResumeIs
    <3>4. (pc[o] = "wait" => size = 0)'
      BY <1>24, BootResumeIs
    <3>5. (pc[o] \in {"scaleDown", "wait"} => operator = "suspended" /\ LockedBy(o))'
      BY <1>24, BootResumeIs
    <3> QED
      BY <3>1, <3>2, <3>3, <3>4, <3>5
  <2>5. o \in Bootstraps => BootFencedFor(o)'
    BY <1>24, BootResumeIs, <2>1, <2>2
  <2> QED
    BY <2>3, <2>4, <2>5
<1>25. ASSUME NEW o \in Ops, UndoForce(o), UNCHANGED interrupted PROVE Fenced'
  <2>1. (o \in Recovers /\ pc[o] \in Fencing) \/ (o \in Bootstraps /\ Active(o))
    BY <1>25, UndoForceIs, PhaseOwner
  <2>2. \A p \in Ops \ {o} : pc'[p] = pc[p] /\ helper'[p] = helper[p] /\ did'[p] = did[p]
    BY <1>25, UndoForceIs
  <2>3. \A p \in Ops \ {o} : FencedFor(p)' /\ (p \in Bootstraps => BootFencedFor(p)')
    BY <2>1, <2>2, OthersFenced DEF ExclusionInv
  <2>4. FencedFor(o)'
    <3>1. (helper[o] # NoNode => Quiet /\ LockedBy(o))'
      <4>1. helper[o] # NoNode \/ "marked" \in did[o] => Quiet /\ LockedBy(o)
        BY <1>25, UndoForceIs, <2>1, PhaseOwner
      <4>2. helper'[o] # NoNode => helper[o] # NoNode \/ "marked" \in did[o]
        BY <1>25, UndoForceIs
      <4>3. UNCHANGED <<up, size, operator, lock, lockAge>>
        BY <1>25, UndoForceIs
      <4> QED
        BY <4>1, <4>2, <4>3
    <3>2. (helper[o] # NoNode => \/ pc[o] \in {"recover", "clear", "mark", "undoMark"}
                                   \/ pc[o] = "dead" \/ ~Live(o))'
      BY <1>25, UndoForceIs
    <3>3. (pc[o] \in {"recover", "clear", "mark", "force"} => Quiet /\ LockedBy(o))'
      BY <1>25, UndoForceIs
    <3>4. (pc[o] = "wait" => size = 0)'
      BY <1>25, UndoForceIs
    <3>5. (pc[o] \in {"scaleDown", "wait"} => operator = "suspended" /\ LockedBy(o))'
      BY <1>25, UndoForceIs
    <3> QED
      BY <3>1, <3>2, <3>3, <3>4, <3>5
  <2>5. o \in Bootstraps => BootFencedFor(o)'
    BY <1>25, UndoForceIs, <2>1, <2>2
  <2> QED
    BY <2>3, <2>4, <2>5
<1>26. ASSUME NEW o \in Ops, UndoMark(o), UNCHANGED interrupted PROVE Fenced'
  <2>1. (o \in Recovers /\ pc[o] \in Fencing) \/ (o \in Bootstraps /\ Active(o))
    BY <1>26, UndoMarkIs, PhaseOwner
  <2>2. \A p \in Ops \ {o} : pc'[p] = pc[p] /\ helper'[p] = helper[p] /\ did'[p] = did[p]
    BY <1>26, UndoMarkIs
  <2>3. \A p \in Ops \ {o} : FencedFor(p)' /\ (p \in Bootstraps => BootFencedFor(p)')
    BY <2>1, <2>2, OthersFenced DEF ExclusionInv
  <2>4. FencedFor(o)'
    <3>1. (helper[o] # NoNode => Quiet /\ LockedBy(o))'
      <4>1. helper[o] # NoNode => Quiet /\ LockedBy(o)
        OBVIOUS
      <4>2. helper'[o] # NoNode => helper[o] # NoNode
        BY <1>26, UndoMarkIs
      <4>3. UNCHANGED <<up, size, operator, lock, lockAge>>
        BY <1>26, UndoMarkIs
      <4> QED
        BY <4>1, <4>2, <4>3
    <3>2. (helper[o] # NoNode => \/ pc[o] \in {"recover", "clear", "mark", "undoMark"}
                                   \/ pc[o] = "dead" \/ ~Live(o))'
      BY <1>26, UndoMarkIs
    <3>3. (pc[o] \in {"recover", "clear", "mark", "force"} => Quiet /\ LockedBy(o))'
      BY <1>26, UndoMarkIs
    <3>4. (pc[o] = "wait" => size = 0)'
      BY <1>26, UndoMarkIs
    <3>5. (pc[o] \in {"scaleDown", "wait"} => operator = "suspended" /\ LockedBy(o))'
      BY <1>26, UndoMarkIs
    <3> QED
      BY <3>1, <3>2, <3>3, <3>4, <3>5
  <2>5. o \in Bootstraps => BootFencedFor(o)'
    BY <1>26, UndoMarkIs, <2>1, <2>2
  <2> QED
    BY <2>3, <2>4, <2>5
<1>27. ASSUME NEW o \in Ops, UndoLock(o), UNCHANGED interrupted PROVE Fenced'
  <2>1. (o \in Recovers /\ pc[o] \in Fencing) \/ (o \in Bootstraps /\ Active(o))
    BY <1>27, UndoLockIs, PhaseOwner
  <2>2. \A p \in Ops \ {o} : pc'[p] = pc[p] /\ helper'[p] = helper[p] /\ did'[p] = did[p]
    BY <1>27, UndoLockIs
  <2>3. \A p \in Ops \ {o} : FencedFor(p)' /\ (p \in Bootstraps => BootFencedFor(p)')
    BY <2>1, <2>2, OthersFenced DEF ExclusionInv
  <2>4. FencedFor(o)'
    <3>1. /\ helper'[o] = helper[o]
          /\ pc'[o] \notin {"recover", "clear", "mark", "force", "wait", "scaleDown"}
      BY <1>27, UndoLockIs
    <3>2. helper[o] # NoNode => ~Live(o) /\ Quiet /\ LockedBy(o)
      BY <1>27, UndoLockIs
    <3>3. ~Live(o) => UNCHANGED <<up, size, operator, lock, lockAge, interrupted>>
      BY <1>27, UndoLockIs
    <3> QED
      BY <3>1, <3>2, <3>3
  <2>5. o \in Bootstraps => BootFencedFor(o)'
    BY <1>27, UndoLockIs, <2>1, <2>2
  <2> QED
    BY <2>3, <2>4, <2>5
<1>28. ASSUME NEW o \in Ops, UndoScale(o), UNCHANGED interrupted PROVE Fenced'
  <2>1. (o \in Recovers /\ pc[o] \in Fencing) \/ (o \in Bootstraps /\ Active(o))
    BY <1>28, UndoScaleIs, PhaseOwner
  <2>2. \A p \in Ops \ {o} : pc'[p] = pc[p] /\ helper'[p] = helper[p] /\ did'[p] = did[p]
    BY <1>28, UndoScaleIs
  <2>3. \A p \in Ops \ {o} : FencedFor(p)' /\ (p \in Bootstraps => BootFencedFor(p)')
    BY <2>1, <2>2, OthersFenced DEF ExclusionInv
  <2>4. FencedFor(o)'
    <3>1. /\ helper'[o] = helper[o]
          /\ pc'[o] \notin {"recover", "clear", "mark", "force", "wait", "scaleDown"}
      BY <1>28, UndoScaleIs
    <3>2. helper[o] # NoNode => ~Live(o) /\ Quiet /\ LockedBy(o)
      BY <1>28, UndoScaleIs
    <3>3. ~Live(o) => UNCHANGED <<up, size, operator, lock, lockAge, interrupted>>
      BY <1>28, UndoScaleIs
    <3> QED
      BY <3>1, <3>2, <3>3
  <2>5. o \in Bootstraps => BootFencedFor(o)'
    BY <1>28, UndoScaleIs, <2>1, <2>2
  <2> QED
    BY <2>3, <2>4, <2>5
<1>29. ASSUME NEW o \in Ops, UndoResume(o), UNCHANGED interrupted PROVE Fenced'
  <2>1. (o \in Recovers /\ pc[o] \in Fencing) \/ (o \in Bootstraps /\ Active(o))
    BY <1>29, UndoResumeIs, PhaseOwner
  <2>2. \A p \in Ops \ {o} : pc'[p] = pc[p] /\ helper'[p] = helper[p] /\ did'[p] = did[p]
    BY <1>29, UndoResumeIs
  <2>3. \A p \in Ops \ {o} : FencedFor(p)' /\ (p \in Bootstraps => BootFencedFor(p)')
    BY <2>1, <2>2, OthersFenced DEF ExclusionInv
  <2>4. FencedFor(o)'
    <3>1. /\ helper'[o] = helper[o]
          /\ pc'[o] \notin {"recover", "clear", "mark", "force", "wait", "scaleDown"}
      BY <1>29, UndoResumeIs
    <3>2. helper[o] # NoNode => ~Live(o) /\ Quiet /\ LockedBy(o)
      BY <1>29, UndoResumeIs
    <3>3. ~Live(o) => UNCHANGED <<up, size, operator, lock, lockAge, interrupted>>
      BY <1>29, UndoResumeIs
    <3> QED
      BY <3>1, <3>2, <3>3
  <2>5. o \in Bootstraps => BootFencedFor(o)'
    BY <1>29, UndoResumeIs, <2>1, <2>2
  <2> QED
    BY <2>3, <2>4, <2>5
<1>30. ASSUME NEW o \in Ops, NEW n \in Nodes, StartRecover(o, n), UNCHANGED interrupted
       PROVE  Fenced'
  <2>1. (o \in Recovers /\ pc[o] \in Fencing) \/ (o \in Bootstraps /\ Active(o))
    BY <1>30, PhaseOwner DEF StartRecover
  <2>2. \A p \in Ops \ {o} : pc'[p] = pc[p] /\ helper'[p] = helper[p] /\ did'[p] = did[p]
    BY <1>30 DEF StartRecover
  <2>3. \A p \in Ops \ {o} : FencedFor(p)' /\ (p \in Bootstraps => BootFencedFor(p)')
    BY <2>1, <2>2, OthersFenced DEF ExclusionInv
  <2>4. FencedFor(o)'
    BY <1>30 DEF StartRecover
  <2>5. o \in Bootstraps => BootFencedFor(o)'
    BY <1>30, <2>1, <2>2 DEF StartRecover
  <2> QED
    BY <2>3, <2>4, <2>5
<1>31. ASSUME NEW o \in Ops, NEW n \in Nodes, ClearMarker(o, n), UNCHANGED interrupted PROVE Fenced'
  <2>1. (o \in Recovers /\ pc[o] \in Fencing) \/ (o \in Bootstraps /\ Active(o))
    BY <1>31, PhaseOwner DEF ClearMarker
  <2>2. \A p \in Ops \ {o} : pc'[p] = pc[p] /\ helper'[p] = helper[p] /\ did'[p] = did[p]
    BY <1>31 DEF ClearMarker
  <2>3. \A p \in Ops \ {o} : FencedFor(p)' /\ (p \in Bootstraps => BootFencedFor(p)')
    BY <2>1, <2>2, OthersFenced DEF ExclusionInv
  <2>4. FencedFor(o)'
    BY <1>31 DEF ClearMarker
  <2>5. o \in Bootstraps => BootFencedFor(o)'
    BY <1>31, <2>1, <2>2 DEF ClearMarker
  <2> QED
    BY <2>3, <2>4, <2>5
<1>32. ASSUME NEW o \in Ops, EndRecover(o), UNCHANGED interrupted PROVE Fenced'
  <2>1. (o \in Recovers /\ pc[o] \in Fencing) \/ (o \in Bootstraps /\ Active(o))
    BY <1>32, PhaseOwner DEF EndRecover
  <2>2. \A p \in Ops \ {o} : pc'[p] = pc[p] /\ helper'[p] = helper[p] /\ did'[p] = did[p]
    BY <1>32 DEF EndRecover
  <2>3. \A p \in Ops \ {o} : FencedFor(p)' /\ (p \in Bootstraps => BootFencedFor(p)')
    BY <2>1, <2>2, OthersFenced DEF ExclusionInv
  <2>4. FencedFor(o)'
    BY <1>32 DEF EndRecover
  <2>5. o \in Bootstraps => BootFencedFor(o)'
    BY <1>32, <2>1, <2>2 DEF EndRecover
  <2> QED
    BY <2>3, <2>4, <2>5
<1>33. ASSUME NEW o \in Ops, Interrupt(o) PROVE Fenced'
  BY <1>33 DEF Interrupt
<1>34. ASSUME NEW o \in Ops, Die(o) PROVE Fenced'
  BY <1>34 DEF Die
<1>35. ASSUME NEW o \in Ops, HelperExpires(o) PROVE Fenced'
  BY <1>35 DEF HelperExpires
<1>36. ASSUME LockExpires PROVE Fenced'
  BY <1>36 DEF LockExpires, LockAges
<1>37. ASSUME OperatorScales, UNCHANGED <<interrupted, pc, locals>> PROVE Fenced'
  BY <1>37 DEF OperatorScales
<1>38. ASSUME OperatorWrites, UNCHANGED <<interrupted, pc, locals>> PROVE Fenced'
  BY <1>38 DEF OperatorWrites
<1>39. ASSUME NEW n \in Nodes, PodStarts(n), UNCHANGED <<interrupted, pc, locals>> PROVE Fenced'
  BY <1>39 DEF PodStarts
<1>40. ASSUME NEW n \in Nodes, PodStops(n), UNCHANGED <<interrupted, pc, locals>> PROVE Fenced'
  BY <1>40 DEF PodStops
<1>41. ASSUME NEW n \in Nodes, NodeFails(n), UNCHANGED <<interrupted, pc, locals>> PROVE Fenced'
  BY <1>41 DEF NodeFails
<1>42. ASSUME NEW n \in Nodes, NodeServes(n), UNCHANGED <<interrupted, pc, locals>> PROVE Fenced'
  BY <1>42 DEF NodeServes
<1>43. ASSUME UNCHANGED vars PROVE Fenced'
  BY <1>43 DEF vars
<1> QED
  BY <1>1, <1>2, <1>3, <1>4, <1>5, <1>6, <1>7, <1>8, <1>9, <1>10, <1>11, <1>12, <1>13, <1>14,
     <1>15, <1>16, <1>17, <1>18, <1>19, <1>20, <1>21, <1>22, <1>23, <1>24, <1>25, <1>26,
     <1>27, <1>28, <1>29, <1>30, <1>31, <1>32, <1>33, <1>34, <1>35, <1>36, <1>37, <1>38,
     <1>39, <1>40, <1>41, <1>42, <1>43, StepCases


-----------------------------------------------------------------------------
(* The marker *)

\* Markers that are cleared, and what is to clear besides, keep there being one.
LEMMA MarkerKept ==
  ASSUME OneMarker, marked' \subseteq marked,
         \A b \in Bootstraps : pc'[b] \in {"clear", "mark"} =>
           pc'[b] = pc[b] /\ todo'[b] = todo[b] /\ candidate'[b] = candidate[b]
  PROVE  OneMarker'
  BY DEF OneMarker

\* A marker is set only where every other has been cleared.
LEMMA OneMarkerNext ==
  ASSUME TypeOK, Phases, BootsAlone, OneMarker, "helper" \notin MayFail, [Next]_vars
  PROVE  OneMarker'
<1> USE Given DEF TypeOK, Active, Fencing, Ended, Goto, resource, nodes, cluster, locals, vars
<1>1. ASSUME NEW o \in Ops, Gate(o), UNCHANGED interrupted PROVE OneMarker'
  <2>1. marked' \subseteq marked
    BY <1>1 DEF Gate
  <2>2. \A b \in Bootstraps : pc'[b] \in {"clear", "mark"} =>
          pc'[b] = pc[b] /\ todo'[b] = todo[b] /\ candidate'[b] = candidate[b]
    BY <1>1 DEF Gate
  <2> QED
    BY <2>1, <2>2, MarkerKept
<1>2. ASSUME NEW o \in Ops, Swap(o), UNCHANGED interrupted PROVE OneMarker'
  <2>1. marked' \subseteq marked
    BY <1>2, SwapIs
  <2>2. \A b \in Bootstraps : pc'[b] \in {"clear", "mark"} =>
          pc'[b] = pc[b] /\ todo'[b] = todo[b] /\ candidate'[b] = candidate[b]
    BY <1>2, SwapIs
  <2> QED
    BY <2>1, <2>2, MarkerKept
<1>3. ASSUME NEW o \in Ops, Suspend(o), UNCHANGED interrupted PROVE OneMarker'
  <2>1. marked' \subseteq marked
    BY <1>3, SuspendIs
  <2>2. \A b \in Bootstraps : pc'[b] \in {"clear", "mark"} =>
          pc'[b] = pc[b] /\ todo'[b] = todo[b] /\ candidate'[b] = candidate[b]
    BY <1>3, SuspendIs
  <2> QED
    BY <2>1, <2>2, MarkerKept
<1>4. ASSUME NEW o \in Ops, ScaleDown(o), UNCHANGED interrupted PROVE OneMarker'
  <2>1. marked' \subseteq marked
    BY <1>4, ScaleDownIs
  <2>2. \A b \in Bootstraps : pc'[b] \in {"clear", "mark"} =>
          pc'[b] = pc[b] /\ todo'[b] = todo[b] /\ candidate'[b] = candidate[b]
    BY <1>4, ScaleDownIs
  <2> QED
    BY <2>1, <2>2, MarkerKept
<1>5. ASSUME NEW o \in Ops, Wait(o), UNCHANGED interrupted PROVE OneMarker'
  <2>1. marked' \subseteq marked
    BY <1>5 DEF Wait
  <2>2. \A b \in Bootstraps : pc'[b] \in {"clear", "mark"} =>
          pc'[b] = pc[b] /\ todo'[b] = todo[b] /\ candidate'[b] = candidate[b]
    BY <1>5 DEF Wait
  <2> QED
    BY <2>1, <2>2, MarkerKept
<1>6. ASSUME NEW o \in Ops, AllRead(o), UNCHANGED interrupted PROVE OneMarker'
  <2>1. marked' \subseteq marked
    BY <1>6 DEF AllRead, RecoverOver
  <2>2. \A b \in Bootstraps : pc'[b] \in {"clear", "mark"} =>
          pc'[b] = pc[b] /\ todo'[b] = todo[b] /\ candidate'[b] = candidate[b]
    BY <1>6 DEF AllRead, RecoverOver
  <2> QED
    BY <2>1, <2>2, MarkerKept
<1>7. ASSUME NEW o \in Ops, ScaleUp(o), UNCHANGED interrupted PROVE OneMarker'
  <2>1. marked' \subseteq marked
    BY <1>7, ScaleUpIs
  <2>2. \A b \in Bootstraps : pc'[b] \in {"clear", "mark"} =>
          pc'[b] = pc[b] /\ todo'[b] = todo[b] /\ candidate'[b] = candidate[b]
    BY <1>7, ScaleUpIs
  <2> QED
    BY <2>1, <2>2, MarkerKept
<1>8. ASSUME NEW o \in Ops, Resume(o), UNCHANGED interrupted PROVE OneMarker'
  <2>1. marked' \subseteq marked
    BY <1>8, ResumeIs
  <2>2. \A b \in Bootstraps : pc'[b] \in {"clear", "mark"} =>
          pc'[b] = pc[b] /\ todo'[b] = todo[b] /\ candidate'[b] = candidate[b]
    BY <1>8, ResumeIs
  <2> QED
    BY <2>1, <2>2, MarkerKept
<1>9. ASSUME NEW o \in Ops, Unlock(o), UNCHANGED interrupted PROVE OneMarker'
  <2>1. marked' \subseteq marked
    BY <1>9, UnlockIs
  <2>2. \A b \in Bootstraps : pc'[b] \in {"clear", "mark"} =>
          pc'[b] = pc[b] /\ todo'[b] = todo[b] /\ candidate'[b] = candidate[b]
    BY <1>9, UnlockIs
  <2> QED
    BY <2>1, <2>2, MarkerKept
<1>10. ASSUME NEW o \in Ops, CheckLock(o), UNCHANGED interrupted PROVE OneMarker'
  <2>1. marked' \subseteq marked
    BY <1>10 DEF CheckLock
  <2>2. \A b \in Bootstraps : pc'[b] \in {"clear", "mark"} =>
          pc'[b] = pc[b] /\ todo'[b] = todo[b] /\ candidate'[b] = candidate[b]
    BY <1>10 DEF CheckLock
  <2> QED
    BY <2>1, <2>2, MarkerKept
<1>11. ASSUME NEW o \in Ops, Gates(o), UNCHANGED interrupted PROVE OneMarker'
  <2>1. marked' \subseteq marked
    BY <1>11 DEF Gates
  <2>2. \A b \in Bootstraps : pc'[b] \in {"clear", "mark"} =>
          pc'[b] = pc[b] /\ todo'[b] = todo[b] /\ candidate'[b] = candidate[b]
    BY <1>11 DEF Gates
  <2> QED
    BY <2>1, <2>2, MarkerKept
<1>12. ASSUME NEW o \in Ops, BootSuspend(o), UNCHANGED interrupted PROVE OneMarker'
  <2>1. marked' \subseteq marked
    BY <1>12, BootSuspendIs
  <2>2. \A b \in Bootstraps : pc'[b] \in {"clear", "mark"} =>
          pc'[b] = pc[b] /\ todo'[b] = todo[b] /\ candidate'[b] = candidate[b]
    BY <1>12, BootSuspendIs
  <2> QED
    BY <2>1, <2>2, MarkerKept
<1>13. ASSUME NEW o \in Ops, BootLock(o), UNCHANGED interrupted PROVE OneMarker'
  <2>1. marked' \subseteq marked
    BY <1>13, BootLockIs
  <2>2. \A b \in Bootstraps : pc'[b] \in {"clear", "mark"} =>
          pc'[b] = pc[b] /\ todo'[b] = todo[b] /\ candidate'[b] = candidate[b]
    BY <1>13, BootLockIs
  <2> QED
    BY <2>1, <2>2, MarkerKept
<1>14. ASSUME NEW o \in Ops, BootScaleDown(o), UNCHANGED interrupted PROVE OneMarker'
  <2>1. marked' \subseteq marked
    BY <1>14, BootScaleDownIs
  <2>2. \A b \in Bootstraps : pc'[b] \in {"clear", "mark"} =>
          pc'[b] = pc[b] /\ todo'[b] = todo[b] /\ candidate'[b] = candidate[b]
    BY <1>14, BootScaleDownIs
  <2> QED
    BY <2>1, <2>2, MarkerKept
<1>15. ASSUME NEW o \in Ops, BootWait(o), UNCHANGED interrupted PROVE OneMarker'
  <2>1. marked' \subseteq marked
    BY <1>15 DEF BootWait
  <2>2. \A b \in Bootstraps : pc'[b] \in {"clear", "mark"} =>
          pc'[b] = pc[b] /\ todo'[b] = todo[b] /\ candidate'[b] = candidate[b]
    BY <1>15 DEF BootWait
  <2> QED
    BY <2>1, <2>2, MarkerKept
<1>16. ASSUME NEW o \in Ops, Select(o), UNCHANGED interrupted PROVE OneMarker'
  <2>1. CASE pc' = [pc EXCEPT ![o] = "undoForce"] /\ UNCHANGED <<candidate, todo>>
    <3>1. marked' = marked
      BY <1>16, SelectIs
    <3>2. \A b \in Bootstraps : pc'[b] \in {"clear", "mark"} => pc'[b] = pc[b]
      BY <2>1
    <3> QED
      BY <2>1, <3>1, <3>2, MarkerKept
  <2>2. ASSUME NEW c \in Nodes, NEW behind \in SUBSET Nodes, pc' = [pc EXCEPT ![o] = "clear"],
               candidate' = [candidate EXCEPT ![o] = c],
               todo' = [todo EXCEPT ![o] = (marked \cup behind) \ {c}]
        PROVE  OneMarker'
    <3>1. marked' = marked /\ o \in Bootstraps
      BY <1>16, SelectIs
    <3>2. pc'[o] = "clear" /\ marked' \subseteq todo'[o] \cup {candidate'[o]}
      BY <2>2, <3>1
    <3>3. \A b \in Bootstraps \ {o} :
            pc'[b] = pc[b] /\ todo'[b] = todo[b] /\ candidate'[b] = candidate[b]
      BY <2>2
    <3>4. ASSUME NEW b \in Bootstraps
          PROVE  /\ pc'[b] = "clear" => marked' \subseteq todo'[b] \cup {candidate'[b]}
                 /\ pc'[b] = "mark" => marked' \subseteq {candidate'[b]}
      <4>1. CASE b = o
        BY <3>2, <4>1
      <4>2. CASE b # o
        BY <3>1, <3>3, <4>2 DEF OneMarker
      <4> QED
        BY <4>1, <4>2
    <3>5. \A m, n \in marked' : m = n
      BY <3>1 DEF OneMarker
    <3> QED
      BY <3>4, <3>5 DEF OneMarker
  <2> QED
    BY <1>16, <2>1, <2>2, SelectIs
<1>17. ASSUME NEW o \in Ops, StartClear(o), UNCHANGED interrupted PROVE OneMarker'
  <2>1. marked' = marked /\ todo' = todo /\ candidate' = candidate
    BY <1>17 DEF StartClear
  <2>2. \A b \in Bootstraps \ {o} : pc'[b] = pc[b]
    BY <1>17 DEF StartClear
  <2>3. \/ pc'[o] \notin {"clear", "mark"}
        \/ pc[o] = "clear" /\ (pc'[o] = "mark" => todo[o] = {})
        \/ pc'[o] = pc[o]
    BY <1>17 DEF StartClear
  <2> QED
    BY <2>1, <2>2, <2>3 DEF OneMarker
<1>18. ASSUME NEW o \in Ops, Mark(o), UNCHANGED interrupted PROVE OneMarker'
  <2>1. o \in Bootstraps /\ pc[o] = "mark" /\ marked' \subseteq marked \cup {candidate[o]}
    BY <1>18, MarkIs
  <2>2. marked' \subseteq {candidate[o]}
    BY <2>1 DEF OneMarker
  <2>3. \A b \in Bootstraps : pc'[b] \notin {"clear", "mark"}
    <3>1. pc'[o] \notin {"clear", "mark"}
      BY <1>18, MarkIs
    <3>2. \A b \in Bootstraps \ {o} : ~Active(b) /\ pc'[b] = pc[b]
      BY <1>18, <2>1, MarkIs DEF BootsAlone
    <3> QED
      BY <3>1, <3>2
  <2> QED
    BY <2>2, <2>3 DEF OneMarker
<1>19. ASSUME NEW o \in Ops, ForceInPod(o), UNCHANGED interrupted PROVE OneMarker'
  <2>1. marked' \subseteq marked
    BY <1>19, ForceInPodIs
  <2>2. \A b \in Bootstraps : pc'[b] \in {"clear", "mark"} =>
          pc'[b] = pc[b] /\ todo'[b] = todo[b] /\ candidate'[b] = candidate[b]
    BY <1>19, ForceInPodIs
  <2> QED
    BY <2>1, <2>2, MarkerKept
<1>20. ASSUME NEW o \in Ops, BootScaleUp(o), UNCHANGED interrupted PROVE OneMarker'
  <2>1. marked' \subseteq marked
    BY <1>20, BootScaleUpIs
  <2>2. \A b \in Bootstraps : pc'[b] \in {"clear", "mark"} =>
          pc'[b] = pc[b] /\ todo'[b] = todo[b] /\ candidate'[b] = candidate[b]
    BY <1>20, BootScaleUpIs
  <2> QED
    BY <2>1, <2>2, MarkerKept
<1>21. ASSUME NEW o \in Ops, Await(o), UNCHANGED interrupted PROVE OneMarker'
  <2>1. marked' \subseteq marked
    BY <1>21 DEF Await
  <2>2. \A b \in Bootstraps : pc'[b] \in {"clear", "mark"} =>
          pc'[b] = pc[b] /\ todo'[b] = todo[b] /\ candidate'[b] = candidate[b]
    BY <1>21 DEF Await
  <2> QED
    BY <2>1, <2>2, MarkerKept
<1>22. ASSUME NEW o \in Ops, Unforce(o), UNCHANGED interrupted PROVE OneMarker'
  <2>1. marked' \subseteq marked
    BY <1>22, UnforceIs
  <2>2. \A b \in Bootstraps : pc'[b] \in {"clear", "mark"} =>
          pc'[b] = pc[b] /\ todo'[b] = todo[b] /\ candidate'[b] = candidate[b]
    BY <1>22, UnforceIs
  <2> QED
    BY <2>1, <2>2, MarkerKept
<1>23. ASSUME NEW o \in Ops, BootUnlock(o), UNCHANGED interrupted PROVE OneMarker'
  <2>1. marked' \subseteq marked
    BY <1>23, BootUnlockIs
  <2>2. \A b \in Bootstraps : pc'[b] \in {"clear", "mark"} =>
          pc'[b] = pc[b] /\ todo'[b] = todo[b] /\ candidate'[b] = candidate[b]
    BY <1>23, BootUnlockIs
  <2> QED
    BY <2>1, <2>2, MarkerKept
<1>24. ASSUME NEW o \in Ops, BootResume(o), UNCHANGED interrupted PROVE OneMarker'
  <2>1. marked' \subseteq marked
    BY <1>24, BootResumeIs
  <2>2. \A b \in Bootstraps : pc'[b] \in {"clear", "mark"} =>
          pc'[b] = pc[b] /\ todo'[b] = todo[b] /\ candidate'[b] = candidate[b]
    BY <1>24, BootResumeIs
  <2> QED
    BY <2>1, <2>2, MarkerKept
<1>25. ASSUME NEW o \in Ops, UndoForce(o), UNCHANGED interrupted PROVE OneMarker'
  <2>1. marked' \subseteq marked
    BY <1>25, UndoForceIs
  <2>2. \A b \in Bootstraps : pc'[b] \in {"clear", "mark"} =>
          pc'[b] = pc[b] /\ todo'[b] = todo[b] /\ candidate'[b] = candidate[b]
    BY <1>25, UndoForceIs
  <2> QED
    BY <2>1, <2>2, MarkerKept
<1>26. ASSUME NEW o \in Ops, UndoMark(o), UNCHANGED interrupted PROVE OneMarker'
  <2>1. marked' \subseteq marked
    BY <1>26, UndoMarkIs
  <2>2. \A b \in Bootstraps : pc'[b] \in {"clear", "mark"} =>
          pc'[b] = pc[b] /\ todo'[b] = todo[b] /\ candidate'[b] = candidate[b]
    BY <1>26, UndoMarkIs
  <2> QED
    BY <2>1, <2>2, MarkerKept
<1>27. ASSUME NEW o \in Ops, UndoLock(o), UNCHANGED interrupted PROVE OneMarker'
  <2>1. marked' \subseteq marked
    BY <1>27, UndoLockIs
  <2>2. \A b \in Bootstraps : pc'[b] \in {"clear", "mark"} =>
          pc'[b] = pc[b] /\ todo'[b] = todo[b] /\ candidate'[b] = candidate[b]
    BY <1>27, UndoLockIs
  <2> QED
    BY <2>1, <2>2, MarkerKept
<1>28. ASSUME NEW o \in Ops, UndoScale(o), UNCHANGED interrupted PROVE OneMarker'
  <2>1. marked' \subseteq marked
    BY <1>28, UndoScaleIs
  <2>2. \A b \in Bootstraps : pc'[b] \in {"clear", "mark"} =>
          pc'[b] = pc[b] /\ todo'[b] = todo[b] /\ candidate'[b] = candidate[b]
    BY <1>28, UndoScaleIs
  <2> QED
    BY <2>1, <2>2, MarkerKept
<1>29. ASSUME NEW o \in Ops, UndoResume(o), UNCHANGED interrupted PROVE OneMarker'
  <2>1. marked' \subseteq marked
    BY <1>29, UndoResumeIs
  <2>2. \A b \in Bootstraps : pc'[b] \in {"clear", "mark"} =>
          pc'[b] = pc[b] /\ todo'[b] = todo[b] /\ candidate'[b] = candidate[b]
    BY <1>29, UndoResumeIs
  <2> QED
    BY <2>1, <2>2, MarkerKept
<1>30. ASSUME NEW o \in Ops, NEW n \in Nodes, StartRecover(o, n), UNCHANGED interrupted
       PROVE  OneMarker'
  <2>1. marked' \subseteq marked
    BY <1>30 DEF StartRecover
  <2>2. \A b \in Bootstraps : pc'[b] \in {"clear", "mark"} =>
          pc'[b] = pc[b] /\ todo'[b] = todo[b] /\ candidate'[b] = candidate[b]
    BY <1>30 DEF StartRecover
  <2> QED
    BY <2>1, <2>2, MarkerKept
<1>31. ASSUME NEW o \in Ops, NEW n \in Nodes, ClearMarker(o, n), UNCHANGED interrupted
       PROVE  OneMarker'
  <2>1. marked' = marked \ {n} /\ todo' = [todo EXCEPT ![o] = @ \ {n}] /\ UNCHANGED <<pc, candidate>>
    BY <1>31 DEF ClearMarker
  <2>2. ASSUME NEW b \in Bootstraps, pc'[b] = "clear"
        PROVE  marked' \subseteq todo'[b] \cup {candidate'[b]}
    BY <2>1, <2>2 DEF OneMarker
  <2>3. ASSUME NEW b \in Bootstraps, pc'[b] = "mark" PROVE marked' \subseteq {candidate'[b]}
    BY <2>1, <2>3 DEF OneMarker
  <2> QED
    BY <2>1, <2>2, <2>3 DEF OneMarker
<1>32. ASSUME NEW o \in Ops, EndRecover(o), UNCHANGED interrupted PROVE OneMarker'
  <2>1. marked' \subseteq marked
    BY <1>32 DEF EndRecover
  <2>2. \A b \in Bootstraps : pc'[b] \in {"clear", "mark"} =>
          pc'[b] = pc[b] /\ todo'[b] = todo[b] /\ candidate'[b] = candidate[b]
    BY <1>32 DEF EndRecover
  <2> QED
    BY <2>1, <2>2, MarkerKept
<1>33. ASSUME NEW o \in Ops, Interrupt(o) PROVE OneMarker'
  <2>1. marked' \subseteq marked
    BY <1>33 DEF Interrupt
  <2>2. \A b \in Bootstraps : pc'[b] \in {"clear", "mark"} =>
          pc'[b] = pc[b] /\ todo'[b] = todo[b] /\ candidate'[b] = candidate[b]
    BY <1>33 DEF Interrupt
  <2> QED
    BY <2>1, <2>2, MarkerKept
<1>34. ASSUME NEW o \in Ops, Die(o) PROVE OneMarker'
  <2>1. marked' \subseteq marked
    BY <1>34 DEF Die
  <2>2. \A b \in Bootstraps : pc'[b] \in {"clear", "mark"} =>
          pc'[b] = pc[b] /\ todo'[b] = todo[b] /\ candidate'[b] = candidate[b]
    BY <1>34 DEF Die
  <2> QED
    BY <2>1, <2>2, MarkerKept
<1>35. ASSUME NEW o \in Ops, HelperExpires(o) PROVE OneMarker'
  <2>1. marked' \subseteq marked
    BY <1>35 DEF HelperExpires
  <2>2. \A b \in Bootstraps : pc'[b] \in {"clear", "mark"} =>
          pc'[b] = pc[b] /\ todo'[b] = todo[b] /\ candidate'[b] = candidate[b]
    BY <1>35 DEF HelperExpires
  <2> QED
    BY <2>1, <2>2, MarkerKept
<1>36. ASSUME LockExpires PROVE OneMarker'
  BY <1>36, MarkerKept DEF LockExpires, LockAges
<1>37. ASSUME OperatorScales, UNCHANGED <<interrupted, pc, locals>> PROVE OneMarker'
  BY <1>37, MarkerKept DEF OperatorScales
<1>38. ASSUME OperatorWrites, UNCHANGED <<interrupted, pc, locals>> PROVE OneMarker'
  BY <1>38, MarkerKept DEF OperatorWrites
<1>39. ASSUME NEW n \in Nodes, PodStarts(n), UNCHANGED <<interrupted, pc, locals>> PROVE OneMarker'
  BY <1>39, MarkerKept DEF PodStarts
<1>40. ASSUME NEW n \in Nodes, PodStops(n), UNCHANGED <<interrupted, pc, locals>> PROVE OneMarker'
  BY <1>40, MarkerKept DEF PodStops
<1>41. ASSUME NEW n \in Nodes, NodeFails(n), UNCHANGED <<interrupted, pc, locals>> PROVE OneMarker'
  BY <1>41, MarkerKept DEF NodeFails
<1>42. ASSUME NEW n \in Nodes, NodeServes(n), UNCHANGED <<interrupted, pc, locals>> PROVE OneMarker'
  BY <1>42, MarkerKept DEF NodeServes
<1>43. ASSUME UNCHANGED vars PROVE OneMarker'
  BY <1>43, MarkerKept DEF vars
<1> QED
  BY <1>1, <1>2, <1>3, <1>4, <1>5, <1>6, <1>7, <1>8, <1>9, <1>10, <1>11, <1>12, <1>13, <1>14,
     <1>15, <1>16, <1>17, <1>18, <1>19, <1>20, <1>21, <1>22, <1>23, <1>24, <1>25, <1>26,
     <1>27, <1>28, <1>29, <1>30, <1>31, <1>32, <1>33, <1>34, <1>35, <1>36, <1>37, <1>38,
     <1>39, <1>40, <1>41, <1>42, <1>43, StepCases


-----------------------------------------------------------------------------
(* The operator *)

\* Whoever suspends the operator owes its resumption until it tried.
LEMMA OwedNext ==
  ASSUME TypeOK, Phases, Owed, "suspend" \notin MayMislead, "resume" \notin MayFail, [Next]_vars
  PROVE  Owed'
<1> USE Given DEF TypeOK, ClusterTypeOK, Owed, Resumes, Active, Live, Fencing, Ended, Goto,
        resource, nodes, cluster, locals, vars
<1>1. ASSUME NEW o \in Ops, Gate(o), UNCHANGED interrupted PROVE Owed'
  <2>1. pc[o] = "idle" /\ pc'[o] \notin Fencing /\ UNCHANGED <<did, warned, operator>>
    BY <1>1 DEF Gate, MayBegin
  <2>2. \A p \in Ops \ {o} : pc'[p] = pc[p]
    BY <1>1 DEF Gate, MayBegin
  <2>3. \A p \in Ops : Resumes(p) => Resumes(p)'
    BY <2>1, <2>2
  <2>4. \A b \in Bootstraps : pc'[b] \in Fencing => pc'[b] = pc[b]
    BY <2>1, <2>2
  <2> QED
    BY <1>1, <2>1, <2>3, <2>4
<1>2. ASSUME NEW o \in Ops, Swap(o), UNCHANGED interrupted PROVE Owed'
  BY <1>2, SwapIs
<1>3. ASSUME NEW o \in Ops, Suspend(o), UNCHANGED interrupted PROVE Owed'
  BY <1>3, SuspendIs
<1>4. ASSUME NEW o \in Ops, ScaleDown(o), UNCHANGED interrupted PROVE Owed'
  BY <1>4, ScaleDownIs
<1>5. ASSUME NEW o \in Ops, Wait(o), UNCHANGED interrupted PROVE Owed'
  BY <1>5 DEF Wait
<1>6. ASSUME NEW o \in Ops, AllRead(o), UNCHANGED interrupted PROVE Owed'
  BY <1>6 DEF AllRead, RecoverOver
<1>7. ASSUME NEW o \in Ops, ScaleUp(o), UNCHANGED interrupted PROVE Owed'
  BY <1>7, ScaleUpIs
<1>8. ASSUME NEW o \in Ops, Resume(o), UNCHANGED interrupted PROVE Owed'
  <2>1. CASE operator' = "active"
    BY <1>8, <2>1, ResumeIs
  <2>2. CASE warned' = warned \cup {o}
    BY <1>8, <2>2, ResumeIs
  <2> QED
    BY <1>8, <2>1, <2>2, ResumeIs
<1>9. ASSUME NEW o \in Ops, Unlock(o), UNCHANGED interrupted PROVE Owed'
  BY <1>9, UnlockIs
<1>10. ASSUME NEW o \in Ops, CheckLock(o), UNCHANGED interrupted PROVE Owed'
  <2>1. pc[o] = "idle" /\ pc'[o] \notin Fencing /\ UNCHANGED <<did, warned, operator>>
    BY <1>10 DEF CheckLock, MayBegin
  <2>2. \A p \in Ops \ {o} : pc'[p] = pc[p]
    BY <1>10 DEF CheckLock, MayBegin
  <2>3. \A p \in Ops : Resumes(p) => Resumes(p)'
    BY <2>1, <2>2
  <2>4. \A b \in Bootstraps : pc'[b] \in Fencing => pc'[b] = pc[b]
    BY <2>1, <2>2
  <2> QED
    BY <1>10, <2>1, <2>3, <2>4
<1>11. ASSUME NEW o \in Ops, Gates(o), UNCHANGED interrupted PROVE Owed'
  BY <1>11 DEF Gates
<1>12. ASSUME NEW o \in Ops, BootSuspend(o), UNCHANGED interrupted PROVE Owed'
  BY <1>12, BootSuspendIs
<1>13. ASSUME NEW o \in Ops, BootLock(o), UNCHANGED interrupted PROVE Owed'
  BY <1>13, BootLockIs
<1>14. ASSUME NEW o \in Ops, BootScaleDown(o), UNCHANGED interrupted PROVE Owed'
  BY <1>14, BootScaleDownIs
<1>15. ASSUME NEW o \in Ops, BootWait(o), UNCHANGED interrupted PROVE Owed'
  BY <1>15 DEF BootWait
<1>16. ASSUME NEW o \in Ops, Select(o), UNCHANGED interrupted PROVE Owed'
  BY <1>16, SelectIs
<1>17. ASSUME NEW o \in Ops, StartClear(o), UNCHANGED interrupted PROVE Owed'
  BY <1>17 DEF StartClear
<1>18. ASSUME NEW o \in Ops, Mark(o), UNCHANGED interrupted PROVE Owed'
  BY <1>18, MarkIs
<1>19. ASSUME NEW o \in Ops, ForceInPod(o), UNCHANGED interrupted PROVE Owed'
  BY <1>19, ForceInPodIs
<1>20. ASSUME NEW o \in Ops, BootScaleUp(o), UNCHANGED interrupted PROVE Owed'
  BY <1>20, BootScaleUpIs
<1>21. ASSUME NEW o \in Ops, Await(o), UNCHANGED interrupted PROVE Owed'
  BY <1>21 DEF Await
<1>22. ASSUME NEW o \in Ops, Unforce(o), UNCHANGED interrupted PROVE Owed'
  BY <1>22, UnforceIs
<1>23. ASSUME NEW o \in Ops, BootUnlock(o), UNCHANGED interrupted PROVE Owed'
  BY <1>23, BootUnlockIs
<1>24. ASSUME NEW o \in Ops, BootResume(o), UNCHANGED interrupted PROVE Owed'
  BY <1>24, BootResumeIs
<1>25. ASSUME NEW o \in Ops, UndoForce(o), UNCHANGED interrupted PROVE Owed'
  BY <1>25, UndoForceIs
<1>26. ASSUME NEW o \in Ops, UndoMark(o), UNCHANGED interrupted PROVE Owed'
  BY <1>26, UndoMarkIs
<1>27. ASSUME NEW o \in Ops, UndoLock(o), UNCHANGED interrupted PROVE Owed'
  BY <1>27, UndoLockIs
<1>28. ASSUME NEW o \in Ops, UndoScale(o), UNCHANGED interrupted PROVE Owed'
  BY <1>28, UndoScaleIs
<1>29. ASSUME NEW o \in Ops, UndoResume(o), UNCHANGED interrupted PROVE Owed'
  BY <1>29, UndoResumeIs
<1>30. ASSUME NEW o \in Ops, NEW n \in Nodes, StartRecover(o, n), UNCHANGED interrupted PROVE Owed'
  BY <1>30 DEF StartRecover
<1>31. ASSUME NEW o \in Ops, NEW n \in Nodes, ClearMarker(o, n), UNCHANGED interrupted PROVE Owed'
  BY <1>31 DEF ClearMarker
<1>32. ASSUME NEW o \in Ops, EndRecover(o), UNCHANGED interrupted PROVE Owed'
  BY <1>32 DEF EndRecover
<1>33. ASSUME NEW o \in Ops, Interrupt(o) PROVE Owed'
  BY <1>33 DEF Interrupt
<1>34. ASSUME NEW o \in Ops, Die(o) PROVE Owed'
  BY <1>34 DEF Die
<1>35. ASSUME NEW o \in Ops, HelperExpires(o) PROVE Owed'
  BY <1>35 DEF HelperExpires
<1>36. ASSUME LockExpires PROVE Owed'
  BY <1>36 DEF LockExpires, LockAges
<1>37. ASSUME OperatorScales, UNCHANGED <<interrupted, pc, locals>> PROVE Owed'
  BY <1>37 DEF OperatorScales
<1>38. ASSUME OperatorWrites, UNCHANGED <<interrupted, pc, locals>> PROVE Owed'
  BY <1>38 DEF OperatorWrites
<1>39. ASSUME NEW n \in Nodes, PodStarts(n), UNCHANGED <<interrupted, pc, locals>> PROVE Owed'
  BY <1>39 DEF PodStarts
<1>40. ASSUME NEW n \in Nodes, PodStops(n), UNCHANGED <<interrupted, pc, locals>> PROVE Owed'
  BY <1>40 DEF PodStops
<1>41. ASSUME NEW n \in Nodes, NodeFails(n), UNCHANGED <<interrupted, pc, locals>> PROVE Owed'
  BY <1>41 DEF NodeFails
<1>42. ASSUME NEW n \in Nodes, NodeServes(n), UNCHANGED <<interrupted, pc, locals>> PROVE Owed'
  BY <1>42 DEF NodeServes
<1>43. ASSUME UNCHANGED vars PROVE Owed'
  BY <1>43 DEF vars
<1> QED
  BY <1>1, <1>2, <1>3, <1>4, <1>5, <1>6, <1>7, <1>8, <1>9, <1>10, <1>11, <1>12, <1>13, <1>14,
     <1>15, <1>16, <1>17, <1>18, <1>19, <1>20, <1>21, <1>22, <1>23, <1>24, <1>25, <1>26,
     <1>27, <1>28, <1>29, <1>30, <1>31, <1>32, <1>33, <1>34, <1>35, <1>36, <1>37, <1>38,
     <1>39, <1>40, <1>41, <1>42, <1>43, StepCases


-----------------------------------------------------------------------------
(* What rescue() takes back *)

\* While an operation is at work or begins, no bootstrap beside it is.
LEMMA NoOtherBoots ==
  ASSUME TypeOK, BootsAlone, Overlap \subseteq Recovers, NEW o \in Ops, Active(o) \/ MayBegin(o)
  PROVE  \A p \in Bootstraps \ {o} : pc[p] \in {"idle"} \cup Ended
  BY Given DEF BootsAlone, Active, MayBegin

\* A bootstrap that rests has nothing to take back.
LEMMA OthersUndo ==
  ASSUME NEW o \in Ops, NEW p \in Bootstraps \ {o}, OneBootOrForces, UndoesFor(p),
         pc[p] \in {"idle"} \cup Ended, forced' = forced \/ o \in Bootstraps,
         pc'[p] = pc[p], candidate'[p] = candidate[p], did'[p] = did[p]
  PROVE  UndoesFor(p)'
<1>1. CASE pc[p] = "idle"
  BY <1>1 DEF OneBootOrForces, UndoesFor, Undoing, BeforeChoice
<1>2. CASE pc[p] \in Ended
  BY <1>2 DEF Ended, UndoesFor, Undoing, BeforeChoice
<1> QED
  BY <1>1, <1>2

\* What rescue() has to take back it knows of, and takes back while the operator is suspended.
LEMMA UndoesNext ==
  ASSUME TypeOK, Chosen, Phases, BootsAlone, Undoes, OneBootOrForces, Overlap \subseteq Recovers,
         "unforce" \notin MayFail, "helper" \notin MayFail, "force" \notin MayMislead, [Next]_vars
  PROVE  Undoes'
<1> USE Given DEF TypeOK, ClusterTypeOK, Undoes, UndoesFor, Undoing, BeforeChoice, Active, Live,
        Fencing, Ended, Goto, resource, nodes, cluster, locals, vars
<1>1. ASSUME NEW o \in Ops, Gate(o), UNCHANGED interrupted PROVE Undoes'
  <2>1. Active(o) \/ MayBegin(o)
    BY <1>1 DEF Gate
  <2>2. \A p \in Bootstraps \ {o} : pc[p] \in {"idle"} \cup Ended
    BY <2>1, NoOtherBoots
  <2>3. \A p \in Bootstraps \ {o} :
          pc'[p] = pc[p] /\ candidate'[p] = candidate[p] /\ did'[p] = did[p]
    BY <1>1 DEF Gate
  <2>4. forced' = forced \/ o \in Bootstraps
    BY <1>1, PhaseOwner DEF Gate
  <2>5. o \in Bootstraps => UndoesFor(o)'
    BY <1>1 DEF Gate
  <2> QED
    BY <2>2, <2>3, <2>4, <2>5, OthersUndo
<1>2. ASSUME NEW o \in Ops, Swap(o), UNCHANGED interrupted PROVE Undoes'
  <2>1. Active(o) \/ MayBegin(o)
    BY <1>2, SwapIs
  <2>2. \A p \in Bootstraps \ {o} : pc[p] \in {"idle"} \cup Ended
    BY <2>1, NoOtherBoots
  <2>3. \A p \in Bootstraps \ {o} :
          pc'[p] = pc[p] /\ candidate'[p] = candidate[p] /\ did'[p] = did[p]
    BY <1>2, SwapIs
  <2>4. forced' = forced \/ o \in Bootstraps
    BY <1>2, SwapIs, PhaseOwner
  <2>5. o \in Bootstraps => UndoesFor(o)'
    BY <1>2, SwapIs, PhaseOwner
  <2> QED
    BY <2>2, <2>3, <2>4, <2>5, OthersUndo
<1>3. ASSUME NEW o \in Ops, Suspend(o), UNCHANGED interrupted PROVE Undoes'
  <2>1. Active(o) \/ MayBegin(o)
    BY <1>3, SuspendIs
  <2>2. \A p \in Bootstraps \ {o} : pc[p] \in {"idle"} \cup Ended
    BY <2>1, NoOtherBoots
  <2>3. \A p \in Bootstraps \ {o} :
          pc'[p] = pc[p] /\ candidate'[p] = candidate[p] /\ did'[p] = did[p]
    BY <1>3, SuspendIs
  <2>4. forced' = forced \/ o \in Bootstraps
    BY <1>3, SuspendIs, PhaseOwner
  <2>5. o \in Bootstraps => UndoesFor(o)'
    BY <1>3, SuspendIs
  <2> QED
    BY <2>2, <2>3, <2>4, <2>5, OthersUndo
<1>4. ASSUME NEW o \in Ops, ScaleDown(o), UNCHANGED interrupted PROVE Undoes'
  <2>1. Active(o) \/ MayBegin(o)
    BY <1>4, ScaleDownIs
  <2>2. \A p \in Bootstraps \ {o} : pc[p] \in {"idle"} \cup Ended
    BY <2>1, NoOtherBoots
  <2>3. \A p \in Bootstraps \ {o} :
          pc'[p] = pc[p] /\ candidate'[p] = candidate[p] /\ did'[p] = did[p]
    BY <1>4, ScaleDownIs
  <2>4. forced' = forced \/ o \in Bootstraps
    BY <1>4, ScaleDownIs, PhaseOwner
  <2>5. o \in Bootstraps => UndoesFor(o)'
    BY <1>4, ScaleDownIs
  <2> QED
    BY <2>2, <2>3, <2>4, <2>5, OthersUndo
<1>5. ASSUME NEW o \in Ops, Wait(o), UNCHANGED interrupted PROVE Undoes'
  <2>1. Active(o) \/ MayBegin(o)
    BY <1>5 DEF Wait
  <2>2. \A p \in Bootstraps \ {o} : pc[p] \in {"idle"} \cup Ended
    BY <2>1, NoOtherBoots
  <2>3. \A p \in Bootstraps \ {o} :
          pc'[p] = pc[p] /\ candidate'[p] = candidate[p] /\ did'[p] = did[p]
    BY <1>5 DEF Wait
  <2>4. forced' = forced \/ o \in Bootstraps
    BY <1>5, PhaseOwner DEF Wait
  <2>5. o \in Bootstraps => UndoesFor(o)'
    BY <1>5 DEF Wait
  <2> QED
    BY <2>2, <2>3, <2>4, <2>5, OthersUndo
<1>6. ASSUME NEW o \in Ops, AllRead(o), UNCHANGED interrupted PROVE Undoes'
  <2>1. Active(o) \/ MayBegin(o)
    BY <1>6 DEF AllRead, RecoverOver
  <2>2. \A p \in Bootstraps \ {o} : pc[p] \in {"idle"} \cup Ended
    BY <2>1, NoOtherBoots
  <2>3. \A p \in Bootstraps \ {o} :
          pc'[p] = pc[p] /\ candidate'[p] = candidate[p] /\ did'[p] = did[p]
    BY <1>6 DEF AllRead, RecoverOver
  <2>4. forced' = forced \/ o \in Bootstraps
    BY <1>6, PhaseOwner DEF AllRead, RecoverOver
  <2>5. o \in Bootstraps => UndoesFor(o)'
    BY <1>6 DEF AllRead, RecoverOver
  <2> QED
    BY <2>2, <2>3, <2>4, <2>5, OthersUndo
<1>7. ASSUME NEW o \in Ops, ScaleUp(o), UNCHANGED interrupted PROVE Undoes'
  <2>1. Active(o) \/ MayBegin(o)
    BY <1>7, ScaleUpIs
  <2>2. \A p \in Bootstraps \ {o} : pc[p] \in {"idle"} \cup Ended
    BY <2>1, NoOtherBoots
  <2>3. \A p \in Bootstraps \ {o} :
          pc'[p] = pc[p] /\ candidate'[p] = candidate[p] /\ did'[p] = did[p]
    BY <1>7, ScaleUpIs
  <2>4. forced' = forced \/ o \in Bootstraps
    BY <1>7, ScaleUpIs, PhaseOwner
  <2>5. o \in Bootstraps => UndoesFor(o)'
    BY <1>7, ScaleUpIs
  <2> QED
    BY <2>2, <2>3, <2>4, <2>5, OthersUndo
<1>8. ASSUME NEW o \in Ops, Resume(o), UNCHANGED interrupted PROVE Undoes'
  <2>1. Active(o) \/ MayBegin(o)
    BY <1>8, ResumeIs
  <2>2. \A p \in Bootstraps \ {o} : pc[p] \in {"idle"} \cup Ended
    BY <2>1, NoOtherBoots
  <2>3. \A p \in Bootstraps \ {o} :
          pc'[p] = pc[p] /\ candidate'[p] = candidate[p] /\ did'[p] = did[p]
    BY <1>8, ResumeIs
  <2>4. forced' = forced \/ o \in Bootstraps
    BY <1>8, ResumeIs, PhaseOwner
  <2>5. o \in Bootstraps => UndoesFor(o)'
    BY <1>8, ResumeIs
  <2> QED
    BY <2>2, <2>3, <2>4, <2>5, OthersUndo
<1>9. ASSUME NEW o \in Ops, Unlock(o), UNCHANGED interrupted PROVE Undoes'
  <2>1. Active(o) \/ MayBegin(o)
    BY <1>9, UnlockIs
  <2>2. \A p \in Bootstraps \ {o} : pc[p] \in {"idle"} \cup Ended
    BY <2>1, NoOtherBoots
  <2>3. \A p \in Bootstraps \ {o} :
          pc'[p] = pc[p] /\ candidate'[p] = candidate[p] /\ did'[p] = did[p]
    BY <1>9, UnlockIs
  <2>4. forced' = forced \/ o \in Bootstraps
    BY <1>9, UnlockIs, PhaseOwner
  <2>5. o \in Bootstraps => UndoesFor(o)'
    BY <1>9, UnlockIs
  <2> QED
    BY <2>2, <2>3, <2>4, <2>5, OthersUndo
<1>10. ASSUME NEW o \in Ops, CheckLock(o), UNCHANGED interrupted PROVE Undoes'
  <2>1. Active(o) \/ MayBegin(o)
    BY <1>10 DEF CheckLock
  <2>2. \A p \in Bootstraps \ {o} : pc[p] \in {"idle"} \cup Ended
    BY <2>1, NoOtherBoots
  <2>3. \A p \in Bootstraps \ {o} :
          pc'[p] = pc[p] /\ candidate'[p] = candidate[p] /\ did'[p] = did[p]
    BY <1>10 DEF CheckLock
  <2>4. forced' = forced \/ o \in Bootstraps
    BY <1>10, PhaseOwner DEF CheckLock
  <2>5. o \in Bootstraps => UndoesFor(o)'
    BY <1>10 DEF CheckLock, MayBegin
  <2> QED
    BY <2>2, <2>3, <2>4, <2>5, OthersUndo
<1>11. ASSUME NEW o \in Ops, Gates(o), UNCHANGED interrupted PROVE Undoes'
  <2>1. Active(o) \/ MayBegin(o)
    BY <1>11 DEF Gates
  <2>2. \A p \in Bootstraps \ {o} : pc[p] \in {"idle"} \cup Ended
    BY <2>1, NoOtherBoots
  <2>3. \A p \in Bootstraps \ {o} :
          pc'[p] = pc[p] /\ candidate'[p] = candidate[p] /\ did'[p] = did[p]
    BY <1>11 DEF Gates
  <2>4. forced' = forced \/ o \in Bootstraps
    BY <1>11, PhaseOwner DEF Gates
  <2>5. o \in Bootstraps => UndoesFor(o)'
    BY <1>11 DEF Gates
  <2> QED
    BY <2>2, <2>3, <2>4, <2>5, OthersUndo
<1>12. ASSUME NEW o \in Ops, BootSuspend(o), UNCHANGED interrupted PROVE Undoes'
  <2>1. Active(o) \/ MayBegin(o)
    BY <1>12, BootSuspendIs
  <2>2. \A p \in Bootstraps \ {o} : pc[p] \in {"idle"} \cup Ended
    BY <2>1, NoOtherBoots
  <2>3. \A p \in Bootstraps \ {o} :
          pc'[p] = pc[p] /\ candidate'[p] = candidate[p] /\ did'[p] = did[p]
    BY <1>12, BootSuspendIs
  <2>4. forced' = forced \/ o \in Bootstraps
    BY <1>12, BootSuspendIs, PhaseOwner
  <2>5. o \in Bootstraps => UndoesFor(o)'
    BY <1>12, BootSuspendIs
  <2> QED
    BY <2>2, <2>3, <2>4, <2>5, OthersUndo
<1>13. ASSUME NEW o \in Ops, BootLock(o), UNCHANGED interrupted PROVE Undoes'
  <2>1. Active(o) \/ MayBegin(o)
    BY <1>13, BootLockIs
  <2>2. \A p \in Bootstraps \ {o} : pc[p] \in {"idle"} \cup Ended
    BY <2>1, NoOtherBoots
  <2>3. \A p \in Bootstraps \ {o} :
          pc'[p] = pc[p] /\ candidate'[p] = candidate[p] /\ did'[p] = did[p]
    BY <1>13, BootLockIs
  <2>4. forced' = forced \/ o \in Bootstraps
    BY <1>13, BootLockIs, PhaseOwner
  <2>5. o \in Bootstraps => UndoesFor(o)'
    BY <1>13, BootLockIs
  <2> QED
    BY <2>2, <2>3, <2>4, <2>5, OthersUndo
<1>14. ASSUME NEW o \in Ops, BootScaleDown(o), UNCHANGED interrupted PROVE Undoes'
  <2>1. Active(o) \/ MayBegin(o)
    BY <1>14, BootScaleDownIs
  <2>2. \A p \in Bootstraps \ {o} : pc[p] \in {"idle"} \cup Ended
    BY <2>1, NoOtherBoots
  <2>3. \A p \in Bootstraps \ {o} :
          pc'[p] = pc[p] /\ candidate'[p] = candidate[p] /\ did'[p] = did[p]
    BY <1>14, BootScaleDownIs
  <2>4. forced' = forced \/ o \in Bootstraps
    BY <1>14, BootScaleDownIs, PhaseOwner
  <2>5. o \in Bootstraps => UndoesFor(o)'
    BY <1>14, BootScaleDownIs
  <2> QED
    BY <2>2, <2>3, <2>4, <2>5, OthersUndo
<1>15. ASSUME NEW o \in Ops, BootWait(o), UNCHANGED interrupted PROVE Undoes'
  <2>1. Active(o) \/ MayBegin(o)
    BY <1>15 DEF BootWait
  <2>2. \A p \in Bootstraps \ {o} : pc[p] \in {"idle"} \cup Ended
    BY <2>1, NoOtherBoots
  <2>3. \A p \in Bootstraps \ {o} :
          pc'[p] = pc[p] /\ candidate'[p] = candidate[p] /\ did'[p] = did[p]
    BY <1>15 DEF BootWait
  <2>4. forced' = forced \/ o \in Bootstraps
    BY <1>15, PhaseOwner DEF BootWait
  <2>5. o \in Bootstraps => UndoesFor(o)'
    BY <1>15 DEF BootWait
  <2> QED
    BY <2>2, <2>3, <2>4, <2>5, OthersUndo
<1>16. ASSUME NEW o \in Ops, Select(o), UNCHANGED interrupted PROVE Undoes'
  <2>1. Active(o) \/ MayBegin(o)
    BY <1>16, SelectIs
  <2>2. \A p \in Bootstraps \ {o} : pc[p] \in {"idle"} \cup Ended
    BY <2>1, NoOtherBoots
  <2>3. \A p \in Bootstraps \ {o} :
          pc'[p] = pc[p] /\ candidate'[p] = candidate[p] /\ did'[p] = did[p]
    BY <1>16, SelectIs
  <2>4. forced' = forced \/ o \in Bootstraps
    BY <1>16, SelectIs, PhaseOwner
  <2>5. o \in Bootstraps => UndoesFor(o)'
    BY <1>16, SelectIs
  <2> QED
    BY <2>2, <2>3, <2>4, <2>5, OthersUndo
<1>17. ASSUME NEW o \in Ops, StartClear(o), UNCHANGED interrupted PROVE Undoes'
  <2>1. Active(o) \/ MayBegin(o)
    BY <1>17 DEF StartClear
  <2>2. \A p \in Bootstraps \ {o} : pc[p] \in {"idle"} \cup Ended
    BY <2>1, NoOtherBoots
  <2>3. \A p \in Bootstraps \ {o} :
          pc'[p] = pc[p] /\ candidate'[p] = candidate[p] /\ did'[p] = did[p]
    BY <1>17 DEF StartClear
  <2>4. forced' = forced \/ o \in Bootstraps
    BY <1>17, PhaseOwner DEF StartClear
  <2>5. o \in Bootstraps => UndoesFor(o)'
    BY <1>17 DEF StartClear
  <2> QED
    BY <2>2, <2>3, <2>4, <2>5, OthersUndo
<1>18. ASSUME NEW o \in Ops, Mark(o), UNCHANGED interrupted PROVE Undoes'
  <2>1. Active(o) \/ MayBegin(o)
    BY <1>18, MarkIs
  <2>2. \A p \in Bootstraps \ {o} : pc[p] \in {"idle"} \cup Ended
    BY <2>1, NoOtherBoots
  <2>3. \A p \in Bootstraps \ {o} :
          pc'[p] = pc[p] /\ candidate'[p] = candidate[p] /\ did'[p] = did[p]
    BY <1>18, MarkIs
  <2>4. forced' = forced \/ o \in Bootstraps
    BY <1>18, MarkIs, PhaseOwner
  <2>5. o \in Bootstraps => UndoesFor(o)'
    BY <1>18, MarkIs
  <2> QED
    BY <2>2, <2>3, <2>4, <2>5, OthersUndo
<1>19. ASSUME NEW o \in Ops, ForceInPod(o), UNCHANGED interrupted PROVE Undoes'
  <2>1. Active(o) \/ MayBegin(o)
    BY <1>19, ForceInPodIs
  <2>2. \A p \in Bootstraps \ {o} : pc[p] \in {"idle"} \cup Ended
    BY <2>1, NoOtherBoots
  <2>3. \A p \in Bootstraps \ {o} :
          pc'[p] = pc[p] /\ candidate'[p] = candidate[p] /\ did'[p] = did[p]
    BY <1>19, ForceInPodIs
  <2>4. forced' = forced \/ o \in Bootstraps
    BY <1>19, ForceInPodIs, PhaseOwner
  <2>5. o \in Bootstraps => UndoesFor(o)'
    BY <1>19, ForceInPodIs
  <2> QED
    BY <2>2, <2>3, <2>4, <2>5, OthersUndo
<1>20. ASSUME NEW o \in Ops, BootScaleUp(o), UNCHANGED interrupted PROVE Undoes'
  <2>1. Active(o) \/ MayBegin(o)
    BY <1>20, BootScaleUpIs
  <2>2. \A p \in Bootstraps \ {o} : pc[p] \in {"idle"} \cup Ended
    BY <2>1, NoOtherBoots
  <2>3. \A p \in Bootstraps \ {o} :
          pc'[p] = pc[p] /\ candidate'[p] = candidate[p] /\ did'[p] = did[p]
    BY <1>20, BootScaleUpIs
  <2>4. forced' = forced \/ o \in Bootstraps
    BY <1>20, BootScaleUpIs, PhaseOwner
  <2>5. o \in Bootstraps => UndoesFor(o)'
    BY <1>20, BootScaleUpIs
  <2> QED
    BY <2>2, <2>3, <2>4, <2>5, OthersUndo
<1>21. ASSUME NEW o \in Ops, Await(o), UNCHANGED interrupted PROVE Undoes'
  <2>1. Active(o) \/ MayBegin(o)
    BY <1>21 DEF Await
  <2>2. \A p \in Bootstraps \ {o} : pc[p] \in {"idle"} \cup Ended
    BY <2>1, NoOtherBoots
  <2>3. \A p \in Bootstraps \ {o} :
          pc'[p] = pc[p] /\ candidate'[p] = candidate[p] /\ did'[p] = did[p]
    BY <1>21 DEF Await
  <2>4. forced' = forced \/ o \in Bootstraps
    BY <1>21, PhaseOwner DEF Await
  <2>5. o \in Bootstraps => UndoesFor(o)'
    BY <1>21 DEF Await
  <2> QED
    BY <2>2, <2>3, <2>4, <2>5, OthersUndo
<1>22. ASSUME NEW o \in Ops, Unforce(o), UNCHANGED interrupted PROVE Undoes'
  <2>1. Active(o) \/ MayBegin(o)
    BY <1>22, UnforceIs
  <2>2. \A p \in Bootstraps \ {o} : pc[p] \in {"idle"} \cup Ended
    BY <2>1, NoOtherBoots
  <2>3. \A p \in Bootstraps \ {o} :
          pc'[p] = pc[p] /\ candidate'[p] = candidate[p] /\ did'[p] = did[p]
    BY <1>22, UnforceIs
  <2>4. forced' = forced \/ o \in Bootstraps
    BY <1>22, UnforceIs, PhaseOwner
  <2>5. o \in Bootstraps => UndoesFor(o)'
    BY <1>22, UnforceIs
  <2> QED
    BY <2>2, <2>3, <2>4, <2>5, OthersUndo
<1>23. ASSUME NEW o \in Ops, BootUnlock(o), UNCHANGED interrupted PROVE Undoes'
  <2>1. Active(o) \/ MayBegin(o)
    BY <1>23, BootUnlockIs
  <2>2. \A p \in Bootstraps \ {o} : pc[p] \in {"idle"} \cup Ended
    BY <2>1, NoOtherBoots
  <2>3. \A p \in Bootstraps \ {o} :
          pc'[p] = pc[p] /\ candidate'[p] = candidate[p] /\ did'[p] = did[p]
    BY <1>23, BootUnlockIs
  <2>4. forced' = forced \/ o \in Bootstraps
    BY <1>23, BootUnlockIs, PhaseOwner
  <2>5. o \in Bootstraps => UndoesFor(o)'
    BY <1>23, BootUnlockIs
  <2> QED
    BY <2>2, <2>3, <2>4, <2>5, OthersUndo
<1>24. ASSUME NEW o \in Ops, BootResume(o), UNCHANGED interrupted PROVE Undoes'
  <2>1. Active(o) \/ MayBegin(o)
    BY <1>24, BootResumeIs
  <2>2. \A p \in Bootstraps \ {o} : pc[p] \in {"idle"} \cup Ended
    BY <2>1, NoOtherBoots
  <2>3. \A p \in Bootstraps \ {o} :
          pc'[p] = pc[p] /\ candidate'[p] = candidate[p] /\ did'[p] = did[p]
    BY <1>24, BootResumeIs
  <2>4. forced' = forced \/ o \in Bootstraps
    BY <1>24, BootResumeIs, PhaseOwner
  <2>5. o \in Bootstraps => UndoesFor(o)'
    BY <1>24, BootResumeIs
  <2> QED
    BY <2>2, <2>3, <2>4, <2>5, OthersUndo
<1>25. ASSUME NEW o \in Ops, UndoForce(o), UNCHANGED interrupted PROVE Undoes'
  <2>1. Active(o) \/ MayBegin(o)
    BY <1>25, UndoForceIs
  <2>2. \A p \in Bootstraps \ {o} : pc[p] \in {"idle"} \cup Ended
    BY <2>1, NoOtherBoots
  <2>3. \A p \in Bootstraps \ {o} :
          pc'[p] = pc[p] /\ candidate'[p] = candidate[p] /\ did'[p] = did[p]
    BY <1>25, UndoForceIs
  <2>4. forced' = forced \/ o \in Bootstraps
    BY <1>25, UndoForceIs, PhaseOwner
  <2>5. o \in Bootstraps => UndoesFor(o)'
    BY <1>25, UndoForceIs
  <2> QED
    BY <2>2, <2>3, <2>4, <2>5, OthersUndo
<1>26. ASSUME NEW o \in Ops, UndoMark(o), UNCHANGED interrupted PROVE Undoes'
  <2>1. Active(o) \/ MayBegin(o)
    BY <1>26, UndoMarkIs
  <2>2. \A p \in Bootstraps \ {o} : pc[p] \in {"idle"} \cup Ended
    BY <2>1, NoOtherBoots
  <2>3. \A p \in Bootstraps \ {o} :
          pc'[p] = pc[p] /\ candidate'[p] = candidate[p] /\ did'[p] = did[p]
    BY <1>26, UndoMarkIs
  <2>4. forced' = forced \/ o \in Bootstraps
    BY <1>26, UndoMarkIs, PhaseOwner
  <2>5. o \in Bootstraps => UndoesFor(o)'
    BY <1>26, UndoMarkIs
  <2> QED
    BY <2>2, <2>3, <2>4, <2>5, OthersUndo
<1>27. ASSUME NEW o \in Ops, UndoLock(o), UNCHANGED interrupted PROVE Undoes'
  <2>1. Active(o) \/ MayBegin(o)
    BY <1>27, UndoLockIs
  <2>2. \A p \in Bootstraps \ {o} : pc[p] \in {"idle"} \cup Ended
    BY <2>1, NoOtherBoots
  <2>3. \A p \in Bootstraps \ {o} :
          pc'[p] = pc[p] /\ candidate'[p] = candidate[p] /\ did'[p] = did[p]
    BY <1>27, UndoLockIs
  <2>4. forced' = forced \/ o \in Bootstraps
    BY <1>27, UndoLockIs, PhaseOwner
  <2>5. o \in Bootstraps => UndoesFor(o)'
    BY <1>27, UndoLockIs
  <2> QED
    BY <2>2, <2>3, <2>4, <2>5, OthersUndo
<1>28. ASSUME NEW o \in Ops, UndoScale(o), UNCHANGED interrupted PROVE Undoes'
  <2>1. Active(o) \/ MayBegin(o)
    BY <1>28, UndoScaleIs
  <2>2. \A p \in Bootstraps \ {o} : pc[p] \in {"idle"} \cup Ended
    BY <2>1, NoOtherBoots
  <2>3. \A p \in Bootstraps \ {o} :
          pc'[p] = pc[p] /\ candidate'[p] = candidate[p] /\ did'[p] = did[p]
    BY <1>28, UndoScaleIs
  <2>4. forced' = forced \/ o \in Bootstraps
    BY <1>28, UndoScaleIs, PhaseOwner
  <2>5. o \in Bootstraps => UndoesFor(o)'
    BY <1>28, UndoScaleIs
  <2> QED
    BY <2>2, <2>3, <2>4, <2>5, OthersUndo
<1>29. ASSUME NEW o \in Ops, UndoResume(o), UNCHANGED interrupted PROVE Undoes'
  <2>1. Active(o) \/ MayBegin(o)
    BY <1>29, UndoResumeIs
  <2>2. \A p \in Bootstraps \ {o} : pc[p] \in {"idle"} \cup Ended
    BY <2>1, NoOtherBoots
  <2>3. \A p \in Bootstraps \ {o} :
          pc'[p] = pc[p] /\ candidate'[p] = candidate[p] /\ did'[p] = did[p]
    BY <1>29, UndoResumeIs
  <2>4. forced' = forced \/ o \in Bootstraps
    BY <1>29, UndoResumeIs, PhaseOwner
  <2>5. o \in Bootstraps => UndoesFor(o)'
    BY <1>29, UndoResumeIs
  <2> QED
    BY <2>2, <2>3, <2>4, <2>5, OthersUndo
<1>30. ASSUME NEW o \in Ops, NEW n \in Nodes, StartRecover(o, n), UNCHANGED interrupted
       PROVE  Undoes'
  <2>1. Active(o) \/ MayBegin(o)
    BY <1>30 DEF StartRecover
  <2>2. \A p \in Bootstraps \ {o} : pc[p] \in {"idle"} \cup Ended
    BY <2>1, NoOtherBoots
  <2>3. \A p \in Bootstraps \ {o} :
          pc'[p] = pc[p] /\ candidate'[p] = candidate[p] /\ did'[p] = did[p]
    BY <1>30 DEF StartRecover
  <2>4. forced' = forced \/ o \in Bootstraps
    BY <1>30, PhaseOwner DEF StartRecover
  <2>5. o \in Bootstraps => UndoesFor(o)'
    BY <1>30 DEF StartRecover
  <2> QED
    BY <2>2, <2>3, <2>4, <2>5, OthersUndo
<1>31. ASSUME NEW o \in Ops, NEW n \in Nodes, ClearMarker(o, n), UNCHANGED interrupted PROVE Undoes'
  <2>1. Active(o) \/ MayBegin(o)
    BY <1>31 DEF ClearMarker
  <2>2. \A p \in Bootstraps \ {o} : pc[p] \in {"idle"} \cup Ended
    BY <2>1, NoOtherBoots
  <2>3. \A p \in Bootstraps \ {o} :
          pc'[p] = pc[p] /\ candidate'[p] = candidate[p] /\ did'[p] = did[p]
    BY <1>31 DEF ClearMarker
  <2>4. forced' = forced \/ o \in Bootstraps
    BY <1>31, PhaseOwner DEF ClearMarker
  <2>5. o \in Bootstraps => UndoesFor(o)'
    BY <1>31 DEF ClearMarker
  <2> QED
    BY <2>2, <2>3, <2>4, <2>5, OthersUndo
<1>32. ASSUME NEW o \in Ops, EndRecover(o), UNCHANGED interrupted PROVE Undoes'
  <2>1. Active(o) \/ MayBegin(o)
    BY <1>32 DEF EndRecover
  <2>2. \A p \in Bootstraps \ {o} : pc[p] \in {"idle"} \cup Ended
    BY <2>1, NoOtherBoots
  <2>3. \A p \in Bootstraps \ {o} :
          pc'[p] = pc[p] /\ candidate'[p] = candidate[p] /\ did'[p] = did[p]
    BY <1>32 DEF EndRecover
  <2>4. forced' = forced \/ o \in Bootstraps
    BY <1>32, PhaseOwner DEF EndRecover
  <2>5. o \in Bootstraps => UndoesFor(o)'
    BY <1>32 DEF EndRecover
  <2> QED
    BY <2>2, <2>3, <2>4, <2>5, OthersUndo
<1>33. ASSUME NEW o \in Ops, Interrupt(o) PROVE Undoes'
  BY <1>33 DEF Interrupt
<1>34. ASSUME NEW o \in Ops, Die(o) PROVE Undoes'
  BY <1>34 DEF Die
<1>35. ASSUME NEW o \in Ops, HelperExpires(o) PROVE Undoes'
  BY <1>35 DEF HelperExpires
<1>36. ASSUME LockExpires PROVE Undoes'
  BY <1>36 DEF LockExpires, LockAges
<1>37. ASSUME OperatorScales, UNCHANGED <<interrupted, pc, locals>> PROVE Undoes'
  BY <1>37 DEF OperatorScales
<1>38. ASSUME OperatorWrites, UNCHANGED <<interrupted, pc, locals>> PROVE Undoes'
  BY <1>38 DEF OperatorWrites
<1>39. ASSUME NEW n \in Nodes, PodStarts(n), UNCHANGED <<interrupted, pc, locals>> PROVE Undoes'
  BY <1>39 DEF PodStarts
<1>40. ASSUME NEW n \in Nodes, PodStops(n), UNCHANGED <<interrupted, pc, locals>> PROVE Undoes'
  BY <1>40 DEF PodStops
<1>41. ASSUME NEW n \in Nodes, NodeFails(n), UNCHANGED <<interrupted, pc, locals>> PROVE Undoes'
  BY <1>41 DEF NodeFails
<1>42. ASSUME NEW n \in Nodes, NodeServes(n), UNCHANGED <<interrupted, pc, locals>> PROVE Undoes'
  BY <1>42 DEF NodeServes
<1>43. ASSUME UNCHANGED vars PROVE Undoes'
  BY <1>43 DEF vars
<1> QED
  BY <1>1, <1>2, <1>3, <1>4, <1>5, <1>6, <1>7, <1>8, <1>9, <1>10, <1>11, <1>12, <1>13, <1>14,
     <1>15, <1>16, <1>17, <1>18, <1>19, <1>20, <1>21, <1>22, <1>23, <1>24, <1>25, <1>26,
     <1>27, <1>28, <1>29, <1>30, <1>31, <1>32, <1>33, <1>34, <1>35, <1>36, <1>37, <1>38,
     <1>39, <1>40, <1>41, <1>42, <1>43, StepCases

-----------------------------------------------------------------------------
(* The theorems *)

\* A cluster that nobody works on is as every invariant has it.
LEMMA FenceInit ==
  Init => TypeOK /\ Chosen /\ ExclusionInv /\ Fenced /\ OneMarker /\ Owed
<1> SUFFICES ASSUME Init PROVE TypeOK /\ Chosen /\ ExclusionInv /\ Fenced /\ OneMarker /\ Owed
  OBVIOUS
<1> USE Given DEF Init, ClusterInit
<1>1. TypeOK
  BY DEF TypeOK, ClusterTypeOK
<1>2. Chosen /\ ExclusionInv
  BY DEF Chosen, ExclusionInv, Phases, RecoverPhases, BootPhases, BootsAlone, Active, Locked,
     Fencing
<1>3. Fenced
  BY DEF Fenced, FencedFor, BootFencedFor, Active
<1>4. OneMarker
  BY DEF OneMarker
<1>5. Owed
  BY DEF Owed, Fencing
<1> QED
  BY <1>1, <1>2, <1>3, <1>4, <1>5

\* Whatever fails, overlaps or dies: every variable keeps its range, and nothing is marked
\* or cleared for a candidate that was not chosen.
THEOREM FenceTyped == Spec => [](TypeOK /\ Chosen)
<1>1. Init => TypeOK /\ Chosen
  BY FenceInit
<1>2. TypeOK /\ Chosen /\ [Next]_vars => (TypeOK /\ Chosen)'
  BY TypedNext, ChosenNext
<1> QED
  BY <1>1, <1>2, PTL DEF Spec

\* Where bootstraps run alone, a recovery at work holds the lock, and one that still may
\* take it would find it free: the compare-and-swap of AcquireFenceLock.
THEOREM FenceExclusion ==
  ASSUME Overlap \subseteq Recovers
  PROVE  Spec => []ExclusionInv
<1>1. Init => TypeOK /\ Chosen /\ ExclusionInv
  BY FenceInit
<1>2. TypeOK /\ Chosen /\ ExclusionInv /\ [Next]_vars => (TypeOK /\ Chosen /\ ExclusionInv)'
  BY TypedNext, ChosenNext, PhasesNext, BootsAloneNext, LockedNext DEF ExclusionInv
<1> QED
  BY <1>1, <1>2, PTL DEF Spec

\* A step moves one operation at most.
LEMMA OnePcMoves ==
  ASSUME TypeOK, [Next]_vars
  PROVE  \E a \in Ops \cup {NoOne} : \A p \in Ops \ {a} : pc'[p] = pc[p]
<1> USE Given DEF TypeOK, Goto, locals, vars
<1>1. ASSUME NEW o \in Ops, Gate(o), UNCHANGED interrupted
      PROVE  \E a \in Ops \cup {NoOne} : \A p \in Ops \ {a} : pc'[p] = pc[p]
  BY <1>1 DEF Gate, MayBegin
<1>2. ASSUME NEW o \in Ops, Swap(o), UNCHANGED interrupted
      PROVE  \E a \in Ops \cup {NoOne} : \A p \in Ops \ {a} : pc'[p] = pc[p]
  BY <1>2, SwapIs
<1>3. ASSUME NEW o \in Ops, Suspend(o), UNCHANGED interrupted
      PROVE  \E a \in Ops \cup {NoOne} : \A p \in Ops \ {a} : pc'[p] = pc[p]
  BY <1>3, SuspendIs
<1>4. ASSUME NEW o \in Ops, ScaleDown(o), UNCHANGED interrupted
      PROVE  \E a \in Ops \cup {NoOne} : \A p \in Ops \ {a} : pc'[p] = pc[p]
  BY <1>4, ScaleDownIs
<1>5. ASSUME NEW o \in Ops, Wait(o), UNCHANGED interrupted
      PROVE  \E a \in Ops \cup {NoOne} : \A p \in Ops \ {a} : pc'[p] = pc[p]
  BY <1>5 DEF Wait
<1>6. ASSUME NEW o \in Ops, AllRead(o), UNCHANGED interrupted
      PROVE  \E a \in Ops \cup {NoOne} : \A p \in Ops \ {a} : pc'[p] = pc[p]
  BY <1>6 DEF AllRead, RecoverOver
<1>7. ASSUME NEW o \in Ops, ScaleUp(o), UNCHANGED interrupted
      PROVE  \E a \in Ops \cup {NoOne} : \A p \in Ops \ {a} : pc'[p] = pc[p]
  BY <1>7, ScaleUpIs
<1>8. ASSUME NEW o \in Ops, Resume(o), UNCHANGED interrupted
      PROVE  \E a \in Ops \cup {NoOne} : \A p \in Ops \ {a} : pc'[p] = pc[p]
  BY <1>8, ResumeIs
<1>9. ASSUME NEW o \in Ops, Unlock(o), UNCHANGED interrupted
      PROVE  \E a \in Ops \cup {NoOne} : \A p \in Ops \ {a} : pc'[p] = pc[p]
  BY <1>9, UnlockIs
<1>10. ASSUME NEW o \in Ops, CheckLock(o), UNCHANGED interrupted
       PROVE  \E a \in Ops \cup {NoOne} : \A p \in Ops \ {a} : pc'[p] = pc[p]
  BY <1>10 DEF CheckLock, MayBegin
<1>11. ASSUME NEW o \in Ops, Gates(o), UNCHANGED interrupted
       PROVE  \E a \in Ops \cup {NoOne} : \A p \in Ops \ {a} : pc'[p] = pc[p]
  BY <1>11 DEF Gates
<1>12. ASSUME NEW o \in Ops, BootSuspend(o), UNCHANGED interrupted
       PROVE  \E a \in Ops \cup {NoOne} : \A p \in Ops \ {a} : pc'[p] = pc[p]
  BY <1>12, BootSuspendIs
<1>13. ASSUME NEW o \in Ops, BootLock(o), UNCHANGED interrupted
       PROVE  \E a \in Ops \cup {NoOne} : \A p \in Ops \ {a} : pc'[p] = pc[p]
  BY <1>13, BootLockIs
<1>14. ASSUME NEW o \in Ops, BootScaleDown(o), UNCHANGED interrupted
       PROVE  \E a \in Ops \cup {NoOne} : \A p \in Ops \ {a} : pc'[p] = pc[p]
  BY <1>14, BootScaleDownIs
<1>15. ASSUME NEW o \in Ops, BootWait(o), UNCHANGED interrupted
       PROVE  \E a \in Ops \cup {NoOne} : \A p \in Ops \ {a} : pc'[p] = pc[p]
  BY <1>15 DEF BootWait
<1>16. ASSUME NEW o \in Ops, Select(o), UNCHANGED interrupted
       PROVE  \E a \in Ops \cup {NoOne} : \A p \in Ops \ {a} : pc'[p] = pc[p]
  BY <1>16, SelectIs
<1>17. ASSUME NEW o \in Ops, StartClear(o), UNCHANGED interrupted
       PROVE  \E a \in Ops \cup {NoOne} : \A p \in Ops \ {a} : pc'[p] = pc[p]
  BY <1>17 DEF StartClear
<1>18. ASSUME NEW o \in Ops, Mark(o), UNCHANGED interrupted
       PROVE  \E a \in Ops \cup {NoOne} : \A p \in Ops \ {a} : pc'[p] = pc[p]
  BY <1>18, MarkIs
<1>19. ASSUME NEW o \in Ops, ForceInPod(o), UNCHANGED interrupted
       PROVE  \E a \in Ops \cup {NoOne} : \A p \in Ops \ {a} : pc'[p] = pc[p]
  BY <1>19, ForceInPodIs
<1>20. ASSUME NEW o \in Ops, BootScaleUp(o), UNCHANGED interrupted
       PROVE  \E a \in Ops \cup {NoOne} : \A p \in Ops \ {a} : pc'[p] = pc[p]
  BY <1>20, BootScaleUpIs
<1>21. ASSUME NEW o \in Ops, Await(o), UNCHANGED interrupted
       PROVE  \E a \in Ops \cup {NoOne} : \A p \in Ops \ {a} : pc'[p] = pc[p]
  BY <1>21 DEF Await
<1>22. ASSUME NEW o \in Ops, Unforce(o), UNCHANGED interrupted
       PROVE  \E a \in Ops \cup {NoOne} : \A p \in Ops \ {a} : pc'[p] = pc[p]
  BY <1>22, UnforceIs
<1>23. ASSUME NEW o \in Ops, BootUnlock(o), UNCHANGED interrupted
       PROVE  \E a \in Ops \cup {NoOne} : \A p \in Ops \ {a} : pc'[p] = pc[p]
  BY <1>23, BootUnlockIs
<1>24. ASSUME NEW o \in Ops, BootResume(o), UNCHANGED interrupted
       PROVE  \E a \in Ops \cup {NoOne} : \A p \in Ops \ {a} : pc'[p] = pc[p]
  BY <1>24, BootResumeIs
<1>25. ASSUME NEW o \in Ops, UndoForce(o), UNCHANGED interrupted
       PROVE  \E a \in Ops \cup {NoOne} : \A p \in Ops \ {a} : pc'[p] = pc[p]
  BY <1>25, UndoForceIs
<1>26. ASSUME NEW o \in Ops, UndoMark(o), UNCHANGED interrupted
       PROVE  \E a \in Ops \cup {NoOne} : \A p \in Ops \ {a} : pc'[p] = pc[p]
  BY <1>26, UndoMarkIs
<1>27. ASSUME NEW o \in Ops, UndoLock(o), UNCHANGED interrupted
       PROVE  \E a \in Ops \cup {NoOne} : \A p \in Ops \ {a} : pc'[p] = pc[p]
  BY <1>27, UndoLockIs
<1>28. ASSUME NEW o \in Ops, UndoScale(o), UNCHANGED interrupted
       PROVE  \E a \in Ops \cup {NoOne} : \A p \in Ops \ {a} : pc'[p] = pc[p]
  BY <1>28, UndoScaleIs
<1>29. ASSUME NEW o \in Ops, UndoResume(o), UNCHANGED interrupted
       PROVE  \E a \in Ops \cup {NoOne} : \A p \in Ops \ {a} : pc'[p] = pc[p]
  BY <1>29, UndoResumeIs
<1>30. ASSUME NEW o \in Ops, NEW n \in Nodes, StartRecover(o, n), UNCHANGED interrupted
       PROVE  \E a \in Ops \cup {NoOne} : \A p \in Ops \ {a} : pc'[p] = pc[p]
  BY <1>30 DEF StartRecover
<1>31. ASSUME NEW o \in Ops, NEW n \in Nodes, ClearMarker(o, n), UNCHANGED interrupted
       PROVE  \E a \in Ops \cup {NoOne} : \A p \in Ops \ {a} : pc'[p] = pc[p]
  BY <1>31 DEF ClearMarker
<1>32. ASSUME NEW o \in Ops, EndRecover(o), UNCHANGED interrupted
       PROVE  \E a \in Ops \cup {NoOne} : \A p \in Ops \ {a} : pc'[p] = pc[p]
  BY <1>32 DEF EndRecover
<1>33. ASSUME NEW o \in Ops, Interrupt(o)
       PROVE  \E a \in Ops \cup {NoOne} : \A p \in Ops \ {a} : pc'[p] = pc[p]
  BY <1>33 DEF Interrupt
<1>34. ASSUME NEW o \in Ops, Die(o)
       PROVE  \E a \in Ops \cup {NoOne} : \A p \in Ops \ {a} : pc'[p] = pc[p]
  BY <1>34 DEF Die
<1>35. ASSUME NEW o \in Ops, HelperExpires(o)
       PROVE  \E a \in Ops \cup {NoOne} : \A p \in Ops \ {a} : pc'[p] = pc[p]
  BY <1>35 DEF HelperExpires
<1>36. ASSUME LockExpires PROVE \E a \in Ops \cup {NoOne} : \A p \in Ops \ {a} : pc'[p] = pc[p]
  BY <1>36 DEF LockExpires, LockAges
<1>37. ASSUME OperatorScales, UNCHANGED <<interrupted, pc, locals>>
       PROVE  \E a \in Ops \cup {NoOne} : \A p \in Ops \ {a} : pc'[p] = pc[p]
  BY <1>37 DEF OperatorScales
<1>38. ASSUME OperatorWrites, UNCHANGED <<interrupted, pc, locals>>
       PROVE  \E a \in Ops \cup {NoOne} : \A p \in Ops \ {a} : pc'[p] = pc[p]
  BY <1>38 DEF OperatorWrites
<1>39. ASSUME NEW n \in Nodes, PodStarts(n), UNCHANGED <<interrupted, pc, locals>>
       PROVE  \E a \in Ops \cup {NoOne} : \A p \in Ops \ {a} : pc'[p] = pc[p]
  BY <1>39 DEF PodStarts
<1>40. ASSUME NEW n \in Nodes, PodStops(n), UNCHANGED <<interrupted, pc, locals>>
       PROVE  \E a \in Ops \cup {NoOne} : \A p \in Ops \ {a} : pc'[p] = pc[p]
  BY <1>40 DEF PodStops
<1>41. ASSUME NEW n \in Nodes, NodeFails(n), UNCHANGED <<interrupted, pc, locals>>
       PROVE  \E a \in Ops \cup {NoOne} : \A p \in Ops \ {a} : pc'[p] = pc[p]
  BY <1>41 DEF NodeFails
<1>42. ASSUME NEW n \in Nodes, NodeServes(n), UNCHANGED <<interrupted, pc, locals>>
       PROVE  \E a \in Ops \cup {NoOne} : \A p \in Ops \ {a} : pc'[p] = pc[p]
  BY <1>42 DEF NodeServes
<1>43. ASSUME UNCHANGED vars PROVE \E a \in Ops \cup {NoOne} : \A p \in Ops \ {a} : pc'[p] = pc[p]
  BY <1>43 DEF vars
<1> QED
  BY <1>1, <1>2, <1>3, <1>4, <1>5, <1>6, <1>7, <1>8, <1>9, <1>10, <1>11, <1>12, <1>13, <1>14,
     <1>15, <1>16, <1>17, <1>18, <1>19, <1>20, <1>21, <1>22, <1>23, <1>24, <1>25, <1>26,
     <1>27, <1>28, <1>29, <1>30, <1>31, <1>32, <1>33, <1>34, <1>35, <1>36, <1>37, <1>38,
     <1>39, <1>40, <1>41, <1>42, <1>43, StepCases


\* A recovery enters its fenced phases by the compare-and-swap.
LEMMA EntersBySwap ==
  ASSUME TypeOK, Phases, NEW q \in Recovers, pc[q] \notin Fencing, pc'[q] \in Fencing, [Next]_vars
  PROVE  pc[q] = "swap" /\ q \in fresh
<1> USE Given, PhaseOwner DEF TypeOK, Fencing, Ended, Goto, locals, vars
<1>1. ASSUME NEW o \in Ops, Gate(o), UNCHANGED interrupted PROVE pc[q] = "swap" /\ q \in fresh
  BY <1>1 DEF Gate
<1>2. ASSUME NEW o \in Ops, Swap(o), UNCHANGED interrupted PROVE pc[q] = "swap" /\ q \in fresh
  BY <1>2, SwapIs
<1>3. ASSUME NEW o \in Ops, Suspend(o), UNCHANGED interrupted PROVE pc[q] = "swap" /\ q \in fresh
  BY <1>3, SuspendIs
<1>4. ASSUME NEW o \in Ops, ScaleDown(o), UNCHANGED interrupted PROVE pc[q] = "swap" /\ q \in fresh
  BY <1>4, ScaleDownIs
<1>5. ASSUME NEW o \in Ops, Wait(o), UNCHANGED interrupted PROVE pc[q] = "swap" /\ q \in fresh
  BY <1>5 DEF Wait
<1>6. ASSUME NEW o \in Ops, AllRead(o), UNCHANGED interrupted PROVE pc[q] = "swap" /\ q \in fresh
  BY <1>6 DEF AllRead, RecoverOver
<1>7. ASSUME NEW o \in Ops, ScaleUp(o), UNCHANGED interrupted PROVE pc[q] = "swap" /\ q \in fresh
  BY <1>7, ScaleUpIs
<1>8. ASSUME NEW o \in Ops, Resume(o), UNCHANGED interrupted PROVE pc[q] = "swap" /\ q \in fresh
  BY <1>8, ResumeIs
<1>9. ASSUME NEW o \in Ops, Unlock(o), UNCHANGED interrupted PROVE pc[q] = "swap" /\ q \in fresh
  BY <1>9, UnlockIs
<1>10. ASSUME NEW o \in Ops, CheckLock(o), UNCHANGED interrupted PROVE pc[q] = "swap" /\ q \in fresh
  BY <1>10 DEF CheckLock
<1>11. ASSUME NEW o \in Ops, Gates(o), UNCHANGED interrupted PROVE pc[q] = "swap" /\ q \in fresh
  BY <1>11 DEF Gates
<1>12. ASSUME NEW o \in Ops, BootSuspend(o), UNCHANGED interrupted
       PROVE  pc[q] = "swap" /\ q \in fresh
  BY <1>12, BootSuspendIs
<1>13. ASSUME NEW o \in Ops, BootLock(o), UNCHANGED interrupted PROVE pc[q] = "swap" /\ q \in fresh
  BY <1>13, BootLockIs
<1>14. ASSUME NEW o \in Ops, BootScaleDown(o), UNCHANGED interrupted
       PROVE  pc[q] = "swap" /\ q \in fresh
  BY <1>14, BootScaleDownIs
<1>15. ASSUME NEW o \in Ops, BootWait(o), UNCHANGED interrupted PROVE pc[q] = "swap" /\ q \in fresh
  BY <1>15 DEF BootWait
<1>16. ASSUME NEW o \in Ops, Select(o), UNCHANGED interrupted PROVE pc[q] = "swap" /\ q \in fresh
  BY <1>16, SelectIs
<1>17. ASSUME NEW o \in Ops, StartClear(o), UNCHANGED interrupted
       PROVE  pc[q] = "swap" /\ q \in fresh
  BY <1>17 DEF StartClear
<1>18. ASSUME NEW o \in Ops, Mark(o), UNCHANGED interrupted PROVE pc[q] = "swap" /\ q \in fresh
  BY <1>18, MarkIs
<1>19. ASSUME NEW o \in Ops, ForceInPod(o), UNCHANGED interrupted
       PROVE  pc[q] = "swap" /\ q \in fresh
  BY <1>19, ForceInPodIs
<1>20. ASSUME NEW o \in Ops, BootScaleUp(o), UNCHANGED interrupted
       PROVE  pc[q] = "swap" /\ q \in fresh
  BY <1>20, BootScaleUpIs
<1>21. ASSUME NEW o \in Ops, Await(o), UNCHANGED interrupted PROVE pc[q] = "swap" /\ q \in fresh
  BY <1>21 DEF Await
<1>22. ASSUME NEW o \in Ops, Unforce(o), UNCHANGED interrupted PROVE pc[q] = "swap" /\ q \in fresh
  BY <1>22, UnforceIs
<1>23. ASSUME NEW o \in Ops, BootUnlock(o), UNCHANGED interrupted
       PROVE  pc[q] = "swap" /\ q \in fresh
  BY <1>23, BootUnlockIs
<1>24. ASSUME NEW o \in Ops, BootResume(o), UNCHANGED interrupted
       PROVE  pc[q] = "swap" /\ q \in fresh
  BY <1>24, BootResumeIs
<1>25. ASSUME NEW o \in Ops, UndoForce(o), UNCHANGED interrupted PROVE pc[q] = "swap" /\ q \in fresh
  BY <1>25, UndoForceIs
<1>26. ASSUME NEW o \in Ops, UndoMark(o), UNCHANGED interrupted PROVE pc[q] = "swap" /\ q \in fresh
  BY <1>26, UndoMarkIs
<1>27. ASSUME NEW o \in Ops, UndoLock(o), UNCHANGED interrupted PROVE pc[q] = "swap" /\ q \in fresh
  BY <1>27, UndoLockIs
<1>28. ASSUME NEW o \in Ops, UndoScale(o), UNCHANGED interrupted PROVE pc[q] = "swap" /\ q \in fresh
  BY <1>28, UndoScaleIs
<1>29. ASSUME NEW o \in Ops, UndoResume(o), UNCHANGED interrupted
       PROVE  pc[q] = "swap" /\ q \in fresh
  BY <1>29, UndoResumeIs
<1>30. ASSUME NEW o \in Ops, NEW n \in Nodes, StartRecover(o, n), UNCHANGED interrupted
       PROVE  pc[q] = "swap" /\ q \in fresh
  BY <1>30 DEF StartRecover
<1>31. ASSUME NEW o \in Ops, NEW n \in Nodes, ClearMarker(o, n), UNCHANGED interrupted
       PROVE  pc[q] = "swap" /\ q \in fresh
  BY <1>31 DEF ClearMarker
<1>32. ASSUME NEW o \in Ops, EndRecover(o), UNCHANGED interrupted
       PROVE  pc[q] = "swap" /\ q \in fresh
  BY <1>32 DEF EndRecover
<1>33. ASSUME NEW o \in Ops, Interrupt(o) PROVE pc[q] = "swap" /\ q \in fresh
  BY <1>33 DEF Interrupt
<1>34. ASSUME NEW o \in Ops, Die(o) PROVE pc[q] = "swap" /\ q \in fresh
  BY <1>34 DEF Die
<1>35. ASSUME NEW o \in Ops, HelperExpires(o) PROVE pc[q] = "swap" /\ q \in fresh
  BY <1>35 DEF HelperExpires
<1>36. ASSUME LockExpires PROVE pc[q] = "swap" /\ q \in fresh
  BY <1>36 DEF LockExpires, LockAges
<1>37. ASSUME OperatorScales, UNCHANGED <<interrupted, pc, locals>>
       PROVE  pc[q] = "swap" /\ q \in fresh
  BY <1>37 DEF OperatorScales
<1>38. ASSUME OperatorWrites, UNCHANGED <<interrupted, pc, locals>>
       PROVE  pc[q] = "swap" /\ q \in fresh
  BY <1>38 DEF OperatorWrites
<1>39. ASSUME NEW n \in Nodes, PodStarts(n), UNCHANGED <<interrupted, pc, locals>>
       PROVE  pc[q] = "swap" /\ q \in fresh
  BY <1>39 DEF PodStarts
<1>40. ASSUME NEW n \in Nodes, PodStops(n), UNCHANGED <<interrupted, pc, locals>>
       PROVE  pc[q] = "swap" /\ q \in fresh
  BY <1>40 DEF PodStops
<1>41. ASSUME NEW n \in Nodes, NodeFails(n), UNCHANGED <<interrupted, pc, locals>>
       PROVE  pc[q] = "swap" /\ q \in fresh
  BY <1>41 DEF NodeFails
<1>42. ASSUME NEW n \in Nodes, NodeServes(n), UNCHANGED <<interrupted, pc, locals>>
       PROVE  pc[q] = "swap" /\ q \in fresh
  BY <1>42 DEF NodeServes
<1>43. ASSUME UNCHANGED vars PROVE pc[q] = "swap" /\ q \in fresh
  BY <1>43 DEF vars
<1> QED
  BY <1>1, <1>2, <1>3, <1>4, <1>5, <1>6, <1>7, <1>8, <1>9, <1>10, <1>11, <1>12, <1>13, <1>14,
     <1>15, <1>16, <1>17, <1>18, <1>19, <1>20, <1>21, <1>22, <1>23, <1>24, <1>25, <1>26,
     <1>27, <1>28, <1>29, <1>30, <1>31, <1>32, <1>33, <1>34, <1>35, <1>36, <1>37, <1>38,
     <1>39, <1>40, <1>41, <1>42, <1>43, StepCases


\* Where bootstraps run alone, deep recoveries exclude one another, whatever calls fail
\* or mislead and whoever is interrupted or dies: they implement ExclusiveOperation.
THEOREM RecoveriesExclude ==
  ASSUME Overlap \subseteq Recovers
  PROVE  Spec => RecoversExclude
<1> DEFINE A == {r \in Recovers : pc[r] \in Fencing}
<1>1. Init => Exclusive!Init
  <2> SUFFICES ASSUME Init PROVE A = {}
    BY DEF Exclusive!Init
  <2>1. \A r \in Recovers : pc[r] = "idle"
    BY Given DEF Init
  <2> QED
    BY <2>1 DEF Fencing
<1>2. TypeOK /\ ExclusionInv /\ [Next]_vars => [Exclusive!Next]_A
  <2> SUFFICES ASSUME TypeOK, ExclusionInv, [Next]_vars PROVE A' = A \/ Exclusive!Next
    OBVIOUS
  <2>1. PICK o \in Ops \cup {NoOne} : \A p \in Ops \ {o} : pc'[p] = pc[p]
    BY OnePcMoves
  <2>2. CASE ~(o \in Recovers) \/ (pc[o] \in Fencing <=> pc'[o] \in Fencing)
    BY <2>1, <2>2, Given
  <2>3. CASE o \in Recovers /\ pc[o] \in Fencing /\ pc'[o] \notin Fencing
    <3>1. A' = A \ {o} /\ o \in A
      BY <2>1, <2>3, Given
    <3> QED
      BY <2>3, <3>1 DEF Exclusive!Next, Exclusive!End
  <2>4. CASE o \in Recovers /\ pc[o] \notin Fencing /\ pc'[o] \in Fencing
    <3>1. pc[o] = "swap" /\ o \in fresh
      BY <2>4, EntersBySwap DEF ExclusionInv
    <3>2. \A r \in Recovers : pc[r] \notin Fencing
      BY <2>4, <3>1, Given DEF ExclusionInv, Locked, LockAvailable, LockedBy
    <3>3. A = {} /\ A' = {o}
      BY <2>1, <2>4, <3>2, Given
    <3> QED
      BY <2>4, <3>3 DEF Exclusive!Next, Exclusive!Begin
  <2> QED
    BY <2>2, <2>3, <2>4
<1> QED
  BY <1>1, <1>2, FenceTyped, FenceExclusion, PTL DEF Spec, RecoversExclude, Exclusive!Spec

\* No helper works in a datadir that a database process holds open: while one may, the
\* operator is suspended, the StatefulSet is empty and the lock is kept.  That needs a lock
\* that bootstrap respects and can read, and scale-ups whose failure is a failure.
THEOREM DatadirsExclusive ==
  ASSUME Overlap \subseteq Recovers, Forcing = {}, "get" \notin MayFail, "scale" \notin MayMislead
  PROVE  Spec => []DatadirExclusive
<1>1. Init => TypeOK /\ Chosen /\ ExclusionInv /\ Fenced
  BY FenceInit
<1>2. TypeOK /\ Chosen /\ ExclusionInv /\ Fenced /\ [Next]_vars => Fenced'
  BY FencedNext
<1>3. TypeOK /\ Fenced => DatadirExclusive
  BY Given DEF TypeOK, ClusterTypeOK, Fenced, FencedFor, Quiet, DatadirExclusive
<1> QED
  BY <1>1, <1>2, <1>3, FenceTyped, FenceExclusion, PTL DEF Spec

\* Two nodes never both start as the source of a new cluster, if clearing a marker does
\* not fail.
THEOREM SourceIsOne ==
  ASSUME Overlap \subseteq Recovers, "helper" \notin MayFail
  PROVE  Spec => []OneSource
<1>1. Init => OneMarker
  BY FenceInit
<1>2. TypeOK /\ ExclusionInv /\ OneMarker /\ [Next]_vars => OneMarker'
  BY OneMarkerNext DEF ExclusionInv
<1>3. OneMarker => OneSource
  <2> SUFFICES ASSUME OneMarker PROVE OneSource
    OBVIOUS
  <2>1. marked \cap up = {} \/ \E n : marked \cap up = {n}
    BY DEF OneMarker
  <2> QED
    BY <2>1, FS_EmptySet, FS_Singleton DEF OneSource
<1> QED
  BY <1>1, <1>2, <1>3, FenceTyped, FenceExclusion, PTL DEF Spec

\* When every operation is over and none was interrupted, died or warned, the operator is
\* active again, if a suspend that fails has not taken place and rescue()'s resume does
\* not fail.
THEOREM FenceRestores ==
  ASSUME "suspend" \notin MayMislead, "resume" \notin MayFail
  PROVE  Spec => []ClusterRestored
<1>1. Init => TypeOK /\ Chosen /\ Phases /\ Owed
  BY FenceInit DEF ExclusionInv
<1>2. TypeOK /\ Chosen /\ Phases /\ Owed /\ [Next]_vars => (Phases /\ Owed)'
  BY PhasesNext, OwedNext
<1>3. TypeOK /\ Owed => ClusterRestored
  BY DEF TypeOK, ClusterTypeOK, Owed, Resumes, Fencing, ClusterRestored
<1> QED
  BY <1>1, <1>2, <1>3, FenceTyped, PTL DEF Spec

\* An operation fails at the end of rescue().
LEMMA FailsByRescue ==
  ASSUME TypeOK, NEW b \in Ops, pc[b] # "failed", pc'[b] = "failed", [Next]_vars
  PROVE  UndoResume(b)
<1> USE DEF TypeOK, Goto, cluster, locals, vars
<1>1. ASSUME NEW o \in Ops, Gate(o), UNCHANGED interrupted PROVE UndoResume(b)
  BY <1>1 DEF Gate
<1>2. ASSUME NEW o \in Ops, Swap(o), UNCHANGED interrupted PROVE UndoResume(b)
  BY <1>2, SwapIs
<1>3. ASSUME NEW o \in Ops, Suspend(o), UNCHANGED interrupted PROVE UndoResume(b)
  BY <1>3, SuspendIs
<1>4. ASSUME NEW o \in Ops, ScaleDown(o), UNCHANGED interrupted PROVE UndoResume(b)
  BY <1>4, ScaleDownIs
<1>5. ASSUME NEW o \in Ops, Wait(o), UNCHANGED interrupted PROVE UndoResume(b)
  BY <1>5 DEF Wait
<1>6. ASSUME NEW o \in Ops, AllRead(o), UNCHANGED interrupted PROVE UndoResume(b)
  BY <1>6 DEF AllRead, RecoverOver
<1>7. ASSUME NEW o \in Ops, ScaleUp(o), UNCHANGED interrupted PROVE UndoResume(b)
  BY <1>7, ScaleUpIs
<1>8. ASSUME NEW o \in Ops, Resume(o), UNCHANGED interrupted PROVE UndoResume(b)
  BY <1>8, ResumeIs
<1>9. ASSUME NEW o \in Ops, Unlock(o), UNCHANGED interrupted PROVE UndoResume(b)
  BY <1>9, UnlockIs
<1>10. ASSUME NEW o \in Ops, CheckLock(o), UNCHANGED interrupted PROVE UndoResume(b)
  BY <1>10 DEF CheckLock
<1>11. ASSUME NEW o \in Ops, Gates(o), UNCHANGED interrupted PROVE UndoResume(b)
  BY <1>11 DEF Gates
<1>12. ASSUME NEW o \in Ops, BootSuspend(o), UNCHANGED interrupted PROVE UndoResume(b)
  BY <1>12, BootSuspendIs
<1>13. ASSUME NEW o \in Ops, BootLock(o), UNCHANGED interrupted PROVE UndoResume(b)
  BY <1>13, BootLockIs
<1>14. ASSUME NEW o \in Ops, BootScaleDown(o), UNCHANGED interrupted PROVE UndoResume(b)
  BY <1>14, BootScaleDownIs
<1>15. ASSUME NEW o \in Ops, BootWait(o), UNCHANGED interrupted PROVE UndoResume(b)
  BY <1>15 DEF BootWait
<1>16. ASSUME NEW o \in Ops, Select(o), UNCHANGED interrupted PROVE UndoResume(b)
  BY <1>16, SelectIs
<1>17. ASSUME NEW o \in Ops, StartClear(o), UNCHANGED interrupted PROVE UndoResume(b)
  BY <1>17 DEF StartClear
<1>18. ASSUME NEW o \in Ops, Mark(o), UNCHANGED interrupted PROVE UndoResume(b)
  BY <1>18, MarkIs
<1>19. ASSUME NEW o \in Ops, ForceInPod(o), UNCHANGED interrupted PROVE UndoResume(b)
  BY <1>19, ForceInPodIs
<1>20. ASSUME NEW o \in Ops, BootScaleUp(o), UNCHANGED interrupted PROVE UndoResume(b)
  BY <1>20, BootScaleUpIs
<1>21. ASSUME NEW o \in Ops, Await(o), UNCHANGED interrupted PROVE UndoResume(b)
  BY <1>21 DEF Await
<1>22. ASSUME NEW o \in Ops, Unforce(o), UNCHANGED interrupted PROVE UndoResume(b)
  BY <1>22, UnforceIs
<1>23. ASSUME NEW o \in Ops, BootUnlock(o), UNCHANGED interrupted PROVE UndoResume(b)
  BY <1>23, BootUnlockIs
<1>24. ASSUME NEW o \in Ops, BootResume(o), UNCHANGED interrupted PROVE UndoResume(b)
  BY <1>24, BootResumeIs
<1>25. ASSUME NEW o \in Ops, UndoForce(o), UNCHANGED interrupted PROVE UndoResume(b)
  BY <1>25, UndoForceIs
<1>26. ASSUME NEW o \in Ops, UndoMark(o), UNCHANGED interrupted PROVE UndoResume(b)
  BY <1>26, UndoMarkIs
<1>27. ASSUME NEW o \in Ops, UndoLock(o), UNCHANGED interrupted PROVE UndoResume(b)
  BY <1>27, UndoLockIs
<1>28. ASSUME NEW o \in Ops, UndoScale(o), UNCHANGED interrupted PROVE UndoResume(b)
  BY <1>28, UndoScaleIs
<1>29. ASSUME NEW o \in Ops, UndoResume(o), UNCHANGED interrupted PROVE UndoResume(b)
  BY <1>29, UndoResumeIs
<1>30. ASSUME NEW o \in Ops, NEW n \in Nodes, StartRecover(o, n), UNCHANGED interrupted
       PROVE  UndoResume(b)
  BY <1>30 DEF StartRecover
<1>31. ASSUME NEW o \in Ops, NEW n \in Nodes, ClearMarker(o, n), UNCHANGED interrupted
       PROVE  UndoResume(b)
  BY <1>31 DEF ClearMarker
<1>32. ASSUME NEW o \in Ops, EndRecover(o), UNCHANGED interrupted PROVE UndoResume(b)
  BY <1>32 DEF EndRecover
<1>33. ASSUME NEW o \in Ops, Interrupt(o) PROVE UndoResume(b)
  BY <1>33 DEF Interrupt
<1>34. ASSUME NEW o \in Ops, Die(o) PROVE UndoResume(b)
  BY <1>34 DEF Die
<1>35. ASSUME NEW o \in Ops, HelperExpires(o) PROVE UndoResume(b)
  BY <1>35 DEF HelperExpires
<1>36. ASSUME LockExpires PROVE UndoResume(b)
  BY <1>36 DEF LockExpires, LockAges
<1>37. ASSUME OperatorScales, UNCHANGED <<interrupted, pc, locals>> PROVE UndoResume(b)
  BY <1>37 DEF OperatorScales
<1>38. ASSUME OperatorWrites, UNCHANGED <<interrupted, pc, locals>> PROVE UndoResume(b)
  BY <1>38 DEF OperatorWrites
<1>39. ASSUME NEW n \in Nodes, PodStarts(n), UNCHANGED <<interrupted, pc, locals>>
       PROVE  UndoResume(b)
  BY <1>39 DEF PodStarts
<1>40. ASSUME NEW n \in Nodes, PodStops(n), UNCHANGED <<interrupted, pc, locals>>
       PROVE  UndoResume(b)
  BY <1>40 DEF PodStops
<1>41. ASSUME NEW n \in Nodes, NodeFails(n), UNCHANGED <<interrupted, pc, locals>>
       PROVE  UndoResume(b)
  BY <1>41 DEF NodeFails
<1>42. ASSUME NEW n \in Nodes, NodeServes(n), UNCHANGED <<interrupted, pc, locals>>
       PROVE  UndoResume(b)
  BY <1>42 DEF NodeServes
<1>43. ASSUME UNCHANGED vars PROVE UndoResume(b)
  BY <1>43 DEF vars
<1> QED
  BY <1>1, <1>2, <1>3, <1>4, <1>5, <1>6, <1>7, <1>8, <1>9, <1>10, <1>11, <1>12, <1>13, <1>14,
     <1>15, <1>16, <1>17, <1>18, <1>19, <1>20, <1>21, <1>22, <1>23, <1>24, <1>25, <1>26,
     <1>27, <1>28, <1>29, <1>30, <1>31, <1>32, <1>33, <1>34, <1>35, <1>36, <1>37, <1>38,
     <1>39, <1>40, <1>41, <1>42, <1>43, StepCases

\* A bootstrap that fails never resumes the operator while the directive or the marker for
\* the candidate it gave up still stands, if what rescue() takes back does not fail and a
\* failed directive has not been given.
THEOREM AbandonedCleared ==
  ASSUME OneBootOrForces, Overlap \subseteq Recovers,
         "unforce" \notin MayFail, "helper" \notin MayFail, "force" \notin MayMislead
  PROVE  Spec => AbandonedIsCleared
<1> DEFINE Cleared == \A b \in Ops :
      (pc[b] # "failed" /\ pc'[b] = "failed" /\ candidate[b] # NoNode) =>
        operator' = "suspended" \/ (forced' # candidate[b] /\ candidate[b] \notin marked')
<1>1. Init => Undoes
  BY Given DEF Init, ClusterInit, Undoes, UndoesFor, Undoing, BeforeChoice
<1>2. TypeOK /\ Chosen /\ ExclusionInv /\ Undoes /\ [Next]_vars => Undoes'
  BY UndoesNext DEF ExclusionInv
<1>3. TypeOK /\ ExclusionInv /\ Undoes /\ [Next]_vars => [Cleared]_vars
  <2> SUFFICES ASSUME TypeOK, Phases, Undoes, [Next]_vars, NEW b \in Ops,
                      pc[b] # "failed", pc'[b] = "failed", candidate[b] # NoNode
               PROVE  operator' = "suspended" \/ (forced' # candidate[b] /\ candidate[b] \notin marked')
    BY DEF ExclusionInv
  <2>1. UndoResume(b) /\ b \in Bootstraps
    BY FailsByRescue, UndoResumeIs, PhaseOwner
  <2>2. CASE Live(b)
    BY <2>1, <2>2, UndoResumeIs, Given DEF Undoes, UndoesFor, Undoing, nodes
  <2>3. CASE ~Live(b)
    BY <2>1, <2>3, UndoResumeIs, Given DEF Undoes, UndoesFor, Undoing, nodes
  <2> QED
    BY <2>2, <2>3
<1> QED
  BY <1>1, <1>2, <1>3, FenceTyped, FenceExclusion, PTL DEF Spec, AbandonedIsCleared
=============================================================================
