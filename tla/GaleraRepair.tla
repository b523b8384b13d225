---------------------------- MODULE GaleraRepair ----------------------------
(***************************************************************************)
(* Galera repair: the lifecycle of src/src/engine/repair/service.go driven *)
(* through the hooks of src/src/engine/repair/galera.go.  A node that has  *)
(* fallen out of the primary component is taken down, its position wiped,  *)
(* and brought back to join by state transfer.  The operation lock is a    *)
(* no-op for Galera, so invocations are told apart only by what they do to *)
(* the shared resources of GaleraCluster.                                  *)
(***************************************************************************)
EXTENDS GaleraCluster

CONSTANTS
  Instance,    \* Ops -> the node named by --instance, or NoNode: every node that needs it
  Forcing,       \* operations run with --force
  Overlap,     \* may an operation begin before another has ended?
  MayDie       \* may a process die?

ASSUME RepairAssumption ==
  /\ Instance \in [Ops -> Nodes \cup {NoNode}]
  /\ Forcing \subseteq Ops
  /\ Overlap \in BOOLEAN /\ MayDie \in BOOLEAN

VARIABLES
  pc,
  candidates,  \* the synced nodes its triage saw
  needsHeal,   \* the nodes its triage would heal, then its targets still to do
  donor,       \* donorSelection, NoNode if the cached probe was bad
  target,      \* the node being healed
  crSuspended, \* operations whose Cleanup has a suspended operator to resume
  scaledDown,  \* operations whose rescue has a scale to restore
  healed,      \* nodes each operation reports healed
  outcome,
  warned,      \* operations that told the user to resume by hand
  current      \* nodes whose datadir holds the cluster's latest commits

locals == <<candidates, needsHeal, donor, target, crSuspended, scaledDown, healed, outcome, warned>>
vars   == <<cluster, interrupted, pc, locals, current>>

Working == {"suspend", "donor", "gateResume", "escrow", "plan", "heal", "healSuspend", "scaleDown",
            "gone", "wipe", "helpers", "scaleUp", "resume", "ready", "verify",
            "rescueHelpers", "rescueScale", "rescueResume", "cleanup"}
Ended == {"done", "dead"}

TypeOK ==
  /\ ClusterTypeOK
  /\ pc \in [Ops -> {"idle"} \cup Working \cup Ended]
  /\ candidates \in [Ops -> SUBSET Nodes]
  /\ needsHeal \in [Ops -> SUBSET Nodes]
  /\ donor \in [Ops -> Nodes \cup {NoNode}]
  /\ target \in [Ops -> Nodes \cup {NoNode}]
  /\ crSuspended \subseteq Ops /\ scaledDown \subseteq Ops /\ warned \subseteq Ops
  /\ healed \in [Ops -> SUBSET Nodes]
  /\ outcome \in [Ops -> {"none", "ok", "error"}]
  /\ current \subseteq Nodes

Init ==
  /\ ClusterInit
  /\ serving # {} => marked = {}     \* the marker is the last node to leave's
  /\ pc = [r \in Ops |-> "idle"]
  /\ candidates = [r \in Ops |-> {}] /\ needsHeal = [r \in Ops |-> {}]
  /\ donor = [r \in Ops |-> NoNode] /\ target = [r \in Ops |-> NoNode]
  /\ crSuspended = {} /\ scaledDown = {} /\ warned = {}
  /\ healed = [r \in Ops |-> {}]
  /\ outcome = [r \in Ops |-> "none"]
  /\ current = IF serving = {} THEN Nodes ELSE serving

Goto(r, l) == pc' = [pc EXCEPT ![r] = l]
Fail(r, l) == Goto(r, l) /\ outcome' = [outcome EXCEPT ![r] = "error"]
Then(r, ok, next, else) == IF ok THEN Goto(r, next) /\ UNCHANGED outcome ELSE Fail(r, else)
Outcomes == {TRUE, FALSE}

-----------------------------------------------------------------------------
(* Up to the first heal *)

\* Triage: the synced nodes; the others may need healing, or only time.  No
\* primary component is a case for bootstrap, whatever the flags.
Assess(r) ==
  /\ pc[r] = "idle"
  /\ Overlap \/ \A o \in Ops : pc[o] \in {"idle"} \cup Ended
  /\ \E sick \in SUBSET (Nodes \ serving) :
       /\ candidates' = [candidates EXCEPT ![r] = serving]
       /\ needsHeal' = [needsHeal EXCEPT ![r] = sick]
  /\ Then(r, serving # {}, "suspend", "cleanup")
  /\ UNCHANGED <<cluster, donor, target, crSuspended, scaledDown, healed, warned, current>>

SuspendForDonor(r) ==
  /\ pc[r] = "suspend"
  /\ \E ok \in Outcomes :
       /\ SuspendCR(Live(r), ok)
       /\ Then(r, ok, "donor", "cleanup")
       /\ crSuspended' = IF ok THEN crSuspended \cup {r} ELSE crSuspended
  /\ UNCHANGED <<nodes, helper, candidates, needsHeal, donor, target, scaledDown, healed, warned, current>>

\* resolveRepairDonor: the probe's answer is kept for the rest of the run.  An
\* explicit donor with a bad probe aborts here; an automatic one only in Heal.
ResolveDonor(r) ==
  /\ pc[r] = "donor"
  /\ \E d \in candidates[r] :
       \/ /\ d \in serving /\ Live(r)
          /\ donor' = [donor EXCEPT ![r] = d]
          /\ Then(r, TRUE, "escrow", "gateResume")
       \/ /\ Live(r) => d \notin serving
          /\ UNCHANGED donor
          /\ \E auto \in BOOLEAN : Then(r, auto, "escrow", "gateResume")
  /\ UNCHANGED <<cluster, candidates, needsHeal, target, crSuspended, scaledDown, healed, warned, current>>

\* The gate's own resume: its error is dropped, the flag cleared regardless.
GateResume(r) ==
  /\ pc[r] = "gateResume"
  /\ \E ok \in Outcomes : ResumeCR(Live(r), ok)
  /\ crSuspended' = crSuspended \ {r}
  /\ Goto(r, "cleanup")
  /\ UNCHANGED <<nodes, helper, candidates, needsHeal, donor, target, scaledDown, healed, outcome,
                 warned, current>>

Escrow(r) ==
  /\ pc[r] = "escrow"
  /\ \E ok \in Outcomes : Then(r, ok, "plan", "cleanup")
  /\ UNCHANGED <<cluster, candidates, needsHeal, donor, target, crSuspended, scaledDown, healed,
                 warned, current>>

\* Mutant: an absent --instance is taken for the name of a node.
PlanUnnamed(r) ==
  /\ pc[r] = "plan"
  /\ needsHeal' = [needsHeal EXCEPT ![r] = @ \cup {Instance[r]}]
  /\ Goto(r, "heal")
  /\ UNCHANGED <<cluster, candidates, donor, target, crSuspended, scaledDown, healed, outcome,
                 warned, current>>

\* The named node if it needs healing or --force is given; without a name, all
\* that need it.  A split brain or a missing volume aborts.
PlanTargets(r) ==
  LET named == {Instance[r]} \cap Nodes
      plan == IF named = {} THEN needsHeal[r]
              ELSE IF r \in Forcing THEN named ELSE named \cap needsHeal[r]
  IN
  /\ pc[r] = "plan"
  /\ \/ Fail(r, "cleanup") /\ UNCHANGED needsHeal
     \/ /\ plan # {}
        /\ needsHeal' = [needsHeal EXCEPT ![r] = plan]
        /\ Goto(r, "heal") /\ UNCHANGED outcome
     \/ /\ plan = {}
        /\ Goto(r, "cleanup")
        /\ outcome' = [outcome EXCEPT ![r] = "ok"]
        /\ UNCHANGED needsHeal
  /\ UNCHANGED <<cluster, candidates, donor, target, crSuspended, scaledDown, healed, warned, current>>

-----------------------------------------------------------------------------
(* healNode *)

\* Only the highest ordinal can be taken down alone; and the probe cached by
\* the gate must have been good.
Heal(r) ==
  /\ pc[r] = "heal"
  /\ \E t \in needsHeal[r] :
       /\ target' = [target EXCEPT ![r] = t]
       /\ Then(r, t = Replicas - 1 /\ donor[r] # NoNode, "healSuspend", "cleanup")
  /\ UNCHANGED <<cluster, candidates, needsHeal, donor, crSuspended, scaledDown, healed, warned, current>>

HealSuspend(r) ==
  /\ pc[r] = "healSuspend"
  /\ \/ /\ r \in crSuspended
        /\ Goto(r, "scaleDown")
        /\ UNCHANGED <<resource, crSuspended, outcome>>
     \/ /\ r \notin crSuspended
        /\ \E ok \in Outcomes :
             /\ SuspendCR(Live(r), ok)
             /\ Then(r, ok, "scaleDown", "cleanup")
             /\ crSuspended' = IF ok THEN crSuspended \cup {r} ELSE crSuspended
  /\ UNCHANGED <<nodes, helper, candidates, needsHeal, donor, target, scaledDown, healed, warned, current>>

HealScaleDown(r) ==
  /\ pc[r] = "scaleDown"
  /\ \E ok \in Outcomes :
       /\ ScaleStatefulSet(Live(r), target[r], ok)
       /\ Then(r, ok, "gone", "rescueHelpers")
       /\ scaledDown' = IF ok THEN scaledDown \cup {r} ELSE scaledDown
  /\ UNCHANGED <<resource, up, serving, marked, helper, candidates, needsHeal, donor, target,
                 crSuspended, healed, warned, current>>

\* The target's pod is gone (then the helper pod is created), or it times out.
WaitGone(r) ==
  /\ pc[r] = "gone"
  /\ \/ /\ target[r] \notin up /\ Live(r)
        /\ helper' = [helper EXCEPT ![r] = target[r]]
        /\ Goto(r, "wipe") /\ UNCHANGED outcome
     \/ Fail(r, "rescueHelpers") /\ UNCHANGED helper
  /\ UNCHANGED <<resource, nodes, candidates, needsHeal, donor, target, crSuspended, scaledDown,
                 healed, warned, current>>

\* An error of a helper call: the pod is gone, or it is still at work.
HelperGone(r) == {h \in {NoNode, helper[r]} :
                    IF Live(r) THEN h = NoNode \/ "helper" \in MayMislead ELSE h = helper[r]}

\* The position (or the whole datadir) is erased; three attempts count as one.
Wipe(r) ==
  /\ pc[r] = "wipe"
  /\ \/ /\ Live(r)
        /\ current' = current \ {target[r]}
        /\ marked' = marked \ {target[r]}
        /\ helper' = [helper EXCEPT ![r] = NoNode]
        /\ Goto(r, "helpers") /\ UNCHANGED outcome
     \/ /\ Live(r) => "helper" \in MayFail
        /\ \/ UNCHANGED <<current, marked>>
           \/ current' = current \ {target[r]} /\ marked' = marked \ {target[r]}
        /\ \E h \in HelperGone(r) : helper' = [helper EXCEPT ![r] = h]
        /\ Fail(r, "rescueHelpers")
  /\ UNCHANGED <<resource, size, up, serving, candidates, needsHeal, donor, target, crSuspended,
                 scaledDown, healed, warned>>

\* The same for the configuration volume; then no helper pod may be left.
FinishHelpers(r) ==
  /\ pc[r] = "helpers"
  /\ \E ok \in Outcomes :
       /\ IF ok THEN Live(r) ELSE Live(r) => "helper" \in MayFail
       /\ Then(r, ok, "scaleUp", "rescueHelpers")
  /\ UNCHANGED <<cluster, candidates, needsHeal, donor, target, crSuspended, scaledDown, healed,
                 warned, current>>

HealScaleUp(r) ==
  /\ pc[r] = "scaleUp"
  /\ \E ok \in Outcomes :
       /\ ScaleStatefulSet(Live(r), Replicas, ok)
       /\ Then(r, ok, "resume", "rescueHelpers")
       /\ scaledDown' = IF ok THEN scaledDown \ {r} ELSE scaledDown
  /\ UNCHANGED <<resource, up, serving, marked, helper, candidates, needsHeal, donor, target,
                 crSuspended, healed, warned, current>>

HealResume(r) ==
  /\ pc[r] = "resume"
  /\ \E ok \in Outcomes :
       /\ ResumeCR(Live(r), ok)
       /\ Then(r, ok, "ready", "rescueHelpers")
       /\ crSuspended' = IF ok THEN crSuspended \ {r} ELSE crSuspended
  /\ UNCHANGED <<nodes, helper, candidates, needsHeal, donor, target, scaledDown, healed, warned, current>>

\* The pod becomes Ready, joined or not; or it does not in time.
AwaitReady(r) ==
  LET left == needsHeal[r] \ {target[r]} IN
  /\ pc[r] = "ready"
  /\ \/ /\ target[r] \in up /\ Live(r)
        /\ healed' = [healed EXCEPT ![r] = @ \cup {target[r]}]
        /\ needsHeal' = [needsHeal EXCEPT ![r] = left]
        /\ Goto(r, IF left = {} THEN "verify" ELSE "heal") /\ UNCHANGED outcome
     \/ Fail(r, "cleanup") /\ UNCHANGED <<healed, needsHeal>>
  /\ UNCHANGED <<cluster, candidates, donor, target, crSuspended, scaledDown, warned, current>>

\* Mutant: Ready counts as recovered.
VerifyReady(r) ==
  /\ pc[r] = "verify"
  /\ outcome' = [outcome EXCEPT ![r] = IF healed[r] \subseteq up THEN "ok" ELSE "error"]
  /\ Goto(r, "cleanup")
  /\ UNCHANGED <<cluster, candidates, needsHeal, donor, target, crSuspended, scaledDown, healed,
                 warned, current>>

\* Mutant: a node that never joins is waited for without limit.
VerifyUnbounded(r) ==
  /\ pc[r] = "verify"
  /\ healed[r] \subseteq serving
  /\ outcome' = [outcome EXCEPT ![r] = "ok"]
  /\ Goto(r, "cleanup")
  /\ UNCHANGED <<cluster, candidates, needsHeal, donor, target, crSuspended, scaledDown, healed,
                 warned, current>>

\* VerifyRecovery: all healed nodes synced within its time, or a loud failure.
VerifyRecovery(r) ==
  /\ pc[r] = "verify"
  /\ \/ /\ healed[r] \subseteq serving /\ Live(r)
        /\ outcome' = [outcome EXCEPT ![r] = "ok"]
     \/ outcome' = [outcome EXCEPT ![r] = "error"]
  /\ Goto(r, "cleanup")
  /\ UNCHANGED <<cluster, candidates, needsHeal, donor, target, crSuspended, scaledDown, healed,
                 warned, current>>

-----------------------------------------------------------------------------
(* rescue(), every error ignored; and the deferred Cleanup, which resumes on a *)
(* context of its own.                                                        *)

RescueHelpers(r) ==
  /\ pc[r] = "rescueHelpers"
  /\ \E h \in HelperGone(r) : helper' = [helper EXCEPT ![r] = h]
  /\ Goto(r, "rescueScale")
  /\ UNCHANGED <<resource, nodes, locals, current>>

RescueScale(r) ==
  /\ pc[r] = "rescueScale"
  /\ IF r \in scaledDown
     THEN \E ok \in Outcomes : ScaleStatefulSet(Live(r), Replicas, ok)
     ELSE UNCHANGED size
  /\ Goto(r, "rescueResume")
  /\ UNCHANGED <<resource, up, serving, marked, helper, locals, current>>

RescueResume(r) ==
  /\ pc[r] = "rescueResume"
  /\ \E ok \in Outcomes : ResumeCR(Live(r), ok)
  /\ crSuspended' = crSuspended \ {r}
  /\ Goto(r, "cleanup")
  /\ UNCHANGED <<nodes, helper, candidates, needsHeal, donor, target, scaledDown, healed, outcome,
                 warned, current>>

\* Mutant: nothing is deferred.
CleanupNothing(r) ==
  /\ pc[r] = "cleanup"
  /\ Goto(r, "done")
  /\ UNCHANGED <<cluster, locals, current>>

Cleanup(r) ==
  /\ pc[r] = "cleanup"
  /\ \/ r \notin crSuspended /\ UNCHANGED <<resource, crSuspended, warned>>
     \/ /\ r \in crSuspended
        /\ \E ok \in Outcomes :
             /\ ResumeCR(TRUE, ok)
             /\ crSuspended' = IF ok THEN crSuspended \ {r} ELSE crSuspended
             /\ warned' = IF ok THEN warned ELSE warned \cup {r}
  /\ Goto(r, "done")
  /\ UNCHANGED <<nodes, helper, candidates, needsHeal, donor, target, scaledDown, healed, outcome, current>>

-----------------------------------------------------------------------------
Step(r) ==
  /\ \/ Assess(r) \/ SuspendForDonor(r) \/ ResolveDonor(r) \/ GateResume(r) \/ Escrow(r)
     \/ PlanTargets(r) \/ Heal(r) \/ HealSuspend(r) \/ HealScaleDown(r) \/ WaitGone(r) \/ Wipe(r)
     \/ FinishHelpers(r) \/ HealScaleUp(r) \/ HealResume(r) \/ AwaitReady(r) \/ VerifyRecovery(r)
     \/ RescueHelpers(r) \/ RescueScale(r) \/ RescueResume(r) \/ Cleanup(r)
  /\ UNCHANGED interrupted

\* A signal cancels the run's context: the run goes on, but its calls fail.
Interrupt(r) ==
  /\ r \in MayInterrupt /\ Live(r)
  /\ pc[r] \in Working
  /\ interrupted' = interrupted \cup {r}
  /\ UNCHANGED <<cluster, pc, locals, current>>

Die(r) ==
  /\ MayDie
  /\ pc[r] \in Working
  /\ Goto(r, "dead")
  /\ UNCHANGED <<cluster, interrupted, locals, current>>

\* A helper pod nobody waits for any more finishes what it was doing.
HelperExpires(r) ==
  /\ helper[r] # NoNode /\ pc[r] # "wipe"
  /\ helper' = [helper EXCEPT ![r] = NoNode]
  /\ current' = current \ {helper[r]}
  /\ marked' = marked \ {helper[r]}
  /\ UNCHANGED <<resource, size, up, serving, interrupted, pc, locals>>

\* The environment; a node that joins a serving one receives its data.
World ==
  /\ Environment
  /\ current' = IF serving = {} THEN current ELSE current \cup (serving' \ serving)
  /\ UNCHANGED <<interrupted, pc, locals>>

\* The cluster commits a transaction: only its members have it.
Commit ==
  /\ serving # {} /\ current # serving
  /\ current' = serving
  /\ UNCHANGED <<cluster, interrupted, pc, locals>>

Next ==
  \/ \E r \in Ops : Step(r) \/ Interrupt(r) \/ Die(r) \/ HelperExpires(r)
  \/ World
  \/ Commit

Spec == Init /\ [][Next]_vars

\* The goroutine is scheduled, every call returns, every wait is a bounded loop.
FairSpec == Spec /\ \A r \in Ops : WF_vars(Step(r) /\ pc[r] \in Working)

-----------------------------------------------------------------------------
(* Properties *)

\* "Instance-scoped": no node but the one being healed is ever taken down.
OthersUntouched == \A n \in Nodes : n >= size => \E r \in Ops : target[r] = n

\* "Guarantee any state the engine suspended for the run's duration is
\* restored on EVERY exit path", or at least that the user is told; not claimed
\* here of a run that was interrupted.
OperatorRestored ==
  (\A r \in Ops : pc[r] \in {"idle", "done"}) /\ warned = {} /\ interrupted = {} =>
    operator = "active"

\* The same of an interrupted run: "an interrupted operation unwinds through its
\* normal return path - running deferred cleanup (e.g. resuming a suspended
\* operator CR)".  rescue resumes on the cancelled context and takes it for done.
InterruptedIsRestored ==
  (\A r \in Ops : pc[r] \in {"idle", "done"}) /\ warned = {} => operator = "active"

\* "ok" means that what was wiped has its data again: the healed nodes are back
\* in the primary component, not merely Ready.
OkIsHonest ==
  [][\A r \in Ops : (outcome[r] # "ok" /\ outcome'[r] = "ok") => healed[r] \subseteq current]_vars

\* "Re-check donor suitability using the full Galera contract ... at execution
\* time": a node is taken down only while its donor can serve it.
DonorSuitable ==
  [][\A r \in Ops : (pc[r] = "heal" /\ pc'[r] = "healSuspend") => donor[r] \in serving]_vars

\* "No other running nodes in cluster.  This is a bootstrap scenario": the node
\* that is wiped is not the one the guard took for its join target.
DonorIsAnother == \A r \in Ops : pc[r] \in {"wipe", "helpers"} => donor[r] # target[r]

\* A repair returns.
RepairEnds == \A r \in Ops : pc[r] \in Working ~> pc[r] \in Ended
=============================================================================
