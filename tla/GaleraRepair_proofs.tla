------------------------- MODULE GaleraRepair_proofs -------------------------
(***************************************************************************)
(* For any number of repairs, nodes, targets, faults, signals and deaths:  *)
(* what a repair takes down, whom it leaves suspended, and what its "ok"   *)
(* is worth.  What a theorem takes for granted stands in it.               *)
(***************************************************************************)
EXTENDS GaleraRepair, TLAPS

\* The position every repair can take down alone.
Highest == Replicas - 1

\* A node is down because some repair, past its scale-down, heals it.
Lowered(r) ==
  /\ target[r] = Highest
  /\ pc[r] \in {"gone", "wipe", "helpers", "scaleUp", "rescueHelpers", "rescueScale",
                "rescueResume", "cleanup", "done", "dead"}

Scaled ==
  /\ \A r \in Ops : pc[r] \in {"healSuspend", "scaleDown", "gone", "wipe", "helpers", "scaleUp"}
                      => target[r] = Highest
  /\ size # Replicas => size = Highest /\ \E r \in Ops : Lowered(r)

\* While the operator is suspended some repair still means to resume it, or is dead.
Owed ==
  operator = "suspended" =>
    warned # {} \/ interrupted # {} \/ \E r \in crSuspended : pc[r] \in Working \cup {"dead"}

\* Repairs take turns, and leave no helper behind, or there is but one.
InTurn ==
  /\ ~Overlap
  /\ (\A o, p \in Ops : o = p) \/ (~MayDie /\ MayInterrupt = {})

Turns ==
  /\ \A o, p \in Ops : pc[o] \in Working /\ pc[p] \in Working => o = p
  /\ interrupted \subseteq MayInterrupt
  /\ ~MayDie => \A r \in Ops : pc[r] # "dead"

\* From the scale-down until the pod may come back, the operator is suspended and the
\* StatefulSet leaves out the target.
Held(r) ==
  /\ r \in crSuspended /\ pc[r] \in {"donor", "gateResume", "escrow", "plan", "heal", "healSuspend"}
       => operator = "suspended"
  /\ pc[r] \in {"scaleDown", "gone", "wipe", "helpers", "scaleUp", "resume"} => operator = "suspended"
  /\ pc[r] \in {"gone", "wipe", "helpers", "scaleUp"} => size = target[r]
  /\ pc[r] = "ready" => r \notin crSuspended

\* A helper, at work or left behind, has its datadir for itself.
Sealed(r) ==
  helper[r] # NoNode =>
    /\ operator = "suspended" /\ size <= helper[r] /\ helper[r] \notin up
    /\ \/ pc[r] \in {"wipe", "dead"}
       \/ ~Live(r) /\ pc[r] \in {"rescueHelpers", "rescueScale", "rescueResume", "done"}
       \/ ~Live(r) /\ pc[r] = "cleanup" /\ r \notin crSuspended
    /\ pc[r] = "wipe" => helper[r] = target[r]

\* At its target's datadir there is a helper of the repair, or nothing runs in it.
Emptied(r) == pc[r] = "wipe" => target[r] \notin up /\ helper[r] \in {NoNode, target[r]}

\* Who serves has the latest commits, and so has who would form the cluster anew.
Members ==
  /\ forced = NoNode
  /\ serving \subseteq current /\ marked \subseteq current
  /\ serving # {} => marked = {}
  /\ \A m, n \in marked : m = n

\* Nothing is healed before the first heal.
Unhealed == \A r \in Ops : pc[r] \in {"idle", "suspend", "donor", "escrow", "plan"} => healed[r] = {}

HonestInv ==
  /\ Turns
  /\ \A r \in Ops : Held(r) /\ Sealed(r) /\ Emptied(r)
  /\ Members
  /\ Unhealed

-----------------------------------------------------------------------------
(* Constants, calls and steps *)

\* What is assumed of the constants, together.
LEMMA Given ==
  /\ NoOne \notin Ops /\ Replicas \in Nat \ {0} /\ Highest \in Nodes
  /\ Nodes = 0..Highest /\ NoNode = Replicas /\ NoNode \notin Nodes
  /\ \A n \in Nodes : n >= Highest => n = Highest
  BY ClusterAssumption DEF Nodes, NoNode, Highest

\* What the environment does to the data, and leaves alone.
Onlookers ==
  /\ current' = IF serving = {} THEN current ELSE current \cup (serving' \ serving)
  /\ UNCHANGED <<interrupted, pc, locals>>

\* A step is one of a repair, of the environment, or of the cluster.
LEMMA StepCases ==
  ASSUME [Next]_vars
  PROVE  \/ \E o \in Ops :
              /\ UNCHANGED interrupted
              /\ \/ Assess(o) \/ SuspendForDonor(o) \/ ResolveDonor(o) \/ GateResume(o)
                 \/ Escrow(o) \/ PlanTargets(o) \/ Heal(o) \/ HealSuspend(o) \/ HealScaleDown(o)
                 \/ WaitGone(o) \/ Wipe(o) \/ FinishHelpers(o) \/ HealScaleUp(o) \/ HealResume(o)
                 \/ AwaitReady(o) \/ VerifyRecovery(o) \/ RescueHelpers(o) \/ RescueScale(o)
                 \/ RescueResume(o) \/ Cleanup(o)
         \/ \E o \in Ops : Interrupt(o) \/ Die(o) \/ HelperExpires(o)
         \/ /\ Onlookers
            /\ \/ OperatorScales \/ OperatorWrites
               \/ \E n \in Nodes : PodStarts(n) \/ PodStops(n) \/ NodeFails(n) \/ NodeServes(n)
         \/ Commit
         \/ UNCHANGED vars
  BY DEF Next, Step, World, Environment, Onlookers

-----------------------------------------------------------------------------
(* What a step that makes a call may leave behind: the call takes effect and is seen to,    *)
(* or it is not seen to, and the effect may be there or not.                                *)

\* A suspend that is seen to work is one Cleanup has to undo.
LEMMA SuspendForDonorIs ==
  ASSUME NEW o \in Ops, SuspendForDonor(o)
  PROVE  /\ pc[o] = "suspend"
         /\ \/ /\ operator' = "suspended" /\ crSuspended' = crSuspended \cup {o}
               /\ Goto(o, "donor") /\ UNCHANGED outcome
            \/ /\ operator' = operator \/ ("suspend" \in MayMislead /\ operator' = "suspended")
               /\ Fail(o, "cleanup") /\ UNCHANGED crSuspended
         /\ UNCHANGED <<lock, lockAge, forced, nodes, helper, candidates, needsHeal, donor, target,
                         scaledDown, healed, warned, current>> /\ fresh' \in {fresh, {}}
<1>1. PICK ok \in Outcomes :
         /\ SuspendCR(Live(o), ok) /\ Then(o, ok, "donor", "cleanup")
           /\ crSuspended' = IF ok THEN crSuspended \cup {o} ELSE crSuspended
  BY DEF SuspendForDonor, Outcomes
<1>2. CASE ok = TRUE
  BY <1>1, <1>2 DEF SuspendForDonor, SuspendCR, Answer, Then, Goto, Fail, Touched, nodes
<1>3. CASE ok = FALSE
  BY <1>1, <1>3 DEF SuspendForDonor, SuspendCR, Answer, Then, Goto, Fail, Touched, nodes
<1> QED
  BY <1>2, <1>3 DEF Outcomes

\* The gate's resume is not repeated, done or not.
LEMMA GateResumeIs ==
  ASSUME NEW o \in Ops, GateResume(o)
  PROVE  /\ pc[o] = "gateResume" /\ Goto(o, "cleanup") /\ crSuspended' = crSuspended \ {o}
         /\ operator' = operator \/ (Live(o) /\ operator' = "active")
         /\ operator' = "active" \/ ~Live(o) \/ "resume" \in MayFail
         /\ UNCHANGED <<lock, lockAge, forced, nodes, helper, candidates, needsHeal, donor, target,
                         scaledDown, healed, outcome, warned, current>> /\ fresh' \in {fresh, {}}
<1>1. PICK ok \in Outcomes :
         ResumeCR(Live(o), ok)
  BY DEF GateResume, Outcomes
<1>2. CASE ok = TRUE
  BY <1>1, <1>2 DEF GateResume, ResumeCR, Answer, Goto, Touched, nodes
<1>3. CASE ok = FALSE
  BY <1>1, <1>3 DEF GateResume, ResumeCR, Answer, Goto, Touched, nodes
<1> QED
  BY <1>2, <1>3 DEF Outcomes

\* A scale-down that is seen to work leaves out the target.
LEMMA HealScaleDownIs ==
  ASSUME NEW o \in Ops, HealScaleDown(o)
  PROVE  /\ pc[o] = "scaleDown"
         /\ \/ size' = target[o] /\ Goto(o, "gone") /\ UNCHANGED outcome
            \/ /\ size' = size \/ ("scale" \in MayMislead /\ size' = target[o])
               /\ Fail(o, "rescueHelpers")
         /\ scaledDown' \in {scaledDown, scaledDown \cup {o}}
         /\ UNCHANGED <<resource, up, serving, marked, helper, candidates, needsHeal, donor, target,
                         crSuspended, healed, warned, current>>
<1>1. PICK ok \in Outcomes :
         /\ ScaleStatefulSet(Live(o), target[o], ok) /\ Then(o, ok, "gone", "rescueHelpers")
           /\ scaledDown' = IF ok THEN scaledDown \cup {o} ELSE scaledDown
  BY DEF HealScaleDown, Outcomes
<1>2. CASE ok = TRUE
  BY <1>1, <1>2 DEF HealScaleDown, ScaleStatefulSet, Answer, Then, Goto, Fail, resource
<1>3. CASE ok = FALSE
  BY <1>1, <1>3 DEF HealScaleDown, ScaleStatefulSet, Answer, Then, Goto, Fail, resource
<1> QED
  BY <1>2, <1>3 DEF Outcomes

\* A scale-up that is seen to work leaves out nobody.
LEMMA HealScaleUpIs ==
  ASSUME NEW o \in Ops, HealScaleUp(o)
  PROVE  /\ pc[o] = "scaleUp"
         /\ \/ size' = Replicas /\ Goto(o, "resume") /\ UNCHANGED outcome
            \/ size' \in {size, Replicas} /\ Fail(o, "rescueHelpers")
         /\ scaledDown' \in {scaledDown, scaledDown \ {o}}
         /\ UNCHANGED <<resource, up, serving, marked, helper, candidates, needsHeal, donor, target,
                         crSuspended, healed, warned, current>>
<1>1. PICK ok \in Outcomes :
         /\ ScaleStatefulSet(Live(o), Replicas, ok) /\ Then(o, ok, "resume", "rescueHelpers")
           /\ scaledDown' = IF ok THEN scaledDown \ {o} ELSE scaledDown
  BY DEF HealScaleUp, Outcomes
<1>2. CASE ok = TRUE
  BY <1>1, <1>2 DEF HealScaleUp, ScaleStatefulSet, Answer, Then, Goto, Fail, resource
<1>3. CASE ok = FALSE
  BY <1>1, <1>3 DEF HealScaleUp, ScaleStatefulSet, Answer, Then, Goto, Fail, resource
<1> QED
  BY <1>2, <1>3 DEF Outcomes

\* Until its resume is seen to work a repair still has one to make.
LEMMA HealResumeIs ==
  ASSUME NEW o \in Ops, HealResume(o)
  PROVE  /\ pc[o] = "resume"
         /\ \/ /\ operator' = "active" /\ crSuspended' = crSuspended \ {o}
               /\ Goto(o, "ready") /\ UNCHANGED outcome
            \/ /\ operator' \in {operator, "active"} /\ UNCHANGED crSuspended
               /\ Fail(o, "rescueHelpers")
         /\ UNCHANGED <<lock, lockAge, forced, nodes, helper, candidates, needsHeal, donor, target,
                         scaledDown, healed, warned, current>> /\ fresh' \in {fresh, {}}
<1>1. PICK ok \in Outcomes :
         /\ ResumeCR(Live(o), ok) /\ Then(o, ok, "ready", "rescueHelpers")
           /\ crSuspended' = IF ok THEN crSuspended \ {o} ELSE crSuspended
  BY DEF HealResume, Outcomes
<1>2. CASE ok = TRUE
  BY <1>1, <1>2 DEF HealResume, ResumeCR, Answer, Then, Goto, Fail, Touched, nodes
<1>3. CASE ok = FALSE
  BY <1>1, <1>3 DEF HealResume, ResumeCR, Answer, Then, Goto, Fail, Touched, nodes
<1> QED
  BY <1>2, <1>3 DEF Outcomes

\* A live rescue scales up again, or tries to.
LEMMA RescueScaleIs ==
  ASSUME NEW o \in Ops, RescueScale(o)
  PROVE  /\ pc[o] = "rescueScale" /\ Goto(o, "rescueResume")
         /\ size' = size \/ (Live(o) /\ size' = Replicas)
         /\ UNCHANGED <<resource, up, serving, marked, helper, locals, current>>
<1>1. PICK ok \in Outcomes :
         \/ ScaleStatefulSet(Live(o), Replicas, ok)
         \/ UNCHANGED size
  BY DEF RescueScale, Outcomes
<1>2. CASE ok = TRUE
  BY <1>1, <1>2 DEF RescueScale, ScaleStatefulSet, Answer, Goto, resource, locals
<1>3. CASE ok = FALSE
  BY <1>1, <1>3 DEF RescueScale, ScaleStatefulSet, Answer, Goto, resource, locals
<1> QED
  BY <1>2, <1>3 DEF Outcomes

\* The rescue's resume is not repeated, done or not.
LEMMA RescueResumeIs ==
  ASSUME NEW o \in Ops, RescueResume(o)
  PROVE  /\ pc[o] = "rescueResume" /\ Goto(o, "cleanup") /\ crSuspended' = crSuspended \ {o}
         /\ operator' = operator \/ (Live(o) /\ operator' = "active")
         /\ operator' = "active" \/ ~Live(o) \/ "resume" \in MayFail
         /\ UNCHANGED <<lock, lockAge, forced, nodes, helper, candidates, needsHeal, donor, target,
                         scaledDown, healed, outcome, warned, current>> /\ fresh' \in {fresh, {}}
<1>1. PICK ok \in Outcomes :
         ResumeCR(Live(o), ok)
  BY DEF RescueResume, Outcomes
<1>2. CASE ok = TRUE
  BY <1>1, <1>2 DEF RescueResume, ResumeCR, Answer, Goto, Touched, nodes
<1>3. CASE ok = FALSE
  BY <1>1, <1>3 DEF RescueResume, ResumeCR, Answer, Goto, Touched, nodes
<1> QED
  BY <1>2, <1>3 DEF Outcomes

\* A repair's own suspend, made once, is kept from donor to target.
LEMMA HealSuspendIs ==
  ASSUME NEW o \in Ops, HealSuspend(o)
  PROVE  /\ pc[o] = "healSuspend"
         /\ \/ /\ operator' = "suspended" \/ (o \in crSuspended /\ operator' = operator)
               /\ crSuspended' = crSuspended \cup {o}
               /\ Goto(o, "scaleDown") /\ UNCHANGED outcome
            \/ /\ operator' = operator \/ ("suspend" \in MayMislead /\ operator' = "suspended")
               /\ Fail(o, "cleanup") /\ UNCHANGED crSuspended
         /\ UNCHANGED <<lock, lockAge, forced, nodes, helper, candidates, needsHeal, donor, target,
                         scaledDown, healed, warned, current>> /\ fresh' \in {fresh, {}}
<1>1. CASE o \in crSuspended
  BY <1>1 DEF HealSuspend, Goto, resource
<1>2. CASE o \notin crSuspended
  <2>1. PICK ok \in Outcomes :
           /\ SuspendCR(Live(o), ok) /\ Then(o, ok, "scaleDown", "cleanup")
           /\ crSuspended' = IF ok THEN crSuspended \cup {o} ELSE crSuspended
    BY <1>2 DEF HealSuspend
  <2>2. CASE ok = TRUE
    BY <2>1, <2>2 DEF HealSuspend, SuspendCR, Answer, Then, Goto, Touched, resource
  <2>3. CASE ok = FALSE
    BY <2>1, <2>3 DEF HealSuspend, SuspendCR, Answer, Then, Fail, Goto, Touched, resource
  <2> QED
    BY <2>2, <2>3 DEF Outcomes
<1> QED
  BY <1>1, <1>2

\* Cleanup resumes the operator, interrupted or not, or says that it could not.
LEMMA CleanupIs ==
  ASSUME NEW o \in Ops, Cleanup(o)
  PROVE  /\ pc[o] = "cleanup" /\ Goto(o, "done")
         /\ \/ o \notin crSuspended /\ UNCHANGED <<resource, crSuspended, warned>>
            \/ /\ o \in crSuspended /\ operator' = "active"
               /\ crSuspended' = crSuspended \ {o} /\ UNCHANGED warned
            \/ /\ o \in crSuspended /\ "resume" \in MayFail /\ operator' \in {operator, "active"}
               /\ warned' = warned \cup {o} /\ UNCHANGED crSuspended
         /\ UNCHANGED <<lock, lockAge, forced, nodes, helper, candidates, needsHeal, donor, target,
                         scaledDown, healed, outcome, current>> /\ fresh' \in {fresh, {}}
<1>1. CASE o \notin crSuspended
  BY <1>1 DEF Cleanup, Goto, resource
<1>2. CASE o \in crSuspended
  <2>1. PICK ok \in Outcomes :
           /\ ResumeCR(TRUE, ok)
           /\ crSuspended' = IF ok THEN crSuspended \ {o} ELSE crSuspended
           /\ warned' = IF ok THEN warned ELSE warned \cup {o}
    BY <1>2 DEF Cleanup
  <2>2. CASE ok = TRUE
    BY <1>2, <2>1, <2>2 DEF Cleanup, ResumeCR, Answer, Goto, Touched
  <2>3. CASE ok = FALSE
    BY <1>2, <2>1, <2>3 DEF Cleanup, ResumeCR, Answer, Goto, Touched
  <2> QED
    BY <2>2, <2>3 DEF Outcomes
<1> QED
  BY <1>1, <1>2

\* No primary component is not a case for repair.
LEMMA AssessIs ==
  ASSUME NEW o \in Ops, Assess(o)
  PROVE  /\ pc[o] = "idle" /\ (Overlap \/ \A p \in Ops : pc[p] \in {"idle"} \cup Ended)
         /\ candidates' = [candidates EXCEPT ![o] = serving]
         /\ \E sick \in SUBSET Nodes : needsHeal' = [needsHeal EXCEPT ![o] = sick]
         /\ (Goto(o, "suspend") /\ UNCHANGED outcome) \/ Fail(o, "cleanup")
         /\ UNCHANGED <<cluster, donor, target, crSuspended, scaledDown, healed, warned, current>>
  BY DEF Assess, Then

\* The donor is one that triage saw serving.
LEMMA ResolveDonorIs ==
  ASSUME NEW o \in Ops, ResolveDonor(o)
  PROVE  /\ pc[o] = "donor"
         /\ \E d \in candidates[o] : donor' \in {donor, [donor EXCEPT ![o] = d]}
         /\ (Goto(o, "escrow") /\ UNCHANGED outcome) \/ Fail(o, "gateResume")
         /\ UNCHANGED <<cluster, candidates, needsHeal, target, crSuspended, scaledDown, healed,
                        warned, current>>
  BY DEF ResolveDonor, Then

\* Without an escrow nothing is healed.
LEMMA EscrowIs ==
  ASSUME NEW o \in Ops, Escrow(o)
  PROVE  /\ pc[o] = "escrow"
         /\ (Goto(o, "plan") /\ UNCHANGED outcome) \/ Fail(o, "cleanup")
         /\ UNCHANGED <<cluster, candidates, needsHeal, donor, target, crSuspended, scaledDown,
                        healed, warned, current>>
  BY DEF Escrow, Then

\* Only the highest ordinal is healed.
LEMMA HealIs ==
  ASSUME NEW o \in Ops, Heal(o)
  PROVE  /\ pc[o] = "heal"
         /\ \E t \in needsHeal[o] :
              /\ target' = [target EXCEPT ![o] = t]
              /\ \/ t = Highest /\ Goto(o, "healSuspend") /\ UNCHANGED outcome
                 \/ Fail(o, "cleanup")
         /\ UNCHANGED <<cluster, candidates, needsHeal, donor, crSuspended, scaledDown, healed,
                        warned, current>>
<1>1. PICK t \in needsHeal[o] :
         /\ target' = [target EXCEPT ![o] = t]
         /\ Then(o, t = Replicas - 1 /\ donor[o] # NoNode, "healSuspend", "cleanup")
  BY DEF Heal
<1>2. \/ t = Highest /\ Goto(o, "healSuspend") /\ UNCHANGED outcome
      \/ Fail(o, "cleanup")
  BY <1>1 DEF Then, Highest
<1> QED
  BY <1>1, <1>2 DEF Heal

\* The configuration volume is finished, by a live repair, or the rescue begins.
LEMMA FinishHelpersIs ==
  ASSUME NEW o \in Ops, FinishHelpers(o)
  PROVE  /\ pc[o] = "helpers"
         /\ (Goto(o, "scaleUp") /\ UNCHANGED outcome) \/ Fail(o, "rescueHelpers")
         /\ UNCHANGED <<cluster, candidates, needsHeal, donor, target, crSuspended, scaledDown,
                        healed, warned, current>>
  BY DEF FinishHelpers, Then

-----------------------------------------------------------------------------
(* Types *)

\* Every step keeps the types.
LEMMA TypedNext ==
  ASSUME TypeOK, [Next]_vars
  PROVE  TypeOK'
<1> USE Given DEF TypeOK, ClusterTypeOK, Goto, Fail, resource, nodes, cluster, locals, Working,
        Ended, Onlookers, vars
<1>1. ASSUME NEW o \in Ops, Assess(o), UNCHANGED interrupted PROVE TypeOK'
  <2>1. pc' \in [Ops -> {"idle"} \cup Working \cup Ended]
    BY <1>1, AssessIs
  <2>2. outcome' \in [Ops -> {"none", "ok", "error"}]
    BY <1>1, AssessIs
  <2>3. candidates' \in [Ops -> SUBSET Nodes] /\ needsHeal' \in [Ops -> SUBSET Nodes]
    <3>1. candidates' = [candidates EXCEPT ![o] = serving] /\ serving \in SUBSET Nodes
      BY <1>1, AssessIs
    <3>2. PICK sick \in SUBSET Nodes : needsHeal' = [needsHeal EXCEPT ![o] = sick]
      BY <1>1, AssessIs
    <3> QED
      BY <3>1, <3>2
  <2>4. donor' \in [Ops -> Nodes \cup {NoNode}] /\ target' \in [Ops -> Nodes \cup {NoNode}]
    BY <1>1, AssessIs
  <2>5. crSuspended' \subseteq Ops /\ scaledDown' \subseteq Ops /\ warned' \subseteq Ops
    BY <1>1, AssessIs
  <2>6. healed' \in [Ops -> SUBSET Nodes] /\ current' \subseteq Nodes
    BY <1>1, AssessIs
  <2>7. size' \in 0..Replicas
    BY <1>1, AssessIs
  <2>8. ClusterTypeOK'
    BY <1>1, AssessIs, <2>7
  <2> QED
    BY <2>1, <2>2, <2>3, <2>4, <2>5, <2>6, <2>7, <2>8
<1>2. ASSUME NEW o \in Ops, SuspendForDonor(o), UNCHANGED interrupted PROVE TypeOK'
  <2>1. pc' \in [Ops -> {"idle"} \cup Working \cup Ended]
    BY <1>2, SuspendForDonorIs
  <2>2. outcome' \in [Ops -> {"none", "ok", "error"}]
    BY <1>2, SuspendForDonorIs
  <2>3. candidates' \in [Ops -> SUBSET Nodes] /\ needsHeal' \in [Ops -> SUBSET Nodes]
    BY <1>2, SuspendForDonorIs
  <2>4. donor' \in [Ops -> Nodes \cup {NoNode}] /\ target' \in [Ops -> Nodes \cup {NoNode}]
    BY <1>2, SuspendForDonorIs
  <2>5. crSuspended' \subseteq Ops /\ scaledDown' \subseteq Ops /\ warned' \subseteq Ops
    BY <1>2, SuspendForDonorIs
  <2>6. healed' \in [Ops -> SUBSET Nodes] /\ current' \subseteq Nodes
    BY <1>2, SuspendForDonorIs
  <2>7. size' \in 0..Replicas
    BY <1>2, SuspendForDonorIs
  <2>8. ClusterTypeOK'
    BY <1>2, SuspendForDonorIs, <2>7
  <2> QED
    BY <2>1, <2>2, <2>3, <2>4, <2>5, <2>6, <2>7, <2>8
<1>3. ASSUME NEW o \in Ops, ResolveDonor(o), UNCHANGED interrupted PROVE TypeOK'
  <2>1. pc' \in [Ops -> {"idle"} \cup Working \cup Ended]
    BY <1>3, ResolveDonorIs
  <2>2. outcome' \in [Ops -> {"none", "ok", "error"}]
    BY <1>3, ResolveDonorIs
  <2>3. candidates' \in [Ops -> SUBSET Nodes] /\ needsHeal' \in [Ops -> SUBSET Nodes]
    BY <1>3, ResolveDonorIs
  <2>4. donor' \in [Ops -> Nodes \cup {NoNode}] /\ target' \in [Ops -> Nodes \cup {NoNode}]
    BY <1>3, ResolveDonorIs
  <2>5. crSuspended' \subseteq Ops /\ scaledDown' \subseteq Ops /\ warned' \subseteq Ops
    BY <1>3, ResolveDonorIs
  <2>6. healed' \in [Ops -> SUBSET Nodes] /\ current' \subseteq Nodes
    BY <1>3, ResolveDonorIs
  <2>7. size' \in 0..Replicas
    BY <1>3, ResolveDonorIs
  <2>8. ClusterTypeOK'
    BY <1>3, ResolveDonorIs, <2>7
  <2> QED
    BY <2>1, <2>2, <2>3, <2>4, <2>5, <2>6, <2>7, <2>8
<1>4. ASSUME NEW o \in Ops, GateResume(o), UNCHANGED interrupted PROVE TypeOK'
  <2>1. ClusterTypeOK'
    BY <1>4, GateResumeIs
  <2>2. pc' \in [Ops -> {"idle"} \cup Working \cup Ended]
    BY <1>4, GateResumeIs
  <2>3. outcome' \in [Ops -> {"none", "ok", "error"}]
    BY <1>4, GateResumeIs
  <2>4. /\ candidates' \in [Ops -> SUBSET Nodes] /\ healed' \in [Ops -> SUBSET Nodes]
        /\ donor' \in [Ops -> Nodes \cup {NoNode}] /\ target' \in [Ops -> Nodes \cup {NoNode}]
        /\ crSuspended' \subseteq Ops /\ scaledDown' \subseteq Ops /\ warned' \subseteq Ops
        /\ current' \subseteq Nodes
    BY <1>4, GateResumeIs
  <2>5. needsHeal' \in [Ops -> SUBSET Nodes]
    BY <1>4, GateResumeIs
  <2> QED
    BY <2>1, <2>2, <2>3, <2>4, <2>5
<1>5. ASSUME NEW o \in Ops, Escrow(o), UNCHANGED interrupted PROVE TypeOK'
  <2>1. pc' \in [Ops -> {"idle"} \cup Working \cup Ended]
    BY <1>5, EscrowIs
  <2>2. outcome' \in [Ops -> {"none", "ok", "error"}]
    BY <1>5, EscrowIs
  <2>3. candidates' \in [Ops -> SUBSET Nodes] /\ needsHeal' \in [Ops -> SUBSET Nodes]
    BY <1>5, EscrowIs
  <2>4. donor' \in [Ops -> Nodes \cup {NoNode}] /\ target' \in [Ops -> Nodes \cup {NoNode}]
    BY <1>5, EscrowIs
  <2>5. crSuspended' \subseteq Ops /\ scaledDown' \subseteq Ops /\ warned' \subseteq Ops
    BY <1>5, EscrowIs
  <2>6. healed' \in [Ops -> SUBSET Nodes] /\ current' \subseteq Nodes
    BY <1>5, EscrowIs
  <2>7. size' \in 0..Replicas
    BY <1>5, EscrowIs
  <2>8. ClusterTypeOK'
    BY <1>5, EscrowIs, <2>7
  <2> QED
    BY <2>1, <2>2, <2>3, <2>4, <2>5, <2>6, <2>7, <2>8
<1>6. ASSUME NEW o \in Ops, PlanTargets(o), UNCHANGED interrupted PROVE TypeOK'
  <2>1. ClusterTypeOK'
    BY <1>6 DEF PlanTargets
  <2>2. pc' \in [Ops -> {"idle"} \cup Working \cup Ended]
    BY <1>6 DEF PlanTargets
  <2>3. outcome' \in [Ops -> {"none", "ok", "error"}]
    BY <1>6 DEF PlanTargets
  <2>4. /\ candidates' \in [Ops -> SUBSET Nodes] /\ healed' \in [Ops -> SUBSET Nodes]
        /\ donor' \in [Ops -> Nodes \cup {NoNode}] /\ target' \in [Ops -> Nodes \cup {NoNode}]
        /\ crSuspended' \subseteq Ops /\ scaledDown' \subseteq Ops /\ warned' \subseteq Ops
        /\ current' \subseteq Nodes
    BY <1>6 DEF PlanTargets
  <2>5. needsHeal' \in [Ops -> SUBSET Nodes]
    BY <1>6 DEF PlanTargets
  <2> QED
    BY <2>1, <2>2, <2>3, <2>4, <2>5
<1>7. ASSUME NEW o \in Ops, Heal(o), UNCHANGED interrupted PROVE TypeOK'
  <2>1. pc' \in [Ops -> {"idle"} \cup Working \cup Ended]
    BY <1>7, HealIs
  <2>2. outcome' \in [Ops -> {"none", "ok", "error"}]
    BY <1>7, HealIs
  <2>3. candidates' \in [Ops -> SUBSET Nodes] /\ needsHeal' \in [Ops -> SUBSET Nodes]
    BY <1>7, HealIs
  <2>4. donor' \in [Ops -> Nodes \cup {NoNode}] /\ target' \in [Ops -> Nodes \cup {NoNode}]
    <3>1. PICK t \in Nodes : target' = [target EXCEPT ![o] = t]
      BY <1>7, HealIs
    <3>2. donor' = donor
      BY <1>7, HealIs
    <3> QED
      BY <3>1, <3>2
  <2>5. crSuspended' \subseteq Ops /\ scaledDown' \subseteq Ops /\ warned' \subseteq Ops
    BY <1>7, HealIs
  <2>6. healed' \in [Ops -> SUBSET Nodes] /\ current' \subseteq Nodes
    BY <1>7, HealIs
  <2>7. size' \in 0..Replicas
    BY <1>7, HealIs
  <2>8. ClusterTypeOK'
    BY <1>7, HealIs, <2>7
  <2> QED
    BY <2>1, <2>2, <2>3, <2>4, <2>5, <2>6, <2>7, <2>8
<1>8. ASSUME NEW o \in Ops, HealSuspend(o), UNCHANGED interrupted PROVE TypeOK'
  <2>1. pc' \in [Ops -> {"idle"} \cup Working \cup Ended]
    BY <1>8, HealSuspendIs
  <2>2. outcome' \in [Ops -> {"none", "ok", "error"}]
    BY <1>8, HealSuspendIs
  <2>3. candidates' \in [Ops -> SUBSET Nodes] /\ needsHeal' \in [Ops -> SUBSET Nodes]
    BY <1>8, HealSuspendIs
  <2>4. donor' \in [Ops -> Nodes \cup {NoNode}] /\ target' \in [Ops -> Nodes \cup {NoNode}]
    BY <1>8, HealSuspendIs
  <2>5. crSuspended' \subseteq Ops /\ scaledDown' \subseteq Ops /\ warned' \subseteq Ops
    BY <1>8, HealSuspendIs
  <2>6. healed' \in [Ops -> SUBSET Nodes] /\ current' \subseteq Nodes
    BY <1>8, HealSuspendIs
  <2>7. size' \in 0..Replicas
    BY <1>8, HealSuspendIs
  <2>8. ClusterTypeOK'
    BY <1>8, HealSuspendIs, <2>7
  <2> QED
    BY <2>1, <2>2, <2>3, <2>4, <2>5, <2>6, <2>7, <2>8
<1>9. ASSUME NEW o \in Ops, HealScaleDown(o), UNCHANGED interrupted PROVE TypeOK'
  <2>1. pc' \in [Ops -> {"idle"} \cup Working \cup Ended]
    BY <1>9, HealScaleDownIs
  <2>2. outcome' \in [Ops -> {"none", "ok", "error"}]
    BY <1>9, HealScaleDownIs
  <2>3. candidates' \in [Ops -> SUBSET Nodes] /\ needsHeal' \in [Ops -> SUBSET Nodes]
    BY <1>9, HealScaleDownIs
  <2>4. donor' \in [Ops -> Nodes \cup {NoNode}] /\ target' \in [Ops -> Nodes \cup {NoNode}]
    BY <1>9, HealScaleDownIs
  <2>5. crSuspended' \subseteq Ops /\ scaledDown' \subseteq Ops /\ warned' \subseteq Ops
    BY <1>9, HealScaleDownIs
  <2>6. healed' \in [Ops -> SUBSET Nodes] /\ current' \subseteq Nodes
    BY <1>9, HealScaleDownIs
  <2>7. size' \in 0..Replicas
    BY <1>9, HealScaleDownIs
  <2>8. ClusterTypeOK'
    BY <1>9, HealScaleDownIs, <2>7
  <2> QED
    BY <2>1, <2>2, <2>3, <2>4, <2>5, <2>6, <2>7, <2>8
<1>10. ASSUME NEW o \in Ops, WaitGone(o), UNCHANGED interrupted PROVE TypeOK'
  BY <1>10 DEF WaitGone
<1>11. ASSUME NEW o \in Ops, Wipe(o), UNCHANGED interrupted PROVE TypeOK'
  <2>1. pc' \in [Ops -> {"idle"} \cup Working \cup Ended]
    BY <1>11 DEF Wipe, HelperGone
  <2>2. outcome' \in [Ops -> {"none", "ok", "error"}]
    BY <1>11 DEF Wipe, HelperGone
  <2>3. candidates' \in [Ops -> SUBSET Nodes] /\ needsHeal' \in [Ops -> SUBSET Nodes]
    BY <1>11 DEF Wipe, HelperGone
  <2>4. donor' \in [Ops -> Nodes \cup {NoNode}] /\ target' \in [Ops -> Nodes \cup {NoNode}]
    BY <1>11 DEF Wipe, HelperGone
  <2>5. crSuspended' \subseteq Ops /\ scaledDown' \subseteq Ops /\ warned' \subseteq Ops
    BY <1>11 DEF Wipe, HelperGone
  <2>6. healed' \in [Ops -> SUBSET Nodes] /\ current' \subseteq Nodes
    BY <1>11 DEF Wipe, HelperGone
  <2>7. size' \in 0..Replicas
    BY <1>11 DEF Wipe, HelperGone
  <2>8. ClusterTypeOK'
    <3>1. helper' \in [Ops -> Nodes \cup {NoNode}]
      BY <1>11 DEF Wipe, HelperGone
    <3>2. marked' \subseteq Nodes
      BY <1>11 DEF Wipe
    <3> QED
      BY <1>11, <2>7, <3>1, <3>2 DEF Wipe
  <2> QED
    BY <2>1, <2>2, <2>3, <2>4, <2>5, <2>6, <2>7, <2>8
<1>12. ASSUME NEW o \in Ops, FinishHelpers(o), UNCHANGED interrupted PROVE TypeOK'
  <2>1. ClusterTypeOK'
    BY <1>12, FinishHelpersIs
  <2>2. pc' \in [Ops -> {"idle"} \cup Working \cup Ended]
    BY <1>12, FinishHelpersIs
  <2>3. outcome' \in [Ops -> {"none", "ok", "error"}]
    BY <1>12, FinishHelpersIs
  <2>4. /\ candidates' \in [Ops -> SUBSET Nodes] /\ healed' \in [Ops -> SUBSET Nodes]
        /\ donor' \in [Ops -> Nodes \cup {NoNode}] /\ target' \in [Ops -> Nodes \cup {NoNode}]
        /\ crSuspended' \subseteq Ops /\ scaledDown' \subseteq Ops /\ warned' \subseteq Ops
        /\ current' \subseteq Nodes
    BY <1>12, FinishHelpersIs
  <2>5. needsHeal' \in [Ops -> SUBSET Nodes]
    BY <1>12, FinishHelpersIs
  <2> QED
    BY <2>1, <2>2, <2>3, <2>4, <2>5
<1>13. ASSUME NEW o \in Ops, HealScaleUp(o), UNCHANGED interrupted PROVE TypeOK'
  <2>1. pc' \in [Ops -> {"idle"} \cup Working \cup Ended]
    <3>1. \/ pc' = [pc EXCEPT ![o] = "resume"]
          \/ pc' = [pc EXCEPT ![o] = "rescueHelpers"]
      BY <1>13, HealScaleUpIs
    <3> QED
      BY <3>1
  <2>2. outcome' \in [Ops -> {"none", "ok", "error"}]
    BY <1>13, HealScaleUpIs
  <2>3. candidates' \in [Ops -> SUBSET Nodes] /\ needsHeal' \in [Ops -> SUBSET Nodes]
    BY <1>13, HealScaleUpIs
  <2>4. donor' \in [Ops -> Nodes \cup {NoNode}] /\ target' \in [Ops -> Nodes \cup {NoNode}]
    BY <1>13, HealScaleUpIs
  <2>5. crSuspended' \subseteq Ops /\ scaledDown' \subseteq Ops /\ warned' \subseteq Ops
    BY <1>13, HealScaleUpIs
  <2>6. healed' \in [Ops -> SUBSET Nodes] /\ current' \subseteq Nodes
    BY <1>13, HealScaleUpIs
  <2>7. size' \in 0..Replicas
    BY <1>13, HealScaleUpIs
  <2>8. ClusterTypeOK'
    BY <1>13, HealScaleUpIs, <2>7
  <2> QED
    BY <2>1, <2>2, <2>3, <2>4, <2>5, <2>6, <2>7, <2>8
<1>14. ASSUME NEW o \in Ops, HealResume(o), UNCHANGED interrupted PROVE TypeOK'
  <2>1. ClusterTypeOK'
    BY <1>14, HealResumeIs
  <2>2. pc' \in [Ops -> {"idle"} \cup Working \cup Ended]
    BY <1>14, HealResumeIs
  <2>3. outcome' \in [Ops -> {"none", "ok", "error"}]
    BY <1>14, HealResumeIs
  <2>4. /\ candidates' \in [Ops -> SUBSET Nodes] /\ healed' \in [Ops -> SUBSET Nodes]
        /\ donor' \in [Ops -> Nodes \cup {NoNode}] /\ target' \in [Ops -> Nodes \cup {NoNode}]
        /\ crSuspended' \subseteq Ops /\ scaledDown' \subseteq Ops /\ warned' \subseteq Ops
        /\ current' \subseteq Nodes
    BY <1>14, HealResumeIs
  <2>5. needsHeal' \in [Ops -> SUBSET Nodes]
    BY <1>14, HealResumeIs
  <2> QED
    BY <2>1, <2>2, <2>3, <2>4, <2>5
<1>15. ASSUME NEW o \in Ops, AwaitReady(o), UNCHANGED interrupted PROVE TypeOK'
  <2>1. pc' \in [Ops -> {"idle"} \cup Working \cup Ended]
    BY <1>15 DEF AwaitReady
  <2>2. outcome' \in [Ops -> {"none", "ok", "error"}]
    BY <1>15 DEF AwaitReady
  <2>3. candidates' \in [Ops -> SUBSET Nodes] /\ needsHeal' \in [Ops -> SUBSET Nodes]
    BY <1>15 DEF AwaitReady
  <2>4. donor' \in [Ops -> Nodes \cup {NoNode}] /\ target' \in [Ops -> Nodes \cup {NoNode}]
    BY <1>15 DEF AwaitReady
  <2>5. crSuspended' \subseteq Ops /\ scaledDown' \subseteq Ops /\ warned' \subseteq Ops
    BY <1>15 DEF AwaitReady
  <2>6. healed' \in [Ops -> SUBSET Nodes] /\ current' \subseteq Nodes
    BY <1>15 DEF AwaitReady
  <2>7. size' \in 0..Replicas
    BY <1>15 DEF AwaitReady
  <2>8. ClusterTypeOK'
    BY <1>15, <2>7 DEF AwaitReady
  <2> QED
    BY <2>1, <2>2, <2>3, <2>4, <2>5, <2>6, <2>7, <2>8
<1>16. ASSUME NEW o \in Ops, VerifyRecovery(o), UNCHANGED interrupted PROVE TypeOK'
  BY <1>16 DEF VerifyRecovery
<1>17. ASSUME NEW o \in Ops, RescueHelpers(o), UNCHANGED interrupted PROVE TypeOK'
  BY <1>17 DEF RescueHelpers, HelperGone
<1>18. ASSUME NEW o \in Ops, RescueScale(o), UNCHANGED interrupted PROVE TypeOK'
  <2>1. pc' \in [Ops -> {"idle"} \cup Working \cup Ended]
    BY <1>18, RescueScaleIs
  <2>2. outcome' \in [Ops -> {"none", "ok", "error"}]
    BY <1>18, RescueScaleIs
  <2>3. candidates' \in [Ops -> SUBSET Nodes] /\ needsHeal' \in [Ops -> SUBSET Nodes]
    BY <1>18, RescueScaleIs
  <2>4. donor' \in [Ops -> Nodes \cup {NoNode}] /\ target' \in [Ops -> Nodes \cup {NoNode}]
    BY <1>18, RescueScaleIs
  <2>5. crSuspended' \subseteq Ops /\ scaledDown' \subseteq Ops /\ warned' \subseteq Ops
    BY <1>18, RescueScaleIs
  <2>6. healed' \in [Ops -> SUBSET Nodes] /\ current' \subseteq Nodes
    BY <1>18, RescueScaleIs
  <2>7. size' \in 0..Replicas
    BY <1>18, RescueScaleIs
  <2>8. ClusterTypeOK'
    BY <1>18, RescueScaleIs, <2>7
  <2> QED
    BY <2>1, <2>2, <2>3, <2>4, <2>5, <2>6, <2>7, <2>8
<1>19. ASSUME NEW o \in Ops, RescueResume(o), UNCHANGED interrupted PROVE TypeOK'
  <2>1. ClusterTypeOK'
    BY <1>19, RescueResumeIs
  <2>2. pc' \in [Ops -> {"idle"} \cup Working \cup Ended]
    BY <1>19, RescueResumeIs
  <2>3. outcome' \in [Ops -> {"none", "ok", "error"}]
    BY <1>19, RescueResumeIs
  <2>4. /\ candidates' \in [Ops -> SUBSET Nodes] /\ healed' \in [Ops -> SUBSET Nodes]
        /\ donor' \in [Ops -> Nodes \cup {NoNode}] /\ target' \in [Ops -> Nodes \cup {NoNode}]
        /\ crSuspended' \subseteq Ops /\ scaledDown' \subseteq Ops /\ warned' \subseteq Ops
        /\ current' \subseteq Nodes
    BY <1>19, RescueResumeIs
  <2>5. needsHeal' \in [Ops -> SUBSET Nodes]
    BY <1>19, RescueResumeIs
  <2> QED
    BY <2>1, <2>2, <2>3, <2>4, <2>5
<1>20. ASSUME NEW o \in Ops, Cleanup(o), UNCHANGED interrupted PROVE TypeOK'
  <2>1. pc' \in [Ops -> {"idle"} \cup Working \cup Ended]
    BY <1>20, CleanupIs
  <2>2. outcome' \in [Ops -> {"none", "ok", "error"}]
    BY <1>20, CleanupIs
  <2>3. candidates' \in [Ops -> SUBSET Nodes] /\ needsHeal' \in [Ops -> SUBSET Nodes]
    BY <1>20, CleanupIs
  <2>4. donor' \in [Ops -> Nodes \cup {NoNode}] /\ target' \in [Ops -> Nodes \cup {NoNode}]
    BY <1>20, CleanupIs
  <2>5. crSuspended' \subseteq Ops /\ scaledDown' \subseteq Ops /\ warned' \subseteq Ops
    BY <1>20, CleanupIs
  <2>6. healed' \in [Ops -> SUBSET Nodes] /\ current' \subseteq Nodes
    BY <1>20, CleanupIs
  <2>7. size' \in 0..Replicas
    BY <1>20, CleanupIs
  <2>8. ClusterTypeOK'
    BY <1>20, CleanupIs, <2>7
  <2> QED
    BY <2>1, <2>2, <2>3, <2>4, <2>5, <2>6, <2>7, <2>8
<1>21. ASSUME NEW o \in Ops, Interrupt(o) PROVE TypeOK'
  BY <1>21 DEF Interrupt
<1>22. ASSUME NEW o \in Ops, Die(o) PROVE TypeOK'
  BY <1>22 DEF Die
<1>23. ASSUME NEW o \in Ops, HelperExpires(o) PROVE TypeOK'
  BY <1>23 DEF HelperExpires
<1>24. ASSUME OperatorScales, Onlookers PROVE TypeOK'
  BY <1>24 DEF OperatorScales
<1>25. ASSUME OperatorWrites, Onlookers PROVE TypeOK'
  BY <1>25 DEF OperatorWrites
<1>26. ASSUME NEW n \in Nodes, PodStarts(n), Onlookers PROVE TypeOK'
  BY <1>26 DEF PodStarts
<1>27. ASSUME NEW n \in Nodes, PodStops(n), Onlookers PROVE TypeOK'
  BY <1>27 DEF PodStops
<1>28. ASSUME NEW n \in Nodes, NodeFails(n), Onlookers PROVE TypeOK'
  BY <1>28 DEF NodeFails
<1>29. ASSUME NEW n \in Nodes, NodeServes(n), Onlookers PROVE TypeOK'
  BY <1>29 DEF NodeServes
<1>30. ASSUME Commit PROVE TypeOK'
  BY <1>30 DEF Commit
<1>31. ASSUME UNCHANGED vars PROVE TypeOK'
  BY <1>31 DEF vars
<1> QED
  BY <1>1, <1>2, <1>3, <1>4, <1>5, <1>6, <1>7, <1>8, <1>9, <1>10, <1>11, <1>12, <1>13, <1>14,
     <1>15, <1>16, <1>17, <1>18, <1>19, <1>20, <1>21, <1>22, <1>23, <1>24, <1>25, <1>26,
     <1>27, <1>28, <1>29, <1>30, <1>31, StepCases


-----------------------------------------------------------------------------
(* Who is taken down *)

\* The StatefulSet leaves out the highest ordinal at most, for a repair that heals it.
LEMMA ScaledNext ==
  ASSUME TypeOK, Scaled, [Next]_vars
  PROVE  Scaled'
<1> USE Given DEF TypeOK, ClusterTypeOK, Scaled, Lowered, Goto, Fail, resource, nodes, cluster,
        locals, Working, Ended, Onlookers, vars
<1>1. ASSUME NEW o \in Ops, Assess(o), UNCHANGED interrupted PROVE Scaled'
  BY <1>1, AssessIs
<1>2. ASSUME NEW o \in Ops, SuspendForDonor(o), UNCHANGED interrupted PROVE Scaled'
  BY <1>2, SuspendForDonorIs
<1>3. ASSUME NEW o \in Ops, ResolveDonor(o), UNCHANGED interrupted PROVE Scaled'
  BY <1>3, ResolveDonorIs
<1>4. ASSUME NEW o \in Ops, GateResume(o), UNCHANGED interrupted PROVE Scaled'
  BY <1>4, GateResumeIs
<1>5. ASSUME NEW o \in Ops, Escrow(o), UNCHANGED interrupted PROVE Scaled'
  BY <1>5, EscrowIs
<1>6. ASSUME NEW o \in Ops, PlanTargets(o), UNCHANGED interrupted PROVE Scaled'
  BY <1>6 DEF PlanTargets
<1>7. ASSUME NEW o \in Ops, Heal(o), UNCHANGED interrupted PROVE Scaled'
  BY <1>7, HealIs
<1>8. ASSUME NEW o \in Ops, HealSuspend(o), UNCHANGED interrupted PROVE Scaled'
  BY <1>8, HealSuspendIs
<1>9. ASSUME NEW o \in Ops, HealScaleDown(o), UNCHANGED interrupted PROVE Scaled'
  BY <1>9, HealScaleDownIs
<1>10. ASSUME NEW o \in Ops, WaitGone(o), UNCHANGED interrupted PROVE Scaled'
  BY <1>10 DEF WaitGone
<1>11. ASSUME NEW o \in Ops, Wipe(o), UNCHANGED interrupted PROVE Scaled'
  BY <1>11 DEF Wipe, HelperGone
<1>12. ASSUME NEW o \in Ops, FinishHelpers(o), UNCHANGED interrupted PROVE Scaled'
  BY <1>12, FinishHelpersIs
<1>13. ASSUME NEW o \in Ops, HealScaleUp(o), UNCHANGED interrupted PROVE Scaled'
  BY <1>13, HealScaleUpIs
<1>14. ASSUME NEW o \in Ops, HealResume(o), UNCHANGED interrupted PROVE Scaled'
  BY <1>14, HealResumeIs
<1>15. ASSUME NEW o \in Ops, AwaitReady(o), UNCHANGED interrupted PROVE Scaled'
  BY <1>15 DEF AwaitReady
<1>16. ASSUME NEW o \in Ops, VerifyRecovery(o), UNCHANGED interrupted PROVE Scaled'
  BY <1>16 DEF VerifyRecovery
<1>17. ASSUME NEW o \in Ops, RescueHelpers(o), UNCHANGED interrupted PROVE Scaled'
  BY <1>17 DEF RescueHelpers, HelperGone
<1>18. ASSUME NEW o \in Ops, RescueScale(o), UNCHANGED interrupted PROVE Scaled'
  BY <1>18, RescueScaleIs
<1>19. ASSUME NEW o \in Ops, RescueResume(o), UNCHANGED interrupted PROVE Scaled'
  BY <1>19, RescueResumeIs
<1>20. ASSUME NEW o \in Ops, Cleanup(o), UNCHANGED interrupted PROVE Scaled'
  BY <1>20, CleanupIs
<1>21. ASSUME NEW o \in Ops, Interrupt(o) PROVE Scaled'
  BY <1>21 DEF Interrupt
<1>22. ASSUME NEW o \in Ops, Die(o) PROVE Scaled'
  BY <1>22 DEF Die
<1>23. ASSUME NEW o \in Ops, HelperExpires(o) PROVE Scaled'
  BY <1>23 DEF HelperExpires
<1>24. ASSUME OperatorScales, Onlookers PROVE Scaled'
  BY <1>24 DEF OperatorScales
<1>25. ASSUME OperatorWrites, Onlookers PROVE Scaled'
  BY <1>25 DEF OperatorWrites
<1>26. ASSUME NEW n \in Nodes, PodStarts(n), Onlookers PROVE Scaled'
  BY <1>26 DEF PodStarts
<1>27. ASSUME NEW n \in Nodes, PodStops(n), Onlookers PROVE Scaled'
  BY <1>27 DEF PodStops
<1>28. ASSUME NEW n \in Nodes, NodeFails(n), Onlookers PROVE Scaled'
  BY <1>28 DEF NodeFails
<1>29. ASSUME NEW n \in Nodes, NodeServes(n), Onlookers PROVE Scaled'
  BY <1>29 DEF NodeServes
<1>30. ASSUME Commit PROVE Scaled'
  BY <1>30 DEF Commit
<1>31. ASSUME UNCHANGED vars PROVE Scaled'
  BY <1>31 DEF vars
<1> QED
  BY <1>1, <1>2, <1>3, <1>4, <1>5, <1>6, <1>7, <1>8, <1>9, <1>10, <1>11, <1>12, <1>13, <1>14,
     <1>15, <1>16, <1>17, <1>18, <1>19, <1>20, <1>21, <1>22, <1>23, <1>24, <1>25, <1>26,
     <1>27, <1>28, <1>29, <1>30, <1>31, StepCases


-----------------------------------------------------------------------------
(* The operator *)

\* Whoever suspends the operator has it to resume, until it does.
LEMMA OwedNext ==
  ASSUME TypeOK, Owed, "suspend" \notin MayMislead, "resume" \notin MayFail, [Next]_vars
  PROVE  Owed'
<1> USE Given DEF TypeOK, ClusterTypeOK, Owed, Live, Goto, Fail, resource, nodes, cluster, locals,
        Working, Ended, Onlookers, vars
<1>1. ASSUME NEW o \in Ops, Assess(o), UNCHANGED interrupted PROVE Owed'
  BY <1>1, AssessIs
<1>2. ASSUME NEW o \in Ops, SuspendForDonor(o), UNCHANGED interrupted PROVE Owed'
  BY <1>2, SuspendForDonorIs
<1>3. ASSUME NEW o \in Ops, ResolveDonor(o), UNCHANGED interrupted PROVE Owed'
  BY <1>3, ResolveDonorIs
<1>4. ASSUME NEW o \in Ops, GateResume(o), UNCHANGED interrupted PROVE Owed'
  BY <1>4, GateResumeIs
<1>5. ASSUME NEW o \in Ops, Escrow(o), UNCHANGED interrupted PROVE Owed'
  BY <1>5, EscrowIs
<1>6. ASSUME NEW o \in Ops, PlanTargets(o), UNCHANGED interrupted PROVE Owed'
  BY <1>6 DEF PlanTargets
<1>7. ASSUME NEW o \in Ops, Heal(o), UNCHANGED interrupted PROVE Owed'
  BY <1>7, HealIs
<1>8. ASSUME NEW o \in Ops, HealSuspend(o), UNCHANGED interrupted PROVE Owed'
  BY <1>8, HealSuspendIs
<1>9. ASSUME NEW o \in Ops, HealScaleDown(o), UNCHANGED interrupted PROVE Owed'
  BY <1>9, HealScaleDownIs
<1>10. ASSUME NEW o \in Ops, WaitGone(o), UNCHANGED interrupted PROVE Owed'
  BY <1>10 DEF WaitGone
<1>11. ASSUME NEW o \in Ops, Wipe(o), UNCHANGED interrupted PROVE Owed'
  BY <1>11 DEF Wipe, HelperGone
<1>12. ASSUME NEW o \in Ops, FinishHelpers(o), UNCHANGED interrupted PROVE Owed'
  BY <1>12, FinishHelpersIs
<1>13. ASSUME NEW o \in Ops, HealScaleUp(o), UNCHANGED interrupted PROVE Owed'
  BY <1>13, HealScaleUpIs
<1>14. ASSUME NEW o \in Ops, HealResume(o), UNCHANGED interrupted PROVE Owed'
  BY <1>14, HealResumeIs
<1>15. ASSUME NEW o \in Ops, AwaitReady(o), UNCHANGED interrupted PROVE Owed'
  BY <1>15 DEF AwaitReady
<1>16. ASSUME NEW o \in Ops, VerifyRecovery(o), UNCHANGED interrupted PROVE Owed'
  BY <1>16 DEF VerifyRecovery
<1>17. ASSUME NEW o \in Ops, RescueHelpers(o), UNCHANGED interrupted PROVE Owed'
  BY <1>17 DEF RescueHelpers, HelperGone
<1>18. ASSUME NEW o \in Ops, RescueScale(o), UNCHANGED interrupted PROVE Owed'
  BY <1>18, RescueScaleIs
<1>19. ASSUME NEW o \in Ops, RescueResume(o), UNCHANGED interrupted PROVE Owed'
  BY <1>19, RescueResumeIs
<1>20. ASSUME NEW o \in Ops, Cleanup(o), UNCHANGED interrupted PROVE Owed'
  BY <1>20, CleanupIs
<1>21. ASSUME NEW o \in Ops, Interrupt(o) PROVE Owed'
  BY <1>21 DEF Interrupt
<1>22. ASSUME NEW o \in Ops, Die(o) PROVE Owed'
  BY <1>22 DEF Die
<1>23. ASSUME NEW o \in Ops, HelperExpires(o) PROVE Owed'
  BY <1>23 DEF HelperExpires
<1>24. ASSUME OperatorScales, Onlookers PROVE Owed'
  BY <1>24 DEF OperatorScales
<1>25. ASSUME OperatorWrites, Onlookers PROVE Owed'
  BY <1>25 DEF OperatorWrites
<1>26. ASSUME NEW n \in Nodes, PodStarts(n), Onlookers PROVE Owed'
  BY <1>26 DEF PodStarts
<1>27. ASSUME NEW n \in Nodes, PodStops(n), Onlookers PROVE Owed'
  BY <1>27 DEF PodStops
<1>28. ASSUME NEW n \in Nodes, NodeFails(n), Onlookers PROVE Owed'
  BY <1>28 DEF NodeFails
<1>29. ASSUME NEW n \in Nodes, NodeServes(n), Onlookers PROVE Owed'
  BY <1>29 DEF NodeServes
<1>30. ASSUME Commit PROVE Owed'
  BY <1>30 DEF Commit
<1>31. ASSUME UNCHANGED vars PROVE Owed'
  BY <1>31 DEF vars
<1> QED
  BY <1>1, <1>2, <1>3, <1>4, <1>5, <1>6, <1>7, <1>8, <1>9, <1>10, <1>11, <1>12, <1>13, <1>14,
     <1>15, <1>16, <1>17, <1>18, <1>19, <1>20, <1>21, <1>22, <1>23, <1>24, <1>25, <1>26,
     <1>27, <1>28, <1>29, <1>30, <1>31, StepCases


-----------------------------------------------------------------------------
(* Turns *)

\* Where no repair begins beside another, one at most is at work.
LEMMA TurnsNext ==
  ASSUME TypeOK, Turns, ~Overlap, [Next]_vars
  PROVE  Turns'
<1> USE Given DEF TypeOK, ClusterTypeOK, Turns, Goto, Fail, resource, nodes, cluster, locals,
        Working, Ended, Onlookers, vars
<1>1. ASSUME NEW o \in Ops, Assess(o), UNCHANGED interrupted PROVE Turns'
  <2>1. \A p \in Ops : pc[p] \notin Working
    BY <1>1, AssessIs
  <2>2. pc'[o] \in Working /\ \A p \in Ops \ {o} : pc'[p] = pc[p]
    BY <1>1, AssessIs
  <2>3. \A p, q \in Ops : pc'[p] \in Working /\ pc'[q] \in Working => p = q
    BY <2>1, <2>2
  <2> QED
    BY <1>1, <2>2, <2>3
<1>2. ASSUME NEW o \in Ops, SuspendForDonor(o), UNCHANGED interrupted PROVE Turns'
  BY <1>2, SuspendForDonorIs
<1>3. ASSUME NEW o \in Ops, ResolveDonor(o), UNCHANGED interrupted PROVE Turns'
  <2>1. pc[o] \in Working /\ \A p \in Ops \ {o} : pc'[p] = pc[p]
    BY <1>3, ResolveDonorIs
  <2>2. pc'[o] # "dead" /\ interrupted' = interrupted
    BY <1>3, ResolveDonorIs
  <2> QED
    BY <2>1, <2>2
<1>4. ASSUME NEW o \in Ops, GateResume(o), UNCHANGED interrupted PROVE Turns'
  BY <1>4, GateResumeIs
<1>5. ASSUME NEW o \in Ops, Escrow(o), UNCHANGED interrupted PROVE Turns'
  BY <1>5, EscrowIs
<1>6. ASSUME NEW o \in Ops, PlanTargets(o), UNCHANGED interrupted PROVE Turns'
  BY <1>6 DEF PlanTargets
<1>7. ASSUME NEW o \in Ops, Heal(o), UNCHANGED interrupted PROVE Turns'
  BY <1>7, HealIs
<1>8. ASSUME NEW o \in Ops, HealSuspend(o), UNCHANGED interrupted PROVE Turns'
  BY <1>8, HealSuspendIs
<1>9. ASSUME NEW o \in Ops, HealScaleDown(o), UNCHANGED interrupted PROVE Turns'
  BY <1>9, HealScaleDownIs
<1>10. ASSUME NEW o \in Ops, WaitGone(o), UNCHANGED interrupted PROVE Turns'
  BY <1>10 DEF WaitGone
<1>11. ASSUME NEW o \in Ops, Wipe(o), UNCHANGED interrupted PROVE Turns'
  BY <1>11 DEF Wipe, HelperGone
<1>12. ASSUME NEW o \in Ops, FinishHelpers(o), UNCHANGED interrupted PROVE Turns'
  BY <1>12, FinishHelpersIs
<1>13. ASSUME NEW o \in Ops, HealScaleUp(o), UNCHANGED interrupted PROVE Turns'
  BY <1>13, HealScaleUpIs
<1>14. ASSUME NEW o \in Ops, HealResume(o), UNCHANGED interrupted PROVE Turns'
  BY <1>14, HealResumeIs
<1>15. ASSUME NEW o \in Ops, AwaitReady(o), UNCHANGED interrupted PROVE Turns'
  BY <1>15 DEF AwaitReady
<1>16. ASSUME NEW o \in Ops, VerifyRecovery(o), UNCHANGED interrupted PROVE Turns'
  BY <1>16 DEF VerifyRecovery
<1>17. ASSUME NEW o \in Ops, RescueHelpers(o), UNCHANGED interrupted PROVE Turns'
  BY <1>17 DEF RescueHelpers, HelperGone
<1>18. ASSUME NEW o \in Ops, RescueScale(o), UNCHANGED interrupted PROVE Turns'
  BY <1>18, RescueScaleIs
<1>19. ASSUME NEW o \in Ops, RescueResume(o), UNCHANGED interrupted PROVE Turns'
  BY <1>19, RescueResumeIs
<1>20. ASSUME NEW o \in Ops, Cleanup(o), UNCHANGED interrupted PROVE Turns'
  BY <1>20, CleanupIs
<1>21. ASSUME NEW o \in Ops, Interrupt(o) PROVE Turns'
  BY <1>21 DEF Interrupt
<1>22. ASSUME NEW o \in Ops, Die(o) PROVE Turns'
  BY <1>22 DEF Die
<1>23. ASSUME NEW o \in Ops, HelperExpires(o) PROVE Turns'
  BY <1>23 DEF HelperExpires
<1>24. ASSUME OperatorScales, Onlookers PROVE Turns'
  BY <1>24 DEF OperatorScales
<1>25. ASSUME OperatorWrites, Onlookers PROVE Turns'
  BY <1>25 DEF OperatorWrites
<1>26. ASSUME NEW n \in Nodes, PodStarts(n), Onlookers PROVE Turns'
  BY <1>26 DEF PodStarts
<1>27. ASSUME NEW n \in Nodes, PodStops(n), Onlookers PROVE Turns'
  BY <1>27 DEF PodStops
<1>28. ASSUME NEW n \in Nodes, NodeFails(n), Onlookers PROVE Turns'
  BY <1>28 DEF NodeFails
<1>29. ASSUME NEW n \in Nodes, NodeServes(n), Onlookers PROVE Turns'
  BY <1>29 DEF NodeServes
<1>30. ASSUME Commit PROVE Turns'
  BY <1>30 DEF Commit
<1>31. ASSUME UNCHANGED vars PROVE Turns'
  BY <1>31 DEF vars
<1> QED
  BY <1>1, <1>2, <1>3, <1>4, <1>5, <1>6, <1>7, <1>8, <1>9, <1>10, <1>11, <1>12, <1>13, <1>14,
     <1>15, <1>16, <1>17, <1>18, <1>19, <1>20, <1>21, <1>22, <1>23, <1>24, <1>25, <1>26,
     <1>27, <1>28, <1>29, <1>30, <1>31, StepCases


-----------------------------------------------------------------------------
(* The members, and what was healed *)

\* A repair reports a node healed when it has healed one.
LEMMA UnhealedNext ==
  ASSUME TypeOK, Unhealed, [Next]_vars
  PROVE  Unhealed'
<1> USE Given DEF TypeOK, ClusterTypeOK, Unhealed, Goto, Fail, resource, nodes, cluster, locals,
        Working, Ended, Onlookers, vars
<1>1. ASSUME NEW o \in Ops, Assess(o), UNCHANGED interrupted PROVE Unhealed'
  BY <1>1, AssessIs
<1>2. ASSUME NEW o \in Ops, SuspendForDonor(o), UNCHANGED interrupted PROVE Unhealed'
  BY <1>2, SuspendForDonorIs
<1>3. ASSUME NEW o \in Ops, ResolveDonor(o), UNCHANGED interrupted PROVE Unhealed'
  BY <1>3, ResolveDonorIs
<1>4. ASSUME NEW o \in Ops, GateResume(o), UNCHANGED interrupted PROVE Unhealed'
  BY <1>4, GateResumeIs
<1>5. ASSUME NEW o \in Ops, Escrow(o), UNCHANGED interrupted PROVE Unhealed'
  BY <1>5, EscrowIs
<1>6. ASSUME NEW o \in Ops, PlanTargets(o), UNCHANGED interrupted PROVE Unhealed'
  BY <1>6 DEF PlanTargets
<1>7. ASSUME NEW o \in Ops, Heal(o), UNCHANGED interrupted PROVE Unhealed'
  BY <1>7, HealIs
<1>8. ASSUME NEW o \in Ops, HealSuspend(o), UNCHANGED interrupted PROVE Unhealed'
  BY <1>8, HealSuspendIs
<1>9. ASSUME NEW o \in Ops, HealScaleDown(o), UNCHANGED interrupted PROVE Unhealed'
  BY <1>9, HealScaleDownIs
<1>10. ASSUME NEW o \in Ops, WaitGone(o), UNCHANGED interrupted PROVE Unhealed'
  BY <1>10 DEF WaitGone
<1>11. ASSUME NEW o \in Ops, Wipe(o), UNCHANGED interrupted PROVE Unhealed'
  BY <1>11 DEF Wipe, HelperGone
<1>12. ASSUME NEW o \in Ops, FinishHelpers(o), UNCHANGED interrupted PROVE Unhealed'
  BY <1>12, FinishHelpersIs
<1>13. ASSUME NEW o \in Ops, HealScaleUp(o), UNCHANGED interrupted PROVE Unhealed'
  BY <1>13, HealScaleUpIs
<1>14. ASSUME NEW o \in Ops, HealResume(o), UNCHANGED interrupted PROVE Unhealed'
  BY <1>14, HealResumeIs
<1>15. ASSUME NEW o \in Ops, AwaitReady(o), UNCHANGED interrupted PROVE Unhealed'
  BY <1>15 DEF AwaitReady
<1>16. ASSUME NEW o \in Ops, VerifyRecovery(o), UNCHANGED interrupted PROVE Unhealed'
  BY <1>16 DEF VerifyRecovery
<1>17. ASSUME NEW o \in Ops, RescueHelpers(o), UNCHANGED interrupted PROVE Unhealed'
  BY <1>17 DEF RescueHelpers, HelperGone
<1>18. ASSUME NEW o \in Ops, RescueScale(o), UNCHANGED interrupted PROVE Unhealed'
  BY <1>18, RescueScaleIs
<1>19. ASSUME NEW o \in Ops, RescueResume(o), UNCHANGED interrupted PROVE Unhealed'
  BY <1>19, RescueResumeIs
<1>20. ASSUME NEW o \in Ops, Cleanup(o), UNCHANGED interrupted PROVE Unhealed'
  BY <1>20, CleanupIs
<1>21. ASSUME NEW o \in Ops, Interrupt(o) PROVE Unhealed'
  BY <1>21 DEF Interrupt
<1>22. ASSUME NEW o \in Ops, Die(o) PROVE Unhealed'
  BY <1>22 DEF Die
<1>23. ASSUME NEW o \in Ops, HelperExpires(o) PROVE Unhealed'
  BY <1>23 DEF HelperExpires
<1>24. ASSUME OperatorScales, Onlookers PROVE Unhealed'
  BY <1>24 DEF OperatorScales
<1>25. ASSUME OperatorWrites, Onlookers PROVE Unhealed'
  BY <1>25 DEF OperatorWrites
<1>26. ASSUME NEW n \in Nodes, PodStarts(n), Onlookers PROVE Unhealed'
  BY <1>26 DEF PodStarts
<1>27. ASSUME NEW n \in Nodes, PodStops(n), Onlookers PROVE Unhealed'
  BY <1>27 DEF PodStops
<1>28. ASSUME NEW n \in Nodes, NodeFails(n), Onlookers PROVE Unhealed'
  BY <1>28 DEF NodeFails
<1>29. ASSUME NEW n \in Nodes, NodeServes(n), Onlookers PROVE Unhealed'
  BY <1>29 DEF NodeServes
<1>30. ASSUME Commit PROVE Unhealed'
  BY <1>30 DEF Commit
<1>31. ASSUME UNCHANGED vars PROVE Unhealed'
  BY <1>31 DEF vars
<1> QED
  BY <1>1, <1>2, <1>3, <1>4, <1>5, <1>6, <1>7, <1>8, <1>9, <1>10, <1>11, <1>12, <1>13, <1>14,
     <1>15, <1>16, <1>17, <1>18, <1>19, <1>20, <1>21, <1>22, <1>23, <1>24, <1>25, <1>26,
     <1>27, <1>28, <1>29, <1>30, <1>31, StepCases


\* What a repair wipes serves nobody, and who serves was sent what is committed.
LEMMA MembersNext ==
  ASSUME TypeOK, Members, \A r \in Ops : Sealed(r) /\ Emptied(r), [Next]_vars
  PROVE  Members'
<1> USE Given DEF TypeOK, ClusterTypeOK, Members, Sealed, Emptied, Goto, Fail, resource, nodes,
        cluster, locals, Working, Ended, Onlookers, vars
<1>1. ASSUME NEW o \in Ops, Assess(o), UNCHANGED interrupted PROVE Members'
  BY <1>1, AssessIs
<1>2. ASSUME NEW o \in Ops, SuspendForDonor(o), UNCHANGED interrupted PROVE Members'
  BY <1>2, SuspendForDonorIs
<1>3. ASSUME NEW o \in Ops, ResolveDonor(o), UNCHANGED interrupted PROVE Members'
  BY <1>3, ResolveDonorIs
<1>4. ASSUME NEW o \in Ops, GateResume(o), UNCHANGED interrupted PROVE Members'
  BY <1>4, GateResumeIs
<1>5. ASSUME NEW o \in Ops, Escrow(o), UNCHANGED interrupted PROVE Members'
  BY <1>5, EscrowIs
<1>6. ASSUME NEW o \in Ops, PlanTargets(o), UNCHANGED interrupted PROVE Members'
  BY <1>6 DEF PlanTargets
<1>7. ASSUME NEW o \in Ops, Heal(o), UNCHANGED interrupted PROVE Members'
  BY <1>7, HealIs
<1>8. ASSUME NEW o \in Ops, HealSuspend(o), UNCHANGED interrupted PROVE Members'
  BY <1>8, HealSuspendIs
<1>9. ASSUME NEW o \in Ops, HealScaleDown(o), UNCHANGED interrupted PROVE Members'
  BY <1>9, HealScaleDownIs
<1>10. ASSUME NEW o \in Ops, WaitGone(o), UNCHANGED interrupted PROVE Members'
  BY <1>10 DEF WaitGone
<1>11. ASSUME NEW o \in Ops, Wipe(o), UNCHANGED interrupted PROVE Members'
  <2>1. target[o] \notin serving /\ UNCHANGED <<serving, forced>>
    BY <1>11 DEF Wipe
  <2>2. \/ UNCHANGED <<current, marked>>
        \/ current' = current \ {target[o]} /\ marked' = marked \ {target[o]}
    BY <1>11 DEF Wipe
  <2> QED
    BY <2>1, <2>2
<1>12. ASSUME NEW o \in Ops, FinishHelpers(o), UNCHANGED interrupted PROVE Members'
  BY <1>12, FinishHelpersIs
<1>13. ASSUME NEW o \in Ops, HealScaleUp(o), UNCHANGED interrupted PROVE Members'
  BY <1>13, HealScaleUpIs
<1>14. ASSUME NEW o \in Ops, HealResume(o), UNCHANGED interrupted PROVE Members'
  BY <1>14, HealResumeIs
<1>15. ASSUME NEW o \in Ops, AwaitReady(o), UNCHANGED interrupted PROVE Members'
  BY <1>15 DEF AwaitReady
<1>16. ASSUME NEW o \in Ops, VerifyRecovery(o), UNCHANGED interrupted PROVE Members'
  BY <1>16 DEF VerifyRecovery
<1>17. ASSUME NEW o \in Ops, RescueHelpers(o), UNCHANGED interrupted PROVE Members'
  BY <1>17 DEF RescueHelpers, HelperGone
<1>18. ASSUME NEW o \in Ops, RescueScale(o), UNCHANGED interrupted PROVE Members'
  BY <1>18, RescueScaleIs
<1>19. ASSUME NEW o \in Ops, RescueResume(o), UNCHANGED interrupted PROVE Members'
  BY <1>19, RescueResumeIs
<1>20. ASSUME NEW o \in Ops, Cleanup(o), UNCHANGED interrupted PROVE Members'
  BY <1>20, CleanupIs
<1>21. ASSUME NEW o \in Ops, Interrupt(o) PROVE Members'
  BY <1>21 DEF Interrupt
<1>22. ASSUME NEW o \in Ops, Die(o) PROVE Members'
  BY <1>22 DEF Die
<1>23. ASSUME NEW o \in Ops, HelperExpires(o) PROVE Members'
  <2>1. /\ marked' = marked \ {helper[o]} /\ current' = current \ {helper[o]}
        /\ helper[o] \notin up /\ UNCHANGED <<forced, serving>>
    BY <1>23 DEF HelperExpires
  <2>2. serving' \subseteq current' /\ marked' \subseteq current'
    BY <2>1
  <2> QED
    BY <2>1, <2>2
<1>24. ASSUME OperatorScales, Onlookers PROVE Members'
  BY <1>24 DEF OperatorScales
<1>25. ASSUME OperatorWrites, Onlookers PROVE Members'
  BY <1>25 DEF OperatorWrites
<1>26. ASSUME NEW n \in Nodes, PodStarts(n), Onlookers PROVE Members'
  BY <1>26 DEF PodStarts
<1>27. ASSUME NEW n \in Nodes, PodStops(n), Onlookers PROVE Members'
  BY <1>27 DEF PodStops
<1>28. ASSUME NEW n \in Nodes, NodeFails(n), Onlookers PROVE Members'
  BY <1>28 DEF NodeFails
<1>29. ASSUME NEW n \in Nodes, NodeServes(n), Onlookers PROVE Members'
  <2>1. serving # {} \/ n \in marked
    BY <1>29 DEF NodeServes
  <2>2. serving' = serving \cup {n} /\ marked' = marked \ {n} /\ UNCHANGED forced
    BY <1>29 DEF NodeServes
  <2>3. current' = IF serving = {} THEN current ELSE current \cup (serving' \ serving)
    BY <1>29
  <2>4. serving' \subseteq current'
    BY <2>1, <2>2, <2>3
  <2>5. marked' \subseteq current' /\ marked' = {}
    BY <2>1, <2>2, <2>3
  <2> QED
    BY <2>2, <2>4, <2>5
<1>30. ASSUME Commit PROVE Members'
  BY <1>30 DEF Commit
<1>31. ASSUME UNCHANGED vars PROVE Members'
  BY <1>31 DEF vars
<1> QED
  BY <1>1, <1>2, <1>3, <1>4, <1>5, <1>6, <1>7, <1>8, <1>9, <1>10, <1>11, <1>12, <1>13, <1>14,
     <1>15, <1>16, <1>17, <1>18, <1>19, <1>20, <1>21, <1>22, <1>23, <1>24, <1>25, <1>26,
     <1>27, <1>28, <1>29, <1>30, <1>31, StepCases


-----------------------------------------------------------------------------
(* Datadirs *)

\* A repair that is not the one at work rests, and left no helper.
LEMMA OthersRest ==
  ASSUME TypeOK, InTurn, Turns, \A r \in Ops : Sealed(r),
         NEW o \in Ops, pc[o] \in Working \/ \A p \in Ops : pc[p] \in {"idle"} \cup Ended,
         NEW r \in Ops \ {o}, helper'[r] = helper[r], pc'[r] = pc[r]
  PROVE  Held(r)' /\ Sealed(r)' /\ Emptied(r)'
<1>1. ~MayDie /\ interrupted = {}
  BY DEF InTurn, Turns
<1>2. pc[r] \in {"idle", "done"}
  BY <1>1 DEF Turns, TypeOK, Ended
<1>3. helper[r] = NoNode
  BY <1>1, <1>2 DEF Sealed, Live
<1> QED
  BY <1>2, <1>3 DEF Held, Sealed, Emptied

\* The operator stays suspended, and the target left out, for as long as a helper may work.
LEMMA SealedNext ==
  ASSUME TypeOK, InTurn, Turns, \A r \in Ops : Held(r) /\ Sealed(r) /\ Emptied(r),
         "helper" \notin MayMislead, [Next]_vars
  PROVE  \A r \in Ops : (Held(r) /\ Sealed(r) /\ Emptied(r))'
<1> USE Given DEF TypeOK, ClusterTypeOK, Held, Sealed, Emptied, Live, Goto, Fail, resource, nodes,
        cluster, locals, Working, Ended, Onlookers, vars
<1>1. ASSUME NEW o \in Ops, Assess(o), UNCHANGED interrupted
      PROVE  \A r \in Ops : (Held(r) /\ Sealed(r) /\ Emptied(r))'
  <2>1. pc[o] \in Working \/ \A p \in Ops : pc[p] \in {"idle"} \cup Ended
    BY <1>1, AssessIs DEF InTurn
  <2>2. ASSUME NEW p \in Ops \ {o} PROVE helper'[p] = helper[p] /\ pc'[p] = pc[p]
    BY <1>1, AssessIs
  <2>3. Held(o)'
    BY <1>1, AssessIs
  <2>4. Sealed(o)'
    BY <1>1, AssessIs
  <2>5. Emptied(o)'
    BY <1>1, AssessIs
  <2> QED
    BY <2>1, <2>2, <2>3, <2>4, <2>5, OthersRest
<1>2. ASSUME NEW o \in Ops, SuspendForDonor(o), UNCHANGED interrupted
      PROVE  \A r \in Ops : (Held(r) /\ Sealed(r) /\ Emptied(r))'
  <2>1. pc[o] \in Working \/ \A p \in Ops : pc[p] \in {"idle"} \cup Ended
    BY <1>2, SuspendForDonorIs
  <2>2. ASSUME NEW p \in Ops \ {o} PROVE helper'[p] = helper[p] /\ pc'[p] = pc[p]
    BY <1>2, SuspendForDonorIs
  <2>3. Held(o)'
    BY <1>2, SuspendForDonorIs
  <2>4. Sealed(o)'
    BY <1>2, SuspendForDonorIs
  <2>5. Emptied(o)'
    BY <1>2, SuspendForDonorIs
  <2> QED
    BY <2>1, <2>2, <2>3, <2>4, <2>5, OthersRest
<1>3. ASSUME NEW o \in Ops, ResolveDonor(o), UNCHANGED interrupted
      PROVE  \A r \in Ops : (Held(r) /\ Sealed(r) /\ Emptied(r))'
  <2>1. pc[o] \in Working \/ \A p \in Ops : pc[p] \in {"idle"} \cup Ended
    BY <1>3, ResolveDonorIs
  <2>2. ASSUME NEW p \in Ops \ {o} PROVE helper'[p] = helper[p] /\ pc'[p] = pc[p]
    BY <1>3, ResolveDonorIs
  <2>3. Held(o)'
    BY <1>3, ResolveDonorIs
  <2>4. Sealed(o)'
    BY <1>3, ResolveDonorIs
  <2>5. Emptied(o)'
    BY <1>3, ResolveDonorIs
  <2> QED
    BY <2>1, <2>2, <2>3, <2>4, <2>5, OthersRest
<1>4. ASSUME NEW o \in Ops, GateResume(o), UNCHANGED interrupted
      PROVE  \A r \in Ops : (Held(r) /\ Sealed(r) /\ Emptied(r))'
  <2>1. pc[o] \in Working \/ \A p \in Ops : pc[p] \in {"idle"} \cup Ended
    BY <1>4, GateResumeIs
  <2>2. ASSUME NEW p \in Ops \ {o} PROVE helper'[p] = helper[p] /\ pc'[p] = pc[p]
    BY <1>4, GateResumeIs
  <2>3. Held(o)'
    BY <1>4, GateResumeIs
  <2>4. Sealed(o)'
    BY <1>4, GateResumeIs
  <2>5. Emptied(o)'
    BY <1>4, GateResumeIs
  <2> QED
    BY <2>1, <2>2, <2>3, <2>4, <2>5, OthersRest
<1>5. ASSUME NEW o \in Ops, Escrow(o), UNCHANGED interrupted
      PROVE  \A r \in Ops : (Held(r) /\ Sealed(r) /\ Emptied(r))'
  <2>1. pc[o] \in Working \/ \A p \in Ops : pc[p] \in {"idle"} \cup Ended
    BY <1>5, EscrowIs
  <2>2. ASSUME NEW p \in Ops \ {o} PROVE helper'[p] = helper[p] /\ pc'[p] = pc[p]
    BY <1>5, EscrowIs
  <2>3. Held(o)'
    BY <1>5, EscrowIs
  <2>4. Sealed(o)'
    BY <1>5, EscrowIs
  <2>5. Emptied(o)'
    BY <1>5, EscrowIs
  <2> QED
    BY <2>1, <2>2, <2>3, <2>4, <2>5, OthersRest
<1>6. ASSUME NEW o \in Ops, PlanTargets(o), UNCHANGED interrupted
      PROVE  \A r \in Ops : (Held(r) /\ Sealed(r) /\ Emptied(r))'
  <2>1. pc[o] \in Working \/ \A p \in Ops : pc[p] \in {"idle"} \cup Ended
    BY <1>6 DEF PlanTargets
  <2>2. ASSUME NEW p \in Ops \ {o} PROVE helper'[p] = helper[p] /\ pc'[p] = pc[p]
    BY <1>6 DEF PlanTargets
  <2>3. Held(o)'
    BY <1>6 DEF PlanTargets
  <2>4. Sealed(o)'
    BY <1>6 DEF PlanTargets
  <2>5. Emptied(o)'
    BY <1>6 DEF PlanTargets
  <2> QED
    BY <2>1, <2>2, <2>3, <2>4, <2>5, OthersRest
<1>7. ASSUME NEW o \in Ops, Heal(o), UNCHANGED interrupted
      PROVE  \A r \in Ops : (Held(r) /\ Sealed(r) /\ Emptied(r))'
  <2>1. pc[o] \in Working \/ \A p \in Ops : pc[p] \in {"idle"} \cup Ended
    BY <1>7, HealIs
  <2>2. ASSUME NEW p \in Ops \ {o} PROVE helper'[p] = helper[p] /\ pc'[p] = pc[p]
    BY <1>7, HealIs
  <2>3. Held(o)'
    BY <1>7, HealIs
  <2>4. Sealed(o)'
    BY <1>7, HealIs
  <2>5. Emptied(o)'
    BY <1>7, HealIs
  <2> QED
    BY <2>1, <2>2, <2>3, <2>4, <2>5, OthersRest
<1>8. ASSUME NEW o \in Ops, HealSuspend(o), UNCHANGED interrupted
      PROVE  \A r \in Ops : (Held(r) /\ Sealed(r) /\ Emptied(r))'
  <2>1. pc[o] \in Working \/ \A p \in Ops : pc[p] \in {"idle"} \cup Ended
    BY <1>8, HealSuspendIs
  <2>2. ASSUME NEW p \in Ops \ {o} PROVE helper'[p] = helper[p] /\ pc'[p] = pc[p]
    BY <1>8, HealSuspendIs
  <2>3. Held(o)'
    BY <1>8, HealSuspendIs
  <2>4. Sealed(o)'
    BY <1>8, HealSuspendIs
  <2>5. Emptied(o)'
    BY <1>8, HealSuspendIs
  <2> QED
    BY <2>1, <2>2, <2>3, <2>4, <2>5, OthersRest
<1>9. ASSUME NEW o \in Ops, HealScaleDown(o), UNCHANGED interrupted
      PROVE  \A r \in Ops : (Held(r) /\ Sealed(r) /\ Emptied(r))'
  <2>1. pc[o] \in Working \/ \A p \in Ops : pc[p] \in {"idle"} \cup Ended
    BY <1>9, HealScaleDownIs
  <2>2. ASSUME NEW p \in Ops \ {o} PROVE helper'[p] = helper[p] /\ pc'[p] = pc[p]
    BY <1>9, HealScaleDownIs
  <2>3. Held(o)'
    BY <1>9, HealScaleDownIs
  <2>4. Sealed(o)'
    BY <1>9, HealScaleDownIs
  <2>5. Emptied(o)'
    BY <1>9, HealScaleDownIs
  <2> QED
    BY <2>1, <2>2, <2>3, <2>4, <2>5, OthersRest
<1>10. ASSUME NEW o \in Ops, WaitGone(o), UNCHANGED interrupted
       PROVE  \A r \in Ops : (Held(r) /\ Sealed(r) /\ Emptied(r))'
  <2>1. pc[o] \in Working \/ \A p \in Ops : pc[p] \in {"idle"} \cup Ended
    BY <1>10 DEF WaitGone
  <2>2. ASSUME NEW p \in Ops \ {o} PROVE helper'[p] = helper[p] /\ pc'[p] = pc[p]
    BY <1>10 DEF WaitGone
  <2>3. Held(o)'
    BY <1>10 DEF WaitGone
  <2>4. Sealed(o)'
    BY <1>10 DEF WaitGone
  <2>5. Emptied(o)'
    BY <1>10 DEF WaitGone
  <2> QED
    BY <2>1, <2>2, <2>3, <2>4, <2>5, OthersRest
<1>11. ASSUME NEW o \in Ops, Wipe(o), UNCHANGED interrupted
       PROVE  \A r \in Ops : (Held(r) /\ Sealed(r) /\ Emptied(r))'
  <2>1. pc[o] \in Working \/ \A p \in Ops : pc[p] \in {"idle"} \cup Ended
    BY <1>11 DEF Wipe, HelperGone
  <2>2. ASSUME NEW p \in Ops \ {o} PROVE helper'[p] = helper[p] /\ pc'[p] = pc[p]
    BY <1>11 DEF Wipe, HelperGone
  <2>3. Held(o)'
    BY <1>11 DEF Wipe, HelperGone
  <2>4. Sealed(o)'
    BY <1>11 DEF Wipe, HelperGone
  <2>5. Emptied(o)'
    BY <1>11 DEF Wipe, HelperGone
  <2> QED
    BY <2>1, <2>2, <2>3, <2>4, <2>5, OthersRest
<1>12. ASSUME NEW o \in Ops, FinishHelpers(o), UNCHANGED interrupted
       PROVE  \A r \in Ops : (Held(r) /\ Sealed(r) /\ Emptied(r))'
  <2>1. pc[o] \in Working \/ \A p \in Ops : pc[p] \in {"idle"} \cup Ended
    BY <1>12, FinishHelpersIs
  <2>2. ASSUME NEW p \in Ops \ {o} PROVE helper'[p] = helper[p] /\ pc'[p] = pc[p]
    BY <1>12, FinishHelpersIs
  <2>3. Held(o)'
    BY <1>12, FinishHelpersIs
  <2>4. Sealed(o)'
    BY <1>12, FinishHelpersIs
  <2>5. Emptied(o)'
    BY <1>12, FinishHelpersIs
  <2> QED
    BY <2>1, <2>2, <2>3, <2>4, <2>5, OthersRest
<1>13. ASSUME NEW o \in Ops, HealScaleUp(o), UNCHANGED interrupted
       PROVE  \A r \in Ops : (Held(r) /\ Sealed(r) /\ Emptied(r))'
  <2>1. pc[o] \in Working \/ \A p \in Ops : pc[p] \in {"idle"} \cup Ended
    BY <1>13, HealScaleUpIs
  <2>2. ASSUME NEW p \in Ops \ {o} PROVE helper'[p] = helper[p] /\ pc'[p] = pc[p]
    BY <1>13, HealScaleUpIs
  <2>3. Held(o)'
    BY <1>13, HealScaleUpIs
  <2>4. Sealed(o)'
    BY <1>13, HealScaleUpIs
  <2>5. Emptied(o)'
    BY <1>13, HealScaleUpIs
  <2> QED
    BY <2>1, <2>2, <2>3, <2>4, <2>5, OthersRest
<1>14. ASSUME NEW o \in Ops, HealResume(o), UNCHANGED interrupted
       PROVE  \A r \in Ops : (Held(r) /\ Sealed(r) /\ Emptied(r))'
  <2>1. pc[o] \in Working \/ \A p \in Ops : pc[p] \in {"idle"} \cup Ended
    BY <1>14, HealResumeIs
  <2>2. ASSUME NEW p \in Ops \ {o} PROVE helper'[p] = helper[p] /\ pc'[p] = pc[p]
    BY <1>14, HealResumeIs
  <2>3. Held(o)'
    BY <1>14, HealResumeIs
  <2>4. Sealed(o)'
    BY <1>14, HealResumeIs
  <2>5. Emptied(o)'
    BY <1>14, HealResumeIs
  <2> QED
    BY <2>1, <2>2, <2>3, <2>4, <2>5, OthersRest
<1>15. ASSUME NEW o \in Ops, AwaitReady(o), UNCHANGED interrupted
       PROVE  \A r \in Ops : (Held(r) /\ Sealed(r) /\ Emptied(r))'
  <2>1. pc[o] \in Working \/ \A p \in Ops : pc[p] \in {"idle"} \cup Ended
    BY <1>15 DEF AwaitReady
  <2>2. ASSUME NEW p \in Ops \ {o} PROVE helper'[p] = helper[p] /\ pc'[p] = pc[p]
    BY <1>15 DEF AwaitReady
  <2>3. Held(o)'
    BY <1>15 DEF AwaitReady
  <2>4. Sealed(o)'
    BY <1>15 DEF AwaitReady
  <2>5. Emptied(o)'
    BY <1>15 DEF AwaitReady
  <2> QED
    BY <2>1, <2>2, <2>3, <2>4, <2>5, OthersRest
<1>16. ASSUME NEW o \in Ops, VerifyRecovery(o), UNCHANGED interrupted
       PROVE  \A r \in Ops : (Held(r) /\ Sealed(r) /\ Emptied(r))'
  <2>1. pc[o] \in Working \/ \A p \in Ops : pc[p] \in {"idle"} \cup Ended
    BY <1>16 DEF VerifyRecovery
  <2>2. ASSUME NEW p \in Ops \ {o} PROVE helper'[p] = helper[p] /\ pc'[p] = pc[p]
    BY <1>16 DEF VerifyRecovery
  <2>3. Held(o)'
    BY <1>16 DEF VerifyRecovery
  <2>4. Sealed(o)'
    BY <1>16 DEF VerifyRecovery
  <2>5. Emptied(o)'
    BY <1>16 DEF VerifyRecovery
  <2> QED
    BY <2>1, <2>2, <2>3, <2>4, <2>5, OthersRest
<1>17. ASSUME NEW o \in Ops, RescueHelpers(o), UNCHANGED interrupted
       PROVE  \A r \in Ops : (Held(r) /\ Sealed(r) /\ Emptied(r))'
  <2>1. pc[o] \in Working \/ \A p \in Ops : pc[p] \in {"idle"} \cup Ended
    BY <1>17 DEF RescueHelpers, HelperGone
  <2>2. ASSUME NEW p \in Ops \ {o} PROVE helper'[p] = helper[p] /\ pc'[p] = pc[p]
    BY <1>17 DEF RescueHelpers, HelperGone
  <2>3. Held(o)'
    BY <1>17 DEF RescueHelpers, HelperGone
  <2>4. Sealed(o)'
    BY <1>17 DEF RescueHelpers, HelperGone
  <2>5. Emptied(o)'
    BY <1>17 DEF RescueHelpers, HelperGone
  <2> QED
    BY <2>1, <2>2, <2>3, <2>4, <2>5, OthersRest
<1>18. ASSUME NEW o \in Ops, RescueScale(o), UNCHANGED interrupted
       PROVE  \A r \in Ops : (Held(r) /\ Sealed(r) /\ Emptied(r))'
  <2>1. pc[o] \in Working \/ \A p \in Ops : pc[p] \in {"idle"} \cup Ended
    BY <1>18, RescueScaleIs
  <2>2. ASSUME NEW p \in Ops \ {o} PROVE helper'[p] = helper[p] /\ pc'[p] = pc[p]
    BY <1>18, RescueScaleIs
  <2>3. Held(o)'
    BY <1>18, RescueScaleIs
  <2>4. Sealed(o)'
    BY <1>18, RescueScaleIs
  <2>5. Emptied(o)'
    BY <1>18, RescueScaleIs
  <2> QED
    BY <2>1, <2>2, <2>3, <2>4, <2>5, OthersRest
<1>19. ASSUME NEW o \in Ops, RescueResume(o), UNCHANGED interrupted
       PROVE  \A r \in Ops : (Held(r) /\ Sealed(r) /\ Emptied(r))'
  <2>1. pc[o] \in Working \/ \A p \in Ops : pc[p] \in {"idle"} \cup Ended
    BY <1>19, RescueResumeIs
  <2>2. ASSUME NEW p \in Ops \ {o} PROVE helper'[p] = helper[p] /\ pc'[p] = pc[p]
    BY <1>19, RescueResumeIs
  <2>3. Held(o)'
    BY <1>19, RescueResumeIs
  <2>4. Sealed(o)'
    BY <1>19, RescueResumeIs
  <2>5. Emptied(o)'
    BY <1>19, RescueResumeIs
  <2> QED
    BY <2>1, <2>2, <2>3, <2>4, <2>5, OthersRest
<1>20. ASSUME NEW o \in Ops, Cleanup(o), UNCHANGED interrupted
       PROVE  \A r \in Ops : (Held(r) /\ Sealed(r) /\ Emptied(r))'
  <2>1. pc[o] \in Working \/ \A p \in Ops : pc[p] \in {"idle"} \cup Ended
    BY <1>20, CleanupIs
  <2>2. ASSUME NEW p \in Ops \ {o} PROVE helper'[p] = helper[p] /\ pc'[p] = pc[p]
    BY <1>20, CleanupIs
  <2>3. Held(o)'
    BY <1>20, CleanupIs
  <2>4. Sealed(o)'
    BY <1>20, CleanupIs
  <2>5. Emptied(o)'
    BY <1>20, CleanupIs
  <2> QED
    BY <2>1, <2>2, <2>3, <2>4, <2>5, OthersRest
<1>21. ASSUME NEW o \in Ops, Interrupt(o) PROVE \A r \in Ops : (Held(r) /\ Sealed(r) /\ Emptied(r))'
  BY <1>21 DEF Interrupt
<1>22. ASSUME NEW o \in Ops, Die(o) PROVE \A r \in Ops : (Held(r) /\ Sealed(r) /\ Emptied(r))'
  BY <1>22 DEF Die
<1>23. ASSUME NEW o \in Ops, HelperExpires(o)
       PROVE  \A r \in Ops : (Held(r) /\ Sealed(r) /\ Emptied(r))'
  BY <1>23 DEF HelperExpires
<1>24. ASSUME OperatorScales, Onlookers PROVE \A r \in Ops : (Held(r) /\ Sealed(r) /\ Emptied(r))'
  BY <1>24 DEF OperatorScales
<1>25. ASSUME OperatorWrites, Onlookers PROVE \A r \in Ops : (Held(r) /\ Sealed(r) /\ Emptied(r))'
  BY <1>25 DEF OperatorWrites
<1>26. ASSUME NEW n \in Nodes, PodStarts(n), Onlookers
       PROVE  \A r \in Ops : (Held(r) /\ Sealed(r) /\ Emptied(r))'
  BY <1>26 DEF PodStarts
<1>27. ASSUME NEW n \in Nodes, PodStops(n), Onlookers
       PROVE  \A r \in Ops : (Held(r) /\ Sealed(r) /\ Emptied(r))'
  BY <1>27 DEF PodStops
<1>28. ASSUME NEW n \in Nodes, NodeFails(n), Onlookers
       PROVE  \A r \in Ops : (Held(r) /\ Sealed(r) /\ Emptied(r))'
  BY <1>28 DEF NodeFails
<1>29. ASSUME NEW n \in Nodes, NodeServes(n), Onlookers
       PROVE  \A r \in Ops : (Held(r) /\ Sealed(r) /\ Emptied(r))'
  BY <1>29 DEF NodeServes
<1>30. ASSUME Commit PROVE \A r \in Ops : (Held(r) /\ Sealed(r) /\ Emptied(r))'
  BY <1>30 DEF Commit
<1>31. ASSUME UNCHANGED vars PROVE \A r \in Ops : (Held(r) /\ Sealed(r) /\ Emptied(r))'
  BY <1>31 DEF vars
<1> QED
  BY <1>1, <1>2, <1>3, <1>4, <1>5, <1>6, <1>7, <1>8, <1>9, <1>10, <1>11, <1>12, <1>13, <1>14,
     <1>15, <1>16, <1>17, <1>18, <1>19, <1>20, <1>21, <1>22, <1>23, <1>24, <1>25, <1>26,
     <1>27, <1>28, <1>29, <1>30, <1>31, StepCases


\* A repair succeeds when there is nothing to do, or what it healed serves.
LEMMA OkIsGiven ==
  ASSUME TypeOK, NEW r \in Ops, outcome[r] # "ok", outcome'[r] = "ok", [Next]_vars
  PROVE  pc[r] = "plan" \/ (pc[r] = "verify" /\ healed[r] \subseteq serving)
<1> USE DEF TypeOK, Goto, Fail, cluster, locals, Onlookers, vars
<1>1. ASSUME NEW o \in Ops, Assess(o), UNCHANGED interrupted
      PROVE  pc[r] = "plan" \/ (pc[r] = "verify" /\ healed[r] \subseteq serving)
  BY <1>1, AssessIs
<1>2. ASSUME NEW o \in Ops, SuspendForDonor(o), UNCHANGED interrupted
      PROVE  pc[r] = "plan" \/ (pc[r] = "verify" /\ healed[r] \subseteq serving)
  BY <1>2, SuspendForDonorIs
<1>3. ASSUME NEW o \in Ops, ResolveDonor(o), UNCHANGED interrupted
      PROVE  pc[r] = "plan" \/ (pc[r] = "verify" /\ healed[r] \subseteq serving)
  BY <1>3, ResolveDonorIs
<1>4. ASSUME NEW o \in Ops, GateResume(o), UNCHANGED interrupted
      PROVE  pc[r] = "plan" \/ (pc[r] = "verify" /\ healed[r] \subseteq serving)
  BY <1>4, GateResumeIs
<1>5. ASSUME NEW o \in Ops, Escrow(o), UNCHANGED interrupted
      PROVE  pc[r] = "plan" \/ (pc[r] = "verify" /\ healed[r] \subseteq serving)
  BY <1>5, EscrowIs
<1>6. ASSUME NEW o \in Ops, PlanTargets(o), UNCHANGED interrupted
      PROVE  pc[r] = "plan" \/ (pc[r] = "verify" /\ healed[r] \subseteq serving)
  BY <1>6 DEF PlanTargets
<1>7. ASSUME NEW o \in Ops, Heal(o), UNCHANGED interrupted
      PROVE  pc[r] = "plan" \/ (pc[r] = "verify" /\ healed[r] \subseteq serving)
  BY <1>7, HealIs
<1>8. ASSUME NEW o \in Ops, HealSuspend(o), UNCHANGED interrupted
      PROVE  pc[r] = "plan" \/ (pc[r] = "verify" /\ healed[r] \subseteq serving)
  BY <1>8, HealSuspendIs
<1>9. ASSUME NEW o \in Ops, HealScaleDown(o), UNCHANGED interrupted
      PROVE  pc[r] = "plan" \/ (pc[r] = "verify" /\ healed[r] \subseteq serving)
  BY <1>9, HealScaleDownIs
<1>10. ASSUME NEW o \in Ops, WaitGone(o), UNCHANGED interrupted
       PROVE  pc[r] = "plan" \/ (pc[r] = "verify" /\ healed[r] \subseteq serving)
  BY <1>10 DEF WaitGone
<1>11. ASSUME NEW o \in Ops, Wipe(o), UNCHANGED interrupted
       PROVE  pc[r] = "plan" \/ (pc[r] = "verify" /\ healed[r] \subseteq serving)
  BY <1>11 DEF Wipe, HelperGone
<1>12. ASSUME NEW o \in Ops, FinishHelpers(o), UNCHANGED interrupted
       PROVE  pc[r] = "plan" \/ (pc[r] = "verify" /\ healed[r] \subseteq serving)
  BY <1>12, FinishHelpersIs
<1>13. ASSUME NEW o \in Ops, HealScaleUp(o), UNCHANGED interrupted
       PROVE  pc[r] = "plan" \/ (pc[r] = "verify" /\ healed[r] \subseteq serving)
  BY <1>13, HealScaleUpIs
<1>14. ASSUME NEW o \in Ops, HealResume(o), UNCHANGED interrupted
       PROVE  pc[r] = "plan" \/ (pc[r] = "verify" /\ healed[r] \subseteq serving)
  BY <1>14, HealResumeIs
<1>15. ASSUME NEW o \in Ops, AwaitReady(o), UNCHANGED interrupted
       PROVE  pc[r] = "plan" \/ (pc[r] = "verify" /\ healed[r] \subseteq serving)
  BY <1>15 DEF AwaitReady
<1>16. ASSUME NEW o \in Ops, VerifyRecovery(o), UNCHANGED interrupted
       PROVE  pc[r] = "plan" \/ (pc[r] = "verify" /\ healed[r] \subseteq serving)
  BY <1>16 DEF VerifyRecovery
<1>17. ASSUME NEW o \in Ops, RescueHelpers(o), UNCHANGED interrupted
       PROVE  pc[r] = "plan" \/ (pc[r] = "verify" /\ healed[r] \subseteq serving)
  BY <1>17 DEF RescueHelpers, HelperGone
<1>18. ASSUME NEW o \in Ops, RescueScale(o), UNCHANGED interrupted
       PROVE  pc[r] = "plan" \/ (pc[r] = "verify" /\ healed[r] \subseteq serving)
  BY <1>18, RescueScaleIs
<1>19. ASSUME NEW o \in Ops, RescueResume(o), UNCHANGED interrupted
       PROVE  pc[r] = "plan" \/ (pc[r] = "verify" /\ healed[r] \subseteq serving)
  BY <1>19, RescueResumeIs
<1>20. ASSUME NEW o \in Ops, Cleanup(o), UNCHANGED interrupted
       PROVE  pc[r] = "plan" \/ (pc[r] = "verify" /\ healed[r] \subseteq serving)
  BY <1>20, CleanupIs
<1>21. ASSUME NEW o \in Ops, Interrupt(o)
       PROVE  pc[r] = "plan" \/ (pc[r] = "verify" /\ healed[r] \subseteq serving)
  BY <1>21 DEF Interrupt
<1>22. ASSUME NEW o \in Ops, Die(o)
       PROVE  pc[r] = "plan" \/ (pc[r] = "verify" /\ healed[r] \subseteq serving)
  BY <1>22 DEF Die
<1>23. ASSUME NEW o \in Ops, HelperExpires(o)
       PROVE  pc[r] = "plan" \/ (pc[r] = "verify" /\ healed[r] \subseteq serving)
  BY <1>23 DEF HelperExpires
<1>24. ASSUME OperatorScales, Onlookers
       PROVE  pc[r] = "plan" \/ (pc[r] = "verify" /\ healed[r] \subseteq serving)
  BY <1>24 DEF OperatorScales
<1>25. ASSUME OperatorWrites, Onlookers
       PROVE  pc[r] = "plan" \/ (pc[r] = "verify" /\ healed[r] \subseteq serving)
  BY <1>25 DEF OperatorWrites
<1>26. ASSUME NEW n \in Nodes, PodStarts(n), Onlookers
       PROVE  pc[r] = "plan" \/ (pc[r] = "verify" /\ healed[r] \subseteq serving)
  BY <1>26 DEF PodStarts
<1>27. ASSUME NEW n \in Nodes, PodStops(n), Onlookers
       PROVE  pc[r] = "plan" \/ (pc[r] = "verify" /\ healed[r] \subseteq serving)
  BY <1>27 DEF PodStops
<1>28. ASSUME NEW n \in Nodes, NodeFails(n), Onlookers
       PROVE  pc[r] = "plan" \/ (pc[r] = "verify" /\ healed[r] \subseteq serving)
  BY <1>28 DEF NodeFails
<1>29. ASSUME NEW n \in Nodes, NodeServes(n), Onlookers
       PROVE  pc[r] = "plan" \/ (pc[r] = "verify" /\ healed[r] \subseteq serving)
  BY <1>29 DEF NodeServes
<1>30. ASSUME Commit PROVE pc[r] = "plan" \/ (pc[r] = "verify" /\ healed[r] \subseteq serving)
  BY <1>30 DEF Commit
<1>31. ASSUME UNCHANGED vars
       PROVE  pc[r] = "plan" \/ (pc[r] = "verify" /\ healed[r] \subseteq serving)
  BY <1>31 DEF vars
<1> QED
  BY <1>1, <1>2, <1>3, <1>4, <1>5, <1>6, <1>7, <1>8, <1>9, <1>10, <1>11, <1>12, <1>13, <1>14,
     <1>15, <1>16, <1>17, <1>18, <1>19, <1>20, <1>21, <1>22, <1>23, <1>24, <1>25, <1>26,
     <1>27, <1>28, <1>29, <1>30, <1>31, StepCases


-----------------------------------------------------------------------------
(* Theorems *)

\* At the beginning nothing is under way, and the members have everything.
LEMMA RepairInit ==
  Init => TypeOK /\ Scaled /\ Owed /\ HonestInv
<1> SUFFICES ASSUME Init PROVE TypeOK /\ Scaled /\ Owed /\ HonestInv
  OBVIOUS
<1>1. TypeOK
  BY Given DEF Init, ClusterInit, TypeOK, ClusterTypeOK, Working, Ended
<1>2. Scaled /\ Owed
  BY DEF Init, ClusterInit, Scaled, Owed
<1>3. Turns /\ Unhealed
  BY DEF Init, ClusterInit, Turns, Unhealed, Working
<1>4. \A r \in Ops : Held(r) /\ Sealed(r) /\ Emptied(r)
  BY DEF Init, ClusterInit, Held, Sealed, Emptied
<1>5. Members
  BY DEF Init, ClusterInit, Members
<1> QED
  BY <1>1, <1>2, <1>3, <1>4, <1>5 DEF HonestInv

\* The types of the state, for any number of repairs, overlapping or not, and any faults.
THEOREM HealTyped == Spec => []TypeOK
<1>1. Init => TypeOK
  BY RepairInit
<1>2. TypeOK /\ [Next]_vars => TypeOK'
  BY TypedNext
<1> QED
  BY <1>1, <1>2, PTL DEF Spec

\* No node but one being healed is ever taken down, however many repairs run beside one
\* another and whatever fails, misleads, is interrupted or dies.
THEOREM HealTouchesNoOther == Spec => []OthersUntouched
<1>1. Init => Scaled
  BY RepairInit
<1>2. TypeOK /\ Scaled /\ [Next]_vars => Scaled'
  BY ScaledNext
<1>3. TypeOK /\ Scaled => OthersUntouched
  BY Given DEF TypeOK, ClusterTypeOK, Scaled, Lowered, OthersUntouched
<1> QED
  BY <1>1, <1>2, <1>3, HealTyped, PTL DEF Spec

\* When every repair is over, none warned and none was interrupted, the operator is active
\* again, if a suspend that fails has not taken place and a resume does not fail.
THEOREM HealRestores ==
  ASSUME "suspend" \notin MayMislead, "resume" \notin MayFail
  PROVE  Spec => []OperatorRestored
<1>1. Init => Owed
  BY RepairInit
<1>2. TypeOK /\ Owed /\ [Next]_vars => Owed'
  BY OwedNext
<1>3. TypeOK /\ Owed => OperatorRestored
  BY DEF TypeOK, ClusterTypeOK, Owed, OperatorRestored, Working
<1> QED
  BY <1>1, <1>2, <1>3, HealTyped, PTL DEF Spec

\* The inductive invariant behind the next two theorems.
THEOREM HealInvariant ==
  ASSUME InTurn, "helper" \notin MayMislead
  PROVE  Spec => []HonestInv
<1>1. Init => HonestInv
  BY RepairInit
<1>2. TypeOK /\ HonestInv /\ [Next]_vars => HonestInv'
  <2> SUFFICES ASSUME TypeOK, HonestInv, [Next]_vars PROVE HonestInv'
    OBVIOUS
  <2>1. Turns'
    BY TurnsNext DEF HonestInv, InTurn
  <2>2. \A r \in Ops : (Held(r) /\ Sealed(r) /\ Emptied(r))'
    BY SealedNext DEF HonestInv
  <2>3. Members'
    BY MembersNext DEF HonestInv
  <2>4. Unhealed'
    BY UnhealedNext DEF HonestInv
  <2> QED
    BY <2>1, <2>2, <2>3, <2>4 DEF HonestInv
<1> QED
  BY <1>1, <1>2, HealTyped, PTL DEF Spec

\* No helper works in a datadir that a database process holds open, if repairs take turns
\* and an error of a helper call does not hide a helper that is still there.
THEOREM HealDatadirsExclusive ==
  ASSUME InTurn, "helper" \notin MayMislead
  PROVE  Spec => []DatadirExclusive
<1>1. TypeOK /\ HonestInv => DatadirExclusive
  BY Given DEF TypeOK, ClusterTypeOK, HonestInv, Sealed, DatadirExclusive
<1> QED
  BY <1>1, HealTyped, HealInvariant, PTL

\* Under the same conditions "ok" means that every node the repair healed has the latest
\* commits.
THEOREM HealOkIsHonest ==
  ASSUME InTurn, "helper" \notin MayMislead
  PROVE  Spec => OkIsHonest
<1> DEFINE Honest ==
      \A r \in Ops : (outcome[r] # "ok" /\ outcome'[r] = "ok") => healed[r] \subseteq current
<1>1. TypeOK /\ HonestInv /\ [Next]_vars => [Honest]_vars
  <2> SUFFICES ASSUME TypeOK, HonestInv, [Next]_vars,
                      NEW r \in Ops, outcome[r] # "ok", outcome'[r] = "ok"
               PROVE  healed[r] \subseteq current
    OBVIOUS
  <2>1. \/ pc[r] = "plan"
        \/ pc[r] = "verify" /\ healed[r] \subseteq serving
    BY OkIsGiven
  <2> QED
    BY <2>1 DEF HonestInv, Unhealed, Members
<1> QED
  BY <1>1, HealTyped, HealInvariant, PTL DEF Spec, OkIsHonest
=============================================================================
