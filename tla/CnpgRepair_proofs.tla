--------------------------- MODULE CnpgRepair_proofs ---------------------------
(***************************************************************************)
(* CnpgRepair's properties for any instances, commits and invocations.     *)
(* Nothing is assumed beyond the constants' types.                         *)
(***************************************************************************)
EXTENDS CnpgRepair, TLAPS

-----------------------------------------------------------------------------
(* The inductive invariant *)

\* A target is being treated; the run is in its loop over the targets.
Busy    == {"guard", "acquire", "restart", "ready"} \cup Held
Healing == {"heal"} \cup Busy

\* The loop over the breaker's targets, and the loop over the repair's.
Breaking  == phase # "heal" /\ pc \in Healing
Repairing == phase = "heal" /\ pc \in Healing
Planned   == pc = "plan" \/ Repairing

\* A job's target is fenced, and nothing else that has data is, until the run ends.
Fences ==
  /\ pc \in Busy => target \in Instances
  /\ pc \in Held => target \in fenced
  /\ \A i \in fenced : holds[i] = {} \/ (pc \in Held /\ i = target) \/ pc = "ended"

\* The breaker treats what it escrowed.
BreakerTargets == Breaking => todo \subseteq disposable /\ (pc \in Busy => target \in disposable)

\* Once captured, the recovery set and the authority stay recoverable.
BreakerCopied ==
  (pc \in {"confirm", "unfreeze"} \/ Breaking) /\ ~moved =>
    \A i \in disposable \cup {cached} : Copied(seen[i])

\* Between a triage and the escrow no instance loses what was seen, unless data moved.
AsSeen ==
  pc \in {"capture", "promoteCapture", "escrow"} /\ ~moved =>
    /\ \A i \in Instances : seen[i] \subseteq holds[i]
    /\ pc = "escrow" => cached = primary

\* Where it is safe to heal, the primary had all there was.
Judged ==
  (pc = "escrow" \/ Planned) /\ SafeToHeal => \A i \in Instances : seen[i] \subseteq seen[cached]

\* What the escrow holds: the primary where it has everything, all where it has not, and
\* nothing when waived, when the primary itself must stay what it was.
Escrowed ==
  Planned /\ ~moved =>
    IF order.noEscrow THEN cached = primary /\ seen[cached] \subseteq holds[cached]
    ELSE \A i \in Instances : Copied(seen[IF SafeToHeal THEN cached ELSE i])

\* The primary the run knows is never a target, and an unsafe repair was forced.
Spared ==
  /\ pc \in {"escrow", "plan"} => remedy[cached] = "none"
  /\ Repairing => cached \notin todo /\ (pc \in Busy => target # cached)
  /\ Repairing => SafeToHeal \/ order.force

\* A target is healed once, and only one that is not fenced is merely restarted.
OnceHealed ==
  /\ healed \cap fenced = {} /\ healed \cap todo = {}
  /\ pc \in Busy => target \notin todo \cup healed
  /\ healed # {} => Repairing \/ pc \in {"reassess", "verify", "ended"}
  /\ pc \in {"reassess", "verify"} => todo = {}
  /\ pc \in {"escrow", "plan"} => \A i \in fenced : remedy[i] # "restart"
  /\ Repairing => \A i \in todo \cap fenced : remedy[i] # "restart"
  /\ pc = "restart" => phase = "heal" /\ target \notin fenced

\* A run with a named instance treats that one.
AsOrdered ==
  order.instance # NoPod /\ (Repairing \/ pc \in {"reassess", "verify"}) =>
    todo \cup healed \cup (IF pc \in Busy THEN {target} ELSE {}) = {order.instance}

Outcomes ==
  /\ outcome # "none" => pc = "ended"
  /\ outcome = "prepared" /\ ~moved => \A i \in Instances : Copied(seen[i])

RepairInv ==
  /\ Fences /\ BreakerTargets /\ BreakerCopied /\ AsSeen /\ Judged /\ Escrowed /\ Spared
  /\ OnceHealed /\ AsOrdered /\ Outcomes

-----------------------------------------------------------------------------
(* What a triage says, and what the world does *)

\* The constants' types, as every step needs them.
LEMMA Given ==
  /\ NoPod \notin Instances
  /\ \A o \in Orders \cup {NoOrder} : /\ o.mode \in Modes /\ o.instance \in Instances \cup {NoPod}
                                      /\ o.force \in BOOLEAN /\ o.noEscrow \in BOOLEAN
<1>1. ASSUME NEW o \in Orders
      PROVE  o \in [mode : Modes, instance : Instances \cup {NoPod}, force : BOOLEAN, noEscrow : BOOLEAN]
  BY RepairAssumption
<1>2. NoOrder \in [mode : Modes, instance : Instances \cup {NoPod}, force : BOOLEAN, noEscrow : BOOLEAN]
  BY DEF NoOrder, Modes
<1>3. \A o \in Orders \cup {NoOrder} :
        o \in [mode : Modes, instance : Instances \cup {NoPod}, force : BOOLEAN, noEscrow : BOOLEAN]
  BY <1>1, <1>2
<1> QED
  BY <1>3, RepairAssumption

\* Only an instance with data, and not the primary the run knows, is to be healed; and
\* where that is safe, the primary has all the others have.
LEMMA TriageSays ==
  ASSUME TypeOK, TriageRun
  PROVE  /\ authority' \in {"provable", "leaderNotPrimary", "diverged", "undeterminable"}
         /\ leader' \in Instances \cup {NoPod}
         /\ remedy' \in [Instances -> {"none", "restart", "reseed"}]
         /\ \A i \in Instances : remedy'[i] # "none" => i # cached /\ holds[i] # {}
         /\ authority' = "provable" => \A i \in Instances : holds[i] \subseteq holds[cached]
<1>1. PICK unread \in SUBSET MayBeUnread :
        LET found == Authority(unread) IN
        /\ authority' = found.status
        /\ leader' \in found.leaders
        /\ remedy' \in {r \in [Instances -> {"none", "restart", "reseed"}] :
                          \A i \in Instances : r[i] \in Remedies(i, found.status = "provable")}
  BY DEF TriageRun
<1> DEFINE read == {i \in Instances \ unread : holds[i] # {}}
           top  == {i \in read : \A j \in read : holds[j] \subseteq holds[i]}
<1>2. /\ authority' \in {"provable", "leaderNotPrimary", "diverged", "undeterminable"}
      /\ leader' \in Instances \cup {NoPod}
      /\ authority' = "provable" => unread = {} /\ cached \in top
  <2>1. CASE unread # {} \/ read = {}
    <3>1. Authority(unread) = [status |-> "undeterminable", leaders |-> {NoPod}]
      BY <2>1 DEF Authority
    <3> QED
      BY <1>1, <3>1
  <2>2. CASE ~(unread # {} \/ read = {}) /\ top = {}
    BY <1>1, <2>2 DEF Authority
  <2>3. CASE ~(unread # {} \/ read = {}) /\ top # {} /\ cached \in top
    BY <1>1, <2>3 DEF Authority
  <2>4. CASE ~(unread # {} \/ read = {}) /\ top # {} /\ cached \notin top
    <3>1. Authority(unread) = [status |-> "leaderNotPrimary", leaders |-> top]
      BY <2>4 DEF Authority
    <3> QED
      BY <1>1, <3>1
  <2> QED
    BY <2>1, <2>2, <2>3, <2>4
<1>3. authority' = "provable" => \A i \in Instances : holds[i] \subseteq holds[cached]
  BY <1>2
<1>4. /\ remedy' \in [Instances -> {"none", "restart", "reseed"}]
      /\ \A i \in Instances : remedy'[i] # "none" => i # cached /\ holds[i] # {}
  <2>1. PICK safe \in BOOLEAN :
          remedy' \in {r \in [Instances -> {"none", "restart", "reseed"}] :
                         \A i \in Instances : r[i] \in Remedies(i, safe)}
    BY <1>1
  <2>2. ASSUME NEW i \in Instances, remedy'[i] # "none" PROVE i # cached /\ holds[i] # {}
    <3>1. remedy'[i] \in Remedies(i, safe)
      BY <2>1
    <3>2. i = cached \/ holds[i] = {} => Remedies(i, safe) = {"none"}
      BY DEF Remedies
    <3> QED
      BY <2>2, <3>1, <3>2
  <2> QED
    BY <2>1, <2>2
<1> QED
  BY <1>2, <1>3, <1>4

\* The cluster leaves the run's own state and the fence alone; what it does to data
\* before that is escrowed, but for adding to it, is a move; and an empty data directory
\* stays empty.
LEMMA WorldSays ==
  ASSUME TypeOK, World
  PROVE  /\ pc \in Working \ {"plan", "heal", "reassess"}
         /\ UNCHANGED <<run, fenced, saved, seen, confirmed>>
         /\ moved => moved'
         /\ \A i \in Instances : holds[i] = {} => holds'[i] = {}
         /\ ~moved' /\ (order.noEscrow \/ pc \in {"capture", "promoteCapture", "escrow"}) =>
              primary' = primary /\ \A i \in Instances : holds[i] \subseteq holds'[i]
<1> USE DEF TypeOK, history
<1>1. ASSUME Commit
      PROVE  /\ UNCHANGED <<run, fenced, saved, seen, confirmed, moved, primary>>
             /\ \A i \in Instances : holds[i] = {} => holds'[i] = {}
             /\ \A i \in Instances : holds[i] \subseteq holds'[i]
  BY <1>1 DEF Commit
<1>2. ASSUME NEW i \in Instances, Stream(i)
      PROVE  /\ UNCHANGED <<run, fenced, saved, seen, confirmed, moved, primary>>
             /\ \A j \in Instances : holds[j] = {} => holds'[j] = {}
             /\ \A j \in Instances : holds[j] \subseteq holds'[j]
  BY <1>2 DEF Stream
<1>3. ASSUME NEW i \in Instances, Stop(i) \/ Start(i) \/ Thaw
      PROVE  UNCHANGED <<run, fenced, saved, seen, confirmed, moved, primary, holds>>
  BY <1>3 DEF Stop, Start, Thaw
<1>4. ASSUME NEW i \in Instances, Rewind(i) \/ Failover(i)
      PROVE  /\ UNCHANGED <<run, fenced, saved, seen, confirmed>>
             /\ moved \/ order.noEscrow \/ pc \in {"capture", "promoteCapture", "escrow"} => moved'
             /\ \A j \in Instances : holds[j] = {} => holds'[j] = {}
  <2>1. \A j \in Instances : holds[j] = {} => holds'[j] = {}
    BY <1>4 DEF Rewind, Startable, Failover
  <2>2. Shift /\ UNCHANGED <<run, fenced, saved, seen, confirmed>>
    BY <1>4 DEF Rewind, Failover
  <2> QED
    BY <2>1, <2>2 DEF Shift
<1>5. pc \in Working \ {"plan", "heal", "reassess"}
  BY DEF World
<1>6. CASE Commit
  BY <1>1, <1>5, <1>6
<1>7. ASSUME NEW i \in Instances, Stream(i)
      PROVE  /\ UNCHANGED <<run, fenced, saved, seen, confirmed>>
             /\ moved => moved'
             /\ \A j \in Instances : holds[j] = {} => holds'[j] = {}
             /\ primary' = primary /\ \A j \in Instances : holds[j] \subseteq holds'[j]
  BY <1>2, <1>7
<1>8. CASE Thaw
  <2>1. UNCHANGED <<run, fenced, saved, seen, confirmed, moved, primary, holds>>
    BY <1>8 DEF Thaw
  <2> QED
    BY <1>5, <2>1
<1>9. ASSUME NEW i \in Instances, Stop(i) \/ Start(i)
      PROVE  UNCHANGED <<run, fenced, saved, seen, confirmed, moved, primary, holds>>
  BY <1>3, <1>9
<1> QED
  BY <1>4, <1>5, <1>6, <1>7, <1>8, <1>9 DEF World

-----------------------------------------------------------------------------
(* The types and the fences *)

\* Every step keeps the types; a job has its target fenced, and cuts off no one else.
LEMMA TypedNext ==
  ASSUME TypeOK, Fences, BreakerTargets, [Next]_vars
  PROVE  TypeOK' /\ Fences'
<1> USE Given DEF TypeOK, Fences, BreakerTargets, Busy, Healing, Breaking, Held, Working, Goto,
        End, world, verdict,
      jobs, history
<1>1. CASE Begin
  BY <1>1 DEF Begin
<1>2. CASE BreakerTriage
  <2>1. TriageRun
    BY <1>2 DEF BreakerTriage
  <2> QED
    BY <1>2, <2>1, TriageSays DEF BreakerTriage, Disposable
<1>3. CASE BreakerCapture
  BY <1>3 DEF BreakerCapture
<1>4. CASE Confirm
  <2>1. TriageRun
    BY <1>4 DEF Confirm
  <2> QED
    BY <1>4, <2>1, TriageSays DEF Confirm, Disposable
<1>5. CASE AwaitUnfrozen
  BY <1>5 DEF AwaitUnfrozen
<1>6. CASE PromoteTriage
  <2>1. TriageRun
    BY <1>6 DEF PromoteTriage
  <2> QED
    BY <1>6, <2>1, TriageSays DEF PromoteTriage
<1>7. CASE PromoteCapture
  BY <1>7 DEF PromoteCapture
<1>8. CASE Assess
  <2>1. TriageRun
    BY <1>8 DEF Assess
  <2> QED
    BY <1>8, <2>1, TriageSays DEF Assess
<1>9. CASE Escrow
  BY <1>9 DEF Escrow
<1>10. CASE PlanTargets
  BY <1>10 DEF PlanTargets, PlanUntargeted, PlanTargeted
<1>11. CASE NextTarget
  BY <1>11 DEF NextTarget
<1>12. CASE Guard
  BY <1>12 DEF Guard
<1>13. CASE Acquire
  BY <1>13 DEF Acquire
<1>14. CASE ClearDatadir
  BY <1>14 DEF ClearDatadir
<1>15. CASE Clone
  BY <1>15 DEF Clone
<1>16. CASE Release
  BY <1>16 DEF Release
<1>17. CASE Restart
  BY <1>17 DEF Restart
<1>18. CASE AwaitReady
  BY <1>18 DEF AwaitReady
<1>19. CASE Reassess
  BY <1>19 DEF Reassess
<1>20. CASE VerifyRecovery
  BY <1>20 DEF VerifyRecovery
<1>21. CASE Abort
  BY <1>21 DEF Abort
<1>22. CASE World
  <2>1. /\ UNCHANGED <<run, fenced, saved, seen, confirmed>>
        /\ \A i \in Instances : holds[i] = {} => holds'[i] = {}
    BY <1>22, WorldSays
  <2>2. Fences'
    BY <2>1 DEF run
  <2>3. ASSUME Commit PROVE TypeOK'
    BY <2>1, <2>3 DEF Commit, run
  <2>4. ASSUME NEW i \in Instances, Stream(i) PROVE TypeOK'
    BY <2>1, <2>4 DEF Stream, run
  <2>5. ASSUME NEW i \in Instances, Stop(i) PROVE TypeOK'
    BY <2>1, <2>5, RepairAssumption DEF Stop, Move, run
  <2>6. ASSUME NEW i \in Instances, Start(i) PROVE TypeOK'
    BY <2>1, <2>6 DEF Start, Startable, run
  <2>7. ASSUME NEW i \in Instances, Rewind(i) PROVE TypeOK'
    BY <2>1, <2>7, RepairAssumption DEF Rewind, Startable, Shift, Move, run
  <2>8. ASSUME NEW i \in Instances, Failover(i) PROVE TypeOK'
    BY <2>1, <2>8, RepairAssumption DEF Failover, Shift, Move, run
  <2>9. ASSUME Thaw PROVE TypeOK'
    <3>1. frozen' \in BOOLEAN /\ UNCHANGED <<primary, holds, up, streaming, shadowed, moves, moved>>
      BY <2>9 DEF Thaw
    <3> QED
      BY <2>1, <3>1 DEF run
  <2> QED
    BY <1>22, <2>2, <2>3, <2>4, <2>5, <2>6, <2>7, <2>8, <2>9 DEF World
<1>23. CASE UNCHANGED vars
  BY <1>23 DEF vars
<1> QED
  BY <1>1, <1>2, <1>3, <1>4, <1>5, <1>6, <1>7, <1>8, <1>9, <1>10, <1>11, <1>12, <1>13, <1>14,
     <1>15, <1>16, <1>17, <1>18, <1>19, <1>20, <1>21, <1>22, <1>23 DEF Next, Run

-----------------------------------------------------------------------------
(* What the escrow holds *)

\* The breaker clears and re-clones what it found disposable, and all of that stays copied.
LEMMA BreakerNext ==
  ASSUME TypeOK, TypeOK', AsSeen, BreakerTargets, BreakerCopied, [Next]_vars
  PROVE  BreakerTargets' /\ BreakerCopied'
<1> USE Given DEF TypeOK, Busy, Healing, Breaking, Repairing, Planned, Held, Working, Goto, End,
        world, verdict, jobs,
      history, BreakerTargets, BreakerCopied
<1>1. CASE Begin
  BY <1>1 DEF Begin, Copied
<1>2. CASE BreakerTriage
  BY <1>2 DEF BreakerTriage, Copied
<1>3. CASE BreakerCapture
  <2>1. /\ pc = "capture" /\ pc' = "confirm" /\ UNCHANGED <<disposable, cached, seen, moved, todo>>
        /\ saved' = saved \cup {holds[i] : i \in disposable \cup {cached}}
    BY <1>3 DEF BreakerCapture
  <2>2. ASSUME ~moved, NEW i \in disposable \cup {cached} PROVE Copied(seen[i])'
    <3>1. holds[i] \in saved' /\ seen[i] \subseteq holds[i]
      BY <2>1, <2>2 DEF AsSeen
    <3> QED
      BY <2>1, <3>1 DEF Copied
  <2> QED
    BY <2>1, <2>2
<1>4. CASE Confirm
  BY <1>4 DEF Confirm, Copied
<1>5. CASE AwaitUnfrozen
  BY <1>5 DEF AwaitUnfrozen, Copied
<1>6. CASE PromoteTriage
  BY <1>6 DEF PromoteTriage, Copied
<1>7. CASE PromoteCapture
  BY <1>7 DEF PromoteCapture, Copied
<1>8. CASE Assess
  BY <1>8 DEF Assess, Copied
<1>9. CASE Escrow
  BY <1>9 DEF Escrow, Copied
<1>10. CASE PlanTargets
  BY <1>10 DEF PlanTargets, Copied, PlanUntargeted, PlanTargeted
<1>11. CASE NextTarget
  BY <1>11 DEF NextTarget, Copied
<1>12. CASE Guard
  BY <1>12 DEF Guard, Copied
<1>13. CASE Acquire
  BY <1>13 DEF Acquire, Copied
<1>14. CASE ClearDatadir
  BY <1>14 DEF ClearDatadir, Copied
<1>15. CASE Clone
  BY <1>15 DEF Clone, Copied
<1>16. CASE Release
  BY <1>16 DEF Release, Copied
<1>17. CASE Restart
  BY <1>17 DEF Restart, Copied
<1>18. CASE AwaitReady
  BY <1>18 DEF AwaitReady, Copied
<1>19. CASE Reassess
  BY <1>19 DEF Reassess, Copied
<1>20. CASE VerifyRecovery
  BY <1>20 DEF VerifyRecovery, Copied
<1>21. CASE Abort
  BY <1>21 DEF Abort, Copied
<1>22. CASE World
  <2>1. UNCHANGED <<pc, phase, todo, target, disposable, cached, saved, seen>> /\ (moved => moved')
    BY <1>22, WorldSays DEF run
  <2> QED
    BY <2>1 DEF Copied
<1>23. CASE UNCHANGED vars
  BY <1>23 DEF vars, Copied
<1> QED
  BY <1>1, <1>2, <1>3, <1>4, <1>5, <1>6, <1>7, <1>8, <1>9, <1>10, <1>11, <1>12, <1>13, <1>14,
     <1>15, <1>16, <1>17, <1>18, <1>19, <1>20, <1>21, <1>22, <1>23 DEF Next, Run
\* What triage saw and said holds until the repair is over.
LEMMA SeenNext ==
  ASSUME TypeOK, TypeOK', AsSeen, Judged, Spared, [Next]_vars
  PROVE  AsSeen' /\ Judged' /\ Spared'
<1> USE Given DEF TypeOK, Busy, Healing, Breaking, Repairing, Planned, Held, Working, Goto, End,
        world, verdict, jobs,
      history, AsSeen, Judged, Spared, SafeToHeal
<1>1. CASE Begin
  BY <1>1 DEF Begin
<1>2. CASE BreakerTriage
  BY <1>2 DEF BreakerTriage
<1>3. CASE BreakerCapture
  BY <1>3 DEF BreakerCapture
<1>4. CASE Confirm
  BY <1>4 DEF Confirm
<1>5. CASE AwaitUnfrozen
  BY <1>5 DEF AwaitUnfrozen
<1>6. CASE PromoteTriage
  BY <1>6 DEF PromoteTriage
<1>7. CASE PromoteCapture
  BY <1>7 DEF PromoteCapture
<1>8. CASE Assess
  <2>1. TriageRun /\ pc' = "escrow" /\ seen' = holds /\ moved' = (cached # primary)
        /\ UNCHANGED <<primary, holds, cached>>
    BY <1>8 DEF Assess
  <2>2. /\ remedy'[cached] = "none"
        /\ authority' = "provable" => \A i \in Instances : holds[i] \subseteq holds[cached]
    BY <2>1, TriageSays
  <2> QED
    BY <2>1, <2>2
<1>9. CASE Escrow
  BY <1>9 DEF Escrow
<1>10. CASE PlanTargets
  <2>1. pc = "plan" /\ phase' = "heal" /\ pc' \in {"heal", "ended"}
        /\ UNCHANGED <<authority, order, cached, seen, moved>>
    BY <1>10 DEF PlanTargets, PlanUntargeted, PlanTargeted
  <2>2. pc' = "heal" => cached \notin todo'
    BY <1>10 DEF PlanTargets, PlanUntargeted, PlanTargeted
  <2>3. SafeToHeal \/ order.force
    BY <1>10 DEF PlanTargets, PlanUntargeted, PlanTargeted
  <2> QED
    BY <2>1, <2>2, <2>3
<1>11. CASE NextTarget
  BY <1>11 DEF NextTarget
<1>12. CASE Guard
  BY <1>12 DEF Guard
<1>13. CASE Acquire
  BY <1>13 DEF Acquire
<1>14. CASE ClearDatadir
  BY <1>14 DEF ClearDatadir
<1>15. CASE Clone
  BY <1>15 DEF Clone
<1>16. CASE Release
  BY <1>16 DEF Release
<1>17. CASE Restart
  BY <1>17 DEF Restart
<1>18. CASE AwaitReady
  BY <1>18 DEF AwaitReady
<1>19. CASE Reassess
  BY <1>19 DEF Reassess
<1>20. CASE VerifyRecovery
  BY <1>20 DEF VerifyRecovery
<1>21. CASE Abort
  BY <1>21 DEF Abort
<1>22. CASE World
  <2>1. UNCHANGED <<pc, phase, todo, target, authority, remedy, order, cached, seen>>
    BY <1>22, WorldSays DEF run
  <2>2. /\ moved => moved'
        /\ ~moved' /\ pc \in {"capture", "promoteCapture", "escrow"} =>
             primary' = primary /\ \A i \in Instances : holds[i] \subseteq holds'[i]
    BY <1>22, WorldSays
  <2>3. AsSeen'
    BY <2>1, <2>2
  <2> QED
    BY <2>1, <2>3
<1>23. CASE UNCHANGED vars
  BY <1>23 DEF vars
<1> QED
  BY <1>1, <1>2, <1>3, <1>4, <1>5, <1>6, <1>7, <1>8, <1>9, <1>10, <1>11, <1>12, <1>13, <1>14,
     <1>15, <1>16, <1>17, <1>18, <1>19, <1>20, <1>21, <1>22, <1>23 DEF Next, Run

\* From the escrow on, what was seen is copied, or waived and on a primary that stays.
LEMMA EscrowedNext ==
  ASSUME TypeOK, TypeOK', AsSeen, Judged, Spared, Escrowed, Outcomes, [Next]_vars
  PROVE  Escrowed' /\ Outcomes'
<1> USE Given DEF TypeOK, Busy, Healing, Breaking, Repairing, Planned, Held, Working, Goto, End,
        world, verdict, jobs,
      history, Escrowed, Outcomes, SafeToHeal
<1>1. CASE Begin
  BY <1>1 DEF Begin, Copied
<1>2. CASE BreakerTriage
  BY <1>2 DEF BreakerTriage, Copied
<1>3. CASE BreakerCapture
  BY <1>3 DEF BreakerCapture, Copied
<1>4. CASE Confirm
  BY <1>4 DEF Confirm, Copied
<1>5. CASE AwaitUnfrozen
  BY <1>5 DEF AwaitUnfrozen, Copied
<1>6. CASE PromoteTriage
  BY <1>6 DEF PromoteTriage, Copied
<1>7. CASE PromoteCapture
  <2>1. /\ pc = "promoteCapture" /\ pc' = "ended" /\ UNCHANGED <<seen, moved>>
        /\ saved' = saved \cup {holds[i] : i \in Instances}
    BY <1>7 DEF PromoteCapture
  <2>2. ASSUME ~moved, NEW i \in Instances PROVE Copied(seen[i])'
    <3>1. holds[i] \in saved' /\ seen[i] \subseteq holds[i]
      BY <2>1, <2>2 DEF AsSeen
    <3> QED
      BY <2>1, <3>1 DEF Copied
  <2> QED
    BY <2>1, <2>2
<1>8. CASE Assess
  BY <1>8 DEF Assess, Copied
<1>9. CASE Escrow
  <2>1. /\ pc = "escrow" /\ pc' = "plan"
        /\ UNCHANGED <<authority, order, cached, seen, moved, primary, holds, outcome>>
        /\ ~order.noEscrow => saved' = saved \cup {holds[i] : i \in IF SafeToHeal THEN {cached} ELSE Instances}
    BY <1>9 DEF Escrow
  <2>2. ASSUME ~moved, ~order.noEscrow, NEW i \in Instances
        PROVE  Copied(seen[IF SafeToHeal THEN cached ELSE i])'
    <3> DEFINE j == IF SafeToHeal THEN cached ELSE i
    <3>1. holds[j] \in saved'
      BY <2>1, <2>2
    <3>2. seen[j] \subseteq holds[j]
      BY <2>1, <2>2 DEF AsSeen
    <3> QED
      BY <2>1, <3>1, <3>2 DEF Copied
  <2>3. ~moved => cached = primary /\ seen[cached] \subseteq holds[cached]
    BY <2>1 DEF AsSeen
  <2>4. Escrowed'
    BY <2>1, <2>2, <2>3
  <2> QED
    BY <2>1, <2>4
<1>10. CASE PlanTargets
  BY <1>10 DEF PlanTargets, Copied, PlanUntargeted, PlanTargeted
<1>11. CASE NextTarget
  BY <1>11 DEF NextTarget, Copied
<1>12. CASE Guard
  BY <1>12 DEF Guard, Copied
<1>13. CASE Acquire
  BY <1>13 DEF Acquire, Copied
<1>14. CASE ClearDatadir
  <2>1. /\ UNCHANGED <<phase, authority, order, cached, seen, moved, primary, outcome, saved>>
        /\ pc = "clear" /\ pc' \in {"release", "clone"} /\ outcome = "none"
        /\ holds' = [holds EXCEPT ![target] = {}]
    BY <1>14 DEF ClearDatadir
  <2>2. phase = "heal" => holds'[cached] = holds[cached]
    BY <2>1 DEF Spared
  <2> QED
    BY <2>1, <2>2 DEF Copied
<1>15. CASE Clone
  <2>1. /\ UNCHANGED <<phase, authority, order, cached, seen, moved, primary, saved>>
        /\ pc = "clone" /\ pc' \in {"release", "ended"} /\ outcome' \in {"none", "error"}
        /\ holds' = [holds EXCEPT ![target] = holds[source]]
        /\ outcome' # "none" => pc' = "ended"
    BY <1>15 DEF Clone
  <2>2. phase = "heal" => holds'[cached] = holds[cached]
    BY <2>1 DEF Spared
  <2> QED
    BY <2>1, <2>2 DEF Copied
<1>16. CASE Release
  BY <1>16 DEF Release, Copied
<1>17. CASE Restart
  BY <1>17 DEF Restart, Copied
<1>18. CASE AwaitReady
  BY <1>18 DEF AwaitReady, Copied
<1>19. CASE Reassess
  BY <1>19 DEF Reassess, Copied
<1>20. CASE VerifyRecovery
  BY <1>20 DEF VerifyRecovery, Copied
<1>21. CASE Abort
  BY <1>21 DEF Abort, Copied
<1>22. CASE World
  <2>1. UNCHANGED <<pc, phase, authority, order, cached, seen, saved, outcome>>
    BY <1>22, WorldSays DEF run
  <2>2. /\ moved => moved'
        /\ ~moved' /\ order.noEscrow =>
             primary' = primary /\ \A i \in Instances : holds[i] \subseteq holds'[i]
    BY <1>22, WorldSays
  <2>3. pc # "ended"
    BY <1>22 DEF World
  <2> QED
    BY <2>1, <2>2, <2>3 DEF Copied
<1>23. CASE UNCHANGED vars
  BY <1>23 DEF vars, Copied
<1> QED
  BY <1>1, <1>2, <1>3, <1>4, <1>5, <1>6, <1>7, <1>8, <1>9, <1>10, <1>11, <1>12, <1>13, <1>14,
     <1>15, <1>16, <1>17, <1>18, <1>19, <1>20, <1>21, <1>22, <1>23 DEF Next, Run

-----------------------------------------------------------------------------
(* What is healed *)

\* A target is healed once, is not fenced when it was, and is the one that was ordered.
LEMMA HealedNext ==
  ASSUME TypeOK, TypeOK', Fences, OnceHealed, AsOrdered, [Next]_vars
  PROVE  OnceHealed' /\ AsOrdered'
<1> USE Given DEF TypeOK, Busy, Healing, Breaking, Repairing, Planned, Held, Working, Goto, End,
        world, verdict, jobs,
      history, Fences, OnceHealed, AsOrdered
<1>1. CASE Begin
  BY <1>1 DEF Begin
<1>2. CASE BreakerTriage
  BY <1>2 DEF BreakerTriage
<1>3. CASE BreakerCapture
  BY <1>3 DEF BreakerCapture
<1>4. CASE Confirm
  BY <1>4 DEF Confirm
<1>5. CASE AwaitUnfrozen
  BY <1>5 DEF AwaitUnfrozen
<1>6. CASE PromoteTriage
  BY <1>6 DEF PromoteTriage
<1>7. CASE PromoteCapture
  BY <1>7 DEF PromoteCapture
<1>8. CASE Assess
  <2>1. TriageRun /\ pc = "assess" /\ pc' = "escrow" /\ UNCHANGED <<fenced, healed, holds, todo, target>>
    BY <1>8 DEF Assess
  <2>2. \A i \in Instances : remedy'[i] # "none" => holds[i] # {}
    BY <2>1, TriageSays
  <2> QED
    BY <2>1, <2>2
<1>9. CASE Escrow
  BY <1>9 DEF Escrow
<1>10. CASE PlanTargets
  BY <1>10 DEF PlanTargets, PlanUntargeted, PlanTargeted
<1>11. CASE NextTarget
  BY <1>11 DEF NextTarget
<1>12. CASE Guard
  BY <1>12 DEF Guard
<1>13. CASE Acquire
  BY <1>13 DEF Acquire
<1>14. CASE ClearDatadir
  BY <1>14 DEF ClearDatadir
<1>15. CASE Clone
  BY <1>15 DEF Clone
<1>16. CASE Release
  BY <1>16 DEF Release
<1>17. CASE Restart
  BY <1>17 DEF Restart
<1>18. CASE AwaitReady
  BY <1>18 DEF AwaitReady
<1>19. CASE Reassess
  BY <1>19 DEF Reassess
<1>20. CASE VerifyRecovery
  BY <1>20 DEF VerifyRecovery
<1>21. CASE Abort
  BY <1>21 DEF Abort
<1>22. CASE World
  <2>1. UNCHANGED <<run, fenced>>
    BY <1>22, WorldSays
  <2> QED
    BY <2>1 DEF run
<1>23. CASE UNCHANGED vars
  BY <1>23 DEF vars
<1> QED
  BY <1>1, <1>2, <1>3, <1>4, <1>5, <1>6, <1>7, <1>8, <1>9, <1>10, <1>11, <1>12, <1>13, <1>14,
     <1>15, <1>16, <1>17, <1>18, <1>19, <1>20, <1>21, <1>22, <1>23 DEF Next, Run

-----------------------------------------------------------------------------
(* The theorems *)

\* It starts typed, with nothing decided and nothing healed.
LEMMA RepairInit == Init => TypeOK /\ RepairInv
<1> SUFFICES ASSUME Init PROVE TypeOK /\ RepairInv
  OBVIOUS
<1> USE Given, RepairAssumption DEF Init, Held, Working, Busy, Healing
<1>1. TypeOK
  <2>1. /\ primary \in Instances /\ cached \in Instances
        /\ holds \in [Instances -> SUBSET Commits] /\ seen \in [Instances -> SUBSET Commits]
    OBVIOUS
  <2>2. /\ up \subseteq Instances /\ shadowed \subseteq Instances /\ fenced \subseteq Instances
        /\ \A i \in up : holds[i] # {} /\ (i = target => pc \notin Held)
        /\ streaming \subseteq up \ {primary} /\ streaming \cap shadowed = {}
    OBVIOUS
  <2>3. frozen \in BOOLEAN /\ moved \in BOOLEAN
    OBVIOUS
  <2>4. moves \in 0..Moves
    OBVIOUS
  <2>5. pc \in {"idle", "ended"} \cup Working /\ order \in Orders \cup {NoOrder}
    OBVIOUS
  <2>6. remedy \in [Instances -> {"none", "restart", "reseed"}]
    OBVIOUS
  <2> QED
    BY <2>1, <2>2, <2>3, <2>4, <2>5, <2>6 DEF TypeOK
<1>2. Fences /\ BreakerTargets /\ BreakerCopied /\ AsSeen /\ Judged
  BY DEF Fences, BreakerTargets, BreakerCopied, AsSeen, Judged, Breaking, Planned, Repairing
<1>3. Escrowed /\ Spared /\ OnceHealed /\ AsOrdered /\ Outcomes
  BY DEF Escrowed, Spared, OnceHealed, AsOrdered, Outcomes, Planned, Repairing
<1> QED
  BY <1>1, <1>2, <1>3 DEF RepairInv

\* Together: the invariant is inductive.
LEMMA RepairNext == TypeOK /\ RepairInv /\ [Next]_vars => TypeOK' /\ RepairInv'
  BY TypedNext, BreakerNext, SeenNext, EscrowedNext, HealedNext DEF RepairInv

\* Every variable keeps its range, for any instances and any invocations.
THEOREM RepairTyped == Spec => []TypeOK
<1>1. Init => TypeOK /\ RepairInv
  BY RepairInit
<1>2. TypeOK /\ RepairInv /\ [Next]_vars => TypeOK' /\ RepairInv'
  BY RepairNext
<1> QED
  BY <1>1, <1>2, PTL DEF Spec

\* Where the run stands tells what it has copied, whom it treats and whom it has healed.
THEOREM RepairInvariant == Spec => []RepairInv
<1>1. Init => TypeOK /\ RepairInv
  BY RepairInit
<1>2. TypeOK /\ RepairInv /\ [Next]_vars => TypeOK' /\ RepairInv'
  BY RepairNext
<1> QED
  BY <1>1, <1>2, PTL DEF Spec

\* What the breaker clears and a prepared promotion leaves to the operator can be rolled
\* back to what triage saw.
THEOREM RepairRollback == Spec => []RollbackHeld
<1>1. RepairInv => RollbackHeld
  BY DEF RepairInv, BreakerCopied, Breaking, Healing, Busy, Held, Outcomes, RollbackHeld
<1> QED
  BY <1>1, RepairInvariant, PTL

\* No clearing of a data directory loses what its instance held when it was triaged.
THEOREM RepairWipes == Spec => WipeLosesNothing
<1>1. TypeOK /\ RepairInv /\ pc = "clear" /\ ~moved
        /\ ~(order.noEscrow /\ (order.force /\ ~SafeToHeal)) =>
        seen[target] \subseteq holds[primary] \/ Copied(seen[target])
  <2> SUFFICES ASSUME TypeOK, RepairInv, pc = "clear", ~moved,
                      ~(order.noEscrow /\ (order.force /\ ~SafeToHeal))
               PROVE  seen[target] \subseteq holds[primary] \/ Copied(seen[target])
    OBVIOUS
  <2> USE DEF RepairInv
  <2>1. pc \in Busy /\ pc \in Healing /\ target \in Instances
    BY DEF Healing, Busy, Held, Fences
  <2>2. CASE phase # "heal"
    BY <2>1, <2>2 DEF BreakerTargets, BreakerCopied, Breaking
  <2>3. CASE phase = "heal" /\ order.noEscrow
    <3>1. SafeToHeal /\ Planned
      BY <2>1, <2>3 DEF Spared, Repairing, Planned
    <3>2. seen[target] \subseteq seen[cached] /\ cached = primary /\ seen[cached] \subseteq holds[cached]
      BY <2>1, <2>3, <3>1 DEF Judged, Escrowed
    <3> QED
      BY <3>2
  <2>4. CASE phase = "heal" /\ ~order.noEscrow
    <3>1. Planned
      BY <2>1, <2>4 DEF Repairing, Planned
    <3>2. Copied(seen[IF SafeToHeal THEN cached ELSE target])
      BY <2>1, <2>4, <3>1 DEF Escrowed
    <3>3. SafeToHeal => seen[target] \subseteq seen[cached]
      BY <2>1, <3>1 DEF Judged
    <3> QED
      BY <3>2, <3>3 DEF Copied
  <2> QED
    BY <2>2, <2>3, <2>4
<1>2. TypeOK /\ RepairInv /\ [Next]_vars =>
        [ LET waived == order.noEscrow /\ (order.force /\ ~SafeToHeal) IN
          pc = "clear" /\ holds' # holds /\ ~moved /\ ~waived =>
            seen[target] \subseteq holds[primary] \/ Copied(seen[target]) ]_vars
  BY <1>1
<1> QED
  BY <1>2, RepairTyped, RepairInvariant, PTL DEF Spec, WipeLosesNothing

\* Success is reported only of instances that stream, unfenced, and are those ordered.
THEOREM RepairSucceeds == Spec => SuccessIsReal
<1>1. TypeOK /\ RepairInv /\ [Next]_vars =>
        [ outcome' = "ok" /\ outcome # "ok" =>
            /\ healed \ {primary} \subseteq streaming
            /\ healed \cap fenced = {}
            /\ order.instance # NoPod => healed = {order.instance} ]_vars
  <2> SUFFICES ASSUME TypeOK, RepairInv, Next, outcome' = "ok", outcome # "ok"
               PROVE  /\ healed \ {primary} \subseteq streaming
                      /\ healed \cap fenced = {}
                      /\ order.instance # NoPod => healed = {order.instance}
    OBVIOUS
  <2>1. CASE World
    BY <2>1, WorldSays DEF run
  <2>2. VerifyRecovery \/ World
    BY DEF Next, Run, Begin, BreakerTriage, BreakerCapture, Confirm, AwaitUnfrozen, PromoteTriage,
           PromoteCapture, Assess, Escrow, PlanTargets, PlanUntargeted, PlanTargeted, NextTarget,
           Guard, Acquire, ClearDatadir, Clone, Release, Restart, AwaitReady, Reassess, Abort,
           Goto, End
  <2>3. CASE VerifyRecovery
    <3>1. pc = "verify" /\ healed \ {primary} \subseteq streaming
      BY <2>3 DEF VerifyRecovery
    <3>2. healed \cap fenced = {} /\ todo = {} /\ pc \notin Busy
      BY <3>1 DEF RepairInv, OnceHealed, Busy, Held
    <3>3. order.instance # NoPod => healed = {order.instance}
      BY <3>1, <3>2 DEF RepairInv, AsOrdered
    <3> QED
      BY <3>1, <3>2, <3>3
  <2> QED
    BY <2>1, <2>2, <2>3
<1> QED
  BY <1>1, RepairTyped, RepairInvariant, PTL DEF Spec, SuccessIsReal
=============================================================================
