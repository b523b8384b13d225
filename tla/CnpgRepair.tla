------------------------------ MODULE CnpgRepair ------------------------------
(***************************************************************************)
(* Repair of a CloudNativePG cluster: the lifecycle of                     *)
(* src/src/engine/repair/service.go driven through the hooks of cnpg.go,   *)
(* with the deadlock breaker (--unwedge) and the preparation of a          *)
(* promotion (--promote) before it.  Runs exclude one another by the       *)
(* cluster lease (ClusterLease); what a job does to the fence and the      *)
(* operator, call by call, is in OfflineJob, and how triage reaches its    *)
(* verdict in CnpgAuthority.  Data is a set of commits here.               *)
(***************************************************************************)
EXTENDS Integers, FiniteSets

CONSTANTS
  Instances, Commits, NoPod,
  Orders,    \* the invocations: [mode, instance, force, noEscrow]
  Moves,     \* bound on the crashes, failovers and rewinds
  Drifts     \* may a frozen cluster thaw with nothing cleared?

Modes == {"repair", "unwedge", "promote"}

ASSUME RepairAssumption ==
  /\ Orders \subseteq [mode : Modes, instance : Instances \cup {NoPod}, force : BOOLEAN,
                       noEscrow : BOOLEAN]
  /\ NoPod \notin Instances /\ Moves \in Nat /\ Drifts \in BOOLEAN

VARIABLES
  primary,    \* status.currentPrimary
  holds,      \* the commits in each data directory; none is a cleared or unused one
  up,         \* instances whose postgres is Ready
  streaming,  \* standbys connected to the primary
  shadowed,   \* a primary_conninfo in postgresql.auto.conf hides the operator's
  fenced,
  frozen,     \* the operator's phase: "Not enough disk space"
  moves,
  pc,
  order,
  cached,     \* the primary in the Cluster object the run holds on to
  authority, leader, remedy,   \* what its triage said
  disposable, \* the recovery block of the breaker's triage
  phase,      \* what the jobs do: "clear", "reclone" after a clear, or "heal"
  todo, target, source,
  healed,
  outcome,
  \* history: the copies in escrow the run took; what each instance held when
  \* triaged; has the operator moved data since, before it was escrowed?  what the
  \* confirming triage found disposable
  saved, seen, moved, confirmed

world   == <<primary, holds, up, streaming, shadowed, fenced, frozen>>
verdict == <<authority, leader, remedy>>
jobs    == <<phase, todo, target, source>>
history == <<saved, seen, moved, confirmed>>
vars == <<world, moves, pc, order, cached, verdict, disposable, jobs, healed, outcome, history>>

Held == {"clear", "clone", "release"}     \* a job has the volume, the operator is off
Working == {"breaker", "capture", "confirm", "promote", "promoteCapture", "assess", "escrow",
            "plan", "heal", "guard", "acquire", "restart", "ready", "unfreeze", "reassess",
            "verify"} \cup Held

NoOrder == [mode |-> "repair", instance |-> NoPod, force |-> FALSE, noEscrow |-> FALSE]

TypeOK ==
  /\ primary \in Instances /\ cached \in Instances
  /\ holds \in [Instances -> SUBSET Commits] /\ seen \in [Instances -> SUBSET Commits]
  /\ up \subseteq Instances /\ shadowed \subseteq Instances
  /\ \A i \in up : holds[i] # {} /\ (i = target => pc \notin Held)
  /\ streaming \subseteq up \ {primary} /\ streaming \cap shadowed = {}
  /\ fenced \subseteq Instances /\ frozen \in BOOLEAN
  /\ moves \in 0..Moves
  /\ pc \in {"idle", "ended"} \cup Working /\ order \in Orders \cup {NoOrder}
  /\ authority \in {"provable", "leaderNotPrimary", "diverged", "undeterminable"}
  /\ leader \in Instances \cup {NoPod}
  /\ remedy \in [Instances -> {"none", "restart", "reseed"}]
  /\ disposable \subseteq Instances /\ confirmed \subseteq Instances
  /\ phase \in {"clear", "reclone", "heal"}
  /\ todo \subseteq Instances /\ healed \subseteq Instances
  /\ target \in Instances \cup {NoPod} /\ source \in Instances \cup {NoPod}
  /\ outcome \in {"none", "ok", "nothing", "prepared", "error"}
  /\ saved \subseteq SUBSET Commits /\ moved \in BOOLEAN

\* Any cluster, with what an earlier run that failed may have left of its target.
Init ==
  /\ primary \in Instances
  /\ holds \in [Instances -> SUBSET Commits]
  /\ up \in SUBSET {i \in Instances : holds[i] # {}}
  /\ shadowed \in SUBSET Instances
  /\ streaming = {}
  /\ fenced \in SUBSET {i \in Instances : holds[i] = {}} /\ Cardinality(fenced \cup shadowed) <= 1
  /\ frozen \in BOOLEAN /\ (frozen => primary \notin up)
  /\ moves = 0 /\ pc = "idle"
  /\ order = NoOrder
  /\ cached = primary
  /\ authority = "undeterminable" /\ leader = NoPod
  /\ remedy = [i \in Instances |-> "none"]
  /\ disposable = {} /\ phase = "heal" /\ todo = {} /\ target = NoPod /\ source = NoPod
  /\ healed = {} /\ outcome = "none"
  /\ saved = {} /\ seen = holds /\ moved = FALSE /\ confirmed = {}

Goto(l) == pc' = l /\ UNCHANGED outcome
End(o)  == pc' = "ended" /\ outcome' = o

-----------------------------------------------------------------------------
(* Triage, of the Cluster object the run holds *)

\* An instance that is down may be out of triage's reach.
MayBeUnread == {i \in Instances \ up : holds[i] # {}}

Authority(unread) ==
  LET read == {i \in Instances \ unread : holds[i] # {}}
      top  == {i \in read : \A j \in read : holds[j] \subseteq holds[i]} IN
  IF unread # {} \/ read = {} THEN [status |-> "undeterminable", leaders |-> {NoPod}]
  ELSE IF top = {}            THEN [status |-> "diverged", leaders |-> {NoPod}]
  ELSE IF cached \in top      THEN [status |-> "provable", leaders |-> {cached}]
  ELSE                             [status |-> "leaderNotPrimary", leaders |-> top]

\* A replica with data that does not stream may need healing: a restart where the WAL
\* it lacks is retained, a re-clone where not.  One without data never does.
Remedies(i, safe) ==
  IF ~safe \/ i = cached \/ holds[i] = {} \/ i \in streaming THEN {"none"}
  ELSE {"restart", "reseed"} \cup IF i \in up THEN {"none"} ELSE {}

TriageRun ==
  \E unread \in SUBSET MayBeUnread :
    LET found == Authority(unread) IN
    /\ authority' = found.status
    /\ leader' \in found.leaders
    /\ remedy' \in {r \in [Instances -> {"none", "restart", "reseed"}] :
                      \A i \in Instances : r[i] \in Remedies(i, found.status = "provable")}

SafeToHeal == authority = "provable"

\* deriveRecovery: re-cloning is the only way back of these; a breakable deadlock is a
\* frozen cluster whose primary is down and where the disk of one of them is full.
Disposable == {i \in Instances : remedy'[i] = "reseed"}
Breakable  == frozen /\ authority' = "provable" /\ cached \notin up /\ Disposable # {}

-----------------------------------------------------------------------------
(* The invocation: the provider fetches the Cluster, once for the run *)

Begin ==
  /\ pc = "idle"
  /\ order' \in Orders
  /\ cached' = primary
  /\ pc' = CASE order'.mode = "promote" -> "promote"
             [] order'.mode = "unwedge" -> "breaker"
             [] OTHER -> "assess"
  /\ UNCHANGED <<world, moves, verdict, disposable, jobs, healed, outcome, history>>

-----------------------------------------------------------------------------
(* PreAssess: the deadlock breaker, and the preparation of a promotion.  Their *)
(* escrow is not subject to --no-escrow.                                       *)

\* A triage that finds no deadlock defers to the normal repair.
BreakerTriage ==
  /\ pc = "breaker"
  /\ TriageRun
  /\ seen' = holds /\ moved' = (cached # primary)
  /\ \/ /\ Breakable
        /\ disposable' = Disposable
        /\ Goto("capture")
     \/ Goto("assess") /\ UNCHANGED disposable
  /\ UNCHANGED <<world, moves, order, cached, jobs, healed, saved, confirmed>>

\* Mutant: only what will be cleared is escrowed, although the authority is down.
CaptureCleared ==
  /\ pc = "capture"
  /\ saved' = saved \cup {holds[i] : i \in disposable}
  /\ Goto("confirm")
  /\ UNCHANGED <<world, moves, order, cached, verdict, disposable, jobs, healed, seen,
                 moved, confirmed>>

\* The recovery set, with the authority since it is down: captured and verified, or refused.
BreakerCapture ==
  /\ pc = "capture"
  /\ saved' = saved \cup {holds[i] : i \in disposable \cup {cached}}
  /\ Goto("confirm")
  /\ UNCHANGED <<world, moves, order, cached, verdict, disposable, jobs, healed, seen,
                 moved, confirmed>>

\* A second triage, to which the proof is bound: its own hash is compared with itself,
\* and what is cleared is what the first one said.  The proof is then persisted.
Confirm ==
  /\ pc = "confirm"
  /\ TriageRun
  /\ confirmed' = IF Breakable THEN Disposable ELSE {}
  /\ todo' = disposable /\ phase' = "clear"
  /\ Goto("heal")
  /\ UNCHANGED <<world, moves, order, cached, disposable, target, source, healed, saved,
                 seen, moved>>

\* waitUnfrozen, then the live configuration to re-clone with.
AwaitUnfrozen ==
  /\ pc = "unfreeze"
  /\ ~frozen /\ cached \in up
  /\ todo' = disposable /\ phase' = "reclone"
  /\ Goto("heal")
  /\ UNCHANGED <<world, moves, order, cached, verdict, disposable, target, source, healed,
                 history>>

\* The proven authority, or under --force the survivor of a divergence.
Promotable ==
  \/ authority' = "leaderNotPrimary" /\ order.instance = leader'
  \/ authority' = "diverged" /\ order.force /\ order.instance # NoPod

PromoteTriage ==
  /\ pc = "promote"
  /\ TriageRun
  /\ seen' = holds /\ moved' = (cached # primary)
  /\ Promotable
  /\ Goto("promoteCapture")
  /\ UNCHANGED <<world, moves, order, cached, disposable, jobs, healed, saved, confirmed>>

\* All instances are escrowed, the decision recorded; the swap itself is left to the
\* operator, who gets the runbook.
PromoteCapture ==
  /\ pc = "promoteCapture"
  /\ saved' = saved \cup {holds[i] : i \in Instances}
  /\ End("prepared")
  /\ UNCHANGED <<world, moves, order, cached, verdict, disposable, jobs, healed, seen,
                 moved, confirmed>>

-----------------------------------------------------------------------------
(* Assess to PlanTargets *)

\* It aborts unless the primary is Ready.
Assess ==
  /\ pc = "assess"
  /\ TriageRun
  /\ seen' = holds /\ moved' = (cached # primary)
  /\ cached \in up
  /\ Goto("escrow")
  /\ UNCHANGED <<world, moves, order, cached, disposable, jobs, healed, saved, confirmed>>

\* Mutant: an instance that cannot be dumped is passed over.
EscrowReachable ==
  /\ pc = "escrow"
  /\ order.noEscrow \/ cached \in up
  /\ saved' = IF order.noEscrow THEN saved
              ELSE saved \cup {holds[i] : i \in {cached} \cup IF SafeToHeal THEN {} ELSE up}
  /\ Goto("plan")
  /\ UNCHANGED <<world, moves, order, cached, verdict, disposable, jobs, healed, seen,
                 moved, confirmed>>

\* A dump of the primary; where it is not safe to heal, of every instance, or a copy of
\* the volumes of one that cannot be dumped.  What fails, stops the run.
Escrow ==
  /\ pc = "escrow"
  /\ order.noEscrow \/ cached \in up
  /\ saved' = IF order.noEscrow THEN saved
              ELSE saved \cup {holds[i] : i \in IF SafeToHeal THEN {cached} ELSE Instances}
  /\ Goto("plan")
  /\ UNCHANGED <<world, moves, order, cached, verdict, disposable, jobs, healed, seen,
                 moved, confirmed>>

\* Every replica that needs it, if it is safe.
PlanUntargeted ==
  /\ order.instance = NoPod /\ SafeToHeal
  /\ todo' = {i \in Instances : remedy[i] # "none"}
  /\ UNCHANGED remedy
  /\ IF todo' = {} THEN End("nothing") ELSE Goto("heal")

\* The named replica, never the primary, never the authority where that is another;
\* a restart where that will do, unless --force asks for the re-clone.
PlanTargeted ==
  LET t == order.instance
      needless == ~order.force /\ remedy[t] = "none" IN
  /\ t \notin {NoPod, cached}
  /\ SafeToHeal \/ (t # leader /\ order.force)
  /\ \/ needless /\ End("nothing") /\ UNCHANGED <<todo, remedy>>
     \/ /\ ~needless
        /\ todo' = {t}
        /\ remedy' = [i \in Instances |-> IF i # t THEN "none" ELSE IF order.force THEN "reseed" ELSE remedy[t]]
        /\ Goto("heal")

PlanTargets ==
  /\ pc = "plan"
  /\ PlanUntargeted \/ PlanTargeted
  /\ phase' = "heal"
  /\ UNCHANGED <<world, moves, order, cached, authority, leader, disposable, target, source,
                 healed, history>>

-----------------------------------------------------------------------------
(* The targets, one by one: cleared, re-cloned or restarted                 *)

AuthorizesClear(i) == i \in disposable /\ i # cached

NextTarget ==
  /\ pc = "heal"
  /\ \/ /\ todo = {}
        /\ Goto(CASE phase = "clear" -> "unfreeze" [] phase = "reclone" -> "assess" [] OTHER -> "reassess")
        /\ UNCHANGED <<todo, target>>
     \/ \E t \in todo :
          /\ phase = "clear" => AuthorizesClear(t)
          /\ target' = t /\ todo' = todo \ {t}
          /\ Goto(CASE phase = "clear" -> "acquire"
                    [] phase = "heal" /\ remedy[t] = "restart" -> "restart"
                    [] OTHER -> "guard")
  /\ UNCHANGED <<world, moves, order, cached, verdict, disposable, phase, source, healed, history>>

\* The primary is looked up again: it is not wiped, and it is what is cloned, if its
\* address can be read.
Guard ==
  /\ pc = "guard"
  /\ target # primary
  /\ source' \in {primary, cached} \ {target}
  /\ Goto("acquire")
  /\ UNCHANGED <<world, moves, order, cached, verdict, disposable, phase, todo, target, healed,
                 history>>

\* Mutant: the volume is taken before the pod has let go of it.
AcquireLive ==
  /\ pc = "acquire"
  /\ fenced' = fenced \cup {target}
  /\ Goto("clear")
  /\ UNCHANGED <<primary, holds, up, streaming, shadowed, frozen, moves, order, cached, verdict,
                 disposable, jobs, healed, history>>

\* The job fences the target, turns the operator off and takes its volume.
Acquire ==
  /\ pc = "acquire"
  /\ fenced' = fenced \cup {target}
  /\ Goto("clear")
  /\ up' = up \ {target}
  /\ streaming' = IF target = primary THEN {} ELSE streaming \ {target}
  /\ UNCHANGED <<primary, holds, shadowed, frozen, moves, order, cached, verdict, disposable,
                 jobs, healed, history>>

\* rm -rf of the data directory.
ClearDatadir ==
  /\ pc = "clear"
  /\ holds' = [holds EXCEPT ![target] = {}]
  /\ shadowed' = shadowed \ {target}
  /\ Goto(IF phase = "clear" THEN "release" ELSE "clone")
  /\ UNCHANGED <<primary, up, streaming, fenced, frozen, moves, order, cached, verdict,
                 disposable, jobs, healed, history>>

\* pg_basebackup -R of the source, and then its primary_conninfo is removed; the helper
\* may die before that.
Clone ==
  /\ pc = "clone" /\ source \in up
  /\ holds' = [holds EXCEPT ![target] = holds[source]]
  /\ \/ Goto("release") /\ UNCHANGED shadowed
     \/ shadowed' = shadowed \cup {target} /\ End("error")
  /\ UNCHANGED <<primary, up, streaming, fenced, frozen, moves, order, cached, verdict,
                 disposable, jobs, healed, history>>

\* The operator back on, then the fence off.
Release ==
  /\ pc = "release"
  /\ fenced' = fenced \ {target}
  /\ Goto(IF phase = "clear" THEN "heal" ELSE "ready")
  /\ UNCHANGED <<primary, holds, up, streaming, shadowed, frozen, moves, order, cached, verdict,
                 disposable, jobs, healed, history>>

\* restartInstance; whether all became Ready is not looked at.
Restart ==
  /\ pc = "restart"
  /\ shadowed' \in {shadowed} \cup IF target \in up THEN {shadowed \ {target}} ELSE {}
  /\ up' = up \ {target}
  /\ streaming' = IF target = primary THEN {} ELSE streaming \ {target}
  /\ healed' = healed \cup {target}
  /\ Goto("heal")
  /\ UNCHANGED <<primary, holds, fenced, frozen, moves, order, cached, verdict, disposable, jobs,
                 history>>

AwaitReady ==
  /\ pc = "ready"
  /\ target \in up
  /\ healed' = IF phase = "heal" THEN healed \cup {target} ELSE healed
  /\ Goto("heal")
  /\ UNCHANGED <<world, moves, order, cached, verdict, disposable, jobs, history>>

\* Stabilize and Reassess: a fresh Cluster object; the triage is only reported.
Reassess ==
  /\ pc = "reassess"
  /\ cached' \in {cached, primary}
  /\ Goto("verify")
  /\ UNCHANGED <<world, moves, order, verdict, disposable, jobs, healed, history>>

\* Mutant: Ready counts as recovered.
VerifyReady ==
  /\ pc = "verify"
  /\ healed \subseteq up
  /\ End("ok")
  /\ UNCHANGED <<world, moves, order, cached, verdict, disposable, jobs, healed, history>>

\* VerifyRecovery: all of them stream from the primary of now, in time, or a loud failure.
VerifyRecovery ==
  /\ pc = "verify"
  /\ primary \in up /\ healed \ {primary} \subseteq streaming
  /\ End("ok")
  /\ UNCHANGED <<world, moves, order, cached, verdict, disposable, jobs, healed, history>>

\* Any call may fail and any wait run out, and the process may die: the run ends as far
\* as it got, and what it knew is gone.
Abort ==
  /\ pc \in Working
  /\ End("error")
  /\ authority' = "undeterminable" /\ leader' = NoPod /\ remedy' = [i \in Instances |-> "none"]
  /\ disposable' = {} /\ confirmed' = {} /\ phase' = "heal" /\ todo' = {} /\ target' = NoPod
  /\ source' = NoPod /\ healed' = {} /\ saved' = {} /\ seen' = holds /\ order' = NoOrder
  /\ cached' = primary /\ moved' = FALSE
  /\ UNCHANGED <<world, moves>>

Run ==
  \/ BreakerTriage \/ BreakerCapture \/ Confirm \/ AwaitUnfrozen \/ PromoteTriage \/ PromoteCapture
  \/ Assess \/ Escrow \/ PlanTargets \/ NextTarget \/ Guard \/ Acquire \/ ClearDatadir \/ Clone
  \/ Release \/ Restart \/ AwaitReady \/ Reassess \/ VerifyRecovery

-----------------------------------------------------------------------------
(* The cluster and its operator, which the job turns off *)

run == <<pc, order, cached, verdict, disposable, jobs, healed, outcome>>

Commit ==
  /\ primary \in up /\ ~frozen
  /\ \E c \in Commits :
       /\ \A i \in Instances : c \notin holds[i] \cup seen[i]
       /\ c \notin UNION saved
       /\ holds' = [holds EXCEPT ![primary] = @ \cup {c}]
  /\ UNCHANGED <<primary, up, streaming, shadowed, fenced, frozen, moves, run, history>>

Stream(i) ==
  /\ {i, primary} \subseteq up /\ i # primary /\ i \notin shadowed
  /\ holds[i] \subseteq holds[primary]
  /\ streaming' = streaming \cup {i}
  /\ holds' = [holds EXCEPT ![i] = holds[primary]]
  /\ UNCHANGED <<primary, up, shadowed, fenced, frozen, moves, run, history>>

Move == moves < Moves /\ moves' = moves + 1

Stop(i) ==
  /\ i \in up
  /\ Move
  /\ up' = up \ {i}
  /\ streaming' = IF i = primary THEN {} ELSE streaming \ {i}
  /\ UNCHANGED <<primary, holds, shadowed, fenced, frozen, run, history>>

Startable(i) == i \notin up \cup fenced /\ holds[i] # {} /\ ~frozen

Start(i) ==
  /\ Startable(i)
  /\ up' = up \cup {i}
  /\ UNCHANGED <<primary, holds, streaming, shadowed, fenced, frozen, moves, run, history>>


\* The operator moves data: no copy of it is in the escrow yet.
Shift ==
  /\ Move
  /\ moved' = (moved \/ order.noEscrow \/ pc \in {"breaker", "capture", "promote", "promoteCapture",
                                                 "assess", "escrow"})

\* A standby whose history is not the primary's is rewound to it.
Rewind(i) ==
  /\ Startable(i) /\ primary \in up /\ i # primary
  /\ ~(holds[i] \subseteq holds[primary])
  /\ holds' = [holds EXCEPT ![i] = holds[primary]]
  /\ Shift
  /\ UNCHANGED <<primary, up, streaming, shadowed, fenced, frozen, run, saved, seen, confirmed>>

Failover(i) ==
  /\ pc \notin Held /\ ~frozen
  /\ i \in up \ fenced /\ i # primary
  /\ primary' = i
  /\ up' = up \ {primary}
  /\ streaming' = {}
  /\ Shift
  /\ UNCHANGED <<holds, shadowed, fenced, frozen, run, saved, seen, confirmed>>

\* Space is free again, as a data directory was cleared.
Thaw ==
  /\ frozen
  /\ Drifts \/ \E i \in disposable : holds[i] = {}
  /\ frozen' = FALSE
  /\ UNCHANGED <<primary, holds, up, streaming, shadowed, fenced, moves, run, history>>

\* Where the run's next step neither reads nor changes the cluster, the cluster's may as
\* well come after it.
World ==
  /\ pc \in Working \ {"plan", "heal", "reassess"}
  /\ \/ Commit \/ Thaw
     \/ \E i \in Instances : Stream(i) \/ Stop(i) \/ Start(i) \/ Rewind(i) \/ Failover(i)

Next == Begin \/ Run \/ Abort \/ World

Spec == Init /\ [][Next]_vars

-----------------------------------------------------------------------------
(* Properties *)

Copied(S) == \E c \in saved : S \subseteq c

\* What the target held when it was triaged is on the primary or in the escrow when its
\* data directory is cleared, whoever moved in between; unless --no-escrow and --force
\* gave it up, or the operator moved the data before it could be escrowed.
WipeLosesNothing ==
  [][ LET waived == order.noEscrow /\ (order.force /\ ~SafeToHeal) IN
      pc = "clear" /\ holds' # holds /\ ~moved /\ ~waived =>
        seen[target] \subseteq holds[primary] \/ Copied(seen[target]) ]_vars

\* "so the promotion is REVERSIBLE before anything is touched"; "what must be
\* escrow-reversible before any clear", with the authority if that is down.
RollbackHeld ==
  /\ pc = "clear" /\ phase = "clear" /\ ~moved => \A i \in disposable \cup {cached} : Copied(seen[i])
  /\ outcome = "prepared" /\ ~moved => \A i \in Instances : Copied(seen[i])

\* A run that reports success has left each instance it healed in replication, with
\* nothing of the run's own left in the way.
SuccessIsReal ==
  [][ outcome' = "ok" /\ outcome # "ok" =>
        /\ healed \ {primary} \subseteq streaming
        /\ healed \cap fenced = {}
        /\ order.instance # NoPod => healed = {order.instance} ]_vars

\* "re-triages at the destructive edge, and proceeds only if Valid(currentTriage)
\* holds": what is cleared was disposable in the confirming triage, too.
ClearedAsConfirmed ==
  pc = "clear" /\ phase = "clear" => target \in confirmed
=============================================================================
