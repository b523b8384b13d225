---------------------------- MODULE PruneWal_proofs ----------------------------
(***************************************************************************)
(* PruneWal's properties for any number of replicas, records and runs.     *)
(* Nothing is assumed beyond the constants' types.                         *)
(***************************************************************************)
EXTENDS PruneWal, TLAPS

-----------------------------------------------------------------------------
(* The inductive invariant *)

\* From the fence on the target stays fenced, until the run ends.
FencedThroughout == pc \in OnVolume \cup {"acquire", "unfence"} => fenced

\* The link leads somewhere only between relocation and move back; a target whose
\* pg_wal is no directory is down.
LinkIsBrief ==
  /\ scratch # {} => layout = "link"
  /\ layout = "link" => pc \in {"replay", "trim", "moveback"}
  /\ layout # "dir" => Target \notin up

\* Each service has steps of its own.
StepsOfTheOrder ==
  /\ pc \in {"boundary", "verify", "delete"} => ~order.deadlock
  /\ pc \in {"escrow", "relocate", "replay", "trim", "moveback", "peers"} => order.deadlock

BoundaryIsCurrent == pc \in {"verify", "delete"} => redo = applied

CaughtUp ==
  pc = "delete" /\ IsPrimary /\ ~order.force => \A r \in checked : redo <= end[r]

\* Where what the target could recover is: on its volume; on the scratch volume; in the
\* data files before that is trimmed; on its volume again.
WhereItIs ==
  /\ pc = "idle" => before = {}
  /\ pc \notin {"idle", "triage", "replay", "trim", "moveback", "ended"} =>
       before \subseteq Recoverable(applied, wal)
  /\ pc = "replay" /\ layout = "link" => before \subseteq Recoverable(applied, scratch)
  /\ pc \in {"trim", "moveback"} => \A n \in before : n < applied

OkIsOver == outcome = "ok" => pc = "ended" /\ before \subseteq Recoverable(applied, wal)

Copied == \E copy \in saved : before \subseteq copy

CopiedUnlessWaived ==
  order.deadlock /\ ~order.noEscrow =>
    /\ pc \notin {"idle", "triage", "escrow", "ended"} => Copied
    /\ pc = "ended" => Copied \/ before \subseteq Recoverable(applied, wal)

KeptByPlain == ~order.deadlock /\ pc = "ended" => before \subseteq Recoverable(applied, wal)

Kept == WhereItIs /\ OkIsOver /\ CopiedUnlessWaived /\ KeptByPlain

RedoDoneAt ==
  pc \in {"trim", "moveback", "peers"} => recovered \in {MaxEnd + 1, applied - Short}

\* Replica r has what was recovered, and leads or may be promoted.
Successor(r) ==
  /\ primary \in {r, Target}
  /\ \A n \in 0..(applied - 1 - Short) : Has(r, Target, n)

SafeHasSuccessor ==
  /\ pc = "unfence" /\ order.deadlock => safe
  /\ pc \in {"done", "unfence"} /\ order.deadlock /\ safe /\ led =>
       \E r \in up \cap Replicas : Successor(r)

PruneInv ==
  /\ FencedThroughout /\ LinkIsBrief /\ StepsOfTheOrder /\ BoundaryIsCurrent /\ CaughtUp
  /\ Kept
  /\ RedoDoneAt /\ SafeHasSuccessor

-----------------------------------------------------------------------------
(* The types *)

\* What every step needs to know of the constants and of the types.
LEMMA Ranges ==
  /\ MaxEnd \in Nat /\ Short \in {0, 1} /\ Runs \in Nat
  /\ Records = 0..MaxEnd /\ Target \in Instances /\ Target \notin Replicas
  /\ Replicas \subseteq Instances
  BY PruneAssumption DEF Records, Instances

\* It starts typed, and with nothing yet to keep.
LEMMA TypedInit == Init => TypeOK /\ PruneInv
<1> SUFFICES ASSUME Init PROVE TypeOK /\ PruneInv
  OBVIOUS
<1> USE Ranges DEF Init
<1>1. TypeOK
  <2>1. order \in Orders /\ pc \in Labels /\ pc \notin OnVolume
    BY DEF Orders, Labels, OnVolume
  <2>2. applied \in Records /\ wal \subseteq Records
    <3>1. PICK lo \in Records : applied \in lo..end[Target] /\ wal = lo..(end[Target] - 1)
      OBVIOUS
    <3>2. end[Target] \in 0..MaxEnd
      OBVIOUS
    <3> QED
      BY <3>1, <3>2
  <2>3. fenced \in BOOLEAN /\ safe \in BOOLEAN /\ led \in BOOLEAN /\ ~fenced
    OBVIOUS
  <2>4. redo \in Records /\ recovered \in 0..(MaxEnd + 1) /\ runs \in 0..Runs
    OBVIOUS
  <2>5. scratch = {} /\ layout = "dir" /\ saved = {} /\ checked = {} /\ before = {}
    OBVIOUS
  <2>6. up \subseteq Instances
    OBVIOUS
  <2> QED
    BY <2>1, <2>2, <2>3, <2>4, <2>5, <2>6 DEF TypeOK
<1>2. PruneInv
  BY DEF PruneInv, FencedThroughout, LinkIsBrief, StepsOfTheOrder, BoundaryIsCurrent, CaughtUp,
         Kept, WhereItIs, OkIsOver, CopiedUnlessWaived, KeptByPlain, RedoDoneAt, SafeHasSuccessor, OnVolume
<1> QED
  BY <1>1, <1>2

\* Every step keeps the types, the fence of a run at work and the link's bounds.
LEMMA TypedNext ==
  ASSUME TypeOK, FencedThroughout, LinkIsBrief, [Next]_vars
  PROVE  TypeOK' /\ FencedThroughout' /\ LinkIsBrief'
<1> USE PruneAssumption, Ranges DEF TypeOK, FencedThroughout, LinkIsBrief, OnVolume, Labels,
      cluster, volume, locals, Goto, End, Fail, NoChange, Aside
<1>1. CASE Begin
  BY <1>1 DEF Begin, Orders
<1>2. CASE Triage
  BY <1>2 DEF Triage, Recoverable
<1>3. CASE Escrow
  <2>1. Recoverable(applied, wal) \subseteq Records
    BY DEF Recoverable
  <2>2. saved' \in {saved, saved \cup {Recoverable(applied, wal)}}
    BY <1>3 DEF Escrow
  <2>3. saved' \subseteq SUBSET Records
    BY <2>1, <2>2
  <2>4. pc' \in {"fence", "ended"} /\ outcome' \in {"none", "ok", "error"}
    BY <1>3 DEF Escrow
  <2> QED
    BY <1>3, <2>3, <2>4 DEF Escrow
<1>4. CASE Fence
  <2>1. CASE pc' = "acquire"
    <3>1. fenced' = TRUE /\ up' = up \ {Target}
      BY <1>4, <2>1 DEF Fence
    <3> QED
      BY <1>4, <2>1, <3>1 DEF Fence
  <2>2. CASE pc' # "acquire"
    BY <1>4, <2>2 DEF Fence
  <2> QED
    BY <2>1, <2>2
<1>5. CASE Acquire
  BY <1>5 DEF Acquire
<1>6. CASE Boundary
  BY <1>6 DEF Boundary
<1>7. CASE Verify
  BY <1>7 DEF Verify
<1>8. CASE Delete
  BY <1>8 DEF Delete
<1>9. CASE Relocate
  <2>1. CASE pc' = "replay"
    BY <1>9, <2>1 DEF Relocate
  <2>2. CASE pc' # "replay"
    <3>1. PICK left \in SUBSET wal : wal' = left
      BY <1>9, <2>2 DEF Relocate
    <3>2. layout' = IF layout = "link" THEN "dangling" ELSE layout
      BY <1>9, <2>2 DEF Relocate
    <3> QED
      BY <1>9, <2>2, <3>1, <3>2 DEF Relocate
  <2> QED
    BY <2>1, <2>2
<1>10. CASE Replay
  <2>1. applied' \in Records /\ recovered' \in 0..(MaxEnd + 1)
    BY <1>10 DEF Replay
  <2> QED
    BY <1>10, <2>1 DEF Replay
<1>11. CASE Trim
  BY <1>11 DEF Trim
<1>12. CASE MoveBack
  BY <1>12 DEF MoveBack
<1>13. CASE Peers
  BY <1>13 DEF Peers
<1>14. CASE Restored
  BY <1>14 DEF Restored
<1>15. CASE Unfence
  BY <1>15 DEF Unfence
<1>16. ASSUME NEW i \in Instances, Start(i) PROVE TypeOK' /\ FencedThroughout' /\ LinkIsBrief'
  BY <1>16 DEF Start
<1>17. ASSUME NEW r \in Replicas, Failover(r) PROVE TypeOK' /\ FencedThroughout' /\ LinkIsBrief'
  BY <1>17 DEF Failover
<1>18. ASSUME NEW r \in Replicas, Stream(r) PROVE TypeOK' /\ FencedThroughout' /\ LinkIsBrief'
  BY <1>18 DEF Stream
<1>19. CASE Commit
  <2>1. end' \in [Instances -> Records] /\ wal' \subseteq Records
    <3>1. end[primary] + 1 \in Records /\ end[Target] \in Records
      BY <1>19 DEF Commit
    <3>2. end' \in [Instances -> Records]
      BY <1>19, <3>1 DEF Commit
    <3> QED
      BY <1>19, <3>1, <3>2 DEF Commit
  <2>2. layout # "dir" => wal' = {}
    BY <1>19 DEF Commit
  <2>3. /\ UNCHANGED <<primary, up, fenced, timeline, fork, applied, layout, scratch>>
        /\ UNCHANGED <<saved, pc, order, cached, checked, redo, recovered, safe, led, before>>
        /\ UNCHANGED <<outcome, runs>>
    BY <1>19 DEF Commit
  <2>4. TypeOK'
    BY <2>1, <2>2, <2>3
  <2>5. FencedThroughout' /\ LinkIsBrief'
    BY <2>1, <2>2, <2>3
  <2> QED
    BY <2>4, <2>5
<1>20. CASE UNCHANGED vars
  BY <1>20 DEF vars
<1> QED
  BY <1>1, <1>2, <1>3, <1>4, <1>5, <1>6, <1>7, <1>8, <1>9, <1>10, <1>11, <1>12, <1>13, <1>14,
     <1>15, <1>16, <1>17, <1>18, <1>19, <1>20 DEF Next, Run, World

-----------------------------------------------------------------------------
(* What is recoverable *)

\* More WAL recovers no less.
LEMMA RecoverableGrows ==
  ASSUME NEW a \in Records, NEW w, NEW v, w \subseteq v
  PROVE  Recoverable(a, w) \subseteq Recoverable(a, v)
  BY DEF Recoverable

\* What lies before the checkpoint may go.
LEMMA BeforeCheckpointExpendable ==
  ASSUME NEW a \in Records, NEW w \in SUBSET Records, NEW v,
         \A n \in w : n >= a => n \in v
  PROVE  Recoverable(a, w) \subseteq Recoverable(a, v)
  BY Ranges DEF Recoverable

\* A replay that stops at the first missing record has applied all there was to recover.
LEMMA ReplayedToTheEnd ==
  ASSUME NEW a \in Records, NEW w \in SUBSET Records, NEW b \in a..MaxEnd, b \notin w
  PROVE  \A n \in Recoverable(a, w) : n < b
  BY Ranges DEF Recoverable

\* Neither PostgreSQL nor the operator take any of it: the world only adds WAL.
LEMMA WorldAdds ==
  ASSUME TypeOK, World
  PROVE  /\ UNCHANGED <<applied, layout, scratch, saved, pc, locals, outcome, runs, fenced>>
         /\ wal \subseteq wal'
         /\ \A i \in Instances : end[i] <= end'[i]
<1> USE Ranges DEF TypeOK, Aside, cluster, volume, locals
<1>1. ASSUME NEW i \in Instances, Start(i) PROVE wal \subseteq wal' /\ end' = end
  BY <1>1 DEF Start
<1>2. ASSUME NEW r \in Replicas, Failover(r) PROVE wal \subseteq wal' /\ end' = end
  BY <1>2 DEF Failover
<1>3. ASSUME NEW r \in Replicas, Stream(r)
      PROVE  wal \subseteq wal' /\ \A i \in Instances : end[i] <= end'[i]
  BY <1>3 DEF Stream
<1>4. ASSUME Commit PROVE wal \subseteq wal' /\ \A i \in Instances : end[i] <= end'[i]
  BY <1>4 DEF Commit
<1>5. UNCHANGED <<applied, layout, scratch, saved, pc, locals, outcome, runs, fenced>>
  BY DEF World, Start, Failover, Stream, Commit
<1> QED
  BY <1>1, <1>2, <1>3, <1>4, <1>5 DEF World

-----------------------------------------------------------------------------
(* The invariant is inductive *)

\* No step leads from one service into the other, or past a checkpoint.
LEMMA StepsNext ==
  ASSUME TypeOK, StepsOfTheOrder, BoundaryIsCurrent, [Next]_vars
  PROVE  StepsOfTheOrder' /\ BoundaryIsCurrent'
<1> USE Ranges DEF TypeOK, StepsOfTheOrder, BoundaryIsCurrent, OnVolume, Goto, End, Fail, NoChange,
      cluster, volume, locals
<1>1. CASE Begin
  BY <1>1 DEF Begin
<1>2. CASE Triage
  BY <1>2 DEF Triage
<1>3. CASE Escrow
  BY <1>3 DEF Escrow
<1>4. CASE Fence
  BY <1>4 DEF Fence
<1>5. CASE Acquire
  BY <1>5 DEF Acquire
<1>6. CASE Boundary
  BY <1>6 DEF Boundary
<1>7. CASE Verify
  BY <1>7 DEF Verify
<1>8. CASE Delete
  BY <1>8 DEF Delete
<1>9. CASE Relocate
  BY <1>9 DEF Relocate
<1>10. CASE Replay
  BY <1>10 DEF Replay
<1>11. CASE Trim
  BY <1>11 DEF Trim
<1>12. CASE MoveBack
  BY <1>12 DEF MoveBack
<1>13. CASE Peers
  BY <1>13 DEF Peers
<1>14. CASE Restored
  BY <1>14 DEF Restored
<1>15. CASE Unfence
  BY <1>15 DEF Unfence
<1>16. CASE World
  BY <1>16, WorldAdds
<1>17. CASE UNCHANGED vars
  BY <1>17 DEF vars
<1> QED
  BY <1>1, <1>2, <1>3, <1>4, <1>5, <1>6, <1>7, <1>8, <1>9, <1>10, <1>11, <1>12, <1>13, <1>14,
     <1>15, <1>16, <1>17 DEF Next, Run

\* What the verified replicas have received only grows until the deletion.
LEMMA CaughtUpNext ==
  ASSUME TypeOK, TypeOK', StepsOfTheOrder, BoundaryIsCurrent, CaughtUp, [Next]_vars
  PROVE  CaughtUp'
<1> USE Ranges DEF TypeOK, StepsOfTheOrder, BoundaryIsCurrent, CaughtUp, IsPrimary, VerifyReplicas,
      OnVolume, Goto, End, Fail, NoChange, cluster, volume, locals
<1>1. CASE Begin
  BY <1>1 DEF Begin
<1>2. CASE Triage
  BY <1>2 DEF Triage
<1>3. CASE Escrow
  BY <1>3 DEF Escrow
<1>4. CASE Fence
  BY <1>4 DEF Fence
<1>5. CASE Acquire
  BY <1>5 DEF Acquire
<1>6. CASE Boundary
  BY <1>6 DEF Boundary
<1>7. CASE Verify
  <2>1. CASE pc' = "delete" /\ ~order.force
    <3>1. PICK replay \in [checked -> Records] :
            (\A r \in checked : replay[r] <= end[r]) /\ (\A r \in checked : replay[r] >= redo)
      BY <1>7, <2>1 DEF Verify
    <3>2. \A r \in checked : replay[r] \in Nat /\ end[r] \in Nat /\ redo \in Nat
      OBVIOUS
    <3> QED
      BY <1>7, <3>1, <3>2 DEF Verify
  <2>2. CASE ~(pc' = "delete" /\ ~order.force)
    BY <1>7, <2>2 DEF Verify
  <2> QED
    BY <2>1, <2>2
<1>8. CASE Delete
  BY <1>8 DEF Delete
<1>9. CASE Relocate
  BY <1>9 DEF Relocate
<1>10. CASE Replay
  BY <1>10 DEF Replay
<1>11. CASE Trim
  BY <1>11 DEF Trim
<1>12. CASE MoveBack
  BY <1>12 DEF MoveBack
<1>13. CASE Peers
  BY <1>13 DEF Peers
<1>14. CASE Restored
  BY <1>14 DEF Restored
<1>15. CASE Unfence
  BY <1>15 DEF Unfence
<1>16. CASE World
  <2>1. UNCHANGED <<pc, order, cached, checked, redo>> /\ \A i \in Instances : end[i] <= end'[i]
    BY <1>16, WorldAdds
  <2>2. ASSUME NEW r \in checked, redo <= end[r] PROVE redo <= end'[r]
    <3>1. end[r] \in Nat /\ end'[r] \in Nat /\ redo \in Nat /\ end[r] <= end'[r]
      BY <2>1
    <3>2. \A a, b, c \in Nat : a <= b /\ b <= c => a <= c
      OBVIOUS
    <3> HIDE DEF TypeOK
    <3> QED
      BY <2>2, <3>1, <3>2
  <2> QED
    BY <2>1, <2>2
<1>17. CASE UNCHANGED vars
  BY <1>17 DEF vars
<1> QED
  BY <1>1, <1>2, <1>3, <1>4, <1>5, <1>6, <1>7, <1>8, <1>9, <1>10, <1>11, <1>12, <1>13, <1>14,
     <1>15, <1>16, <1>17 DEF Next, Run

\* What the target could recover stays where it can be found again, step by step.
LEMMA KeptNext ==
  ASSUME TypeOK, TypeOK', LinkIsBrief, StepsOfTheOrder, BoundaryIsCurrent, Kept, [Next]_vars
  PROVE  Kept'
<1> USE Ranges DEF TypeOK, LinkIsBrief, StepsOfTheOrder, Kept, WhereItIs, OkIsOver,
      CopiedUnlessWaived, KeptByPlain, OnVolume, Labels, Goto, End, NoChange, cluster, volume, locals
<1>a. saved' = saved => (Copied /\ before' = before => Copied')
  BY DEF Copied
<1>b. ASSUME UNCHANGED <<applied, wal>>
      PROVE  Recoverable(applied', wal') = Recoverable(applied, wal)
  BY <1>b
<1>1. CASE Begin
  BY <1>1 DEF Begin
<1>2. CASE Triage
  <2>1. before' = Recoverable(applied', wal') /\ pc' \in {"escrow", "fence", "ended"}
    BY <1>2 DEF Triage
  <2>2. pc' = "fence" => ~order'.deadlock
    BY <1>2 DEF Triage
  <2>3. outcome' \in {outcome, "error"} /\ outcome # "ok"
    BY <1>2 DEF Triage
  <2> QED
    BY <2>1, <2>2, <2>3
<1>3. CASE Escrow
  <2>1. UNCHANGED <<applied, wal, before, order>> /\ pc' \in {"fence", "ended"} /\ outcome' # "ok"
    BY <1>3 DEF Escrow
  <2>2. before \subseteq Recoverable(applied, wal) /\ order.deadlock
    BY <1>3 DEF Escrow
  <2>3. pc' = "fence" /\ ~order.noEscrow => Copied'
    <3> SUFFICES ASSUME pc' = "fence", ~order.noEscrow PROVE Copied'
      OBVIOUS
    <3>1. saved' = saved \cup {Recoverable(applied, wal)}
      BY <1>3 DEF Escrow
    <3>2. Recoverable(applied, wal) \in saved' /\ before' = before
      BY <2>1, <3>1
    <3> QED
      BY <2>2, <3>2 DEF Copied
  <2> QED
    BY <2>1, <2>2, <2>3
<1>4. CASE Fence
  <2>1. /\ UNCHANGED <<applied, wal, before, order, saved>>
        /\ pc' \in {"acquire", "ended"} /\ outcome' # "ok"
    BY <1>4 DEF Fence
  <2> QED
    BY <1>4, <2>1, <1>a, <1>b DEF Fence
<1>5. CASE Acquire
  <2>1. /\ UNCHANGED <<applied, wal, before, order, saved>>
        /\ pc' \in {"relocate", "boundary", "ended"} /\ outcome' # "ok"
    BY <1>5 DEF Acquire, Fail
  <2> QED
    BY <1>5, <2>1, <1>a, <1>b DEF Acquire
<1>6. CASE Boundary
  <2>1. /\ UNCHANGED <<applied, wal, before, order, saved>>
        /\ pc' \in {"verify", "delete", "ended"} /\ outcome' # "ok"
    BY <1>6 DEF Boundary, Fail
  <2> QED
    BY <1>6, <2>1, <1>a, <1>b DEF Boundary
<1>7. CASE Verify
  <2>1. /\ UNCHANGED <<applied, wal, before, order, saved>>
        /\ pc' \in {"delete", "ended"} /\ outcome' # "ok"
    BY <1>7 DEF Verify, Fail
  <2> QED
    BY <1>7, <2>1, <1>a, <1>b DEF Verify
<1>8. CASE Delete
  <2>1. /\ UNCHANGED <<applied, before, order, saved>>
        /\ pc' \in {"done", "ended"} /\ outcome' # "ok"
    BY <1>8 DEF Delete, Fail
  <2>2. \A n \in wal : n >= applied => n \in wal'
    BY <1>8 DEF Delete, BoundaryIsCurrent
  <2>3. Recoverable(applied, wal) \subseteq Recoverable(applied, wal')
    BY <2>2, BeforeCheckpointExpendable
  <2> QED
    BY <1>8, <2>1, <2>3 DEF Delete
<1>9. CASE Relocate
  <2>1. UNCHANGED <<applied, before, order, saved>> /\ pc' \in {"replay", "ended"} /\ outcome' # "ok"
    BY <1>9 DEF Relocate, Fail
  <2>2. layout # "link" /\ (pc' = "replay" /\ layout' = "link" => scratch' = wal)
    BY <1>9 DEF Relocate, Fail
  <2>3. Copied \/ order.noEscrow
    BY <1>9 DEF Relocate
  <2> QED
    BY <1>9, <1>a, <2>1, <2>2, <2>3 DEF Relocate
<1>10. CASE Replay
  <2>1. UNCHANGED <<wal, before, order, saved>> /\ pc' \in {"trim", "ended"} /\ outcome' # "ok"
    BY <1>10 DEF Replay, Fail
  <2>2. pc' = "trim" => \A n \in before' : n < applied'
    <3> SUFFICES ASSUME pc' = "trim" PROVE \A n \in before : n < applied'
      BY <2>1
    <3>1. layout = "link" /\ applied' \in applied..MaxEnd /\ applied' \notin scratch
      BY <1>10 DEF Replay, Fail
    <3>2. before \subseteq Recoverable(applied, scratch)
      BY <1>10, <3>1 DEF Replay
    <3> QED
      BY <3>1, <3>2, ReplayedToTheEnd
  <2>3. order.deadlock /\ (Copied \/ order.noEscrow)
    BY <1>10 DEF Replay
  <2> QED
    BY <1>10, <1>a, <2>1, <2>2, <2>3 DEF Replay
<1>11. CASE Trim
  <2>1. /\ UNCHANGED <<applied, wal, before, order, saved>>
        /\ pc' \in {"moveback", "ended"} /\ outcome' # "ok"
    BY <1>11 DEF Trim, Fail
  <2>2. (\A n \in before : n < applied) /\ order.deadlock /\ (Copied \/ order.noEscrow)
    BY <1>11 DEF Trim
  <2> QED
    BY <1>11, <1>a, <2>1, <2>2 DEF Trim
<1>12. CASE MoveBack
  <2>1. /\ UNCHANGED <<applied, before, order, saved>>
        /\ pc' \in {"peers", "ended"} /\ outcome' # "ok"
    BY <1>12 DEF MoveBack
  <2>2. (\A n \in before : n < applied) /\ order.deadlock /\ (Copied \/ order.noEscrow)
    BY <1>12 DEF MoveBack
  <2>3. before \subseteq Recoverable(applied, wal')
    BY <2>2 DEF Recoverable
  <2> QED
    BY <1>12, <1>a, <2>1, <2>2, <2>3 DEF MoveBack
<1>13. CASE Peers
  <2>1. UNCHANGED <<applied, wal, before, order, saved, outcome>> /\ pc' = "done"
    BY <1>13 DEF Peers
  <2> QED
    BY <1>13, <2>1, <1>a, <1>b DEF Peers
<1>14. CASE Restored
  <2>1. /\ UNCHANGED <<applied, wal, before, order, saved>>
        /\ pc' \in {"unfence", "ended"} /\ (outcome' = "ok" => pc' = "ended")
    BY <1>14 DEF Restored
  <2> QED
    BY <1>14, <2>1, <1>a, <1>b DEF Restored
<1>15. CASE Unfence
  <2>1. UNCHANGED <<applied, wal, before, order, saved>> /\ pc' = "ended"
    BY <1>15 DEF Unfence
  <2> QED
    BY <1>15, <2>1, <1>a, <1>b DEF Unfence
<1>16. CASE World
  <2>1. /\ UNCHANGED <<applied, layout, scratch, saved, pc, order, before, outcome>>
        /\ wal \subseteq wal'
    BY <1>16, WorldAdds
  <2>2. Recoverable(applied, wal) \subseteq Recoverable(applied, wal')
    BY <2>1, RecoverableGrows
  <2>3. Recoverable(applied', wal') = Recoverable(applied, wal') /\ (Copied => Copied')
    BY <2>1, <1>a
  <2>4. Recoverable(applied', scratch') = Recoverable(applied, scratch)
    BY <2>1
  <2>5. WhereItIs'
    BY <2>1, <2>2, <2>3, <2>4
  <2>6. OkIsOver' /\ CopiedUnlessWaived' /\ KeptByPlain'
    BY <2>1, <2>2, <2>3
  <2> QED
    BY <2>5, <2>6
<1>17. CASE UNCHANGED vars
  BY <1>17 DEF vars, Copied
<1> QED
  BY <1>1, <1>2, <1>3, <1>4, <1>5, <1>6, <1>7, <1>8, <1>9, <1>10, <1>11, <1>12, <1>13, <1>14,
     <1>15, <1>16, <1>17 DEF Next, Run

\* A failover promotes the most advanced replica, and neither a commit nor a stream takes
\* anything from the successor: a successor, or another one, remains.
LEMMA SuccessorRemains ==
  ASSUME TypeOK, TypeOK', World, Target \notin up,
         NEW r \in up \cap Replicas, Successor(r)
  PROVE  \E s \in up' \cap Replicas : Successor(s)'
<1> USE Ranges DEF TypeOK, Aside, cluster, volume, locals
<1>1. /\ r \in Replicas /\ r \in Instances /\ r # Target /\ primary \in {r, Target}
      /\ end \in [Instances -> Records] /\ end' \in [Instances -> Records]
      /\ timeline \in [Instances -> {1, 2}] /\ fork \in Records /\ applied' = applied
      /\ applied \in Nat
  <2>1. applied' = applied
    BY WorldAdds
  <2>2. primary \in {r, Target}
    BY DEF Successor
  <2>3. r \in Replicas /\ r # Target /\ r \in Instances /\ applied \in Nat
    OBVIOUS
  <2> QED
    BY <2>1, <2>2, <2>3
<1>2. \A n \in 0..(applied - 1 - Short) :
        n \in Nat /\ n < end[r] /\ (timeline[r] = timeline[Target] \/ n < fork)
  <2> TAKE n \in 0..(applied - 1 - Short)
  <2>1. Has(r, Target, n)
    BY DEF Successor
  <2>2. n \in Nat
    BY <1>1
  <2> QED
    BY <2>1, <2>2 DEF Has
<1>3. ASSUME NEW i \in Instances, Start(i) PROVE \E s \in up' \cap Replicas : Successor(s)'
  <2>1. r \in up' /\ UNCHANGED <<primary, timeline, end, fork, applied>>
    BY <1>3 DEF Start
  <2>2. Successor(r)'
    BY <2>1, <1>1, <1>2 DEF Successor, Has
  <2> QED
    BY <2>1, <2>2
<1>4. ASSUME NEW s \in Replicas, Failover(s) PROVE \E q \in up' \cap Replicas : Successor(q)'
  <2>1. s \in up' /\ primary' = s /\ fork' = end[s] /\ end' = end /\ end[r] <= end[s]
    BY <1>4, <1>1 DEF Failover
  <2>2. \A n \in 0..(applied - 1 - Short) : n < end'[s] /\ n < fork'
    <3> TAKE n \in 0..(applied - 1 - Short)
    <3>1. n \in Nat /\ n < end[r] /\ end[r] \in Nat /\ end[s] \in Nat
      BY <1>1, <1>2
    <3> QED
      BY <2>1, <3>1
  <2>3. Successor(s)'
    BY <2>1, <2>2, <1>1 DEF Successor, Has
  <2> QED
    BY <2>1, <2>3
<1>5. ASSUME NEW s \in Replicas, Stream(s) PROVE \E q \in up' \cap Replicas : Successor(q)'
  <2>1. primary = r /\ s # r /\ s # Target
    BY <1>5, <1>1 DEF Stream
  <2>2. UNCHANGED <<primary, up, fork, applied>>
    BY <1>5 DEF Stream
  <2>3. end'[r] = end[r] /\ timeline'[r] = timeline[r] /\ timeline'[Target] = timeline[Target]
    BY <1>5, <1>1, <2>1 DEF Stream
  <2>4. Successor(r)'
    BY <2>1, <2>2, <2>3, <1>1, <1>2 DEF Successor, Has
  <2> QED
    BY <2>2, <2>4
<1>6. ASSUME Commit PROVE \E q \in up' \cap Replicas : Successor(q)'
  <2>1. primary = r
    BY <1>6, <1>1 DEF Commit
  <2>2. UNCHANGED <<primary, up, timeline, fork, applied>> /\ end'[r] = end[r] + 1
    BY <1>6, <1>1, <2>1 DEF Commit
  <2>3. \A n \in 0..(applied - 1 - Short) : n < end'[r]
    <3> TAKE n \in 0..(applied - 1 - Short)
    <3>1. n \in Nat /\ n < end[r] /\ end[r] \in Nat
      BY <1>1, <1>2
    <3> QED
      BY <2>2, <3>1
  <2>4. Successor(r)'
    BY <2>1, <2>2, <2>3, <1>1, <1>2 DEF Successor, Has
  <2> QED
    BY <2>2, <2>4
<1> QED
  BY <1>3, <1>4, <1>5, <1>6 DEF World

\* Read while the target was the primary, a position that is safe to release by is that
\* of a successor: the replica had not been promoted, so what it reports is where it is,
\* and nothing is as far as the position taken when no "redo done at" was found.
LEMMA SafeIsSuccessor ==
  ASSUME TypeOK, RedoDoneAt, pc = "peers", primary = Target,
         NEW r \in Replicas, NEW p \in Reported(r), SafeToRelease(p)
  PROVE  Successor(r)
<1> USE Ranges DEF TypeOK
<1>1. p = [timeline |-> timeline[r], lsn |-> end[r]]
  BY DEF Reported
<1>2. timeline[r] = timeline[Target] /\ end[r] >= recovered
  BY <1>1 DEF SafeToRelease
<1>3. r \in Instances /\ end[r] \in 0..MaxEnd /\ applied \in Nat
  OBVIOUS
<1>4. recovered = applied - Short
  BY <1>2, <1>3 DEF RedoDoneAt
<1> QED
  BY <1>2, <1>3, <1>4 DEF Successor, Has

\* The verdict on the release stays backed by a successor until the fence falls.
LEMMA ReleaseNext ==
  ASSUME TypeOK, TypeOK', FencedThroughout, StepsOfTheOrder, RedoDoneAt, SafeHasSuccessor,
         [Next]_vars
  PROVE  RedoDoneAt' /\ SafeHasSuccessor'
<1> USE Ranges DEF TypeOK, StepsOfTheOrder, RedoDoneAt, SafeHasSuccessor, OnVolume, Goto, End,
      Fail, NoChange, cluster, volume, locals
<1>1. CASE Begin
  BY <1>1 DEF Begin
<1>2. CASE Triage
  BY <1>2 DEF Triage
<1>3. CASE Escrow
  BY <1>3 DEF Escrow
<1>4. CASE Fence
  BY <1>4 DEF Fence
<1>5. CASE Acquire
  BY <1>5 DEF Acquire
<1>6. CASE Boundary
  BY <1>6 DEF Boundary
<1>7. CASE Verify
  BY <1>7 DEF Verify
<1>8. CASE Delete
  BY <1>8 DEF Delete
<1>9. CASE Relocate
  BY <1>9 DEF Relocate
<1>10. CASE Replay
  BY <1>10 DEF Replay
<1>11. CASE Trim
  BY <1>11 DEF Trim
<1>12. CASE MoveBack
  BY <1>12 DEF MoveBack
<1>13. CASE Peers
  <2>1. pc' = "done" /\ led' = (primary = Target) /\ UNCHANGED <<primary, up, timeline, end, fork>>
        /\ UNCHANGED <<applied, recovered, order>>
    BY <1>13 DEF Peers
  <2>2. ASSUME safe', led' PROVE \E r \in up' \cap Replicas : Successor(r)'
    <3>1. PICK read \in SUBSET (up \cap Replicas) :
            \E p \in [read -> UNION {Reported(r) : r \in read}] :
              /\ \A r \in read : p[r] \in Reported(r)
              /\ safe' = (IsPrimary /\ \E r \in read : SafeToRelease(p[r]))
      BY <1>13 DEF Peers
    <3>2. PICK p \in [read -> UNION {Reported(r) : r \in read}] :
            /\ \A r \in read : p[r] \in Reported(r)
            /\ safe' = (IsPrimary /\ \E r \in read : SafeToRelease(p[r]))
      BY <3>1
    <3>3. PICK r \in read : SafeToRelease(p[r])
      BY <2>2, <3>2
    <3>4. r \in up \cap Replicas /\ p[r] \in Reported(r) /\ primary = Target /\ pc = "peers"
      BY <1>13, <2>1, <2>2, <3>2, <3>3 DEF Peers
    <3>5. Successor(r)
      BY <3>3, <3>4, SafeIsSuccessor
    <3>6. Successor(r)'
      BY <2>1, <3>5 DEF Successor, Has
    <3> QED
      BY <2>1, <3>4, <3>6
  <2> QED
    BY <2>1, <2>2
<1>14. CASE Restored
  <2>1. UNCHANGED <<primary, up, timeline, end, fork, applied, safe, led, order>>
    BY <1>14 DEF Restored
  <2>2. (\E r \in up \cap Replicas : Successor(r)) => \E r \in up' \cap Replicas : Successor(r)'
    BY <2>1 DEF Successor, Has
  <2>3. pc = "done" /\ pc' \in {"unfence", "ended"} /\ (pc' = "unfence" /\ order.deadlock => safe)
    BY <1>14 DEF Restored
  <2> QED
    BY <2>1, <2>2, <2>3
<1>15. CASE Unfence
  BY <1>15 DEF Unfence
<1>16. CASE World
  <2>1. UNCHANGED <<pc, order, safe, led, recovered, applied>>
    BY <1>16, WorldAdds
  <2>2. ASSUME pc \in {"done", "unfence"}, \E r \in up \cap Replicas : Successor(r)
        PROVE  \E r \in up' \cap Replicas : Successor(r)'
    <3>1. Target \notin up
      BY <2>2 DEF FencedThroughout
    <3> QED
      BY <1>16, <2>2, <3>1, SuccessorRemains
  <2> QED
    BY <2>1, <2>2
<1>17. CASE UNCHANGED vars
  <2>1. (\E r \in up \cap Replicas : Successor(r)) => \E r \in up' \cap Replicas : Successor(r)'
    BY <1>17 DEF vars, Successor, Has
  <2> QED
    BY <1>17, <2>1 DEF vars
<1> QED
  BY <1>1, <1>2, <1>3, <1>4, <1>5, <1>6, <1>7, <1>8, <1>9, <1>10, <1>11, <1>12, <1>13, <1>14,
     <1>15, <1>16, <1>17 DEF Next, Run

-----------------------------------------------------------------------------
(* The theorems *)

\* Together: the invariant is inductive.
LEMMA PruneNext == TypeOK /\ PruneInv /\ [Next]_vars => TypeOK' /\ PruneInv'
  BY TypedNext, StepsNext, CaughtUpNext, KeptNext, ReleaseNext DEF PruneInv

\* Every variable keeps its range, for any number of replicas.
THEOREM PruneTyped == Spec => []TypeOK
<1>1. Init => TypeOK /\ PruneInv
  BY TypedInit
<1>2. TypeOK /\ PruneInv /\ [Next]_vars => TypeOK' /\ PruneInv'
  BY PruneNext
<1> QED
  BY <1>1, <1>2, PTL DEF Spec

\* Where the run stands tells where the WAL is, what was copied, what the boundary is
\* and who can take over.
THEOREM PruneInvariant == Spec => []PruneInv
<1>1. Init => TypeOK /\ PruneInv
  BY TypedInit
<1>2. TypeOK /\ PruneInv /\ [Next]_vars => TypeOK' /\ PruneInv'
  BY PruneNext
<1> QED
  BY <1>1, <1>2, PTL DEF Spec

\* Whatever the target's volume could recover when it was triaged, it or an escrow copy
\* can recover ever after, unless a deadlock recovery ran with --no-escrow.
THEOREM PruneRecoverable == Spec => []RecoverableUnlessWaived
<1>1. TypeOK /\ PruneInv => RecoverableUnlessWaived
  <2> SUFFICES ASSUME TypeOK, PruneInv, pc # "triage", ~(order.deadlock /\ order.noEscrow),
                      NEW n \in before
               PROVE  n \in Recoverable(applied, wal) \/ \E copy \in saved : n \in copy
    BY DEF RecoverableUnlessWaived
  <2> USE DEF PruneInv, Kept
  <2>1. CASE before \subseteq Recoverable(applied, wal) \/ Copied
    BY <2>1 DEF Copied
  <2>2. CASE pc = "idle"
    BY <2>2 DEF WhereItIs
  <2>3. CASE pc = "ended"
    BY <2>1, <2>3 DEF CopiedUnlessWaived, KeptByPlain, TypeOK, Orders
  <2>4. CASE pc \in {"replay", "trim", "moveback"}
    <3>1. order.deadlock /\ ~order.noEscrow
      BY <2>4 DEF StepsOfTheOrder
    <3>2. Copied
      BY <2>4, <3>1 DEF CopiedUnlessWaived
    <3> QED
      BY <2>1, <3>2
  <2>5. CASE pc \notin {"idle", "triage", "replay", "trim", "moveback", "ended"}
    BY <2>1, <2>5 DEF WhereItIs
  <2> QED
    BY <2>2, <2>3, <2>4, <2>5
<1> QED
  BY <1>1, PruneTyped, PruneInvariant, PTL

\* Success means that the volume itself can still recover all of it.
THEOREM PruneOkKeeps == Spec => []OkKeepsAll
<1>1. PruneInv => OkKeepsAll
  BY DEF PruneInv, Kept, OkIsOver, OkKeepsAll
<1> QED
  BY <1>1, PruneInvariant, PTL

\* A plain, unforced prune of the primary deletes nothing a ready replica still needs.
THEOREM PruneStrandsNone == Spec => NoReplicaStranded
<1>1. TypeOK /\ PruneInv /\ [Next]_vars =>
        [(pc = "delete" /\ IsPrimary /\ ~order.force) =>
           \A r \in checked : \A n \in wal \ wal' : n < end[r]]_vars
  <2> SUFFICES ASSUME TypeOK, PruneInv, Next, pc = "delete", IsPrimary, ~order.force,
                      NEW r \in checked, NEW n \in wal \ wal'
               PROVE  n < end[r]
    OBVIOUS
  <2>1. redo \in 0..MaxEnd /\ end[r] \in 0..MaxEnd /\ n \in 0..MaxEnd
    BY Ranges DEF TypeOK
  <2>2. redo <= end[r]
    BY DEF PruneInv, CaughtUp
  <2>3. n < redo
    <3>1. CASE Delete
      BY <3>1, <2>1, Ranges DEF Delete
    <3>2. CASE World
      BY <3>2, WorldAdds
    <3> QED
      BY <3>1, <3>2 DEF Next, Run, Begin, Triage, Escrow, Fence, Acquire, Boundary, Verify,
           Relocate, Replay, Trim, MoveBack, Peers, Restored, Unfence
  <2> QED
    BY <2>1, <2>2, <2>3, Ranges
<1> QED
  BY <1>1, PruneTyped, PruneInvariant, PTL DEF Spec, NoReplicaStranded

\* A recovered primary is released only with a successor that has what it recovered.
THEOREM PruneReleases == Spec => ReleaseLosesNothing
<1>1. TypeOK /\ PruneInv /\ [Next]_vars =>
        [(pc = "unfence" /\ ~fenced' /\ order.deadlock /\ led) =>
           \E r \in up \cap Replicas :
             /\ primary \in {r, Target}
             /\ \A n \in 0..(applied - 1 - Short) : Has(r, Target, n)]_vars
  BY DEF PruneInv, SafeHasSuccessor, Successor
<1> QED
  BY <1>1, PruneTyped, PruneInvariant, PTL DEF Spec, ReleaseLosesNothing
=============================================================================
