---------------------------- MODULE MCOfflineJob ----------------------------
(* Up to two concurrent jobs.  "heal", "heal2" and "clear" are run-once and *)
(* destructive (repair, unwedge); "deadlock" is Go-driven, destructive and  *)
(* keeps its fence (prune-WAL); "inspect" is triage's fenced read-only look *)
(* at a volume, Go-driven and without the cluster lock.                     *)
EXTENDS OfflineJob, TLC

CONSTANTS i1, i2, heal, heal2, clear, deadlock, inspect

OneInstance  == {i1}
TwoInstances == {i1, i2}

Apart       == {heal, deadlock}
ApartTarget == (heal :> i1) @@ (deadlock :> i2)

Twice       == {heal, heal2}
TwiceTarget == [j \in Twice |-> i1]

WithTriage       == {clear, inspect}
WithTriageTarget == (clear :> i1) @@ (inspect :> i2)

Protected       == {deadlock, inspect}
ProtectedTarget == [j \in Protected |-> i1]
=============================================================================
