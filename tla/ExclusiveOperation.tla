------------------------- MODULE ExclusiveOperation -------------------------
(***************************************************************************)
(* What the cluster operation lock promises its callers (the comment of    *)
(* AcquireClusterLock in cnpgjob/lock.go): repair, unwedge and prune-WAL   *)
(* never run at the same time on one CNPG cluster.  An operation begins    *)
(* only when no other one is active; it ends by returning or by dying.     *)
(***************************************************************************)
CONSTANT Ops            \* invocations of a HASteward operation

VARIABLE active         \* the operations that may be touching the cluster

Init == active = {}

Begin(o) == /\ active = {}
            /\ active' = {o}

End(o) == /\ o \in active
          /\ active' = active \ {o}

Next == \E o \in Ops : Begin(o) \/ End(o)

Spec == Init /\ [][Next]_active
=============================================================================
