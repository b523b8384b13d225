---------------------------- MODULE GaleraCluster ----------------------------
(***************************************************************************)
(* The resources HASteward's Galera operations share: the MariaDB custom   *)
(* resource (the suspend switch, the fence-lock annotation, the forced     *)
(* bootstrap pod), the StatefulSet's size, the nodes' pods and data        *)
(* volumes; the calls of src/src/engine/provider/galera_ops.go on them;    *)
(* and the mariadb-operator and StatefulSet controller as environment.     *)
(*                                                                         *)
(* A volume does not protect itself: two pods scheduled on one host can    *)
(* mount it together, which is why the code waits for pods to be gone.     *)
(***************************************************************************)
EXTENDS Naturals

CONSTANTS
  Ops,         \* invocations of HASteward on this cluster
  NoOne,       \* "no lock"
  Replicas,    \* spec.replicas of the MariaDB resource
  MayFail,     \* calls that may return an error
  MayMislead,  \* calls that may return an error after taking effect
  MayInterrupt \* operations a signal may interrupt

Calls == {"get", "lock", "suspend", "resume", "scale", "helper", "force", "unforce", "unlock"}

ASSUME ClusterAssumption ==
  /\ NoOne \notin Ops
  /\ Replicas \in Nat \ {0}
  /\ MayFail \subseteq Calls /\ MayMislead \subseteq MayFail
  /\ MayInterrupt \subseteq Ops

Nodes == 0..(Replicas - 1)
NoNode == Replicas            \* never the ordinal of a node

VARIABLES
  operator,    \* "active" or "suspended": spec.suspend
  lock,        \* holder in the bootstrap-lock annotation
  lockAge,     \* "fresh" (under an hour old) or "stale"
  fresh,       \* who last read the resource at its current resourceVersion
  forced,      \* forceClusterBootstrapInPod
  size,        \* spec.replicas of the StatefulSet
  up,          \* nodes whose database pod runs, holding its datadir open
  serving,     \* nodes in the primary component
  marked,      \* nodes whose grastate.dat says safe_to_bootstrap: 1
  helper,      \* the node each operation's helper pod works on
  interrupted  \* operations whose context a signal has cancelled

resource == <<operator, lock, lockAge, fresh, forced>>
nodes    == <<size, up, serving, marked>>
cluster  == <<resource, nodes, helper>>

ClusterTypeOK ==
  /\ operator \in {"active", "suspended"}
  /\ lock \in Ops \cup {NoOne}
  /\ lockAge \in {"fresh", "stale"}
  /\ fresh \subseteq Ops
  /\ forced \in Nodes \cup {NoNode}
  /\ size \in 0..Replicas
  /\ up \subseteq Nodes
  /\ serving \subseteq up
  /\ marked \subseteq Nodes
  /\ helper \in [Ops -> Nodes \cup {NoNode}]
  /\ interrupted \subseteq Ops

ClusterInit ==
  /\ operator = "active"
  /\ lock = NoOne /\ lockAge = "fresh" /\ fresh = {}
  /\ forced = NoNode
  /\ size = Replicas
  /\ up = Nodes
  /\ serving \in SUBSET Nodes
  /\ marked \in {{n} : n \in Nodes} \cup {{}}
  /\ helper = [o \in Ops |-> NoNode]
  /\ interrupted = {}

-----------------------------------------------------------------------------
(* Calls.  "ok" is what the caller sees: an error may hide a write that took *)
(* effect, and a call on a cancelled context (not "ctx") is never sent.      *)

Live(o) == o \notin interrupted

Answer(ctx, call, ok, old, new) ==
  IF ctx /\ ok THEN {new}
  ELSE {v \in {old, new} : /\ ~ok /\ (ctx => call \in MayFail)
                           /\ v = old \/ (ctx /\ call \in MayMislead)}

Touched == fresh' = IF <<operator', lock', lockAge', forced'>> = <<operator, lock, lockAge, forced>>
                    THEN fresh ELSE {}

SuspendCR(ctx, ok) ==
  /\ operator' \in Answer(ctx, "suspend", ok, operator, "suspended")
  /\ UNCHANGED <<lock, lockAge, forced>>
  /\ Touched

ResumeCR(ctx, ok) ==
  /\ operator' \in Answer(ctx, "resume", ok, operator, "active")
  /\ UNCHANGED <<lock, lockAge, forced>>
  /\ Touched

ScaleStatefulSet(ctx, k, ok) == size' \in Answer(ctx, "scale", ok, size, k)

\* The first half of AcquireFenceLock.
LockAvailable == operator = "active" /\ (lock = NoOne \/ lockAge = "stale")

\* A lock write: unconditional (bootstrap) or guarded by resourceVersion (the
\* compare-and-swap's caller checks that it is still fresh).
WriteLock(o, ok) ==
  /\ lock' \in Answer(Live(o), "lock", ok, lock, o)
  /\ lockAge' = IF lock' = o THEN "fresh" ELSE lockAge
  /\ UNCHANGED <<operator, forced>>
  /\ Touched

\* Removes the annotation, whoever holds it.
ClearFenceLock(ctx, ok) ==
  /\ lock' \in Answer(ctx, "unlock", ok, lock, NoOne)
  /\ UNCHANGED <<operator, lockAge, forced>>
  /\ Touched

-----------------------------------------------------------------------------
(* The environment *)

\* The operator keeps the StatefulSet at its size, unless suspended.
OperatorScales ==
  /\ operator = "active" /\ size # Replicas
  /\ size' = Replicas
  /\ UNCHANGED <<resource, up, serving, marked, helper>>

\* The operator writes its status: everybody's resourceVersion is outdated.
OperatorWrites ==
  /\ fresh # {}
  /\ fresh' = {}
  /\ UNCHANGED <<operator, lock, lockAge, forced, nodes, helper>>

PodStarts(n) ==
  /\ n < size /\ n \notin up
  /\ up' = up \cup {n}
  /\ UNCHANGED <<resource, size, serving, marked, helper>>

PodStops(n) ==
  /\ n >= size /\ n \in up
  /\ up' = up \ {n}
  /\ serving' = serving \ {n}
  /\ UNCHANGED <<resource, size, marked, helper>>

NodeFails(n) ==
  /\ n \in serving
  /\ serving' = serving \ {n}
  /\ UNCHANGED <<resource, size, up, marked, helper>>

\* A node joins the primary component, or forms it because it was told to; a
\* running server's grastate.dat no longer carries the marker.
NodeServes(n) ==
  /\ n \in up \ serving
  /\ serving # {} \/ n \in marked \/ (forced = n /\ operator = "active")
  /\ serving' = serving \cup {n}
  /\ marked' = marked \ {n}
  /\ UNCHANGED <<resource, size, up, helper>>

\* The lock's timestamp becomes an hour old.
LockAges ==
  /\ lock # NoOne /\ lockAge = "fresh"
  /\ lockAge' = "stale"
  /\ UNCHANGED <<operator, lock, fresh, forced, nodes, helper>>

Environment ==
  \/ OperatorScales \/ OperatorWrites
  \/ \E n \in Nodes : PodStarts(n) \/ PodStops(n) \/ NodeFails(n) \/ NodeServes(n)

-----------------------------------------------------------------------------
\* A helper never works in a datadir that a database process holds open ("two
\* processes in one InnoDB dir = corruption", WaitPodsTerminated).
DatadirExclusive == \A o \in Ops : helper[o] \notin up
=============================================================================
