---------------------------- MODULE ClusterLease ----------------------------
(***************************************************************************)
(* The cluster-scoped operation lock of src/src/engine/cnpgjob/lock.go: a  *)
(* coordination.k8s.io Lease named after the CNPG cluster, taken by a      *)
(* single get-then-create/update attempt, renewed by a background          *)
(* goroutine, deleted on release and otherwise left to expire.             *)
(*                                                                         *)
(* Time is measured in renewal periods (20 s).  Instead of a clock the     *)
(* state keeps AGES, which are bounded: how long ago the RenewTime stored  *)
(* in the lease was sampled, and how long ago each call in flight sampled  *)
(* the RenewTime it is about to write.  A resourceVersion is abstracted to *)
(* the set of clients whose last read is still the stored version.         *)
(***************************************************************************)
EXTENDS Integers

CONSTANTS
  Ops,       \* invocations; leaseIdentity makes each one's identity unique
  NoOp,      \* "no such lease"
  Duration,  \* leaseDuration, in ticks
  Skew,      \* offset of each invocation's wall clock from true time
  Spread,    \* bound on the difference of two such clocks
  Timely     \* TRUE: renewals keep up and no call outlives a lease

ASSUME LeaseAssumption ==
  /\ NoOp \notin Ops
  /\ Duration \in Nat \ {0}
  /\ Spread \in Nat /\ Spread < Duration
  /\ Skew \in [Ops -> Int]
  /\ \A o, p \in Ops : Skew[o] - Skew[p] <= Spread
  /\ Timely \in BOOLEAN

\* The names say "lease" where OfflineJob has the plain ones: one module of
\* proofs is about both.
VARIABLES
  holder,    \* spec.holderIdentity of the stored lease, or NoOp
  age,       \* ticks since the stored spec.renewTime was sampled
  fresh,     \* clients whose last read of the lease is its current version
  stage,        \* where each invocation is in AcquireClusterLock .. release
  renewer,   \* its renewLease goroutine
  stamp      \* ticks since the time the client is about to store was sampled

leaseVars == <<holder, age, fresh, stage, renewer, stamp>>

MaxAge == Duration + 2 * Spread + 1   \* ages past this are all alike
Ages == 0..MaxAge
Older(a) == IF a < MaxAge THEN a + 1 ELSE a

PC == {"idle", "create", "update", "working", "refused", "released", "crashed"}

LeaseTypeOK ==
  /\ holder \in Ops \cup {NoOp}
  /\ age \in Ages
  /\ fresh \subseteq Ops
  /\ stage \in [Ops -> PC]
  /\ renewer \in [Ops -> {"off", "waiting", "read"}]
  /\ stamp \in [Ops -> Ages]

LeaseInit ==
  /\ holder = NoOp
  /\ age = 0
  /\ fresh = {}
  /\ stage = [o \in Ops |-> "idle"]
  /\ renewer = [o \in Ops |-> "off"]
  /\ stamp = [o \in Ops |-> 0]

Enter(o, l) == stage' = [stage EXCEPT ![o] = l]

-----------------------------------------------------------------------------
(* Acquisition *)

\* Mutant: a lease this process did not write counts as free once it looks old
\* by half its duration.
HeldByOtherEarly(o) ==
  /\ holder \notin {NoOp, o}
  /\ 2 * (age + Skew[o] - Skew[holder]) <= Duration

\* leaseHeldByOther, judged with o's own clock against the writer's.
HeldByOther(o) ==
  /\ holder \notin {NoOp, o}
  /\ age + Skew[o] - Skew[holder] <= Duration

\* now := time.Now(); Get.  The sampled time is what will be stored, however
\* late the write arrives.
AcquireGet(o) ==
  /\ stage[o] = "idle"
  /\ stamp' = [stamp EXCEPT ![o] = 0]
  /\ \/ /\ holder = NoOp
        /\ Enter(o, "create")
        /\ UNCHANGED fresh
     \/ /\ holder # NoOp /\ HeldByOther(o)
        /\ Enter(o, "refused")
        /\ UNCHANGED fresh
     \/ /\ holder # NoOp /\ ~HeldByOther(o)
        /\ Enter(o, "update")
        /\ fresh' = fresh \cup {o}
  /\ UNCHANGED <<holder, age, renewer>>

\* Any error of the Get, or of a write that did not reach the server.
AcquireError(o) ==
  /\ stage[o] \in {"idle", "create", "update"}
  /\ Enter(o, "refused")
  /\ UNCHANGED <<holder, age, fresh, renewer, stamp>>

\* The write commits; the client either learns it (and starts the renewer) or
\* sees an error and gives up without a release function.
Committed(o) ==
  /\ holder' = o
  /\ age' = stamp[o]
  /\ fresh' = {}
  /\ \/ /\ Enter(o, "working")
        /\ renewer' = [renewer EXCEPT ![o] = "waiting"]
     \/ /\ Enter(o, "refused")
        /\ UNCHANGED renewer
  /\ UNCHANGED stamp

Lost(o) ==
  /\ Enter(o, "refused")
  /\ UNCHANGED <<holder, age, fresh, renewer, stamp>>

AcquireCreate(o) ==
  /\ stage[o] = "create"
  /\ \/ holder = NoOp /\ Committed(o)
     \/ holder # NoOp /\ Lost(o)                       \* AlreadyExists

\* Mutant: the take-over drops the resourceVersion of the lease it read.
AcquireUpdateBlind(o) ==
  /\ stage[o] = "update"
  /\ Committed(o)

AcquireUpdate(o) ==
  /\ stage[o] = "update"
  /\ \/ o \in fresh /\ Committed(o)
     \/ o \notin fresh /\ Lost(o)                      \* Conflict, NotFound

-----------------------------------------------------------------------------
(* Renewal: runs until release closes the stop channel, on its own context *)

\* Mutant: the renewer does not look whose lease it renews.
RenewAnyHolder(o) ==
  /\ renewer[o] = "waiting"
  /\ holder # NoOp
  /\ renewer' = [renewer EXCEPT ![o] = "read"]
  /\ fresh' = fresh \cup {o}
  /\ stamp' = [stamp EXCEPT ![o] = 0]
  /\ UNCHANGED <<holder, age, stage>>

RenewGet(o) ==
  /\ renewer[o] = "waiting"
  /\ holder = o
  /\ renewer' = [renewer EXCEPT ![o] = "read"]
  /\ fresh' = fresh \cup {o}
  /\ stamp' = [stamp EXCEPT ![o] = 0]
  /\ UNCHANGED <<holder, age, stage>>

AfterRenewal(o) == IF stage[o] = "working" THEN "waiting" ELSE "off"

\* The Update; a conflict or any other error is discarded, and the operation
\* is never told.
RenewUpdate(o) ==
  /\ renewer[o] = "read"
  /\ renewer' = [renewer EXCEPT ![o] = AfterRenewal(o)]
  /\ \/ /\ o \in fresh
        /\ age' = stamp[o]
        /\ fresh' = {}
     \/ UNCHANGED <<age, fresh>>
  /\ UNCHANGED <<holder, stage, stamp>>

-----------------------------------------------------------------------------
(* Release, death and time *)

\* close(stop); Delete by name, with no precondition on holder or version.  A
\* delete that fails leaves the lease to expire.
ReleaseLease(o) ==
  /\ stage[o] = "working"
  /\ Enter(o, "released")
  /\ renewer' = [renewer EXCEPT ![o] = IF @ = "read" THEN "read" ELSE "off"]
  /\ \/ /\ holder' = NoOp
        /\ fresh' = {}
        /\ age' = 0
     \/ UNCHANGED <<holder, fresh, age>>
  /\ UNCHANGED stamp

\* The process dies: no release, no more renewals.
Die(o) ==
  /\ stage[o] \in {"create", "update", "working"}
  /\ Enter(o, "crashed")
  /\ renewer' = [renewer EXCEPT ![o] = "off"]
  /\ UNCHANGED <<holder, age, fresh, stamp>>

InFlight(o) == stage[o] \in {"create", "update"} \/ renewer[o] = "read"

\* The scheduling assumption: a tick never finds a working holder whose lease
\* would become takeable, nor a call that has carried its timestamp too long.
KeepsUp ==
  \A o \in Ops : /\ stage[o] = "working" => age + Spread < Duration
                 /\ InFlight(o) => stamp[o] + Spread < Duration

Tick ==
  /\ Timely => KeepsUp
  /\ age' = IF holder = NoOp THEN 0 ELSE Older(age)
  /\ stamp' = [o \in Ops |-> IF InFlight(o) THEN Older(stamp[o]) ELSE stamp[o]]
  /\ UNCHANGED <<holder, fresh, stage, renewer>>

LeaseNext ==
  \/ \E o \in Ops : \/ AcquireGet(o) \/ AcquireError(o)
                    \/ AcquireCreate(o) \/ AcquireUpdate(o)
                    \/ RenewGet(o) \/ RenewUpdate(o)
                    \/ ReleaseLease(o) \/ Die(o)
  \/ Tick

LeaseSpec == LeaseInit /\ [][LeaseNext]_leaseVars

\* Time passes, and a live renewer makes progress; nothing obliges an
\* operation to start or to finish.
LeaseFairSpec ==
  /\ LeaseSpec
  /\ WF_leaseVars(Tick)
  /\ \A o \in Ops : WF_leaseVars(RenewGet(o)) /\ WF_leaseVars(RenewUpdate(o))

-----------------------------------------------------------------------------
(* Properties *)

\* Repair, unwedge and prune-WAL never overlap on one cluster.
OneOperationAtATime ==
  \A o, p \in Ops : stage[o] = "working" /\ stage[p] = "working" => o = p

Exclusive == INSTANCE ExclusiveOperation
               WITH active <- {o \in Ops : stage[o] = "working"}

\* When renewals keep up, the lease implements the exclusive operation lock,
\* crashes, clock skew and lost or ambiguous writes included.
ImplementsExclusive == Exclusive!Spec

\* A lease changes hands only once it had expired by the taker's clock: the
\* resourceVersion makes a racing taker, and a renewal by an operation that
\* lost its lease, fail instead of overwriting the winner.
TakenOnlyWhenExpired ==
  [][\A o \in Ops : (holder' = o /\ holder \notin {o, NoOp}) => ~HeldByOther(o)]_leaseVars

\* A dead operation does not block the cluster: its lease is freed by time
\* alone (or has passed to someone else), without a human.
CrashedLeaseIsFreed ==
  \A o \in Ops : (holder = o /\ stage[o] = "crashed")
                   ~> (holder # o \/ age > Duration + Spread)
=============================================================================
