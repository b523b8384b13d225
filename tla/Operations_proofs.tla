------------------------- MODULE Operations_proofs -------------------------
(***************************************************************************)
(* How an operation comes to start, to be alone, and to have its volume    *)
(* for itself.                                                             *)
(*                                                                         *)
(* The scheduler: for any databases and policies, through edits, restarts  *)
(* and reads that fail, cron fires what the registered configurations ask  *)
(* for and nothing else.                                                   *)
(*                                                                         *)
(* The cluster lease: for any set of invocations, any clock skew within    *)
(* Spread, crashes, lost and ambiguous writes, it excludes as long as      *)
(* renewals keep up (Timely); without that it still passes on only once    *)
(* expired.                                                                *)
(*                                                                         *)
(* The offline job, for any set of instances and jobs, with every API      *)
(* failure and process death of the model: unconditionally, a switched-off *)
(* operator always has somebody answerable for it; and, when every job     *)
(* runs under the cluster lock and no two share a target, the exclusive    *)
(* handoff, the fence over half-written data and the isolation.            *)
(*                                                                         *)
(* The last two meet in ExclusiveOperation: the lease implements it, and   *)
(* so do jobs that run under the lock, which is what OfflineJob's owner    *)
(* stands for.                                                             *)
(***************************************************************************)
EXTENDS Scheduler, ClusterLease, OfflineJob, TLAPS

-----------------------------------------------------------------------------
(* The scheduler *)

\* Two configurations that Register takes for the same ask for the same jobs.
LEMMA SameJobs ==
  ASSUME NEW c1, NEW c2, SameSchedule(c1, c2)
  PROVE  JobsOf(c1) = JobsOf(c2)
<1>1. c1.backup = c2.backup /\ c1.triage = c2.triage /\ c1.mode = c2.mode /\ c1.repos = c2.repos
  BY DEF SameSchedule
<1> QED
  BY <1>1 DEF JobsOf, Backups, Wanted

\* What is registered for a database under a configuration is an entry per job.
LEMMA EntriesAre ==
  ASSUME NEW d, NEW cfg
  PROVE  /\ {e.job : e \in Entries(d, cfg)} = JobsOf(cfg)
         /\ \A e, f \in Entries(d, cfg) : e.job = f.job => e = f
         /\ \A e \in Entries(d, cfg) : e.db = d /\ e.cfg = cfg
         /\ d \in Databases /\ cfg \in Configs => Entries(d, cfg) \subseteq AllEntries
<1>1. \A e \in Entries(d, cfg) : e.job \in JobsOf(cfg) /\ e = [db |-> d, job |-> e.job, cfg |-> cfg]
  BY DEF Entries
<1>2. ASSUME NEW j \in JobsOf(cfg) PROVE \E e \in Entries(d, cfg) : e.job = j
  <2>1. [db |-> d, job |-> j, cfg |-> cfg] \in Entries(d, cfg)
    BY DEF Entries
  <2> QED
    BY <2>1
<1>3. \A e \in Entries(d, cfg) : e.db = d /\ e.cfg = cfg
  BY DEF Entries
<1>4. d \in Databases /\ cfg \in Configs => Entries(d, cfg) \subseteq AllEntries
  BY DEF AllEntries
<1> QED
  BY <1>1, <1>2, <1>3, <1>4

\* What Reconcile registers is a configuration.
LEMMA EffectiveIs ==
  ASSUME ScheduleTypeOK, NEW d \in Databases, fetched[d] # None, policy[fetched[d].policy] # None
  PROVE  Effective(fetched[d], policy[fetched[d].policy]) \in Configs
<1>1. fetched[d] \in Resources /\ fetched[d].policy # None
  BY DEF ScheduleTypeOK, OptedIn
<1>2. fetched[d].policy \in Policies
  BY <1>1, SchedulerAssumption
<1>3. policy[fetched[d].policy] \in Specs
  BY <1>2 DEF ScheduleTypeOK
<1> QED
  BY <1>1, <1>3 DEF Configs

\* The scheduler's state stays well typed: what is being reconciled has opted in, and
\* a call that repairs is a triage's whose configuration asked for repairs.
THEOREM ScheduleTyped == ScheduleSpec => []ScheduleTypeOK
<1>1. ScheduleInit => ScheduleTypeOK
  BY SchedulerAssumption DEF ScheduleInit, Fresh, Existing, ScheduleTypeOK
<1>2. ScheduleTypeOK /\ [ScheduleNext]_scheduleVars => ScheduleTypeOK'
  <2> SUFFICES ASSUME ScheduleTypeOK, [ScheduleNext]_scheduleVars PROVE ScheduleTypeOK'
    OBVIOUS
  <2> USE DEF ScheduleTypeOK
  <2>1. Existing \subseteq Databases
    BY DEF Existing
  <2>2. ASSUME NEW d \in Databases, ReadResource(d) PROVE ScheduleTypeOK'
    <3>1. CASE OptedIn(resource[d])
      <4>1. /\ fetched' = [fetched EXCEPT ![d] = resource[d]]
            /\ queue' = queue \ {d} /\ UNCHANGED <<world, scheduler, jobs, changes>>
        BY <2>2, <3>1 DEF ReadResource
      <4> QED
        BY <3>1, <4>1 DEF world, scheduler, OptedIn
    <3>2. CASE ~OptedIn(resource[d])
      <4>1. Deregister(d) /\ queue' = queue \ {d} /\ UNCHANGED <<world, fetched, jobs, changes>>
        BY <2>2, <3>2 DEF ReadResource
      <4> QED
        BY <4>1 DEF Deregister, world
    <3> QED
      BY <3>1, <3>2
  <2>3. ASSUME NEW d \in Databases, ReadPolicy(d) PROVE ScheduleTypeOK'
    <3> DEFINE c == Effective(fetched[d], policy[fetched[d].policy])
    <3>1. c \in Configs
      BY <2>3, EffectiveIs DEF ReadPolicy
    <3>2. Entries(d, c) \subseteq AllEntries /\ [cfg |-> c, entries |-> Entries(d, c)] \in Managed
      BY <3>1, EntriesAre DEF Managed
    <3>3. Register(d, c)
      BY <2>3 DEF ReadPolicy
    <3> HIDE DEF c
    <3>4. managed' \in [Databases -> Managed \cup {None}] /\ cron' \subseteq AllEntries
      <4>1. CASE managed[d] # None /\ SameSchedule(managed[d].cfg, c)
        <5>1. managed[d] \in Managed /\ managed' = [managed EXCEPT ![d].cfg = c] /\ cron' = cron
          BY <3>3, <4>1 DEF Register
        <5>2. [managed[d] EXCEPT !.cfg = c] \in Managed
          BY <3>1, <5>1 DEF Managed
        <5> QED
          BY <5>1, <5>2
      <4>2. CASE ~(managed[d] # None /\ SameSchedule(managed[d].cfg, c))
        BY <3>2, <3>3, <4>2 DEF Register
      <4> QED
        BY <4>1, <4>2
    <3> QED
      BY <2>1, <2>3, <3>4 DEF ReadPolicy, world
  <2>4. ASSUME NEW d \in Databases, PolicyUnread(d) PROVE ScheduleTypeOK'
    BY <2>4, SchedulerAssumption DEF PolicyUnread, world, scheduler
  <2>5. ASSUME NEW s \in Slots, GiveUp(s) \/ Complete(s) PROVE ScheduleTypeOK'
    BY <2>1, <2>5 DEF GiveUp, Complete, Finish, Annotate, world, scheduler
  <2>6. ASSUME NEW s \in Slots, NEW v, Triaged(s, v) PROVE ScheduleTypeOK'
    <3>1. CASE jobs' = [jobs EXCEPT ![s].step = "repair"] /\ Cfg(s).mode = "repair"
      <4>1. jobs[s] \in Calls /\ jobs[s].entry.job = "triage"
        BY <2>6 DEF Triaged
      <4>2. [jobs[s] EXCEPT !.step = "repair"] \in Calls
        BY <4>1 DEF Calls
      <4>3. [jobs[s] EXCEPT !.step = "repair"].entry = jobs[s].entry
        BY <4>1 DEF Calls
      <4> QED
        BY <2>1, <2>6, <3>1, <4>1, <4>2, <4>3 DEF Triaged, Annotate, Cfg, world, scheduler
    <3>2. CASE Finish(s)
      BY <2>1, <2>6, <3>2 DEF Triaged, Annotate, Finish, world, scheduler
    <3> QED
      BY <2>6, <3>1, <3>2 DEF Triaged
  <2>7. ASSUME NEW s \in Slots, NEW e \in cron, Fire(s, e) PROVE ScheduleTypeOK'
    <3>1. [entry |-> e, step |-> "run"] \in Calls
      BY DEF Calls
    <3> QED
      BY <2>7, <3>1 DEF Fire, world, scheduler
  <2>8. ASSUME NEW d \in Databases, NEW r \in Resources \cup {None}, EditResource(d, r) PROVE ScheduleTypeOK'
    BY <2>8, SchedulerAssumption DEF EditResource, Change, scheduler
  <2>9. ASSUME NEW q \in Policies, NEW spec \in Specs \cup {None}, EditPolicy(q, spec) PROVE ScheduleTypeOK'
    BY <2>9, SchedulerAssumption DEF EditPolicy, Change, scheduler
  <2>10. CASE Resync \/ Restart
    BY <2>1, <2>10, SchedulerAssumption DEF Resync, Restart, Change, world, scheduler
  <2>11. CASE UNCHANGED scheduleVars
    BY <2>11 DEF scheduleVars, world, scheduler
  <2> QED
    BY <2>2, <2>3, <2>4, <2>5, <2>6, <2>7, <2>8, <2>9, <2>10, <2>11 DEF ScheduleNext, Reconcile, Job
<1> QED
  BY <1>1, <1>2, PTL DEF ScheduleSpec

\* An entry of cron belongs to the database it names, as that database's registration has it.
LEMMA CronByDatabase ==
  ASSUME ScheduleTypeOK, CronIsManaged, NEW e
  PROVE  e \in cron <=> \E d \in Databases : managed[d] # None /\ e \in managed[d].entries /\ e.db = d
  BY DEF CronIsManaged

\* A registration that names what it asks for.
Registered(d, m) ==
  /\ {e.job : e \in m.entries} = JobsOf(m.cfg)
  /\ \A e, f \in m.entries : e.job = f.job => e = f
  /\ \A e \in m.entries : e.db = d /\ SameSchedule(e.cfg, m.cfg)

\* Registering a configuration that asks for the same jobs keeps the entries' worth.
LEMMA RegisteredInPlace ==
  ASSUME NEW d, NEW m \in Managed, NEW c \in Configs, Registered(d, m), SameSchedule(m.cfg, c)
  PROVE  Registered(d, [m EXCEPT !.cfg = c])
<1>1. [m EXCEPT !.cfg = c].entries = m.entries /\ [m EXCEPT !.cfg = c].cfg = c
  BY DEF Managed
<1>2. JobsOf(m.cfg) = JobsOf(c)
  BY SameJobs
<1>3. \A e \in m.entries : SameSchedule(e.cfg, c)
  BY DEF Registered, SameSchedule
<1> QED
  BY <1>1, <1>2, <1>3 DEF Registered

\* Replacing one database's registration, and in cron its entries by the new ones,
\* keeps cron what the registrations ask for.
LEMMA ReplacedAlone ==
  ASSUME ScheduleTypeOK, CronIsManaged, NEW d \in Databases, NEW m \in Managed \cup {None},
         m # None => Registered(d, m),
         managed' = [managed EXCEPT ![d] = m],
         cron' = (IF managed[d] = None THEN cron ELSE cron \ managed[d].entries)
                   \cup (IF m = None THEN {} ELSE m.entries)
  PROVE  CronIsManaged'
<1> USE DEF ScheduleTypeOK
<1>1. \A b \in Databases : managed'[b] = IF b = d THEN m ELSE managed[b]
  OBVIOUS
<1>2. ASSUME NEW b \in Databases, managed'[b] # None PROVE Registered(b, managed'[b])
  <2>1. CASE b = d
    BY <1>1, <1>2, <2>1
  <2>2. CASE b # d
    <3>1. managed[b] # None /\ managed'[b] = managed[b]
      BY <1>1, <1>2, <2>2
    <3>2. Registered(b, managed[b])
      BY <3>1 DEF CronIsManaged, Registered
    <3> QED
      BY <3>1, <3>2
  <2> QED
    BY <2>1, <2>2
<1>3. ASSUME NEW e, e \in cron'
      PROVE  \E b \in Databases : managed'[b] # None /\ e \in managed'[b].entries
  <2>1. CASE m # None /\ e \in m.entries
    BY <1>1, <2>1
  <2>2. CASE e \in cron /\ ~(managed[d] # None /\ e \in managed[d].entries)
    BY <1>1, <2>2, CronByDatabase
  <2> QED
    BY <1>3, <2>1, <2>2
<1>4. ASSUME NEW e, NEW b \in Databases, managed'[b] # None, e \in managed'[b].entries
      PROVE  e \in cron'
  <2>1. CASE b = d
    BY <1>1, <1>4, <2>1
  <2>2. CASE b # d
    <3>1. managed[b] # None /\ e \in managed[b].entries
      BY <1>1, <1>4, <2>2
    <3>2. e \in cron /\ e.db = b
      BY <3>1 DEF CronIsManaged
    <3>3. managed[d] # None => e \notin managed[d].entries
      BY <2>2, <3>2 DEF CronIsManaged
    <3> QED
      BY <3>2, <3>3
  <2> QED
    BY <2>1, <2>2
<1>5. cron' = UNION {managed'[b].entries : b \in {f \in Databases : managed'[f] # None}}
  BY <1>3, <1>4
<1> QED
  BY <1>2, <1>5 DEF CronIsManaged, Registered

\* Cron fires what is registered, entry for entry, whatever is edited, excluded,
\* deleted or restarted in any order, and whichever reads fail: Register takes away
\* what it replaces, Deregister what it drops, and what is updated in place asks for
\* the same jobs.
THEOREM CronManaged == ScheduleSpec => []CronIsManaged
<1>1. ScheduleInit => CronIsManaged
  BY DEF ScheduleInit, Fresh, CronIsManaged
<1>2. ScheduleTypeOK /\ CronIsManaged /\ [ScheduleNext]_scheduleVars => CronIsManaged'
  <2> SUFFICES ASSUME ScheduleTypeOK, CronIsManaged, [ScheduleNext]_scheduleVars PROVE CronIsManaged'
    OBVIOUS
  <2>1. ASSUME UNCHANGED scheduler PROVE CronIsManaged'
    BY <2>1 DEF CronIsManaged, scheduler
  <2>2. ASSUME NEW d \in Databases, Deregister(d) PROVE CronIsManaged'
    BY <2>2, ReplacedAlone DEF Deregister
  <2>3. ASSUME NEW d \in Databases, ReadPolicy(d) PROVE CronIsManaged'
    <3> DEFINE c == Effective(fetched[d], policy[fetched[d].policy])
    <3>1. c \in Configs
      BY <2>3, EffectiveIs DEF ReadPolicy
    <3>2. Register(d, c)
      BY <2>3 DEF ReadPolicy
    <3> HIDE DEF c
    <3>3. CASE managed[d] # None /\ SameSchedule(managed[d].cfg, c)
      <4> DEFINE m == [managed[d] EXCEPT !.cfg = c]
      <4>1. managed[d] \in Managed /\ managed' = [managed EXCEPT ![d] = m] /\ cron' = cron
        BY <3>2, <3>3 DEF Register, ScheduleTypeOK
      <4>2. m \in Managed /\ m.entries = managed[d].entries
        BY <3>1, <4>1 DEF Managed
      <4>3. Registered(d, m)
        BY <3>1, <3>3, <4>1, RegisteredInPlace DEF CronIsManaged, Registered
      <4>4. m # None
        BY <4>2, SchedulerAssumption
      <4>5. managed[d].entries \subseteq cron
        BY <3>3 DEF CronIsManaged
      <4>6. cron' = (cron \ managed[d].entries) \cup m.entries
        BY <4>1, <4>2, <4>5
      <4> HIDE DEF m
      <4> QED
        BY <3>3, <4>1, <4>2, <4>3, <4>4, <4>6, ReplacedAlone
    <3>4. CASE ~(managed[d] # None /\ SameSchedule(managed[d].cfg, c))
      <4> DEFINE m == [cfg |-> c, entries |-> Entries(d, c)]
      <4>1. m \in Managed /\ m # None
        BY <3>1, EntriesAre, SchedulerAssumption DEF Managed
      <4>2. Registered(d, m)
        BY EntriesAre DEF Registered, SameSchedule
      <4>3. m.entries = Entries(d, c)
        OBVIOUS
      <4>4. /\ managed' = [managed EXCEPT ![d] = m]
            /\ cron' = (IF managed[d] = None THEN cron ELSE cron \ managed[d].entries) \cup m.entries
        BY <3>2, <3>4, <4>3 DEF Register
      <4> HIDE DEF m
      <4> QED
        BY <4>1, <4>2, <4>4, ReplacedAlone
    <3> QED
      BY <3>3, <3>4
  <2>4. CASE Restart
    BY <2>4 DEF Restart, CronIsManaged
  <2>5. ASSUME NEW d \in Databases, ReadResource(d) PROVE Deregister(d) \/ UNCHANGED scheduler
    BY <2>5 DEF ReadResource
  <2> QED
    BY <2>1, <2>2, <2>3, <2>4, <2>5
    DEF ScheduleNext, scheduleVars, Reconcile, Job, PolicyUnread, GiveUp, Complete, Triaged, Fire,
        EditResource, EditPolicy, Resync
<1> QED
  BY <1>1, <1>2, ScheduleTyped, PTL DEF ScheduleSpec

-----------------------------------------------------------------------------
(* The cluster lease *)

\* A working operation holds a lease nobody can take yet.
WorkingHolds ==
  \A o \in Ops : stage[o] = "working" => holder = o /\ age + Spread <= Duration

\* No write in flight carries a timestamp old enough to be born expired.
StampsYoung == \A o \in Ops : InFlight(o) => stamp[o] + Spread <= Duration

\* A taker whose read is still current is taking from an operation that is over.
TakersSafe ==
  \A o \in Ops : stage[o] = "update" /\ o \in fresh =>
    holder \in Ops /\ stage[holder] # "working"

\* A renewer belongs to an operation that acquired, and writes only its own lease.
RenewersOwn ==
  \A o \in Ops : /\ renewer[o] # "off" => stage[o] \in {"working", "released"}
                 /\ renewer[o] = "read" /\ o \in fresh => holder = o

LeaseInv == WorkingHolds /\ StampsYoung /\ TakersSafe /\ RenewersOwn

\* The lease and its clients stay in their types, ages bounded by MaxAge.
THEOREM LeaseTyped == LeaseSpec => []LeaseTypeOK
<1>1. LeaseInit => LeaseTypeOK
  BY LeaseAssumption DEF LeaseInit, LeaseTypeOK, PC, Ages, MaxAge
<1>2. LeaseTypeOK /\ [LeaseNext]_leaseVars => LeaseTypeOK'
  <2> SUFFICES ASSUME LeaseTypeOK, [LeaseNext]_leaseVars PROVE LeaseTypeOK'
    OBVIOUS
  <2>a. MaxAge \in Nat /\ 0 \in Ages /\ \A a \in Ages : Older(a) \in Ages
    BY LeaseAssumption DEF Ages, Older, MaxAge
  <2>1. ASSUME NEW o \in Ops, AcquireGet(o) PROVE LeaseTypeOK'
    BY <2>1, <2>a DEF LeaseTypeOK, AcquireGet, Enter, PC
  <2>2. ASSUME NEW o \in Ops, AcquireError(o) PROVE LeaseTypeOK'
    BY <2>2 DEF LeaseTypeOK, AcquireError, Enter, PC
  <2>3. ASSUME NEW o \in Ops, AcquireCreate(o) \/ AcquireUpdate(o) PROVE LeaseTypeOK'
    BY <2>3 DEF LeaseTypeOK, AcquireCreate, AcquireUpdate, Committed, Lost, Enter, PC
  <2>4. ASSUME NEW o \in Ops, RenewGet(o) PROVE LeaseTypeOK'
    BY <2>4, <2>a DEF LeaseTypeOK, RenewGet
  <2>5. ASSUME NEW o \in Ops, RenewUpdate(o) PROVE LeaseTypeOK'
    BY <2>5 DEF LeaseTypeOK, RenewUpdate, AfterRenewal
  <2>6. ASSUME NEW o \in Ops, ReleaseLease(o) PROVE LeaseTypeOK'
    BY <2>6, <2>a DEF LeaseTypeOK, ReleaseLease, Enter, PC
  <2>7. ASSUME NEW o \in Ops, Die(o) PROVE LeaseTypeOK'
    BY <2>7 DEF LeaseTypeOK, Die, Enter, PC
  <2>8. CASE Tick
    BY <2>8, <2>a DEF LeaseTypeOK, Tick
  <2>9. CASE UNCHANGED leaseVars
    BY <2>9 DEF LeaseTypeOK, leaseVars
  <2> QED
    BY <2>1, <2>2, <2>3, <2>4, <2>5, <2>6, <2>7, <2>8, <2>9 DEF LeaseNext
<1> QED
  BY <1>1, <1>2, PTL DEF LeaseSpec

-----------------------------------------------------------------------------
\* At the beginning nobody works and nothing is in flight.
LEMMA LeaseInvInit == LeaseInit => LeaseInv
  BY LeaseAssumption
  DEF LeaseInit, LeaseInv, WorkingHolds, StampsYoung, TakersSafe, RenewersOwn, InFlight

\* A working holder's lease stays too young to be taken.
LEMMA LeaseInvNext ==
  ASSUME Timely, LeaseTypeOK, LeaseInv, [LeaseNext]_leaseVars
  PROVE  LeaseInv'
<1> USE LeaseAssumption DEF LeaseTypeOK, Ages
<1>1. ASSUME NEW o \in Ops, AcquireGet(o) PROVE LeaseInv'
  <2>1. WorkingHolds' /\ RenewersOwn'
    BY <1>1 DEF AcquireGet, Enter, LeaseInv, WorkingHolds, RenewersOwn
  <2>2. StampsYoung'
    BY <1>1 DEF AcquireGet, Enter, LeaseInv, StampsYoung, InFlight
  <2>3. TakersSafe'
    <3>1. ASSUME holder \in Ops, ~HeldByOther(o) PROVE stage[holder] # "working" \/ holder = o
      BY <3>1 DEF HeldByOther, LeaseInv, WorkingHolds
    <3>2. QED
      BY <1>1, <3>1 DEF AcquireGet, Enter, LeaseInv, TakersSafe
  <2> QED
    BY <2>1, <2>2, <2>3 DEF LeaseInv
<1>2. ASSUME NEW o \in Ops, AcquireError(o) PROVE LeaseInv'
  BY <1>2 DEF AcquireError, Enter, LeaseInv, WorkingHolds, StampsYoung, TakersSafe,
              RenewersOwn, InFlight
<1>3. ASSUME NEW o \in Ops, AcquireCreate(o) \/ AcquireUpdate(o) PROVE LeaseInv'
  <2>1. CASE Lost(o)
    BY <1>3, <2>1 DEF AcquireCreate, AcquireUpdate, Lost, Enter, LeaseInv, WorkingHolds,
                      StampsYoung, TakersSafe, RenewersOwn, InFlight
  <2>2. CASE Committed(o)
    <3>1. \A p \in Ops : stage[p] # "working"
      BY <1>3, <2>2, NoOp \notin Ops
      DEF AcquireCreate, AcquireUpdate, Committed, Lost, Enter, LeaseInv, WorkingHolds, TakersSafe
    <3>2. stage[o] \in {"create", "update"} /\ stamp[o] + Spread <= Duration
      BY <1>3 DEF AcquireCreate, AcquireUpdate, LeaseInv, StampsYoung, InFlight
    <3>3. WorkingHolds'
      BY <2>2, <3>1, <3>2 DEF Committed, Enter, WorkingHolds
    <3>4. StampsYoung'
      BY <2>2 DEF Committed, Enter, LeaseInv, StampsYoung, InFlight
    <3>5. TakersSafe' /\ RenewersOwn'
      BY <2>2, <3>2 DEF Committed, Enter, LeaseInv, TakersSafe, RenewersOwn
    <3> QED
      BY <3>3, <3>4, <3>5 DEF LeaseInv
  <2> QED
    BY <1>3, <2>1, <2>2 DEF AcquireCreate, AcquireUpdate
<1>4. ASSUME NEW o \in Ops, RenewGet(o) PROVE LeaseInv'
  BY <1>4 DEF RenewGet, LeaseInv, WorkingHolds, StampsYoung, TakersSafe, RenewersOwn, InFlight
<1>5. ASSUME NEW o \in Ops, RenewUpdate(o) PROVE LeaseInv'
  <2>1. renewer[o] = "read" /\ stamp[o] + Spread <= Duration /\ stage[o] \in {"working", "released"}
    BY <1>5 DEF RenewUpdate, LeaseInv, StampsYoung, RenewersOwn, InFlight
  <2>2. WorkingHolds'
    BY <1>5, <2>1 DEF RenewUpdate, LeaseInv, WorkingHolds
  <2>3. StampsYoung'
    BY <1>5 DEF RenewUpdate, AfterRenewal, LeaseInv, StampsYoung, InFlight
  <2>4. TakersSafe' /\ RenewersOwn'
    BY <1>5, <2>1 DEF RenewUpdate, AfterRenewal, LeaseInv, TakersSafe, RenewersOwn
  <2> QED
    BY <2>2, <2>3, <2>4 DEF LeaseInv
<1>6. ASSUME NEW o \in Ops, ReleaseLease(o) PROVE LeaseInv'
  <2>1. holder = o /\ \A p \in Ops : stage[p] = "working" => p = o
    BY <1>6 DEF ReleaseLease, LeaseInv, WorkingHolds
  <2>2. WorkingHolds' /\ StampsYoung'
    BY <1>6, <2>1 DEF ReleaseLease, Enter, LeaseInv, WorkingHolds, StampsYoung, InFlight
  <2>3. TakersSafe' /\ RenewersOwn'
    BY <1>6, <2>1 DEF ReleaseLease, Enter, LeaseInv, TakersSafe, RenewersOwn
  <2> QED
    BY <2>2, <2>3 DEF LeaseInv
<1>7. ASSUME NEW o \in Ops, Die(o) PROVE LeaseInv'
  BY <1>7 DEF Die, Enter, LeaseInv, WorkingHolds, StampsYoung, TakersSafe, RenewersOwn, InFlight
<1>8. CASE Tick
  <2>1. KeepsUp
    BY <1>8 DEF Tick
  <2>2. \A a \in Ages : Older(a) \in Nat /\ Older(a) <= a + 1
    BY DEF Older, MaxAge
  <2>3. WorkingHolds'
    BY <1>8, <2>1, <2>2 DEF Tick, KeepsUp, LeaseInv, WorkingHolds
  <2>4. StampsYoung'
    <3> SUFFICES ASSUME NEW p \in Ops, InFlight(p)' PROVE (stamp[p] + Spread <= Duration)'
      BY DEF StampsYoung
    <3>1. InFlight(p) /\ stamp'[p] = Older(stamp[p])
      BY <1>8 DEF Tick, InFlight
    <3>2. stamp[p] + Spread < Duration
      BY <2>1, <3>1 DEF KeepsUp
    <3> QED
      BY <2>2, <3>1, <3>2
  <2>5. TakersSafe' /\ RenewersOwn'
    BY <1>8 DEF Tick, LeaseInv, TakersSafe, RenewersOwn
  <2> QED
    BY <2>3, <2>4, <2>5 DEF LeaseInv
<1>9. CASE UNCHANGED leaseVars
  BY <1>9 DEF leaseVars, LeaseInv, WorkingHolds, StampsYoung, TakersSafe, RenewersOwn, InFlight
<1> QED
  BY <1>1, <1>2, <1>3, <1>4, <1>5, <1>6, <1>7, <1>8, <1>9 DEF LeaseNext

\* The strengthened invariant holds of every behaviour whose renewals keep up.
THEOREM LeaseInvariant == ASSUME Timely PROVE LeaseSpec => []LeaseInv
<1>1. LeaseTypeOK /\ LeaseInv /\ [LeaseNext]_leaseVars => LeaseInv'
  BY LeaseInvNext
<1> QED
  BY <1>1, LeaseInvInit, LeaseTyped, PTL DEF LeaseSpec

\* AcquireClusterLock's promise: no two operations on one cluster at a time.
THEOREM LeaseExcludes == ASSUME Timely PROVE LeaseSpec => []OneOperationAtATime
<1>1. LeaseInv => OneOperationAtATime
  BY DEF LeaseInv, WorkingHolds, OneOperationAtATime
<1> QED
  BY <1>1, LeaseInvariant, PTL

-----------------------------------------------------------------------------
Active == {o \in Ops : stage[o] = "working"}

\* Every step begins an operation, ends one, or changes nothing of who works.
LEMMA StepRefines ==
  ASSUME LeaseTypeOK, LeaseInv, [LeaseNext]_leaseVars
  PROVE  [Exclusive!Next]_Active
<1> USE LeaseAssumption DEF LeaseTypeOK
<1>1. ASSUME NEW o \in Ops, stage' = [stage EXCEPT ![o] = "working"],
             AcquireCreate(o) \/ AcquireUpdate(o)
      PROVE  Exclusive!Begin(o)
  <2>1. \A p \in Ops : stage[p] # "working"
    BY <1>1 DEF AcquireCreate, AcquireUpdate, Committed, Lost, Enter, LeaseInv,
                WorkingHolds, TakersSafe
  <2> QED
    BY <1>1, <2>1 DEF Exclusive!Begin
<1>2. ASSUME NEW o \in Ops, NEW l \in PC \ {"working"}, stage[o] = "working",
             stage' = [stage EXCEPT ![o] = l]
      PROVE  Exclusive!End(o)
  BY <1>2 DEF Exclusive!End
<1>3. ASSUME NEW o \in Ops, NEW l \in PC \ {"working"}, stage[o] # "working",
             stage' = [stage EXCEPT ![o] = l]
      PROVE  UNCHANGED Active
  BY <1>3 DEF Active
<1>4. ASSUME NEW o \in Ops, AcquireGet(o) \/ AcquireError(o)
      PROVE  UNCHANGED Active
  BY <1>4, <1>3 DEF AcquireGet, AcquireError, Enter, PC
<1>5. ASSUME NEW o \in Ops, AcquireCreate(o) \/ AcquireUpdate(o)
      PROVE  Exclusive!Begin(o) \/ UNCHANGED Active
  BY <1>1, <1>3, <1>5 DEF AcquireCreate, AcquireUpdate, Committed, Lost, Enter, PC
<1>6. ASSUME NEW o \in Ops, ReleaseLease(o) \/ Die(o)
      PROVE  Exclusive!End(o) \/ UNCHANGED Active
  BY <1>2, <1>3, <1>6 DEF ReleaseLease, Die, Enter, PC
<1>7. ASSUME stage' = stage PROVE UNCHANGED Active
  BY <1>7 DEF Active
<1> QED
  BY <1>4, <1>5, <1>6, <1>7
  DEF LeaseNext, RenewGet, RenewUpdate, Tick, leaseVars, Exclusive!Next, Active

\* With timely renewals the lease implements the abstract exclusive operation.
THEOREM LeaseImplements == ASSUME Timely PROVE LeaseSpec => ImplementsExclusive
<1>1. LeaseInit => Exclusive!Init
  BY DEF LeaseInit, Exclusive!Init
<1>2. LeaseTypeOK /\ LeaseInv /\ [LeaseNext]_leaseVars => [Exclusive!Next]_Active
  BY StepRefines
<1> QED
  BY <1>1, <1>2, LeaseTyped, LeaseInvariant, PTL
  DEF LeaseSpec, ImplementsExclusive, Exclusive!Spec, Active
-----------------------------------------------------------------------------
(* Without Timely: an operation may lose its lease while it works, but only to
   a taker that saw it expired. *)

\* A taker whose read is still current read an expired lease, or none of another's.
TakersSawExpired ==
  \A o \in Ops : stage[o] = "update" /\ o \in fresh => ~HeldByOther(o)

\* Only an operation that acquired has a renewer.
RenewersAcquired ==
  \A o \in Ops : renewer[o] # "off" => stage[o] \in {"working", "released"}

TakeInv == TakersSawExpired /\ RenewersAcquired

\* A write empties fresh, a renewer is no taker, and time only ages the lease.
LEMMA TakeInvNext ==
  ASSUME LeaseTypeOK, TakeInv, [LeaseNext]_leaseVars
  PROVE  TakeInv'
<1> USE LeaseAssumption DEF LeaseTypeOK, Ages, TakeInv, TakersSawExpired, RenewersAcquired
<1>1. ASSUME NEW o \in Ops, AcquireGet(o) PROVE TakeInv'
  BY <1>1 DEF AcquireGet, Enter, HeldByOther
<1>2. ASSUME NEW o \in Ops, AcquireError(o) \/ Die(o) PROVE TakeInv'
  BY <1>2 DEF AcquireError, Die, Enter, HeldByOther
<1>3. ASSUME NEW o \in Ops, AcquireCreate(o) \/ AcquireUpdate(o) PROVE TakeInv'
  BY <1>3 DEF AcquireCreate, AcquireUpdate, Committed, Lost, Enter, HeldByOther
<1>4. ASSUME NEW o \in Ops, RenewGet(o) PROVE TakeInv'
  BY <1>4 DEF RenewGet, HeldByOther
<1>5. ASSUME NEW o \in Ops, RenewUpdate(o) PROVE TakeInv'
  BY <1>5 DEF RenewUpdate, AfterRenewal, HeldByOther
<1>6. ASSUME NEW o \in Ops, ReleaseLease(o) PROVE TakeInv'
  BY <1>6 DEF ReleaseLease, Enter, HeldByOther
<1>7. CASE Tick
  <2>1. holder \in Ops => age' \in Nat /\ age' >= age
    BY <1>7 DEF Tick, Older, MaxAge
  <2>2. ASSUME NEW o \in Ops, ~HeldByOther(o) PROVE ~HeldByOther(o)'
    BY <1>7, <2>1, <2>2 DEF Tick, HeldByOther
  <2> QED
    BY <1>7, <2>2 DEF Tick
<1>8. CASE UNCHANGED leaseVars
  BY <1>8 DEF leaseVars, HeldByOther
<1> QED
  BY <1>1, <1>2, <1>3, <1>4, <1>5, <1>6, <1>7, <1>8 DEF LeaseNext

\* A racing taker, or a renewal by an operation that lost its lease, never
\* overwrites a lease that is still another's: the Update carries the
\* resourceVersion of the expired lease that was read.
THEOREM LeaseTakenExpired == LeaseSpec => TakenOnlyWhenExpired
<1>1. LeaseInit => TakeInv
  BY DEF LeaseInit, TakeInv, TakersSawExpired, RenewersAcquired
<1>2. LeaseTypeOK /\ TakeInv /\ [LeaseNext]_leaseVars => TakeInv'
  BY TakeInvNext
<1>3. ASSUME LeaseTypeOK, TakeInv, [LeaseNext]_leaseVars, NEW o \in Ops, holder' = o, holder \notin {o, NoOp}
      PROVE  ~HeldByOther(o)
  <2> USE <1>3 DEF LeaseTypeOK
  <2>1. ASSUME NEW p \in Ops, AcquireCreate(p) \/ AcquireUpdate(p) PROVE ~HeldByOther(o)
    BY <2>1 DEF AcquireCreate, AcquireUpdate, Committed, Lost, TakeInv, TakersSawExpired
  <2>2. ASSUME NEW p \in Ops, ReleaseLease(p) PROVE FALSE
    BY <2>2, LeaseAssumption DEF ReleaseLease
  <2> QED
    BY <2>1, <2>2
    DEF LeaseNext, AcquireGet, AcquireError, RenewGet, RenewUpdate, Die, Tick, leaseVars
<1>4. LeaseTypeOK /\ TakeInv /\ [LeaseNext]_leaseVars
        => [\A o \in Ops : (holder' = o /\ holder \notin {o, NoOp}) => ~HeldByOther(o)]_leaseVars
  BY <1>3
<1> QED
  BY <1>1, <1>2, <1>4, LeaseTyped, PTL DEF LeaseSpec, TakenOnlyWhenExpired

-----------------------------------------------------------------------------
(* The offline job *)

Disciplined ==
  /\ Locked = Jobs
  /\ \A j, k \in Jobs : Target[j] = Target[k] => j = k

-----------------------------------------------------------------------------
(* The inductive invariant *)

LockCovers == \A j \in Jobs : pc[j] \in Running => owner = j

SeenIsCurrent == \A j \in Jobs : pc[j] \in {"fencePatch", "unfencePatch"} => seen[j] = fenced

FencedThroughout ==
  \A j \in Jobs :
    pc[j] \in {"disable", "create", "acquire", "work", "callback", "drop", "enable",
               "unfence", "unfencePatch"} => Target[j] \in fenced

OffThroughout ==
  \A j \in Jobs :
    pc[j] \in {"create", "acquire", "work", "callback", "drop", "enable"} => reconcile = "disabled"

HelperHoldsVolume == \A j \in Jobs : helper[j] = "running" => pod[Target[j]] = "absent"

ReadersLeaveWhole == \A j \in Jobs \ Destructive : data[Target[j]] = "good"

WholeOnceDone ==
  \A j \in Jobs : pc[j] \in {"drop", "enable", "unfence", "unfencePatch"} =>
    /\ data[Target[j]] = "good"
    /\ j \notin GoDriven => helper[j] \in {"succeeded", "none"}

WorkIsOfItsKind ==
  \A j \in Jobs :
    /\ pc[j] = "callback" => j \in GoDriven
    /\ j \notin GoDriven /\ helper[j] = "succeeded" => data[Target[j]] = "good"

BrokenIsFenced == \A i \in Instances : data[i] # "good" => i \in fenced

\* A destructive helper that may yet start has its instance fenced, its job
\* dead or alive.
LoadedIsFenced ==
  \A j \in Jobs \ GoDriven : helper[j] \in {"pending", "running"} => Target[j] \in fenced

IsolatedByKeepers ==
  /\ \A i \in isolated : i \in fenced /\ \E j \in KeepFenced : Target[j] = i
  /\ \A j \in Jobs : pc[j] \in {"unfence", "unfencePatch"} => j \notin KeepFenced

JobInv ==
  /\ LockCovers /\ SeenIsCurrent /\ FencedThroughout /\ OffThroughout
  /\ HelperHoldsVolume /\ ReadersLeaveWhole /\ WorkIsOfItsKind /\ WholeOnceDone
  /\ BrokenIsFenced /\ LoadedIsFenced /\ IsolatedByKeepers /\ NeverStartsHalfWritten

-----------------------------------------------------------------------------
\* Run's state, the cluster's and the volumes' stay in their types.
THEOREM JobTyped == Spec => []TypeOK
<1>1. Init => TypeOK
  BY JobAssumption DEF Init, TypeOK
<1>2. TypeOK /\ [Next]_vars => TypeOK'
  <2> SUFFICES ASSUME TypeOK, [Next]_vars PROVE TypeOK'
    OBVIOUS
  <2> USE JobAssumption DEF TypeOK, Running, Over, Goto, Fail, Ambiguous
  <2>1. ASSUME NEW j \in Jobs, Start(j) PROVE TypeOK'
    BY <2>1 DEF Start, locals, cluster, volumes
  <2>2. ASSUME NEW j \in Jobs, Fence(j) PROVE TypeOK'
    BY <2>2 DEF Fence, cluster, volumes
  <2>3. ASSUME NEW j \in Jobs, FencePatch(j) PROVE TypeOK'
    BY <2>3 DEF FencePatch, volumes
  <2>4. ASSUME NEW j \in Jobs, Disable(j) PROVE TypeOK'
    <3>1. reconcile' \in {"enabled", "disabled"}
      BY <2>4 DEF Disable
    <3>2. pc' \in [Jobs -> {"idle"} \cup Running \cup Over] /\ result' \in [Jobs -> {"none", "ok", "error"}]
      BY <2>4 DEF Disable
    <3> QED
      BY <2>4, <3>1, <3>2 DEF Disable, volumes
  <2>5. ASSUME NEW j \in Jobs, CreateHelper(j) PROVE TypeOK'
    <3>1. helper' \in [Jobs -> {"none", "pending", "running", "succeeded", "failed"}]
      BY <2>5 DEF CreateHelper
    <3>2. pc' \in [Jobs -> {"idle"} \cup Running \cup Over] /\ result' \in [Jobs -> {"none", "ok", "error"}]
          /\ helperCreated' \subseteq Jobs
      BY <2>5 DEF CreateHelper
    <3> QED
      BY <2>5, <3>1, <3>2 DEF CreateHelper, cluster
  <2>6. ASSUME NEW j \in Jobs, PollAcquire(j) \/ Acquired(j) \/ NotAcquired(j) PROVE TypeOK'
    BY <2>6 DEF PollAcquire, Acquired, NotAcquired, locals, cluster, volumes
  <2>7. ASSUME NEW j \in Jobs, BeginCallback(j) \/ EndCallback(j) PROVE TypeOK'
    BY <2>7 DEF BeginCallback, EndCallback, locals, cluster
  <2>8. ASSUME NEW j \in Jobs, SeeSucceeded(j) \/ WorkFails(j) PROVE TypeOK'
    BY <2>8 DEF SeeSucceeded, WorkFails, locals, cluster, volumes
  <2>9. ASSUME NEW j \in Jobs, DropHelper(j) PROVE TypeOK'
    BY <2>9 DEF DropHelper, cluster
  <2>10. ASSUME NEW j \in Jobs, Enable(j) PROVE TypeOK'
    <3>1. reconcile' \in {"enabled", "disabled"} /\ reconcileDisabled' \subseteq Jobs
      BY <2>10 DEF Enable
    <3>2. pc' \in [Jobs -> {"idle"} \cup Running \cup Over] /\ result' \in [Jobs -> {"none", "ok", "error"}]
          /\ isolated' \subseteq Instances
      BY <2>10 DEF Enable
    <3> QED
      BY <2>10, <3>1, <3>2 DEF Enable, volumes
  <2>11. ASSUME NEW j \in Jobs, Unfence(j) PROVE TypeOK'
    BY <2>11 DEF Unfence, cluster, volumes
  <2>12. ASSUME NEW j \in Jobs, UnfencePatch(j) PROVE TypeOK'
    BY <2>12 DEF UnfencePatch, volumes
  <2>13. ASSUME NEW j \in Jobs, Cleanup(j) PROVE TypeOK'
    BY <2>13 DEF Cleanup, locals, cluster
  <2>14. ASSUME NEW j \in Jobs, Restore(j) PROVE TypeOK'
    <3>1. pc' \in [Jobs -> {"idle"} \cup Running \cup Over]
      BY <2>14 DEF Restore
    <3>2. attempts' \in [Jobs -> 0..MaxAttempts]
      BY <2>14 DEF Restore
    <3>3. reconcile' \in {"enabled", "disabled"} /\ reconcileDisabled' \subseteq Jobs
      BY <2>14 DEF Restore
    <3> QED
      BY <2>14, <3>1, <3>2, <3>3 DEF Restore, volumes
  <2>15. ASSUME NEW j \in Jobs, Release(j) \/ Crash(j) PROVE TypeOK'
    BY <2>15 DEF Release, Crash, locals, cluster, volumes
  <2>16. ASSUME NEW j \in Jobs, HelperStarts(j) \/ HelperEnds(j) PROVE TypeOK'
    BY <2>16 DEF HelperStarts, HelperEnds, locals, cluster
  <2>17. ASSUME NEW i \in Instances, OperatorActs(i) \/ PodDies(i) PROVE TypeOK'
    BY <2>17 DEF OperatorActs, PodDies, PodState, locals, cluster
  <2>18. CASE UNCHANGED vars
    BY <2>18 DEF vars, locals, cluster, volumes
  <2> QED
    BY <2>1, <2>2, <2>3, <2>4, <2>5, <2>6, <2>7, <2>8, <2>9, <2>10, <2>11, <2>12, <2>13,
       <2>14, <2>15, <2>16, <2>17, <2>18 DEF Next, Step
<1> QED
  BY <1>1, <1>2, PTL DEF Spec

-----------------------------------------------------------------------------
\* At the beginning no job has touched anything.
LEMMA JobInvInit == Init => JobInv
  BY JobAssumption
  DEF Init, JobInv, LockCovers, SeenIsCurrent, FencedThroughout, OffThroughout,
      HelperHoldsVolume, ReadersLeaveWhole, WorkIsOfItsKind, WholeOnceDone, BrokenIsFenced, LoadedIsFenced,
      IsolatedByKeepers, NeverStartsHalfWritten, Running

\* What a job under the lock relies on, nobody takes away.
LEMMA JobInvNext ==
  ASSUME Disciplined, TypeOK, JobInv, [Next]_vars
  PROVE  JobInv'
<1> USE JobAssumption DEF Disciplined, TypeOK, JobInv, LockCovers, SeenIsCurrent,
      FencedThroughout, OffThroughout, HelperHoldsVolume, ReadersLeaveWhole, WorkIsOfItsKind, WholeOnceDone,
      BrokenIsFenced, LoadedIsFenced, IsolatedByKeepers, NeverStartsHalfWritten, Running,
      Goto, Fail, Ambiguous
<1>1. ASSUME NEW j \in Jobs, Start(j) PROVE JobInv'
  BY <1>1 DEF Start, locals, cluster, volumes
<1>2. ASSUME NEW j \in Jobs, Fence(j) PROVE JobInv'
  BY <1>2 DEF Fence, cluster, volumes
<1>3. ASSUME NEW j \in Jobs, FencePatch(j) PROVE JobInv'
  BY <1>3 DEF FencePatch, volumes
<1>4. ASSUME NEW j \in Jobs, Disable(j) PROVE JobInv'
  BY <1>4 DEF Disable, volumes
<1>5. ASSUME NEW j \in Jobs, CreateHelper(j) PROVE JobInv'
  BY <1>5 DEF CreateHelper, cluster
<1>6. ASSUME NEW j \in Jobs, PollAcquire(j) \/ Acquired(j) \/ NotAcquired(j) PROVE JobInv'
  BY <1>6 DEF PollAcquire, Acquired, NotAcquired, locals, cluster, volumes
<1>7. ASSUME NEW j \in Jobs, BeginCallback(j) \/ EndCallback(j) PROVE JobInv'
  BY <1>7 DEF BeginCallback, EndCallback, locals, cluster
<1>8. ASSUME NEW j \in Jobs, SeeSucceeded(j) \/ WorkFails(j) PROVE JobInv'
  BY <1>8 DEF SeeSucceeded, WorkFails, locals, cluster, volumes
<1>9. ASSUME NEW j \in Jobs, DropHelper(j) PROVE JobInv'
  BY <1>9 DEF DropHelper, cluster
<1>10. ASSUME NEW j \in Jobs, Enable(j) PROVE JobInv'
  BY <1>10 DEF Enable, volumes
<1>11. ASSUME NEW j \in Jobs, Unfence(j) PROVE JobInv'
  BY <1>11 DEF Unfence, cluster, volumes
<1>12. ASSUME NEW j \in Jobs, UnfencePatch(j) PROVE JobInv'
  BY <1>12 DEF UnfencePatch, volumes
<1>13. ASSUME NEW j \in Jobs, Cleanup(j) PROVE JobInv'
  BY <1>13 DEF Cleanup, locals, cluster
<1>14. ASSUME NEW j \in Jobs, Restore(j) PROVE JobInv'
  BY <1>14 DEF Restore, volumes
<1>15. ASSUME NEW j \in Jobs, Release(j) \/ Crash(j) PROVE JobInv'
  BY <1>15 DEF Release, Crash, locals, cluster, volumes
<1>16. ASSUME NEW j \in Jobs, HelperStarts(j) PROVE JobInv'
  BY <1>16 DEF HelperStarts, VolumeFree, locals, cluster
<1>17. ASSUME NEW j \in Jobs, HelperEnds(j) PROVE JobInv'
  BY <1>17 DEF HelperEnds, locals, cluster
<1>18. ASSUME NEW i \in Instances, OperatorActs(i) \/ PodDies(i) PROVE JobInv'
  BY <1>18 DEF OperatorActs, PodDies, PodState, VolumeFree, locals, cluster
<1>19. CASE UNCHANGED vars
  BY <1>19 DEF vars, locals, cluster, volumes
<1> QED
  BY <1>1, <1>2, <1>3, <1>4, <1>5, <1>6, <1>7, <1>8, <1>9, <1>10, <1>11, <1>12, <1>13,
     <1>14, <1>15, <1>16, <1>17, <1>18, <1>19 DEF Next, Step

-----------------------------------------------------------------------------
(* The theorems *)

\* Under the lock and with distinct targets the strengthened invariant holds.
THEOREM JobInvariant == ASSUME Disciplined PROVE Spec => []JobInv
<1>1. TypeOK /\ JobInv /\ [Next]_vars => JobInv'
  BY JobInvNext
<1> QED
  BY <1>1, JobInvInit, JobTyped, PTL DEF Spec

\* While a helper works on a volume the operator is off, the instance fenced
\* and its pod gone.
THEOREM JobHandoffExclusive == ASSUME Disciplined PROVE Spec => []HandoffExclusive
<1>1. JobInv => HandoffExclusive
  BY DEF JobInv, HandoffExclusive, OffThroughout, FencedThroughout, HelperHoldsVolume
<1> QED
  BY <1>1, JobInvariant, PTL

\* Postgres never starts on a datadir a failed job left half written.
THEOREM JobNeverStartsHalfWritten == ASSUME Disciplined PROVE Spec => []NeverStartsHalfWritten
<1>1. JobInv => NeverStartsHalfWritten
  BY DEF JobInv
<1> QED
  BY <1>1, JobInvariant, PTL

\* What KeepFenced isolated, no other job hands back to the operator.
THEOREM JobIsolationKept == ASSUME Disciplined PROVE Spec => []IsolationKept
<1>1. JobInv => IsolationKept
  BY DEF JobInv, IsolatedByKeepers, IsolationKept
<1> QED
  BY <1>1, JobInvariant, PTL

\* Run reports success only of a whole datadir, fenced as the caller asked.
THEOREM JobOkIsHonest == ASSUME Disciplined PROVE Spec => OkIsHonest
<1>1. ASSUME Disciplined, TypeOK, JobInv, [Next]_vars, NEW j \in Jobs,
             result[j] # "ok", result'[j] = "ok"
      PROVE  data'[Target[j]] = "good" /\ ((Target[j] \in fenced') <=> (j \in KeepFenced))
  <2> USE <1>1 DEF TypeOK, JobInv, Goto, Fail
  <2>1. PICK k \in Jobs : Enable(k) \/ UnfencePatch(k)
    <3>1. ASSUME NEW k \in Jobs, Start(k) \/ Fence(k) \/ FencePatch(k) \/ Disable(k) \/ CreateHelper(k)
          PROVE  FALSE
      BY <3>1 DEF Start, Fence, FencePatch, Disable, CreateHelper, locals
    <3>2. ASSUME NEW k \in Jobs, PollAcquire(k) \/ Acquired(k) \/ NotAcquired(k) \/ BeginCallback(k)
                 \/ EndCallback(k) \/ SeeSucceeded(k) \/ WorkFails(k) \/ DropHelper(k) \/ Unfence(k)
          PROVE  FALSE
      BY <3>2 DEF PollAcquire, Acquired, NotAcquired, BeginCallback, EndCallback, SeeSucceeded,
                  WorkFails, DropHelper, Unfence, locals
    <3>3. ASSUME NEW k \in Jobs, Cleanup(k) \/ Restore(k) \/ Release(k) \/ Crash(k)
                 \/ HelperStarts(k) \/ HelperEnds(k)
          PROVE  FALSE
      BY <3>3 DEF Cleanup, Restore, Release, Crash, HelperStarts, HelperEnds, locals
    <3>4. ASSUME NEW i \in Instances, OperatorActs(i) \/ PodDies(i) PROVE FALSE
      BY <3>4 DEF OperatorActs, PodDies, locals
    <3>5. ~ UNCHANGED vars
      BY DEF vars, locals
    <3> QED
      BY <1>1, <3>1, <3>2, <3>3, <3>4, <3>5 DEF Next, Step
  <2>2. CASE Enable(k)
    <3>1. k = j /\ j \in KeepFenced
      BY <2>2 DEF Enable
    <3> QED
      BY <2>2, <3>1 DEF Enable, volumes, WholeOnceDone, FencedThroughout
  <2>3. CASE UnfencePatch(k)
    <3>1. k = j /\ fenced' = seen[j] \ {Target[j]}
      BY <2>3 DEF UnfencePatch
    <3> QED
      BY <2>3, <3>1 DEF UnfencePatch, volumes, WholeOnceDone, IsolatedByKeepers
  <2> QED
    BY <2>1, <2>2, <2>3
<1>2. TypeOK /\ JobInv /\ [Next]_vars =>
        [\A j \in Jobs : (result[j] # "ok" /\ result'[j] = "ok") =>
           /\ data'[Target[j]] = "good"
           /\ (Target[j] \in fenced') <=> (j \in KeepFenced)]_vars
  BY <1>1
<1> QED
  BY <1>2, JobTyped, JobInvariant, PTL DEF Spec, OkIsHonest

-----------------------------------------------------------------------------
\* A job that leaves Run without switching reconciliation back on has used up
\* its attempts.
ArmedUntilRestored ==
  \A j \in Jobs :
    /\ pc[j] \in {"idle", "fence", "fencePatch", "disable"} => j \notin reconcileDisabled
    /\ pc[j] \in {"release", "done"} => j \notin reconcileDisabled \/ attempts[j] = MaxAttempts

AnswerInv == ArmedUntilRestored /\ OperatorNotForgotten

\* A restore is armed before the operator is disabled, until it is known to have worked.
LEMMA AnswerNext ==
  ASSUME TypeOK, AnswerInv, [Next]_vars
  PROVE  AnswerInv'
<1> USE JobAssumption DEF TypeOK, AnswerInv, ArmedUntilRestored, OperatorNotForgotten, Running,
        Goto, Fail, Ambiguous
<1>1. ASSUME NEW j \in Jobs, Start(j) \/ Fence(j) \/ FencePatch(j) PROVE AnswerInv'
  BY <1>1 DEF Start, Fence, FencePatch, locals, cluster
<1>2. ASSUME NEW j \in Jobs, Disable(j) PROVE AnswerInv'
  BY <1>2 DEF Disable
<1>3. ASSUME NEW j \in Jobs, CreateHelper(j) \/ PollAcquire(j) \/ Acquired(j) \/ NotAcquired(j)
      PROVE AnswerInv'
  BY <1>3 DEF CreateHelper, PollAcquire, Acquired, NotAcquired, locals, cluster
<1>4. ASSUME NEW j \in Jobs, BeginCallback(j) \/ EndCallback(j) \/ SeeSucceeded(j) \/ WorkFails(j)
      PROVE AnswerInv'
  BY <1>4 DEF BeginCallback, EndCallback, SeeSucceeded, WorkFails, locals, cluster
<1>5. ASSUME NEW j \in Jobs, DropHelper(j) PROVE AnswerInv'
  BY <1>5 DEF DropHelper, cluster
<1>6. ASSUME NEW j \in Jobs, Enable(j) PROVE AnswerInv'
  BY <1>6 DEF Enable
<1>7. ASSUME NEW j \in Jobs, Unfence(j) \/ UnfencePatch(j) PROVE AnswerInv'
  BY <1>7 DEF Unfence, UnfencePatch, cluster
<1>8. ASSUME NEW j \in Jobs, Cleanup(j) \/ Release(j) \/ Crash(j) PROVE AnswerInv'
  BY <1>8 DEF Cleanup, Release, Crash, locals, cluster
<1>9. ASSUME NEW j \in Jobs, Restore(j) PROVE AnswerInv'
  BY <1>9 DEF Restore
<1>10. ASSUME NEW j \in Jobs, HelperStarts(j) \/ HelperEnds(j) PROVE AnswerInv'
  BY <1>10 DEF HelperStarts, HelperEnds, locals, cluster
<1>11. ASSUME NEW i \in Instances, OperatorActs(i) \/ PodDies(i) PROVE AnswerInv'
  BY <1>11 DEF OperatorActs, PodDies, locals, cluster
<1>12. CASE UNCHANGED vars
  BY <1>12 DEF vars, locals, cluster
<1> QED
  BY <1>1, <1>2, <1>3, <1>4, <1>5, <1>6, <1>7, <1>8, <1>9, <1>10, <1>11, <1>12 DEF Next, Step

\* With or without the lock, a switched-off operator has a job answerable for it.
THEOREM JobOperatorNotForgotten == Spec => []OperatorNotForgotten
<1>1. Init => AnswerInv
  BY DEF Init, AnswerInv, ArmedUntilRestored, OperatorNotForgotten
<1>2. TypeOK /\ AnswerInv /\ [Next]_vars => AnswerInv'
  BY AnswerNext
<1>3. AnswerInv => OperatorNotForgotten
  BY DEF AnswerInv
<1> QED
  BY <1>1, <1>2, <1>3, JobTyped, PTL DEF Spec

-----------------------------------------------------------------------------
(* The lock as the jobs see it *)

Locking == INSTANCE ExclusiveOperation WITH Ops <- Jobs, active <- {j \in Jobs : pc[j] \in Running}

\* A job under way goes from one running state to the next, or ends.
LEMMA JobStepRefines ==
  ASSUME Locked = Jobs, TypeOK, LockCovers, [Next]_vars
  PROVE  [Locking!Next]_{j \in Jobs : pc[j] \in Running}
<1> DEFINE A == {j \in Jobs : pc[j] \in Running}
<1> USE JobAssumption DEF TypeOK, Goto, Fail
<1>1. ASSUME NEW j \in Jobs, Start(j) PROVE Locking!Begin(j)
  <2>1. owner = NoJob /\ pc' = [pc EXCEPT ![j] = "fence"]
    BY <1>1 DEF Start
  <2>2. A = {}
    BY <2>1 DEF LockCovers
  <2>3. A' = {j}
    BY <2>1, <2>2 DEF Running
  <2> QED
    BY <2>2, <2>3 DEF Locking!Begin
<1>2. ASSUME NEW j \in Jobs, NEW l \in Over, pc[j] \in Running, pc' = [pc EXCEPT ![j] = l]
      PROVE  Locking!End(j)
  <2>1. j \in A /\ A' = A \ {j}
    BY <1>2 DEF Running, Over
  <2> QED
    BY <2>1 DEF Locking!End
<1>3. ASSUME NEW j \in Jobs, NEW l \in Running, pc[j] \in Running, pc' = [pc EXCEPT ![j] = l]
      PROVE  UNCHANGED A
  BY <1>3
<1>4. ASSUME pc' = pc PROVE UNCHANGED A
  BY <1>4
<1>5. ASSUME NEW j \in Jobs, Fence(j) \/ FencePatch(j) \/ Disable(j) \/ CreateHelper(j) \/ Acquired(j)
                             \/ NotAcquired(j)
      PROVE  UNCHANGED A
  BY <1>3, <1>5 DEF Fence, FencePatch, Disable, CreateHelper, Acquired, NotAcquired, Running
<1>6. ASSUME NEW j \in Jobs, BeginCallback(j) \/ EndCallback(j) \/ SeeSucceeded(j) \/ WorkFails(j)
                             \/ DropHelper(j) \/ Enable(j)
      PROVE  UNCHANGED A
  BY <1>3, <1>6 DEF BeginCallback, EndCallback, SeeSucceeded, WorkFails, DropHelper, Enable, Running
<1>7. ASSUME NEW j \in Jobs, Unfence(j) \/ UnfencePatch(j) \/ Cleanup(j) \/ Restore(j)
      PROVE  UNCHANGED A
  BY <1>3, <1>7 DEF Unfence, UnfencePatch, Cleanup, Restore, Running
<1>8. ASSUME NEW j \in Jobs, Release(j) \/ Crash(j) PROVE Locking!End(j)
  BY <1>2, <1>8 DEF Release, Crash, Running, Over
<1>9. ASSUME NEW j \in Jobs, PollAcquire(j) \/ HelperStarts(j) \/ HelperEnds(j) PROVE UNCHANGED A
  BY <1>4, <1>9 DEF PollAcquire, HelperStarts, HelperEnds
<1>10. ASSUME NEW i \in Instances, OperatorActs(i) \/ PodDies(i) PROVE UNCHANGED A
  BY <1>4, <1>10 DEF OperatorActs, PodDies
<1>11. CASE UNCHANGED vars
  BY <1>4, <1>11 DEF vars
<1> QED
  BY <1>1, <1>5, <1>6, <1>7, <1>8, <1>9, <1>10, <1>11 DEF Next, Step, Locking!Next

\* What the lock covers it covers to the end, whatever else the jobs share.
LEMMA LockCoversNext ==
  ASSUME Locked = Jobs, TypeOK, LockCovers, [Next]_vars
  PROVE  LockCovers'
<1> USE JobAssumption DEF TypeOK, LockCovers, Goto, Fail
<1>1. ASSUME NEW j \in Jobs, Start(j) \/ Release(j) \/ Crash(j) PROVE LockCovers'
  BY <1>1 DEF Start, Release, Crash, Running
<1>2. ASSUME NEW j \in Jobs, pc[j] \in Running, owner' = owner,
             pc' = pc \/ \E l \in Running : pc' = [pc EXCEPT ![j] = l]
      PROVE  LockCovers'
  BY <1>2
<1>3. ASSUME UNCHANGED <<pc, owner>> PROVE LockCovers'
  BY <1>3
<1>4. ASSUME NEW j \in Jobs, Fence(j) \/ FencePatch(j) \/ Disable(j) \/ CreateHelper(j) \/ Acquired(j)
                             \/ NotAcquired(j)
      PROVE  LockCovers'
  BY <1>2, <1>4 DEF Fence, FencePatch, Disable, CreateHelper, Acquired, NotAcquired, Running
<1>5. ASSUME NEW j \in Jobs, BeginCallback(j) \/ EndCallback(j) \/ SeeSucceeded(j) \/ WorkFails(j)
                             \/ DropHelper(j) \/ Enable(j)
      PROVE  LockCovers'
  BY <1>2, <1>5 DEF BeginCallback, EndCallback, SeeSucceeded, WorkFails, DropHelper, Enable, Running
<1>6. ASSUME NEW j \in Jobs, Unfence(j) \/ UnfencePatch(j) \/ Cleanup(j) \/ Restore(j)
      PROVE  LockCovers'
  BY <1>2, <1>6 DEF Unfence, UnfencePatch, Cleanup, Restore, Running
<1>7. ASSUME NEW j \in Jobs, PollAcquire(j) \/ HelperStarts(j) \/ HelperEnds(j) PROVE LockCovers'
  BY <1>3, <1>7 DEF PollAcquire, HelperStarts, HelperEnds
<1>8. ASSUME NEW i \in Instances, OperatorActs(i) \/ PodDies(i) PROVE LockCovers'
  BY <1>3, <1>8 DEF OperatorActs, PodDies
<1>9. CASE UNCHANGED vars
  BY <1>3, <1>9 DEF vars
<1> QED
  BY <1>1, <1>4, <1>5, <1>6, <1>7, <1>8, <1>9 DEF Next, Step

\* Jobs of callers that all take the cluster lock, whatever their targets, implement the
\* same exclusive operation that the lease implements: no step of Run falls inside
\* another job's.
THEOREM JobsTakeTurns == ASSUME Locked = Jobs PROVE Spec => Locking!Spec
<1>1. Init => Locking!Init
  BY DEF Init, Locking!Init, Running
<1>2. Init => LockCovers
  BY DEF Init, LockCovers, Running
<1>3. TypeOK /\ LockCovers /\ [Next]_vars => LockCovers'
  BY LockCoversNext
<1>4. TypeOK /\ LockCovers /\ [Next]_vars => [Locking!Next]_{j \in Jobs : pc[j] \in Running}
  BY JobStepRefines
<1> QED
  BY <1>1, <1>2, <1>3, <1>4, JobTyped, PTL DEF Spec, Locking!Spec
=============================================================================
