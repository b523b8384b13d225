------------------------------ MODULE Scheduler ------------------------------
(***************************************************************************)
(* The operator mode: a reconciler that keeps the schedule of each         *)
(* database in step with its annotations and its BackupPolicy              *)
(* (controller/database_controller.go), the cron scheduler it feeds        *)
(* (controller/scheduler.go) and the jobs cron fires                       *)
(* (controller/triage_scheduler.go, controller/backup_scheduler.go).       *)
(* All of the operator's state is in memory; a restart begins again.       *)
(***************************************************************************)
EXTENDS Naturals, Sequences

CONSTANTS
  Databases,
  Engine,      \* the engine of each database: one reconcile at a time each
  Policies,    \* names of BackupPolicy resources
  Specs,       \* contents a policy may have
  Resources,   \* contents a database resource's annotations may have
  Slots,       \* bound: jobs running at a time
  MaxChanges,  \* bound: edits, restarts and failed reads
  None         \* no resource, no policy, no schedule entry, no job

Fields == {"backup", "triage", "mode", "repos", "timeout"}

\* A cron expression counts only by its number of fields.
Schedules == {"", "five", "six"}

\* The names say "schedule" where ClusterLease and OfflineJob have plain ones: one
\* module of proofs is about all three.
VARIABLES
  resource,    \* the annotations of each database resource, or None
  policy,      \* the spec of each policy, or None
  queue,       \* databases waiting to be reconciled
  fetched,     \* what a reconcile under way has read of its resource, or None
  managed,     \* the scheduler's entry of each database, or None
  cron,        \* what cron is going to fire
  jobs,        \* the jobs under way
  changes

world        == <<resource, policy>>
scheduler    == <<managed, cron>>
scheduleVars == <<world, queue, fetched, scheduler, jobs, changes>>

-----------------------------------------------------------------------------
(* Configuration *)

OptedIn(r) == r # None /\ r.policy # None /\ ~r.excluded

\* ParseAnnotations: the policy's fields, each overridden by an annotation.
Effective(r, spec) ==
  [f \in Fields |-> IF f \in DOMAIN r.override THEN r.override[f] ELSE spec[f]]

Configs == {Effective(r, s) : r \in Resources, s \in Specs}

\* The scheduler's cron wants a field for the seconds.
Parses(schedule) == schedule = "six"

Wanted(schedule, cfg) == schedule # "" /\ cfg.mode # "disabled"

\* What Register compares; the other fields are "updated in place".
SameSchedule(c1, c2) == \A f \in {"backup", "triage", "mode", "repos"} : c1[f] = c2[f]

\* The jobs of a configuration: a backup per repository, and the triage.
Backups(cfg) == {cfg.repos[i] : i \in DOMAIN cfg.repos}

JobsOf(cfg) ==
  {r \in Backups(cfg) : Wanted(cfg.backup, cfg) /\ Parses(cfg.backup)}
    \cup {t \in {"triage"} : Wanted(cfg.triage, cfg) /\ Parses(cfg.triage)}

\* A cron entry holds the configuration its closure captured.
Entries(d, cfg) == {[db |-> d, job |-> j, cfg |-> cfg] : j \in JobsOf(cfg)}

AllEntries == UNION {Entries(d, cfg) : d \in Databases, cfg \in Configs}

\* What the scheduler keeps of a database, and of a call that cron has started.
Managed == [cfg : Configs, entries : SUBSET AllEntries]
Calls == [entry : AllEntries, step : {"run", "repair"}]

ASSUME SchedulerAssumption ==
  /\ Engine \in [Databases -> {"cnpg", "galera"}]
  /\ MaxChanges \in Nat
  /\ \A s \in Specs : DOMAIN s = Fields /\ s.backup \in Schedules /\ s.triage \in Schedules
  /\ \A r \in Resources : /\ r.policy \in Policies \cup {None}
                          /\ r.excluded \in BOOLEAN
                          /\ DOMAIN r.override \subseteq Fields
  /\ None \notin Specs \cup Resources \cup Policies
  /\ None \notin Managed /\ None \notin Calls

ScheduleTypeOK ==
  /\ resource \in [Databases -> Resources \cup {None}]
  /\ policy \in [Policies -> Specs \cup {None}]
  /\ queue \subseteq Databases
  /\ fetched \in [Databases -> Resources \cup {None}]
  /\ \A d \in Databases : fetched[d] # None => OptedIn(fetched[d])
  /\ managed \in [Databases -> Managed \cup {None}]
  /\ cron \subseteq AllEntries
  /\ jobs \in [Slots -> Calls \cup {None}]
  /\ \A s \in Slots : jobs[s] # None /\ jobs[s].step = "repair" =>
       jobs[s].entry.job = "triage" /\ jobs[s].entry.cfg.mode = "repair"
  /\ changes \in 0..MaxChanges

Fresh ==
  /\ fetched = [d \in Databases |-> None]
  /\ managed = [d \in Databases |-> None]
  /\ cron = {}
  /\ jobs = [s \in Slots |-> None]

Existing == {d \in Databases : resource[d] # None}

ScheduleInit ==
  /\ resource \in [Databases -> Resources \cup {None}]
  /\ policy \in [Policies -> Specs \cup {None}]
  /\ queue = Existing
  /\ Fresh
  /\ changes = 0

-----------------------------------------------------------------------------
(* The scheduler: both run under its mutex *)

Deregister(d) ==
  /\ managed' = [managed EXCEPT ![d] = None]
  /\ cron' = IF managed[d] = None THEN cron ELSE cron \ managed[d].entries

\* Mutant: a database that is registered is left as it is.
RegisterOnce(d, cfg) ==
  IF managed[d] # None
  THEN UNCHANGED scheduler
  ELSE /\ managed' = [managed EXCEPT ![d] = [cfg |-> cfg, entries |-> Entries(d, cfg)]]
       /\ cron' = cron \cup Entries(d, cfg)

\* Mutant: the entries of the old schedule stay in cron beside the new ones.
RegisterTwice(d, cfg) ==
  IF managed[d] # None /\ SameSchedule(managed[d].cfg, cfg)
  THEN /\ managed' = [managed EXCEPT ![d].cfg = cfg]
       /\ UNCHANGED cron
  ELSE /\ managed' = [managed EXCEPT ![d] = [cfg |-> cfg, entries |-> Entries(d, cfg)]]
       /\ cron' = cron \cup Entries(d, cfg)

Register(d, cfg) ==
  IF managed[d] # None /\ SameSchedule(managed[d].cfg, cfg)
  THEN /\ managed' = [managed EXCEPT ![d].cfg = cfg]
       /\ UNCHANGED cron
  ELSE /\ managed' = [managed EXCEPT ![d] = [cfg |-> cfg, entries |-> Entries(d, cfg)]]
       /\ cron' = (IF managed[d] = None THEN cron ELSE cron \ managed[d].entries)
                    \cup Entries(d, cfg)

-----------------------------------------------------------------------------
(* Reconcile *)

\* It reads the resource; one that is gone, has no policy or is excluded is
\* deregistered.
ReadResource(d) ==
  /\ d \in queue
  /\ \A e \in Databases : Engine[e] = Engine[d] => fetched[e] = None
  /\ queue' = queue \ {d}
  /\ IF OptedIn(resource[d])
     THEN fetched' = [fetched EXCEPT ![d] = resource[d]] /\ UNCHANGED scheduler
     ELSE Deregister(d) /\ UNCHANGED fetched
  /\ UNCHANGED <<world, jobs, changes>>

\* It reads the policy and registers; where the user's resource lacks the
\* "managed" annotation, patching it brings the resource back into the queue.
ReadPolicy(d) ==
  /\ fetched[d] # None /\ policy[fetched[d].policy] # None
  /\ Register(d, Effective(fetched[d], policy[fetched[d].policy]))
  /\ fetched' = [fetched EXCEPT ![d] = None]
  /\ \/ queue' = queue \cup ({d} \cap Existing)
     \/ UNCHANGED queue
  /\ UNCHANGED <<world, jobs, changes>>

\* No policy by that name, or an error reading it: nothing is done, and nothing
\* brings the resource back.
PolicyUnread(d) ==
  /\ fetched[d] # None
  /\ \/ policy[fetched[d].policy] = None /\ UNCHANGED changes
     \/ changes < MaxChanges /\ changes' = changes + 1
  /\ fetched' = [fetched EXCEPT ![d] = None]
  /\ UNCHANGED <<world, queue, scheduler, jobs>>

-----------------------------------------------------------------------------
(* The jobs.  They use the configuration captured in the entry that fired,   *)
(* whatever has become of it since.                                          *)

Cfg(s) == jobs[s].entry.cfg
Finish(s) == jobs' = [jobs EXCEPT ![s] = None]

\* A status annotation is an update of the resource, which reconciles it.
Annotate(d) == queue' = queue \cup ({d} \cap Existing)

\* Cron starts an entry's function each time it is due, in a goroutine of its
\* own, whether or not its last call has ended.
Fire(s, e) ==
  /\ jobs[s] = None
  /\ jobs' = [jobs EXCEPT ![s] = [entry |-> e, step |-> "run"]]
  /\ UNCHANGED <<world, queue, fetched, scheduler, changes>>

\* The credentials, the engine or the cluster are missing, or triage fails:
\* the job ends and leaves no trace.
GiveUp(s) ==
  /\ jobs[s] # None
  /\ Finish(s)
  /\ UNCHANGED <<world, queue, fetched, scheduler, changes>>

\* Mutant: the job triages again after its repair, until all is healthy.
CompleteAgain(s) ==
  /\ jobs[s] # None
  /\ jobs[s].entry.job # "triage" \/ jobs[s].step = "repair"
  /\ Annotate(jobs[s].entry.db)
  /\ IF jobs[s].step = "repair" THEN jobs' = [jobs EXCEPT ![s].step = "run"] ELSE Finish(s)
  /\ UNCHANGED <<world, fetched, scheduler, changes>>

\* A backup or an auto-repair, successful or not, ends with its annotation.
Complete(s) ==
  /\ jobs[s] # None
  /\ jobs[s].entry.job # "triage" \/ jobs[s].step = "repair"
  /\ Annotate(jobs[s].entry.db)
  /\ Finish(s)
  /\ UNCHANGED <<world, fetched, scheduler, changes>>

\* A triage with any verdict is annotated; only "unhealthy", and neither
\* "healthy" nor "split-brain", is repaired.
Triaged(s, verdict) ==
  /\ jobs[s] # None /\ jobs[s].entry.job = "triage" /\ jobs[s].step = "run"
  /\ Annotate(jobs[s].entry.db)
  /\ IF verdict = "unhealthy" /\ Cfg(s).mode = "repair" /\ Cfg(s).repos # <<>>
     THEN jobs' = [jobs EXCEPT ![s].step = "repair"]
     ELSE Finish(s)
  /\ UNCHANGED <<world, fetched, scheduler, changes>>

-----------------------------------------------------------------------------
(* The environment *)

Change == changes < MaxChanges /\ changes' = changes + 1

\* A user edits, creates or deletes a database resource: an event of its watch.
EditResource(d, r) ==
  /\ Change
  /\ r # resource[d]
  /\ resource' = [resource EXCEPT ![d] = r]
  /\ queue' = queue \cup {d}
  /\ UNCHANGED <<policy, fetched, scheduler, jobs>>

\* A user edits a policy; nobody watches policies.
EditPolicy(p, spec) ==
  /\ Change
  /\ spec # policy[p]
  /\ policy' = [policy EXCEPT ![p] = spec]
  /\ UNCHANGED <<resource, queue, fetched, scheduler, jobs>>

\* The watch replays every resource now and then.
Resync ==
  /\ queue' = queue \cup Existing
  /\ UNCHANGED <<world, fetched, scheduler, jobs, changes>>

\* The operator's pod restarts; the first listing queues every resource.
Restart ==
  /\ Change
  /\ managed' = [d \in Databases |-> None]
  /\ fetched' = [d \in Databases |-> None]
  /\ cron' = {}
  /\ jobs' = [s \in Slots |-> None]
  /\ queue' = Existing
  /\ UNCHANGED world

Reconcile(d) == ReadResource(d) \/ ReadPolicy(d) \/ PolicyUnread(d)

Job(s) == GiveUp(s) \/ Complete(s) \/ \E v \in {"healthy", "unhealthy", "split-brain"} : Triaged(s, v)

ScheduleNext ==
  \/ \E d \in Databases : Reconcile(d)
  \/ \E s \in Slots : Job(s) \/ \E e \in cron : Fire(s, e)
  \/ \E d \in Databases, r \in Resources \cup {None} : EditResource(d, r)
  \/ \E p \in Policies, spec \in Specs \cup {None} : EditPolicy(p, spec)
  \/ Resync \/ Restart

ScheduleSpec == ScheduleInit /\ [][ScheduleNext]_scheduleVars

\* The work queue is first in, first out (hence SF, on a queue that is a set
\* here), resyncs come for ever, and every job ends (its waits are bounded).
ScheduleFairSpec ==
  /\ ScheduleSpec
  /\ \A d \in Databases : /\ SF_scheduleVars(ReadResource(d))
                          /\ WF_scheduleVars(ReadPolicy(d) \/ PolicyUnread(d))
  /\ \A s \in Slots : WF_scheduleVars(Job(s))
  /\ WF_scheduleVars(Resync)

-----------------------------------------------------------------------------
(* Properties *)

\* Cron fires what the registered configurations ask for, once each, and
\* nothing else: no entry outlives a change of schedule, mode or repositories,
\* or a deregistration (deregisterLocked, and the comparison in Register).
CronIsManaged ==
  /\ cron = UNION {managed[d].entries : d \in {e \in Databases : managed[e] # None}}
  /\ \A d \in Databases : managed[d] # None =>
       /\ {e.job : e \in managed[d].entries} = JobsOf(managed[d].cfg)
       /\ \A e, f \in managed[d].entries : e.job = f.job => e = f
       /\ \A e \in managed[d].entries : e.db = d /\ SameSchedule(e.cfg, managed[d].cfg)

\* When users have stopped changing things, each database ends up registered
\* under its effective configuration, or deregistered.  (One whose policy does
\* not exist keeps what it had.)
Settled(d) ==
  IF OptedIn(resource[d])
  THEN policy[resource[d].policy] # None =>
         managed[d] # None /\ managed[d].cfg = Effective(resource[d], policy[resource[d].policy])
  ELSE managed[d] = None

Settles == \A d \in Databases : <>[]Settled(d)

\* "exclude excludes the database from all operations": in the end nothing
\* runs on one that is excluded, deleted or without a policy for good.
Working(d) == \E s \in Slots : jobs[s] # None /\ jobs[s].entry.db = d

ExcludedIsLeftAlone ==
  \A d \in Databases : <>[]~OptedIn(resource[d]) => <>[]~Working(d)

\* A database under management is being looked after as its policy's
\* documentation shows: with five-field schedules too.
ManagedIsScheduled ==
  \A d \in Databases : managed[d] # None =>
    /\ Wanted(managed[d].cfg.backup, managed[d].cfg) =>
         \A r \in Backups(managed[d].cfg) : \E e \in cron : e.db = d /\ e.job = r
    /\ Wanted(managed[d].cfg.triage, managed[d].cfg) =>
         \E e \in cron : e.db = d /\ e.job = "triage"

\* A job starts with the configuration that is registered for its database.
FiresCurrent == \A e \in cron : managed[e.db].cfg = e.cfg
=============================================================================
