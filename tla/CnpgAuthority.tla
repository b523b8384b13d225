---------------------------- MODULE CnpgAuthority ----------------------------
(***************************************************************************)
(* Who holds the data of a CloudNativePG cluster: what triage concludes    *)
(* from the WAL lineages it could read (src/src/engine/triage/cnpg.go,     *)
(* cnpg_authority.go, cnpg_witness.go), and what a repair or a promotion   *)
(* may then do to an instance (src/src/engine/repair).                     *)
(*                                                                         *)
(* A position <<t, l>> is LSN l of timeline t.  Timelines fork from one    *)
(* another, and each instance is at a position of one.  Triage sees a      *)
(* checkpoint, which may be behind that, or nothing at all.                *)
(***************************************************************************)
EXTENDS Integers, Sequences, FiniteSets

CONSTANTS
  Instances,
  MaxTimeline, MaxLSN,   \* bounds on the lineages
  Flawed,                \* bound on the instances of which triage sees less than there is
  Ledgers,               \* sets of timelines whose records may be business rows, not churn
  SerialPositions,       \* does each branch number its business rows anew from the fork?
  NoPod

Timelines == 1..MaxTimeline

ASSUME LineageAssumption ==
  /\ MaxTimeline \in Nat \ {0} /\ MaxLSN \in Nat \ {0} /\ Flawed \in Nat
  /\ Ledgers \subseteq SUBSET Timelines /\ SerialPositions \in BOOLEAN
  /\ NoPod \notin Instances

VARIABLES
  parent, fork,      \* the timeline each timeline but the first left, and at which LSN
  at,                \* the end of each instance's WAL
  serving,           \* is any instance's postgres Ready?
  primary,           \* the cluster's status.currentPrimary
  pc,
  evidence,          \* what triage got of each instance
  checkpoint,        \* the position it reads there
  deep,              \* instances that deep recovery read
  witness, ledger,   \* is a witness table declared?  timelines that wrote rows of it
  live, copied,      \* instances whose table was read in place, or from a copy
  outcome, leader,
  target, force, plan

truth   == <<parent, fork, at, serving, primary>>
content == <<witness, ledger, live, copied>>
reads   == <<evidence, checkpoint, deep>>
verdict == <<outcome, leader>>
order   == <<target, force, plan>>
vars    == <<truth, pc, reads, content, verdict, order>>

Nowhere == <<0, 0>>

\* The content of <t>.history: the switches that led to timeline t, oldest first.
History ==
  LET H[t \in Timelines] ==
        IF t = 1 THEN <<>> ELSE Append(H[parent[t]], <<parent[t], fork[t]>>)
  IN  H

Start(t) == IF t = 1 THEN 0 ELSE fork[t]

Positions == {p \in Timelines \X (1..MaxLSN) : p[2] >= Start(p[1])}

\* The WAL records that timeline t began with: its parent's, up to the fork.
Inherited ==
  LET I[t \in Timelines] ==
        IF t = 1 THEN {}
        ELSE I[parent[t]] \cup {<<parent[t], m>> : m \in (Start(parent[t]) + 1)..fork[t]}
  IN  I

\* The WAL records of an instance at position p.
Wal(p) ==
  IF p = Nowhere THEN {}
  ELSE Inherited[p[1]] \cup {<<p[1], m>> : m \in (Start(p[1]) + 1)..p[2]}

\* Positions an instance at p has passed.
Passed(p) ==
  {q \in Positions : Wal(q) \subseteq Wal(p) /\ (q[1] = p[1] \/ \E i \in DOMAIN History[p[1]] :
                       History[p[1]][i][1] = q[1] /\ q[2] <= History[p[1]][i][2])}

\* A witness says which records matter; without one all do.
Weighed(S) == IF witness THEN {r \in S : r[1] \in ledger} ELSE S

Held(i) == Weighed(Wal(at[i]))

-----------------------------------------------------------------------------
(* Collection *)

ReadState(i) ==
  CASE evidence[i] = "full" -> "read"
    [] evidence[i] = "controldata" /\ checkpoint[i][1] = 1 -> "read"
    [] evidence[i] = "empty" -> "absent"
    [] OTHER -> "unread"

Readable == {i \in Instances : ReadState(i) = "read"}

Exact(i) == [evidence |-> IF at[i] = Nowhere THEN "empty" ELSE "full", checkpoint |-> at[i]]

\* What triage may get of instance i.  Each read may fail, the history's alone, too;
\* "empty" takes proof: the claim does not exist, or its data directory was listed.
Readings(i) ==
  {Exact(i), [evidence |-> "silent", checkpoint |-> Nowhere]} \cup
  IF at[i] = Nowhere THEN {}
  ELSE {[evidence |-> e, checkpoint |-> p] : e \in {"full", "controldata"}, p \in Passed(at[i])}

Collect ==
  /\ pc = "collect"
  /\ \E S \in {S \in SUBSET Instances : Cardinality(S) <= Flawed} :
       \E r \in [S -> UNION {Readings(i) : i \in S}] :
         /\ \A i \in S : r[i] \in Readings(i)
         /\ evidence' = [i \in Instances |-> IF i \in S THEN r[i].evidence ELSE Exact(i).evidence]
         /\ checkpoint' = [i \in Instances |-> IF i \in S THEN r[i].checkpoint ELSE at[i]]
  /\ pc' = "escalate"
  /\ UNCHANGED <<truth, deep, content, verdict, order>>

\* Mutant: a cluster that serves is fenced, too.
DeepRecoverLive ==
  /\ pc = "escalate"
  /\ \E S \in SUBSET {i \in Instances : evidence[i] = "silent" /\ at[i] # Nowhere} :
       /\ deep' = S
       /\ evidence' = [i \in Instances |-> IF i \in S THEN "full" ELSE evidence[i]]
       /\ checkpoint' = [i \in Instances |-> IF i \in S THEN at[i] ELSE checkpoint[i]]
  /\ pc' = "compare"
  /\ UNCHANGED <<truth, content, verdict, order>>

\* Where nothing serves, the instances with a bound claim that gave no position are
\* fenced and read offline, as far as that succeeds.
DeepRecover ==
  /\ pc = "escalate"
  /\ \E S \in SUBSET {i \in Instances : evidence[i] = "silent" /\ at[i] # Nowhere} :
       /\ serving => S = {}
       /\ deep' = S
       /\ evidence' = [i \in Instances |-> IF i \in S THEN "full" ELSE evidence[i]]
       /\ checkpoint' = [i \in Instances |-> IF i \in S THEN at[i] ELSE checkpoint[i]]
  /\ pc' = "compare"
  /\ UNCHANGED <<truth, content, verdict, order>>

-----------------------------------------------------------------------------
(* Comparison of two positions: "over" is the first's having what the second has, and more. *)

Mirror(r) == CASE r = "over" -> "under" [] r = "under" -> "over" [] OTHER -> r

CommonPrefixLen(s, t) ==
  Cardinality({i \in DOMAIN s \cap DOMAIN t : \A j \in 1..i : s[j] = t[j]})

SameLineage(p, q) ==
  IF p[1] # q[1] THEN "diverge"
  ELSE CASE p[2] > q[2] -> "over"
         [] p[2] < q[2] -> "under"
         [] OTHER       -> "equal"

\* Mutant: the higher timeline wins.
ExtensionHighest(ext, anc) == "over"

\* ext has switched once more where anc's history ends.
ExtensionRelation(ext, anc) ==
  LET switch == History[ext[1]][Len(History[anc[1]]) + 1] IN
  IF switch[1] # anc[1] THEN "diverge"
  ELSE IF anc[2] <= switch[2] THEN "over"
  ELSE IF ext[2] <= switch[2] THEN "under"
  ELSE "diverge"

\* Different switches after the last one they agree on.
ForkRelation(p, q, agreed) ==
  LET lsn == IF agreed = 0 THEN 0 ELSE History[p[1]][agreed][2] IN
  CASE p[2] > lsn /\ q[2] > lsn -> "diverge"
    [] p[2] > lsn /\ q[2] <= lsn -> "over"
    [] p[2] <= lsn /\ q[2] > lsn -> "under"
    [] OTHER -> "equal"

Relate(p, q) ==
  LET np == Len(History[p[1]])
      nq == Len(History[q[1]])
      k  == CommonPrefixLen(History[p[1]], History[q[1]]) IN
  CASE k = np /\ k = nq -> SameLineage(p, q)
    [] k # np /\ k = nq -> ExtensionRelation(p, q)
    [] k = np /\ k # nq -> Mirror(ExtensionRelation(q, p))
    [] OTHER            -> ForkRelation(p, q, k)

Lineage(i, j) == Relate(checkpoint[i], checkpoint[j])

\* The position column of the witness's rows, which is all that its hash covers.
Rows(i) ==
  IF SerialPositions THEN 1..Cardinality(Held(i))
  ELSE {r[2] * (MaxTimeline + 1) + r[1] : r \in Held(i)}

MaxPos(i) == CHOOSE m \in Rows(i) : \A n \in Rows(i) : n <= m

\* An instance that serves can be asked about any position; the copy opened of another
\* one was asked about the last positions of those that serve.
Cut(host, m) ==
  host \in live \/ \E i \in live : Rows(i) # {} /\ MaxPos(i) = m

ContainsPeer(host, peer) ==
  /\ Cut(host, MaxPos(peer))
  /\ {r \in Rows(host) : r <= MaxPos(peer)} = Rows(peer)

DecideContent(i, j) ==
  LET over  == Rows(j) = {} \/ (Rows(i) # {} /\ ContainsPeer(i, j))
      under == Rows(i) = {} \/ (Rows(j) # {} /\ ContainsPeer(j, i)) IN
  IF ~({i, j} \subseteq live \cup copied) THEN "diverge"
  ELSE CASE over /\ under  -> "equal"
         [] over /\ ~under -> "over"
         [] ~over /\ under -> "under"
         [] OTHER          -> "diverge"

\* Where the WAL diverges, content may still settle it.
Related(i, j) == IF Lineage(i, j) = "diverge" THEN DecideContent(i, j) ELSE Lineage(i, j)

\* The witness is read only when a divergence asks for it.
ReadContent ==
  /\ pc = "compare"
  /\ \/ UNCHANGED content
     \/ /\ \A i \in Instances : ReadState(i) # "unread"
        /\ \E i, j \in Readable : Lineage(i, j) = "diverge"
        /\ witness' = TRUE /\ ledger' \in Ledgers
        /\ live' \in SUBSET Readable /\ copied' \in SUBSET (Readable \ live')
        /\ live' # {} => serving
  /\ pc' = "decide"
  /\ UNCHANGED <<truth, reads, verdict, order>>

-----------------------------------------------------------------------------
(* Verdict *)

\* The undominated; of those the primary, or else the furthest.
Candidates == {i \in Readable : \A j \in Readable : Related(i, j) # "under"}

PickLeader ==
  IF primary \in Candidates THEN {primary}
  ELSE {i \in Candidates : \A j \in Candidates : checkpoint[j][2] <= checkpoint[i][2]}

Declare(o, l) == outcome' = o /\ leader' = l

\* The outcome; with no leader although there is no divergence, the primary is
\* reported as the most advanced.
DetermineAuthority ==
  /\ pc = "decide"
  /\ IF \E i \in Instances : ReadState(i) = "unread" THEN Declare("undeterminable", NoPod)
     ELSE IF \E i, j \in Readable : Related(i, j) = "diverge" THEN Declare("diverged", NoPod)
     ELSE IF Readable = {} THEN Declare("undeterminable", primary)
     ELSE IF Candidates = {} THEN Declare("undeterminable", NoPod)
     ELSE \E i \in PickLeader :
            Declare(IF i = primary THEN "provable" ELSE "leaderNotPrimary", i)
  /\ pc' = "order"
  /\ UNCHANGED <<truth, reads, content, order>>

SafeToHeal == outcome = "provable"

-----------------------------------------------------------------------------
(* Assessment of an instance, and the repair or promotion an operator asks for *)

\* A pod that is not Ready crash-loops, perhaps for a full disk or corrupt data, or is
\* gone.  Deep recovery, which takes a cluster that is down, forgets the reason.
Conditions(i) ==
  IF serving THEN {"streaming", "idle", "crashloop", "diskFull", "corrupt", "missing"}
  ELSE IF i \in deep THEN {"crashloop", "missing"}
  ELSE {"crashloop", "diskFull", "corrupt", "missing"}

Known(i) == checkpoint[i] # Nowhere
SameTL(i)   == Known(i) /\ primary # NoPod /\ checkpoint[i][1] = checkpoint[primary][1]
BehindTL(i) == Known(i) /\ primary # NoPod /\ checkpoint[i][1] < checkpoint[primary][1]
BehindLSN(i) == SameTL(i) /\ checkpoint[i][2] < checkpoint[primary][2]

\* retained: the primary's replication slot still holds the WAL the instance lacks.
Remediation(i, condition, retained) ==
  IF condition = "corrupt" THEN "reseed"
  ELSE IF i = primary \/ ~SafeToHeal THEN "none"
  ELSE IF BehindTL(i) THEN "reseed"
  ELSE IF ~SameTL(i) THEN "none"
  ELSE IF condition = "missing" THEN "restart"
  ELSE IF BehindLSN(i) THEN
    CASE condition = "streaming" -> "none"
      [] condition = "diskFull"  -> "reseed"
      [] OTHER -> IF retained THEN "restart" ELSE "reseed"
  ELSE IF condition \in {"crashloop", "diskFull"} THEN "restart"
  ELSE "none"

\* Mutant: --force reaches the authority, too.
PlanTargetedForced(i, remedy, forced) ==
  IF i = primary THEN "refused"
  ELSE IF remedy = "restart" /\ ~forced THEN "restart"
  ELSE IF ~SafeToHeal /\ ~forced THEN "refused"
  ELSE IF remedy = "none" /\ ~forced THEN "nothing"
  ELSE "reseed"

PlanTargeted(i, remedy, forced) ==
  IF i = primary \/ (~SafeToHeal /\ i = leader) THEN "refused"
  ELSE IF remedy = "restart" /\ ~forced THEN "restart"
  ELSE IF ~SafeToHeal /\ ~forced THEN "refused"
  ELSE IF remedy = "none" /\ ~forced THEN "nothing"
  ELSE "reseed"

PlanUntargeted(i, remedy) ==
  IF ~SafeToHeal THEN "refused"
  ELSE IF remedy = "none" THEN "nothing"
  ELSE remedy

\* Mutant: --force promotes any instance.
PlanPromotionForced(i, forced) ==
  IF (outcome = "leaderNotPrimary" /\ i = leader) \/ (outcome # "provable" /\ forced)
  THEN "promote" ELSE "refused"

PlanPromotion(i, forced) ==
  IF (outcome = "leaderNotPrimary" /\ i = leader) \/ (outcome = "diverged" /\ forced)
  THEN "promote" ELSE "refused"

Order ==
  /\ pc = "order" /\ primary # NoPod
  /\ target' \in Instances /\ force' \in BOOLEAN
  /\ \E condition \in Conditions(target'), retained \in BOOLEAN :
       LET remedy == Remediation(target', condition, retained) IN
       plan' \in {PlanUntargeted(target', remedy), PlanTargeted(target', remedy, force'),
                  PlanPromotion(target', force')}
  /\ pc' = "heal"
  /\ UNCHANGED <<truth, reads, content, verdict>>

\* Healing looks at the current primary once more, before it wipes.
Heal ==
  /\ pc = "heal" /\ plan = "reseed"
  /\ plan' = IF target = primary THEN "refused" ELSE "reseeded"
  /\ pc' = "done"
  /\ UNCHANGED <<truth, reads, content, verdict, target, force>>

-----------------------------------------------------------------------------
(* The lineages are those of a cluster whose timelines have one number each. *)

Init ==
  /\ parent \in {p \in [2..MaxTimeline -> Timelines] : \A t \in 2..MaxTimeline : p[t] < t}
  /\ fork \in [2..MaxTimeline -> 1..MaxLSN]
  /\ \A t \in 2..MaxTimeline : Start(parent[t]) <= fork[t]
  /\ at \in [Instances -> Positions \cup {Nowhere}]
  /\ serving \in BOOLEAN
  /\ primary \in Instances \cup {NoPod}
  /\ pc = "collect"
  /\ evidence = [i \in Instances |-> "silent"] /\ checkpoint = [i \in Instances |-> Nowhere]
  /\ deep = {} /\ live = {} /\ copied = {} /\ witness = FALSE /\ ledger = {}
  /\ outcome = "undeterminable" /\ leader = NoPod
  /\ target = NoPod /\ force = FALSE /\ plan = "none"

Next == Collect \/ DeepRecover \/ ReadContent \/ DetermineAuthority \/ Order \/ Heal

Spec == Init /\ [][Next]_vars

-----------------------------------------------------------------------------
(* Properties *)

TypeOK ==
  /\ at \in [Instances -> Positions \cup {Nowhere}] /\ serving \in BOOLEAN
  /\ primary \in Instances \cup {NoPod} /\ witness \in BOOLEAN /\ ledger \subseteq Timelines
  /\ pc \in {"collect", "escalate", "compare", "decide", "order", "heal", "done"}
  /\ evidence \in [Instances -> {"full", "controldata", "empty", "silent"}]
  /\ checkpoint \in [Instances -> Positions \cup {Nowhere}]
  /\ deep \subseteq Instances /\ live \subseteq Instances /\ copied \subseteq Instances \ live
  /\ deep # {} => ~serving
  /\ outcome \in {"provable", "leaderNotPrimary", "diverged", "undeterminable"}
  /\ leader \in Instances \cup {NoPod}
  /\ force \in BOOLEAN
  /\ target \in Instances \cup {NoPod}
  /\ plan \in {"none", "nothing", "refused", "restart", "reseed", "promote", "reseeded"}

\* What triage read of an instance; of one it did not read, whatever it holds.
Seen(i) == IF i \in Readable THEN Weighed(Wal(checkpoint[i])) ELSE Held(i)

\* An instance declared the authority has every record that triage saw on another,
\* and no instance that was not read holds any: it is a proof, not a guess.
AuthorityCoversTheSeen ==
  pc # "collect" /\ outcome \in {"provable", "leaderNotPrimary"} =>
    \A i \in Instances : Seen(i) \subseteq Held(leader)

\* The same of all the instance holds, checkpointed or not: "b re-clones from a and
\* loses nothing".
AuthorityCoversEverything ==
  outcome \in {"provable", "leaderNotPrimary"} =>
    \A i \in Instances : Held(i) \subseteq Held(leader)

\* A reseed wipes no primary; unless forced, only what the primary has; and where
\* there is an authority, even a forced one leaves a copy of all that was seen.
HealLosesNothing ==
  plan = "reseeded" =>
    /\ target # primary
    /\ ~force => Seen(target) \subseteq Held(primary)
    /\ outcome \in {"provable", "leaderNotPrimary"} =>
         \E i \in Instances \ {target} : Seen(target) \subseteq Held(i)

\* A promoted instance has all that was seen, unless the operator settled by force a
\* divergence that triage had shown.
PromotionLosesNothing ==
  plan = "promote" /\ ~(force /\ outcome = "diverged") =>
    \A i \in Instances : Seen(i) \subseteq Held(target)
=============================================================================
