--------------------------- MODULE GaleraAuthority ---------------------------
(***************************************************************************)
(* Who holds the data of a Galera cluster: what triage concludes from the  *)
(* positions it could read (src/src/engine/triage/galera.go), and which    *)
(* node bootstrap then declares the source of the new cluster              *)
(* (src/src/engine/bootstrap/galera.go).  The nodes have a true lineage    *)
(* and position, which the code sees only through evidence that may be     *)
(* missing.                                                                *)
(***************************************************************************)
EXTENDS Integers, FiniteSets

CONSTANTS
  Nodes,
  Lineages,        \* cluster UUIDs
  MaxSeqno,        \* bound on the positions
  Hints,           \* positions that logs and the operator's snapshot suggest, per node; -1 is none
  Statuses,        \* states a node may be in
  MayMissReads,    \* may a wsrep_recover fail in a bootstrap without candidate?
  NoNode, NoLineage

ASSUME AuthorityAssumption ==
  /\ IsFiniteSet(Nodes) /\ MaxSeqno \in Nat /\ Hints \subseteq [Nodes -> -1..MaxSeqno]
  /\ Statuses \subseteq {"primary", "nonPrimary", "crashloop", "missing", "pending"}
  /\ MayMissReads \in BOOLEAN
  /\ NoNode \notin Nodes /\ NoLineage \notin Lineages

VARIABLES
  lineage, seqno, status,   \* what is true of each node
  answered,                 \* nodes whose wsrep status was read
  grastate,                 \* "clean" (a position), "open" (seqno -1) or "unread"
  hint,
  force,                    \* bootstrap --force
  pc,
  deep,                     \* nodes triage's deep recovery read
  best,                     \* triage's BestSeqnoNode
  recovered,                \* nodes bootstrap's wsrep_recover read
  chosen

truth    == <<lineage, seqno, status>>
evidence == <<answered, grastate, hint, force>>
vars     == <<truth, evidence, pc, deep, best, recovered, chosen>>

\* Pods whose mariadb container is Ready; the others were classed as crash-looping,
\* not running or missing.
Up == {n \in Nodes : status[n] \in {"primary", "nonPrimary"}}

TypeOK ==
  /\ lineage \in [Nodes -> Lineages] /\ seqno \in [Nodes -> 0..MaxSeqno]
  /\ status \in [Nodes -> Statuses]
  /\ answered \subseteq Up
  /\ grastate \in [Nodes -> {"clean", "open", "unread"}]
  /\ hint \in [Nodes -> -1..MaxSeqno]
  /\ force \in BOOLEAN
  /\ pc \in {"collect", "analyze", "gates", "recover", "select", "chosen", "refused"}
  /\ deep \subseteq Nodes /\ recovered \subseteq Nodes
  /\ deep # {} => Up = {}
  /\ best \in Nodes \cup {NoNode}
  /\ chosen \in Nodes \cup {NoNode}
  /\ chosen # NoNode <=> pc = "chosen"

\* There is one Primary component, of one lineage; forming it took a position.
Init ==
  /\ lineage \in [Nodes -> Lineages] /\ seqno \in [Nodes -> 0..MaxSeqno]
  /\ status \in [Nodes -> Statuses]
  /\ \A m, n \in Nodes : status[m] = "primary" /\ status[n] = "primary" => lineage[m] = lineage[n]
  /\ \A n \in Nodes : status[n] = "primary" => seqno[n] > 0
  /\ force \in BOOLEAN
  /\ answered = {}
  /\ grastate = [n \in Nodes |-> "unread"] /\ hint = [n \in Nodes |-> -1]
  /\ pc = "collect"
  /\ deep = {} /\ recovered = {}
  /\ best = NoNode /\ chosen = NoNode

-----------------------------------------------------------------------------
(* Triage *)

\* The authoritative sources: a fenced wsrep_recover, the live status, a cleanly
\* closed grastate.dat.  A position of 0 counts as none.
Read(n)  == n \in deep \/ n \in answered \/ grastate[n] = "clean"
Known(n) == Read(n) /\ seqno[n] > 0

\* Without one of them, a hint is shown in its place.
Effective(n) ==
  IF Read(n) /\ seqno[n] > 0 THEN seqno[n] ELSE IF hint[n] > 0 THEN hint[n] ELSE -1

CanonicalUUID(n) ==
  IF n \in deep \cup answered \/ grastate[n] # "unread" THEN lineage[n] ELSE NoLineage

PrimaryMembers == {n \in answered : status[n] = "primary"}

Largest(S) == IF S = {} THEN -2 ELSE CHOOSE v \in S : \A w \in S : w <= v

BestPrimary == Largest({Effective(n) : n \in PrimaryMembers})

Divergent ==
  \/ Cardinality({CanonicalUUID(n) : n \in Nodes} \ {NoLineage}) > 1
  \/ \E n \in answered : status[n] = "nonPrimary"
  \/ PrimaryMembers # {} /\ \E n \in Nodes \ PrimaryMembers : Known(n) /\ Effective(n) > BestPrimary

\* Mutant: any unread node is a laggard of the Primary component.
CleanQuorumAnyone(n) == ~Divergent /\ PrimaryMembers # {}

\* A node that could not be read blocks, unless it is on the lineage of a live
\* Primary that nothing contradicts.
CleanQuorum(n) ==
  ~Divergent /\ \E m \in PrimaryMembers : CanonicalUUID(n) = CanonicalUUID(m)

Unread == {n \in Nodes : ~Known(n) /\ ~CleanQuorum(n)}

Outcome ==
  IF Unread # {} THEN "undeterminable" ELSE IF Divergent THEN "diverged" ELSE "provable"

SafeToHeal == Outcome = "provable"

\* Nodes an assessment says to wipe and let rejoin.  A full disk, which is left
\* open here, condemns a crash-looping node whose data is current, too.
NeedsHeal(n) ==
  /\ SafeToHeal
  /\ \/ status[n] = "crashloop"
     \/ status[n] = "missing" /\ grastate[n] # "unread" /\ ~(Effective(n) > 0 /\ BestPrimary > 0 /\ Effective(n) >= BestPrimary)

\* Where nothing is alive, the cluster is fenced and every node recovered, if it
\* can be; a failed or skipped recovery leaves the node unread.
DeepRecover ==
  \/ Up = {} /\ \E S \in SUBSET Nodes : deep' = S
  \/ Up # {} /\ UNCHANGED deep

\* Any read may fail.  A running server keeps its grastate.dat open.
Collect ==
  /\ pc = "collect"
  /\ answered' \in SUBSET Up
  /\ grastate' \in {g \in [Nodes -> {"clean", "open", "unread"}] : \A n \in Up : g[n] # "clean"}
  /\ hint' \in Hints
  /\ DeepRecover
  /\ pc' = "analyze"
  /\ UNCHANGED <<truth, force, best, recovered, chosen>>

\* The most advanced of the known positions, the first one met where they tie.
Analyze ==
  /\ pc = "analyze"
  /\ best' \in IF \E n \in Nodes : Known(n)
               THEN {n \in Nodes : Known(n) /\ \A m \in Nodes : Known(m) => Effective(m) <= Effective(n)}
               ELSE {NoNode}
  /\ pc' = "gates"
  /\ UNCHANGED <<truth, evidence, deep, recovered, chosen>>

-----------------------------------------------------------------------------
(* Bootstrap *)

BellyUp == best = NoNode

Ambiguous == \E n \in Nodes \ {best} : Effective(n) = Effective(best)

\* Mutant: the verdict on the data is not asked.
GatesUnsafe ==
  /\ pc = "gates"
  /\ pc' = IF PrimaryMembers = {} /\ (BellyUp \/ force \/ ~Ambiguous)
           THEN "recover" ELSE "refused"
  /\ UNCHANGED <<truth, evidence, deep, best, recovered, chosen>>

\* A node that answers as Synced stops it, and without --force an ambiguous or
\* unproven candidate does; having no candidate does not.
Gates ==
  /\ pc = "gates"
  /\ pc' = IF PrimaryMembers = {} /\ (BellyUp \/ force \/ (SafeToHeal /\ ~Ambiguous))
           THEN "recover" ELSE "refused"
  /\ UNCHANGED <<truth, evidence, deep, best, recovered, chosen>>

\* wsrep_recover on every node of the fenced cluster; a failure is skipped.
Recover ==
  /\ pc = "recover"
  /\ recovered' \in SUBSET Nodes
  /\ BellyUp /\ ~MayMissReads => recovered' \in {{}, Nodes}
  /\ pc' = "select"
  /\ UNCHANGED <<truth, evidence, deep, best, chosen>>

Group(l) == {n \in recovered : lineage[n] = l}
Groups   == {Group(l) : l \in {lineage[n] : n \in recovered}}

\* The largest group, then the most advanced; any of those that tie.
Majority(g) ==
  \A h \in Groups :
    \/ Cardinality(h) < Cardinality(g)
    \/ /\ Cardinality(h) = Cardinality(g)
       /\ Largest({seqno[n] : n \in h}) <= Largest({seqno[n] : n \in g})

\* Overriding a leader that was not recovered by a node behind its known position.
DiscardsData(n) == best \notin recovered /\ ~BellyUp /\ Effective(best) > seqno[n]

MostAdvanced(S) == {n \in S : \A m \in S : seqno[m] <= seqno[n]}

Choose(n) == chosen' = n /\ pc' = "chosen"
Refuse    == pc' = "refused" /\ UNCHANGED chosen

\* Nothing recovered: the candidate stands, if there is one.
SelectUnread ==
  /\ pc = "select" /\ Groups = {}
  /\ IF BellyUp THEN Refuse ELSE Choose(best)
  /\ UNCHANGED <<truth, evidence, deep, best, recovered>>

\* The most advanced node: of the majority lineage, or with --force of all.
Select ==
  /\ pc = "select" /\ Groups # {}
  /\ \E g \in {h \in Groups : Majority(h)} :
       \E n \in MostAdvanced(IF force THEN recovered ELSE g) :
         IF \/ n # best /\ DiscardsData(n) /\ ~force
            \/ BellyUp /\ ~force /\ Cardinality(Groups) > 1
         THEN Refuse ELSE Choose(n)
  /\ UNCHANGED <<truth, evidence, deep, best, recovered>>

Next == Collect \/ Analyze \/ Gates \/ Recover \/ SelectUnread \/ Select

Spec == Init /\ [][Next]_vars

-----------------------------------------------------------------------------
(* Properties *)

Analyzed == pc \notin {"collect", "analyze"}

\* All that node n has, node m has too.
Includes(m, n) == seqno[n] = 0 \/ (lineage[n] = lineage[m] /\ seqno[n] <= seqno[m])

\* A node that triage would have wiped, beside a live Primary component, has
\* nothing the component lacks; of a node it could not read, it relies on the
\* component's majority for that, but never on its lineage.
HealLosesNothing ==
  Analyzed /\ PrimaryMembers # {} =>
    \A n \in Nodes : NeedsHeal(n) =>
      \E m \in PrimaryMembers : IF Known(n) THEN Includes(m, n) ELSE lineage[n] = lineage[m]

\* "Authority is provable" of a cluster that is down: the best node includes every other.
ProvableIsProven ==
  Analyzed /\ SafeToHeal /\ PrimaryMembers = {} =>
    best # NoNode /\ \A n \in Nodes : Includes(best, n)

\* Without --force, no node has a transaction that the bootstrap source lacks:
\* the others will be overwritten from it.
BootstrapLosesNothing ==
  pc = "chosen" /\ ~force => \A n \in Nodes : Includes(chosen, n)

\* Bootstrap never takes down a cluster that serves.
StopsOnlyTheDown ==
  pc \in {"recover", "select", "chosen"} => \A n \in Nodes : status[n] # "primary"
=============================================================================
