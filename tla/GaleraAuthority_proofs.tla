----------------------- MODULE GaleraAuthority_proofs -----------------------
(***************************************************************************)
(* For any finite cluster, any lineages, positions and hints: a node that  *)
(* triage would have wiped beside a live Primary has nothing the Primary   *)
(* lacks, and the source that bootstrap chooses without --force lacks      *)
(* nothing that any node has.                                              *)
(***************************************************************************)
EXTENDS GaleraAuthority, FiniteSetTheorems, WellFoundedInduction, TLAPS

\* One Primary component has one lineage, and a position.
Component ==
  /\ \A m, n \in Nodes : status[m] = "primary" /\ status[n] = "primary" => lineage[m] = lineage[n]
  /\ \A n \in Nodes : status[n] = "primary" => seqno[n] > 0

\* The candidate is the furthest of the nodes whose position is known; there is none
\* when no position is.
Candidate ==
  Analyzed =>
    IF best = NoNode THEN \A n \in Nodes : ~Known(n)
    ELSE Known(best) /\ \A n \in Nodes : Known(n) => Effective(n) <= Effective(best)

\* What let bootstrap past its gates still holds while it recovers and selects.
Gated ==
  pc \in {"recover", "select"} =>
    PrimaryMembers = {} /\ (BellyUp \/ force \/ (SafeToHeal /\ ~Ambiguous))

\* Without a candidate, every node was recovered or none.
AllOrNone == pc = "select" /\ BellyUp /\ ~MayMissReads => recovered \in {{}, Nodes}

\* The source lacks nothing; without a candidate, if no recovery may fail.
Source ==
  pc = "chosen" /\ ~force /\ (MayMissReads => ~BellyUp) => \A n \in Nodes : Includes(chosen, n)

AuthorityInv == Component /\ Candidate /\ Gated /\ AllOrNone /\ Source

-----------------------------------------------------------------------------
(* Positions and lineages *)

\* Positions that are read or hinted have a largest.
LEMMA LargestIs ==
  ASSUME NEW S, S # {}, \A v \in S : v \in -1..MaxSeqno
  PROVE  Largest(S) \in S /\ \A w \in S : w <= Largest(S)
<1> DEFINE T == {MaxSeqno - v : v \in S}
<1>1. MaxSeqno \in Nat
  BY AuthorityAssumption
<1>2. T \subseteq Nat /\ T # {}
  BY <1>1
<1>3. PICK x \in T : \A y \in T : ~(<<y, x>> \in OpToRel(<, Nat))
  BY <1>2, WFMin, NatLessThanWellFounded
<1>4. PICK v \in S : x = MaxSeqno - v
  OBVIOUS
<1>5. ASSUME NEW w \in S PROVE w <= v
  <2>1. MaxSeqno - w \in T /\ MaxSeqno - w \in Nat /\ x \in Nat
    BY <1>2
  <2>2. ~(MaxSeqno - w < x)
    BY <1>3, <2>1 DEF OpToRel
  <2> QED
    BY <1>1, <1>4, <2>1, <2>2
<1> QED
  BY <1>5 DEF Largest

\* What each node shows of itself, in range.
LEMMA Shown ==
  ASSUME TypeOK, NEW n \in Nodes
  PROVE  /\ Effective(n) \in -1..MaxSeqno /\ seqno[n] \in 0..MaxSeqno /\ lineage[n] \in Lineages
         /\ Known(n) => Effective(n) = seqno[n] /\ seqno[n] > 0 /\ CanonicalUUID(n) = lineage[n]
         /\ CanonicalUUID(n) \in {NoLineage, lineage[n]} /\ lineage[n] # NoLineage
  BY AuthorityAssumption DEF TypeOK, Effective, Known, Read, CanonicalUUID

\* The nodes of a set of lineages no larger than one have one lineage.
LEMMA AtMostOne ==
  ASSUME NEW M, M \subseteq Nodes, NEW f \in [M -> Lineages \cup {NoLineage}],
         NEW S, S \subseteq {f[n] : n \in M},
         ~(Cardinality(S) > 1)
  PROVE  \A x, y \in S : x = y
<1> DEFINE T == {f[n] : n \in M}
<1>1. IsFiniteSet(M)
  BY AuthorityAssumption, FS_Subset
<1>2. f \in Surjection(M, T)
  BY DEF Surjection
<1>3. IsFiniteSet(S)
  BY <1>1, <1>2, FS_Surjection, FS_Subset
<1>4. Cardinality(S) \in Nat
  BY <1>3, FS_CardinalityType
<1>5. Cardinality(S) = 0 \/ Cardinality(S) = 1
  BY <1>4
<1>6. S = {} \/ \E x : S = {x}
  BY <1>3, <1>5, FS_EmptySet, FS_Singleton
<1> QED
  BY <1>6

\* Where nothing diverges, the lineages that are known are one.
LEMMA OneLineage ==
  ASSUME TypeOK, ~Divergent
  PROVE  \A m, n \in Nodes : CanonicalUUID(m) # NoLineage /\ CanonicalUUID(n) # NoLineage =>
                               CanonicalUUID(m) = CanonicalUUID(n)
<1> DEFINE f == [n \in Nodes |-> CanonicalUUID(n)]
           S == {CanonicalUUID(n) : n \in Nodes} \ {NoLineage}
<1>1. f \in [Nodes -> Lineages \cup {NoLineage}]
  BY Shown
<1>2. S \subseteq {f[n] : n \in Nodes}
  OBVIOUS
<1>3. ~(Cardinality(S) > 1)
  BY DEF Divergent
<1>4. \A x, y \in S : x = y
  <2> HIDE DEF f, S
  <2> QED
    BY <1>1, <1>2, <1>3, AtMostOne
<1> QED
  BY <1>4

\* The component's best position is that of one of its members.
LEMMA BestMember ==
  ASSUME TypeOK, Component, PrimaryMembers # {}
  PROVE  \E m \in PrimaryMembers : BestPrimary = seqno[m]
<1> DEFINE S == {Effective(n) : n \in PrimaryMembers}
<1>1. PrimaryMembers \subseteq Nodes
  BY DEF PrimaryMembers, TypeOK, Up
<1>2. S # {} /\ \A v \in S : v \in -1..MaxSeqno
  BY <1>1, Shown
<1>3. BestPrimary \in S
  <2> HIDE DEF S
  <2>1. Largest(S) \in S
    BY <1>2, LargestIs
  <2> QED
    BY <2>1 DEF BestPrimary, S
<1>4. PICK m \in PrimaryMembers : BestPrimary = Effective(m)
  BY <1>3
<1>5. Known(m)
  BY <1>1, Shown DEF Component, PrimaryMembers, Known, Read
<1> QED
  BY <1>1, <1>4, <1>5, Shown

-----------------------------------------------------------------------------
(* The verdict *)

\* A member of the live component is read, and known.
LEMMA MembersKnown ==
  ASSUME TypeOK, Component, NEW m \in PrimaryMembers
  PROVE  m \in Nodes /\ Known(m) /\ CanonicalUUID(m) = lineage[m] /\ status[m] = "primary"
<1>1. m \in Nodes /\ status[m] = "primary"
  BY DEF PrimaryMembers, TypeOK, Up
<1>2. Known(m)
  BY <1>1, Shown DEF Component, PrimaryMembers, Known, Read
<1> QED
  BY <1>1, <1>2, Shown

\* A wipe beside a live component loses nothing, whatever triage could not read.
LEMMA HealSafe == TypeOK /\ Component => HealLosesNothing
<1> SUFFICES ASSUME TypeOK, Component, PrimaryMembers # {}, NEW n \in Nodes, NeedsHeal(n)
             PROVE  \E m \in PrimaryMembers :
                      IF Known(n) THEN Includes(m, n) ELSE lineage[n] = lineage[m]
  BY DEF HealLosesNothing
<1>1. ~Divergent /\ Unread = {} /\ status[n] \in {"crashloop", "missing"}
  BY DEF NeedsHeal, SafeToHeal, Outcome
<1>2. n \notin PrimaryMembers
  BY <1>1, MembersKnown
<1>3. PICK b \in PrimaryMembers : BestPrimary = seqno[b]
  BY BestMember
<1>4. CASE Known(n)
  <2>1. Effective(n) = seqno[n] /\ CanonicalUUID(n) = lineage[n] /\ lineage[n] # NoLineage
    BY <1>4, Shown
  <2>2. ~(Effective(n) > BestPrimary)
    BY <1>1, <1>2, <1>4 DEF Divergent
  <2>3. b \in Nodes /\ CanonicalUUID(b) = lineage[b]
    BY MembersKnown
  <2>4. lineage[b] # NoLineage
    BY <2>3, Shown
  <2>5. lineage[n] = lineage[b]
    BY <1>1, <2>1, <2>3, <2>4, OneLineage
  <2>6. seqno[n] <= seqno[b]
    BY <1>3, <2>1, <2>2, <2>3, Shown
  <2> QED
    BY <1>4, <2>5, <2>6 DEF Includes
<1>5. CASE ~Known(n)
  <2>1. CleanQuorum(n)
    BY <1>1, <1>5 DEF Unread
  <2>2. PICK m \in PrimaryMembers : CanonicalUUID(n) = CanonicalUUID(m)
    BY <2>1 DEF CleanQuorum
  <2>3. m \in Nodes /\ CanonicalUUID(m) = lineage[m]
    BY MembersKnown
  <2>4. lineage[n] = lineage[m]
    BY <2>2, <2>3, Shown
  <2> QED
    BY <1>5, <2>4
<1> QED
  BY <1>4, <1>5

\* Of a cluster that is down, a safe verdict means that every node is known and that
\* their lineage is one.
LEMMA SafeMeansKnown ==
  ASSUME TypeOK, SafeToHeal, PrimaryMembers = {}
  PROVE  /\ \A n \in Nodes : Known(n) /\ Effective(n) = seqno[n]
         /\ \A m, n \in Nodes : lineage[m] = lineage[n]
<1>1. ~Divergent /\ Unread = {}
  BY DEF SafeToHeal, Outcome
<1>2. \A n \in Nodes : Known(n)
  BY <1>1 DEF Unread, CleanQuorum
<1>3. \A n \in Nodes : Effective(n) = seqno[n] /\ CanonicalUUID(n) = lineage[n] /\ lineage[n] # NoLineage
  BY <1>2, Shown
<1> QED
  BY <1>1, <1>2, <1>3, OneLineage

\* The candidate of a cluster that is down and safe includes every node.
LEMMA CandidateProven ==
  ASSUME TypeOK, Candidate, Analyzed, SafeToHeal, PrimaryMembers = {}, best # NoNode
  PROVE  best \in Nodes /\ \A n \in Nodes : Includes(best, n)
<1>1. best \in Nodes
  BY DEF TypeOK
<1>2. \A n \in Nodes : Effective(n) <= Effective(best)
  BY SafeMeansKnown DEF Candidate
<1>3. \A n \in Nodes : lineage[n] = lineage[best] /\ seqno[n] <= seqno[best]
  BY <1>1, <1>2, SafeMeansKnown
<1> QED
  BY <1>1, <1>3 DEF Includes

-----------------------------------------------------------------------------
(* The choice of the source *)

\* Where the recovered nodes are of one lineage they are one group.
LEMMA OneGroup ==
  ASSUME TypeOK, \A m, n \in recovered : lineage[m] = lineage[n], NEW g \in Groups
  PROVE  g = recovered
<1>1. PICK k \in recovered : g = Group(lineage[k])
  BY DEF Groups
<1> QED
  BY <1>1 DEF Group

\* A cluster with no known position: if every node is recovered, the source chosen
\* without --force includes them all.
LEMMA BlindSource ==
  ASSUME TypeOK, BellyUp, ~force, recovered = Nodes, Select, pc' = "chosen"
  PROVE  \A n \in Nodes : Includes(chosen', n)
<1>1. PICK g \in Groups : \E n \in MostAdvanced(g) : chosen' = n /\ ~(Cardinality(Groups) > 1)
  BY DEF Select, Choose, Refuse
<1>2. PICK n \in MostAdvanced(g) : chosen' = n
  BY <1>1
<1>3. \A x, y \in Groups : x = y
  <2> DEFINE f == [m \in Nodes |-> Group(lineage[m])]
  <2>1. Nodes \subseteq Nodes /\ f \in [Nodes -> {f[m] : m \in Nodes}] /\ Groups = {f[m] : m \in Nodes}
    BY DEF Groups
  <2>2. IsFiniteSet(Groups)
    <3>1. f \in Surjection(Nodes, Groups)
      BY <2>1 DEF Surjection
    <3> QED
      BY <3>1, AuthorityAssumption, FS_Surjection
  <2>3. Cardinality(Groups) \in Nat /\ ~(Cardinality(Groups) > 1)
    BY <1>1, <2>2, FS_CardinalityType
  <2>4. Cardinality(Groups) = 0 \/ Cardinality(Groups) = 1
    BY <2>3
  <2> QED
    BY <2>2, <2>4, FS_EmptySet, FS_Singleton
<1>4. \A m, k \in Nodes : lineage[m] = lineage[k]
  <2> TAKE m, k \in Nodes
  <2>1. Group(lineage[m]) \in Groups /\ Group(lineage[k]) \in Groups
    BY DEF Groups
  <2>2. m \in Group(lineage[k])
    BY <1>3, <2>1 DEF Group
  <2> QED
    BY <2>2 DEF Group
<1>5. g = Nodes
  BY <1>4, OneGroup
<1> QED
  BY <1>2, <1>4, <1>5 DEF MostAdvanced, Includes, TypeOK

\* A cluster with a candidate: the source chosen without --force is the candidate, or as
\* far as it.
LEMMA ProvenSource ==
  ASSUME TypeOK, Candidate, pc = "select", Gated, ~BellyUp, ~force,
         Select \/ SelectUnread, pc' = "chosen"
  PROVE  \A n \in Nodes : Includes(chosen', n)
<1>1. PrimaryMembers = {} /\ SafeToHeal /\ best # NoNode
  BY DEF Gated, BellyUp
<1>2. best \in Nodes /\ \A n \in Nodes : Includes(best, n)
  BY <1>1, CandidateProven DEF Analyzed
<1>3. \A m, n \in Nodes : Effective(n) = seqno[n] /\ lineage[m] = lineage[n]
  BY <1>1, SafeMeansKnown
<1>4. CASE SelectUnread
  BY <1>2, <1>4 DEF SelectUnread, Choose, Refuse
<1>5. CASE Select
  <2>1. PICK g \in Groups : \E n \in MostAdvanced(g) :
               chosen' = n /\ ~(n # best /\ DiscardsData(n))
    BY <1>5 DEF Select, Choose, Refuse
  <2>2. PICK n \in MostAdvanced(g) : chosen' = n /\ ~(n # best /\ DiscardsData(n))
    BY <2>1
  <2>3. recovered \subseteq Nodes /\ g = recovered
    BY <1>3, OneGroup DEF TypeOK
  <2>4. n \in Nodes
    BY <2>3 DEF MostAdvanced
  <2>5. \A m \in Nodes : seqno[m] \in Nat
    BY Shown
  <2>6. seqno[best] <= seqno[n]
    <3>1. CASE best \in recovered
      BY <2>3, <3>1 DEF MostAdvanced
    <3>2. CASE best \notin recovered
      BY <1>2, <1>3, <2>2, <2>4, <2>5, <3>2 DEF DiscardsData
    <3> QED
      BY <3>1, <3>2
  <2>7. ASSUME NEW k \in Nodes PROVE seqno[k] <= seqno[n]
    <3>1. seqno[k] = 0 \/ seqno[k] <= seqno[best]
      BY <1>2 DEF Includes
    <3> QED
      BY <1>2, <2>4, <2>5, <2>6, <3>1
  <2> QED
    BY <1>3, <2>2, <2>4, <2>7 DEF Includes
<1> QED
  BY <1>4, <1>5

-----------------------------------------------------------------------------
(* The steps *)

\* What a step that reads nothing leaves as it was.
LEMMA ReadsNothing ==
  ASSUME UNCHANGED <<truth, evidence, deep>>
  PROVE  /\ \A n \in Nodes : Known(n)' = Known(n) /\ Effective(n)' = Effective(n)
         /\ PrimaryMembers' = PrimaryMembers
         /\ SafeToHeal' = SafeToHeal
         /\ UNCHANGED best => Ambiguous' = Ambiguous
<1> USE DEF truth, evidence
<1>1. /\ \A n \in Nodes : Known(n)' = Known(n) /\ Effective(n)' = Effective(n)
      /\ PrimaryMembers' = PrimaryMembers
  BY DEF Known, Read, Effective, PrimaryMembers
<1>2. UNCHANGED best => Ambiguous' = Ambiguous
  BY DEF Ambiguous, Effective, Read
<1>3. SafeToHeal' = SafeToHeal
  BY DEF SafeToHeal, Outcome, Unread, CleanQuorum, Divergent, BestPrimary, Largest, PrimaryMembers,
         CanonicalUUID, Effective, Known, Read
<1> QED
  BY <1>1, <1>2, <1>3

\* Every step keeps the types.
LEMMA TypedNext == TypeOK /\ Candidate /\ [Next]_vars => TypeOK'
<1> SUFFICES ASSUME TypeOK, Candidate, [Next]_vars PROVE TypeOK'
  OBVIOUS
<1> USE AuthorityAssumption DEF TypeOK, truth, evidence, Up
<1>1. CASE Collect
  BY <1>1 DEF Collect, DeepRecover
<1>2. CASE Analyze
  BY <1>2 DEF Analyze
<1>3. CASE Gates
  BY <1>3 DEF Gates
<1>4. CASE Recover
  <2>1. recovered' \subseteq Nodes /\ pc' = "select" /\ pc = "recover"
        /\ UNCHANGED <<truth, evidence, deep, best, chosen>>
    BY <1>4 DEF Recover
  <2> QED
    BY <2>1
<1>5. CASE SelectUnread
  BY <1>5 DEF SelectUnread, Choose, Refuse, BellyUp
<1>6. CASE Select
  <2>1. UNCHANGED <<truth, evidence, deep, best, recovered>> /\ pc = "select"
    BY <1>6 DEF Select
  <2>2. PICK g \in Groups : \E n \in MostAdvanced(IF force THEN recovered ELSE g) : Choose(n) \/ Refuse
    BY <1>6 DEF Select
  <2>3. PICK n \in MostAdvanced(IF force THEN recovered ELSE g) : Choose(n) \/ Refuse
    BY <2>2
  <2>4. n \in Nodes
    BY <2>2, <2>3 DEF MostAdvanced, Groups, Group
  <2> QED
    BY <2>1, <2>3, <2>4 DEF Choose, Refuse
<1>7. CASE UNCHANGED vars
  BY <1>7 DEF vars
<1> QED
  BY <1>1, <1>2, <1>3, <1>4, <1>5, <1>6, <1>7 DEF Next

\* The truth does not change under triage and bootstrap.
LEMMA ComponentNext == TypeOK /\ Component /\ [Next]_vars => Component'
<1> SUFFICES ASSUME Component, [Next]_vars PROVE UNCHANGED truth
  BY DEF Component, truth
<1> QED
  BY DEF Next, Collect, Analyze, Gates, Recover, SelectUnread, Select, vars

\* Analysis sets the candidate, and nothing after it reads anything.
LEMMA CandidateNext == TypeOK /\ Candidate /\ [Next]_vars => Candidate'
<1> SUFFICES ASSUME TypeOK, Candidate, [Next]_vars, Analyzed' PROVE Candidate'
  BY DEF Candidate
<1>1. CASE Analyze
  <2>1. UNCHANGED <<truth, evidence, deep>>
    BY <1>1 DEF Analyze
  <2>2. CASE \E n \in Nodes : Known(n)
    <3>1. best' \in Nodes /\ Known(best') /\ \A m \in Nodes : Known(m) => Effective(m) <= Effective(best')
      BY <1>1, <2>2 DEF Analyze
    <3>2. Known(best)' = Known(best') /\ Effective(best)' = Effective(best')
      BY <2>1 DEF truth, evidence, Known, Read, Effective
    <3> QED
      BY <2>1, <3>1, <3>2, ReadsNothing, AuthorityAssumption DEF Candidate
  <2>3. CASE ~\E n \in Nodes : Known(n)
    BY <1>1, <2>1, <2>3, ReadsNothing DEF Analyze, Candidate
  <2> QED
    BY <2>2, <2>3
<1>2. CASE ~Collect /\ ~Analyze
  <2>1. UNCHANGED <<truth, evidence, deep, best>> /\ Analyzed
    BY <1>2 DEF Next, Gates, Recover, SelectUnread, Select, vars, truth, evidence, Analyzed
  <2>2. Known(best)' = Known(best) /\ Effective(best)' = Effective(best)
    BY <2>1 DEF truth, evidence, Known, Read, Effective
  <2> QED
    BY <2>1, <2>2, ReadsNothing DEF Candidate
<1>3. ~Collect
  BY DEF Collect, Analyzed
<1> QED
  BY <1>1, <1>2, <1>3

\* The gates are passed on what stays true of the evidence.
LEMMA GatedNext == TypeOK /\ Gated /\ [Next]_vars => Gated'
<1> SUFFICES ASSUME TypeOK, Gated, [Next]_vars, pc' \in {"recover", "select"} PROVE Gated'
  BY DEF Gated
<1>1. /\ UNCHANGED <<truth, evidence, deep, best>>
      /\ \/ Gates /\ pc' = "recover"
         \/ pc \in {"recover", "select"}
  BY DEF Next, Collect, Analyze, Gates, Recover, SelectUnread, Select, Choose, Refuse, vars,
         truth, evidence
<1>2. /\ PrimaryMembers' = PrimaryMembers /\ SafeToHeal' = SafeToHeal /\ Ambiguous' = Ambiguous
      /\ force' = force /\ BellyUp' = BellyUp
  BY <1>1, ReadsNothing DEF evidence, BellyUp
<1>3. PrimaryMembers = {} /\ (BellyUp \/ force \/ (SafeToHeal /\ ~Ambiguous))
  BY <1>1 DEF Gates, Gated
<1> QED
  BY <1>2, <1>3 DEF Gated

\* Recovery without a candidate is all or nothing, if none may fail.
LEMMA AllOrNoneNext == TypeOK /\ AllOrNone /\ [Next]_vars => AllOrNone'
<1> SUFFICES ASSUME TypeOK, AllOrNone, [Next]_vars PROVE AllOrNone'
  OBVIOUS
<1>1. CASE Recover
  BY <1>1 DEF Recover, AllOrNone, BellyUp
<1>2. CASE UNCHANGED vars
  BY <1>2 DEF vars, AllOrNone, BellyUp
<1>3. CASE Next /\ ~Recover
  BY <1>3 DEF Next, Collect, Analyze, Gates, SelectUnread, Select, Choose, Refuse, AllOrNone
<1> QED
  BY <1>1, <1>2, <1>3

\* A source is chosen that includes every node.
LEMMA SourceNext == TypeOK /\ AuthorityInv /\ [Next]_vars => Source'
<1> SUFFICES ASSUME TypeOK, AuthorityInv, [Next]_vars,
                    pc' = "chosen", ~force', MayMissReads => ~BellyUp'
             PROVE  \A n \in Nodes : Includes(chosen, n)'
  BY DEF Source
<1>1. UNCHANGED <<truth, evidence, deep, best>>
  BY DEF Next, Collect, Analyze, Gates, Recover, SelectUnread, Select, vars, truth, evidence
<1>2. ~force /\ (MayMissReads => ~BellyUp)
  BY <1>1 DEF evidence, BellyUp
<1>3. \A n \in Nodes : Includes(chosen, n)' = Includes(chosen', n)
  BY <1>1 DEF truth, Includes
<1>4. CASE UNCHANGED vars
  BY <1>2, <1>3, <1>4 DEF AuthorityInv, Source, vars
<1>5. CASE pc = "select" /\ (Select \/ SelectUnread)
  <2>1. CASE ~BellyUp
    BY <1>2, <1>3, <1>5, <2>1, ProvenSource DEF AuthorityInv
  <2>2. CASE BellyUp
    <3>1. Select
      BY <1>5, <2>2 DEF SelectUnread, Refuse
    <3>2. recovered = Nodes
      BY <1>2, <1>5, <2>2, <3>1 DEF AuthorityInv, AllOrNone, Select, Groups
    <3> QED
      BY <1>2, <1>3, <2>2, <3>1, <3>2, BlindSource
  <2> QED
    BY <2>1, <2>2
<1>6. UNCHANGED vars \/ (pc = "select" /\ (Select \/ SelectUnread))
  BY DEF Next, Collect, Analyze, Gates, Recover, SelectUnread, Select
<1> QED
  BY <1>4, <1>5, <1>6

-----------------------------------------------------------------------------
(* The theorems *)

\* The invariant holds at first, and every step keeps it.
LEMMA AuthorityInductive ==
  /\ Init => TypeOK /\ AuthorityInv
  /\ TypeOK /\ AuthorityInv /\ [Next]_vars => TypeOK' /\ AuthorityInv'
<1>1. ASSUME Init PROVE TypeOK /\ AuthorityInv
  <2>1. TypeOK
    BY <1>1, AuthorityAssumption DEF Init, TypeOK, Up
  <2>2. Component
    BY <1>1 DEF Init, Component
  <2>3. Candidate /\ Gated /\ AllOrNone /\ Source
    BY <1>1 DEF Init, Candidate, Analyzed, Gated, AllOrNone, Source
  <2> QED
    BY <2>1, <2>2, <2>3 DEF AuthorityInv
<1>2. ASSUME TypeOK, AuthorityInv, [Next]_vars PROVE TypeOK' /\ AuthorityInv'
  <2>1. TypeOK' /\ Component'
    BY <1>2, TypedNext, ComponentNext DEF AuthorityInv
  <2>2. Candidate' /\ Gated' /\ AllOrNone'
    BY <1>2, CandidateNext, GatedNext, AllOrNoneNext DEF AuthorityInv
  <2>3. Source'
    BY <1>2, SourceNext
  <2> QED
    BY <2>1, <2>2, <2>3 DEF AuthorityInv
<1> QED
  BY <1>1, <1>2

\* Triage and bootstrap keep the types of their evidence and verdicts, and nothing is
\* chosen before the end.
THEOREM AuthorityTyped == Spec => []TypeOK
<1> QED
  BY AuthorityInductive, PTL DEF Spec

\* What each phase established still holds when the next one relies on it.
THEOREM AuthorityInvariant == Spec => []AuthorityInv
<1> QED
  BY AuthorityInductive, PTL DEF Spec

\* A node that triage would have wiped beside a live Primary has nothing the Primary
\* lacks (src/src/engine/triage/galera.go), for any evidence.
THEOREM HealIsSafe == Spec => []HealLosesNothing
<1>1. TypeOK /\ AuthorityInv => HealLosesNothing
  BY HealSafe DEF AuthorityInv
<1> QED
  BY <1>1, AuthorityTyped, AuthorityInvariant, PTL

\* "Authority is provable" of a cluster that is down, which no Primary speaks for: the
\* candidate exists and includes every node.
THEOREM AuthorityIsProven == Nodes # {} => (Spec => []ProvableIsProven)
<1> SUFFICES ASSUME Nodes # {} PROVE Spec => []ProvableIsProven
  OBVIOUS
<1>1. TypeOK /\ AuthorityInv => ProvableIsProven
  BY CandidateProven, SafeMeansKnown DEF AuthorityInv, ProvableIsProven, Candidate
<1> QED
  BY <1>1, AuthorityTyped, AuthorityInvariant, PTL

\* Without --force, the source that bootstrap declares from a candidate lacks nothing any
\* node has, whichever reads failed.
THEOREM CandidateIsSafe ==
  Spec => [](pc = "chosen" /\ ~force /\ best # NoNode => \A n \in Nodes : Includes(chosen, n))
<1>1. AuthorityInv =>
        (pc = "chosen" /\ ~force /\ best # NoNode => \A n \in Nodes : Includes(chosen, n))
  BY DEF AuthorityInv, Source, BellyUp
<1> QED
  BY <1>1, AuthorityInvariant, PTL

\* Without --force, no bootstrap source lacks anything any node has, if a wsrep_recover
\* never fails on a cluster without a candidate.
THEOREM BootstrapIsSafe == ~MayMissReads => (Spec => []BootstrapLosesNothing)
<1> SUFFICES ASSUME ~MayMissReads PROVE Spec => []BootstrapLosesNothing
  OBVIOUS
<1>1. AuthorityInv => BootstrapLosesNothing
  BY DEF AuthorityInv, Source, BootstrapLosesNothing
<1> QED
  BY <1>1, AuthorityInvariant, PTL
=============================================================================
