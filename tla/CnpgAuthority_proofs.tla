------------------------ MODULE CnpgAuthority_proofs ------------------------
(***************************************************************************)
(* What triage's verdict on a CloudNativePG cluster is worth: for any      *)
(* lineage of timelines, any number of instances, any reads that fail and  *)
(* any order, an instance declared the authority has every record that was *)
(* seen on another, so that neither a reseed nor a promotion loses one.    *)
(*                                                                         *)
(* A history and the records that a timeline began with are defined by     *)
(* recursion on the timeline.  They are shown to satisfy their equations,  *)
(* and what holds of all timelines is shown of the least that could fail.  *)
(***************************************************************************)
EXTENDS CnpgAuthority, FiniteSetTheorems, SequenceTheorems, WellFoundedInduction, TLAPS

-----------------------------------------------------------------------------
(* Lineages *)

\* Timelines are numbered in the order in which they were forked, each at an LSN that
\* its parent had reached.
Lineages ==
  /\ parent \in [2..MaxTimeline -> Timelines]
  /\ \A t \in 2..MaxTimeline : parent[t] < t
  /\ fork \in [2..MaxTimeline -> 1..MaxLSN]
  /\ \A t \in 2..MaxTimeline : Start(parent[t]) <= fork[t]

\* A set of naturals that is not empty has a least member.
LEMMA LeastIs ==
  ASSUME NEW T, T \subseteq Nat, T # {}
  PROVE  \E n \in T : \A m \in T : n <= m
<1>1. PICK n \in T : \A m \in T : ~(<<m, n>> \in OpToRel(<, Nat))
  BY WFMin, NatLessThanWellFounded
<1>2. ASSUME NEW m \in T PROVE n <= m
  <2>1. ~(m < n)
    BY <1>1 DEF OpToRel
  <2> QED
    BY <2>1
<1> QED
  BY <1>2

\* What holds of a timeline once it holds of the lower ones holds of all.
LEMMA ByTimeline ==
  ASSUME NEW S,
         \A t \in Timelines : (\A u \in 1..(t - 1) : u \in S) => t \in S
  PROVE  Timelines \subseteq S
<1> DEFINE T == Timelines \ S
<1>1. ASSUME T # {} PROVE FALSE
  <2>1. T \subseteq Nat
    BY DEF Timelines
  <2> HIDE DEF T
  <2>2. PICK n \in T : \A m \in T : n <= m
    BY <1>1, <2>1, LeastIs
  <2>3. n \in Timelines /\ n \notin S
    BY DEF T
  <2>4. ASSUME NEW u \in 1..(n - 1) PROVE u \in S
    <3>1. u \in Timelines /\ ~(n <= u)
      BY <2>3, LineageAssumption DEF Timelines
    <3> QED
      BY <2>2, <3>1 DEF T
  <2> QED
    BY <2>3, <2>4
<1> QED
  BY <1>1

\* A timeline's parent is a lower one.
LEMMA Parents ==
  ASSUME Lineages, NEW t \in Timelines, t # 1
  PROVE  /\ t \in 2..MaxTimeline
         /\ parent[t] \in Timelines /\ parent[t] \in 1..(t - 1)
         /\ fork[t] \in 1..MaxLSN /\ Start(t) = fork[t] /\ Start(parent[t]) <= fork[t]
  BY LineageAssumption DEF Lineages, Timelines, Start

\* A timeline starts at an LSN.
LEMMA Starts ==
  ASSUME Lineages, NEW t \in Timelines
  PROVE  Start(t) \in Nat
<1>1. CASE t = 1
  BY <1>1 DEF Start
<1>2. CASE t # 1
  BY <1>2, Parents
<1> QED
  BY <1>1, <1>2

-----------------------------------------------------------------------------
(* The two functions that are defined along the lineage satisfy their equations. *)

NextHistory(h, t) == IF t = 1 THEN <<>> ELSE Append(h[parent[t]], <<parent[t], fork[t]>>)

\* A timeline's history is its parent's and the switch.
LEMMA HistoryUnfolds ==
  ASSUME Lineages
  PROVE  History = [t \in Timelines |-> NextHistory(History, t)]
<1> DEFINE Solves(h, n) == h = [t \in 1..n |-> NextHistory(h, t)]
           S == {n \in Timelines : \E h : Solves(h, n)}
<1>1. ASSUME NEW n \in Timelines, \A u \in 1..(n - 1) : u \in S PROVE n \in S
  <2>1. PICK h : n # 1 => Solves(h, n - 1)
    BY <1>1 DEF Timelines
  <2> DEFINE g == [t \in 1..n |-> IF t = n THEN NextHistory(h, n) ELSE h[t]]
  <2>2. ASSUME NEW t \in 1..n PROVE g[t] = NextHistory(g, t)
    <3>1. t \in Timelines /\ (t # n => t \in 1..(n - 1))
      BY LineageAssumption DEF Timelines
    <3>2. t # 1 => parent[t] \in 1..n /\ parent[t] # n /\ g[parent[t]] = h[parent[t]]
      BY <3>1, Parents DEF Timelines
    <3>3. NextHistory(g, t) = NextHistory(h, t)
      BY <3>2 DEF NextHistory
    <3>4. n # 1 => \A u \in 1..(n - 1) : h[u] = NextHistory(h, u)
      BY <2>1
    <3>5. t # n => n # 1
      OBVIOUS
    <3> QED
      BY <3>1, <3>3, <3>4, <3>5
  <2>3. g = [t \in 1..n |-> g[t]]
    OBVIOUS
  <2> HIDE DEF g
  <2>4. Solves(g, n)
    BY <2>2, <2>3
  <2> QED
    BY <2>4
<1> HIDE DEF S
<1>2. MaxTimeline \in S
  BY <1>1, ByTimeline, LineageAssumption DEF Timelines
<1>3. \E h : h = [t \in Timelines |-> IF t = 1 THEN <<>> ELSE Append(h[parent[t]], <<parent[t], fork[t]>>)]
  BY <1>2, Zenon DEF S, Timelines, NextHistory
<1>4. History = [t \in Timelines |-> IF t = 1 THEN <<>> ELSE Append(History[parent[t]], <<parent[t], fork[t]>>)]
  BY <1>3, Zenon DEF History
<1> QED
  BY <1>4, Zenon DEF NextHistory

\* The records that the timeline of position p added, as far as p.
Branch(p) == {<<p[1], m>> : m \in (Start(p[1]) + 1)..p[2]}

NextInherited(I, t) == IF t = 1 THEN {} ELSE I[parent[t]] \cup Branch(<<parent[t], fork[t]>>)

\* A timeline begins with what its parent began with, and what that added up to the fork.
LEMMA InheritedUnfolds ==
  ASSUME Lineages
  PROVE  Inherited = [t \in Timelines |-> NextInherited(Inherited, t)]
<1> DEFINE Solves(h, n) == h = [t \in 1..n |-> NextInherited(h, t)]
           S == {n \in Timelines : \E h : Solves(h, n)}
<1>1. ASSUME NEW n \in Timelines, \A u \in 1..(n - 1) : u \in S PROVE n \in S
  <2>1. PICK h : n # 1 => Solves(h, n - 1)
    BY <1>1 DEF Timelines
  <2> DEFINE g == [t \in 1..n |-> IF t = n THEN NextInherited(h, n) ELSE h[t]]
  <2>2. ASSUME NEW t \in 1..n PROVE g[t] = NextInherited(g, t)
    <3>1. t \in Timelines /\ (t # n => t \in 1..(n - 1))
      BY LineageAssumption DEF Timelines
    <3>2. t # 1 => parent[t] \in 1..n /\ parent[t] # n /\ g[parent[t]] = h[parent[t]]
      BY <3>1, Parents DEF Timelines
    <3>3. NextInherited(g, t) = NextInherited(h, t)
      BY <3>2 DEF NextInherited
    <3>4. n # 1 => \A u \in 1..(n - 1) : h[u] = NextInherited(h, u)
      BY <2>1
    <3>5. t # n => n # 1
      OBVIOUS
    <3> QED
      BY <3>1, <3>3, <3>4, <3>5
  <2>3. g = [t \in 1..n |-> g[t]]
    OBVIOUS
  <2> HIDE DEF g
  <2>4. Solves(g, n)
    BY <2>2, <2>3
  <2> QED
    BY <2>4
<1> HIDE DEF S
<1>2. MaxTimeline \in S
  BY <1>1, ByTimeline, LineageAssumption DEF Timelines
<1>3. PICK h : h = [t \in Timelines |-> NextInherited(h, t)]
  BY <1>2, Zenon DEF S, Timelines
<1>4. ASSUME NEW I, NEW t
      PROVE  NextInherited(I, t) =
               IF t = 1 THEN {}
               ELSE I[parent[t]] \cup {<<parent[t], m>> : m \in (Start(parent[t]) + 1)..fork[t]}
  BY DEF NextInherited, Branch
<1>5. \E I : I = [t \in Timelines |->
                   IF t = 1 THEN {}
                   ELSE I[parent[t]] \cup {<<parent[t], m>> : m \in (Start(parent[t]) + 1)..fork[t]}]
  BY <1>3, <1>4, Zenon
<1>6. Inherited = [t \in Timelines |->
                   IF t = 1 THEN {}
                   ELSE Inherited[parent[t]]
                          \cup {<<parent[t], m>> : m \in (Start(parent[t]) + 1)..fork[t]}]
  BY <1>5, Zenon DEF Inherited
<1> QED
  BY <1>4, <1>6, Zenon

-----------------------------------------------------------------------------
(* Histories *)

\* Where the branch that a history's i-th switch leaves had begun.
Began(h, i) == IF i = 1 THEN 0 ELSE h[i - 1][2]

\* A history's switches chain: each leaves a lower timeline than the history's, at no
\* lower LSN than where that timeline began; the last is where this one begins.
Chains(t) ==
  LET h == History[t] IN
  /\ h \in Seq(Timelines \X (1..MaxLSN))
  /\ \A i \in 1..Len(h) : /\ Start(h[i][1]) = Began(h, i)
                          /\ Began(h, i) <= h[i][2]
  /\ \A i, j \in 1..Len(h) : i <= j => h[i][2] <= h[j][2]
  /\ Start(t) = Began(h, Len(h) + 1)
  /\ \A i \in 1..Len(h) : h[i][2] <= Start(t)

LEMMA HistoryChains ==
  ASSUME Lineages, NEW t \in Timelines
  PROVE  Chains(t)
<1> DEFINE S == {u \in Timelines : Chains(u)}
<1>1. ASSUME NEW u \in Timelines, \A v \in 1..(u - 1) : v \in S PROVE u \in S
  <2> DEFINE h == History[u]
  <2>1. CASE u = 1
    <3>1. h = <<>> /\ Len(h) = 0
      BY <2>1, HistoryUnfolds DEF NextHistory
    <3>2. h \in Seq(Timelines \X (1..MaxLSN)) /\ Start(u) = 0
      BY <2>1, <3>1 DEF Start
    <3>3. 1..Len(h) = {} /\ Began(h, Len(h) + 1) = 0
      BY <3>1 DEF Began
    <3> HIDE DEF h
    <3>4. Chains(u)
      BY <3>2, <3>3 DEF Chains, h
    <3> QED
      BY <3>4
  <2>2. CASE u # 1
    <3> DEFINE g == History[parent[u]]
               s == <<parent[u], fork[u]>>
    <3>1. /\ parent[u] \in Timelines /\ fork[u] \in 1..MaxLSN
          /\ Start(u) = fork[u] /\ Start(parent[u]) <= fork[u] /\ Chains(parent[u])
      BY <1>1, <2>2, Parents
    <3>2. h = Append(g, s)
      BY <2>2, HistoryUnfolds DEF NextHistory
    <3>3. s \in Timelines \X (1..MaxLSN) /\ s[1] = parent[u] /\ s[2] = fork[u]
      BY <3>1
    <3>4. g \in Seq(Timelines \X (1..MaxLSN)) /\ Len(g) \in Nat
      BY <3>1 DEF Chains
    <3>5. /\ h \in Seq(Timelines \X (1..MaxLSN)) /\ Len(h) = Len(g) + 1
          /\ h[Len(g) + 1] = s
          /\ \A i \in 1..Len(g) : h[i] = g[i]
      BY <3>2, <3>3, <3>4, AppendProperties
    <3> HIDE DEF g, s, h
    <3>6. \A i \in 1..(Len(g) + 1) : Began(h, i) = Began(g, i)
      <4>1. \A i \in 1..(Len(g) + 1) : i = 1 \/ i - 1 \in 1..Len(g)
        BY <3>4
      <4> QED
        BY <3>5, <4>1 DEF Began
    <3>7. Start(parent[u]) = Began(g, Len(g) + 1)
      BY <3>1 DEF Chains, g
    <3>8. \A i \in 1..Len(g) : /\ Start(g[i][1]) = Began(g, i) /\ Began(g, i) <= g[i][2]
                               /\ g[i][2] <= Start(parent[u]) /\ g[i][2] \in Nat
      BY <3>1, <3>4 DEF Chains, g
    <3>9. \A i \in 1..Len(h) : i \in 1..Len(g) \/ i = Len(g) + 1
      BY <3>4, <3>5
    <3>10. \A i \in 1..Len(h) : /\ Start(h[i][1]) = Began(h, i) /\ Began(h, i) <= h[i][2]
      <4>1. \A i \in 1..Len(g) : i \in 1..(Len(g) + 1)
        BY <3>4
      <4>2. ASSUME NEW i \in 1..Len(g) PROVE Start(h[i][1]) = Began(h, i) /\ Began(h, i) <= h[i][2]
        BY <3>5, <3>6, <3>8, <4>1
      <4>3. Start(h[Len(g) + 1][1]) = Began(h, Len(g) + 1) /\ Began(h, Len(g) + 1) <= h[Len(g) + 1][2]
        BY <3>1, <3>3, <3>4, <3>5, <3>6, <3>7
      <4> QED
        BY <3>9, <4>2, <4>3
    <3>11. Start(u) = Began(h, Len(h) + 1)
      BY <3>1, <3>3, <3>4, <3>5 DEF Began
    <3>12. \A i \in 1..Len(g) : g[i][2] <= fork[u]
      BY <3>1, <3>7, <3>8 DEF Began
    <3>13. \A i \in 1..Len(h) : h[i][2] <= Start(u)
      BY <3>1, <3>3, <3>5, <3>9, <3>12
    <3>14. \A i, j \in 1..Len(g) : i <= j => g[i][2] <= g[j][2]
      BY <3>1 DEF Chains, g
    <3>15. \A i, j \in 1..Len(h) : i <= j => h[i][2] <= h[j][2]
      <4> SUFFICES ASSUME NEW i \in 1..Len(h), NEW j \in 1..Len(h), i <= j PROVE h[i][2] <= h[j][2]
        OBVIOUS
      <4>1. CASE j = Len(g) + 1
        BY <3>1, <3>3, <3>5, <3>13, <4>1
      <4>2. CASE j # Len(g) + 1
        <5>1. i \in 1..Len(g) /\ j \in 1..Len(g)
          BY <3>4, <3>9, <4>2
        <5> QED
          BY <3>5, <3>14, <5>1
      <4> QED
        BY <4>1, <4>2
    <3> QED
      BY <3>5, <3>10, <3>11, <3>13, <3>15 DEF Chains, h
  <2> QED
    BY <2>1, <2>2
<1> HIDE DEF S
<1>2. Timelines \subseteq S
  BY <1>1, ByTimeline
<1> QED
  BY <1>2 DEF S

\* What a timeline began with: the branches that its history lists.
LEMMA InheritedIs ==
  ASSUME Lineages, NEW t \in Timelines
  PROVE  Inherited[t] = UNION {Branch(History[t][i]) : i \in 1..Len(History[t])}
<1> DEFINE Listed(u) == UNION {Branch(History[u][i]) : i \in 1..Len(History[u])}
           S == {u \in Timelines : Inherited[u] = Listed(u)}
<1>1. ASSUME NEW u \in Timelines, \A v \in 1..(u - 1) : v \in S PROVE u \in S
  <2>1. CASE u = 1
    <3>1. Len(History[u]) = 0 /\ Inherited[u] = {}
      <4>1. History[u] = <<>>
        BY <2>1, HistoryUnfolds DEF NextHistory
      <4>2. Inherited[u] = {}
        BY <2>1, InheritedUnfolds DEF NextInherited
      <4> QED
        BY <4>1, <4>2
    <3>2. 1..Len(History[u]) = {}
      BY <3>1
    <3> QED
      BY <3>1, <3>2
  <2>2. CASE u # 1
    <3> DEFINE g == History[parent[u]]
               s == <<parent[u], fork[u]>>
    <3>1. /\ parent[u] \in Timelines /\ fork[u] \in 1..MaxLSN
          /\ Inherited[parent[u]] = Listed(parent[u])
      BY <1>1, <2>2, Parents
    <3>2. History[u] = Append(g, s) /\ Inherited[u] = Inherited[parent[u]] \cup Branch(s)
      BY <2>2, HistoryUnfolds, InheritedUnfolds DEF NextHistory, NextInherited
    <3>3. g \in Seq(Timelines \X (1..MaxLSN)) /\ Len(g) \in Nat
      BY <3>1, HistoryChains DEF Chains
    <3>4. s \in Timelines \X (1..MaxLSN)
      BY <3>1
    <3>5. /\ Len(History[u]) = Len(g) + 1
          /\ History[u][Len(g) + 1] = s
          /\ \A i \in 1..Len(g) : History[u][i] = g[i]
      BY <3>2, <3>3, <3>4, AppendProperties
    <3>6. Listed(parent[u]) = UNION {Branch(g[i]) : i \in 1..Len(g)}
      OBVIOUS
    <3> HIDE DEF g, s
    <3>7. Listed(u) = (UNION {Branch(g[i]) : i \in 1..Len(g)}) \cup Branch(s)
      <4>1. \A i \in 1..Len(History[u]) : i \in 1..Len(g) \/ i = Len(g) + 1
        BY <3>3, <3>5
      <4>2. \A i \in 1..Len(g) : i \in 1..Len(History[u])
        BY <3>3, <3>5
      <4>3. Len(g) + 1 \in 1..Len(History[u])
        BY <3>3, <3>5
      <4> QED
        BY <3>5, <4>1, <4>2, <4>3
    <3> QED
      BY <3>1, <3>2, <3>6, <3>7
  <2> QED
    BY <2>1, <2>2
<1> HIDE DEF S
<1>2. Timelines \subseteq S
  BY <1>1, ByTimeline
<1> QED
  BY <1>2 DEF S

-----------------------------------------------------------------------------
(* The comparison of two positions *)

\* CommonPrefixLen counts switches on which the histories agree, from the first.
LEMMA PrefixIs ==
  ASSUME NEW X, NEW s \in Seq(X), NEW t \in Seq(X)
  PROVE  /\ CommonPrefixLen(s, t) \in 0..Len(s) /\ CommonPrefixLen(s, t) \in 0..Len(t)
         /\ \A j \in 1..CommonPrefixLen(s, t) : s[j] = t[j]
<1> DEFINE n == IF Len(s) <= Len(t) THEN Len(s) ELSE Len(t)
           Agree == {i \in DOMAIN s \cap DOMAIN t : \A j \in 1..i : s[j] = t[j]}
           Differ == {i \in 1..n : s[i] # t[i]}
<1>1. n \in Nat /\ n <= Len(s) /\ n <= Len(t) /\ DOMAIN s \cap DOMAIN t = 1..n
  BY LenProperties
<1> HIDE DEF n
<1>2. \E k \in 0..n : Agree = 1..k
  <2>1. CASE Differ = {}
    <3>1. Agree = 1..n
      BY <1>1, <2>1
    <3> QED
      BY <1>1, <3>1
  <2>2. CASE Differ # {}
    <3>1. Differ \subseteq Nat
      BY <1>1
    <3> HIDE DEF Differ
    <3>2. PICK d \in Differ : \A m \in Differ : d <= m
      BY <2>2, <3>1, LeastIs
    <3>3. d \in 1..n /\ s[d] # t[d]
      BY <3>2 DEF Differ
    <3>4. \A j \in 1..(d - 1) : s[j] = t[j]
      BY <1>1, <3>2, <3>3 DEF Differ
    <3>5. Agree = 1..(d - 1)
      BY <1>1, <3>3, <3>4
    <3>6. d - 1 \in 0..n
      BY <1>1, <3>3
    <3> HIDE DEF Agree
    <3> QED
      BY <3>5, <3>6
  <2> QED
    BY <2>1, <2>2
<1>3. PICK k \in 0..n : Agree = 1..k
  BY <1>2
<1>4. CommonPrefixLen(s, t) = k
  <2>1. Cardinality(1..k) = k
    BY <1>1, <1>3, FS_Interval
  <2> QED
    BY <1>3, <2>1 DEF CommonPrefixLen
<1>5. \A j \in 1..k : s[j] = t[j]
  BY <1>1, <1>3
<1> QED
  BY <1>1, <1>4, <1>5, LenProperties

\* An instance has the records of the branches its history lists, and of its own.
LEMMA WalIs ==
  ASSUME Lineages, NEW p \in Positions, NEW r
  PROVE  r \in Wal(p) <=>
           r \in Branch(p) \/ \E i \in 1..Len(History[p[1]]) : r \in Branch(History[p[1]][i])
<1>1. p[1] \in Timelines /\ p # Nowhere
  BY DEF Positions, Nowhere, Timelines
<1>2. Wal(p) = Inherited[p[1]] \cup Branch(p)
  BY <1>1 DEF Wal, Branch
<1> QED
  BY <1>1, <1>2, InheritedIs

\* An instance no further than its history's n-th switch has records of the branches
\* up to that one only: later ones began there, and hold nothing yet.
LEMMA OldRecords ==
  ASSUME Lineages, NEW p \in Positions,
         NEW n \in 0..Len(History[p[1]]), p[2] <= Began(History[p[1]], n + 1),
         NEW r \in Wal(p)
  PROVE  \E i \in 1..n : r \in Branch(History[p[1]][i])
<1> DEFINE h == History[p[1]]
<1>1. p[1] \in Timelines /\ p[2] \in Nat /\ p[2] >= 1 /\ p[2] >= Start(p[1])
  BY DEF Positions
<1>2. Chains(p[1])
  BY <1>1, HistoryChains
<1>3. /\ Len(h) \in Nat
      /\ \A i \in 1..Len(h) : h[i][1] \in Timelines /\ h[i][2] \in Nat
  BY <1>2 DEF Chains
<1>4. r \in Branch(p) \/ \E i \in 1..Len(h) : r \in Branch(h[i])
  BY WalIs
<1> HIDE DEF h
<1>5. /\ \A i \in 1..Len(h) : Start(h[i][1]) = Began(h, i)
      /\ \A i, j \in 1..Len(h) : i <= j => h[i][2] <= h[j][2]
      /\ \A i \in 1..Len(h) : h[i][2] <= Start(p[1])
      /\ Start(p[1]) = Began(h, Len(h) + 1)
  BY <1>2 DEF Chains, h
<1>6. Start(p[1]) \in Nat
  BY <1>3, <1>5 DEF Began
<1>7. n \in 1..Len(h) /\ p[2] <= h[n][2] /\ h[n][2] <= Start(p[1])
  <2>1. n # 0
    BY <1>1 DEF Began
  <2>2. n \in 1..Len(h)
    BY <1>3, <2>1 DEF h
  <2>3. Began(h, n + 1) = h[n][2]
    BY <2>2 DEF Began
  <2> QED
    BY <1>5, <2>2, <2>3 DEF h
<1>8. ASSUME r \in Branch(p) PROVE FALSE
  <2>1. r[2] > Start(p[1]) /\ r[2] <= p[2] /\ r[2] \in Int
    BY <1>1, <1>6, <1>8 DEF Branch
  <2> QED
    BY <1>1, <1>3, <1>6, <1>7, <2>1
<1>9. ASSUME NEW i \in 1..Len(h), r \in Branch(h[i]), i > n PROVE FALSE
  <2>1. i - 1 \in 1..Len(h) /\ n <= i - 1 /\ Began(h, i) = h[i - 1][2]
    BY <1>3, <1>7, <1>9 DEF Began
  <2>2. r[2] > h[i - 1][2] /\ r[2] <= h[i][2] /\ r[2] \in Int
    BY <1>3, <1>5, <1>9, <2>1 DEF Branch
  <2>3. h[n][2] <= h[i - 1][2] /\ h[i][2] <= Start(p[1])
    BY <1>5, <1>7, <2>1
  <2>4. h[i][2] \in Nat /\ h[i - 1][2] \in Nat /\ h[n][2] \in Nat
    BY <1>3, <1>7, <2>1
  <2>5. h[i][2] <= p[2]
    BY <1>1, <1>6, <2>3, <2>4
  <2>6. p[2] <= h[i - 1][2]
    <3>1. p[2] <= h[n][2] /\ h[n][2] <= h[i - 1][2]
      BY <1>7, <2>3
    <3>2. ASSUME NEW a \in Nat, NEW b \in Nat, NEW c \in Nat, a <= b, b <= c PROVE a <= c
      BY <3>2
    <3> QED
      BY <1>1, <2>4, <3>1, <3>2
  <2> QED
    BY <1>1, <2>2, <2>4, <2>5, <2>6
<1>10. PICK i \in 1..Len(h) : r \in Branch(h[i])
  BY <1>4, <1>8
<1>11. i \in 1..n
  BY <1>3, <1>7, <1>9, <1>10
<1> QED
  BY <1>10, <1>11 DEF h

\* What "over" and "equal" claim.
Covers(p, q) == Wal(q) \subseteq Wal(p)

\* A history that extends another: the branches of the other one are its first.
LEMMA ExtendedBranches ==
  ASSUME Lineages, NEW p \in Positions, NEW q \in Positions,
         NEW k \in 0..Len(History[p[1]]),
         \A j \in 1..k : History[p[1]][j] = History[q[1]][j],
         NEW r, \E j \in 1..k : r \in Branch(History[q[1]][j])
  PROVE  r \in Wal(p)
<1>1. Len(History[p[1]]) \in Nat
  BY HistoryChains DEF Positions, Chains
<1>2. PICK j \in 1..k : r \in Branch(History[p[1]][j])
  OBVIOUS
<1>3. j \in 1..Len(History[p[1]])
  BY <1>1
<1> QED
  BY <1>2, <1>3, WalIs

\* Relate is right whenever it finds that p has all that q has.
LEMMA RelateSound ==
  ASSUME Lineages, NEW p \in Positions, NEW q \in Positions, Relate(p, q) \in {"over", "equal"}
  PROVE  Covers(p, q)
<1> DEFINE hp == History[p[1]]
           hq == History[q[1]]
           k  == CommonPrefixLen(hp, hq)
<1>1. p[1] \in Timelines /\ q[1] \in Timelines /\ p[2] \in Nat /\ q[2] \in Nat
  BY DEF Positions
<1>2. Chains(p[1]) /\ Chains(q[1])
  BY <1>1, HistoryChains
<1>3. hp \in Seq(Timelines \X (1..MaxLSN)) /\ hq \in Seq(Timelines \X (1..MaxLSN))
  BY <1>2 DEF Chains
<1>4. /\ k \in 0..Len(hp) /\ k \in 0..Len(hq) /\ \A j \in 1..k : hp[j] = hq[j]
      /\ Len(hp) \in Nat /\ Len(hq) \in Nat
  <2> HIDE DEF hp, hq
  <2>1. Len(hp) \in Nat /\ Len(hq) \in Nat
    BY <1>3
  <2> QED
    BY <1>3, <2>1, PrefixIs
<1>5. /\ \A i \in 1..Len(hp) : hp[i][1] \in Timelines /\ hp[i][2] \in Nat
      /\ \A i \in 1..Len(hq) : hq[i][1] \in Timelines /\ hq[i][2] \in Nat
  BY <1>3
<1>6. ASSUME NEW a, NEW b, a[1] = b[1], a[2] <= b[2], Start(a[1]) \in Nat, a[2] \in Nat, b[2] \in Nat
      PROVE  Branch(a) \subseteq Branch(b)
  BY <1>6 DEF Branch
<1>7. Start(p[1]) \in Nat /\ Start(q[1]) \in Nat
  BY <1>1, Starts
<1> SUFFICES ASSUME NEW r \in Wal(q) PROVE r \in Wal(p)
  BY DEF Covers
<1> HIDE DEF hp, hq, k
<1>8. CASE k = Len(hp) /\ k = Len(hq)
  <2>1. Relate(p, q) = SameLineage(p, q)
    BY <1>8 DEF Relate, hp, hq, k
  <2>2. p[1] = q[1] /\ q[2] <= p[2]
    <3>1. p[1] # q[1] => SameLineage(p, q) = "diverge"
      BY DEF SameLineage
    <3>2. p[1] = q[1] /\ p[2] < q[2] => SameLineage(p, q) = "under"
      BY <1>1 DEF SameLineage
    <3> QED
      BY <1>1, <2>1, <3>1, <3>2
  <2>3. Branch(q) \subseteq Branch(p)
    BY <1>1, <1>6, <1>7, <2>2
  <2> QED
    BY <2>2, <2>3, WalIs
<1>9. CASE k # Len(hp) /\ k = Len(hq)
  <2>1. Relate(p, q) = ExtensionRelation(p, q)
    BY <1>9 DEF Relate, hp, hq, k
  <2>2. hp[k + 1][1] = q[1] /\ q[2] <= hp[k + 1][2]
    BY <1>9, <2>1 DEF ExtensionRelation, hp, hq
  <2>3. k + 1 \in 1..Len(hp)
    BY <1>4, <1>9
  <2>4. Branch(q) \subseteq Branch(hp[k + 1])
    BY <1>1, <1>5, <1>6, <1>7, <2>2, <2>3
  <2>5. CASE r \in Branch(q)
    BY <2>3, <2>4, <2>5, WalIs DEF hp
  <2>6. CASE r \notin Branch(q)
    <3>1. \E j \in 1..k : r \in Branch(hq[j])
      BY <1>9, <2>6, WalIs DEF hq
    <3> QED
      BY <1>4, <3>1, ExtendedBranches DEF hp, hq
  <2> QED
    BY <2>5, <2>6
<1>10. CASE k = Len(hp) /\ k # Len(hq)
  <2>1. Mirror(ExtensionRelation(q, p)) \in {"over", "equal"}
    BY <1>10 DEF Relate, hp, hq, k
  <2>2. ExtensionRelation(q, p) = "under"
    BY <2>1 DEF Mirror, ExtensionRelation
  <2>3. hq[k + 1][1] = p[1] /\ ~(p[2] <= hq[k + 1][2]) /\ q[2] <= hq[k + 1][2]
    BY <1>10, <2>2 DEF ExtensionRelation, hp, hq
  <2>4. k + 1 \in 1..Len(hq)
    BY <1>4, <1>10
  <2>5. Began(hq, k + 1 + 1) = hq[k + 1][2]
    BY <1>4 DEF Began
  <2>6. PICK i \in 1..(k + 1) : r \in Branch(hq[i])
    BY <2>3, <2>4, <2>5, OldRecords DEF hq
  <2>7. CASE i = k + 1
    <3>1. Branch(hq[k + 1]) \subseteq Branch(p)
      <4>1. hq[k + 1][2] \in Nat
        BY <1>5, <2>4
      <4>2. hq[k + 1][2] <= p[2]
        BY <1>1, <2>3, <4>1
      <4> QED
        BY <1>1, <1>6, <1>7, <2>3, <4>1, <4>2
    <3> QED
      BY <2>6, <2>7, <3>1, WalIs
  <2>8. CASE i # k + 1
    <3>1. i \in 1..k
      BY <1>4, <2>8
    <3> QED
      BY <1>4, <2>6, <3>1, ExtendedBranches DEF hp, hq
  <2> QED
    BY <2>7, <2>8
<1>11. CASE k # Len(hp) /\ k # Len(hq)
  <2>1. ForkRelation(p, q, k) \in {"over", "equal"}
    BY <1>11 DEF Relate, hp, hq, k
  <2>2. q[2] <= (IF k = 0 THEN 0 ELSE hp[k][2])
    <3> DEFINE lsn == IF k = 0 THEN 0 ELSE hp[k][2]
    <3>1. lsn \in Nat
      BY <1>4, <1>5
    <3>2. ForkRelation(p, q, k) =
            CASE p[2] > lsn /\ q[2] > lsn -> "diverge"
              [] p[2] > lsn /\ q[2] <= lsn -> "over"
              [] p[2] <= lsn /\ q[2] > lsn -> "under"
              [] OTHER -> "equal"
      BY DEF ForkRelation, hp
    <3> HIDE DEF lsn
    <3>3. q[2] > lsn => ForkRelation(p, q, k) \in {"diverge", "under"}
      BY <1>1, <3>1, <3>2
    <3> QED
      BY <1>1, <2>1, <3>1, <3>3 DEF lsn
  <2>3. q[2] <= Began(hq, k + 1)
    BY <1>4, <2>2 DEF Began
  <2>4. \E i \in 1..k : r \in Branch(hq[i])
    BY <1>4, <2>3, OldRecords DEF hq
  <2> QED
    BY <1>4, <2>4, ExtendedBranches DEF hp, hq
<1> QED
  BY <1>8, <1>9, <1>10, <1>11

-----------------------------------------------------------------------------
(* Types *)

\* A reading is of a position that the instance has passed; one that says the instance
\* is empty is right.
LEMMA ReadingIs ==
  ASSUME at \in [Instances -> Positions \cup {Nowhere}], NEW i \in Instances, NEW x \in Readings(i)
  PROVE  /\ x.evidence \in {"full", "controldata", "empty", "silent"}
         /\ x.checkpoint \in Positions \cup {Nowhere}
         /\ x.evidence \in {"full", "controldata"} =>
              x.checkpoint \in Positions /\ Covers(at[i], x.checkpoint)
         /\ x.evidence = "empty" => at[i] = Nowhere
<1>1. CASE x = Exact(i)
  BY <1>1 DEF Exact, Covers
<1>2. CASE x = [evidence |-> "silent", checkpoint |-> Nowhere]
  BY <1>2
<1>3. CASE \E e \in {"full", "controldata"}, p \in Passed(at[i]) :
             x = [evidence |-> e, checkpoint |-> p]
  <2>1. PICK e \in {"full", "controldata"}, p \in Passed(at[i]) :
               x = [evidence |-> e, checkpoint |-> p]
    BY <1>3
  <2>2. p \in Positions /\ Covers(at[i], p)
    BY <2>1 DEF Passed, Covers
  <2>3. x.evidence = e /\ x.checkpoint = p
    BY <2>1
  <2> QED
    BY <2>2, <2>3
<1> QED
  BY <1>1, <1>2, <1>3 DEF Readings

\* What Collect writes of each instance is one of its readings.
LEMMA CollectIs ==
  ASSUME Collect
  PROVE  /\ evidence' \in [Instances -> {evidence'[i] : i \in Instances}]
         /\ checkpoint' \in [Instances -> {checkpoint'[i] : i \in Instances}]
         /\ \A i \in Instances :
              \E x \in Readings(i) : evidence'[i] = x.evidence /\ checkpoint'[i] = x.checkpoint
<1>1. PICK S \in SUBSET Instances : \E r \in [S -> UNION {Readings(i) : i \in S}] :
         /\ \A i \in S : r[i] \in Readings(i)
         /\ evidence' = [i \in Instances |-> IF i \in S THEN r[i].evidence ELSE Exact(i).evidence]
         /\ checkpoint' = [i \in Instances |-> IF i \in S THEN r[i].checkpoint ELSE at[i]]
  BY DEF Collect
<1>2. PICK r \in [S -> UNION {Readings(i) : i \in S}] :
         /\ \A i \in S : r[i] \in Readings(i)
         /\ evidence' = [i \in Instances |-> IF i \in S THEN r[i].evidence ELSE Exact(i).evidence]
         /\ checkpoint' = [i \in Instances |-> IF i \in S THEN r[i].checkpoint ELSE at[i]]
  BY <1>1
<1>3. ASSUME NEW i \in Instances
      PROVE  \E x \in Readings(i) : evidence'[i] = x.evidence /\ checkpoint'[i] = x.checkpoint
  <2>1. CASE i \in S
    BY <1>2, <2>1
  <2>2. CASE i \notin S
    <3>1. Exact(i) \in Readings(i) /\ Exact(i).checkpoint = at[i]
      BY DEF Readings, Exact
    <3> QED
      BY <1>2, <2>2, <3>1
  <2> QED
    BY <2>1, <2>2
<1> QED
  BY <1>2, <1>3

\* A plan is one of those that an operator may be told.
LEMMA PlanIs ==
  ASSUME Order
  PROVE  plan' \in {"nothing", "refused", "restart", "reseed", "promote"}
<1>1. PICK condition \in Conditions(target'), retained \in BOOLEAN :
        plan' \in {PlanUntargeted(target', Remediation(target', condition, retained)),
                   PlanTargeted(target', Remediation(target', condition, retained), force'),
                   PlanPromotion(target', force')}
  BY DEF Order
<1>2. Remediation(target', condition, retained) \in {"none", "restart", "reseed"}
  BY DEF Remediation
<1> QED
  BY <1>1, <1>2 DEF PlanUntargeted, PlanTargeted, PlanPromotion

\* Triage's readings and verdict, and the order given, stay in their types.
THEOREM AuthorityTyped == Spec => []TypeOK
<1>1. Init => TypeOK
  BY DEF Init, TypeOK
<1>2. TypeOK /\ [Next]_vars => TypeOK'
  <2> SUFFICES ASSUME TypeOK, [Next]_vars PROVE TypeOK'
    OBVIOUS
  <2> USE DEF TypeOK, truth, reads, content, verdict, order
  <2>0. ASSUME UNCHANGED truth PROVE (at \in [Instances -> Positions \cup {Nowhere}])'
    BY <2>0 DEF Positions, Start, Timelines
  <2>1. CASE Collect
    <3>1. ASSUME NEW i \in Instances
          PROVE  /\ evidence'[i] \in {"full", "controldata", "empty", "silent"}
                 /\ checkpoint'[i] \in Positions \cup {Nowhere}
      <4>1. PICK x \in Readings(i) : evidence'[i] = x.evidence /\ checkpoint'[i] = x.checkpoint
        BY <2>1, CollectIs
      <4> QED
        BY <4>1, ReadingIs
    <3>2. Positions' = Positions
      BY <2>1 DEF Collect, Positions, Start, Timelines
    <3>3. /\ evidence' \in [Instances -> {"full", "controldata", "empty", "silent"}]
          /\ checkpoint' \in [Instances -> Positions' \cup {Nowhere}]
      BY <2>1, <3>1, <3>2, CollectIs
    <3> QED
      BY <2>0, <2>1, <3>3 DEF Collect
  <2>2. CASE DeepRecover
    <3>1. Positions' = Positions
      BY <2>2 DEF DeepRecover, Positions, Start, Timelines
    <3> QED
      BY <2>0, <2>2, <3>1 DEF DeepRecover
  <2>3. CASE ReadContent
    <3>1. Positions' = Positions
      BY <2>3 DEF ReadContent, Positions, Start, Timelines
    <3>2. /\ witness' \in BOOLEAN /\ ledger' \subseteq Timelines
          /\ live' \subseteq Instances /\ copied' \subseteq Instances \ live'
      <4>1. CASE UNCHANGED content
        BY <4>1
      <4>2. CASE /\ witness' = TRUE /\ ledger' \in Ledgers
                 /\ live' \in SUBSET Readable /\ copied' \in SUBSET (Readable \ live')
        <5>1. ledger' \subseteq Timelines
          BY <4>2, LineageAssumption
        <5> QED
          BY <4>2, <5>1 DEF Readable
      <4> QED
        BY <2>3, <4>1, <4>2 DEF ReadContent
    <3>3. pc' = "decide" /\ UNCHANGED <<truth, reads, verdict, order>>
      BY <2>3 DEF ReadContent
    <3> QED
      BY <2>0, <3>1, <3>2, <3>3
  <2>4. CASE DetermineAuthority
    <3>1. Positions' = Positions
      BY <2>4 DEF DetermineAuthority, Positions, Start, Timelines
    <3>2. PickLeader \subseteq Instances
      BY DEF PickLeader, Candidates, Readable
    <3>3. /\ outcome' \in {"provable", "leaderNotPrimary", "diverged", "undeterminable"}
          /\ leader' \in Instances \cup {NoPod}
      BY <2>4, <3>2 DEF DetermineAuthority, Declare
    <3> QED
      BY <2>0, <2>4, <3>1, <3>3 DEF DetermineAuthority
  <2>5. CASE Order
    <3>1. Positions' = Positions
      BY <2>5 DEF Order, Positions, Start, Timelines
    <3> QED
      BY <2>0, <2>5, <3>1, PlanIs DEF Order
  <2>6. CASE Heal
    <3>1. Positions' = Positions
      BY <2>6 DEF Heal, Positions, Start, Timelines
    <3> QED
      BY <2>0, <2>6, <3>1 DEF Heal
  <2>7. CASE UNCHANGED vars
    <3>1. Positions' = Positions
      BY <2>7 DEF vars, Positions, Start, Timelines
    <3> QED
      BY <2>0, <2>7, <3>1 DEF vars
  <2> QED
    BY <2>1, <2>2, <2>3, <2>4, <2>5, <2>6, <2>7 DEF Next
<1> QED
  BY <1>1, <1>2, PTL DEF Spec

-----------------------------------------------------------------------------
(* The verdict *)

\* What triage read of an instance is there, and nobody's table was read unless a
\* witness was declared.
Reads ==
  /\ \A i \in Instances : evidence[i] \in {"full", "controldata"} =>
       checkpoint[i] \in Positions /\ Covers(at[i], checkpoint[i])
  /\ \A i \in Instances : evidence[i] = "empty" => at[i] = Nowhere
  /\ ~witness => live = {} /\ copied = {}

\* The hash of a witness covers the position column only: it tells rows apart where
\* no two branches number theirs alike.
Unambiguous == witness => ~SerialPositions

\* A read instance's position is one; of the others, triage found them empty, or
\* they count as not read.
LEMMA ReadableIs ==
  ASSUME TypeOK, NEW i \in Instances
  PROVE  /\ i \in Readable => evidence[i] \in {"full", "controldata"}
         /\ i \notin Readable /\ ReadState(i) # "unread" => evidence[i] = "empty"
  BY DEF TypeOK, Readable, ReadState

\* A record is its timeline and its LSN.
LEMMA WalTyped ==
  ASSUME Lineages, NEW p \in Positions \cup {Nowhere}, NEW r \in Wal(p)
  PROVE  r \in Timelines \X Nat
<1>1. p \in Positions
  <2>1. p # Nowhere
    BY DEF Wal
  <2> QED
    BY <2>1
<1>2. p[1] \in Timelines /\ p[2] \in Nat
  BY <1>1 DEF Positions
<1>3. ASSUME NEW q, q[1] \in Timelines, q[2] \in Nat, r \in Branch(q) PROVE r \in Timelines \X Nat
  BY <1>3, Starts DEF Branch
<1>4. ASSUME NEW j \in 1..Len(History[p[1]])
      PROVE  History[p[1]][j][1] \in Timelines /\ History[p[1]][j][2] \in Nat
  <2>1. History[p[1]] \in Seq(Timelines \X (1..MaxLSN))
    BY <1>2, HistoryChains DEF Chains
  <2> QED
    BY <1>4, <2>1
<1>5. r \in Branch(p) \/ \E j \in 1..Len(History[p[1]]) : r \in Branch(History[p[1]][j])
  BY <1>1, WalIs
<1> QED
  BY <1>2, <1>3, <1>4, <1>5

\* A row's place in the position column.
Place(r) == r[2] * (MaxTimeline + 1) + r[1]

\* No two records share one.
LEMMA PlacesDiffer ==
  ASSUME NEW r \in Timelines \X Nat, NEW s \in Timelines \X Nat, Place(r) = Place(s)
  PROVE  r = s
<1> DEFINE w == MaxTimeline + 1
<1>1. w \in Nat /\ r[1] \in 1..(w - 1) /\ s[1] \in 1..(w - 1) /\ r[2] \in Nat /\ s[2] \in Nat
  BY LineageAssumption DEF Timelines
<1>2. r[2] * w + r[1] = s[2] * w + s[1]
  BY DEF Place
<1>3. ASSUME NEW a \in Nat, NEW b \in Nat, a < b PROVE a * w + w <= b * w
  <2>1. w * (b - a - 1) >= 0
    BY <1>1, <1>3
  <2>2. w * (b - a - 1) = b * w - a * w - w
    BY <1>1
  <2> QED
    BY <1>1, <2>1, <2>2
<1> HIDE DEF w
<1>4. ~(r[2] < s[2])
  BY <1>1, <1>2, <1>3
<1>5. ~(s[2] < r[2])
  BY <1>1, <1>2, <1>3
<1>6. r[2] = s[2]
  BY <1>1, <1>4, <1>5
<1>7. r[1] = s[1]
  BY <1>1, <1>2, <1>6
<1> QED
  BY <1>6, <1>7

\* Where the rows of one instance are among another's, so are its weighed records.
LEMMA RowsTell ==
  ASSUME TypeOK, Lineages, ~SerialPositions,
         NEW i \in Instances, NEW j \in Instances, Rows(j) \subseteq Rows(i)
  PROVE  Held(j) \subseteq Held(i)
<1>1. Rows(i) = {Place(r) : r \in Held(i)} /\ Rows(j) = {Place(r) : r \in Held(j)}
  BY DEF Rows, Place
<1>2. \A r \in Held(i) \cup Held(j) : r \in Timelines \X Nat
  BY WalTyped DEF TypeOK, Held, Weighed
<1>3. ASSUME NEW r \in Held(j) PROVE r \in Held(i)
  <2>1. PICK s \in Held(i) : Place(r) = Place(s)
    BY <1>1
  <2> QED
    BY <1>2, <2>1, PlacesDiffer
<1> QED
  BY <1>3

\* DecideContent is right whenever it finds that i has all that j has.
LEMMA ContentSound ==
  ASSUME TypeOK, Lineages, Reads, Unambiguous,
         NEW i \in Instances, NEW j \in Instances, DecideContent(i, j) \in {"over", "equal"}
  PROVE  Held(j) \subseteq Held(i)
<1>1. {i, j} \subseteq live \cup copied
  BY DEF DecideContent
<1>2. ~SerialPositions
  BY <1>1 DEF Reads, Unambiguous
<1>3. Rows(j) = {} \/ ContainsPeer(i, j)
  BY <1>1 DEF DecideContent
<1>4. Rows(j) \subseteq Rows(i)
  BY <1>3 DEF ContainsPeer
<1> QED
  BY <1>2, <1>4, RowsTell

\* The comparison finds one of four relations.
LEMMA RelatedIs ==
  ASSUME NEW i \in Instances, NEW j \in Instances
  PROVE  Related(i, j) \in {"over", "under", "equal", "diverge"}
<1>1. DecideContent(i, j) \in {"over", "under", "equal", "diverge"}
  BY DEF DecideContent
<1>2. ASSUME NEW p, NEW q PROVE ExtensionRelation(p, q) \in {"over", "under", "diverge"}
  BY DEF ExtensionRelation
<1>3. ASSUME NEW p, NEW q PROVE SameLineage(p, q) \in {"over", "under", "equal", "diverge"}
  BY DEF SameLineage
<1>4. ASSUME NEW p, NEW q, NEW k PROVE ForkRelation(p, q, k) \in {"over", "under", "equal", "diverge"}
  BY DEF ForkRelation
<1>5. ASSUME NEW p, NEW q PROVE Mirror(ExtensionRelation(p, q)) \in {"over", "under", "diverge"}
  BY <1>2 DEF Mirror
<1>6. Lineage(i, j) \in {"over", "under", "equal", "diverge"}
  BY <1>2, <1>3, <1>4, <1>5 DEF Lineage, Relate
<1> QED
  BY <1>1, <1>6 DEF Related

\* Related is right of two instances that were read, each at least as far as was seen.
LEMMA RelatedSound ==
  ASSUME TypeOK, Lineages, Reads, Unambiguous,
         NEW i \in Readable, NEW j \in Readable, Related(i, j) \in {"over", "equal"}
  PROVE  Seen(j) \subseteq Held(i)
<1>1. /\ i \in Instances /\ j \in Instances
      /\ checkpoint[i] \in Positions /\ Covers(at[i], checkpoint[i])
      /\ checkpoint[j] \in Positions /\ Covers(at[j], checkpoint[j])
  BY ReadableIs DEF Readable, Reads
<1>2. Seen(j) = Weighed(Wal(checkpoint[j]))
  BY DEF Seen
<1>3. CASE Lineage(i, j) = "diverge"
  <2>1. Held(j) \subseteq Held(i)
    BY <1>1, <1>3, ContentSound DEF Related
  <2>2. Seen(j) \subseteq Held(j)
    BY <1>1, <1>2 DEF Covers, Held, Weighed
  <2> QED
    BY <2>1, <2>2
<1>4. CASE Lineage(i, j) # "diverge"
  <2>1. Covers(checkpoint[i], checkpoint[j])
    BY <1>1, <1>4, RelateSound DEF Related, Lineage
  <2> QED
    BY <1>1, <1>2, <2>1 DEF Covers, Held, Weighed
<1> QED
  BY <1>3, <1>4

Declared == {"provable", "leaderNotPrimary"}

\* An instance that triage declares the authority has all that it saw.
LEMMA VerdictCovers ==
  ASSUME TypeOK, Lineages, Reads, DetermineAuthority, outcome' \in Declared
  PROVE  /\ leader' \in Instances
         /\ outcome' = "provable" => leader' = primary
         /\ Unambiguous => \A j \in Instances : Seen(j) \subseteq Held(leader')
<1>1. /\ \A j \in Instances : ReadState(j) # "unread"
      /\ \A i, j \in Readable : Related(i, j) # "diverge"
      /\ \E i \in PickLeader : leader' = i /\ outcome' = IF i = primary THEN "provable" ELSE "leaderNotPrimary"
  BY DEF DetermineAuthority, Declare, Declared
<1>2. PICK i \in PickLeader :
        leader' = i /\ outcome' = IF i = primary THEN "provable" ELSE "leaderNotPrimary"
  BY <1>1
<1>3. i \in Candidates
  BY DEF PickLeader
<1>4. i \in Readable /\ i \in Instances /\ \A j \in Readable : Related(i, j) # "under"
  BY <1>3 DEF Candidates, Readable
<1>5. ASSUME Unambiguous, NEW j \in Instances PROVE Seen(j) \subseteq Held(i)
  <2>1. CASE j \in Readable
    <3>1. Related(i, j) \in {"over", "equal"}
      BY <1>1, <1>4, <2>1, RelatedIs
    <3> QED
      BY <1>4, <1>5, <2>1, <3>1, RelatedSound
  <2>2. CASE j \notin Readable
    <3>1. at[j] = Nowhere
      BY <1>1, <2>2, ReadableIs DEF Reads
    <3>2. Seen(j) = {}
      BY <2>2, <3>1 DEF Seen, Held, Wal, Weighed
    <3> QED
      BY <3>2
  <2> QED
    BY <2>1, <2>2
<1> QED
  BY <1>2, <1>4, <1>5

\* Triage decides last; what it declares it has checked.
Verdict ==
  /\ pc \in {"collect", "escalate", "compare", "decide"} => outcome = "undeterminable"
  /\ outcome \in Declared =>
       /\ leader \in Instances
       /\ outcome = "provable" => leader = primary
       /\ Unambiguous => \A i \in Instances : Seen(i) \subseteq Held(leader)

\* What an order that was given was found fit for.
Orders ==
  /\ pc \notin {"heal", "done"} => plan = "none"
  /\ plan \in {"reseed", "reseeded"} =>
       /\ target \in Instances
       /\ ~force => SafeToHeal
       /\ outcome \in Declared /\ target = leader => target = primary
  /\ plan = "reseeded" => target # primary
  /\ plan = "promote" => \/ outcome = "leaderNotPrimary" /\ target = leader
                         \/ outcome = "diverged" /\ force

AuthorityInv == Lineages /\ Reads /\ Verdict /\ Orders

\* An order that is carried out was fit for its target.
LEMMA OrderIsFit ==
  ASSUME TypeOK, Verdict, Order
  PROVE  /\ plan' = "reseed" => /\ ~force' => SafeToHeal
                                /\ outcome \in Declared /\ target' = leader => target' = primary
         /\ plan' = "promote" => \/ outcome = "leaderNotPrimary" /\ target' = leader
                                 \/ outcome = "diverged" /\ force'
<1>1. PICK condition \in Conditions(target'), retained \in BOOLEAN :
        plan' \in {PlanUntargeted(target', Remediation(target', condition, retained)),
                   PlanTargeted(target', Remediation(target', condition, retained), force'),
                   PlanPromotion(target', force')}
  BY DEF Order
<1> DEFINE remedy == Remediation(target', condition, retained)
<1>2. remedy \in {"none", "restart", "reseed"}
  BY DEF Remediation
<1>3. SafeToHeal /\ outcome \in Declared => leader = primary
  BY DEF SafeToHeal, Verdict
<1> HIDE DEF remedy
<1>4. CASE plan' = PlanUntargeted(target', remedy)
  BY <1>2, <1>3, <1>4 DEF PlanUntargeted
<1>5. CASE plan' = PlanTargeted(target', remedy, force')
  BY <1>3, <1>5 DEF PlanTargeted
<1>6. CASE plan' = PlanPromotion(target', force')
  BY <1>6 DEF PlanPromotion
<1> QED
  BY <1>1, <1>4, <1>5, <1>6 DEF remedy

\* Nothing that triage or an operator does changes what was written.
LEMMA TruthStays ==
  ASSUME UNCHANGED truth
  PROVE  /\ Inherited' = Inherited /\ Positions' = Positions
         /\ \A p : Wal(p)' = Wal(p)
         /\ \A p, q : Covers(p, q)' = Covers(p, q)
<1>1. parent' = parent /\ fork' = fork
  BY DEF truth
<1>2. Inherited' = Inherited
  BY <1>1 DEF Inherited, Start
<1>3. \A t : Start(t)' = Start(t)
  BY <1>1 DEF Start
<1>4. Positions' = Positions
  BY <1>3 DEF Positions, Timelines
<1>5. \A p : Wal(p)' = Wal(p)
  BY <1>2, <1>3 DEF Wal
<1> QED
  BY <1>2, <1>4, <1>5 DEF Covers

\* Reading leaves what is read as it is: each step keeps the readings true.
LEMMA ReadsNext ==
  ASSUME TypeOK, Reads, [Next]_vars
  PROVE  Reads'
<1> USE DEF truth, reads, content, verdict, order
<1>1. UNCHANGED truth
  BY DEF Next, Collect, DeepRecover, ReadContent, DetermineAuthority, Order, Heal, vars
<1>2. Positions' = Positions /\ (\A p, q : Covers(p, q)' = Covers(p, q)) /\ at' = at
  BY <1>1, TruthStays
<1>3. CASE Collect
  <2>1. ASSUME NEW i \in Instances
        PROVE  /\ evidence'[i] \in {"full", "controldata"} =>
                    checkpoint'[i] \in Positions /\ Covers(at[i], checkpoint'[i])
               /\ evidence'[i] = "empty" => at[i] = Nowhere
    <3>1. PICK x \in Readings(i) : evidence'[i] = x.evidence /\ checkpoint'[i] = x.checkpoint
      BY <1>3, CollectIs
    <3> QED
      BY <3>1, ReadingIs DEF TypeOK
  <2>2. UNCHANGED content
    BY <1>3 DEF Collect
  <2> QED
    BY <1>2, <2>1, <2>2 DEF Reads
<1>4. CASE DeepRecover
  <2>1. PICK S \in SUBSET {i \in Instances : evidence[i] = "silent" /\ at[i] # Nowhere} :
          /\ evidence' = [i \in Instances |-> IF i \in S THEN "full" ELSE evidence[i]]
          /\ checkpoint' = [i \in Instances |-> IF i \in S THEN at[i] ELSE checkpoint[i]]
    BY <1>4 DEF DeepRecover
  <2>2. ASSUME NEW i \in Instances
        PROVE  /\ evidence'[i] \in {"full", "controldata"} =>
                    checkpoint'[i] \in Positions /\ Covers(at[i], checkpoint'[i])
               /\ evidence'[i] = "empty" => at[i] = Nowhere
    <3>1. CASE i \in S
      BY <2>1, <3>1 DEF TypeOK, Covers
    <3>2. CASE i \notin S
      BY <2>1, <3>2 DEF Reads
    <3> QED
      BY <3>1, <3>2
  <2>3. UNCHANGED content
    BY <1>4 DEF DeepRecover
  <2> QED
    BY <1>2, <2>2, <2>3 DEF Reads
<1>5. CASE ReadContent
  <2>1. UNCHANGED reads /\ (~witness' => UNCHANGED content)
    BY <1>5 DEF ReadContent
  <2> QED
    BY <1>2, <2>1 DEF Reads
<1>6. CASE DetermineAuthority \/ Order \/ Heal \/ UNCHANGED vars
  <2>1. UNCHANGED <<reads, content>>
    BY <1>6 DEF DetermineAuthority, Order, Heal, vars
  <2> QED
    BY <1>2, <2>1 DEF Reads
<1> QED
  BY <1>3, <1>4, <1>5, <1>6 DEF Next

\* What was seen, and what is held, stay put once triage has read all it will.
LEMMA SeenStays ==
  ASSUME UNCHANGED <<truth, reads, content>>
  PROVE  /\ \A i : Seen(i)' = Seen(i)
         /\ \A i : Held(i)' = Held(i)
         /\ Unambiguous' = Unambiguous
<1>1. \A p : Wal(p)' = Wal(p)
  BY TruthStays
<1>2. UNCHANGED <<at, evidence, checkpoint, witness, ledger>>
  BY DEF truth, reads, content
<1>3. \A i : Held(i)' = Held(i)
  BY <1>1, <1>2 DEF Held, Weighed
<1>4. Readable' = Readable
  BY <1>2 DEF Readable, ReadState
<1>5. \A i : Seen(i)' = Seen(i)
  BY <1>1, <1>2, <1>3, <1>4 DEF Seen, Weighed
<1> QED
  BY <1>2, <1>3, <1>5 DEF Unambiguous

\* The verdict is reached once, of evidence that no longer changes.
LEMMA VerdictNext ==
  ASSUME TypeOK, Lineages, Reads, Verdict, [Next]_vars
  PROVE  Verdict'
<1> USE DEF truth, reads, content, verdict, order
<1>1. CASE Collect \/ DeepRecover \/ ReadContent
  <2>1. outcome' = "undeterminable"
    BY <1>1 DEF Collect, DeepRecover, ReadContent, Verdict
  <2> QED
    BY <2>1 DEF Verdict, Declared
<1>2. CASE DetermineAuthority
  <2>1. UNCHANGED <<truth, reads, content>> /\ pc' = "order"
    BY <1>2 DEF DetermineAuthority
  <2>2. outcome' \in Declared =>
          /\ leader' \in Instances
          /\ outcome' = "provable" => leader' = primary
          /\ Unambiguous => \A j \in Instances : Seen(j) \subseteq Held(leader')
    BY <1>2, VerdictCovers
  <2>3. /\ \A i : Seen(i)' = Seen(i)
        /\ Unambiguous' = Unambiguous
    BY <2>1, SeenStays
  <2>4. Held(leader)' = Held(leader')
    <3>1. \A p : Wal(p)' = Wal(p)
      BY <2>1, TruthStays
    <3> QED
      BY <2>1, <3>1 DEF Held, Weighed
  <2> QED
    BY <2>1, <2>2, <2>3, <2>4 DEF Verdict
<1>3. CASE Order \/ Heal \/ UNCHANGED vars
  <2>1. UNCHANGED <<truth, reads, content, verdict>> /\ (pc' = pc \/ pc' \in {"heal", "done"})
    BY <1>3 DEF Order, Heal, vars
  <2>2. /\ \A i : Seen(i)' = Seen(i)
        /\ \A i : Held(i)' = Held(i)
        /\ Unambiguous' = Unambiguous
    BY <2>1, SeenStays
  <2> QED
    BY <2>1, <2>2 DEF Verdict
<1> QED
  BY <1>1, <1>2, <1>3 DEF Next

\* Orders are given after the verdict, which they leave alone.
LEMMA OrdersNext ==
  ASSUME TypeOK, Verdict, Orders, [Next]_vars
  PROVE  Orders'
<1> USE DEF truth, reads, content, verdict, order
<1>1. CASE Collect \/ DeepRecover \/ ReadContent \/ DetermineAuthority
  <2>1. plan' = "none" /\ pc' \notin {"heal", "done"}
    BY <1>1 DEF Collect, DeepRecover, ReadContent, DetermineAuthority, Orders
  <2> QED
    BY <2>1 DEF Orders
<1>2. CASE Order
  <2>1. UNCHANGED <<truth, verdict>> /\ pc' = "heal" /\ target' \in Instances
    BY <1>2 DEF Order
  <2>2. plan' # "reseeded"
    BY <1>2, PlanIs
  <2> QED
    BY <1>2, <2>1, <2>2, OrderIsFit DEF Orders, SafeToHeal
<1>3. CASE Heal
  <2>1. UNCHANGED <<truth, verdict, target, force>> /\ pc' = "done" /\ plan = "reseed"
        /\ plan' = IF target = primary THEN "refused" ELSE "reseeded"
    BY <1>3 DEF Heal
  <2> QED
    BY <2>1 DEF Orders, SafeToHeal
<1>4. CASE UNCHANGED vars
  BY <1>4 DEF vars, Orders, SafeToHeal
<1> QED
  BY <1>1, <1>2, <1>3, <1>4 DEF Next

\* The lineages are well formed, the readings true, the verdict covered by what was
\* read, and every order fit for its target, whatever triage could not read.
THEOREM AuthorityInvariant == Spec => []AuthorityInv
<1>1. Init => AuthorityInv
  BY DEF Init, AuthorityInv, Lineages, Reads, Verdict, Orders, Declared
<1>2. TypeOK /\ AuthorityInv /\ [Next]_vars => AuthorityInv'
  <2> SUFFICES ASSUME TypeOK, AuthorityInv, [Next]_vars PROVE AuthorityInv'
    OBVIOUS
  <2>1. UNCHANGED truth
    BY DEF Next, Collect, DeepRecover, ReadContent, DetermineAuthority, Order, Heal, vars, truth
  <2>2. Lineages'
    BY <2>1 DEF AuthorityInv, Lineages, Start, truth
  <2> QED
    BY <2>2, ReadsNext, VerdictNext, OrdersNext DEF AuthorityInv
<1> QED
  BY <1>1, <1>2, AuthorityTyped, PTL DEF Spec

-----------------------------------------------------------------------------
(* The theorems *)

\* The authority has all that triage saw, given that no two branches number their
\* business rows alike.
THEOREM AuthorityCovers == ASSUME ~SerialPositions PROVE Spec => []AuthorityCoversTheSeen
<1>1. AuthorityInv => AuthorityCoversTheSeen
  BY DEF AuthorityInv, Verdict, Declared, Unambiguous, AuthorityCoversTheSeen
<1> QED
  BY <1>1, AuthorityInvariant, PTL

\* A verdict that rests on the WAL alone needs no assumption.
THEOREM WalAuthorityCovers == Spec => [](~witness => AuthorityCoversTheSeen)
<1>1. AuthorityInv => (~witness => AuthorityCoversTheSeen)
  BY DEF AuthorityInv, Verdict, Declared, Unambiguous, AuthorityCoversTheSeen
<1> QED
  BY <1>1, AuthorityInvariant, PTL

\* Where there is an authority a reseed leaves a copy of all that was seen; unforced,
\* on the primary.
THEOREM AuthorityHealsSafely == ASSUME ~SerialPositions PROVE Spec => []HealLosesNothing
<1>1. AuthorityInv => HealLosesNothing
  BY DEF AuthorityInv, Verdict, Orders, Declared, Unambiguous, SafeToHeal, HealLosesNothing
<1> QED
  BY <1>1, AuthorityInvariant, PTL

\* A promotion that settles no shown divergence by force loses nothing that was seen.
THEOREM AuthorityPromotesSafely == ASSUME ~SerialPositions PROVE Spec => []PromotionLosesNothing
<1>1. AuthorityInv => PromotionLosesNothing
  BY DEF AuthorityInv, Verdict, Orders, Declared, Unambiguous, PromotionLosesNothing
<1> QED
  BY <1>1, AuthorityInvariant, PTL
=============================================================================
