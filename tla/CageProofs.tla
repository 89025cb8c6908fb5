------------------------------ MODULE CageProofs ------------------------------
(***************************************************************************)
(* Theorems about Cage, for every number of peers and every set of plans.  *)
(*                                                                         *)
(* The argument is about one stream: the messages of one peer to another   *)
(* with one tag in one round.  Each message has a rank in the order its    *)
(* sender sends, and the program of the receiver says of which ranks it    *)
(* waits for.                                                              *)
(***************************************************************************)
EXTENDS Cage, MappingsProofs, FiniteSetTheorems

(* A round, by the plan.                                                   *)

EdgesOf(r) == Edges(Pattern(r))
EdgeTags(r) == 0 .. Len(EdgesOf(r)) - 1
From(r, t) == EdgesOf(r)[t + 1][1]
To(r, t) == EdgesOf(r)[t + 1][2]

InRound(r) == {q \in Peers : Mapped(q, r) # <<>>}
HostedIn(r, v) == {q \in Peers : v \in Range(Mapped(q, r))}

\* The host of v that all members locate: of several the one announced last.
LastOf(S) == CHOOSE q \in S : \A x \in S : x <= q
LastHost(r, v) == LastOf(HostedIn(r, v))

Rounds == 1 .. Len(plan.rounds)

LEMMA LastOfFacts ==
  ASSUME NEW S \in SUBSET Peers, S # {}
  PROVE  /\ LastOf(S) \in S
         /\ \A x \in S : x <= LastOf(S)
         /\ \A y \in S : (\A x \in S : x <= y) => y = LastOf(S)
<1>1. NPeers \in Nat /\ \A x \in S : x \in Nat /\ x < NPeers
  BY PlansAssumption DEF Peers
<1> DEFINE T == {NPeers - x : x \in S}
<1>2. T \subseteq Nat /\ T # {}
  BY <1>1
<1>3. PICK m \in T : \A y \in T : m <= y
  <2> HIDE DEF T
  <2> QED
    BY <1>2, LeastNumber
<1>4. PICK z \in S : m = NPeers - z
  OBVIOUS
<1>5. \A x \in S : m <= NPeers - x
  BY <1>3
<1>6. \A x \in S : x <= z
  BY <1>1, <1>4, <1>5
<1>7. LastOf(S) \in S /\ \A x \in S : x <= LastOf(S)
  BY <1>6 DEF LastOf
<1>8. \A y \in S : (\A x \in S : x <= y) => y = LastOf(S)
  BY <1>1, <1>7
<1> QED
  BY <1>7, <1>8

\* What the assumptions say of a plan.
LEMMA PlanFacts ==
  ASSUME plan \in Plans
  PROVE  /\ NPeers \in Nat \ {0} /\ None \notin Peers
         /\ Len(plan.rounds) \in Nat /\ plan.iterations \in Nat
         /\ {plan.any, plan.gather} \subseteq BOOLEAN /\ ~(plan.any /\ plan.gather)
         /\ \A r \in Rounds :
              /\ VertexCount(Pattern(r)) \in Nat
              /\ EdgesOf(r) \in Seq(VertexSet(r) \X VertexSet(r))
              /\ Len(EdgesOf(r)) <= 64
              /\ plan.rounds[r].mapping.kind \in {"Consecutive", "Roundrobin", "Random", "GraphPartition"}
              /\ plan.any \/ plan.gather => plan.rounds[r].mapping.kind \in {"Consecutive", "Roundrobin"}
              /\ plan.rounds[r].mapping.kind = "Random" =>
                   plan.rounds[r].mapping.draw \in [VertexSet(r) -> Peers]
<1>1. /\ plan.rounds \in Seq(Range(plan.rounds)) /\ plan.iterations \in Nat
      /\ {plan.any, plan.gather} \subseteq BOOLEAN /\ ~(plan.any /\ plan.gather)
      /\ NPeers \in Nat \ {0} /\ None \notin Peers
  BY PlansAssumption
<1>2. DOMAIN plan.rounds = Rounds /\ Len(plan.rounds) \in Nat
  BY <1>1 DEF Rounds
<1>3. ASSUME NEW r \in Rounds
      PROVE  /\ plan.rounds[r].mapping.kind \in {"Consecutive", "Roundrobin", "Random", "GraphPartition"}
             /\ plan.any \/ plan.gather => plan.rounds[r].mapping.kind \in {"Consecutive", "Roundrobin"}
             /\ plan.rounds[r].mapping.kind = "Random" =>
                   plan.rounds[r].mapping.draw \in [VertexSet(r) -> Peers]
  BY <1>2, PlansAssumption, DrawsAssumption DEF VertexSet, Pattern
<1>4. Cardinality(Tags) = 64
  <2>1. \A a, b \in Int : Cardinality(a .. b) = IF a > b THEN 0 ELSE b - a + 1
    BY FS_Interval
  <2>2. 0 \in Int /\ 63 \in Int /\ ~(0 > 63) /\ 63 - 0 + 1 = 64
    OBVIOUS
  <2> QED
    BY <2>1, <2>2 DEF Tags
<1>5. ASSUME NEW r \in Rounds
      PROVE  /\ VertexCount(Pattern(r)) \in Nat
             /\ EdgesOf(r) \in Seq(VertexSet(r) \X VertexSet(r))
             /\ Len(EdgesOf(r)) <= 64
  <2>1. Pattern(r) \in PatternSet
    BY <1>2 DEF PatternSet, Pattern, Range
  <2> QED
    BY <1>4, <2>1, PatternsAssumption DEF VertexSet, EdgesOf
<1> QED
  BY <1>1, <1>2, <1>3, <1>5

-----------------------------------------------------------------------------
(* The mappings                                                            *)

\* Consecutive and Roundrobin partition the vertices of a round; so do the
\* others where the distribution is proper.
LEMMA Partitions ==
  ASSUME plan \in Plans, NEW r \in Rounds, Proper(r)
  PROVE  Partitioned([p \in 0 .. NPeers - 1 |-> Mapped(p, r)], VertexCount(Pattern(r)))
<1> DEFINE m == plan.rounds[r].mapping
           n == VertexCount(Pattern(r))
           share == [p \in 0 .. NPeers - 1 |-> Mapped(p, r)]
<1>1. /\ NPeers \in Nat \ {0} /\ n \in Nat /\ VertexSet(r) = 0 .. n - 1
      /\ m.kind \in {"Consecutive", "Roundrobin", "Random", "GraphPartition"}
      /\ m.kind = "Random" => m.draw \in [0 .. n - 1 -> 0 .. NPeers - 1]
  BY PlanFacts DEF VertexSet, Peers
<1>2. /\ m.kind = "Random" => \A v \in 0 .. n - 1 : m.draw[v] <= n
      /\ m.kind = "GraphPartition" =>
           /\ m.nParts # 1 \/ NPeers = 1
           /\ \A v \in 0 .. n - 1 : m.draw[v] \in 0 .. NPeers - 1
  BY <1>1 DEF Proper, Peers
<1> HIDE DEF n
<1>3. CASE m.kind = "Consecutive"
  <2>1. share = [p \in 0 .. NPeers - 1 |-> Consecutive(p, NPeers, n)]
    BY <1>3 DEF Mapped, n
  <2> QED
    BY <1>1, <2>1, ConsecutivePartitions DEF n
<1>4. CASE m.kind = "Roundrobin"
  <2>1. share = [p \in 0 .. NPeers - 1 |-> Roundrobin(p, NPeers, n)]
    BY <1>4 DEF Mapped, n
  <2> QED
    BY <1>1, <2>1, RoundrobinPartitions DEF n
<1>5. CASE m.kind = "Random"
  <2>1. share = [p \in 0 .. NPeers - 1 |-> Random(p, n, m.draw)]
    BY <1>5 DEF Mapped, n
  <2> HIDE DEF m
  <2>2. PICK draw \in [0 .. n - 1 -> 0 .. NPeers - 1] :
          draw = m.draw /\ \A v \in 0 .. n - 1 : draw[v] <= n
    BY <1>1, <1>2, <1>5
  <2>3. Partitioned([p \in 0 .. NPeers - 1 |-> Random(p, n, draw)], n)
    BY <1>1, <2>2, RandomPartitions
  <2> QED
    BY <2>1, <2>2, <2>3 DEF n
<1>6. CASE m.kind = "GraphPartition"
  <2>1. share = [p \in 0 .. NPeers - 1 |-> GraphPartition(p, NPeers, n, m.nParts, m.draw)]
    BY <1>6 DEF Mapped, n
  <2> HIDE DEF m
  <2>2. NPeers \in Nat \ {0} /\ n \in Nat
    BY <1>1
  <2>3. PICK nParts, part : /\ nParts = m.nParts /\ part = m.draw
                            /\ PartsFit(NPeers, nParts)
                            /\ \A v \in 0 .. n - 1 : part[v] \in 0 .. NPeers - 1
    BY <1>2, <1>6 DEF PartsFit
  <2>4. Partitioned([p \in 0 .. NPeers - 1 |-> GraphPartition(p, NPeers, n, nParts, part)], n)
    BY <2>3, <2>2, GraphPartitionPartitions
  <2> QED
    BY <2>1, <2>3, <2>4 DEF n
<1> QED
  BY <1>1, <1>3, <1>4, <1>5, <1>6

\* Proper or not, a peer hosts vertices of the graph, and none twice.
LEMMA MappedFacts ==
  ASSUME plan \in Plans, NEW r \in Rounds, NEW p \in Peers
  PROVE  /\ Mapped(p, r) \in Seq(VertexSet(r)) /\ Mapped(p, r) \in Seq(Nat)
         /\ IsInjective(Mapped(p, r))
<1> DEFINE m == plan.rounds[r].mapping
           n == VertexCount(Pattern(r))
<1>1. /\ NPeers \in Nat \ {0} /\ n \in Nat /\ VertexSet(r) = 0 .. n - 1
      /\ m.kind \in {"Consecutive", "Roundrobin", "Random", "GraphPartition"}
      /\ p \in 0 .. NPeers - 1
  BY PlanFacts DEF VertexSet, Peers
<1>2. \A s : s \in Seq(VertexSet(r)) => s \in Seq(Nat)
  BY <1>1
<1>3. <<>> \in Seq(VertexSet(r)) /\ IsInjective(<<>>)
  BY DEF IsInjective
<1> HIDE DEF n
<1>4. CASE m.kind \in {"Consecutive", "Roundrobin"}
  <2>1. Partitioned([q \in 0 .. NPeers - 1 |-> Mapped(q, r)], n)
    <3>1. Proper(r)
      BY <1>4 DEF Proper
    <3> QED
      BY <3>1, Partitions DEF n
  <2>2. Range(Mapped(p, r)) \subseteq VertexSet(r) /\ IsInjective(Mapped(p, r))
    <3> DEFINE share == [q \in 0 .. NPeers - 1 |-> Mapped(q, r)]
    <3>1. DOMAIN share = 0 .. NPeers - 1 /\ share[p] = Mapped(p, r)
      BY <1>1
    <3> HIDE DEF share
    <3> QED
      BY <1>1, <2>1, <3>1 DEF Partitioned, share
  <2>3. \E k \in Nat : DOMAIN Mapped(p, r) = 1 .. k /\ Mapped(p, r) = [j \in 1 .. k |-> Mapped(p, r)[j]]
    <3>1. \E first, last, step : Mapped(p, r) \in {<<>>, Vertices(first, last, step)} /\ first \in Nat
                                  /\ last \in Nat /\ step \in Nat \ {0}
      <4>1. PICK k \in Nat : k = CeilDiv(n, NPeers)
        BY <1>1, QuotientUp
      <4>2. /\ p \in Nat /\ p * k \in Nat /\ 1 \in Nat \ {0}
            /\ Lesser(p * k + k, n) \in Nat
            /\ Lesser(p + k * NPeers, n) \in Nat
        <5>1. p \in Nat /\ NPeers \in Nat
          BY <1>1
        <5>2. p * k \in Nat /\ k * NPeers \in Nat
          BY <5>1
        <5> QED
          BY <1>1, <5>1, <5>2 DEF Lesser
      <4>3. CASE m.kind = "Consecutive"
        <5>1. Mapped(p, r) = Consecutive(p, NPeers, n)
          BY <4>3 DEF Mapped, n
        <5> QED
          BY <4>1, <4>2, <5>1, Zenon DEF Consecutive
      <4>4. CASE m.kind = "Roundrobin"
        <5>1. Mapped(p, r) = Roundrobin(p, NPeers, n)
          BY <4>4 DEF Mapped, n
        <5> QED
          BY <1>1, <4>1, <4>2, <5>1, Zenon DEF Roundrobin
      <4> QED
        BY <1>4, <4>3, <4>4
    <3>2. PICK first \in Nat, last \in Nat, step \in Nat \ {0} :
            Mapped(p, r) \in {<<>>, Vertices(first, last, step)}
      BY <3>1
    <3>3. CASE Mapped(p, r) = <<>>
      <4>1. DOMAIN <<>> = 1 .. 0 /\ <<>> = [j \in 1 .. 0 |-> <<>>[j]]
        OBVIOUS
      <4> QED
        BY <3>3, <4>1
    <3>4. CASE Mapped(p, r) = Vertices(first, last, step)
      <4>1. PICK k \in Nat : k = IF first < last THEN CeilDiv(last - first, step) ELSE 0
        <5>1. first < last => last - first \in Nat
          OBVIOUS
        <5> QED
          BY <5>1, QuotientUp
      <4> QED
        BY <3>4, <4>1 DEF Vertices
    <3> QED
      BY <3>2, <3>3, <3>4
  <2> HIDE DEF m
  <2>4. Mapped(p, r) \in Seq(VertexSet(r))
    <3>1. PICK k \in Nat : DOMAIN Mapped(p, r) = 1 .. k /\ Mapped(p, r) = [j \in 1 .. k |-> Mapped(p, r)[j]]
      BY <2>3
    <3>2. \A j \in 1 .. k : Mapped(p, r)[j] \in VertexSet(r)
      BY <2>2, <3>1 DEF Range
    <3> QED
      BY <3>1, <3>2
  <2> QED
    BY <1>2, <2>2, <2>4
<1>5. CASE m.kind = "Random"
  <2>1. Mapped(p, r) = Random(p, n, m.draw)
    BY <1>5 DEF Mapped, n
  <2>2. Mapped(p, r) \in {<<>>, AssignedTo(p, n, m.draw)}
    BY <2>1 DEF Random
  <2>3. /\ AssignedTo(p, n, m.draw) \in Seq(VertexSet(r))
        /\ IsInjective(AssignedTo(p, n, m.draw))
    <3> HIDE DEF m
    <3> QED
      BY <1>1, AssignedShare
  <2> QED
    BY <1>2, <1>3, <2>2, <2>3
<1>6. CASE m.kind = "GraphPartition"
  <2>1. Mapped(p, r) = GraphPartition(p, NPeers, n, m.nParts, m.draw)
    BY <1>6 DEF Mapped, n
  <2>2. Mapped(p, r) \in {Vertices(0, n, 1), AssignedTo(p, n, m.draw)}
    BY <2>1 DEF GraphPartition
  <2>3. /\ AssignedTo(p, n, m.draw) \in Seq(VertexSet(r))
        /\ IsInjective(AssignedTo(p, n, m.draw))
    <3> HIDE DEF m
    <3> QED
      BY <1>1, AssignedShare
  <2>4. Vertices(0, n, 1) \in Seq(VertexSet(r)) /\ IsInjective(Vertices(0, n, 1))
    BY <1>1, AllVertices
  <2> QED
    BY <1>2, <2>2, <2>3, <2>4
<1> QED
  BY <1>1, <1>4, <1>5, <1>6

\* In a plan that receives from any edge or gathers each vertex has one host.
LEMMA OneHost ==
  ASSUME plan \in Plans, plan.any \/ plan.gather, NEW r \in Rounds, NEW v \in VertexSet(r)
  PROVE  HostedIn(r, v) = {LastHost(r, v)} /\ LastHost(r, v) \in Peers
<1>1. Proper(r)
  BY PlanFacts DEF Proper
<1> DEFINE share == [p \in 0 .. NPeers - 1 |-> Mapped(p, r)]
<1>2. v \in 0 .. VertexCount(Pattern(r)) - 1 /\ DOMAIN share = Peers
      /\ \A p \in Peers : share[p] = Mapped(p, r)
  BY DEF VertexSet, Peers
<1>3. Partitioned(share, VertexCount(Pattern(r)))
  BY <1>1, Partitions
<1> HIDE DEF share
<1>4. PICK p \in Peers : v \in Range(Mapped(p, r)) /\ \A q \in Peers : v \in Range(Mapped(q, r)) => q = p
  BY <1>2, <1>3 DEF Partitioned
<1>5. HostedIn(r, v) = {p}
  BY <1>4 DEF HostedIn
<1>6. HostedIn(r, v) # {} /\ HostedIn(r, v) \in SUBSET Peers
  BY <1>5
<1>7. LastHost(r, v) \in HostedIn(r, v)
  BY <1>6, LastOfFacts DEF LastHost
<1> QED
  BY <1>5, <1>7

\* The mappings partition the vertices: no vertex is left out or hosted twice,
\* neither by two peers nor by one (Consecutive, Roundrobin, and the others
\* where the number of their parts fits the number of peers).
THEOREM MappingsPartitionTheorem == Spec => []MappingsPartition
<1>1. plan \in Plans => MappingsPartition
  <2> SUFFICES ASSUME plan \in Plans, NEW r \in DOMAIN plan.rounds, Proper(r)
               PROVE  /\ \A v \in VertexSet(r) : Cardinality({p \in Peers : v \in Range(Mapped(p, r))}) = 1
                      /\ \A p \in Peers : IsInjective(Mapped(p, r)) /\ Range(Mapped(p, r)) \subseteq VertexSet(r)
    BY DEF MappingsPartition
  <2>1. r \in Rounds
    <3>1. plan.rounds \in Seq(Range(plan.rounds))
      BY PlansAssumption
    <3> QED
      BY <3>1 DEF Rounds
  <2> DEFINE share == [p \in 0 .. NPeers - 1 |-> Mapped(p, r)]
  <2>2. DOMAIN share = Peers /\ \A p \in Peers : share[p] = Mapped(p, r)
    BY DEF Peers
  <2>3. Partitioned(share, VertexCount(Pattern(r)))
    BY <2>1, Partitions
  <2> HIDE DEF share
  <2>4. ASSUME NEW v \in VertexSet(r)
        PROVE  Cardinality({p \in Peers : v \in Range(Mapped(p, r))}) = 1
    <3>1. PICK p \in Peers :
            v \in Range(Mapped(p, r)) /\ \A q \in Peers : v \in Range(Mapped(q, r)) => q = p
      BY <2>2, <2>3 DEF Partitioned, VertexSet
    <3>2. {q \in Peers : v \in Range(Mapped(q, r))} = {p}
      BY <3>1
    <3> QED
      BY <3>2, FS_Singleton
  <2>5. \A p \in Peers : IsInjective(Mapped(p, r)) /\ Range(Mapped(p, r)) \subseteq VertexSet(r)
    BY <2>2, <2>3 DEF Partitioned, VertexSet
  <2> QED
    BY <2>4, <2>5
<1>2. Init => plan \in Plans
  BY DEF Init
<1>3. plan \in Plans /\ [Next]_vars => (plan \in Plans)'
  BY DEF Next, Step, vars, Distribute, LeftOut, Announce, RecvCount, RecvIDs, Announced, Spread,
         StartCollect, Collect, RecvAnyEdge, Collected, StartGather, RecvGathered, SendToRoot, Gathered
<1> QED
  BY <1>1, <1>2, <1>3, PTL DEF Spec

-----------------------------------------------------------------------------
(* The graph                                                               *)

LEMMA EdgeFacts ==
  ASSUME plan \in Plans, NEW r \in Rounds
  PROVE  /\ Len(EdgesOf(r)) \in Nat /\ EdgeTags(r) \subseteq Tags /\ EdgeTags(r) \subseteq Nat
         /\ \A t \in EdgeTags(r) : /\ From(r, t) \in VertexSet(r) /\ To(r, t) \in VertexSet(r)
                                   /\ From(r, t) \in Nat /\ To(r, t) \in Nat
<1>1. EdgesOf(r) \in Seq(VertexSet(r) \X VertexSet(r)) /\ Len(EdgesOf(r)) <= 64
  BY PlanFacts
<1>2. Len(EdgesOf(r)) \in Nat /\ \A j \in 1 .. Len(EdgesOf(r)) : EdgesOf(r)[j] \in VertexSet(r) \X VertexSet(r)
  BY <1>1
<1>3. EdgeTags(r) \subseteq Tags /\ EdgeTags(r) \subseteq Nat
  <2>1. PICK n \in Nat : n = Len(EdgesOf(r)) /\ n <= 64
    BY <1>1, <1>2
  <2>2. EdgeTags(r) = 0 .. n - 1
    BY <2>1 DEF EdgeTags
  <2>3. \A t \in 0 .. n - 1 : t \in 0 .. 63 /\ t \in Nat
    BY <2>1
  <2> QED
    BY <2>2, <2>3 DEF Tags
<1>4. VertexSet(r) \subseteq Nat
  BY PlanFacts DEF VertexSet
<1>5. ASSUME NEW t \in EdgeTags(r)
      PROVE  From(r, t) \in VertexSet(r) /\ To(r, t) \in VertexSet(r)
  <2>1. t + 1 \in 1 .. Len(EdgesOf(r))
    BY <1>2 DEF EdgeTags
  <2> QED
    BY <1>2, <2>1 DEF From, To
<1> QED
  BY <1>2, <1>3, <1>4, <1>5

\* A peer that has set the graph of round r.
LEMMA GraphFacts ==
  ASSUME plan \in Plans, NEW p \in Peers, NEW r \in Rounds, graph[p] = EdgesOf(r)
  PROVE  /\ \A e \in EdgeTags(r) : Source(p, e) = From(r, e) /\ Target(p, e) = To(r, e)
         /\ \A v : /\ getOutEdges(p, v) \in Seq(EdgeTags(r))
                   /\ Range(getOutEdges(p, v)) = {e \in EdgeTags(r) : From(r, e) = v}
                   /\ IsInjective(getOutEdges(p, v))
         /\ \A v : /\ getInEdges(p, v) \in Seq(EdgeTags(r))
                   /\ Range(getInEdges(p, v)) = {e \in EdgeTags(r) : To(r, e) = v}
                   /\ IsInjective(getInEdges(p, v))
<1>1. \A e \in EdgeTags(r) : Source(p, e) = From(r, e) /\ Target(p, e) = To(r, e)
  BY DEF Source, Target, From, To
<1>2. PICK n \in Nat : n = Len(EdgesOf(r)) /\ DOMAIN EdgesOf(r) = 1 .. n /\ EdgeTags(r) = 0 .. n - 1
  BY PlanFacts DEF EdgeTags
<1>3. EdgeIDs(p) = [j \in 1 .. n |-> j - 1]
  BY <1>2 DEF EdgeIDs
<1> DEFINE ids == EdgeIDs(p)
<1>4. ids \in Seq(EdgeTags(r)) /\ DOMAIN ids = 1 .. n
  <2>1. \A j \in 1 .. n : j - 1 \in EdgeTags(r)
    BY <1>2
  <2> QED
    BY <1>3, <2>1
<1>5. Range(ids) = EdgeTags(r)
  <2>1. \A e \in EdgeTags(r) : e + 1 \in 1 .. n /\ ids[e + 1] = e
    BY <1>2, <1>3
  <2> QED
    BY <1>4, <2>1 DEF Range
<1>6. IsInjective(ids)
  BY <1>3 DEF IsInjective
<1> HIDE DEF ids
<1>7. ASSUME NEW v
      PROVE  /\ getOutEdges(p, v) \in Seq(EdgeTags(r))
             /\ Range(getOutEdges(p, v)) = {e \in EdgeTags(r) : From(r, e) = v}
             /\ IsInjective(getOutEdges(p, v))
  <2>1. PICK T : T = {e \in EdgeTags(r) : From(r, e) = v}
    OBVIOUS
  <2>2. getOutEdges(p, v) = Kept(ids, T)
    <3>1. T = {e \in Range(ids) : Source(p, e) = v}
      BY <1>1, <1>5, <2>1
    <3> QED
      BY <3>1 DEF getOutEdges, ids
  <2>3. Range(ids) \cap T = T
    BY <1>5, <2>1
  <2> QED
    BY <1>4, <1>6, <2>1, <2>2, <2>3, KeptFacts
<1>8. ASSUME NEW v
      PROVE  /\ getInEdges(p, v) \in Seq(EdgeTags(r))
             /\ Range(getInEdges(p, v)) = {e \in EdgeTags(r) : To(r, e) = v}
             /\ IsInjective(getInEdges(p, v))
  <2>1. PICK T : T = {e \in EdgeTags(r) : To(r, e) = v}
    OBVIOUS
  <2>2. getInEdges(p, v) = Kept(ids, T)
    <3>1. T = {e \in Range(ids) : Target(p, e) = v}
      BY <1>1, <1>5, <2>1
    <3> QED
      BY <3>1 DEF getInEdges, ids
  <2>3. Range(ids) \cap T = T
    BY <1>5, <2>1
  <2> QED
    BY <1>4, <1>6, <2>1, <2>2, <2>3, KeptFacts
<1> QED
  BY <1>1, <1>7, <1>8

\* Two sequences without a common element.
LEMMA JoinFacts ==
  ASSUME NEW S, NEW a \in Seq(S), NEW b \in Seq(S)
  PROVE  /\ a \o b \in Seq(S)
         /\ Range(a \o b) = Range(a) \cup Range(b)
         /\ IsInjective(a) /\ IsInjective(b) /\ Range(a) \cap Range(b) = {} => IsInjective(a \o b)
<1> DEFINE s == a \o b
<1>1. PICK m \in Nat, n \in Nat : /\ m = Len(a) /\ n = Len(b) /\ DOMAIN a = 1 .. m /\ DOMAIN b = 1 .. n
                                  /\ s \in Seq(S) /\ DOMAIN s = 1 .. m + n
                                  /\ \A j \in 1 .. m + n : s[j] = IF j <= m THEN a[j] ELSE b[j - m]
  OBVIOUS
<1> HIDE DEF s
<1>2. Range(s) = Range(a) \cup Range(b)
  <2>1. \A j \in 1 .. m : j \in 1 .. m + n /\ s[j] = a[j]
    BY <1>1
  <2>2. ASSUME NEW j \in 1 .. n
        PROVE  \E i \in 1 .. m + n : s[i] = b[j]
    <3>1. j + m \in 1 .. m + n /\ ~(j + m <= m) /\ (j + m) - m = j
      OBVIOUS
    <3> QED
      BY <1>1, <3>1
  <2>3. \A j \in 1 .. m + n : s[j] \in Range(a) \/ s[j] \in Range(b)
    <3> TAKE j \in 1 .. m + n
    <3>1. CASE j <= m
      BY <1>1, <3>1 DEF Range
    <3>2. CASE ~(j <= m)
      <4>1. j - m \in 1 .. n
        BY <3>2
      <4> QED
        BY <1>1, <3>2, <4>1 DEF Range
    <3> QED
      BY <3>1, <3>2
  <2>4. \A x \in Range(a) \cup Range(b) : x \in Range(s)
    <3>1. \A x : x \in Range(s) <=> \E i \in 1 .. m + n : x = s[i]
      BY <1>1 DEF Range
    <3>2. \A x \in Range(a) : \E j \in 1 .. m : x = a[j]
      BY <1>1 DEF Range
    <3>3. \A x \in Range(b) : \E j \in 1 .. n : x = b[j]
      BY <1>1 DEF Range
    <3> QED
      BY <2>1, <2>2, <3>1, <3>2, <3>3
  <2>5. \A x \in Range(s) : x \in Range(a) \cup Range(b)
    BY <1>1, <2>3 DEF Range
  <2> QED
    BY <2>4, <2>5
<1>3. ASSUME IsInjective(a), IsInjective(b), Range(a) \cap Range(b) = {}
      PROVE  IsInjective(s)
  <2>1. \A i, j \in 1 .. m : a[i] = a[j] => i = j
    BY <1>1, <1>3 DEF IsInjective
  <2>2. \A i, j \in 1 .. n : b[i] = b[j] => i = j
    BY <1>1, <1>3 DEF IsInjective
  <2>3. \A i \in 1 .. m, j \in 1 .. n : a[i] # b[j]
    BY <1>1, <1>3 DEF Range
  <2>4. ASSUME NEW i \in 1 .. m + n, NEW j \in 1 .. m + n, s[i] = s[j]
        PROVE  i = j
    <3>1. CASE i <= m /\ j <= m
      <4>1. i \in 1 .. m /\ j \in 1 .. m /\ a[i] = a[j]
        BY <1>1, <2>4, <3>1
      <4> QED
        BY <2>1, <4>1
    <3>2. CASE i <= m /\ ~(j <= m)
      <4>1. i \in 1 .. m /\ j - m \in 1 .. n /\ a[i] = b[j - m]
        BY <1>1, <2>4, <3>2
      <4> QED
        BY <2>3, <4>1
    <3>3. CASE ~(i <= m) /\ j <= m
      <4>1. j \in 1 .. m /\ i - m \in 1 .. n /\ a[j] = b[i - m]
        BY <1>1, <2>4, <3>3
      <4> QED
        BY <2>3, <4>1
    <3>4. CASE ~(i <= m) /\ ~(j <= m)
      <4>1. i - m \in 1 .. n /\ j - m \in 1 .. n /\ b[i - m] = b[j - m]
        BY <1>1, <2>4, <3>4
      <4>2. i - m = j - m
        BY <2>2, <4>1
      <4> QED
        BY <4>2
    <3> QED
      BY <3>1, <3>2, <3>3, <3>4
  <2> QED
    BY <1>1, <2>4 DEF IsInjective
<1> QED
  BY <1>1, <1>2, <1>3 DEF s

\* The n-th step of the recursion in InEdges.
Joined(p, s, k, n) == IF n = 0 THEN <<>> ELSE k[n - 1] \o getInEdges(p, s[n])

LEMMA JoinedExists ==
  ASSUME NEW p, NEW s
  PROVE  \A m \in Nat : \E k : k = [n \in 0 .. m |-> Joined(p, s, k, n)]
<1> DEFINE S == {m \in Nat : \E k : k = [n \in 0 .. m |-> Joined(p, s, k, n)]}
<1>1. 0 \in S
  <2> DEFINE k == [n \in 0 .. 0 |-> <<>>]
  <2>1. k = [n \in 0 .. 0 |-> Joined(p, s, k, n)]
    BY DEF Joined
  <2> QED
    BY <2>1
<1>2. ASSUME NEW m \in Nat, m \in S PROVE m + 1 \in S
  <2>1. PICK k : k = [n \in 0 .. m |-> Joined(p, s, k, n)]
    BY <1>2
  <2> DEFINE g == [n \in 0 .. m + 1 |-> IF n <= m THEN k[n] ELSE Joined(p, s, k, m + 1)]
  <2>2. \A n \in 0 .. m + 1 : n <= m => Joined(p, s, g, n) = Joined(p, s, k, n)
    BY DEF Joined
  <2>3. Joined(p, s, g, m + 1) = Joined(p, s, k, m + 1)
    BY DEF Joined
  <2>4. \A n \in 0 .. m : k[n] = Joined(p, s, k, n)
    BY <2>1
  <2>5. ASSUME NEW n \in 0 .. m + 1 PROVE g[n] = Joined(p, s, g, n)
    <3>1. CASE n <= m
      BY <3>1, <2>2, <2>4
    <3>2. CASE n = m + 1
      BY <3>2, <2>3
    <3> QED
      BY <3>1, <3>2
  <2>6. g = [n \in 0 .. m + 1 |-> Joined(p, s, g, n)]
    BY <2>5
  <2>7. \E h : h = [n \in 0 .. m + 1 |-> Joined(p, s, h, n)]
    <3> HIDE DEF g
    <3> QED
      BY <2>6, Zenon
  <2> QED
    BY <2>7
<1>3. Nat \subseteq S
  <2> HIDE DEF S
  <2> QED
    BY <1>1, <1>2, SetInduction
<1> QED
  BY <1>3

\* A peer has just the edges to its vertices to collect, each once.
LEMMA InEdgesFacts ==
  ASSUME plan \in Plans, NEW p \in Peers, NEW r \in Rounds, r = round(p), graph[p] = EdgesOf(r),
         hosted[p][r] \in Seq(Nat), IsInjective(hosted[p][r])
  PROVE  /\ InEdges(p) \in Seq(EdgeTags(r))
         /\ Range(InEdges(p)) = {e \in EdgeTags(r) : To(r, e) \in Range(hosted[p][r])}
         /\ IsInjective(InEdges(p))
<1> DEFINE s == hosted[p][r]
           k == CHOOSE k : k = [n \in 0 .. Len(s) |-> Joined(p, s, k, n)]
<1>1. PICK N \in Nat : N = Len(s) /\ DOMAIN s = 1 .. N
  OBVIOUS
<1>2. k = [n \in 0 .. Len(s) |-> Joined(p, s, k, n)]
  <2>1. Len(s) \in Nat
    BY <1>1
  <2> QED
    BY <2>1, JoinedExists
<1>3. InEdges(p) = k[Len(s)]
  BY Zenon DEF InEdges, Joined
<1>9. \A i, j \in 1 .. N : s[i] = s[j] => i = j
  BY <1>1 DEF IsInjective
<1> HIDE DEF k, s
<1>4. \A n \in 0 .. N : k[n] = Joined(p, s, k, n)
  BY <1>1, <1>2
<1> DEFINE Upto(n) == {e \in EdgeTags(r) : \E j \in 1 .. n : To(r, e) = s[j]}
           P(n) == /\ k[n] \in Seq(EdgeTags(r)) /\ Range(k[n]) = Upto(n)
                   /\ IsInjective(k[n])
           Q == {n \in 0 .. N : P(n)}
<1>5. P(0)
  <2>1. Range(<<>>) = {} /\ IsInjective(<<>>) /\ Upto(0) = {} /\ <<>> \in Seq(EdgeTags(r))
    BY DEF Range, IsInjective
  <2>2. k[0] = <<>>
    BY <1>1, <1>4 DEF Joined
  <2> HIDE DEF Upto
  <2> QED
    BY <2>1, <2>2
<1>6. ASSUME NEW m \in 0 .. N - 1, P(m) PROVE P(m + 1)
  <2>1. m + 1 \in 1 .. N /\ m + 1 # 0 /\ (m + 1) - 1 = m /\ m \in Nat /\ m + 1 \in 0 .. N
    BY <1>1
  <2>2. k[m + 1] = k[m] \o getInEdges(p, s[m + 1])
    BY <1>4, <2>1 DEF Joined
  <2>3. PICK b \in Seq(EdgeTags(r)) :
          /\ b = getInEdges(p, s[m + 1]) /\ IsInjective(b)
          /\ Range(b) = {e \in EdgeTags(r) : To(r, e) = s[m + 1]}
    BY GraphFacts
  <2>4. Upto(m + 1) = Upto(m) \cup Range(b)
    <3>1. 1 .. m + 1 = 1 .. m \cup {m + 1}
      BY <2>1
    <3> QED
      BY <2>3, <3>1
  <2>5. Upto(m) \cap Range(b) = {}
    <3>1. \A j \in 1 .. m : s[j] # s[m + 1]
      <4>1. \A j \in 1 .. m : j \in 1 .. N /\ j # m + 1
        BY <2>1
      <4> QED
        BY <1>9, <2>1, <4>1
    <3> QED
      BY <2>3, <3>1
  <2>6. PICK a \in Seq(EdgeTags(r)) : a = k[m] /\ Range(a) = Upto(m) /\ IsInjective(a)
    BY <1>6
  <2> HIDE DEF Upto
  <2>7. /\ a \o b \in Seq(EdgeTags(r)) /\ Range(a \o b) = Upto(m + 1)
        /\ IsInjective(a \o b)
    <3>1. Range(a) \cap Range(b) = {}
      BY <2>5, <2>6
    <3>2. /\ a \o b \in Seq(EdgeTags(r)) /\ Range(a \o b) = Range(a) \cup Range(b)
          /\ IsInjective(a \o b)
      BY <2>3, <2>6, <3>1, JoinFacts
    <3> QED
      BY <2>4, <2>6, <3>2
  <2> QED
    BY <2>2, <2>3, <2>6, <2>7
<1>7. N \in Q
  <2>1. 0 \in Q /\ \A m \in 0 .. N - 1 : m \in Q => m + 1 \in Q
    <3> HIDE DEF P
    <3> QED
      BY <1>5, <1>6
  <2> HIDE DEF Q
  <2> QED
    BY <2>1, BoundedInduction
<1>8. Upto(N) = {e \in EdgeTags(r) : To(r, e) \in Range(s)}
  BY <1>1 DEF Range
<1> QED
  <2> HIDE DEF Upto
  <2> QED
    BY <1>1, <1>3, <1>7, <1>8 DEF s

-----------------------------------------------------------------------------
(* A stream: the messages of q to p with tag t in round r                  *)

Kinds == {"count", "ids", "data", "sizes", "gather"}
Messages == [kind : Kinds, body : Nat \cup Seq(Nat)]

\* The place of a message in the order a peer sends to another in a round.
RankOf(m) ==
    CASE m.kind = "count"  -> 1
      [] m.kind = "ids"    -> 2
      [] m.kind = "data"   -> 3 * m.body[3]
      [] m.kind = "sizes"  -> 3 * m.body[3] + 1
      [] m.kind = "gather" -> 3 * m.body[3] + 2
Last == 3 * plan.iterations + 2
Iterations == 1 .. plan.iterations

\* p receives a message of rank k from q, by its program.
Owes(q, p, r, t, k) ==
    /\ q \in InRound(r) /\ p \in InRound(r)
    /\ \/ k \in {1, 2} /\ t = 0
       \/ \E i \in Iterations :
            \/ /\ k = 3 * i /\ t \in EdgeTags(r)
               /\ HostedIn(r, From(r, t)) # {} /\ q = LastHost(r, From(r, t))
               /\ HostedIn(r, To(r, t)) # {} /\ p = LastHost(r, To(r, t))
            \/ k = 3 * i + 1 /\ t = 0 /\ plan.gather
            \/ k = 3 * i + 2 /\ t = 0 /\ plan.gather /\ p = LastHost(r, 0)

\* What q may send p.
Right(q, p, r, t, m) ==
    /\ q \in InRound(r) /\ p \in InRound(r)
    /\ \/ m = Message("count", Len(Mapped(q, r))) /\ t = 0
       \/ m = Message("ids", Mapped(q, r)) /\ t = 0
       \/ \E i \in Iterations :
            \/ /\ m = Message("data", Value(r, From(r, t), i)) /\ t \in EdgeTags(r)
               /\ q \in HostedIn(r, From(r, t))
               /\ HostedIn(r, To(r, t)) # {} => p = LastHost(r, To(r, t))
            \/ m = Message("sizes", Value(r, q, i)) /\ t = 0 /\ plan.gather
            \/ m = Message("gather", Value(r, q, i)) /\ t = 0 /\ plan.gather /\ p = LastHost(r, 0)

Ascends(s) == \A a, b \in DOMAIN s : a < b => RankOf(s[a]) < RankOf(s[b])

\* The stream s if p has received what it waits for up to the rank got, and q has
\* sent all it owes up to the rank all and nothing beyond the rank most.  A peer
\* that receives from any edge may have received more.
StreamOf(s, q, p, r, t, got, all, most) ==
    /\ Ascends(s)
    /\ \A m \in Range(s) :
         /\ Right(q, p, r, t, m) /\ RankOf(m) \in 1 .. most
         /\ Owes(q, p, r, t, RankOf(m)) => got < RankOf(m)
    /\ \A k \in Nat : Owes(q, p, r, t, k) =>
         /\ k <= got => k <= most
         /\ got < k /\ k <= all /\ (plan.any => k <= 2) => \E m \in Range(s) : RankOf(m) = k

LEMMA RightRank ==
  ASSUME plan \in Plans, NEW q, NEW p, NEW r, NEW t, NEW m, Right(q, p, r, t, m)
  PROVE  /\ RankOf(m) \in 1 .. Last
         /\ RankOf(m) = 1 => m = Message("count", Len(Mapped(q, r))) /\ t = 0
         /\ RankOf(m) = 2 => m = Message("ids", Mapped(q, r)) /\ t = 0
         /\ \A i \in Nat :
              /\ RankOf(m) = 3 * i => i \in Iterations /\ m = Message("data", Value(r, From(r, t), i))
              /\ RankOf(m) = 3 * i + 1 /\ i # 0 => i \in Iterations /\ m = Message("sizes", Value(r, q, i))
              /\ RankOf(m) = 3 * i + 2 /\ i # 0 => i \in Iterations /\ m = Message("gather", Value(r, q, i))
<1>1. plan.iterations \in Nat
  BY PlanFacts
<1>2. CASE m = Message("count", Len(Mapped(q, r))) /\ t = 0
  <2>1. RankOf(m) = 1
    BY <1>2 DEF RankOf, Message
  <2> QED
    BY <1>1, <1>2, <2>1 DEF Last, Iterations
<1>3. CASE m = Message("ids", Mapped(q, r)) /\ t = 0
  <2>1. RankOf(m) = 2
    BY <1>3 DEF RankOf, Message
  <2> QED
    BY <1>1, <1>3, <2>1 DEF Last, Iterations
<1>4. ASSUME NEW i \in Iterations, m = Message("data", Value(r, From(r, t), i))
      PROVE  RankOf(m) = 3 * i
  BY <1>4 DEF RankOf, Message, Value
<1>5. ASSUME NEW i \in Iterations, m = Message("sizes", Value(r, q, i))
      PROVE  RankOf(m) = 3 * i + 1
  BY <1>5 DEF RankOf, Message, Value
<1>6. ASSUME NEW i \in Iterations, m = Message("gather", Value(r, q, i))
      PROVE  RankOf(m) = 3 * i + 2
  BY <1>6 DEF RankOf, Message, Value
<1>7. ASSUME NEW i \in Iterations,
             m \in {Message("data", Value(r, From(r, t), i)), Message("sizes", Value(r, q, i)),
                    Message("gather", Value(r, q, i))}
      PROVE  /\ RankOf(m) \in 3 .. Last
             /\ \A j \in Nat :
                  /\ RankOf(m) = 3 * j => j = i /\ m = Message("data", Value(r, From(r, t), i))
                  /\ RankOf(m) = 3 * j + 1 /\ j # 0 => j = i /\ m = Message("sizes", Value(r, q, i))
                  /\ RankOf(m) = 3 * j + 2 /\ j # 0 => j = i /\ m = Message("gather", Value(r, q, i))
  <2>1. i \in Nat /\ i >= 1 /\ i <= plan.iterations
    BY <1>1 DEF Iterations
  <2>2. CASE m = Message("data", Value(r, From(r, t), i))
    BY <1>1, <1>4, <2>1, <2>2 DEF Last
  <2>3. CASE m = Message("sizes", Value(r, q, i))
    BY <1>1, <1>5, <2>1, <2>3 DEF Last
  <2>4. CASE m = Message("gather", Value(r, q, i))
    BY <1>1, <1>6, <2>1, <2>4 DEF Last
  <2> QED
    BY <1>7, <2>2, <2>3, <2>4
<1>8. CASE \E i \in Iterations : m \in {Message("data", Value(r, From(r, t), i)),
                                        Message("sizes", Value(r, q, i)), Message("gather", Value(r, q, i))}
  <2>1. PICK i \in Iterations : m \in {Message("data", Value(r, From(r, t), i)),
                                        Message("sizes", Value(r, q, i)), Message("gather", Value(r, q, i))}
    BY <1>8
  <2>2. RankOf(m) \in 1 .. Last /\ RankOf(m) # 1 /\ RankOf(m) # 2
    BY <1>7, <2>1
  <2> QED
    BY <1>7, <2>1, <2>2
<1> QED
  BY <1>2, <1>3, <1>8 DEF Right

\* What is owed, by its rank.
LEMMA OwedRanks ==
  ASSUME plan \in Plans, NEW q, NEW p, NEW r, NEW t, NEW k, Owes(q, p, r, t, k)
  PROVE  /\ q \in InRound(r) /\ p \in InRound(r) /\ k \in 1 .. Last
         /\ k \in {1, 2} => t = 0
         /\ \A i \in Nat \ {0} :
              /\ k = 3 * i => /\ t \in EdgeTags(r)
                              /\ HostedIn(r, From(r, t)) # {} /\ q = LastHost(r, From(r, t))
                              /\ HostedIn(r, To(r, t)) # {} /\ p = LastHost(r, To(r, t))
              /\ k = 3 * i + 1 => t = 0 /\ plan.gather
              /\ k = 3 * i + 2 => t = 0 /\ plan.gather /\ p = LastHost(r, 0)
<1>1. plan.iterations \in Nat
  BY PlanFacts
<1>2. CASE k \in {1, 2} /\ t = 0
  BY <1>1, <1>2 DEF Owes, Last
<1>3. CASE ~(k \in {1, 2} /\ t = 0)
  <2>1. PICK j \in Iterations :
          \/ /\ k = 3 * j /\ t \in EdgeTags(r)
             /\ HostedIn(r, From(r, t)) # {} /\ q = LastHost(r, From(r, t))
             /\ HostedIn(r, To(r, t)) # {} /\ p = LastHost(r, To(r, t))
          \/ k = 3 * j + 1 /\ t = 0 /\ plan.gather
          \/ k = 3 * j + 2 /\ t = 0 /\ plan.gather /\ p = LastHost(r, 0)
    BY <1>3 DEF Owes
  <2>2. j \in Nat /\ j >= 1 /\ j <= plan.iterations
    BY <1>1 DEF Iterations
  <2>3. q \in InRound(r) /\ p \in InRound(r)
    BY DEF Owes
  <2>4. k \in 3 .. Last
    BY <1>1, <2>1, <2>2 DEF Last
  <2> QED
    BY <2>1, <2>2, <2>3, <2>4
<1> QED
  BY <1>2, <1>3

\* What a sender does next, or what a receiver does next, is not about a message
\* that is owed.
LEMMA StreamShifts ==
  ASSUME NEW s, NEW q, NEW p, NEW r, NEW t,
         NEW got \in Int, NEW all \in Int, NEW most \in Int,
         NEW got2 \in Int, NEW all2 \in Int, NEW most2 \in Int,
         StreamOf(s, q, p, r, t, got, all, most), got <= got2, most <= most2,
         \A k \in Nat : Owes(q, p, r, t, k) => /\ got < k => got2 < k
                                               /\ k <= all2 => k <= all
  PROVE  StreamOf(s, q, p, r, t, got2, all2, most2)
<1>1. Ascends(s)
  BY DEF StreamOf
<1>2. ASSUME NEW m \in Range(s)
      PROVE  /\ Right(q, p, r, t, m) /\ RankOf(m) \in 1 .. most2
             /\ Owes(q, p, r, t, RankOf(m)) => got2 < RankOf(m)
  <2>1. /\ Right(q, p, r, t, m) /\ RankOf(m) \in 1 .. most
        /\ Owes(q, p, r, t, RankOf(m)) => got < RankOf(m)
    BY <1>2 DEF StreamOf
  <2> QED
    BY <2>1
<1>3. ASSUME NEW k \in Nat, Owes(q, p, r, t, k)
      PROVE  /\ k <= got2 => k <= most2
             /\ got2 < k /\ k <= all2 /\ (plan.any => k <= 2) => \E m \in Range(s) : RankOf(m) = k
  <2>1. /\ k <= got => k <= most
        /\ got < k /\ k <= all /\ (plan.any => k <= 2) => \E m \in Range(s) : RankOf(m) = k
    BY <1>3 DEF StreamOf
  <2>2. (got < k => got2 < k) /\ (k <= all2 => k <= all)
    BY <1>3
  <2>3. k <= got2 => k <= most2
    BY <2>1, <2>2
  <2>4. got2 < k /\ k <= all2 => got < k /\ k <= all
    BY <2>2
  <2> QED
    BY <2>1, <2>3, <2>4
<1> QED
  BY <1>1, <1>2, <1>3 DEF StreamOf

\* All of a stream but the first.
LEMMA TailFacts ==
  ASSUME NEW S, NEW s \in Seq(S), s # <<>>, Ascends(s), \A m \in Range(s) : RankOf(m) \in Nat
  PROVE  /\ Head(s) \in Range(s) /\ Head(s) \in S /\ Tail(s) \in Seq(S) /\ Ascends(Tail(s))
         /\ Range(s) = Range(Tail(s)) \cup {Head(s)}
         /\ \A m \in Range(Tail(s)) : RankOf(Head(s)) < RankOf(m)
<1>1. PICK n \in Nat : n = Len(s) - 1 /\ DOMAIN s = 1 .. n + 1 /\ 1 \in 1 .. n + 1 /\ Head(s) = s[1]
  <2>1. Len(s) \in Nat /\ Len(s) # 0
    OBVIOUS
  <2> QED
    BY <2>1
<1> DEFINE u == Tail(s)
<1>2. u \in Seq(S) /\ DOMAIN u = 1 .. n /\ \A j \in 1 .. n : u[j] = s[j + 1]
  BY <1>1
<1> HIDE DEF u
<1>3. Head(s) \in Range(s) /\ Head(s) \in S
  BY <1>1 DEF Range
<1>4. \A a, b \in 1 .. n + 1 : a < b => RankOf(s[a]) < RankOf(s[b])
  BY <1>1 DEF Ascends
<1>5. Ascends(u)
  <2>1. \A a, b \in 1 .. n : a < b => RankOf(u[a]) < RankOf(u[b])
    <3> TAKE a, b \in 1 .. n
    <3>1. a + 1 \in 1 .. n + 1 /\ b + 1 \in 1 .. n + 1 /\ (a < b => a + 1 < b + 1)
      OBVIOUS
    <3> QED
      BY <1>2, <1>4, <3>1
  <2> QED
    BY <1>2, <2>1 DEF Ascends
<1>6. \A m \in Range(u) : RankOf(Head(s)) < RankOf(m)
  <2> TAKE m \in Range(u)
  <2>1. PICK j \in 1 .. n : m = s[j + 1]
    BY <1>2 DEF Range
  <2>2. 1 < j + 1 /\ j + 1 \in 1 .. n + 1
    OBVIOUS
  <2> QED
    BY <1>1, <1>4, <2>1, <2>2
<1>7. Range(s) = Range(u) \cup {Head(s)}
  <2>1. \A x : x \in Range(s) <=> \E j \in 1 .. n + 1 : x = s[j]
    BY <1>1 DEF Range
  <2>2. \A x : x \in Range(u) <=> \E j \in 1 .. n : x = s[j + 1]
    BY <1>2 DEF Range
  <2>3. \A j \in 1 .. n + 1 : j = 1 \/ (j - 1 \in 1 .. n /\ (j - 1) + 1 = j)
    OBVIOUS
  <2>4. \A j \in 1 .. n : j + 1 \in 1 .. n + 1
    OBVIOUS
  <2>5. \A x \in Range(s) : x \in Range(u) \cup {Head(s)}
    BY <1>1, <2>1, <2>2, <2>3
  <2>6. \A x \in Range(u) : x \in Range(s)
    BY <2>1, <2>2, <2>4
  <2> QED
    BY <1>3, <2>5, <2>6
<1> QED
  BY <1>2, <1>3, <1>5, <1>6, <1>7 DEF u

\* The next message a receiver waits for is the first of its stream, if all up to
\* that rank are messages it waits for.
LEMMA StreamHead ==
  ASSUME NEW s \in Seq(Messages), s # <<>>, NEW q, NEW p, NEW r, NEW t,
         NEW got \in Nat, NEW all \in Int, NEW most \in Int,
         StreamOf(s, q, p, r, t, got, all, most), most <= all + 1,
         Owes(q, p, r, t, got + 1), plan.any => got + 1 <= 2,
         \A m \in Range(s) : RankOf(m) <= got + 1 => Owes(q, p, r, t, RankOf(m))
  PROVE  /\ RankOf(Head(s)) = got + 1 /\ Right(q, p, r, t, Head(s))
         /\ Tail(s) \in Seq(Messages)
         /\ StreamOf(Tail(s), q, p, r, t, got + 1, all, most)
<1>1. Ascends(s)
  BY DEF StreamOf
<1>2. \A m \in Range(s) : /\ Right(q, p, r, t, m) /\ RankOf(m) \in 1 .. most /\ RankOf(m) \in Nat
                          /\ Owes(q, p, r, t, RankOf(m)) => got < RankOf(m)
  BY DEF StreamOf
<1>3. /\ Head(s) \in Range(s) /\ Tail(s) \in Seq(Messages) /\ Ascends(Tail(s))
      /\ Range(s) = Range(Tail(s)) \cup {Head(s)}
      /\ \A m \in Range(Tail(s)) : RankOf(Head(s)) < RankOf(m)
  BY <1>1, <1>2, TailFacts
<1>4. RankOf(Head(s)) <= got + 1
  <2>1. CASE got + 1 <= all
    <3>1. PICK m \in Range(s) : RankOf(m) = got + 1
      <4>1. got + 1 \in Nat /\ got < got + 1
        OBVIOUS
      <4> QED
        BY <2>1, <4>1 DEF StreamOf
    <3> QED
      BY <1>2, <1>3, <3>1
  <2>2. CASE all < got + 1
    <3>1. RankOf(Head(s)) <= most /\ RankOf(Head(s)) \in Nat
      BY <1>2, <1>3
    <3> QED
      BY <2>2, <3>1
  <2> QED
    BY <2>1, <2>2
<1>5. RankOf(Head(s)) = got + 1
  <2>1. Owes(q, p, r, t, RankOf(Head(s)))
    BY <1>3, <1>4
  <2> QED
    BY <1>2, <1>3, <1>4, <2>1
<1>6. StreamOf(Tail(s), q, p, r, t, got + 1, all, most)
  <2>1. \A m \in Range(Tail(s)) : /\ Right(q, p, r, t, m) /\ RankOf(m) \in 1 .. most
                                  /\ got + 1 < RankOf(m)
    BY <1>2, <1>3, <1>5
  <2>2. ASSUME NEW k \in Nat, Owes(q, p, r, t, k)
        PROVE  /\ k <= got + 1 => k <= most
               /\ got + 1 < k /\ k <= all /\ (plan.any => k <= 2) => \E m \in Range(Tail(s)) : RankOf(m) = k
    <3>1. /\ k <= got => k <= most
          /\ got < k /\ k <= all /\ (plan.any => k <= 2) => \E m \in Range(s) : RankOf(m) = k
      BY <2>2 DEF StreamOf
    <3>2. got + 1 <= most
      BY <1>2, <1>3, <1>5
    <3>3. \A m \in Range(s) : RankOf(m) # got + 1 => m \in Range(Tail(s))
      BY <1>3, <1>5
    <3>4. got + 1 < k => got < k /\ k # got + 1
      OBVIOUS
    <3> QED
      BY <3>1, <3>2, <3>3, <3>4
  <2> QED
    BY <1>3, <2>1, <2>2 DEF StreamOf
<1> QED
  BY <1>2, <1>3, <1>5, <1>6

\* A receiver from any edge takes what comes first.
LEMMA StreamTail ==
  ASSUME NEW s \in Seq(Messages), s # <<>>, NEW q, NEW p, NEW r, NEW t,
         NEW all \in Int, NEW most \in Int,
         StreamOf(s, q, p, r, t, 2, all, most), plan.any
  PROVE  /\ Right(q, p, r, t, Head(s)) /\ Head(s) \in Range(s)
         /\ Tail(s) \in Seq(Messages) /\ Range(Tail(s)) \subseteq Range(s)
         /\ \A m \in Range(Tail(s)) : RankOf(Head(s)) < RankOf(m)
         /\ StreamOf(Tail(s), q, p, r, t, 2, all, most)
<1>1. Ascends(s)
  BY DEF StreamOf
<1>2. \A m \in Range(s) : /\ Right(q, p, r, t, m) /\ RankOf(m) \in 1 .. most /\ RankOf(m) \in Nat
                          /\ Owes(q, p, r, t, RankOf(m)) => 2 < RankOf(m)
  BY DEF StreamOf
<1>3. /\ Head(s) \in Range(s) /\ Tail(s) \in Seq(Messages) /\ Ascends(Tail(s))
      /\ Range(s) = Range(Tail(s)) \cup {Head(s)}
      /\ \A m \in Range(Tail(s)) : RankOf(Head(s)) < RankOf(m)
  BY <1>1, <1>2, TailFacts
<1>4. \A k \in Nat : Owes(q, p, r, t, k) =>
        /\ k <= 2 => k <= most
        /\ ~(2 < k /\ k <= all /\ (plan.any => k <= 2))
  BY DEF StreamOf
<1>5. StreamOf(Tail(s), q, p, r, t, 2, all, most)
  BY <1>2, <1>3, <1>4 DEF StreamOf
<1> QED
  BY <1>2, <1>3, <1>5

\* What a sender adds.
LEMMA StreamJoins ==
  ASSUME NEW s \in Seq(Messages), NEW u \in Seq(Messages), NEW q, NEW p, NEW r, NEW t,
         NEW got \in Int, NEW all \in Int, NEW most \in Int, NEW all2 \in Int, NEW most2 \in Int,
         StreamOf(s, q, p, r, t, got, all, most), most <= most2, Ascends(u),
         \A m \in Range(u) : Right(q, p, r, t, m) /\ RankOf(m) \in 1 .. most2 /\ most < RankOf(m),
         \A k \in Nat : Owes(q, p, r, t, k) /\ k <= all2 => k <= all \/ \E m \in Range(u) : RankOf(m) = k
  PROVE  StreamOf(s \o u, q, p, r, t, got, all2, most2)
<1>1. \A m \in Range(s) : /\ Right(q, p, r, t, m) /\ RankOf(m) \in 1 .. most
                          /\ Owes(q, p, r, t, RankOf(m)) => got < RankOf(m)
  BY DEF StreamOf
<1>2. \A k \in Nat : Owes(q, p, r, t, k) =>
         /\ k <= got => k <= most
         /\ got < k /\ k <= all /\ (plan.any => k <= 2) => \E m \in Range(s) : RankOf(m) = k
  BY DEF StreamOf
<1>3. Range(s \o u) = Range(s) \cup Range(u)
  BY JoinFacts
<1>4. Ascends(s \o u)
  <2> DEFINE w == s \o u
  <2>1. PICK m \in Nat, n \in Nat : /\ DOMAIN s = 1 .. m /\ DOMAIN u = 1 .. n /\ DOMAIN w = 1 .. m + n
                                    /\ \A j \in 1 .. m + n : w[j] = IF j <= m THEN s[j] ELSE u[j - m]
    <3>1. Len(s) \in Nat /\ Len(u) \in Nat
      OBVIOUS
    <3> QED
      BY <3>1
  <2> HIDE DEF w
  <2>2. \A a, b \in 1 .. m : a < b => RankOf(s[a]) < RankOf(s[b])
    BY <2>1 DEF StreamOf, Ascends
  <2>3. \A a, b \in 1 .. n : a < b => RankOf(u[a]) < RankOf(u[b])
    BY <2>1 DEF Ascends
  <2>4. \A a \in 1 .. m, b \in 1 .. n : RankOf(s[a]) < RankOf(u[b])
    <3> TAKE a \in 1 .. m, b \in 1 .. n
    <3>1. s[a] \in Range(s) /\ u[b] \in Range(u)
      BY <2>1 DEF Range
    <3>2. RankOf(s[a]) \in 1 .. most /\ RankOf(u[b]) \in 1 .. most2 /\ most < RankOf(u[b])
      BY <1>1, <3>1
    <3> QED
      BY <3>2
  <2>5. ASSUME NEW a \in 1 .. m + n, NEW b \in 1 .. m + n, a < b
        PROVE  RankOf(w[a]) < RankOf(w[b])
    <3>1. CASE b <= m
      <4>1. a \in 1 .. m /\ b \in 1 .. m /\ w[a] = s[a] /\ w[b] = s[b]
        BY <2>1, <2>5, <3>1
      <4> QED
        BY <2>2, <2>5, <4>1
    <3>2. CASE a <= m /\ m < b
      <4>1. a \in 1 .. m /\ b - m \in 1 .. n /\ w[a] = s[a] /\ w[b] = u[b - m]
        BY <2>1, <2>5, <3>2
      <4> QED
        BY <2>4, <4>1
    <3>3. CASE m < a
      <4>1. a - m \in 1 .. n /\ b - m \in 1 .. n /\ w[a] = u[a - m] /\ w[b] = u[b - m] /\ a - m < b - m
        BY <2>1, <2>5, <3>3
      <4> QED
        BY <2>3, <4>1
    <3> QED
      BY <3>1, <3>2, <3>3
  <2> QED
    BY <2>1, <2>5 DEF Ascends, w
<1>5. ASSUME NEW m \in Range(s \o u)
      PROVE  /\ Right(q, p, r, t, m) /\ RankOf(m) \in 1 .. most2
             /\ Owes(q, p, r, t, RankOf(m)) => got < RankOf(m)
  <2>1. CASE m \in Range(s)
    BY <1>1, <2>1
  <2>2. CASE m \in Range(u)
    <3>1. Right(q, p, r, t, m) /\ RankOf(m) \in 1 .. most2 /\ most < RankOf(m) /\ RankOf(m) \in Nat
      BY <2>2
    <3> QED
      BY <1>2, <3>1
  <2> QED
    BY <1>3, <1>5, <2>1, <2>2
<1>6. ASSUME NEW k \in Nat, Owes(q, p, r, t, k)
      PROVE  /\ k <= got => k <= most2
             /\ got < k /\ k <= all2 /\ (plan.any => k <= 2) => \E m \in Range(s \o u) : RankOf(m) = k
  <2>1. k <= got => k <= most2
    BY <1>2, <1>6
  <2>2. ASSUME got < k, k <= all2, plan.any => k <= 2
        PROVE  \E m \in Range(s \o u) : RankOf(m) = k
    BY <1>2, <1>3, <1>6, <2>2
  <2> QED
    BY <2>1, <2>2
<1> QED
  BY <1>4, <1>5, <1>6 DEF StreamOf

-----------------------------------------------------------------------------
(* The invariant                                                           *)

PCs == {"idle", "split", "count", "ids", "spread", "collect", "sizes", "gather", "thrown"}
Inactive == {"idle", "thrown"}

Types ==
    /\ plan \in Plans
    /\ hosted \in [Peers -> Seq(Seq(Nat))]
    /\ \A p \in Peers : round(p) <= Len(plan.rounds) /\ \A r \in 1 .. round(p) : hosted[p][r] = Mapped(p, r)
    /\ graph = [p \in Peers |-> IF round(p) = 0 THEN <<>> ELSE EdgesOf(round(p))]
    /\ pc \in [Peers -> PCs]
    /\ todo \in [Peers -> Seq(Nat)]
    /\ iteration \in [Peers -> 0 .. plan.iterations]
    /\ DOMAIN nVertices = Peers /\ DOMAIN vertexMap = Peers /\ DOMAIN peerMap = Peers
    /\ \A p \in Peers : vertexMap[p] \in [DOMAIN vertexMap[p] -> Peers]
    /\ DOMAIN inBox = Peers
    /\ \A p \in Peers : \A k \in DOMAIN inBox[p] :
         k \in (1 .. round(p)) \X Peers \X Tags /\ inBox[p][k] \in Seq(Messages)
    /\ data \in [Peers -> Seq([edge : Nat, value : Nat \cup Seq(Nat)])]

\* Where a peer is in its round.  The peers it has still to hear from or the
\* vertices and edges it has still to serve are those of the round.
Place(p) ==
    LET r == round(p) IN
      /\ pc[p] # "idle" => r # 0
      /\ r # 0 /\ pc[p] # "split" => \A q \in Peers : round(q) >= r
      /\ \A q \in Peers : round(q) + 1 >= r
      /\ pc[p] \notin {"idle", "split"} => p \in InRound(r)
      /\ pc[p] \in {"idle", "split", "thrown"} => todo[p] = <<>>
      /\ pc[p] \in {"idle", "split", "count", "ids"} <=> iteration[p] = 0
      /\ pc[p] \in {"count", "ids", "sizes", "gather"} =>
           Range(todo[p]) \subseteq InRound(r) /\ Ascending(todo[p])
      /\ pc[p] \in {"count", "ids"} =>
           \A x \in InRound(r) \ Range(todo[p]), y \in Range(todo[p]) : x < y
      /\ pc[p] = "ids" => todo[p] # <<>> /\ nVertices[p] = Len(Mapped(Head(todo[p]), r))
      /\ pc[p] = "spread" => Range(todo[p]) \subseteq Range(Mapped(p, r)) /\ IsInjective(todo[p])
      /\ pc[p] = "collect" => \E d \in Nat :
           Len(InEdges(p)) = d + Len(todo[p]) /\ \A j \in DOMAIN todo[p] : todo[p][j] = InEdges(p)[d + j]
      /\ pc[p] \in {"sizes", "gather"} => plan.gather
      /\ pc[p] = "gather" /\ p # LastHost(r, 0) => todo[p] = <<>>

\* The members whose vertices p knows: of two hosts of a vertex the later one is
\* entered.
Heard(p) == IF pc[p] \in {"count", "ids"} THEN InRound(round(p)) \ Range(todo[p]) ELSE InRound(round(p))
Knows(p) ==
    pc[p] \notin {"idle", "split", "thrown"} =>
      LET r == round(p) IN
        /\ \A q \in Heard(p) : q \in DOMAIN peerMap[p] /\ peerMap[p][q] = Mapped(q, r)
        /\ \A v \in Nat :
             LET hosts == HostedIn(r, v) \cap Heard(p) IN
               hosts # {} => /\ v \in DOMAIN vertexMap[p] /\ vertexMap[p][v] \in hosts
                             /\ \A x \in hosts : x <= vertexMap[p][v]

\* The rank up to which q has sent all it owes with tag t in round r.  A peer that
\* throws has sent along some of the edges.
SentAll(q, r, t) ==
    LET i == iteration[q] IN
      IF round(q) < r THEN 0
      ELSE IF round(q) > r THEN Last
      ELSE CASE pc[q] = "idle" -> Last
             [] pc[q] = "split" -> 0
             [] pc[q] \in {"count", "ids"} -> 2
             [] pc[q] = "spread" ->
                  IF t \in EdgeTags(r) /\ From(r, t) \in Range(todo[q]) THEN 3 * i - 1 ELSE 3 * i
             [] pc[q] = "collect" -> 3 * i
             [] pc[q] = "sizes" -> 3 * i + 1
             [] pc[q] = "gather" -> 3 * i + 2
             [] pc[q] = "thrown" -> 3 * i - 1
SentMost(q, r, t) == IF round(q) = r /\ pc[q] = "thrown" THEN 3 * iteration[q] ELSE SentAll(q, r, t)

\* The rank up to which p has received from q with tag t in its round.
Got(p, q, t) ==
    LET i == iteration[p] IN
      CASE pc[p] = "split" -> 0
        [] pc[p] = "count" -> IF q \in Range(todo[p]) THEN 0 ELSE 2
        [] pc[p] = "ids" -> IF q = Head(todo[p]) THEN 1 ELSE IF q \in Range(todo[p]) THEN 0 ELSE 2
        [] pc[p] = "spread" -> IF plan.any THEN 2 ELSE 3 * i - 1
        [] pc[p] = "collect" -> IF plan.any THEN 2 ELSE IF t \in Range(todo[p]) THEN 3 * i - 1 ELSE 3 * i
        [] pc[p] = "sizes" -> IF q \in Range(todo[p]) THEN 3 * i ELSE 3 * i + 1
        [] pc[p] = "gather" -> IF q \in Range(todo[p]) THEN 3 * i + 1 ELSE 3 * i + 2

Box(p, r, q, t) == Get(inBox[p], Key(r, q, t), <<>>)

Stream(p, q, t) ==
    LET r == round(p) IN
      StreamOf(Box(p, r, q, t), q, p, r, t, Got(p, q, t), SentAll(q, r, t), SentMost(q, r, t))
Streams == \A p, q \in Peers, t \in Tags : pc[p] \notin Inactive => Stream(p, q, t)

IInv == Types /\ (\A p \in Peers : Place(p) /\ Knows(p)) /\ Streams

-----------------------------------------------------------------------------
(* Consequences                                                            *)

LEMMA RoundNumber ==
  ASSUME Types, NEW p \in Peers
  PROVE  round(p) \in Nat
BY DEF Types, round

\* The current round of a peer.
LEMMA RoundFacts ==
  ASSUME Types, NEW p \in Peers, round(p) # 0
  PROVE  /\ round(p) \in Rounds /\ round(p) \in Nat
         /\ graph[p] = EdgesOf(round(p)) /\ hosted[p][round(p)] = Mapped(p, round(p))
         /\ Mapped(p, round(p)) \in Seq(Nat) /\ IsInjective(Mapped(p, round(p)))
<1>1. round(p) \in Nat /\ round(p) <= Len(plan.rounds)
  BY DEF Types, round
<1>2. round(p) \in Rounds /\ round(p) \in 1 .. round(p)
  BY <1>1, PlanFacts DEF Rounds, Types
<1>3. hosted[p][round(p)] = Mapped(p, round(p)) /\ graph[p] = EdgesOf(round(p))
  BY <1>2 DEF Types
<1> QED
  BY <1>1, <1>2, <1>3, MappedFacts DEF Types

\* The members of a round all peers have distributed.
LEMMA MembersFacts ==
  ASSUME Types, NEW r \in Rounds, \A q \in Peers : round(q) >= r
  PROVE  /\ Members(r) = InRound(r) /\ Members(r) \subseteq Peers
         /\ graphContext(r) \in Seq(Nat) /\ Range(graphContext(r)) = InRound(r)
         /\ Ascending(graphContext(r))
         /\ \A v : Hosts(r, v) = HostedIn(r, v)
<1>1. \A q \in Peers : hosted[q][r] = Mapped(q, r)
  <2> TAKE q \in Peers
  <2>1. round(q) \in Nat /\ r \in Nat /\ r # 0
    BY PlanFacts DEF Types, round, Rounds
  <2>2. r \in 1 .. round(q)
    BY <2>1
  <2> QED
    BY <2>2 DEF Types
<1>2. Members(r) = InRound(r) /\ InRound(r) \subseteq Peers
  BY <1>1 DEF Members, InRound
<1> DEFINE all == [j \in 1 .. NPeers |-> j - 1]
<1>3. all \in Seq(Nat) /\ DOMAIN all = 1 .. NPeers /\ NPeers \in Nat
  BY PlansAssumption
<1>4. Range(all) = Peers
  <2>1. \A q \in Peers : q + 1 \in 1 .. NPeers /\ all[q + 1] = q
    BY <1>3 DEF Peers
  <2>2. \A j \in 1 .. NPeers : all[j] \in Peers
    BY <1>3 DEF Peers
  <2> QED
    BY <1>3, <2>1, <2>2 DEF Range
<1>5. Ascending(all)
  BY DEF Ascending
<1>6. graphContext(r) = Kept(all, InRound(r))
  BY <1>2 DEF graphContext
<1> HIDE DEF all
<1>7. /\ Kept(all, InRound(r)) \in Seq(Nat) /\ Range(Kept(all, InRound(r))) = Range(all) \cap InRound(r)
      /\ Ascending(Kept(all, InRound(r)))
  BY <1>3, <1>5, KeptFacts, KeptAscends
<1>8. \A v : Hosts(r, v) = HostedIn(r, v)
  BY <1>1 DEF Hosts, HostedIn
<1> QED
  BY <1>2, <1>4, <1>6, <1>7, <1>8

\* A member that has heard all locates the last host of a vertex that has one.
LEMMA Located ==
  ASSUME plan \in Plans, NEW p \in Peers, Knows(p),
         pc[p] \notin {"idle", "split", "thrown"}, Heard(p) = InRound(round(p)),
         NEW v \in Nat
  PROVE  LET r == round(p) IN
         /\ HostedIn(r, v) # {} =>
              /\ locateVertex(p, v) = LastHost(r, v)
              /\ locateVertex(p, v) \in HostedIn(r, v) /\ locateVertex(p, v) \in InRound(r)
              /\ locateVertex(p, v) \in Peers
<1> DEFINE r == round(p)
<1>1. HostedIn(r, v) \subseteq InRound(r) /\ InRound(r) \subseteq Peers
  <2>1. Range(<<>>) = {}
    BY DEF Range
  <2> QED
    BY <2>1 DEF HostedIn, InRound
<1>2. HostedIn(r, v) \cap Heard(p) = HostedIn(r, v)
  BY <1>1
<1>3. ASSUME HostedIn(r, v) # {}
      PROVE  /\ locateVertex(p, v) \in HostedIn(r, v)
             /\ \A x \in HostedIn(r, v) : x <= locateVertex(p, v)
  BY <1>2, <1>3 DEF Knows, locateVertex, Get
<1>4. ASSUME HostedIn(r, v) # {}
      PROVE  locateVertex(p, v) = LastHost(r, v)
  <2>1. HostedIn(r, v) \in SUBSET Peers
    BY <1>1
  <2> QED
    BY <1>3, <1>4, <2>1, LastOfFacts DEF LastHost
<1> QED
  BY <1>1, <1>3, <1>4

-----------------------------------------------------------------------------
(* What a step leaves alone                                                *)

\* The plan stays, and with it all that is said of a round.
LEMMA PlanStays ==
  ASSUME plan' = plan
  PROVE  /\ Rounds' = Rounds /\ Last' = Last /\ Iterations' = Iterations
         /\ \A r : Pattern(r)' = Pattern(r) /\ EdgesOf(r)' = EdgesOf(r) /\ EdgeTags(r)' = EdgeTags(r)
                   /\ VertexSet(r)' = VertexSet(r) /\ InRound(r)' = InRound(r)
         /\ \A r, t : From(r, t)' = From(r, t) /\ To(r, t)' = To(r, t)
         /\ \A p, r : Mapped(p, r)' = Mapped(p, r)
         /\ \A r, v : HostedIn(r, v)' = HostedIn(r, v) /\ LastHost(r, v)' = LastHost(r, v)
<1>1. \A r : Pattern(r)' = Pattern(r) /\ EdgesOf(r)' = EdgesOf(r)
  BY Zenon DEF Pattern, EdgesOf
<1>2. \A p, r : Mapped(p, r)' = Mapped(p, r)
  BY Zenon DEF Mapped, Pattern
<1>3. \A r : EdgeTags(r)' = EdgeTags(r) /\ VertexSet(r)' = VertexSet(r) /\ InRound(r)' = InRound(r)
  BY <1>1, <1>2, Zenon DEF EdgeTags, VertexSet, InRound
<1>4. \A r, t : From(r, t)' = From(r, t) /\ To(r, t)' = To(r, t)
  BY <1>1, Zenon DEF From, To
<1>5. \A r, v : HostedIn(r, v)' = HostedIn(r, v) /\ LastHost(r, v)' = LastHost(r, v)
  BY <1>2, Zenon DEF HostedIn, LastHost
<1>6. Rounds' = Rounds /\ Last' = Last /\ Iterations' = Iterations
  BY Zenon DEF Rounds, Last, Iterations
<1> QED
  BY <1>1, <1>2, <1>3, <1>4, <1>5, <1>6

LEMMA StreamStays ==
  ASSUME plan' = plan, NEW s, NEW q, NEW p, NEW r, NEW t, NEW got, NEW all, NEW most
  PROVE  StreamOf(s, q, p, r, t, got, all, most)' <=> StreamOf(s, q, p, r, t, got, all, most)
<1>1. \A k : Owes(q, p, r, t, k)' <=> Owes(q, p, r, t, k)
  BY PlanStays DEF Owes
<1>2. \A m : Right(q, p, r, t, m)' <=> Right(q, p, r, t, m)
  BY PlanStays DEF Right
<1> QED
  BY <1>1, <1>2 DEF StreamOf

\* A peer that takes no step.
Stays(y) == /\ hosted'[y] = hosted[y] /\ pc'[y] = pc[y] /\ todo'[y] = todo[y]
            /\ iteration'[y] = iteration[y]

LEMMA StaysFacts ==
  ASSUME plan' = plan, NEW y, Stays(y)
  PROVE  /\ round(y)' = round(y)
         /\ \A r, t : SentAll(y, r, t)' = SentAll(y, r, t) /\ SentMost(y, r, t)' = SentMost(y, r, t)
         /\ \A q, t : Got(y, q, t)' = Got(y, q, t)
<1>1. round(y)' = round(y)
  BY DEF Stays, round
<1>2. \A r, t : SentAll(y, r, t)' = SentAll(y, r, t)
  <2> TAKE r, t
  <2>1. Last' = Last /\ EdgeTags(r)' = EdgeTags(r) /\ From(r, t)' = From(r, t)
    BY PlanStays
  <2>2. pc'[y] = pc[y] /\ todo'[y] = todo[y] /\ iteration'[y] = iteration[y]
    BY DEF Stays
  <2> QED
    BY <1>1, <2>1, <2>2 DEF SentAll
<1>3. \A r, t : SentMost(y, r, t)' = SentMost(y, r, t)
  BY <1>1, <1>2 DEF Stays, SentMost
<1>4. \A q, t : Got(y, q, t)' = Got(y, q, t)
  BY DEF Stays, Got
<1> QED
  BY <1>1, <1>2, <1>3, <1>4

LEMMA RankTypes ==
  ASSUME Types, NEW p \in Peers, NEW q, NEW r \in Nat, NEW t
  PROVE  /\ SentAll(p, r, t) \in Int /\ SentMost(p, r, t) \in Int
         /\ SentAll(p, r, t) <= SentMost(p, r, t) /\ SentMost(p, r, t) <= SentAll(p, r, t) + 1
         /\ pc[p] \notin Inactive => Got(p, q, t) \in Int
<1>1. iteration[p] \in Nat /\ Last \in Nat /\ pc[p] \in PCs /\ round(p) \in Nat
  BY PlanFacts DEF Types, Last, round
<1>2. SentAll(p, r, t) \in Int
  BY <1>1 DEF SentAll, PCs
<1>3. SentMost(p, r, t) \in Int /\ SentAll(p, r, t) <= SentMost(p, r, t)
      /\ SentMost(p, r, t) <= SentAll(p, r, t) + 1
  <2>1. CASE round(p) = r /\ pc[p] = "thrown"
    <3>1. SentAll(p, r, t) = 3 * iteration[p] - 1
      BY <2>1, <1>1 DEF SentAll
    <3> QED
      BY <1>1, <2>1, <3>1 DEF SentMost
  <2>2. CASE ~(round(p) = r /\ pc[p] = "thrown")
    BY <1>2, <2>2 DEF SentMost
  <2> QED
    BY <2>1, <2>2
<1>4. pc[p] \notin Inactive => Got(p, q, t) \in Int
  BY <1>1 DEF Got, PCs, Inactive
<1> QED
  BY <1>2, <1>3, <1>4

LEMMA BoxTypes ==
  ASSUME Types, NEW p \in Peers, NEW r, NEW q, NEW t
  PROVE  /\ Box(p, r, q, t) \in Seq(Messages)
         /\ r \notin 1 .. round(p) => Box(p, r, q, t) = <<>>
<1>1. CASE Key(r, q, t) \in DOMAIN inBox[p]
  <2>1. /\ Key(r, q, t) \in (1 .. round(p)) \X Peers \X Tags
        /\ inBox[p][Key(r, q, t)] \in Seq(Messages)
    BY <1>1 DEF Types
  <2> QED
    BY <1>1, <2>1 DEF Box, Get, Key
<1>2. CASE Key(r, q, t) \notin DOMAIN inBox[p]
  BY <1>2 DEF Box, Get
<1> QED
  BY <1>1, <1>2

\* What Sent and Received do to each stream.
LEMMA SentFacts ==
  ASSUME Types, NEW x \in Peers, round(x) # 0, \A q \in Peers : round(q) >= round(x),
         NEW messages, Sent(x, messages),
         \A d \in DOMAIN messages : d \in Peers \X Tags /\ messages[d] \in Seq(Messages)
  PROVE  /\ DOMAIN inBox' = Peers
         /\ \A p \in Peers : \A k \in DOMAIN inBox'[p] :
              k \in (1 .. round(p)) \X Peers \X Tags /\ inBox'[p][k] \in Seq(Messages)
         /\ \A p \in Peers : \A r, q, t :
              Get(inBox'[p], Key(r, q, t), <<>>) =
                IF r = round(x) /\ q = x /\ <<p, t>> \in DOMAIN messages
                THEN Box(p, r, q, t) \o messages[<<p, t>>]
                ELSE Box(p, r, q, t)
<1> DEFINE sends(q, k) == k[1] = round(x) /\ k[2] = x /\ <<q, k[3]>> \in DOMAIN messages
           keys(q) == {Key(round(x), x, d[2]) : d \in {d \in DOMAIN messages : d[1] = q}}
           new(q, k) == Get(inBox[q], k, <<>>) \o (IF sends(q, k) THEN messages[<<q, k[3]>>] ELSE <<>>)
<1>1. inBox' = [q \in Peers |-> [k \in DOMAIN inBox[q] \cup keys(q) |-> new(q, k)]]
  BY Zenon DEF Sent
<1>2. \A q \in Peers : /\ DOMAIN inBox'[q] = DOMAIN inBox[q] \cup keys(q)
                       /\ \A k \in DOMAIN inBox[q] \cup keys(q) : inBox'[q][k] = new(q, k)
  BY <1>1
<1>3. \A q \in Peers : \A k : Get(inBox[q], k, <<>>) \in Seq(Messages)
  BY DEF Types, Get
<1>4. \A q \in Peers : \A k \in keys(q) :
        sends(q, k) /\ k \in (1 .. round(q)) \X Peers \X Tags
  <2> TAKE q \in Peers
  <2> TAKE k \in keys(q)
  <2>1. PICK d \in DOMAIN messages : d[1] = q /\ k = Key(round(x), x, d[2])
    OBVIOUS
  <2>2. d \in Peers \X Tags /\ d = <<q, d[2]>>
    BY <2>1
  <2>3. k[1] = round(x) /\ k[2] = x /\ k[3] = d[2] /\ k = <<round(x), x, d[2]>>
    BY <2>1 DEF Key
  <2>4. round(x) \in 1 .. round(q)
    <3>1. round(x) \in Nat /\ round(q) \in Nat /\ round(q) >= round(x)
      BY RoundNumber
    <3> QED
      BY <3>1
  <2> QED
    BY <2>1, <2>2, <2>3, <2>4
<1>5. \A q \in Peers : \A k : new(q, k) \in Seq(Messages)
  <2> TAKE q \in Peers
  <2> TAKE k
  <2>1. PICK a \in Seq(Messages) : a = Get(inBox[q], k, <<>>)
    BY <1>3
  <2>2. PICK b \in Seq(Messages) : b = IF sends(q, k) THEN messages[<<q, k[3]>>] ELSE <<>>
    <3>1. <<>> \in Seq(Messages)
      OBVIOUS
    <3>2. sends(q, k) => messages[<<q, k[3]>>] \in Seq(Messages)
      OBVIOUS
    <3> HIDE DEF sends
    <3> QED
      BY <3>1, <3>2
  <2>3. new(q, k) = a \o b
    BY <2>1, <2>2
  <2>4. a \o b \in Seq(Messages)
    BY <2>1, <2>2, JoinFacts
  <2> QED
    BY <2>3, <2>4
<1>6. ASSUME NEW p \in Peers, NEW r, NEW q, NEW t
      PROVE  Get(inBox'[p], Key(r, q, t), <<>>) =
                IF r = round(x) /\ q = x /\ <<p, t>> \in DOMAIN messages
                THEN Box(p, r, q, t) \o messages[<<p, t>>]
                ELSE Box(p, r, q, t)
  <2> DEFINE k == Key(r, q, t)
  <2>1. k[1] = r /\ k[2] = q /\ k[3] = t
    BY DEF Key
  <2>2. sends(p, k) <=> r = round(x) /\ q = x /\ <<p, t>> \in DOMAIN messages
    BY <2>1
  <2>3. sends(p, k) => k \in keys(p)
    <3> SUFFICES ASSUME sends(p, k) PROVE k \in keys(p)
      OBVIOUS
    <3>1. <<p, t>> \in {d \in DOMAIN messages : d[1] = p} /\ <<p, t>>[2] = t
      BY <2>2
    <3>2. k = Key(round(x), x, <<p, t>>[2])
      BY <2>2
    <3> QED
      BY <3>1, <3>2
  <2>4. Box(p, r, q, t) = Get(inBox[p], k, <<>>) /\ Box(p, r, q, t) \in Seq(Messages)
    BY <1>3 DEF Box
  <2>5. new(p, k) = IF sends(p, k) THEN Box(p, r, q, t) \o messages[<<p, t>>] ELSE Box(p, r, q, t)
    <3>1. CASE sends(p, k)
      BY <2>1, <2>4, <3>1
    <3>2. CASE ~sends(p, k)
      <4>1. Box(p, r, q, t) \o <<>> = Box(p, r, q, t)
        BY <2>4
      <4>2. new(p, k) = Get(inBox[p], k, <<>>) \o <<>>
        BY <3>2
      <4> QED
        BY <2>4, <3>2, <4>1, <4>2
    <3> QED
      BY <3>1, <3>2
  <2>6. Get(inBox'[p], k, <<>>) = new(p, k)
    <3>1. CASE k \in DOMAIN inBox[p] \cup keys(p)
      <4>1. Get(inBox'[p], k, <<>>) = inBox'[p][k]
        BY <1>2, <3>1 DEF Get
      <4> HIDE DEF k, new, keys
      <4> QED
        BY <1>2, <3>1, <4>1
    <3>2. CASE k \notin DOMAIN inBox[p] \cup keys(p)
      <4>1. Get(inBox'[p], k, <<>>) = <<>> /\ Get(inBox[p], k, <<>>) = <<>>
        BY <1>2, <3>2 DEF Get
      <4>2. ~sends(p, k)
        BY <2>3, <3>2
      <4> QED
        BY <2>4, <2>5, <4>1, <4>2
    <3> QED
      BY <3>1, <3>2
  <2> QED
    BY <2>2, <2>5, <2>6
<1>7. \A p \in Peers : \A k \in DOMAIN inBox'[p] :
        k \in (1 .. round(p)) \X Peers \X Tags /\ inBox'[p][k] \in Seq(Messages)
  <2> TAKE p \in Peers
  <2> TAKE k \in DOMAIN inBox'[p]
  <2>1. k \in DOMAIN inBox[p] \cup keys(p) /\ inBox'[p][k] = new(p, k)
    <3> HIDE DEF keys, new
    <3> QED
      BY <1>2
  <2>2. k \in (1 .. round(p)) \X Peers \X Tags
    BY <1>4, <2>1 DEF Types
  <2> QED
    BY <1>5, <2>1, <2>2
<1> QED
  BY <1>1, <1>6, <1>7

\* The same to all.
LEMMA SentAlike ==
  ASSUME Types, NEW x \in Peers, round(x) # 0, \A q \in Peers : round(q) >= round(x),
         NEW messages, Sent(x, messages), NEW D, DOMAIN messages = D,
         NEW u \in Seq(Messages), \A d \in D : d \in Peers \X Tags /\ messages[d] = u,
         NEW r0, r0 = round(x)
  PROVE  /\ DOMAIN inBox' = Peers
         /\ \A p \in Peers : \A k \in DOMAIN inBox'[p] :
              k \in (1 .. round(p)) \X Peers \X Tags /\ inBox'[p][k] \in Seq(Messages)
         /\ \A p \in Peers : \A r, q, t :
              Get(inBox'[p], Key(r, q, t), <<>>) =
                IF r = r0 /\ q = x /\ <<p, t>> \in D THEN Box(p, r, q, t) \o u ELSE Box(p, r, q, t)
<1>1. \A d \in DOMAIN messages : d \in Peers \X Tags /\ messages[d] \in Seq(Messages)
  OBVIOUS
<1>2. /\ DOMAIN inBox' = Peers
      /\ \A p \in Peers : \A k \in DOMAIN inBox'[p] :
           k \in (1 .. round(p)) \X Peers \X Tags /\ inBox'[p][k] \in Seq(Messages)
      /\ \A p \in Peers : \A r, q, t :
           Get(inBox'[p], Key(r, q, t), <<>>) =
             IF r = round(x) /\ q = x /\ <<p, t>> \in DOMAIN messages
             THEN Box(p, r, q, t) \o messages[<<p, t>>]
             ELSE Box(p, r, q, t)
  BY <1>1, SentFacts
<1>3. ASSUME NEW p \in Peers, NEW r, NEW q, NEW t
      PROVE  Get(inBox'[p], Key(r, q, t), <<>>) =
               IF r = r0 /\ q = x /\ <<p, t>> \in D THEN Box(p, r, q, t) \o u ELSE Box(p, r, q, t)
  <2>1. CASE <<p, t>> \in D
    <3>1. messages[<<p, t>>] = u
      BY <2>1
    <3> QED
      BY <1>2, <2>1, <3>1
  <2>2. CASE <<p, t>> \notin D
    BY <1>2, <2>2
  <2> QED
    BY <2>1, <2>2
<1> QED
  BY <1>2, <1>3

LEMMA ReceivedFacts ==
  ASSUME Types, NEW x \in Peers, NEW q0 \in Peers, NEW t0 \in Tags, NEW r0, r0 = round(x),
         Received(x, q0, t0)
  PROVE  /\ DOMAIN inBox' = Peers
         /\ \A p \in Peers : \A k \in DOMAIN inBox'[p] :
              k \in (1 .. round(p)) \X Peers \X Tags /\ inBox'[p][k] \in Seq(Messages)
         /\ Box(x, r0, q0, t0) = Arrived(x, q0, t0) /\ Box(x, r0, q0, t0) # <<>>
         /\ r0 # 0
         /\ Get(inBox'[x], Key(r0, q0, t0), <<>>) = Tail(Box(x, r0, q0, t0))
         /\ \A p \in Peers : \A r, q, t : ~(p = x /\ r = r0 /\ q = q0 /\ t = t0) =>
              Get(inBox'[p], Key(r, q, t), <<>>) = Box(p, r, q, t)
<1> DEFINE k0 == Key(r0, q0, t0)
<1>1. Box(x, r0, q0, t0) = Arrived(x, q0, t0) /\ Box(x, r0, q0, t0) # <<>>
  BY DEF Box, Arrived, Received
<1>2. k0 \in DOMAIN inBox[x]
  BY <1>1 DEF Box, Get
<1>3. /\ k0 \in (1 .. round(x)) \X Peers \X Tags
      /\ Box(x, r0, q0, t0) \in Seq(Messages)
  BY <1>2, BoxTypes DEF Types
<1>4. r0 # 0
  <2>1. r0 \in 1 .. r0
    BY <1>3 DEF Key
  <2> QED
    BY <2>1
<1>5. /\ DOMAIN inBox' = Peers
      /\ \A p \in Peers \ {x} : inBox'[p] = inBox[p]
      /\ inBox'[x] = Put(inBox[x], k0, Tail(Box(x, r0, q0, t0)))
  BY <1>1 DEF Received, Types
<1>6. /\ DOMAIN inBox'[x] = DOMAIN inBox[x]
      /\ inBox'[x][k0] = Tail(Box(x, r0, q0, t0))
      /\ \A k \in DOMAIN inBox[x] : k # k0 => inBox'[x][k] = inBox[x][k]
  <2> HIDE DEF k0
  <2> QED
    BY <1>2, <1>5 DEF Put
<1>7. Tail(Box(x, r0, q0, t0)) \in Seq(Messages)
  BY <1>1, <1>3
<1>8. \A p \in Peers : \A k \in DOMAIN inBox'[p] :
        k \in (1 .. round(p)) \X Peers \X Tags /\ inBox'[p][k] \in Seq(Messages)
  <2> TAKE p \in Peers
  <2>1. CASE p = x
    BY <1>6, <1>7, <2>1 DEF Types
  <2>2. CASE p # x
    BY <1>5, <2>2 DEF Types
  <2> QED
    BY <2>1, <2>2
<1>9. Get(inBox'[x], k0, <<>>) = Tail(Box(x, r0, q0, t0))
  <2> HIDE DEF k0
  <2> QED
    BY <1>2, <1>6 DEF Get
<1>10. ASSUME NEW p \in Peers, NEW r, NEW q, NEW t, ~(p = x /\ r = r0 /\ q = q0 /\ t = t0)
       PROVE  Get(inBox'[p], Key(r, q, t), <<>>) = Box(p, r, q, t)
  <2>1. CASE p = x
    <3>1. Key(r, q, t) # k0
      BY <1>10, <2>1 DEF Key
    <3> HIDE DEF k0
    <3> QED
      BY <1>6, <2>1, <3>1 DEF Get, Box
  <2>2. CASE p # x
    BY <1>5, <2>2 DEF Get, Box
  <2> QED
    BY <2>1, <2>2
<1> QED
  BY <1>1, <1>4, <1>5, <1>8, <1>9, <1>10

-----------------------------------------------------------------------------
(* The streams in a step                                                   *)

LEMMA StreamNext ==
  ASSUME plan' = plan, NEW p, NEW q, NEW t, NEW r, round(p)' = r,
         NEW got, got = Got(p, q, t)', NEW all, all = SentAll(q, r, t)', NEW most, most = SentMost(q, r, t)',
         StreamOf(Get(inBox'[p], Key(r, q, t), <<>>), q, p, r, t, got, all, most)
  PROVE  Stream(p, q, t)'
<1>1. PICK s : s = Get(inBox'[p], Key(r, q, t), <<>>)
  OBVIOUS
<1>2. StreamOf(s, q, p, r, t, got, all, most)'
  BY <1>1, StreamStays
<1>3. s = Box(p, r, q, t)'
  BY <1>1 DEF Box
<1> QED
  BY <1>2, <1>3 DEF Stream

LEMMA OtherRounds ==
  ASSUME plan' = plan, NEW x, hosted' = hosted, NEW r, r # round(x), r \in Nat, round(x) \in Nat
  PROVE  \A t : SentAll(x, r, t)' = SentAll(x, r, t) /\ SentMost(x, r, t)' = SentMost(x, r, t)
<1>1. round(x)' = round(x) /\ Last' = Last
  BY PlanStays DEF round
<1>2. \A t : SentAll(x, r, t)' = SentAll(x, r, t)
  BY <1>1 DEF SentAll
<1> QED
  BY <1>1, <1>2 DEF SentMost

\* x sends, or just goes on: to each member it sends what it owes next, and it
\* misses nothing it is owed.
LEMMA SendingStep ==
  ASSUME Types, Streams, NEW x \in Peers, plan' = plan, hosted' = hosted, NEW r0, r0 = round(x),
         \A y \in Peers \ {x} : Stays(y),
         pc'[x] \notin Inactive => pc[x] \notin Inactive,
         \A p, q \in Peers, t \in Tags : q # x \/ round(p) # r0 =>
           Get(inBox'[p], Key(round(p), q, t), <<>>) = Box(p, round(p), q, t),
         \A t \in Tags : SentAll(x, r0, t)' \in Int /\ SentMost(x, r0, t)' \in Int,
         \A p \in Peers, t \in Tags, got \in Int :
           /\ pc[p] \notin Inactive /\ round(p) = r0
           /\ StreamOf(Box(p, r0, x, t), x, p, r0, t, got, SentAll(x, r0, t), SentMost(x, r0, t))
           => StreamOf(Get(inBox'[p], Key(r0, x, t), <<>>), x, p, r0, t, got,
                       SentAll(x, r0, t)', SentMost(x, r0, t)'),
         pc'[x] \notin Inactive => \A q \in Peers, t \in Tags :
           /\ Got(x, q, t)' \in Int /\ Got(x, q, t) <= Got(x, q, t)'
           /\ \A k \in Nat : Owes(q, x, r0, t, k) /\ Got(x, q, t) < k => Got(x, q, t)' < k
  PROVE  Streams'
<1> SUFFICES ASSUME NEW p \in Peers, NEW q \in Peers, NEW t \in Tags, pc'[p] \notin Inactive
             PROVE  Stream(p, q, t)'
  BY DEF Streams
<1>1. pc[p] \notin Inactive
  BY DEF Stays
<1>2. Stream(p, q, t)
  BY <1>1 DEF Streams
<1>3. PICK r \in Nat : r = round(p)
  BY RoundNumber
<1>4. round(p)' = r /\ r0 \in Nat
  BY <1>3, RoundNumber DEF round
<1> DEFINE s == Get(inBox'[p], Key(r, q, t), <<>>)
           all == SentAll(q, r, t)'
           most == SentMost(q, r, t)'
<1>5. all \in Int /\ most \in Int
  <2>1. CASE q = x /\ r = r0
    BY <2>1
  <2>2. CASE q = x /\ r # r0
    <3>1. SentAll(x, r, t)' = SentAll(x, r, t) /\ SentMost(x, r, t)' = SentMost(x, r, t)
      BY <1>4, <2>2, OtherRounds
    <3>2. SentAll(x, r, t) \in Int /\ SentMost(x, r, t) \in Int
      BY RankTypes
    <3> QED
      BY <2>2, <3>1, <3>2
  <2>3. CASE q # x
    <3>1. SentAll(q, r, t)' = SentAll(q, r, t) /\ SentMost(q, r, t)' = SentMost(q, r, t)
      BY <2>3, StaysFacts
    <3>2. SentAll(q, r, t) \in Int /\ SentMost(q, r, t) \in Int
      BY RankTypes
    <3> QED
      BY <3>1, <3>2
  <2> QED
    BY <2>1, <2>2, <2>3
<1>6. Got(p, q, t) \in Int
  BY <1>1, <1>3, RankTypes
<1>7. StreamOf(s, q, p, r, t, Got(p, q, t), all, most)
  <2>1. StreamOf(Box(p, r, q, t), q, p, r, t, Got(p, q, t), SentAll(q, r, t), SentMost(q, r, t))
    BY <1>2, <1>3 DEF Stream
  <2>2. CASE q = x /\ r = r0
    <3>1. PICK got \in Int : got = Got(p, q, t)
      BY <1>6
    <3>2. StreamOf(Box(p, r0, x, t), x, p, r0, t, got, SentAll(x, r0, t), SentMost(x, r0, t))
      BY <2>1, <2>2, <3>1
    <3>3. StreamOf(Get(inBox'[p], Key(r0, x, t), <<>>), x, p, r0, t, got,
                   SentAll(x, r0, t)', SentMost(x, r0, t)')
      BY <1>1, <1>3, <2>2, <3>2
    <3> QED
      BY <2>2, <3>1, <3>3
  <2>3. CASE q = x /\ r # r0
    <3>1. s = Box(p, r, q, t)
      BY <1>3, <2>3
    <3>2. all = SentAll(q, r, t) /\ most = SentMost(q, r, t)
      BY <1>4, <2>3, OtherRounds
    <3> QED
      BY <2>1, <3>1, <3>2
  <2>4. CASE q # x
    <3>1. s = Box(p, r, q, t)
      BY <1>3, <2>4
    <3>2. all = SentAll(q, r, t) /\ most = SentMost(q, r, t)
      BY <2>4, StaysFacts
    <3> QED
      BY <2>1, <3>1, <3>2
  <2> QED
    BY <2>2, <2>3, <2>4
<1> DEFINE got == Got(p, q, t)'
<1>8. StreamOf(s, q, p, r, t, got, all, most)
  <2>1. CASE p = x
    <3>1. /\ got \in Int /\ Got(p, q, t) <= got
          /\ \A k \in Nat : Owes(q, p, r, t, k) => (Got(p, q, t) < k => got < k)
      BY <1>3, <2>1
    <3> HIDE DEF s, all, most, got
    <3>2. PICK g \in Int : g = Got(p, q, t)
      BY <1>6
    <3>3. most <= most
      BY <1>5
    <3> QED
      BY <1>5, <1>7, <3>1, <3>2, <3>3, StreamShifts
  <2>2. CASE p # x
    <3>1. got = Got(p, q, t)
      BY <2>2, StaysFacts
    <3> QED
      BY <1>7, <3>1
  <2> QED
    BY <2>1, <2>2
<1> HIDE DEF all, most, got
<1> QED
  BY <1>4, <1>8, StreamNext DEF all, most, got, s

\* x receives: it has one message less before it, or waits for one less.
LEMMA ReceivingStep ==
  ASSUME Types, Streams, NEW x \in Peers, plan' = plan, hosted' = hosted, NEW r0, r0 = round(x),
         \A y \in Peers \ {x} : Stays(y), pc[x] \notin Inactive,
         \A p \in Peers \ {x}, q \in Peers, t \in Tags :
           Get(inBox'[p], Key(round(p), q, t), <<>>) = Box(p, round(p), q, t),
         \A t \in Tags : SentAll(x, r0, t)' = SentAll(x, r0, t) /\ SentMost(x, r0, t)' = SentMost(x, r0, t),
         \A q \in Peers, t \in Tags, all, most \in Int :
           StreamOf(Box(x, r0, q, t), q, x, r0, t, Got(x, q, t), all, most) /\ most <= all + 1
           => StreamOf(Get(inBox'[x], Key(r0, q, t), <<>>), q, x, r0, t, Got(x, q, t)', all, most)
  PROVE  Streams'
<1> SUFFICES ASSUME NEW p \in Peers, NEW q \in Peers, NEW t \in Tags, pc'[p] \notin Inactive
             PROVE  Stream(p, q, t)'
  BY DEF Streams
<1>1. pc[p] \notin Inactive
  BY DEF Stays
<1>2. Stream(p, q, t)
  BY <1>1 DEF Streams
<1>3. PICK r \in Nat : r = round(p)
  BY RoundNumber
<1>4. round(p)' = r /\ r0 \in Nat
  BY <1>3, RoundNumber DEF round
<1> DEFINE s == Get(inBox'[p], Key(r, q, t), <<>>)
<1>5. SentAll(q, r, t)' = SentAll(q, r, t) /\ SentMost(q, r, t)' = SentMost(q, r, t)
  <2>1. CASE q = x /\ r = r0
    BY <2>1
  <2>2. CASE q = x /\ r # r0
    <3>1. SentAll(x, r, t)' = SentAll(x, r, t) /\ SentMost(x, r, t)' = SentMost(x, r, t)
      BY <1>4, <2>2, OtherRounds
    <3> QED
      BY <2>2, <3>1
  <2>3. CASE q # x
    BY <2>3, StaysFacts
  <2> QED
    BY <2>1, <2>2, <2>3
<1> DEFINE got == Got(p, q, t)'
<1>6. StreamOf(s, q, p, r, t, got, SentAll(q, r, t), SentMost(q, r, t))
  <2>1. StreamOf(Box(p, r, q, t), q, p, r, t, Got(p, q, t), SentAll(q, r, t), SentMost(q, r, t))
    BY <1>2, <1>3 DEF Stream
  <2>2. CASE p = x
    <3>1. PICK all \in Int, most \in Int :
            all = SentAll(q, r, t) /\ most = SentMost(q, r, t) /\ most <= all + 1
      BY RankTypes
    <3>2. StreamOf(Box(x, r0, q, t), q, x, r0, t, Got(x, q, t), all, most)
      BY <1>3, <2>1, <2>2, <3>1
    <3>3. StreamOf(Get(inBox'[x], Key(r0, q, t), <<>>), q, x, r0, t, Got(x, q, t)', all, most)
      BY <3>1, <3>2
    <3> QED
      BY <1>3, <2>2, <3>1, <3>3
  <2>3. CASE p # x
    <3>1. s = Box(p, r, q, t)
      BY <1>3, <2>3
    <3>2. got = Got(p, q, t)
      BY <2>3, StaysFacts
    <3> QED
      BY <2>1, <3>1, <3>2
  <2> QED
    BY <2>2, <2>3
<1> HIDE DEF got
<1> QED
  BY <1>4, <1>5, <1>6, StreamNext DEF got, s

-----------------------------------------------------------------------------
(* The other parts of the invariant in a step                              *)

\* The incoming edges, by the graph and the vertices of a peer.
Into(g, v) == Kept([j \in DOMAIN g |-> j - 1], {e \in Range([j \in DOMAIN g |-> j - 1]) : g[e + 1][2] = v})
InEdgesOf(g, s) ==
    LET edges[n \in 0 .. Len(s)] == IF n = 0 THEN <<>> ELSE edges[n - 1] \o Into(g, s[n])
    IN  edges[Len(s)]

LEMMA InEdgesStay ==
  ASSUME NEW p, graph'[p] = graph[p], hosted'[p] = hosted[p]
  PROVE  InEdges(p)' = InEdges(p)
<1>1. InEdges(p) = InEdgesOf(graph[p], hosted[p][round(p)])
  BY Zenon DEF InEdges, InEdgesOf, Into, getInEdges, EdgeIDs, Target
<1>2. InEdges(p)' = InEdgesOf(graph'[p], hosted'[p][round(p)'])
  BY Zenon DEF InEdges, InEdgesOf, Into, getInEdges, EdgeIDs, Target
<1>3. round(p)' = round(p)
  BY Zenon DEF round
<1> QED
  BY <1>1, <1>2, <1>3, Zenon

\* A step of x in which no peer distributes.
Within(x) ==
    /\ plan' = plan /\ hosted' = hosted /\ graph' = graph
    /\ \A y \in Peers \ {x} : Stays(y)

LEMMA WithinFacts ==
  ASSUME NEW x, Within(x)
  PROVE  /\ \A p : round(p)' = round(p)
         /\ \A p : InEdges(p)' = InEdges(p)
<1>1. \A p : round(p)' = round(p)
  BY Zenon DEF Within, round
<1>2. \A p : InEdges(p)' = InEdges(p)
  BY InEdgesStay DEF Within
<1> QED
  BY <1>1, <1>2

\* What is left to show of the types.
LEMMA TypesStep ==
  ASSUME Types, NEW x, Within(x),
         pc' \in [Peers -> PCs], todo' \in [Peers -> Seq(Nat)],
         iteration' \in [Peers -> 0 .. plan.iterations],
         DOMAIN nVertices' = Peers,
         DOMAIN vertexMap' = Peers /\ \A p \in Peers : vertexMap'[p] \in [DOMAIN vertexMap'[p] -> Peers],
         DOMAIN peerMap' = Peers,
         DOMAIN inBox' = Peers,
         \A p \in Peers : \A k \in DOMAIN inBox'[p] :
           k \in (1 .. round(p)) \X Peers \X Tags /\ inBox'[p][k] \in Seq(Messages),
         data' \in [Peers -> Seq([edge : Nat, value : Nat \cup Seq(Nat)])]
  PROVE  Types'
<1>1. plan' = plan /\ hosted' = hosted /\ graph' = graph /\ \A p : round(p)' = round(p)
  BY WithinFacts DEF Within
<1>2. /\ \A r : EdgesOf(r)' = EdgesOf(r)
      /\ \A p, r : Mapped(p, r)' = Mapped(p, r)
  BY <1>1, PlanStays
<1>3. plan' \in Plans /\ hosted' \in [Peers -> Seq(Seq(Nat))]
  BY <1>1 DEF Types
<1>4. \A p \in Peers : /\ round(p)' <= Len(plan'.rounds)
                       /\ \A r \in 1 .. round(p)' : hosted'[p][r] = Mapped(p, r)'
  BY <1>1, <1>2 DEF Types
<1>5. graph' = [p \in Peers |-> IF round(p)' = 0 THEN <<>> ELSE EdgesOf(round(p))']
  BY <1>1, <1>2 DEF Types
<1>6. \A p \in Peers : \A k \in DOMAIN inBox'[p] :
           k \in (1 .. round(p)') \X Peers \X Tags /\ inBox'[p][k] \in Seq(Messages)
  BY <1>1
<1> QED
  BY <1>1, <1>3, <1>4, <1>5, <1>6 DEF Types

\* A peer that takes no step stays where it is, and knows what it knows.
LEMMA PlaceStays ==
  ASSUME NEW x, Within(x), NEW y \in Peers, Stays(y), Place(y), Knows(y), nVertices'[y] = nVertices[y],
         vertexMap'[y] = vertexMap[y], peerMap'[y] = peerMap[y]
  PROVE  Place(y)' /\ Knows(y)'
<1>1. /\ \A p : round(p)' = round(p)
      /\ InEdges(y)' = InEdges(y)
  BY WithinFacts
<1>2. plan' = plan
  BY DEF Within
<1>3. pc'[y] = pc[y] /\ todo'[y] = todo[y] /\ iteration'[y] = iteration[y]
  BY DEF Stays
<1>4. \A r : InRound(r)' = InRound(r) /\ \A p : Mapped(p, r)' = Mapped(p, r)
  BY <1>2, PlanStays
<1>5. \A r, v : HostedIn(r, v)' = HostedIn(r, v) /\ LastHost(r, v)' = LastHost(r, v)
  BY <1>2, PlanStays
<1>6. Heard(y)' = Heard(y)
  BY <1>1, <1>3, <1>4 DEF Heard
<1>7. Place(y)'
  BY <1>1, <1>2, <1>3, <1>4, <1>5 DEF Place
<1>8. Knows(y)'
  BY <1>1, <1>3, <1>4, <1>5, <1>6 DEF Knows
<1> QED
  BY <1>7, <1>8

\* A peer that goes on, in its program or in what it has to do.
LEMMA GotoFacts ==
  ASSUME Types, NEW x \in Peers, NEW stage, NEW work, Goto(x, stage, work), UNCHANGED iteration,
         UNCHANGED <<plan, hosted, graph>>
  PROVE  /\ Within(x) /\ pc'[x] = stage /\ todo'[x] = work
         /\ stage \in PCs => pc' \in [Peers -> PCs]
         /\ work \in Seq(Nat) => todo' \in [Peers -> Seq(Nat)]
         /\ iteration' \in [Peers -> 0 .. plan.iterations]
<1>1. pc \in [Peers -> PCs] /\ todo \in [Peers -> Seq(Nat)] /\ iteration \in [Peers -> 0 .. plan.iterations]
  BY DEF Types
<1>2. pc' = [pc EXCEPT ![x] = stage] /\ todo' = [todo EXCEPT ![x] = work]
  BY DEF Goto
<1> QED
  BY <1>1, <1>2 DEF Within, Stays

LEMMA DoneFacts ==
  ASSUME Types, NEW x \in Peers, Done(x), todo[x] # <<>>, UNCHANGED iteration, UNCHANGED <<plan, hosted, graph>>
  PROVE  /\ Within(x) /\ pc'[x] = pc[x] /\ todo'[x] = Tail(todo[x])
         /\ pc' \in [Peers -> PCs] /\ todo' \in [Peers -> Seq(Nat)]
         /\ iteration' \in [Peers -> 0 .. plan.iterations]
<1>1. pc \in [Peers -> PCs] /\ todo \in [Peers -> Seq(Nat)] /\ iteration \in [Peers -> 0 .. plan.iterations]
  BY DEF Types
<1>2. pc' = pc /\ todo' = [todo EXCEPT ![x] = Tail(todo[x])]
  BY DEF Done
<1>3. Tail(todo[x]) \in Seq(Nat)
  BY <1>1
<1> QED
  BY <1>1, <1>2, <1>3 DEF Within, Stays

\* What is left to do, but for the first.
LEMMA WorkFacts ==
  ASSUME NEW S, NEW s \in Seq(S), s # <<>>
  PROVE  /\ Head(s) \in Range(s) /\ Head(s) \in S /\ Tail(s) \in Seq(S) /\ s[1] = Head(s)
         /\ Range(s) = Range(Tail(s)) \cup {Head(s)}
         /\ Len(s) \in Nat \ {0} /\ DOMAIN s = 1 .. Len(s) /\ DOMAIN Tail(s) = 1 .. Len(s) - 1
         /\ Len(Tail(s)) = Len(s) - 1 /\ \A j \in 1 .. Len(s) - 1 : Tail(s)[j] = s[j + 1]
         /\ IsInjective(s) => IsInjective(Tail(s)) /\ Head(s) \notin Range(Tail(s))
         /\ S \subseteq Nat /\ Ascending(s) =>
              Ascending(Tail(s)) /\ \A y \in Range(Tail(s)) : Head(s) < y
<1>1. PICK n \in Nat : n = Len(s) - 1 /\ DOMAIN s = 1 .. n + 1 /\ 1 \in 1 .. n + 1 /\ Head(s) = s[1]
  <2>1. Len(s) \in Nat /\ Len(s) # 0
    OBVIOUS
  <2> QED
    BY <2>1
<1> DEFINE u == Tail(s)
<1>2. /\ u \in Seq(S) /\ DOMAIN u = 1 .. n /\ \A j \in 1 .. n : u[j] = s[j + 1]
      /\ Len(u) = n /\ Len(s) = n + 1 /\ Len(s) \in Nat \ {0} /\ Head(s) \in S
  BY <1>1
<1> HIDE DEF u
<1>3. /\ \A x : x \in Range(s) <=> \E j \in 1 .. n + 1 : x = s[j]
      /\ \A x : x \in Range(u) <=> \E j \in 1 .. n : x = s[j + 1]
  <2>1. \A x : x \in Range(s) <=> \E j \in 1 .. n + 1 : x = s[j]
    BY <1>1 DEF Range
  <2>2. \A x : x \in Range(u) <=> \E j \in 1 .. n : x = s[j + 1]
    BY <1>2 DEF Range
  <2> QED
    BY <2>1, <2>2
<1>4. Range(s) = Range(u) \cup {Head(s)} /\ Head(s) \in Range(s)
  <2>1. \A j \in 1 .. n + 1 : j = 1 \/ (j - 1 \in 1 .. n /\ (j - 1) + 1 = j)
    OBVIOUS
  <2>2. \A j \in 1 .. n : j + 1 \in 1 .. n + 1
    OBVIOUS
  <2>3. \A x \in Range(s) : x \in Range(u) \cup {Head(s)}
    BY <1>1, <1>3, <2>1
  <2>4. \A x \in Range(u) : x \in Range(s)
    BY <1>3, <2>2
  <2> QED
    BY <1>1, <1>3, <2>3, <2>4
<1>5. ASSUME IsInjective(s)
      PROVE  IsInjective(u) /\ Head(s) \notin Range(u)
  <2>1. \A i, j \in 1 .. n + 1 : s[i] = s[j] => i = j
    BY <1>1, <1>5 DEF IsInjective
  <2>2. \A j \in 1 .. n : j + 1 \in 1 .. n + 1 /\ 1 # j + 1
    OBVIOUS
  <2>3. Head(s) \notin Range(u)
    BY <1>1, <1>3, <2>1, <2>2
  <2>4. \A i, j \in 1 .. n : u[i] = u[j] => i = j
    <3> TAKE i, j \in 1 .. n
    <3>1. s[i + 1] = s[j + 1] => i + 1 = j + 1
      BY <2>1, <2>2
    <3> QED
      BY <1>2, <3>1
  <2> QED
    BY <1>2, <2>3, <2>4 DEF IsInjective
<1>6. ASSUME Ascending(s)
      PROVE  Ascending(u) /\ \A y \in Range(u) : Head(s) < y
  <2>1. \A i, j \in 1 .. n + 1 : i < j => s[i] < s[j]
    BY <1>1, <1>6 DEF Ascending
  <2>2. \A j \in 1 .. n : j + 1 \in 1 .. n + 1 /\ 1 < j + 1
    OBVIOUS
  <2>3. \A y \in Range(u) : Head(s) < y
    BY <1>1, <1>3, <2>1, <2>2
  <2>4. \A i, j \in 1 .. n : i < j => u[i] < u[j]
    <3> TAKE i, j \in 1 .. n
    <3>1. i < j => i + 1 < j + 1
      OBVIOUS
    <3> QED
      BY <1>2, <2>1, <2>2, <3>1
  <2> QED
    BY <1>2, <2>3, <2>4 DEF Ascending
<1>7. /\ Len(s) - 1 = n /\ DOMAIN s = 1 .. Len(s)
  BY <1>1, <1>2
<1> QED
  BY <1>1, <1>2, <1>4, <1>5, <1>6, <1>7 DEF u

-----------------------------------------------------------------------------
(* The steps keep the invariant                                            *)

\* What is left to show of the invariant.
LEMMA StepKeeps ==
  ASSUME IInv, NEW x \in Peers, Within(x), Types', Place(x)', Knows(x)', Streams',
         \A y \in Peers \ {x} : /\ nVertices'[y] = nVertices[y] /\ vertexMap'[y] = vertexMap[y]
                                /\ peerMap'[y] = peerMap[y]
  PROVE  IInv'
<1>1. ASSUME NEW y \in Peers \ {x}
      PROVE  Place(y)' /\ Knows(y)'
  <2>1. Stays(y) /\ Place(y) /\ Knows(y)
    BY <1>1 DEF Within, IInv
  <2> QED
    BY <1>1, <2>1, PlaceStays
<1> QED
  BY <1>1 DEF IInv

LEMMA LeftOutKeeps ==
  ASSUME IInv, NEW x \in Peers, LeftOut(x)
  PROVE  IInv'
<1>1. PICK r0 \in Nat : r0 = round(x) /\ r0 # 0 /\ \A q \in Peers : round(q) >= r0
  BY RoundNumber DEF IInv, LeftOut, Place, SplitReturned
<1>2. /\ Within(x) /\ pc'[x] = "idle" /\ todo'[x] = <<>> /\ iteration' = iteration
      /\ pc' \in [Peers -> PCs] /\ todo' \in [Peers -> Seq(Nat)]
      /\ iteration' \in [Peers -> 0 .. plan.iterations]
  <2>1. <<>> \in Seq(Nat) /\ "idle" \in PCs
    BY DEF PCs
  <2> QED
    BY <2>1, GotoFacts DEF LeftOut, IInv
<1>3. /\ inBox' = inBox /\ nVertices' = nVertices /\ vertexMap' = vertexMap /\ peerMap' = peerMap
      /\ data' = data /\ plan' = plan /\ hosted' = hosted
  BY DEF LeftOut
<1>4. round(x)' = r0 /\ \A p : round(p)' = round(p)
  BY <1>1, <1>2, WithinFacts
<1>5. Types'
  BY <1>2, <1>3, TypesStep DEF Types, IInv
<1>6. Place(x)' /\ Knows(x)'
  <2>1. iteration[x] = 0 /\ iteration'[x] = 0
    BY <1>2 DEF IInv, Place, LeftOut
  <2>2. \A q \in Peers : round(q) + 1 >= r0 /\ round(q) \in Nat
    BY <1>1, RoundNumber DEF IInv
  <2> QED
    BY <1>1, <1>2, <1>4, <2>1, <2>2 DEF Place, Knows
<1>7. x \notin InRound(r0)
  BY <1>1, RoundFacts DEF InRound, LeftOut, IInv
<1>8. \A t : /\ SentAll(x, r0, t) = 0 /\ SentMost(x, r0, t) = 0
             /\ SentAll(x, r0, t)' = Last /\ SentMost(x, r0, t)' = Last
  <2>1. Last' = Last
    BY <1>3, PlanStays
  <2> QED
    BY <1>1, <1>2, <1>4, <2>1 DEF SentAll, SentMost, LeftOut
<1>9. Streams'
  <2>1. Last \in Nat
    BY PlanFacts DEF Last, IInv, Types
  <2>2. ASSUME NEW p \in Peers, NEW t \in Tags, NEW got \in Int,
               StreamOf(Box(p, r0, x, t), x, p, r0, t, got, 0, 0)
        PROVE  StreamOf(Box(p, r0, x, t), x, p, r0, t, got, Last, Last)
    <3>1. \A k \in Nat : ~Owes(x, p, r0, t, k)
      BY <1>7 DEF Owes
    <3>2. got <= got /\ 0 <= Last
      BY <2>1
    <3> QED
      BY <2>1, <2>2, <3>1, <3>2, StreamShifts
  <2>3. \A p, q : \A r, t : Get(inBox'[p], Key(r, q, t), <<>>) = Box(p, r, q, t)
    BY <1>3 DEF Box
  <2>4. pc'[x] \in Inactive
    BY <1>2 DEF Inactive
  <2>5. \A y \in Peers \ {x} : Stays(y)
    BY <1>2 DEF Within
  <2> QED
    BY <1>1, <1>3, <1>8, <2>1, <2>2, <2>3, <2>4, <2>5, SendingStep DEF IInv
<1> QED
  BY <1>2, <1>3, <1>5, <1>6, <1>9, StepKeeps

\* The messages of a peer, by their ranks.
LEMMA MessageFacts ==
  /\ \A body \in Nat : Message("count", body) \in Messages /\ RankOf(Message("count", body)) = 1
  /\ \A body \in Seq(Nat) : Message("ids", body) \in Messages /\ RankOf(Message("ids", body)) = 2
  /\ \A a, b, i \in Nat :
       /\ Message("data", Value(a, b, i)) \in Messages /\ RankOf(Message("data", Value(a, b, i))) = 3 * i
       /\ Message("sizes", Value(a, b, i)) \in Messages /\ RankOf(Message("sizes", Value(a, b, i))) = 3 * i + 1
       /\ Message("gather", Value(a, b, i)) \in Messages /\ RankOf(Message("gather", Value(a, b, i))) = 3 * i + 2
<1>1. \A kind \in Kinds : \A body \in Nat \cup Seq(Nat) : Message(kind, body) \in Messages
  BY DEF Message, Messages
<1>2. \A a, b, i \in Nat : Value(a, b, i) \in Seq(Nat) /\ Value(a, b, i)[3] = i
  BY DEF Value
<1>3. \A body : RankOf(Message("count", body)) = 1 /\ RankOf(Message("ids", body)) = 2
  BY DEF RankOf, Message
<1>4. \A body : /\ RankOf(Message("data", body)) = 3 * body[3]
                /\ RankOf(Message("sizes", body)) = 3 * body[3] + 1
                /\ RankOf(Message("gather", body)) = 3 * body[3] + 2
  BY DEF RankOf, Message
<1>5. ASSUME NEW a \in Nat, NEW b \in Nat, NEW i \in Nat
      PROVE  /\ Message("data", Value(a, b, i)) \in Messages /\ RankOf(Message("data", Value(a, b, i))) = 3 * i
             /\ Message("sizes", Value(a, b, i)) \in Messages
             /\ RankOf(Message("sizes", Value(a, b, i))) = 3 * i + 1
             /\ Message("gather", Value(a, b, i)) \in Messages
             /\ RankOf(Message("gather", Value(a, b, i))) = 3 * i + 2
  <2>1. PICK body \in Seq(Nat) : body = Value(a, b, i) /\ body[3] = i
    BY <1>2
  <2> QED
    BY <1>1, <1>4, <2>1 DEF Kinds
<1>6. /\ \A body \in Nat : Message("count", body) \in Messages
      /\ \A body \in Seq(Nat) : Message("ids", body) \in Messages
  BY <1>1 DEF Kinds
<1> QED
  BY <1>3, <1>5, <1>6

\* One message in a stream.
LEMMA OneMessage ==
  ASSUME NEW m \in Messages
  PROVE  <<m>> \in Seq(Messages) /\ Range(<<m>>) = {m} /\ Ascends(<<m>>)
<1>1. <<m>> \in Seq(Messages) /\ DOMAIN <<m>> = {1} /\ <<m>>[1] = m
  OBVIOUS
<1> QED
  BY <1>1 DEF Range, Ascends

\* The same to all members.
LEMMA SentToAll ==
  ASSUME Types, NEW x \in Peers, NEW r0 \in Rounds, r0 = round(x), r0 # 0, \A q \in Peers : round(q) >= r0,
         NEW u \in Seq(Messages), Sent(x, ToAll(x, u))
  PROVE  /\ DOMAIN inBox' = Peers
         /\ \A p \in Peers : \A k \in DOMAIN inBox'[p] :
              k \in (1 .. round(p)) \X Peers \X Tags /\ inBox'[p][k] \in Seq(Messages)
         /\ \A p \in Peers : \A r, q, t :
              Get(inBox'[p], Key(r, q, t), <<>>) =
                IF r = r0 /\ q = x /\ p \in InRound(r0) /\ t = 0
                THEN Box(p, r, q, t) \o u ELSE Box(p, r, q, t)
<1>1. Members(r0) = InRound(r0) /\ InRound(r0) \subseteq Peers
  BY MembersFacts
<1> DEFINE messages == ToAll(x, u)
<1>2. DOMAIN messages = InRound(r0) \X {0} /\ \A d \in DOMAIN messages : messages[d] = u
  BY <1>1 DEF ToAll
<1>3. Sent(x, messages)
  OBVIOUS
<1> HIDE DEF messages
<1>4. \A d \in DOMAIN messages : d \in Peers \X Tags /\ messages[d] = u
  BY <1>1, <1>2 DEF Tags
<1>5. PICK D : D = DOMAIN messages /\ \A p, t : <<p, t>> \in D <=> p \in InRound(r0) /\ t = 0
  <2>1. \A p, t : <<p, t>> \in InRound(r0) \X {0} <=> p \in InRound(r0) /\ t = 0
    OBVIOUS
  <2> QED
    BY <1>2, <2>1
<1>6. /\ DOMAIN inBox' = Peers
      /\ \A p \in Peers : \A k \in DOMAIN inBox'[p] :
           k \in (1 .. round(p)) \X Peers \X Tags /\ inBox'[p][k] \in Seq(Messages)
      /\ \A p \in Peers : \A r, q, t :
           Get(inBox'[p], Key(r, q, t), <<>>) =
             IF r = r0 /\ q = x /\ <<p, t>> \in D THEN Box(p, r, q, t) \o u ELSE Box(p, r, q, t)
  BY <1>3, <1>4, <1>5, SentAlike
<1>7. ASSUME NEW p \in Peers, NEW r, NEW q, NEW t
      PROVE  Get(inBox'[p], Key(r, q, t), <<>>) =
               IF r = r0 /\ q = x /\ p \in InRound(r0) /\ t = 0
               THEN Box(p, r, q, t) \o u ELSE Box(p, r, q, t)
  <2>1. CASE <<p, t>> \in D
    <3>1. p \in InRound(r0) /\ t = 0
      BY <1>5, <2>1
    <3> QED
      BY <1>6, <2>1, <3>1
  <2>2. CASE <<p, t>> \notin D
    <3>1. ~(p \in InRound(r0) /\ t = 0)
      BY <1>5, <2>2
    <3> QED
      BY <1>6, <2>2, <3>1
  <2> QED
    BY <2>1, <2>2
<1> QED
  BY <1>6, <1>7

LEMMA AnnounceKeeps ==
  ASSUME IInv, NEW x \in Peers, Announce(x)
  PROVE  IInv'
<1>1. PICK r0 \in Nat : r0 = round(x) /\ r0 # 0 /\ \A q \in Peers : round(q) >= r0
  BY RoundNumber DEF IInv, Announce, Place, SplitReturned
<1>2. r0 \in Rounds /\ hosted[x][r0] = Mapped(x, r0) /\ Mapped(x, r0) \in Seq(Nat) /\ x \in InRound(r0)
  BY <1>1, RoundFacts DEF InRound, Announce, IInv
<1>3. /\ Members(r0) = InRound(r0) /\ InRound(r0) \subseteq Peers /\ graphContext(r0) \in Seq(Nat)
      /\ Range(graphContext(r0)) = InRound(r0) /\ Ascending(graphContext(r0))
  BY <1>1, <1>2, MembersFacts DEF IInv
<1>4. /\ Within(x) /\ pc'[x] = "count" /\ todo'[x] = graphContext(r0) /\ iteration' = iteration
      /\ pc' \in [Peers -> PCs] /\ todo' \in [Peers -> Seq(Nat)]
      /\ iteration' \in [Peers -> 0 .. plan.iterations]
  BY <1>1, <1>3, GotoFacts DEF Announce, IInv, PCs
<1>5. /\ nVertices' = nVertices /\ vertexMap' = vertexMap /\ peerMap' = peerMap
      /\ data' = data /\ plan' = plan /\ hosted' = hosted
  BY DEF Announce
<1>6. round(x)' = r0 /\ \A p : round(p)' = round(p)
  BY <1>1, <1>4, WithinFacts
<1> DEFINE count == Message("count", Len(Mapped(x, r0)))
           ids == Message("ids", Mapped(x, r0))
           u == <<count, ids>>
<1>7. /\ count \in Messages /\ ids \in Messages /\ RankOf(count) = 1 /\ RankOf(ids) = 2
  <2>1. Len(Mapped(x, r0)) \in Nat
    BY <1>2
  <2> QED
    BY <1>2, <2>1, MessageFacts
<1>8. u \in Seq(Messages) /\ Range(u) = {count, ids} /\ Ascends(u)
  <2> HIDE DEF count, ids
  <2>1. DOMAIN u = {1, 2} /\ u[1] = count /\ u[2] = ids /\ u \in Seq(Messages)
    BY <1>7
  <2> HIDE DEF u
  <2> QED
    BY <1>7, <2>1 DEF Range, Ascends
<1>9. Sent(x, ToAll(x, u))
  BY <1>1, <1>2 DEF Announce
<1> HIDE DEF u, count, ids
<1>10. /\ DOMAIN inBox' = Peers
       /\ \A p \in Peers : \A k \in DOMAIN inBox'[p] :
            k \in (1 .. round(p)) \X Peers \X Tags /\ inBox'[p][k] \in Seq(Messages)
       /\ \A p \in Peers : \A r, q, t :
            Get(inBox'[p], Key(r, q, t), <<>>) =
              IF r = r0 /\ q = x /\ p \in InRound(r0) /\ t = 0
              THEN Box(p, r, q, t) \o u ELSE Box(p, r, q, t)
  BY <1>1, <1>2, <1>8, <1>9, SentToAll DEF IInv
<1>11. Types'
  BY <1>4, <1>5, <1>10, TypesStep DEF Types, IInv
<1>12. iteration[x] = 0 /\ iteration'[x] = 0
  BY <1>4 DEF IInv, Place, Announce
<1>13. Place(x)' /\ Knows(x)'
  <2>1. \A r : InRound(r)' = InRound(r)
    BY <1>5, PlanStays
  <2>2. \A q \in Peers : round(q) + 1 >= r0 /\ round(q) \in Nat
    BY <1>1, RoundNumber DEF IInv
  <2>3. Place(x)'
    BY <1>1, <1>2, <1>3, <1>4, <1>6, <1>12, <2>1, <2>2 DEF Place
  <2>4. Heard(x)' = {}
    BY <1>3, <1>4, <1>6, <2>1 DEF Heard
  <2> QED
    BY <2>3, <2>4 DEF Knows
<1>14. \A t : /\ SentAll(x, r0, t) = 0 /\ SentMost(x, r0, t) = 0
              /\ SentAll(x, r0, t)' = 2 /\ SentMost(x, r0, t)' = 2
  BY <1>1, <1>4, <1>6 DEF SentAll, SentMost, Announce
<1>15. Streams'
  <2>1. ASSUME NEW p \in Peers, NEW t \in Tags, NEW got \in Int,
               StreamOf(Box(p, r0, x, t), x, p, r0, t, got, 0, 0)
        PROVE  StreamOf(Get(inBox'[p], Key(r0, x, t), <<>>), x, p, r0, t, got, 2, 2)
    <3>1. CASE p \in InRound(r0) /\ t = 0
      <4>1. \A m \in Range(u) : Right(x, p, r0, t, m) /\ RankOf(m) \in 1 .. 2 /\ 0 < RankOf(m)
        BY <1>2, <1>7, <1>8, <3>1 DEF Right, count, ids
      <4>2. \A k \in Nat : Owes(x, p, r0, t, k) /\ k <= 2 => k <= 0 \/ \E m \in Range(u) : RankOf(m) = k
        BY <1>7, <1>8
      <4>3. Box(p, r0, x, t) \in Seq(Messages)
        BY BoxTypes DEF IInv
      <4>4. StreamOf(Box(p, r0, x, t) \o u, x, p, r0, t, got, 2, 2)
        BY <1>8, <2>1, <4>1, <4>2, <4>3, StreamJoins
      <4> QED
        BY <1>10, <3>1, <4>4
    <3>2. CASE ~(p \in InRound(r0) /\ t = 0)
      <4>1. \A k \in Nat : Owes(x, p, r0, t, k) /\ k <= 2 => k <= 0
        BY <3>2, OwedRanks DEF IInv, Types
      <4>2. StreamOf(Box(p, r0, x, t), x, p, r0, t, got, 2, 2)
        BY <2>1, <4>1, StreamShifts
      <4> QED
        BY <1>10, <3>2, <4>2
    <3> QED
      BY <3>1, <3>2
  <2>2. \A p, q \in Peers, t \in Tags : q # x \/ round(p) # r0 =>
          Get(inBox'[p], Key(round(p), q, t), <<>>) = Box(p, round(p), q, t)
    BY <1>10
  <2>3. \A q \in Peers, t \in Tags :
          /\ Got(x, q, t) = 0
          /\ Got(x, q, t)' = IF q \in InRound(r0) THEN 0 ELSE 2
    BY <1>3, <1>4 DEF Got, Announce
  <2>4. \A q \in Peers, t \in Tags : 
           /\ Got(x, q, t)' \in Int /\ Got(x, q, t) <= Got(x, q, t)'
           /\ \A k \in Nat : Owes(q, x, r0, t, k) /\ Got(x, q, t) < k => Got(x, q, t)' < k
    BY <2>3 DEF Owes
  <2>5. pc[x] \notin Inactive /\ \A y \in Peers \ {x} : Stays(y)
    BY <1>4 DEF Inactive, Announce, Within
  <2> QED
    BY <1>1, <1>5, <1>14, <2>1, <2>2, <2>4, <2>5, SendingStep DEF IInv
<1> QED
  BY <1>4, <1>5, <1>11, <1>13, <1>15, StepKeeps

LEMMA SubSeqFull ==
  ASSUME NEW S, NEW s \in Seq(S)
  PROVE  SubSeq(s, 1, Len(s)) = s
<1>1. PICK n \in Nat : n = Len(s) /\ s \in [1 .. n -> S]
  OBVIOUS
<1>2. SubSeq(s, 1, n) = [i \in 1 .. n |-> s[i]]
  BY <1>1
<1> QED
  BY <1>1, <1>2

\* In what is announced and gathered a peer waits for all that comes, and also
\* along an edge if it is the host all locate.
LEMMA RightIsOwed ==
  ASSUME plan \in Plans, NEW q, NEW p, NEW r \in Rounds, NEW t, NEW m, Right(q, p, r, t, m),
         \/ RankOf(m) \in {1, 2}
         \/ plan.gather
         \/ \E i \in Iterations : Owes(q, p, r, t, 3 * i)
  PROVE  Owes(q, p, r, t, RankOf(m))
<1>1. q \in InRound(r) /\ p \in InRound(r) /\ plan.iterations \in Nat
  BY PlanFacts DEF Right
<1>2. CASE t = 0 /\ m \in {Message("count", Len(Mapped(q, r))), Message("ids", Mapped(q, r))}
  <2>1. RankOf(m) \in {1, 2}
    BY <1>2 DEF RankOf, Message
  <2> QED
    BY <1>1, <1>2, <2>1 DEF Owes
<1>3. ASSUME NEW i \in Iterations, m = Message("data", Value(r, From(r, t), i)), t \in EdgeTags(r),
             q \in HostedIn(r, From(r, t)), HostedIn(r, To(r, t)) # {} => p = LastHost(r, To(r, t))
      PROVE  Owes(q, p, r, t, RankOf(m))
  <2>1. RankOf(m) = 3 * i /\ i \in Nat /\ i >= 1
    BY <1>1, <1>3 DEF RankOf, Message, Value, Iterations
  <2>2. /\ HostedIn(r, From(r, t)) # {} /\ q = LastHost(r, From(r, t))
        /\ HostedIn(r, To(r, t)) # {} /\ p = LastHost(r, To(r, t))
    <3>1. CASE plan.gather
      <4>1. From(r, t) \in VertexSet(r) /\ To(r, t) \in VertexSet(r)
        BY <1>3, EdgeFacts
      <4>2. \A v \in VertexSet(r) : HostedIn(r, v) = {LastHost(r, v)}
        BY <3>1, OneHost
      <4>3. HostedIn(r, From(r, t)) = {LastHost(r, From(r, t))} /\ HostedIn(r, To(r, t)) = {LastHost(r, To(r, t))}
        BY <4>1, <4>2
      <4> QED
        BY <1>3, <4>3
    <3>2. CASE \E j \in Iterations : Owes(q, p, r, t, 3 * j)
      <4>1. PICK j \in Iterations : Owes(q, p, r, t, 3 * j)
        BY <3>2
      <4>2. j \in Nat \ {0}
        BY <1>1 DEF Iterations
      <4> QED
        BY <4>1, <4>2, OwedRanks
    <3>3. CASE RankOf(m) \in {1, 2}
      BY <2>1, <3>3
    <3> QED
      BY <3>1, <3>2, <3>3
  <2> QED
    BY <1>1, <1>3, <2>1, <2>2 DEF Owes
<1>4. ASSUME NEW i \in Iterations, t = 0, plan.gather,
             \/ m = Message("sizes", Value(r, q, i))
             \/ m = Message("gather", Value(r, q, i)) /\ p = LastHost(r, 0)
      PROVE  Owes(q, p, r, t, RankOf(m))
  <2>1. CASE m = Message("sizes", Value(r, q, i))
    <3>1. RankOf(m) = 3 * i + 1
      BY <2>1 DEF RankOf, Message, Value
    <3> QED
      BY <1>1, <1>4, <3>1 DEF Owes
  <2>2. CASE m = Message("gather", Value(r, q, i)) /\ p = LastHost(r, 0)
    <3>1. RankOf(m) = 3 * i + 2
      BY <2>2 DEF RankOf, Message, Value
    <3> QED
      BY <1>1, <1>4, <2>2, <3>1 DEF Owes
  <2> QED
    BY <1>4, <2>1, <2>2
<1> QED
  BY <1>2, <1>3, <1>4 DEF Right

\* A peer that waits for an announcement.
LEMMA Announcement ==
  ASSUME IInv, NEW p \in Peers, pc[p] \in {"count", "ids"}, todo[p] # <<>>,
         NEW q, q = Head(todo[p]), NEW r, r = round(p), NEW s, s = Box(p, r, q, 0), s # <<>>,
         NEW all \in Int, NEW most \in Int, most <= all + 1,
         NEW got, got = Got(p, q, 0), StreamOf(s, q, p, r, 0, got, all, most)
  PROVE  /\ q \in Peers /\ q \in InRound(r) /\ r \in Rounds
         /\ got = IF pc[p] = "count" THEN 0 ELSE 1
         /\ pc[p] = "count" => Head(s) = Message("count", Len(Mapped(q, r)))
         /\ pc[p] = "ids" => Head(s) = Message("ids", Mapped(q, r))
         /\ StreamOf(Tail(s), q, p, r, 0, got + 1, all, most)
<1>1. plan \in Plans /\ r \in Rounds /\ p \in InRound(r) /\ todo[p] \in Seq(Nat)
  BY RoundFacts DEF IInv, Types, Place
<1>2. q \in Range(todo[p])
  BY <1>1, WorkFacts
<1>3. q \in InRound(r) /\ q \in Peers
  BY <1>2 DEF IInv, Place, InRound
<1>4. got = IF pc[p] = "count" THEN 0 ELSE 1
  BY <1>2 DEF Got
<1>5. Owes(q, p, r, 0, got + 1)
  BY <1>1, <1>3, <1>4 DEF Owes
<1>6. \A m \in Range(s) : RankOf(m) <= got + 1 => Owes(q, p, r, 0, RankOf(m))
  <2> TAKE m \in Range(s)
  <2>1. Right(q, p, r, 0, m)
    BY DEF StreamOf
  <2>2. RankOf(m) \in 1 .. Last
    BY <1>1, <2>1, RightRank
  <2>3. RankOf(m) <= got + 1 => RankOf(m) \in {1, 2}
    BY <1>4, <2>2
  <2> QED
    BY <1>1, <2>1, <2>3, RightIsOwed
<1>7. s \in Seq(Messages)
  BY BoxTypes DEF IInv
<1>8. /\ RankOf(Head(s)) = got + 1 /\ Right(q, p, r, 0, Head(s))
      /\ StreamOf(Tail(s), q, p, r, 0, got + 1, all, most)
  <2>1. got \in Nat /\ got + 1 <= 2
    BY <1>4
  <2> QED
    BY <1>5, <1>6, <1>7, <2>1, StreamHead
<1>9. /\ RankOf(Head(s)) = 1 => Head(s) = Message("count", Len(Mapped(q, r)))
      /\ RankOf(Head(s)) = 2 => Head(s) = Message("ids", Mapped(q, r))
  BY <1>1, <1>8, RightRank
<1>10. /\ pc[p] = "count" => RankOf(Head(s)) = 1
       /\ pc[p] = "ids" => RankOf(Head(s)) = 2
  BY <1>4, <1>8
<1> QED
  BY <1>1, <1>3, <1>4, <1>8, <1>9, <1>10

\* A receiver in a stream.
LEMMA StreamNow ==
  ASSUME IInv, NEW p \in Peers, NEW q \in Peers, NEW t \in Tags, pc[p] \notin Inactive
  PROVE  \E all, most \in Int :
           /\ all = SentAll(q, round(p), t) /\ most = SentMost(q, round(p), t) /\ most <= all + 1
           /\ StreamOf(Box(p, round(p), q, t), q, p, round(p), t, Got(p, q, t), all, most)
<1>1. round(p) \in Nat /\ Stream(p, q, t)
  BY RoundNumber DEF IInv, Streams
<1>2. PICK all \in Int, most \in Int :
        all = SentAll(q, round(p), t) /\ most = SentMost(q, round(p), t) /\ most <= all + 1
  BY <1>1, RankTypes DEF IInv
<1> QED
  BY <1>1, <1>2 DEF Stream

LEMMA RecvCountKeeps ==
  ASSUME IInv, NEW x \in Peers, RecvCount(x)
  PROVE  IInv'
<1>1. PICK r0 \in Nat : r0 = round(x) /\ r0 # 0 /\ r0 \in Rounds
  BY RoundNumber, RoundFacts DEF IInv, RecvCount, Place
<1>2. PICK q0 : q0 = Head(todo[x])
  OBVIOUS
<1>3. /\ pc[x] = "count" /\ todo[x] # <<>> /\ Received(x, q0, 0)
      /\ nVertices' = [nVertices EXCEPT ![x] = Head(Arrived(x, q0, 0)).body]
      /\ vertexMap' = vertexMap /\ peerMap' = peerMap
      /\ data' = data /\ plan' = plan /\ hosted' = hosted
  BY <1>2 DEF RecvCount
<1>4. todo[x] \in Seq(Nat) /\ q0 \in Range(todo[x])
  BY <1>2, <1>3, WorkFacts DEF IInv, Types
<1>5. q0 \in InRound(r0) /\ q0 \in Peers
  BY <1>1, <1>3, <1>4 DEF IInv, Place, InRound
<1>6. /\ Within(x) /\ pc'[x] = "ids" /\ todo'[x] = todo[x] /\ iteration' = iteration
      /\ pc' \in [Peers -> PCs] /\ todo' \in [Peers -> Seq(Nat)]
      /\ iteration' \in [Peers -> 0 .. plan.iterations]
  BY <1>4, GotoFacts DEF RecvCount, IInv, PCs
<1>7. round(x)' = r0 /\ \A p : round(p)' = round(p)
  BY <1>1, <1>6, WithinFacts
<1>8. /\ DOMAIN inBox' = Peers
      /\ \A p \in Peers : \A k \in DOMAIN inBox'[p] :
           k \in (1 .. round(p)) \X Peers \X Tags /\ inBox'[p][k] \in Seq(Messages)
      /\ Box(x, r0, q0, 0) = Arrived(x, q0, 0) /\ Box(x, r0, q0, 0) # <<>>
      /\ Get(inBox'[x], Key(r0, q0, 0), <<>>) = Tail(Box(x, r0, q0, 0))
      /\ \A p \in Peers : \A r, q, t : ~(p = x /\ r = r0 /\ q = q0 /\ t = 0) =>
           Get(inBox'[p], Key(r, q, t), <<>>) = Box(p, r, q, t)
  <2>1. 0 \in Tags
    BY DEF Tags
  <2> QED
    BY <1>1, <1>3, <1>5, <2>1, ReceivedFacts DEF IInv
<1>9. Types'
  <2>1. DOMAIN nVertices' = Peers
    BY <1>3 DEF IInv, Types
  <2> QED
    BY <1>3, <1>6, <1>8, <2>1, TypesStep DEF Types, IInv
<1>10. Head(Box(x, r0, q0, 0)) = Message("count", Len(Mapped(q0, r0)))
  <2>1. 0 \in Tags /\ pc[x] \notin Inactive
    BY <1>3 DEF Tags, Inactive
  <2>2. PICK all \in Int, most \in Int :
          most <= all + 1 /\ StreamOf(Box(x, r0, q0, 0), q0, x, r0, 0, Got(x, q0, 0), all, most)
    BY <1>1, <1>5, <2>1, StreamNow
  <2> QED
    BY <1>1, <1>2, <1>3, <1>8, <2>2, Announcement
<1>11. nVertices'[x] = Len(Mapped(q0, r0))
  BY <1>3, <1>8, <1>10 DEF Message, IInv, Types
<1>12. Place(x)' /\ Knows(x)'
  <2>1. /\ \A r : InRound(r)' = InRound(r) /\ \A q : Mapped(q, r)' = Mapped(q, r)
        /\ \A r, v : HostedIn(r, v)' = HostedIn(r, v)
    BY <1>3, PlanStays
  <2>2. Heard(x)' = Heard(x)
    BY <1>1, <1>3, <1>6, <1>7, <2>1 DEF Heard
  <2>3. Place(x)'
    BY <1>1, <1>2, <1>3, <1>6, <1>7, <1>11, <2>1 DEF IInv, Place
  <2>4. Knows(x)'
    BY <1>1, <1>3, <1>6, <1>7, <2>1, <2>2 DEF IInv, Knows
  <2> QED
    BY <2>3, <2>4
<1>13. Streams'
  <2>1. \A t \in Tags : SentAll(x, r0, t)' = SentAll(x, r0, t) /\ SentMost(x, r0, t)' = SentMost(x, r0, t)
    BY <1>1, <1>3, <1>6, <1>7 DEF SentAll, SentMost
  <2>2. \A q \in Peers, t \in Tags : /\ Got(x, q, t) \in Nat
                                     /\ Got(x, q, t)' = IF q = q0 THEN 1 ELSE Got(x, q, t)
                                     /\ Got(x, q0, t) = 0
    BY <1>2, <1>3, <1>4, <1>6 DEF Got
  <2>3. ASSUME NEW q \in Peers, NEW t \in Tags, NEW all \in Int, NEW most \in Int, most <= all + 1,
               StreamOf(Box(x, r0, q, t), q, x, r0, t, Got(x, q, t), all, most)
        PROVE  StreamOf(Get(inBox'[x], Key(r0, q, t), <<>>), q, x, r0, t, Got(x, q, t)', all, most)
    <3>1. CASE q = q0 /\ t = 0
      <4>1. StreamOf(Tail(Box(x, r0, q0, 0)), q0, x, r0, 0, Got(x, q0, 0) + 1, all, most)
        BY <1>1, <1>2, <1>3, <1>8, <2>3, <3>1, Announcement
      <4>2. Got(x, q0, 0) + 1 = 1 /\ Got(x, q, t)' = 1
        BY <2>2, <3>1
      <4> QED
        BY <1>8, <3>1, <4>1, <4>2
    <3>2. CASE q = q0 /\ t # 0
      <4>1. Got(x, q, t) = 0 /\ Got(x, q, t)' = 1
        BY <2>2, <3>2
      <4>2. \A k \in Nat : Owes(q, x, r0, t, k) => /\ 0 < k => 1 < k
                                                   /\ k <= all => k <= all
        <5>1. \A k \in Nat : Owes(q, x, r0, t, k) => k # 1
          BY <3>2, OwedRanks DEF IInv, Types
        <5> QED
          BY <5>1
      <4>3. StreamOf(Box(x, r0, q, t), q, x, r0, t, 1, all, most)
        BY <2>3, <4>1, <4>2, StreamShifts
      <4> QED
        BY <1>8, <3>2, <4>1, <4>3
    <3>3. CASE q # q0
      BY <1>8, <2>2, <2>3, <3>3
    <3> QED
      BY <3>1, <3>2, <3>3
  <2>4. pc[x] \notin Inactive /\ \A y \in Peers \ {x} : Stays(y)
    BY <1>3, <1>6 DEF Inactive, Within
  <2>5. \A p \in Peers \ {x}, q \in Peers, t \in Tags :
           Get(inBox'[p], Key(round(p), q, t), <<>>) = Box(p, round(p), q, t)
    BY <1>8
  <2> QED
    BY <1>1, <1>3, <2>1, <2>3, <2>4, <2>5, ReceivingStep DEF IInv
<1>14. \A y \in Peers \ {x} : nVertices'[y] = nVertices[y]
  BY <1>3 DEF IInv, Types
<1> QED
  BY <1>3, <1>6, <1>9, <1>12, <1>13, <1>14, StepKeeps

LEMMA RecvIDsKeeps ==
  ASSUME IInv, NEW x \in Peers, RecvIDs(x)
  PROVE  IInv'
<1>1. PICK r0 \in Nat : r0 = round(x) /\ r0 # 0 /\ r0 \in Rounds
  BY RoundNumber, RoundFacts DEF IInv, RecvIDs, Place
<1>2. PICK q0 : q0 = Head(todo[x])
  OBVIOUS
<1>3. PICK ids : ids = SubSeq(Head(Arrived(x, q0, 0)).body, 1, nVertices[x])
  OBVIOUS
<1>4. /\ pc[x] = "ids" /\ Received(x, q0, 0)
      /\ vertexMap' = [vertexMap EXCEPT ![x] =
            [v \in DOMAIN @ \cup Range(ids) |-> IF v \in Range(ids) THEN q0 ELSE @[v]]]
      /\ peerMap' = [peerMap EXCEPT ![x] = Put(@, q0, ids)]
      /\ nVertices' = nVertices /\ data' = data /\ plan' = plan /\ hosted' = hosted
  BY <1>2, <1>3 DEF RecvIDs
<1>5. /\ todo[x] # <<>> /\ todo[x] \in Seq(Nat) /\ nVertices[x] = Len(Mapped(q0, r0))
      /\ Range(todo[x]) \subseteq InRound(r0) /\ Ascending(todo[x])
      /\ \A a \in InRound(r0) \ Range(todo[x]), b \in Range(todo[x]) : a < b
  BY <1>1, <1>2, <1>4 DEF IInv, Place, Types
<1>6. /\ q0 \in Range(todo[x]) /\ Tail(todo[x]) \in Seq(Nat) /\ Ascending(Tail(todo[x]))
      /\ Range(todo[x]) = Range(Tail(todo[x])) \cup {q0} /\ \A b \in Range(Tail(todo[x])) : q0 < b
  BY <1>2, <1>5, WorkFacts
<1>7. q0 \in InRound(r0) /\ q0 \in Peers /\ q0 \in Nat /\ q0 \notin Range(Tail(todo[x]))
  <2>1. q0 \in InRound(r0) /\ q0 \in Peers /\ q0 \in Nat
    BY <1>5, <1>6, PlansAssumption DEF InRound, Peers
  <2> QED
    BY <1>6, <2>1
<1>8. /\ Within(x) /\ pc'[x] = "count" /\ todo'[x] = Tail(todo[x]) /\ iteration' = iteration
      /\ pc' \in [Peers -> PCs] /\ todo' \in [Peers -> Seq(Nat)]
      /\ iteration' \in [Peers -> 0 .. plan.iterations]
  BY <1>6, GotoFacts DEF RecvIDs, IInv, PCs
<1>9. round(x)' = r0 /\ \A p : round(p)' = round(p)
  BY <1>1, <1>8, WithinFacts
<1>10. /\ DOMAIN inBox' = Peers
       /\ \A p \in Peers : \A k \in DOMAIN inBox'[p] :
            k \in (1 .. round(p)) \X Peers \X Tags /\ inBox'[p][k] \in Seq(Messages)
       /\ Box(x, r0, q0, 0) = Arrived(x, q0, 0) /\ Box(x, r0, q0, 0) # <<>>
       /\ Get(inBox'[x], Key(r0, q0, 0), <<>>) = Tail(Box(x, r0, q0, 0))
       /\ \A p \in Peers : \A r, q, t : ~(p = x /\ r = r0 /\ q = q0 /\ t = 0) =>
            Get(inBox'[p], Key(r, q, t), <<>>) = Box(p, r, q, t)
  <2>1. 0 \in Tags
    BY DEF Tags
  <2> QED
    BY <1>1, <1>4, <1>7, <2>1, ReceivedFacts DEF IInv
<1>11. Head(Box(x, r0, q0, 0)) = Message("ids", Mapped(q0, r0))
  <2>1. 0 \in Tags /\ pc[x] \notin Inactive
    BY <1>4 DEF Tags, Inactive
  <2>2. PICK all \in Int, most \in Int :
          most <= all + 1 /\ StreamOf(Box(x, r0, q0, 0), q0, x, r0, 0, Got(x, q0, 0), all, most)
    BY <1>1, <1>7, <2>1, StreamNow
  <2> QED
    BY <1>1, <1>2, <1>4, <1>5, <1>10, <2>2, Announcement
<1>12. ids = Mapped(q0, r0)
  <2>1. PICK s \in Seq(Nat) : s = Mapped(q0, r0)
    BY <1>1, <1>7, MappedFacts DEF IInv, Types
  <2>2. ids = SubSeq(s, 1, Len(s))
    BY <1>3, <1>5, <1>10, <1>11, <2>1 DEF Message
  <2>3. SubSeq(s, 1, Len(s)) = s
    BY SubSeqFull
  <2> QED
    BY <2>1, <2>2, <2>3
<1> DEFINE known == vertexMap[x]
           new == [v \in DOMAIN known \cup Range(ids) |-> IF v \in Range(ids) THEN q0 ELSE known[v]]
<1>13. /\ vertexMap'[x] = new /\ peerMap'[x] = Put(peerMap[x], q0, ids)
       /\ DOMAIN vertexMap' = Peers /\ DOMAIN peerMap' = Peers
       /\ \A y \in Peers \ {x} : vertexMap'[y] = vertexMap[y] /\ peerMap'[y] = peerMap[y]
  BY <1>4 DEF IInv, Types
<1>14. new \in [DOMAIN new -> Peers]
  <2>1. known \in [DOMAIN known -> Peers]
    BY DEF IInv, Types
  <2> QED
    BY <1>7, <2>1
<1>15. Types'
  <2>1. \A p \in Peers : vertexMap'[p] \in [DOMAIN vertexMap'[p] -> Peers]
    <3> HIDE DEF new
    <3> QED
      BY <1>13, <1>14 DEF IInv, Types
  <2> QED
    BY <1>4, <1>8, <1>10, <1>13, <2>1, TypesStep DEF Types, IInv
<1>16. /\ \A r : InRound(r)' = InRound(r) /\ \A q : Mapped(q, r)' = Mapped(q, r)
       /\ \A r, v : HostedIn(r, v)' = HostedIn(r, v)
  BY <1>4, PlanStays
<1>17. Heard(x) = InRound(r0) \ Range(todo[x]) /\ Heard(x)' = Heard(x) \cup {q0}
  BY <1>1, <1>4, <1>6, <1>7, <1>8, <1>9, <1>16 DEF Heard
<1>18. \A a \in Heard(x) : a < q0 /\ a \in Nat
  BY <1>5, <1>6, <1>17, PlansAssumption DEF InRound, Peers
<1>19. Place(x)'
  <2>1. \A a \in InRound(r0) \ Range(Tail(todo[x])), b \in Range(Tail(todo[x])) : a < b
    BY <1>5, <1>6
  <2>2. Range(Tail(todo[x])) \subseteq InRound(r0)
    BY <1>5, <1>6
  <2> QED
    BY <1>1, <1>4, <1>6, <1>8, <1>9, <1>16, <2>1, <2>2 DEF IInv, Place
<1>20. Knows(x)'
  <2>1. /\ \A q \in Heard(x) : q \in DOMAIN peerMap[x] /\ peerMap[x][q] = Mapped(q, r0)
        /\ \A v \in Nat : HostedIn(r0, v) \cap Heard(x) # {} =>
              /\ v \in DOMAIN known /\ known[v] \in HostedIn(r0, v) \cap Heard(x)
              /\ \A a \in HostedIn(r0, v) \cap Heard(x) : a <= known[v]
    BY <1>1, <1>4 DEF IInv, Knows
  <2>2. ASSUME NEW q \in Heard(x) \cup {q0}
        PROVE  q \in DOMAIN peerMap'[x] /\ peerMap'[x][q] = Mapped(q, r0)
    BY <1>12, <1>13, <2>1, <2>2 DEF Put
  <2>3. ASSUME NEW v \in Nat, NEW hosts, hosts = HostedIn(r0, v) \cap (Heard(x) \cup {q0}), hosts # {}
        PROVE  /\ v \in DOMAIN new /\ new[v] \in hosts
               /\ \A a \in hosts : a <= new[v]
    <3>1. q0 \in HostedIn(r0, v) <=> v \in Range(ids)
      BY <1>7, <1>12 DEF HostedIn
    <3>2. CASE v \in Range(ids)
      <4>1. new[v] = q0 /\ v \in DOMAIN new
        BY <3>2
      <4>2. q0 \in hosts
        BY <2>3, <3>1, <3>2
      <4>3. \A a \in hosts : a <= q0
        BY <1>7, <1>18, <2>3
      <4> HIDE DEF new
      <4> QED
        BY <4>1, <4>2, <4>3
    <3>3. CASE v \notin Range(ids)
      <4>1. hosts = HostedIn(r0, v) \cap Heard(x)
        BY <2>3, <3>1, <3>3
      <4>2. v \in DOMAIN known /\ known[v] \in hosts /\ \A a \in hosts : a <= known[v]
        BY <2>1, <2>3, <4>1
      <4>3. v \in DOMAIN new /\ new[v] = known[v]
        BY <3>3, <4>2
      <4> QED
        BY <4>2, <4>3
    <3> QED
      BY <3>2, <3>3
  <2>4. \A v \in Nat : HostedIn(r0, v) \cap (Heard(x) \cup {q0}) # {} =>
          /\ v \in DOMAIN vertexMap'[x] /\ vertexMap'[x][v] \in HostedIn(r0, v) \cap (Heard(x) \cup {q0})
          /\ \A a \in HostedIn(r0, v) \cap (Heard(x) \cup {q0}) : a <= vertexMap'[x][v]
    <3> HIDE DEF new
    <3> QED
      BY <1>13, <2>3
  <2> QED
    BY <1>9, <1>16, <1>17, <2>2, <2>4 DEF Knows
<1>21. Streams'
  <2>1. \A t \in Tags : SentAll(x, r0, t)' = SentAll(x, r0, t) /\ SentMost(x, r0, t)' = SentMost(x, r0, t)
    BY <1>1, <1>4, <1>8, <1>9 DEF SentAll, SentMost
  <2>2. \A q \in Peers, t \in Tags : /\ Got(x, q, t) \in Nat
                                     /\ Got(x, q, t)' = IF q = q0 THEN 2 ELSE Got(x, q, t)
                                     /\ Got(x, q0, t) = 1
    BY <1>2, <1>4, <1>6, <1>7, <1>8 DEF Got
  <2>3. ASSUME NEW q \in Peers, NEW t \in Tags, NEW all \in Int, NEW most \in Int, most <= all + 1,
               StreamOf(Box(x, r0, q, t), q, x, r0, t, Got(x, q, t), all, most)
        PROVE  StreamOf(Get(inBox'[x], Key(r0, q, t), <<>>), q, x, r0, t, Got(x, q, t)', all, most)
    <3>1. CASE q = q0 /\ t = 0
      <4>1. StreamOf(Tail(Box(x, r0, q0, 0)), q0, x, r0, 0, Got(x, q0, 0) + 1, all, most)
        BY <1>1, <1>2, <1>4, <1>5, <1>10, <2>3, <3>1, Announcement
      <4>2. Got(x, q0, 0) + 1 = 2 /\ Got(x, q, t)' = 2
        BY <2>2, <3>1
      <4> QED
        BY <1>10, <3>1, <4>1, <4>2
    <3>2. CASE q = q0 /\ t # 0
      <4>1. Got(x, q, t) = 1 /\ Got(x, q, t)' = 2
        BY <2>2, <3>2
      <4>2. \A k \in Nat : Owes(q, x, r0, t, k) => /\ 1 < k => 2 < k
                                                   /\ k <= all => k <= all
        <5>1. \A k \in Nat : Owes(q, x, r0, t, k) => k # 2
          BY <3>2, OwedRanks DEF IInv, Types
        <5> QED
          BY <5>1
      <4>3. StreamOf(Box(x, r0, q, t), q, x, r0, t, 2, all, most)
        BY <2>3, <4>1, <4>2, StreamShifts
      <4> QED
        BY <1>10, <3>2, <4>1, <4>3
    <3>3. CASE q # q0
      BY <1>10, <2>2, <2>3, <3>3
    <3> QED
      BY <3>1, <3>2, <3>3
  <2>4. pc[x] \notin Inactive /\ \A y \in Peers \ {x} : Stays(y)
    BY <1>4, <1>8 DEF Inactive, Within
  <2>5. \A p \in Peers \ {x}, q \in Peers, t \in Tags :
           Get(inBox'[p], Key(round(p), q, t), <<>>) = Box(p, round(p), q, t)
    BY <1>10
  <2> QED
    BY <1>1, <1>4, <2>1, <2>3, <2>4, <2>5, ReceivingStep DEF IInv
<1> QED
  BY <1>4, <1>8, <1>13, <1>15, <1>19, <1>20, <1>21, StepKeeps

LEMMA NextIterationKeeps ==
  ASSUME IInv, NEW x \in Peers, pc[x] \in {"count", "collect", "gather"}, todo[x] = <<>>,
         pc[x] = "collect" => ~plan.gather, NextIteration(x, iteration[x]),
         UNCHANGED <<plan, graph, hosted, nVertices, vertexMap, peerMap, inBox, data>>
  PROVE  IInv'
<1>1. PICK r0 \in Nat : r0 = round(x) /\ r0 # 0 /\ r0 \in Rounds
  BY RoundNumber, RoundFacts DEF IInv, Place
<1>2. PICK i \in Nat : i = iteration[x] /\ i <= plan.iterations /\ plan.iterations \in Nat
  BY PlanFacts DEF IInv, Types
<1>3. /\ i = 0 <=> pc[x] = "count"
      /\ x \in InRound(r0) /\ \A q \in Peers : round(q) >= r0
      /\ pc[x] = "gather" => plan.gather
  BY <1>1, <1>2 DEF IInv, Place
<1>4. /\ hosted[x][r0] = Mapped(x, r0) /\ Mapped(x, r0) \in Seq(Nat) /\ IsInjective(Mapped(x, r0))
  BY <1>1, RoundFacts DEF IInv
<1> DEFINE on == i < plan.iterations
<1>5. /\ on => pc'[x] = "spread" /\ todo'[x] = Mapped(x, r0) /\ iteration'[x] = i + 1
      /\ ~on => pc'[x] = "idle" /\ todo'[x] = <<>> /\ iteration'[x] = 0
      /\ Within(x) /\ pc' \in [Peers -> PCs] /\ todo' \in [Peers -> Seq(Nat)]
      /\ iteration' \in [Peers -> 0 .. plan.iterations]
  <2>1. pc \in [Peers -> PCs] /\ todo \in [Peers -> Seq(Nat)] /\ iteration \in [Peers -> 0 .. plan.iterations]
    BY DEF IInv, Types
  <2>2. iteration' = [iteration EXCEPT ![x] = IF on THEN i + 1 ELSE 0]
    BY <1>2 DEF NextIteration
  <2>3. \/ on /\ pc' = [pc EXCEPT ![x] = "spread"] /\ todo' = [todo EXCEPT ![x] = Mapped(x, r0)]
        \/ ~on /\ pc' = [pc EXCEPT ![x] = "idle"] /\ todo' = [todo EXCEPT ![x] = <<>>]
    BY <1>1, <1>2, <1>4 DEF NextIteration, Goto
  <2>4. "spread" \in PCs /\ "idle" \in PCs /\ <<>> \in Seq(Nat)
    BY DEF PCs
  <2>5. (IF on THEN i + 1 ELSE 0) \in 0 .. plan.iterations
    BY <1>2
  <2> HIDE DEF on
  <2> QED
    BY <1>4, <2>1, <2>2, <2>3, <2>4, <2>5 DEF Within, Stays
<1> HIDE DEF on
<1>6. round(x)' = r0 /\ \A p : round(p)' = round(p)
  BY <1>1, <1>5, WithinFacts
<1>7. Types'
  BY <1>5, TypesStep DEF Types, IInv
<1>8. /\ \A r : InRound(r)' = InRound(r) /\ \A q : Mapped(q, r)' = Mapped(q, r)
      /\ \A r, v : HostedIn(r, v)' = HostedIn(r, v)
  BY PlanStays
<1>9. Place(x)' /\ Knows(x)'
  <2>1. Place(x)'
    <3>1. \A q \in Peers : round(q) + 1 >= r0
      BY <1>1 DEF IInv, Place
    <3> QED
      <4>1. CASE on
        <5>1. /\ pc'[x] = "spread" /\ todo'[x] = Mapped(x, r0) /\ iteration'[x] = i + 1 /\ i + 1 # 0
              /\ round(x)' = r0 /\ r0 # 0
          BY <1>1, <1>2, <1>3, <1>5, <1>6, <4>1
        <5>2. /\ InRound(r0)' = InRound(r0) /\ Mapped(x, r0)' = Mapped(x, r0)
              /\ \A q \in Peers : round(q)' = round(q)
          BY <1>6, <1>8
        <5>3. x \in InRound(r0) /\ IsInjective(Mapped(x, r0)) /\ \A q \in Peers : round(q) >= r0
          BY <1>1, <1>3, <1>4
        <5> QED
          BY <3>1, <5>1, <5>2, <5>3 DEF Place
      <4>2. CASE ~on
        <5>1. /\ pc'[x] = "idle" /\ todo'[x] = <<>> /\ iteration'[x] = 0 /\ round(x)' = r0 /\ r0 # 0
          BY <1>1, <1>3, <1>5, <1>6, <4>2
        <5>2. \A q \in Peers : round(q)' = round(q) /\ round(q) >= r0
          BY <1>1, <1>3, <1>6
        <5> QED
          BY <3>1, <5>1, <5>2 DEF Place
      <4> QED
        BY <4>1, <4>2
  <2>2. Heard(x) = InRound(r0)
    <3>1. Range(<<>>) = {}
      BY DEF Range
    <3> QED
      BY <1>1, <3>1 DEF Heard
  <2>3. pc'[x] = "spread" => Heard(x)' = InRound(r0)
    BY <1>6, <1>8 DEF Heard
  <2>4. Knows(x) /\ pc[x] \notin {"idle", "split", "thrown"}
    BY DEF IInv
  <2>5. Knows(x)'
    <3>1. CASE on
      BY <1>1, <1>5, <1>6, <1>8, <2>2, <2>3, <2>4, <3>1 DEF Knows
    <3>2. CASE ~on
      BY <1>5, <3>2 DEF Knows
    <3> QED
      BY <3>1, <3>2
  <2> QED
    BY <2>1, <2>5
<1> DEFINE end == 3 * i + 2
\* All up to the end of the iteration is done.
<1>10. \A q, p, t : \A k \in Nat : Owes(q, p, r0, t, k) /\ ~plan.gather /\ 3 * i < k /\ i # 0 => end < k
  <2> SUFFICES ASSUME NEW q, NEW p, NEW t, NEW k \in Nat, Owes(q, p, r0, t, k), ~plan.gather, 3 * i < k, i # 0
               PROVE  end < k
    OBVIOUS
  <2>1. k # 3 * i + 1 /\ k # 3 * i + 2
    <3>1. plan \in Plans /\ i \in Nat \ {0}
      BY DEF IInv, Types
    <3>2. (k = 3 * i + 1 => plan.gather) /\ (k = 3 * i + 2 => plan.gather)
      BY <3>1, OwedRanks
    <3> QED
      BY <3>2
  <2> QED
    BY <2>1
<1>11. \A t : /\ SentAll(x, r0, t) = SentMost(x, r0, t)
              /\ SentAll(x, r0, t) = IF pc[x] = "collect" THEN 3 * i ELSE end
  BY <1>1, <1>2, <1>3 DEF SentAll, SentMost
<1>12. \A t : /\ SentAll(x, r0, t)' = SentMost(x, r0, t)'
              /\ SentAll(x, r0, t)' =
                   IF on /\ ~(t \in EdgeTags(r0) /\ From(r0, t) \in Range(Mapped(x, r0)))
                   THEN end + 1 ELSE end
  <2> TAKE t
  <2>1. EdgeTags(r0)' = EdgeTags(r0) /\ From(r0, t)' = From(r0, t) /\ Last' = Last
    BY PlanStays
  <2>2. CASE on
    <3>1. 3 * (i + 1) - 1 = end /\ 3 * (i + 1) = end + 1
      OBVIOUS
    <3> QED
      BY <1>5, <1>6, <2>1, <2>2, <3>1 DEF SentAll, SentMost
  <2>3. CASE ~on
    <3>1. Last = end
      BY <1>2, <2>3 DEF Last, on
    <3>2. pc'[x] = "idle" /\ round(x)' = r0
      BY <1>5, <1>6, <2>3
    <3>3. SentAll(x, r0, t)' = Last /\ SentMost(x, r0, t)' = SentAll(x, r0, t)'
      BY <2>1, <3>2 DEF SentAll, SentMost
    <3> QED
      BY <2>3, <3>1, <3>3
  <2> QED
    BY <2>2, <2>3
<1>13. Streams'
  <2>1. ASSUME NEW p \in Peers, NEW t \in Tags, NEW got \in Int, NEW s,
               StreamOf(s, x, p, r0, t, got, SentAll(x, r0, t), SentMost(x, r0, t))
        PROVE  StreamOf(s, x, p, r0, t, got, SentAll(x, r0, t)', SentMost(x, r0, t)')
    <3>1. PICK all \in Int : all = SentAll(x, r0, t) /\ all = SentMost(x, r0, t)
                             /\ all = IF pc[x] = "collect" THEN 3 * i ELSE end
      BY <1>11
    <3>2. PICK all2 \in Int :
             /\ all2 = SentAll(x, r0, t)' /\ all2 = SentMost(x, r0, t)'
             /\ all2 = IF on /\ ~(t \in EdgeTags(r0) /\ From(r0, t) \in Range(Mapped(x, r0)))
                       THEN end + 1 ELSE end
      BY <1>12
    <3>3. got <= got /\ all <= all2
      BY <3>1, <3>2
    <3>4. ASSUME NEW k \in Nat, Owes(x, p, r0, t, k), k <= all2
          PROVE  k <= all
      <4>1. k # end + 1 \/ all2 = end
        <5>1. CASE k = end + 1 /\ all2 = end + 1
          <6>1. PICK j \in Nat \ {0} : k = 3 * j /\ plan \in Plans
            <7>1. k = 3 * (i + 1) /\ i + 1 \in Nat \ {0}
              BY <5>1
            <7>2. plan \in Plans
              BY DEF IInv, Types
            <7> QED
              BY <7>1, <7>2
          <6>2. /\ t \in EdgeTags(r0) /\ HostedIn(r0, From(r0, t)) # {} /\ x = LastHost(r0, From(r0, t))
            BY <3>4, <6>1, OwedRanks
          <6>3. x \in HostedIn(r0, From(r0, t))
            <7>1. HostedIn(r0, From(r0, t)) \in SUBSET Peers
              BY DEF HostedIn
            <7> QED
              BY <6>2, <7>1, LastOfFacts DEF LastHost
          <6>4. From(r0, t) \in Range(Mapped(x, r0))
            BY <6>3 DEF HostedIn
          <6>5. end + 1 # end
            OBVIOUS
          <6> QED
            BY <3>2, <5>1, <6>2, <6>4, <6>5
        <5> QED
          BY <3>2, <5>1
      <4>2. k <= end
        BY <3>2, <3>4, <4>1
      <4>3. CASE pc[x] = "collect"
        BY <1>3, <1>10, <3>1, <3>4, <4>2, <4>3
      <4>4. CASE pc[x] # "collect"
        BY <3>1, <4>2, <4>4
      <4> QED
        BY <4>3, <4>4
    <3>5. \A k \in Nat : Owes(x, p, r0, t, k) => (got < k => got < k) /\ (k <= all2 => k <= all)
      BY <3>4
    <3> HIDE DEF end
    <3>6. StreamOf(s, x, p, r0, t, got, all2, all2)
      BY <2>1, <3>1, <3>3, <3>5, StreamShifts
    <3> QED
      BY <3>2, <3>6
  <2>2. \A p, q : \A r, t : Get(inBox'[p], Key(r, q, t), <<>>) = Box(p, r, q, t)
    BY DEF Box
  <2>3. \A t \in Tags : SentAll(x, r0, t)' \in Int /\ SentMost(x, r0, t)' \in Int
    BY <1>12
  <2>4. ASSUME NEW q \in Peers, NEW t \in Tags, pc'[x] \notin Inactive
        PROVE  /\ Got(x, q, t)' \in Int /\ Got(x, q, t) <= Got(x, q, t)'
               /\ \A k \in Nat : Owes(q, x, r0, t, k) /\ Got(x, q, t) < k => Got(x, q, t)' < k
    <3>1. pc'[x] = "spread" /\ iteration'[x] = i + 1
      BY <1>5, <2>4 DEF Inactive
    <3>2. Got(x, q, t)' = IF plan.any THEN 2 ELSE end
      BY <3>1 DEF Got
    <3>3. q \notin Range(todo[x]) /\ t \notin Range(todo[x])
      BY DEF Range
    <3>4. Got(x, q, t) = CASE pc[x] = "count" -> 2
                           [] pc[x] = "collect" -> IF plan.any THEN 2 ELSE 3 * i
                           [] pc[x] = "gather" -> end
      BY <1>2, <3>3 DEF Got
    <3>5. plan.gather => ~plan.any
      BY PlanFacts DEF IInv, Types
    <3>6. CASE pc[x] = "count"
      BY <1>3, <3>2, <3>4, <3>6
    <3>7. CASE pc[x] = "collect"
      <4>1. Got(x, q, t) = IF plan.any THEN 2 ELSE 3 * i
        BY <3>4, <3>7
      <4>2. i # 0 /\ ~plan.gather
        BY <1>3, <3>7
      <4> QED
        BY <1>10, <3>2, <4>1, <4>2
    <3>8. CASE pc[x] = "gather"
      BY <1>3, <3>2, <3>4, <3>5, <3>8
    <3> QED
      BY <3>6, <3>7, <3>8
  <2>5. pc[x] \notin Inactive /\ \A y \in Peers \ {x} : Stays(y)
    BY <1>5 DEF Inactive, Within
  <2>6. \A p \in Peers, t \in Tags, got \in Int :
          /\ pc[p] \notin Inactive /\ round(p) = r0
          /\ StreamOf(Box(p, r0, x, t), x, p, r0, t, got, SentAll(x, r0, t), SentMost(x, r0, t))
          => StreamOf(Get(inBox'[p], Key(r0, x, t), <<>>), x, p, r0, t, got,
                      SentAll(x, r0, t)', SentMost(x, r0, t)')
    BY <2>1, <2>2
  <2>7. \A p, q \in Peers, t \in Tags : q # x \/ round(p) # r0 =>
          Get(inBox'[p], Key(round(p), q, t), <<>>) = Box(p, round(p), q, t)
    BY <2>2
  <2>8. plan' = plan /\ hosted' = hosted /\ r0 = round(x) /\ Types /\ Streams
    BY <1>1 DEF IInv
  <2>9. pc'[x] \notin Inactive => \A q \in Peers, t \in Tags :
          /\ Got(x, q, t)' \in Int /\ Got(x, q, t) <= Got(x, q, t)'
          /\ \A k \in Nat : Owes(q, x, r0, t, k) /\ Got(x, q, t) < k => Got(x, q, t)' < k
    BY <2>4, Zenon
  <2>10. pc'[x] \notin Inactive => pc[x] \notin Inactive
    BY <2>5, Zenon
  <2>11. \A y \in Peers \ {x} : Stays(y)
    BY <2>5, Zenon
  <2> QED
    BY <2>3, <2>6, <2>7, <2>8, <2>9, <2>10, <2>11, SendingStep, ZenonT(60)
<1> QED
  BY <1>5, <1>7, <1>9, <1>13, StepKeeps

\* x sends along the edges of v, the next vertex, in iteration i of round r: D holds each
\* host it sends to with the edge, which is the host of the target, and all of them unless
\* x does not know one (spread in src/include/graybat/Cage.hpp).
SpreadsAlong(x, r, v, i, D) ==
    /\ pc'[x] = "spread" => Done(x)
    /\ pc'[x] # "spread" => Goto(x, "thrown", <<>>)
    /\ \A p, t : <<p, t>> \in D =>
         /\ t \in EdgeTags(r) /\ From(r, t) = v /\ p = locateVertex(x, To(r, t)) /\ p \in InRound(r)
    /\ pc'[x] = "spread" => \A t \in EdgeTags(r) : From(r, t) = v => <<locateVertex(x, To(r, t)), t>> \in D
    /\ DOMAIN inBox' = Peers
    /\ \A p \in Peers : \A k \in DOMAIN inBox'[p] :
         k \in (1 .. round(p)) \X Peers \X Tags /\ inBox'[p][k] \in Seq(Messages)
    /\ \A p \in Peers : \A s, q, t :
         Get(inBox'[p], Key(s, q, t), <<>>) =
           IF s = r /\ q = x /\ <<p, t>> \in D
           THEN Box(p, s, q, t) \o <<Message("data", Value(r, v, i))>>
           ELSE Box(p, s, q, t)

LEMMA SpreadSends ==
  ASSUME IInv, NEW x \in Peers, Spread(x), NEW r0, r0 = round(x), NEW v, v = Head(todo[x]),
         NEW i, i = iteration[x]
  PROVE  \E D : SpreadsAlong(x, r0, v, i, D)
<1>1. r0 \in Nat /\ r0 = round(x) /\ r0 # 0 /\ r0 \in Rounds
  BY RoundNumber, RoundFacts DEF IInv, Place, Spread
<1>2. v = Head(todo[x])
  OBVIOUS
<1>3. i \in Nat /\ i = iteration[x] /\ i # 0 /\ i <= plan.iterations /\ plan.iterations \in Nat /\ i \in Iterations
  <2>1. iteration[x] \in 0 .. plan.iterations /\ plan.iterations \in Nat
    BY PlanFacts DEF IInv, Types
  <2>2. iteration[x] # 0
    BY DEF IInv, Place, Spread
  <2> QED
    BY <2>1, <2>2 DEF Iterations
<1>4. PICK edges : edges = getOutEdges(x, v)
  OBVIOUS
<1> DEFINE before == {j \in DOMAIN edges : \A l \in 1 .. j : Reachable(x, edges[l])}
           m0 == Message("data", Value(r0, v, i))
           D == {<<locateVertex(x, Target(x, edges[j])), edges[j]>> : j \in before}
           messages == [d \in D |-> <<m0>>]
           whole == before = DOMAIN edges
<1>5. /\ pc[x] = "spread" /\ todo[x] # <<>> /\ Sent(x, messages)
      /\ whole => Done(x)
      /\ ~whole => Goto(x, "thrown", <<>>)
      /\ UNCHANGED <<plan, graph, hosted, iteration, nVertices, vertexMap, peerMap, data>>
  BY <1>1, <1>2, <1>3, <1>4 DEF Spread
<1>6. plan \in Plans /\ graph[x] = EdgesOf(r0) /\ Mapped(x, r0) \in Seq(Nat) /\ todo[x] \in Seq(Nat)
  BY <1>1, RoundFacts DEF IInv, Types
<1>7. /\ x \in InRound(r0) /\ \A q \in Peers : round(q) >= r0
      /\ Range(todo[x]) \subseteq Range(Mapped(x, r0)) /\ IsInjective(todo[x])
  BY <1>1, <1>5 DEF IInv, Place
<1>8. /\ v \in Range(todo[x]) /\ v \in Nat /\ v \in Range(Mapped(x, r0)) /\ Tail(todo[x]) \in Seq(Nat)
      /\ Range(todo[x]) = Range(Tail(todo[x])) \cup {v} /\ v \notin Range(Tail(todo[x]))
      /\ IsInjective(Tail(todo[x]))
  BY <1>2, <1>5, <1>6, <1>7, WorkFacts
<1>9. /\ edges \in Seq(EdgeTags(r0)) /\ Range(edges) = {e \in EdgeTags(r0) : From(r0, e) = v}
      /\ \A e \in EdgeTags(r0) : Target(x, e) = To(r0, e)
  BY <1>1, <1>4, <1>6, GraphFacts
<1>10. Members(r0) = InRound(r0) /\ InRound(r0) \subseteq Peers
  BY <1>1, <1>7, MembersFacts DEF IInv
<1>11. EdgeTags(r0) \subseteq Tags /\ \A e \in EdgeTags(r0) : To(r0, e) \in Nat
  BY <1>1, <1>6, EdgeFacts
\* What is sent, and where.
<1>12. /\ \A d \in D : d \in Peers \X Tags
       /\ \A p, t : <<p, t>> \in D =>
            /\ t \in EdgeTags(r0) /\ From(r0, t) = v /\ p = locateVertex(x, To(r0, t)) /\ p \in InRound(r0)
       /\ whole => \A t \in EdgeTags(r0) : From(r0, t) = v => <<locateVertex(x, To(r0, t)), t>> \in D
  <2>1. ASSUME NEW j \in before
        PROVE  /\ edges[j] \in EdgeTags(r0) /\ From(r0, edges[j]) = v
               /\ Target(x, edges[j]) = To(r0, edges[j])
               /\ locateVertex(x, To(r0, edges[j])) \in InRound(r0)
    <3>1. edges[j] \in Range(edges) /\ j \in 1 .. j
      <4>1. DOMAIN edges \subseteq Nat \ {0}
        BY <1>9
      <4> QED
        BY <2>1, <4>1 DEF Range
    <3>2. edges[j] \in EdgeTags(r0) /\ From(r0, edges[j]) = v /\ Target(x, edges[j]) = To(r0, edges[j])
      BY <1>9, <3>1
    <3>3. Reachable(x, edges[j])
      BY <2>1, <3>1
    <3> QED
      BY <1>1, <1>10, <3>2, <3>3 DEF Reachable
  <2>2. ASSUME NEW d \in D
        PROVE  \E j \in before : d = <<locateVertex(x, To(r0, edges[j])), edges[j]>>
    BY <2>1, <2>2
  <2>3. ASSUME whole, NEW t \in EdgeTags(r0), From(r0, t) = v
        PROVE  <<locateVertex(x, To(r0, t)), t>> \in D
    <3>1. t \in Range(edges)
      BY <1>9, <2>3
    <3>2. PICK j \in before : t = edges[j]
      BY <2>3, <3>1 DEF Range
    <3> QED
      BY <2>1, <3>2
  <2> HIDE DEF D, before
  <2>4. \A d \in D : d \in Peers \X Tags
    BY <1>10, <1>11, <2>1, <2>2
  <2>5. ASSUME NEW p, NEW t, <<p, t>> \in D
        PROVE  t \in EdgeTags(r0) /\ From(r0, t) = v /\ p = locateVertex(x, To(r0, t)) /\ p \in InRound(r0)
    <3>1. PICK j \in before : <<p, t>> = <<locateVertex(x, To(r0, edges[j])), edges[j]>>
      BY <2>2, <2>5
    <3>2. p = locateVertex(x, To(r0, edges[j])) /\ t = edges[j]
      BY <3>1
    <3> QED
      BY <2>1, <3>2
  <2> QED
    BY <2>3, <2>4, <2>5
<1>13. m0 \in Messages /\ RankOf(m0) = 3 * i
  <2>1. r0 \in Nat /\ v \in Nat /\ i \in Nat
    BY <1>1, <1>3, <1>8
  <2> QED
    BY <2>1, MessageFacts
<1>14. DOMAIN messages = D /\ \A d \in D : messages[d] = <<m0>>
  OBVIOUS
<1> HIDE DEF messages, D, m0, before, whole
<1>15. /\ DOMAIN inBox' = Peers
       /\ \A p \in Peers : \A k \in DOMAIN inBox'[p] :
            k \in (1 .. round(p)) \X Peers \X Tags /\ inBox'[p][k] \in Seq(Messages)
       /\ \A p \in Peers : \A r, q, t :
            Get(inBox'[p], Key(r, q, t), <<>>) =
              IF r = r0 /\ q = x /\ <<p, t>> \in D THEN Box(p, r, q, t) \o <<m0>> ELSE Box(p, r, q, t)
  <2>1. \A d \in D : d \in Peers \X Tags /\ messages[d] = <<m0>>
    BY <1>12, <1>14
  <2>2. PICK u \in Seq(Messages) : u = <<m0>>
    BY <1>13, OneMessage
  <2>3. \A d \in D : d \in Peers \X Tags /\ messages[d] = u
    BY <2>1, <2>2
  <2>4. /\ DOMAIN inBox' = Peers
        /\ \A p \in Peers : \A k \in DOMAIN inBox'[p] :
             k \in (1 .. round(p)) \X Peers \X Tags /\ inBox'[p][k] \in Seq(Messages)
        /\ \A p \in Peers : \A r, q, t :
             Get(inBox'[p], Key(r, q, t), <<>>) =
               IF r = r0 /\ q = x /\ <<p, t>> \in D THEN Box(p, r, q, t) \o u ELSE Box(p, r, q, t)
    BY <1>1, <1>5, <1>7, <1>14, <2>3, SentAlike DEF IInv
  <2> QED
    BY <2>2, <2>4
<1>16. pc'[x] = "spread" <=> whole
  <2>1. DOMAIN pc = Peers
    BY DEF IInv, Types
  <2>2. whole => pc'[x] = "spread"
    BY <1>5 DEF Done
  <2>3. ~whole => pc'[x] = "thrown"
    BY <1>5, <2>1 DEF Goto
  <2> QED
    BY <2>2, <2>3
<1>17. \A p \in Peers : \A r, q, t :
         Get(inBox'[p], Key(r, q, t), <<>>) =
           IF r = r0 /\ q = x /\ <<p, t>> \in D
           THEN Box(p, r, q, t) \o <<Message("data", Value(r0, v, i))>>
           ELSE Box(p, r, q, t)
  BY <1>15 DEF m0
<1>18. /\ pc'[x] = "spread" => Done(x)
       /\ pc'[x] # "spread" => Goto(x, "thrown", <<>>)
  BY <1>5, <1>16
<1>19. /\ DOMAIN inBox' = Peers
       /\ \A p \in Peers : \A k \in DOMAIN inBox'[p] :
            k \in (1 .. round(p)) \X Peers \X Tags /\ inBox'[p][k] \in Seq(Messages)
  BY <1>15
<1>20. \A p, t : <<p, t>> \in D =>
         /\ t \in EdgeTags(r0) /\ From(r0, t) = v /\ p = locateVertex(x, To(r0, t)) /\ p \in InRound(r0)
  BY <1>12
<1>21. pc'[x] = "spread" =>
         \A t \in EdgeTags(r0) : From(r0, t) = v => <<locateVertex(x, To(r0, t)), t>> \in D
  BY <1>12, <1>16
<1> WITNESS D
<1> QED
  BY <1>17, <1>18, <1>19, <1>20, <1>21 DEF SpreadsAlong

LEMMA SpreadKeeps ==
  ASSUME IInv, NEW x \in Peers, Spread(x)
  PROVE  IInv'
<1>1. PICK r0 \in Nat : r0 = round(x) /\ r0 # 0 /\ r0 \in Rounds
  BY RoundNumber, RoundFacts DEF IInv, Place, Spread
<1>2. PICK v : v = Head(todo[x])
  OBVIOUS
<1>3. PICK i \in Nat : i = iteration[x] /\ i # 0 /\ i <= plan.iterations /\ plan.iterations \in Nat /\ i \in Iterations
  <2>1. iteration[x] \in 0 .. plan.iterations /\ plan.iterations \in Nat
    BY PlanFacts DEF IInv, Types
  <2>2. iteration[x] # 0
    BY DEF IInv, Place, Spread
  <2> QED
    BY <2>1, <2>2 DEF Iterations
<1>4. /\ pc[x] = "spread" /\ todo[x] # <<>>
      /\ UNCHANGED <<plan, graph, hosted, iteration, nVertices, vertexMap, peerMap, data>>
  BY DEF Spread
<1>5. plan \in Plans /\ graph[x] = EdgesOf(r0) /\ Mapped(x, r0) \in Seq(Nat) /\ todo[x] \in Seq(Nat)
  BY <1>1, RoundFacts DEF IInv, Types
<1>6. /\ x \in InRound(r0) /\ \A q \in Peers : round(q) >= r0
      /\ Range(todo[x]) \subseteq Range(Mapped(x, r0)) /\ IsInjective(todo[x])
  BY <1>1, <1>4 DEF IInv, Place
<1>7. /\ v \in Range(todo[x]) /\ v \in Nat /\ v \in Range(Mapped(x, r0)) /\ Tail(todo[x]) \in Seq(Nat)
      /\ Range(todo[x]) = Range(Tail(todo[x])) \cup {v} /\ v \notin Range(Tail(todo[x]))
      /\ IsInjective(Tail(todo[x]))
  BY <1>2, <1>4, <1>5, <1>6, WorkFacts
<1>8. EdgeTags(r0) \subseteq Tags /\ \A e \in EdgeTags(r0) : To(r0, e) \in Nat
  BY <1>1, <1>5, EdgeFacts
<1>9. Message("data", Value(r0, v, i)) \in Messages /\ RankOf(Message("data", Value(r0, v, i))) = 3 * i
  BY <1>1, <1>3, <1>7, MessageFacts
<1>20. PICK D : SpreadsAlong(x, r0, v, i, D)
  BY <1>1, <1>2, <1>3, SpreadSends
<1> DEFINE m0 == Message("data", Value(r0, v, i))
           whole == pc'[x] = "spread"
<1>10. /\ whole => Done(x)
       /\ ~whole => Goto(x, "thrown", <<>>)
       /\ \A p, t : <<p, t>> \in D =>
            /\ t \in EdgeTags(r0) /\ From(r0, t) = v /\ p = locateVertex(x, To(r0, t)) /\ p \in InRound(r0)
       /\ whole => \A t \in EdgeTags(r0) : From(r0, t) = v => <<locateVertex(x, To(r0, t)), t>> \in D
       /\ DOMAIN inBox' = Peers
       /\ \A p \in Peers : \A k \in DOMAIN inBox'[p] :
            k \in (1 .. round(p)) \X Peers \X Tags /\ inBox'[p][k] \in Seq(Messages)
  BY <1>20 DEF SpreadsAlong
<1>18. \A p \in Peers : \A r, q, t :
         Get(inBox'[p], Key(r, q, t), <<>>) =
           IF r = r0 /\ q = x /\ <<p, t>> \in D THEN Box(p, r, q, t) \o <<m0>> ELSE Box(p, r, q, t)
  BY <1>20 DEF SpreadsAlong
<1>19. m0 \in Messages /\ RankOf(m0) = 3 * i
  BY <1>9
<1> HIDE DEF m0, whole
<1>11. /\ Within(x) /\ iteration' = iteration
       /\ whole => pc'[x] = "spread" /\ todo'[x] = Tail(todo[x])
       /\ ~whole => pc'[x] = "thrown" /\ todo'[x] = <<>>
       /\ pc' \in [Peers -> PCs] /\ todo' \in [Peers -> Seq(Nat)]
       /\ iteration' \in [Peers -> 0 .. plan.iterations]
  <2>1. CASE whole
    BY <1>4, <1>10, <2>1, DoneFacts DEF IInv
  <2>2. CASE ~whole
    <3>1. "thrown" \in PCs /\ <<>> \in Seq(Nat)
      BY DEF PCs
    <3> QED
      BY <1>4, <1>10, <2>2, <3>1, GotoFacts DEF IInv
  <2> QED
    BY <2>1, <2>2
<1>12. round(x)' = r0 /\ \A p : round(p)' = round(p)
  BY <1>1, <1>11, WithinFacts
<1>13. Types'
  BY <1>4, <1>10, <1>11, TypesStep DEF Types, IInv
<1>14. /\ \A r : InRound(r)' = InRound(r) /\ \A q : Mapped(q, r)' = Mapped(q, r)
       /\ \A r, u : HostedIn(r, u)' = HostedIn(r, u)
  BY <1>4, PlanStays
<1>15. Place(x)' /\ Knows(x)'
  <2>1. \A q \in Peers : round(q) + 1 >= r0
    BY <1>1 DEF IInv, Place
  <2>2. Place(x)'
    BY <1>1, <1>3, <1>6, <1>7, <1>11, <1>12, <1>14, <2>1 DEF Place
  <2>3. whole => Heard(x)' = InRound(r0)
    BY <1>11, <1>12, <1>14 DEF Heard
  <2>4. Heard(x) = InRound(r0)
    BY <1>1, <1>4 DEF Heard
  <2>5. Knows(x)'
    BY <1>1, <1>4, <1>11, <1>12, <1>14, <2>3, <2>4 DEF IInv, Knows
  <2> QED
    BY <2>2, <2>5
<1> DEFINE mine(t) == t \in EdgeTags(r0) /\ From(r0, t) = v
<1>16. \A t : /\ SentAll(x, r0, t) = SentMost(x, r0, t)
              /\ SentAll(x, r0, t) \in {3 * i - 1, 3 * i}
              /\ mine(t) => SentAll(x, r0, t) = 3 * i - 1
              /\ whole => /\ SentAll(x, r0, t)' = SentMost(x, r0, t)'
                          /\ SentAll(x, r0, t)' = IF mine(t) THEN 3 * i ELSE SentAll(x, r0, t)
              /\ ~whole => SentAll(x, r0, t)' = 3 * i - 1 /\ SentMost(x, r0, t)' = 3 * i
  <2> TAKE t
  <2>1. EdgeTags(r0)' = EdgeTags(r0) /\ From(r0, t)' = From(r0, t)
    BY <1>4, PlanStays
  <2>2. /\ SentAll(x, r0, t) = SentMost(x, r0, t)
        /\ SentAll(x, r0, t) = IF t \in EdgeTags(r0) /\ From(r0, t) \in Range(todo[x]) THEN 3 * i - 1 ELSE 3 * i
    BY <1>1, <1>3, <1>4 DEF SentAll, SentMost
  <2>3. ASSUME whole
        PROVE  /\ SentAll(x, r0, t)' = SentMost(x, r0, t)'
               /\ SentAll(x, r0, t)' = IF t \in EdgeTags(r0) /\ From(r0, t) \in Range(Tail(todo[x]))
                                       THEN 3 * i - 1 ELSE 3 * i
    <3>1. pc'[x] = "spread" /\ todo'[x] = Tail(todo[x]) /\ iteration'[x] = i /\ round(x)' = r0
      BY <1>3, <1>11, <1>12, <2>3
    <3> QED
      BY <1>1, <2>1, <3>1 DEF SentAll, SentMost
  <2>4. ~whole => SentAll(x, r0, t)' = 3 * i - 1 /\ SentMost(x, r0, t)' = 3 * i
    BY <1>3, <1>11, <1>12 DEF SentAll, SentMost
  <2> QED
    BY <1>7, <2>2, <2>3, <2>4
<1>17. Streams'
  <2>1. ASSUME NEW p \in Peers, NEW t \in Tags, NEW got \in Int,
               StreamOf(Box(p, r0, x, t), x, p, r0, t, got, SentAll(x, r0, t), SentMost(x, r0, t))
        PROVE  StreamOf(Get(inBox'[p], Key(r0, x, t), <<>>), x, p, r0, t, got,
                        SentAll(x, r0, t)', SentMost(x, r0, t)')
    <3>1. PICK all \in Int : all = SentAll(x, r0, t) /\ all = SentMost(x, r0, t)
                             /\ all \in {3 * i - 1, 3 * i} /\ (mine(t) => all = 3 * i - 1)
      BY <1>3, <1>16
    <3>2. PICK all2 \in Int, most2 \in Int :
             /\ all2 = SentAll(x, r0, t)' /\ most2 = SentMost(x, r0, t)'
             /\ whole => most2 = all2 /\ all2 = IF mine(t) THEN 3 * i ELSE all
             /\ ~whole => all2 = 3 * i - 1 /\ most2 = 3 * i
      BY <1>3, <1>16, <3>1
    <3>3. StreamOf(Box(p, r0, x, t), x, p, r0, t, got, all, all)
      BY <2>1, <3>1
    <3>4. Box(p, r0, x, t) \in Seq(Messages)
      BY BoxTypes DEF IInv
    <3>5. CASE <<p, t>> \in D
      <4>1. mine(t) /\ p = locateVertex(x, To(r0, t)) /\ p \in InRound(r0) /\ To(r0, t) \in Nat
        BY <1>8, <1>10, <3>5
      <4>2. Right(x, p, r0, t, m0)
        <5>1. x \in HostedIn(r0, From(r0, t))
          BY <1>7, <4>1 DEF HostedIn
        <5>2. HostedIn(r0, To(r0, t)) # {} => p = LastHost(r0, To(r0, t))
          <6>1. Knows(x) /\ Heard(x) = InRound(round(x))
            BY <1>4 DEF IInv, Heard
          <6> QED
            BY <1>1, <1>4, <1>5, <4>1, <6>1, Located
        <5> QED
          BY <1>3, <1>6, <4>1, <5>1, <5>2 DEF Right, m0
      <4>3. most2 = 3 * i /\ all = 3 * i - 1 /\ (all2 = 3 * i \/ all2 = 3 * i - 1)
        BY <3>1, <3>2, <4>1
      <4>4. <<m0>> \in Seq(Messages) /\ Range(<<m0>>) = {m0} /\ Ascends(<<m0>>)
        BY <1>19, OneMessage
      <4>5. \A m \in Range(<<m0>>) : Right(x, p, r0, t, m) /\ RankOf(m) \in 1 .. most2 /\ all < RankOf(m)
        BY <1>3, <1>19, <4>2, <4>3, <4>4
      <4>6. \A k \in Nat : Owes(x, p, r0, t, k) /\ k <= all2 => k <= all \/ \E m \in Range(<<m0>>) : RankOf(m) = k
        <5>1. \A k \in Nat : k <= all2 => k <= all \/ k = 3 * i
          BY <4>3
        <5> QED
          BY <1>19, <4>4, <5>1
      <4>7. all <= most2
        BY <4>3
      <4>8. StreamOf(Box(p, r0, x, t) \o <<m0>>, x, p, r0, t, got, all2, most2)
        BY <3>3, <3>4, <4>4, <4>5, <4>6, <4>7, StreamJoins
      <4> QED
        BY <1>18, <3>2, <3>5, <4>8
    <3>6. CASE <<p, t>> \notin D
      <4>1. ASSUME NEW k \in Nat, Owes(x, p, r0, t, k), k <= all2
            PROVE  k <= all
        <5>1. CASE whole /\ mine(t)
          <6>1. k # 3 * i
            <7>1. SUFFICES ASSUME k = 3 * i PROVE FALSE
              OBVIOUS
            <7>2. HostedIn(r0, To(r0, t)) # {} /\ p = LastHost(r0, To(r0, t))
              <8>1. i \in Nat \ {0}
                BY <1>3
              <8> QED
                BY <1>5, <4>1, <7>1, <8>1, OwedRanks
            <7>3. locateVertex(x, To(r0, t)) = p
              <8>1. Knows(x) /\ Heard(x) = InRound(round(x))
                BY <1>4 DEF IInv, Heard
              <8>2. To(r0, t) \in Nat
                BY <1>8, <5>1
              <8> QED
                BY <1>1, <1>4, <1>5, <7>2, <8>1, <8>2, Located
            <7> QED
              BY <1>10, <3>6, <5>1, <7>3
          <6> QED
            BY <3>1, <3>2, <4>1, <5>1, <6>1
        <5>2. CASE whole /\ ~mine(t)
          BY <3>2, <4>1, <5>2
        <5>3. CASE ~whole
          BY <3>1, <3>2, <4>1, <5>3
        <5> QED
          BY <5>1, <5>2, <5>3
      <4>2. all <= most2 /\ got <= got
        BY <3>1, <3>2
      <4>3. StreamOf(Box(p, r0, x, t), x, p, r0, t, got, all2, most2)
        <5>1. \A k \in Nat : Owes(x, p, r0, t, k) => (got < k => got < k) /\ (k <= all2 => k <= all)
          BY <4>1
        <5> QED
          BY <3>3, <4>2, <5>1, StreamShifts
      <4> QED
        BY <1>18, <3>2, <3>6, <4>3
    <3> QED
      BY <3>5, <3>6
  <2>2. \A p, q \in Peers, t \in Tags : q # x \/ round(p) # r0 =>
          Get(inBox'[p], Key(round(p), q, t), <<>>) = Box(p, round(p), q, t)
    <3> TAKE p, q \in Peers, t \in Tags
    <3> QED
      BY <1>18
  <2>3. \A t \in Tags : SentAll(x, r0, t)' \in Int /\ SentMost(x, r0, t)' \in Int
    BY <1>3, <1>16
  <2>4. ASSUME NEW q \in Peers, NEW t \in Tags, pc'[x] \notin Inactive
        PROVE  /\ Got(x, q, t)' \in Int /\ Got(x, q, t) <= Got(x, q, t)'
               /\ \A k \in Nat : Owes(q, x, r0, t, k) /\ Got(x, q, t) < k => Got(x, q, t)' < k
    <3>1. whole /\ pc'[x] = "spread" /\ iteration'[x] = i
      BY <1>3, <1>11, <2>4 DEF Inactive
    <3>2. Got(x, q, t) = (IF plan.any THEN 2 ELSE 3 * i - 1) /\ Got(x, q, t)' = Got(x, q, t)
      BY <1>3, <1>4, <3>1 DEF Got
    <3>3. Got(x, q, t) \in Int
      BY <3>2
    <3> QED
      BY <3>2, <3>3
  <2>5. pc[x] \notin Inactive /\ \A y \in Peers \ {x} : Stays(y)
    BY <1>4, <1>11 DEF Inactive, Within
  <2>6. \A p \in Peers, t \in Tags, got \in Int :
          /\ pc[p] \notin Inactive /\ round(p) = r0
          /\ StreamOf(Box(p, r0, x, t), x, p, r0, t, got, SentAll(x, r0, t), SentMost(x, r0, t))
          => StreamOf(Get(inBox'[p], Key(r0, x, t), <<>>), x, p, r0, t, got,
                      SentAll(x, r0, t)', SentMost(x, r0, t)')
    BY <2>1
  <2>7. plan' = plan /\ hosted' = hosted /\ r0 = round(x) /\ Types /\ Streams
    BY <1>1, <1>4 DEF IInv
  <2> QED
    BY <2>2, <2>3, <2>4, <2>5, <2>6, <2>7, SendingStep, Zenon
<1> QED
  BY <1>4, <1>11, <1>13, <1>15, <1>17, StepKeeps

\* In the iterations of a round.
LEMMA Iterating ==
  ASSUME IInv, NEW x \in Peers, pc[x] \in {"spread", "collect", "sizes", "gather"}
  PROVE  LET r == round(x)
             i == iteration[x]
         IN  /\ plan \in Plans /\ r \in Nat /\ r # 0 /\ r \in Rounds /\ \A q \in Peers : round(q) >= r
             /\ \A q \in Peers : round(q) + 1 >= r
             /\ graph[x] = EdgesOf(r) /\ hosted[x][r] = Mapped(x, r)
             /\ Mapped(x, r) \in Seq(Nat) /\ IsInjective(Mapped(x, r)) /\ todo[x] \in Seq(Nat)
             /\ i \in Nat /\ i # 0 /\ i <= plan.iterations /\ plan.iterations \in Nat /\ i \in Iterations
             /\ x \in InRound(r) /\ Members(r) = InRound(r) /\ InRound(r) \subseteq Peers
             /\ Knows(x) /\ Heard(x) = InRound(r)
<1> DEFINE r == round(x)
           i == iteration[x]
<1>1. /\ plan \in Plans /\ r \in Nat /\ r # 0 /\ r \in Rounds /\ \A q \in Peers : round(q) >= r
      /\ \A q \in Peers : round(q) + 1 >= r
  BY RoundNumber, RoundFacts DEF IInv, Types, Place
<1>2. i \in Nat /\ i # 0 /\ i <= plan.iterations /\ plan.iterations \in Nat /\ i \in Iterations
  <2>1. i \in 0 .. plan.iterations /\ plan.iterations \in Nat
    BY PlanFacts DEF IInv, Types
  <2>2. i # 0
    BY DEF IInv, Place
  <2> QED
    BY <2>1, <2>2 DEF Iterations
<1>3. /\ graph[x] = EdgesOf(r) /\ hosted[x][r] = Mapped(x, r)
      /\ Mapped(x, r) \in Seq(Nat) /\ IsInjective(Mapped(x, r)) /\ todo[x] \in Seq(Nat)
  BY <1>1, RoundFacts DEF IInv, Types
<1>4. x \in InRound(r) /\ Members(r) = InRound(r) /\ InRound(r) \subseteq Peers
  BY <1>1, MembersFacts DEF IInv, Place
<1>5. Knows(x) /\ Heard(x) = InRound(r)
  BY DEF IInv, Heard
<1> QED
  BY <1>1, <1>2, <1>3, <1>4, <1>5

\* What a peer still has to collect are incoming edges.
LEMMA Collecting ==
  ASSUME IInv, NEW x \in Peers, pc[x] = "collect", NEW r, r = round(x)
  PROVE  /\ InEdges(x) \in Seq(EdgeTags(r)) /\ IsInjective(InEdges(x))
         /\ Range(InEdges(x)) = {e \in EdgeTags(r) : To(r, e) \in Range(Mapped(x, r))}
         /\ IsInjective(todo[x]) /\ Range(todo[x]) \subseteq Range(InEdges(x))
         /\ \E d \in Nat :
              /\ Len(InEdges(x)) = d + Len(todo[x]) /\ Len(todo[x]) \in Nat
              /\ \A j \in 1 .. Len(todo[x]) : todo[x][j] = InEdges(x)[d + j]
<1>1. /\ plan \in Plans /\ r \in Rounds /\ graph[x] = EdgesOf(r) /\ hosted[x][r] = Mapped(x, r)
      /\ Mapped(x, r) \in Seq(Nat) /\ IsInjective(Mapped(x, r)) /\ todo[x] \in Seq(Nat)
  BY Iterating
<1>2. /\ InEdges(x) \in Seq(EdgeTags(r)) /\ IsInjective(InEdges(x))
      /\ Range(InEdges(x)) = {e \in EdgeTags(r) : To(r, e) \in Range(Mapped(x, r))}
  BY <1>1, InEdgesFacts
<1>3. PICK d \in Nat :
        Len(InEdges(x)) = d + Len(todo[x]) /\ \A j \in DOMAIN todo[x] : todo[x][j] = InEdges(x)[d + j]
  BY DEF IInv, Place
<1>4. PICK n \in Nat : n = Len(todo[x]) /\ DOMAIN todo[x] = 1 .. n /\ DOMAIN InEdges(x) = 1 .. d + n
  BY <1>1, <1>2, <1>3
<1>5. \A j \in 1 .. n : d + j \in 1 .. d + n
  OBVIOUS
<1>6. Range(todo[x]) \subseteq Range(InEdges(x))
  BY <1>3, <1>4, <1>5 DEF Range
<1>7. IsInjective(todo[x])
  <2>1. \A a, b \in 1 .. d + n : InEdges(x)[a] = InEdges(x)[b] => a = b
    BY <1>2, <1>4 DEF IsInjective
  <2>2. ASSUME NEW a \in 1 .. n, NEW b \in 1 .. n, todo[x][a] = todo[x][b]
        PROVE  a = b
    <3>1. InEdges(x)[d + a] = InEdges(x)[d + b]
      BY <1>3, <1>4, <2>2
    <3>2. d + a = d + b
      BY <1>5, <2>1, <3>1
    <3> QED
      BY <3>2
  <2> QED
    BY <1>4, <2>2 DEF IsInjective
<1> QED
  BY <1>2, <1>3, <1>4, <1>6, <1>7

LEMMA StartCollectKeeps ==
  ASSUME IInv, NEW x \in Peers, StartCollect(x)
  PROVE  IInv'
<1>1. PICK r0 \in Nat : r0 = round(x) /\ r0 # 0 /\ r0 \in Rounds
  BY Iterating DEF StartCollect
<1>2. PICK i \in Nat : i = iteration[x] /\ i # 0
  BY Iterating DEF StartCollect
<1>3. /\ pc[x] = "spread" /\ todo[x] = <<>> /\ Goto(x, "collect", InEdges(x))
      /\ data' = [data EXCEPT ![x] = <<>>]
      /\ UNCHANGED <<plan, graph, hosted, iteration, nVertices, vertexMap, peerMap, inBox>>
  BY DEF StartCollect
<1>4. /\ plan \in Plans /\ graph[x] = EdgesOf(r0) /\ hosted[x][r0] = Mapped(x, r0)
      /\ Mapped(x, r0) \in Seq(Nat) /\ IsInjective(Mapped(x, r0)) /\ x \in InRound(r0)
      /\ Heard(x) = InRound(r0) /\ \A q \in Peers : round(q) >= r0 /\ round(q) + 1 >= r0
  BY <1>1, <1>3, Iterating
<1>5. /\ InEdges(x) \in Seq(EdgeTags(r0)) /\ InEdges(x) \in Seq(Nat)
      /\ Range(InEdges(x)) = {e \in EdgeTags(r0) : To(r0, e) \in Range(Mapped(x, r0))}
  BY <1>1, <1>4, EdgeFacts, InEdgesFacts
<1>6. /\ Within(x) /\ pc'[x] = "collect" /\ todo'[x] = InEdges(x) /\ iteration' = iteration
      /\ pc' \in [Peers -> PCs] /\ todo' \in [Peers -> Seq(Nat)]
      /\ iteration' \in [Peers -> 0 .. plan.iterations]
  BY <1>3, <1>5, GotoFacts DEF IInv, PCs
<1>7. round(x)' = r0 /\ (\A p : round(p)' = round(p)) /\ InEdges(x)' = InEdges(x)
  BY <1>1, <1>6, WithinFacts
<1>8. Types'
  <2>1. data' \in [Peers -> Seq([edge : Nat, value : Nat \cup Seq(Nat)])]
    BY <1>3 DEF IInv, Types
  <2> QED
    BY <1>3, <1>6, <2>1, TypesStep DEF Types, IInv
<1>9. /\ \A r : InRound(r)' = InRound(r) /\ \A q : Mapped(q, r)' = Mapped(q, r)
      /\ \A r, u : HostedIn(r, u)' = HostedIn(r, u)
  BY <1>3, PlanStays
<1>10. Place(x)' /\ Knows(x)'
  <2>1. \E d \in Nat : Len(InEdges(x)) = d + Len(InEdges(x))
                       /\ \A j \in DOMAIN InEdges(x) : InEdges(x)[j] = InEdges(x)[d + j]
    <3>1. Len(InEdges(x)) = 0 + Len(InEdges(x)) /\ \A j \in DOMAIN InEdges(x) : j = 0 + j
      BY <1>5
    <3> QED
      BY <3>1
  <2>2. Place(x)'
    BY <1>1, <1>2, <1>4, <1>6, <1>7, <1>9, <2>1 DEF Place
  <2>3. Heard(x)' = InRound(r0)
    BY <1>6, <1>7, <1>9 DEF Heard
  <2>4. Knows(x)'
    BY <1>1, <1>3, <1>4, <1>6, <1>7, <1>9, <2>3 DEF IInv, Knows
  <2> QED
    BY <2>2, <2>4
<1>11. \A t : /\ SentAll(x, r0, t) = 3 * i /\ SentMost(x, r0, t) = 3 * i
              /\ SentAll(x, r0, t)' = 3 * i /\ SentMost(x, r0, t)' = 3 * i
  <2>1. \A u : u \notin Range(todo[x])
    BY <1>3 DEF Range
  <2> QED
    BY <1>1, <1>2, <1>3, <1>6, <1>7, <2>1 DEF SentAll, SentMost
<1>12. Streams'
  <2>1. \A p, q : \A r, t : Get(inBox'[p], Key(r, q, t), <<>>) = Box(p, r, q, t)
    BY <1>3 DEF Box
  <2>2. ASSUME NEW q \in Peers, NEW t \in Tags
        PROVE  /\ Got(x, q, t)' \in Int /\ Got(x, q, t) <= Got(x, q, t)'
               /\ \A k \in Nat : Owes(q, x, r0, t, k) /\ Got(x, q, t) < k => Got(x, q, t)' < k
    <3>1. /\ Got(x, q, t) = IF plan.any THEN 2 ELSE 3 * i - 1
          /\ Got(x, q, t)' = IF plan.any THEN 2 ELSE IF t \in Range(InEdges(x)) THEN 3 * i - 1 ELSE 3 * i
      BY <1>2, <1>3, <1>6 DEF Got
    <3>2. CASE plan.any \/ t \in Range(InEdges(x))
      BY <3>1, <3>2
    <3>3. CASE ~plan.any /\ t \notin Range(InEdges(x))
      <4>1. ~Owes(q, x, r0, t, 3 * i)
        <5>1. SUFFICES ASSUME Owes(q, x, r0, t, 3 * i) PROVE FALSE
          OBVIOUS
        <5>2. t \in EdgeTags(r0) /\ HostedIn(r0, To(r0, t)) # {} /\ x = LastHost(r0, To(r0, t))
          <6>1. i \in Nat \ {0}
            BY <1>2
          <6> QED
            BY <1>4, <5>1, <6>1, OwedRanks
        <5>3. x \in HostedIn(r0, To(r0, t))
          <6>1. HostedIn(r0, To(r0, t)) \in SUBSET Peers
            BY DEF HostedIn
          <6> QED
            BY <5>2, <6>1, LastOfFacts DEF LastHost
        <5> QED
          BY <1>5, <3>3, <5>2, <5>3 DEF HostedIn
      <4>2. Got(x, q, t) = 3 * i - 1 /\ Got(x, q, t)' = 3 * i
        BY <3>1, <3>3
      <4>3. \A k \in Nat : 3 * i - 1 < k /\ k # 3 * i => 3 * i < k
        OBVIOUS
      <4> QED
        BY <4>1, <4>2, <4>3
    <3> QED
      BY <3>2, <3>3
  <2>3. pc[x] \notin Inactive /\ \A y \in Peers \ {x} : Stays(y)
    BY <1>3, <1>6 DEF Inactive, Within
  <2>4. \A t \in Tags : SentAll(x, r0, t)' \in Int /\ SentMost(x, r0, t)' \in Int
    BY <1>11
  <2>5. \A p \in Peers, t \in Tags, got \in Int :
          /\ pc[p] \notin Inactive /\ round(p) = r0
          /\ StreamOf(Box(p, r0, x, t), x, p, r0, t, got, SentAll(x, r0, t), SentMost(x, r0, t))
          => StreamOf(Get(inBox'[p], Key(r0, x, t), <<>>), x, p, r0, t, got,
                      SentAll(x, r0, t)', SentMost(x, r0, t)')
    BY <1>11, <2>1
  <2> QED
    BY <1>1, <1>3, <2>1, <2>2, <2>3, <2>4, <2>5, SendingStep DEF IInv
<1> QED
  BY <1>3, <1>6, <1>8, <1>10, <1>12, StepKeeps

\* A peer that waits at an edge gets what the source of the edge has spread in
\* this iteration.
LEMMA AlongEdge ==
  ASSUME IInv, NEW p \in Peers, pc[p] = "collect", todo[p] # <<>>, ~plan.any,
         NEW e, e = Head(todo[p]), NEW r, r = round(p), NEW i, i = iteration[p],
         NEW q \in Peers, q = locateVertex(p, From(r, e)), NEW s, s = Box(p, r, q, e), s # <<>>,
         NEW all \in Int, NEW most \in Int, most <= all + 1,
         StreamOf(s, q, p, r, e, 3 * i - 1, all, most)
  PROVE  /\ Owes(q, p, r, e, 3 * i)
         /\ HostedIn(r, From(r, e)) # {} /\ q = LastHost(r, From(r, e))
         /\ Head(s) = Message("data", Value(r, From(r, e), i))
         /\ StreamOf(Tail(s), q, p, r, e, 3 * i, all, most)
<1>1. /\ plan \in Plans /\ r \in Nat /\ r \in Rounds /\ todo[p] \in Seq(Nat) /\ Knows(p) /\ Heard(p) = InRound(r)
      /\ i \in Nat \ {0} /\ i \in Iterations /\ p \in InRound(r) /\ InRound(r) \subseteq Peers
  BY Iterating
<1>2. e \in EdgeTags(r) /\ To(r, e) \in Range(Mapped(p, r))
  <2>1. e \in Range(todo[p])
    BY <1>1, WorkFacts
  <2> QED
    BY <2>1, Collecting
<1>3. From(r, e) \in VertexSet(r) /\ To(r, e) \in VertexSet(r) /\ From(r, e) \in Nat
  BY <1>1, <1>2, EdgeFacts
<1>4. p \in HostedIn(r, To(r, e))
  BY <1>2 DEF HostedIn
<1>5. HostedIn(r, From(r, e)) # {} => q = LastHost(r, From(r, e))
  BY <1>1, <1>3, Located
<1>6. s \in Seq(Messages)
  BY BoxTypes DEF IInv
<1>7. \A m \in Range(s) : /\ Right(q, p, r, e, m) /\ RankOf(m) \in 1 .. most /\ RankOf(m) \in Nat
                          /\ Owes(q, p, r, e, RankOf(m)) => 3 * i - 1 < RankOf(m)
  BY DEF StreamOf
<1>8. /\ HostedIn(r, From(r, e)) # {} /\ q = LastHost(r, From(r, e))
      /\ HostedIn(r, To(r, e)) # {} /\ p = LastHost(r, To(r, e)) /\ q \in InRound(r)
  <2>1. PICK m \in Range(s) : TRUE
    <3>1. Ascends(s)
      BY DEF StreamOf
    <3> QED
      BY <1>6, <1>7, <3>1, TailFacts
  <2>2. Right(q, p, r, e, m) /\ (Owes(q, p, r, e, RankOf(m)) => 3 * i - 1 < RankOf(m))
    BY <1>7
  <2>3. q \in InRound(r)
    BY <2>2 DEF Right
  <2>4. CASE RankOf(m) \in {1, 2}
    <3>1. Owes(q, p, r, e, RankOf(m))
      BY <1>1, <2>2, <2>4, RightIsOwed
    <3>2. 3 * i - 1 < RankOf(m)
      BY <2>2, <3>1
    <3> QED
      BY <1>1, <2>4, <3>2
  <2>5. CASE plan.gather
    <3>1. HostedIn(r, From(r, e)) = {LastHost(r, From(r, e))} /\ HostedIn(r, To(r, e)) = {LastHost(r, To(r, e))}
      BY <1>1, <1>3, <2>5, OneHost
    <3>2. HostedIn(r, From(r, e)) # {} /\ HostedIn(r, To(r, e)) # {} /\ p = LastHost(r, To(r, e))
      BY <1>4, <3>1
    <3> QED
      BY <1>5, <2>3, <3>2
  <2>6. CASE RankOf(m) \notin {1, 2} /\ ~plan.gather
    <3>1. /\ q \in HostedIn(r, From(r, e))
          /\ HostedIn(r, To(r, e)) # {} => p = LastHost(r, To(r, e))
      <4>1. RankOf(Message("count", Len(Mapped(q, r)))) = 1 /\ RankOf(Message("ids", Mapped(q, r))) = 2
        BY DEF RankOf, Message
      <4> QED
        BY <2>2, <2>6, <4>1 DEF Right
    <3> QED
      BY <1>4, <1>5, <2>3, <3>1
  <2> QED
    BY <2>4, <2>5, <2>6
<1>9. Owes(q, p, r, e, 3 * i)
  BY <1>1, <1>2, <1>8 DEF Owes
<1>10. \A m \in Range(s) : Owes(q, p, r, e, RankOf(m))
  BY <1>1, <1>7, <1>9, RightIsOwed
<1>11. /\ RankOf(Head(s)) = 3 * i /\ Right(q, p, r, e, Head(s))
       /\ StreamOf(Tail(s), q, p, r, e, 3 * i, all, most)
  <2>1. PICK got \in Nat : got = 3 * i - 1 /\ got + 1 = 3 * i
    BY <1>1
  <2>2. StreamOf(s, q, p, r, e, got, all, most) /\ Owes(q, p, r, e, got + 1)
    BY <1>9, <2>1
  <2>3. /\ RankOf(Head(s)) = got + 1 /\ Right(q, p, r, e, Head(s))
        /\ StreamOf(Tail(s), q, p, r, e, got + 1, all, most)
    BY <1>6, <1>10, <2>2, StreamHead
  <2> QED
    BY <2>1, <2>3
<1>12. Head(s) = Message("data", Value(r, From(r, e), i))
  BY <1>1, <1>11, RightRank
<1> QED
  BY <1>8, <1>9, <1>11, <1>12

\* Once it has one message less to collect, a peer is still on its way.
LEMMA NextEdge ==
  ASSUME IInv, NEW x \in Peers, pc[x] = "collect", todo[x] # <<>>,
         UNCHANGED <<plan, graph, hosted, iteration, nVertices, vertexMap, peerMap>>, Done(x),
         NEW r0, r0 = round(x)
  PROVE  /\ Within(x) /\ pc'[x] = "collect" /\ todo'[x] = Tail(todo[x]) /\ iteration' = iteration
         /\ pc' \in [Peers -> PCs] /\ todo' \in [Peers -> Seq(Nat)]
         /\ iteration' \in [Peers -> 0 .. plan.iterations]
         /\ Place(x)' /\ Knows(x)'
         /\ \A t : SentAll(x, r0, t)' = SentAll(x, r0, t) /\ SentMost(x, r0, t)' = SentMost(x, r0, t)
<1>1. r0 = round(x) /\ r0 # 0 /\ r0 \in Rounds /\ r0 \in Nat
  BY Iterating
<1>2. /\ todo[x] \in Seq(Nat) /\ x \in InRound(r0) /\ Heard(x) = InRound(r0)
      /\ iteration[x] # 0 /\ \A q \in Peers : round(q) >= r0 /\ round(q) + 1 >= r0
  BY <1>1, Iterating
<1>3. /\ Within(x) /\ pc'[x] = "collect" /\ todo'[x] = Tail(todo[x]) /\ iteration' = iteration
      /\ pc' \in [Peers -> PCs] /\ todo' \in [Peers -> Seq(Nat)]
      /\ iteration' \in [Peers -> 0 .. plan.iterations]
  BY DoneFacts DEF IInv
<1>4. round(x)' = r0 /\ (\A p : round(p)' = round(p)) /\ InEdges(x)' = InEdges(x)
  BY <1>1, <1>3, WithinFacts
<1>5. /\ \A r : InRound(r)' = InRound(r) /\ \A q : Mapped(q, r)' = Mapped(q, r)
      /\ \A r, u : HostedIn(r, u)' = HostedIn(r, u)
  BY PlanStays
<1>6. \E d \in Nat : Len(InEdges(x)) = d + Len(Tail(todo[x]))
                     /\ \A j \in DOMAIN Tail(todo[x]) : Tail(todo[x])[j] = InEdges(x)[d + j]
  <2>1. PICK d \in Nat :
          /\ Len(InEdges(x)) = d + Len(todo[x]) /\ Len(todo[x]) \in Nat
          /\ \A j \in 1 .. Len(todo[x]) : todo[x][j] = InEdges(x)[d + j]
    BY Collecting
  <2>2. PICK n \in Nat : /\ Len(todo[x]) = n + 1 /\ DOMAIN Tail(todo[x]) = 1 .. n /\ Len(Tail(todo[x])) = n
                         /\ \A j \in 1 .. n : Tail(todo[x])[j] = todo[x][j + 1]
    <3>1. /\ Len(todo[x]) \in Nat \ {0} /\ DOMAIN Tail(todo[x]) = 1 .. Len(todo[x]) - 1
          /\ Len(Tail(todo[x])) = Len(todo[x]) - 1
          /\ \A j \in 1 .. Len(todo[x]) - 1 : Tail(todo[x])[j] = todo[x][j + 1]
      BY <1>2, WorkFacts
    <3>2. PICK n \in Nat : n = Len(todo[x]) - 1 /\ Len(todo[x]) = n + 1
      <4>1. \A k \in Nat \ {0} : k - 1 \in Nat /\ k = (k - 1) + 1
        OBVIOUS
      <4>2. Len(todo[x]) \in Nat \ {0}
        BY <3>1
      <4> QED
        BY <4>1, <4>2, Zenon
    <3> QED
      BY <3>1, <3>2
  <2>3. ASSUME NEW j \in 1 .. n
        PROVE  Tail(todo[x])[j] = InEdges(x)[(d + 1) + j]
    <3>1. j + 1 \in 1 .. n + 1 /\ d + (j + 1) = (d + 1) + j
      OBVIOUS
    <3> QED
      BY <2>1, <2>2, <3>1
  <2>4. d + 1 \in Nat /\ Len(InEdges(x)) = (d + 1) + n
    BY <2>1, <2>2
  <2> QED
    BY <2>2, <2>3, <2>4
<1>7. Place(x)'
  BY <1>1, <1>2, <1>3, <1>4, <1>5, <1>6 DEF Place
<1>8. Heard(x)' = InRound(r0)
  BY <1>3, <1>4, <1>5 DEF Heard
<1>9. Knows(x)'
  BY <1>1, <1>2, <1>3, <1>4, <1>5, <1>8 DEF IInv, Knows
<1>10. \A t : SentAll(x, r0, t)' = SentAll(x, r0, t) /\ SentMost(x, r0, t)' = SentMost(x, r0, t)
  BY <1>1, <1>3, <1>4 DEF SentAll, SentMost
<1> QED
  BY <1>1, <1>3, <1>7, <1>9, <1>10

LEMMA CollectKeeps ==
  ASSUME IInv, NEW x \in Peers, Collect(x)
  PROVE  IInv'
<1>1. PICK r0 \in Nat : r0 = round(x) /\ r0 # 0 /\ r0 \in Rounds
  BY Iterating DEF Collect
<1>2. PICK i \in Nat : i = iteration[x] /\ i # 0
  BY Iterating DEF Collect
<1>3. PICK e : e = Head(todo[x])
  OBVIOUS
<1>4. /\ plan \in Plans /\ todo[x] \in Seq(Nat) /\ graph[x] = EdgesOf(r0) /\ x \in InRound(r0)
      /\ Heard(x) = InRound(r0) /\ Knows(x) /\ \A q \in Peers : round(q) >= r0 /\ round(q) + 1 >= r0
  BY <1>1, Iterating DEF Collect
<1>5. /\ e \in EdgeTags(r0) /\ e \in Tags /\ e \in Nat /\ Source(x, e) = From(r0, e)
      /\ From(r0, e) \in Nat
      /\ Range(todo[x]) = Range(Tail(todo[x])) \cup {e} /\ e \notin Range(Tail(todo[x]))
  <2>1. /\ e \in Range(todo[x]) /\ Range(todo[x]) \subseteq Range(InEdges(x)) /\ IsInjective(todo[x])
        /\ Range(InEdges(x)) \subseteq EdgeTags(r0)
    BY <1>1, <1>3, <1>4, WorkFacts, Collecting DEF Collect
  <2>2. e \in EdgeTags(r0)
    BY <2>1
  <2> QED
    BY <1>1, <1>3, <1>4, <2>1, <2>2, WorkFacts, EdgeFacts, GraphFacts DEF Collect
<1>6. PICK q0 : q0 = locateVertex(x, From(r0, e))
  OBVIOUS
<1>7. /\ pc[x] = "collect" /\ todo[x] # <<>> /\ ~plan.any
      /\ UNCHANGED <<plan, graph, hosted, iteration, nVertices, vertexMap, peerMap>>
      /\ \/ /\ q0 # None /\ Received(x, q0, e) /\ Done(x)
            /\ data' = [data EXCEPT ![x] = Append(@, Datum(e, Head(Arrived(x, q0, e)).body))]
         \/ /\ q0 = None /\ Goto(x, "thrown", <<>>)
            /\ UNCHANGED <<inBox, data>>
  BY <1>3, <1>5, <1>6 DEF Collect
<1>8. CASE q0 # None
  <2>1. q0 \in Peers
    BY <1>6, <1>8 DEF IInv, Types, locateVertex, Get
  <2>2. Received(x, q0, e) /\ Done(x)
        /\ data' = [data EXCEPT ![x] = Append(@, Datum(e, Head(Arrived(x, q0, e)).body))]
    BY <1>7, <1>8
  <2>3. /\ Within(x) /\ pc'[x] = "collect" /\ todo'[x] = Tail(todo[x]) /\ iteration' = iteration
        /\ pc' \in [Peers -> PCs] /\ todo' \in [Peers -> Seq(Nat)]
        /\ iteration' \in [Peers -> 0 .. plan.iterations]
        /\ Place(x)' /\ Knows(x)'
        /\ \A t : SentAll(x, r0, t)' = SentAll(x, r0, t) /\ SentMost(x, r0, t)' = SentMost(x, r0, t)
    BY <1>1, <1>7, <2>2, NextEdge
  <2>4. /\ DOMAIN inBox' = Peers
        /\ \A p \in Peers : \A k \in DOMAIN inBox'[p] :
             k \in (1 .. round(p)) \X Peers \X Tags /\ inBox'[p][k] \in Seq(Messages)
        /\ Box(x, r0, q0, e) = Arrived(x, q0, e) /\ Box(x, r0, q0, e) # <<>>
        /\ Get(inBox'[x], Key(r0, q0, e), <<>>) = Tail(Box(x, r0, q0, e))
        /\ \A p \in Peers : \A r, q, t : ~(p = x /\ r = r0 /\ q = q0 /\ t = e) =>
             Get(inBox'[p], Key(r, q, t), <<>>) = Box(p, r, q, t)
    BY <1>1, <1>5, <2>1, <2>2, ReceivedFacts DEF IInv
  <2>5. Types'
    <3>1. Head(Box(x, r0, q0, e)).body \in Nat \cup Seq(Nat)
      <4>1. Box(x, r0, q0, e) \in Seq(Messages)
        BY BoxTypes DEF IInv
      <4>2. Head(Box(x, r0, q0, e)) \in Messages
        BY <2>4, <4>1, WorkFacts
      <4> QED
        BY <4>2 DEF Messages
    <3>2. data' \in [Peers -> Seq([edge : Nat, value : Nat \cup Seq(Nat)])]
      <4>1. Datum(e, Head(Box(x, r0, q0, e)).body) \in [edge : Nat, value : Nat \cup Seq(Nat)]
        BY <1>5, <3>1 DEF Datum
      <4> QED
        BY <2>2, <2>4, <4>1 DEF IInv, Types
    <3> QED
      BY <1>7, <2>3, <2>4, <3>2, TypesStep DEF Types, IInv
  <2>6. \A q \in Peers, t \in Tags :
          /\ Got(x, q, t) = IF t \in Range(todo[x]) THEN 3 * i - 1 ELSE 3 * i
          /\ Got(x, q, t)' = IF t = e THEN 3 * i ELSE Got(x, q, t)
    BY <1>2, <1>5, <1>7, <2>3 DEF Got
  <2>7. ASSUME NEW q \in Peers, NEW t \in Tags, NEW all \in Int, NEW most \in Int, most <= all + 1,
               StreamOf(Box(x, r0, q, t), q, x, r0, t, Got(x, q, t), all, most)
        PROVE  StreamOf(Get(inBox'[x], Key(r0, q, t), <<>>), q, x, r0, t, Got(x, q, t)', all, most)
    <3>1. CASE q = q0 /\ t = e
      <4>1. StreamOf(Box(x, r0, q0, e), q0, x, r0, e, 3 * i - 1, all, most)
        BY <1>5, <2>6, <2>7, <3>1
      <4>2. StreamOf(Tail(Box(x, r0, q0, e)), q0, x, r0, e, 3 * i, all, most)
        BY <1>1, <1>2, <1>3, <1>6, <1>7, <2>1, <2>4, <2>7, <4>1, AlongEdge
      <4> QED
        BY <2>4, <2>6, <3>1, <4>2
    <3>2. CASE q # q0 /\ t = e
      <4>1. Got(x, q, t) = 3 * i - 1 /\ Got(x, q, t)' = 3 * i
        BY <1>5, <2>6, <3>2
      <4>2. ~Owes(q, x, r0, t, 3 * i)
        <5>1. SUFFICES ASSUME Owes(q, x, r0, t, 3 * i) PROVE FALSE
          OBVIOUS
        <5>2. HostedIn(r0, From(r0, e)) # {} /\ q = LastHost(r0, From(r0, e))
          <6>1. i \in Nat \ {0}
            BY <1>2
          <6> QED
            BY <1>4, <3>2, <5>1, <6>1, OwedRanks
        <5>3. q0 = LastHost(r0, From(r0, e))
          BY <1>1, <1>4, <1>5, <1>6, <1>7, <5>2, Located
        <5> QED
          BY <3>2, <5>2, <5>3
      <4>3. \A k \in Nat : Owes(q, x, r0, t, k) => /\ 3 * i - 1 < k => 3 * i < k
                                                   /\ k <= all => k <= all
        <5>1. \A k \in Nat : 3 * i - 1 < k /\ k # 3 * i => 3 * i < k
          OBVIOUS
        <5> QED
          BY <4>2, <5>1
      <4>4. 3 * i - 1 <= 3 * i /\ most <= most /\ 3 * i - 1 \in Int /\ 3 * i \in Int
        OBVIOUS
      <4>5. StreamOf(Box(x, r0, q, t), q, x, r0, t, 3 * i - 1, all, most)
        BY <2>7, <4>1
      <4>6. StreamOf(Box(x, r0, q, t), q, x, r0, t, 3 * i, all, most)
        BY <4>3, <4>4, <4>5, StreamShifts
      <4> QED
        BY <2>4, <3>2, <4>1, <4>6
    <3>3. CASE t # e
      BY <2>4, <2>6, <2>7, <3>3
    <3> QED
      BY <3>1, <3>2, <3>3
  <2>8. Streams'
    <3>1. pc[x] \notin Inactive /\ \A y \in Peers \ {x} : Stays(y)
      BY <1>7, <2>3 DEF Inactive, Within
    <3>2. \A p \in Peers \ {x}, q \in Peers, t \in Tags :
             Get(inBox'[p], Key(round(p), q, t), <<>>) = Box(p, round(p), q, t)
      BY <2>4
    <3> QED
      BY <1>1, <1>7, <2>3, <2>7, <3>1, <3>2, ReceivingStep DEF IInv
  <2> QED
    BY <1>7, <2>3, <2>5, <2>8, StepKeeps
<1>9. CASE q0 = None
  <2>1. /\ Within(x) /\ pc'[x] = "thrown" /\ todo'[x] = <<>> /\ iteration' = iteration
        /\ pc' \in [Peers -> PCs] /\ todo' \in [Peers -> Seq(Nat)]
        /\ iteration' \in [Peers -> 0 .. plan.iterations]
    <3>1. "thrown" \in PCs /\ <<>> \in Seq(Nat) /\ Goto(x, "thrown", <<>>)
      <4>1. Peers \cap {None} = {}
        BY PlansAssumption
      <4> QED
        BY <1>7, <1>9 DEF PCs
    <3> QED
      BY <1>7, <3>1, GotoFacts DEF IInv
  <2>2. inBox' = inBox /\ data' = data
    BY <1>7, <1>9
  <2>3. round(x)' = r0 /\ \A p : round(p)' = round(p)
    BY <1>1, <2>1, WithinFacts
  <2>4. Types'
    BY <1>7, <2>1, <2>2, TypesStep DEF Types, IInv
  <2>5. Place(x)' /\ Knows(x)'
    <3>1. InRound(r0)' = InRound(r0)
      BY <1>7, PlanStays
    <3> QED
      BY <1>1, <1>2, <1>4, <2>1, <2>3, <3>1 DEF Place, Knows
  <2>6. \A t : /\ SentAll(x, r0, t) = 3 * i /\ SentMost(x, r0, t) = 3 * i
               /\ SentAll(x, r0, t)' = 3 * i - 1 /\ SentMost(x, r0, t)' = 3 * i
    BY <1>1, <1>2, <1>7, <2>1, <2>3 DEF SentAll, SentMost
  <2>7. Streams'
    <3>1. ASSUME NEW p \in Peers, NEW t \in Tags, NEW got \in Int,
                 StreamOf(Box(p, r0, x, t), x, p, r0, t, got, 3 * i, 3 * i)
          PROVE  StreamOf(Box(p, r0, x, t), x, p, r0, t, got, 3 * i - 1, 3 * i)
      <4>1. \A k \in Nat : k <= 3 * i - 1 => k <= 3 * i
        OBVIOUS
      <4>2. 3 * i \in Int /\ 3 * i - 1 \in Int /\ got <= got /\ 3 * i <= 3 * i
        OBVIOUS
      <4> QED
        BY <3>1, <4>1, <4>2, StreamShifts
    <3>2. \A p, q : \A r, t : Get(inBox'[p], Key(r, q, t), <<>>) = Box(p, r, q, t)
      BY <2>2 DEF Box
    <3>3. pc'[x] \in Inactive /\ \A y \in Peers \ {x} : Stays(y)
      BY <2>1 DEF Inactive, Within
    <3>4. \A t \in Tags : SentAll(x, r0, t)' \in Int /\ SentMost(x, r0, t)' \in Int
      BY <2>6
    <3> QED
      BY <1>1, <1>7, <2>6, <3>1, <3>2, <3>3, <3>4, SendingStep DEF IInv
  <2> QED
    BY <1>7, <2>1, <2>4, <2>5, <2>7, StepKeeps
<1> QED
  BY <1>8, <1>9

LEMMA RecvAnyEdgeKeeps ==
  ASSUME IInv, NEW x \in Peers, RecvAnyEdge(x)
  PROVE  IInv'
<1>1. PICK r0 \in Nat : r0 = round(x) /\ r0 # 0 /\ r0 \in Rounds
  BY Iterating DEF RecvAnyEdge
<1>2. Members(r0) \subseteq Peers
  BY <1>1, Iterating DEF RecvAnyEdge
<1>3. PICK q0 \in Peers, t0 \in Tags :
        /\ Received(x, q0, t0)
        /\ data' = [data EXCEPT ![x] = Append(@, Datum(t0, Head(Arrived(x, q0, t0)).body))]
  BY <1>1, <1>2 DEF RecvAnyEdge
<1>4. /\ pc[x] = "collect" /\ todo[x] # <<>> /\ plan.any /\ Done(x)
      /\ UNCHANGED <<plan, graph, hosted, iteration, nVertices, vertexMap, peerMap>>
  BY DEF RecvAnyEdge
<1>5. /\ Within(x) /\ pc'[x] = "collect" /\ todo'[x] = Tail(todo[x]) /\ iteration' = iteration
      /\ pc' \in [Peers -> PCs] /\ todo' \in [Peers -> Seq(Nat)]
      /\ iteration' \in [Peers -> 0 .. plan.iterations]
      /\ Place(x)' /\ Knows(x)'
      /\ \A t : SentAll(x, r0, t)' = SentAll(x, r0, t) /\ SentMost(x, r0, t)' = SentMost(x, r0, t)
  BY <1>1, <1>4, NextEdge
<1>6. /\ DOMAIN inBox' = Peers
      /\ \A p \in Peers : \A k \in DOMAIN inBox'[p] :
           k \in (1 .. round(p)) \X Peers \X Tags /\ inBox'[p][k] \in Seq(Messages)
      /\ Box(x, r0, q0, t0) = Arrived(x, q0, t0) /\ Box(x, r0, q0, t0) # <<>>
      /\ Get(inBox'[x], Key(r0, q0, t0), <<>>) = Tail(Box(x, r0, q0, t0))
      /\ \A p \in Peers : \A r, q, t : ~(p = x /\ r = r0 /\ q = q0 /\ t = t0) =>
           Get(inBox'[p], Key(r, q, t), <<>>) = Box(p, r, q, t)
  BY <1>1, <1>3, ReceivedFacts DEF IInv
<1>7. Box(x, r0, q0, t0) \in Seq(Messages)
  BY BoxTypes DEF IInv
<1>8. Types'
  <2>1. Head(Box(x, r0, q0, t0)).body \in Nat \cup Seq(Nat)
    <3>1. Head(Box(x, r0, q0, t0)) \in Messages
      BY <1>6, <1>7, WorkFacts
    <3> QED
      BY <3>1 DEF Messages
  <2>2. data' \in [Peers -> Seq([edge : Nat, value : Nat \cup Seq(Nat)])]
    <3>1. Datum(t0, Head(Box(x, r0, q0, t0)).body) \in [edge : Nat, value : Nat \cup Seq(Nat)]
      BY <2>1 DEF Datum, Tags
    <3> QED
      BY <1>3, <1>6, <3>1 DEF IInv, Types
  <2> QED
    BY <1>4, <1>5, <1>6, <2>2, TypesStep DEF Types, IInv
<1>9. \A q, t : Got(x, q, t) = 2 /\ Got(x, q, t)' = 2
  BY <1>4, <1>5 DEF Got
<1>10. Streams'
  <2>1. ASSUME NEW q \in Peers, NEW t \in Tags, NEW all \in Int, NEW most \in Int,
               StreamOf(Box(x, r0, q, t), q, x, r0, t, 2, all, most)
        PROVE  StreamOf(Get(inBox'[x], Key(r0, q, t), <<>>), q, x, r0, t, 2, all, most)
    <3>1. CASE q = q0 /\ t = t0
      BY <1>4, <1>6, <1>7, <2>1, <3>1, StreamTail
    <3>2. CASE ~(q = q0 /\ t = t0)
      BY <1>6, <2>1, <3>2
    <3> QED
      BY <3>1, <3>2
  <2>2. pc[x] \notin Inactive /\ \A y \in Peers \ {x} : Stays(y)
    BY <1>4, <1>5 DEF Inactive, Within
  <2>3. \A p \in Peers \ {x}, q \in Peers, t \in Tags :
           Get(inBox'[p], Key(round(p), q, t), <<>>) = Box(p, round(p), q, t)
    BY <1>6
  <2>4. ASSUME NEW q \in Peers, NEW t \in Tags, NEW all \in Int, NEW most \in Int,
               StreamOf(Box(x, r0, q, t), q, x, r0, t, Got(x, q, t), all, most)
        PROVE  StreamOf(Get(inBox'[x], Key(r0, q, t), <<>>), q, x, r0, t, Got(x, q, t)', all, most)
    <3>1. Got(x, q, t) = 2 /\ Got(x, q, t)' = 2
      BY <1>9
    <3> QED
      BY <2>1, <2>4, <3>1
  <2> QED
    BY <1>1, <1>4, <1>5, <2>2, <2>3, <2>4, ReceivingStep DEF IInv
<1> QED
  BY <1>4, <1>5, <1>8, <1>10, StepKeeps

LEMMA StartGatherKeeps ==
  ASSUME IInv, NEW x \in Peers, StartGather(x)
  PROVE  IInv'
<1>1. PICK r0 \in Nat : r0 = round(x) /\ r0 # 0 /\ r0 \in Rounds
  BY Iterating DEF StartGather
<1>2. PICK i \in Nat : i = iteration[x] /\ i # 0 /\ i \in Iterations
  BY Iterating DEF StartGather
<1>3. /\ plan \in Plans /\ x \in InRound(r0) /\ x \in Nat /\ Heard(x) = InRound(r0)
      /\ \A q \in Peers : round(q) >= r0 /\ round(q) + 1 >= r0
  BY <1>1, Iterating, PlansAssumption DEF StartGather, Peers
<1>4. /\ graphContext(r0) \in Seq(Nat) /\ Range(graphContext(r0)) = InRound(r0) /\ Ascending(graphContext(r0))
  BY <1>1, <1>3, MembersFacts DEF IInv
<1> DEFINE m0 == Message("sizes", Value(r0, x, i))
<1>5. /\ pc[x] = "collect" /\ todo[x] = <<>> /\ plan.gather
      /\ Sent(x, ToAll(x, <<m0>>)) /\ Goto(x, "sizes", graphContext(r0))
      /\ UNCHANGED <<plan, graph, hosted, iteration, nVertices, vertexMap, peerMap, data>>
  BY <1>1, <1>2 DEF StartGather
<1>6. /\ Within(x) /\ pc'[x] = "sizes" /\ todo'[x] = graphContext(r0) /\ iteration' = iteration
      /\ pc' \in [Peers -> PCs] /\ todo' \in [Peers -> Seq(Nat)]
      /\ iteration' \in [Peers -> 0 .. plan.iterations]
  BY <1>4, <1>5, GotoFacts DEF IInv, PCs
<1>7. round(x)' = r0 /\ \A p : round(p)' = round(p)
  BY <1>1, <1>6, WithinFacts
<1>8. m0 \in Messages /\ RankOf(m0) = 3 * i + 1
  BY <1>3, MessageFacts
<1>9. \A p : p \in InRound(r0) => Right(x, p, r0, 0, m0)
  BY <1>2, <1>3, <1>5 DEF Right
<1> HIDE DEF m0
<1>10. PICK u \in Seq(Messages) : Sent(x, ToAll(x, u)) /\ Range(u) = {m0} /\ Ascends(u)
  <2>1. PICK u \in Seq(Messages) : u = <<m0>> /\ Range(u) = {m0} /\ Ascends(u)
    BY <1>8, OneMessage
  <2>2. Sent(x, ToAll(x, u))
    BY <1>5, <2>1
  <2> QED
    BY <2>1, <2>2
<1>11. /\ DOMAIN inBox' = Peers
       /\ \A p \in Peers : \A k \in DOMAIN inBox'[p] :
            k \in (1 .. round(p)) \X Peers \X Tags /\ inBox'[p][k] \in Seq(Messages)
       /\ \A p \in Peers : \A r, q, t :
            Get(inBox'[p], Key(r, q, t), <<>>) =
              IF r = r0 /\ q = x /\ p \in InRound(r0) /\ t = 0
              THEN Box(p, r, q, t) \o u ELSE Box(p, r, q, t)
  <2>1. Types /\ r0 \in Rounds /\ r0 = round(x) /\ r0 # 0 /\ \A q \in Peers : round(q) >= r0
    BY <1>1, <1>3 DEF IInv
  <2>2. u \in Seq(Messages) /\ Sent(x, ToAll(x, u))
    BY <1>10
  <2> QED
    BY <2>1, <2>2, SentToAll, Zenon
<1>12. Types'
  BY <1>5, <1>6, <1>11, TypesStep DEF Types, IInv
<1>13. /\ \A r : InRound(r)' = InRound(r) /\ \A q : Mapped(q, r)' = Mapped(q, r)
       /\ \A r, u2 : HostedIn(r, u2)' = HostedIn(r, u2)
  BY <1>5, PlanStays
<1>14. Place(x)' /\ Knows(x)'
  <2>1. Place(x)'
    BY <1>1, <1>2, <1>3, <1>4, <1>5, <1>6, <1>7, <1>13 DEF Place
  <2>2. Heard(x)' = InRound(r0)
    BY <1>6, <1>7, <1>13 DEF Heard
  <2>3. Knows(x)'
    BY <1>1, <1>3, <1>5, <1>6, <1>7, <1>13, <2>2 DEF IInv, Knows
  <2> QED
    BY <2>1, <2>3
<1>15. \A t : /\ SentAll(x, r0, t) = 3 * i /\ SentMost(x, r0, t) = 3 * i
              /\ SentAll(x, r0, t)' = 3 * i + 1 /\ SentMost(x, r0, t)' = 3 * i + 1
  BY <1>1, <1>2, <1>5, <1>6, <1>7 DEF SentAll, SentMost
\* A size is owed only among the members.
<1>16. \A q, p, t : Owes(q, p, r0, t, 3 * i + 1) => t = 0 /\ p \in InRound(r0) /\ q \in InRound(r0)
  <2>1. i \in Nat \ {0}
    BY <1>2
  <2> QED
    BY <1>3, <2>1, OwedRanks
<1>17. \A k \in Nat : k <= 3 * i + 1 => k <= 3 * i \/ k = 3 * i + 1
  OBVIOUS
<1>18. Streams'
  <2>1. ASSUME NEW p \in Peers, NEW t \in Tags, NEW got \in Int,
               StreamOf(Box(p, r0, x, t), x, p, r0, t, got, 3 * i, 3 * i)
        PROVE  StreamOf(Get(inBox'[p], Key(r0, x, t), <<>>), x, p, r0, t, got, 3 * i + 1, 3 * i + 1)
    <3>1. 3 * i \in Int /\ 3 * i + 1 \in Int /\ 3 * i <= 3 * i + 1 /\ got <= got
      OBVIOUS
    <3>2. CASE p \in InRound(r0) /\ t = 0
      <4>1. \A m \in Range(u) : /\ Right(x, p, r0, t, m) /\ RankOf(m) \in 1 .. 3 * i + 1
                                /\ 3 * i < RankOf(m)
        BY <1>8, <1>9, <1>10, <3>2
      <4>2. \A k \in Nat : Owes(x, p, r0, t, k) /\ k <= 3 * i + 1 =>
              k <= 3 * i \/ \E m \in Range(u) : RankOf(m) = k
        BY <1>8, <1>10, <1>17
      <4>3. Box(p, r0, x, t) \in Seq(Messages)
        BY BoxTypes DEF IInv
      <4>4. StreamOf(Box(p, r0, x, t) \o u, x, p, r0, t, got, 3 * i + 1, 3 * i + 1)
        BY <1>10, <2>1, <3>1, <4>1, <4>2, <4>3, StreamJoins
      <4> QED
        BY <1>11, <3>2, <4>4
    <3>3. CASE ~(p \in InRound(r0) /\ t = 0)
      <4>1. \A k \in Nat : Owes(x, p, r0, t, k) => /\ got < k => got < k
                                                   /\ k <= 3 * i + 1 => k <= 3 * i
        BY <1>16, <1>17, <3>3
      <4>2. StreamOf(Box(p, r0, x, t), x, p, r0, t, got, 3 * i + 1, 3 * i + 1)
        BY <2>1, <3>1, <4>1, StreamShifts
      <4> QED
        BY <1>11, <3>3, <4>2
    <3> QED
      BY <3>2, <3>3
  <2>2. \A p, q \in Peers, t \in Tags : q # x \/ round(p) # r0 =>
          Get(inBox'[p], Key(round(p), q, t), <<>>) = Box(p, round(p), q, t)
    <3> TAKE p, q \in Peers, t \in Tags
    <3> QED
      BY <1>11
  <2>3. ASSUME NEW q \in Peers, NEW t \in Tags
        PROVE  /\ Got(x, q, t)' \in Int /\ Got(x, q, t) <= Got(x, q, t)'
               /\ \A k \in Nat : Owes(q, x, r0, t, k) /\ Got(x, q, t) < k => Got(x, q, t)' < k
    <3>1. ~plan.any
      BY <1>3, <1>5, PlanFacts
    <3>2. t \notin Range(todo[x])
      BY <1>5 DEF Range
    <3>3. /\ Got(x, q, t) = 3 * i
          /\ Got(x, q, t)' = IF q \in InRound(r0) THEN 3 * i ELSE 3 * i + 1
      BY <1>2, <1>4, <1>5, <1>6, <3>1, <3>2 DEF Got
    <3>4. CASE q \in InRound(r0)
      BY <3>3, <3>4
    <3>5. CASE q \notin InRound(r0)
      <4>1. Got(x, q, t)' = 3 * i + 1 /\ ~Owes(q, x, r0, t, 3 * i + 1)
        BY <1>16, <3>3, <3>5
      <4>2. \A k \in Nat : 3 * i < k => k = 3 * i + 1 \/ 3 * i + 1 < k
        OBVIOUS
      <4> QED
        BY <3>3, <4>1, <4>2
    <3> QED
      BY <3>4, <3>5
  <2>4. pc[x] \notin Inactive /\ \A y \in Peers \ {x} : Stays(y)
    BY <1>5, <1>6 DEF Inactive, Within
  <2>5. \A t \in Tags : SentAll(x, r0, t)' \in Int /\ SentMost(x, r0, t)' \in Int
    BY <1>15
  <2> QED
    BY <1>1, <1>5, <1>15, <2>1, <2>2, <2>3, <2>4, <2>5, SendingStep DEF IInv
<1> QED
  BY <1>5, <1>6, <1>12, <1>14, <1>18, StepKeeps

\* A peer in a gather gets what the others contribute to the gather of this
\* iteration.
LEMMA Gathering ==
  ASSUME IInv, NEW p \in Peers, pc[p] \in {"sizes", "gather"}, todo[p] # <<>>,
         NEW q, q = Head(todo[p]), NEW r, r = round(p), NEW i, i = iteration[p],
         NEW s, s = Box(p, r, q, 0), s # <<>>,
         NEW all \in Int, NEW most \in Int, most <= all + 1,
         NEW got, got = Got(p, q, 0), StreamOf(s, q, p, r, 0, got, all, most)
  PROVE  /\ q \in Peers /\ q \in InRound(r)
         /\ got = IF pc[p] = "sizes" THEN 3 * i ELSE 3 * i + 1
         /\ Head(s) = Message(pc[p], Value(r, q, i))
         /\ StreamOf(Tail(s), q, p, r, 0, got + 1, all, most)
<1>1. /\ plan \in Plans /\ r \in Rounds /\ p \in InRound(r) /\ todo[p] \in Seq(Nat)
      /\ i \in Nat /\ i # 0 /\ i \in Iterations
  BY Iterating
<1>2. q \in Range(todo[p])
  BY <1>1, WorkFacts
<1>3. q \in InRound(r) /\ q \in Peers
  BY <1>2 DEF IInv, Place, InRound
<1>4. got = IF pc[p] = "sizes" THEN 3 * i ELSE 3 * i + 1
  BY <1>2 DEF Got
<1>5. plan.gather /\ ~plan.any /\ (pc[p] = "gather" => p = LastHost(r, 0))
  <2>1. plan.gather /\ (pc[p] = "gather" => p = LastHost(r, 0))
    BY DEF IInv, Place
  <2> QED
    BY <1>1, <2>1, PlanFacts
<1>6. Owes(q, p, r, 0, got + 1)
  BY <1>1, <1>3, <1>4, <1>5 DEF Owes
<1>7. \A m \in Range(s) : Owes(q, p, r, 0, RankOf(m))
  BY <1>1, <1>5, RightIsOwed DEF StreamOf
<1>8. s \in Seq(Messages) /\ got \in Nat
  <2>1. s \in Seq(Messages)
    BY BoxTypes DEF IInv
  <2> QED
    BY <1>1, <1>4, <2>1
<1>9. /\ RankOf(Head(s)) = got + 1 /\ Right(q, p, r, 0, Head(s))
      /\ StreamOf(Tail(s), q, p, r, 0, got + 1, all, most)
  BY <1>5, <1>6, <1>7, <1>8, StreamHead
<1>10. /\ RankOf(Head(s)) = 3 * i + 1 => Head(s) = Message("sizes", Value(r, q, i))
       /\ RankOf(Head(s)) = 3 * i + 2 => Head(s) = Message("gather", Value(r, q, i))
  BY <1>1, <1>9, RightRank
<1>11. /\ pc[p] = "sizes" => RankOf(Head(s)) = 3 * i + 1
       /\ pc[p] = "gather" => RankOf(Head(s)) = 3 * i + 2
  <2>1. RankOf(Head(s)) = got + 1
    BY <1>9
  <2>2. CASE pc[p] = "sizes"
    BY <1>4, <2>1, <2>2
  <2>3. CASE pc[p] = "gather"
    <3>1. got = 3 * i + 1 /\ (3 * i + 1) + 1 = 3 * i + 2
      BY <1>1, <1>4, <2>3
    <3> QED
      BY <2>1, <2>3, <3>1
  <2> QED
    BY <2>2, <2>3
<1> QED
  BY <1>3, <1>4, <1>9, <1>10, <1>11

LEMMA RecvGatheredKeeps ==
  ASSUME IInv, NEW x \in Peers, RecvGathered(x)
  PROVE  IInv'
<1>1. PICK r0 \in Nat : r0 = round(x) /\ r0 # 0 /\ r0 \in Rounds
  BY Iterating DEF RecvGathered
<1>2. PICK i \in Nat : i = iteration[x] /\ i # 0 /\ i \in Iterations
  BY Iterating DEF RecvGathered
<1>3. /\ plan \in Plans /\ x \in InRound(r0) /\ Heard(x) = InRound(r0) /\ todo[x] \in Seq(Nat)
      /\ \A q \in Peers : round(q) >= r0 /\ round(q) + 1 >= r0
  BY <1>1, Iterating DEF RecvGathered
<1>4. PICK q0 : q0 = Head(todo[x])
  OBVIOUS
<1>5. /\ pc[x] \in {"sizes", "gather"} /\ todo[x] # <<>> /\ Received(x, q0, 0) /\ Done(x)
      /\ UNCHANGED <<plan, graph, hosted, iteration, nVertices, vertexMap, peerMap, data>>
  BY <1>4 DEF RecvGathered
<1>6. PICK base \in Nat : base = IF pc[x] = "sizes" THEN 3 * i ELSE 3 * i + 1
  OBVIOUS
<1>7. /\ Within(x) /\ pc'[x] = pc[x] /\ todo'[x] = Tail(todo[x]) /\ iteration' = iteration
      /\ pc' \in [Peers -> PCs] /\ todo' \in [Peers -> Seq(Nat)]
      /\ iteration' \in [Peers -> 0 .. plan.iterations]
  BY <1>5, DoneFacts DEF IInv
<1>8. round(x)' = r0 /\ \A p : round(p)' = round(p)
  BY <1>1, <1>7, WithinFacts
<1>9. Range(todo[x]) \subseteq InRound(r0) /\ Ascending(todo[x]) /\ plan.gather
  BY <1>1, <1>5 DEF IInv, Place
<1>10. /\ q0 \in Range(todo[x]) /\ q0 \notin Range(todo'[x])
       /\ Range(todo[x]) = Range(todo'[x]) \cup {q0} /\ Ascending(todo'[x])
  <2>1. /\ q0 \in Range(todo[x]) /\ q0 \in Nat /\ Range(todo[x]) = Range(todo'[x]) \cup {q0}
        /\ Ascending(todo'[x]) /\ \A y \in Range(todo'[x]) : q0 < y
    <3>1. PICK w \in Seq(Nat) : w = todo[x] /\ w # <<>> /\ q0 = Head(w) /\ todo'[x] = Tail(w) /\ Ascending(w)
      BY <1>3, <1>4, <1>5, <1>7, <1>9
    <3>2. /\ Head(w) \in Range(w) /\ Head(w) \in Nat /\ Range(w) = Range(Tail(w)) \cup {Head(w)}
          /\ Ascending(Tail(w)) /\ \A y \in Range(Tail(w)) : Head(w) < y
      BY <3>1, WorkFacts
    <3> QED
      BY <3>1, <3>2
  <2> QED
    BY <2>1
<1>11. q0 \in InRound(r0) /\ q0 \in Peers
  BY <1>9, <1>10 DEF InRound
<1>12. /\ DOMAIN inBox' = Peers
       /\ \A p \in Peers : \A k \in DOMAIN inBox'[p] :
            k \in (1 .. round(p)) \X Peers \X Tags /\ inBox'[p][k] \in Seq(Messages)
       /\ Box(x, r0, q0, 0) # <<>>
       /\ Get(inBox'[x], Key(r0, q0, 0), <<>>) = Tail(Box(x, r0, q0, 0))
       /\ \A p \in Peers : \A r, q, t : ~(p = x /\ r = r0 /\ q = q0 /\ t = 0) =>
            Get(inBox'[p], Key(r, q, t), <<>>) = Box(p, r, q, t)
  <2>1. 0 \in Tags
    BY DEF Tags
  <2> QED
    BY <1>1, <1>5, <1>11, <2>1, ReceivedFacts DEF IInv
<1>13. Types'
  BY <1>5, <1>7, <1>12, TypesStep DEF Types, IInv
<1>14. /\ \A r : InRound(r)' = InRound(r) /\ \A q : Mapped(q, r)' = Mapped(q, r)
       /\ \A r, u : HostedIn(r, u)' = HostedIn(r, u) /\ LastHost(r, u)' = LastHost(r, u)
  BY <1>5, PlanStays
<1>15. Place(x)' /\ Knows(x)'
  <2>1. pc[x] = "gather" => x = LastHost(r0, 0)
    BY <1>1, <1>5 DEF IInv, Place
  <2>2. Place(x)'
    BY <1>1, <1>2, <1>3, <1>5, <1>7, <1>8, <1>9, <1>10, <1>14, <2>1 DEF Place
  <2>3. Heard(x)' = InRound(r0)
    BY <1>5, <1>7, <1>8, <1>14 DEF Heard
  <2>4. Knows(x)'
    BY <1>1, <1>3, <1>5, <1>7, <1>8, <1>14, <2>3 DEF IInv, Knows
  <2> QED
    BY <2>2, <2>4
<1>16. \A t : SentAll(x, r0, t)' = SentAll(x, r0, t) /\ SentMost(x, r0, t)' = SentMost(x, r0, t)
  <2>1. Last' = Last
    BY <1>5, PlanStays
  <2> QED
    BY <1>1, <1>5, <1>7, <1>8, <2>1 DEF SentAll, SentMost
<1>17. \A q, t : /\ Got(x, q, t) = IF q \in Range(todo[x]) THEN base ELSE base + 1
                 /\ Got(x, q, t)' = IF q \in Range(todo'[x]) THEN base ELSE base + 1
  BY <1>2, <1>5, <1>6, <1>7 DEF Got
\* What is owed next has tag 0.
<1>18. \A q, t : Owes(q, x, r0, t, base + 1) => t = 0
  <2>1. i \in Nat \ {0}
    BY <1>2
  <2>2. PICK k : k = base + 1 /\ (k = 3 * i + 1 \/ k = 3 * i + 2)
    BY <1>6
  <2>3. ASSUME NEW q, NEW t, Owes(q, x, r0, t, k)
        PROVE  t = 0
    <3>1. \A j \in Nat \ {0} : (k = 3 * j + 1 => t = 0) /\ (k = 3 * j + 2 => t = 0)
      BY <1>3, <2>3, OwedRanks
    <3> QED
      BY <2>1, <2>2, <3>1
  <2> QED
    BY <2>2, <2>3
<1>19. Streams'
  <2>1. ASSUME NEW q \in Peers, NEW t \in Tags, NEW all \in Int, NEW most \in Int, most <= all + 1,
               StreamOf(Box(x, r0, q, t), q, x, r0, t, Got(x, q, t), all, most)
        PROVE  StreamOf(Get(inBox'[x], Key(r0, q, t), <<>>), q, x, r0, t, Got(x, q, t)', all, most)
    <3>1. CASE q = q0 /\ t = 0
      <4>1. StreamOf(Tail(Box(x, r0, q0, 0)), q0, x, r0, 0, Got(x, q0, 0) + 1, all, most)
        BY <1>1, <1>4, <1>5, <1>12, <2>1, <3>1, Gathering
      <4>2. Got(x, q0, 0) + 1 = base + 1 /\ Got(x, q, t)' = base + 1
        BY <1>10, <1>17, <3>1
      <4> QED
        BY <1>12, <3>1, <4>1, <4>2
    <3>2. CASE q = q0 /\ t # 0
      <4>1. Got(x, q, t) = base /\ Got(x, q, t)' = base + 1
        BY <1>10, <1>17, <3>2
      <4>2. \A k \in Nat : Owes(q, x, r0, t, k) => /\ base < k => base + 1 < k
                                                   /\ k <= all => k <= all
        <5>1. \A k \in Nat : Owes(q, x, r0, t, k) => k # base + 1
          BY <1>18, <3>2
        <5> QED
          BY <5>1
      <4>3. StreamOf(Box(x, r0, q, t), q, x, r0, t, base + 1, all, most)
        BY <2>1, <4>1, <4>2, StreamShifts
      <4> QED
        BY <1>12, <3>2, <4>1, <4>3
    <3>3. CASE q # q0
      <4>1. Got(x, q, t)' = Got(x, q, t)
        BY <1>10, <1>17, <3>3
      <4> QED
        BY <1>12, <2>1, <3>3, <4>1
    <3> QED
      BY <3>1, <3>2, <3>3
  <2>2. pc[x] \notin Inactive /\ \A y \in Peers \ {x} : Stays(y)
    BY <1>5, <1>7 DEF Inactive, Within
  <2>3. \A p \in Peers \ {x}, q \in Peers, t \in Tags :
           Get(inBox'[p], Key(round(p), q, t), <<>>) = Box(p, round(p), q, t)
    BY <1>12
  <2> QED
    BY <1>1, <1>5, <1>16, <2>1, <2>2, <2>3, ReceivingStep DEF IInv
<1> QED
  BY <1>5, <1>7, <1>13, <1>15, <1>19, StepKeeps

\* The vertex whose host is the root of a gather is one of the graph.
LEMMA RootFacts ==
  ASSUME IInv, NEW x \in Peers, pc[x] = "sizes", NEW r, r = round(x)
  PROVE  /\ locateVertex(x, 0) = LastHost(r, 0) /\ HostedIn(r, 0) = {LastHost(r, 0)}
         /\ LastHost(r, 0) \in Peers /\ LastHost(r, 0) \in InRound(r)
<1>1. /\ plan \in Plans /\ r \in Rounds /\ x \in InRound(r) /\ Knows(x) /\ Heard(x) = InRound(r)
      /\ plan.gather
  BY Iterating DEF IInv, Place
<1>2. 0 \in VertexSet(r)
  <2>1. Mapped(x, r) \in Seq(VertexSet(r)) /\ Mapped(x, r) # <<>> /\ VertexCount(Pattern(r)) \in Nat
    BY <1>1, MappedFacts, PlanFacts DEF InRound
  <2>2. VertexSet(r) # {}
    BY <2>1, WorkFacts
  <2> QED
    BY <2>1, <2>2 DEF VertexSet
<1>3. HostedIn(r, 0) = {LastHost(r, 0)} /\ LastHost(r, 0) \in Peers
  BY <1>1, <1>2, OneHost
<1>4. HostedIn(r, 0) # {}
  BY <1>3
<1>5. /\ locateVertex(x, 0) = LastHost(r, 0) /\ locateVertex(x, 0) \in InRound(r)
  BY <1>1, <1>4, Located
<1> QED
  BY <1>3, <1>5

LEMMA SendToRootKeeps ==
  ASSUME IInv, NEW x \in Peers, SendToRoot(x)
  PROVE  IInv'
<1>1. PICK r0 \in Nat : r0 = round(x) /\ r0 # 0 /\ r0 \in Rounds
  BY Iterating DEF SendToRoot
<1>2. PICK i \in Nat : i = iteration[x] /\ i # 0 /\ i \in Iterations
  BY Iterating DEF SendToRoot
<1>3. /\ plan \in Plans /\ x \in InRound(r0) /\ x \in Nat /\ Heard(x) = InRound(r0)
      /\ \A q \in Peers : round(q) >= r0 /\ round(q) + 1 >= r0
  BY <1>1, Iterating, PlansAssumption DEF SendToRoot, Peers
<1>4. /\ graphContext(r0) \in Seq(Nat) /\ Range(graphContext(r0)) = InRound(r0) /\ Ascending(graphContext(r0))
  BY <1>1, <1>3, MembersFacts DEF IInv
<1>5. PICK root \in Peers : root = LastHost(r0, 0) /\ root = locateVertex(x, 0) /\ root \in InRound(r0)
  BY <1>1, RootFacts DEF SendToRoot
<1>6. PICK work \in Seq(Nat) : /\ work = IF root = x THEN graphContext(r0) ELSE <<>>
                               /\ Range(work) = IF root = x THEN InRound(r0) ELSE {}
                               /\ Ascending(work)
  <2>1. <<>> \in Seq(Nat) /\ Range(<<>>) = {} /\ Ascending(<<>>)
    BY DEF Range, Ascending
  <2> QED
    BY <1>4, <2>1
<1> DEFINE m0 == Message("gather", Value(r0, x, i))
<1>7. /\ pc[x] = "sizes" /\ todo[x] = <<>> /\ plan.gather
      /\ Sent(x, [d \in {<<root, 0>>} |-> <<m0>>]) /\ Goto(x, "gather", work)
      /\ UNCHANGED <<plan, graph, hosted, iteration, nVertices, vertexMap, peerMap, data>>
  <2>1. pc[x] = "sizes" /\ plan.gather
    BY DEF SendToRoot, IInv, Place
  <2> QED
    BY <1>1, <1>2, <1>5, <1>6, <2>1 DEF SendToRoot
<1>8. /\ Within(x) /\ pc'[x] = "gather" /\ todo'[x] = work /\ iteration' = iteration
      /\ pc' \in [Peers -> PCs] /\ todo' \in [Peers -> Seq(Nat)]
      /\ iteration' \in [Peers -> 0 .. plan.iterations]
  BY <1>6, <1>7, GotoFacts DEF IInv, PCs
<1>9. round(x)' = r0 /\ \A p : round(p)' = round(p)
  BY <1>1, <1>8, WithinFacts
<1>10. m0 \in Messages /\ RankOf(m0) = 3 * i + 2
  BY <1>3, MessageFacts
<1>11. Right(x, root, r0, 0, m0)
  BY <1>2, <1>3, <1>5, <1>7 DEF Right
<1> HIDE DEF m0
<1>12. PICK u \in Seq(Messages) : u = <<m0>> /\ Range(u) = {m0} /\ Ascends(u)
  BY <1>10, OneMessage
<1>13. /\ DOMAIN inBox' = Peers
       /\ \A p \in Peers : \A k \in DOMAIN inBox'[p] :
            k \in (1 .. round(p)) \X Peers \X Tags /\ inBox'[p][k] \in Seq(Messages)
       /\ \A p \in Peers : \A r, q, t :
            Get(inBox'[p], Key(r, q, t), <<>>) =
              IF r = r0 /\ q = x /\ p = root /\ t = 0
              THEN Box(p, r, q, t) \o u ELSE Box(p, r, q, t)
  <2>1. PICK D : /\ D = {<<root, 0>>} /\ (\A d \in D : d \in Peers \X Tags)
                 /\ \A p, t : <<p, t>> \in D <=> p = root /\ t = 0
    <3>1. PICK d0 : d0 = <<root, 0>>
      OBVIOUS
    <3>2. d0 \in Peers \X Tags /\ \A p, t : <<p, t>> = d0 <=> p = root /\ t = 0
      BY <1>5, <3>1 DEF Tags
    <3>3. (\A d \in {d0} : d \in Peers \X Tags) /\ \A p, t : <<p, t>> \in {d0} <=> p = root /\ t = 0
      BY <3>2
    <3> QED
      BY <3>1, <3>3
  <2>2. PICK messages : messages = [d \in D |-> u]
    OBVIOUS
  <2>3. /\ Sent(x, messages) /\ DOMAIN messages = D
        /\ \A d \in D : d \in Peers \X Tags /\ messages[d] = u
    BY <1>7, <1>12, <2>1, <2>2
  <2>4. /\ DOMAIN inBox' = Peers
        /\ \A p \in Peers : \A k \in DOMAIN inBox'[p] :
             k \in (1 .. round(p)) \X Peers \X Tags /\ inBox'[p][k] \in Seq(Messages)
        /\ \A p \in Peers : \A r, q, t :
             Get(inBox'[p], Key(r, q, t), <<>>) =
               IF r = r0 /\ q = x /\ <<p, t>> \in D THEN Box(p, r, q, t) \o u ELSE Box(p, r, q, t)
    <3>1. Types /\ round(x) # 0 /\ \A q \in Peers : round(q) >= round(x)
      BY <1>1, <1>3 DEF IInv
    <3>2. u \in Seq(Messages)
      OBVIOUS
    <3> QED
      BY <1>1, <2>3, <3>1, <3>2, SentAlike
  <2> QED
    BY <2>1, <2>4
<1>14. Types'
  BY <1>7, <1>8, <1>13, TypesStep DEF Types, IInv
<1>15. /\ \A r : InRound(r)' = InRound(r) /\ \A q : Mapped(q, r)' = Mapped(q, r)
       /\ \A r, v : HostedIn(r, v)' = HostedIn(r, v) /\ LastHost(r, v)' = LastHost(r, v)
  BY <1>7, PlanStays
<1>16. Place(x)' /\ Knows(x)'
  <2>1. Place(x)'
    BY <1>1, <1>2, <1>3, <1>5, <1>6, <1>7, <1>8, <1>9, <1>15 DEF Place
  <2>2. Heard(x)' = InRound(r0)
    BY <1>8, <1>9, <1>15 DEF Heard
  <2>3. Knows(x)'
    BY <1>1, <1>3, <1>7, <1>8, <1>9, <1>15, <2>2 DEF IInv, Knows
  <2> QED
    BY <2>1, <2>3
<1>17. \A t : /\ SentAll(x, r0, t) = 3 * i + 1 /\ SentMost(x, r0, t) = 3 * i + 1
              /\ SentAll(x, r0, t)' = 3 * i + 2 /\ SentMost(x, r0, t)' = 3 * i + 2
  BY <1>1, <1>2, <1>7, <1>8, <1>9 DEF SentAll, SentMost
\* A contribution is owed to the root only.
<1>18. \A q, p, t : Owes(q, p, r0, t, 3 * i + 2) => t = 0 /\ p = root /\ q \in InRound(r0)
  <2>1. i \in Nat \ {0}
    BY <1>2
  <2> QED
    BY <1>3, <1>5, <2>1, OwedRanks
<1>19. \A k \in Nat : k <= 3 * i + 2 => k <= 3 * i + 1 \/ k = 3 * i + 2
  OBVIOUS
<1>20. Streams'
  <2>1. ASSUME NEW p \in Peers, NEW t \in Tags, NEW got \in Int,
               StreamOf(Box(p, r0, x, t), x, p, r0, t, got, 3 * i + 1, 3 * i + 1)
        PROVE  StreamOf(Get(inBox'[p], Key(r0, x, t), <<>>), x, p, r0, t, got, 3 * i + 2, 3 * i + 2)
    <3>1. 3 * i + 1 \in Int /\ 3 * i + 2 \in Int /\ 3 * i + 1 <= 3 * i + 2 /\ got <= got
      OBVIOUS
    <3>2. CASE p = root /\ t = 0
      <4>1. \A m \in Range(u) : /\ Right(x, p, r0, t, m) /\ RankOf(m) \in 1 .. 3 * i + 2
                                /\ 3 * i + 1 < RankOf(m)
        BY <1>10, <1>11, <1>12, <3>2
      <4>2. \A k \in Nat : Owes(x, p, r0, t, k) /\ k <= 3 * i + 2 =>
              k <= 3 * i + 1 \/ \E m \in Range(u) : RankOf(m) = k
        BY <1>10, <1>12, <1>19
      <4>3. Box(p, r0, x, t) \in Seq(Messages)
        BY BoxTypes DEF IInv
      <4>4. StreamOf(Box(p, r0, x, t) \o u, x, p, r0, t, got, 3 * i + 2, 3 * i + 2)
        BY <1>12, <2>1, <3>1, <4>1, <4>2, <4>3, StreamJoins
      <4> QED
        BY <1>13, <3>2, <4>4
    <3>3. CASE ~(p = root /\ t = 0)
      <4>1. \A k \in Nat : Owes(x, p, r0, t, k) => /\ got < k => got < k
                                                   /\ k <= 3 * i + 2 => k <= 3 * i + 1
        <5>1. ~Owes(x, p, r0, t, 3 * i + 2)
          BY <1>18, <1>19, <3>3
        <5>2. \A k \in Nat : k <= 3 * i + 2 => k <= 3 * i + 1 \/ k = 3 * i + 2
          OBVIOUS
        <5> QED
          BY <5>1, <5>2
      <4>2. StreamOf(Box(p, r0, x, t), x, p, r0, t, got, 3 * i + 2, 3 * i + 2)
        BY <2>1, <3>1, <4>1, StreamShifts
      <4> QED
        BY <1>13, <3>3, <4>2
    <3> QED
      BY <3>2, <3>3
  <2>2. \A p, q \in Peers, t \in Tags : q # x \/ round(p) # r0 =>
          Get(inBox'[p], Key(round(p), q, t), <<>>) = Box(p, round(p), q, t)
    <3> TAKE p, q \in Peers, t \in Tags
    <3> QED
      BY <1>13
  <2>3. ASSUME NEW q \in Peers, NEW t \in Tags
        PROVE  /\ Got(x, q, t)' \in Int /\ Got(x, q, t) <= Got(x, q, t)'
               /\ \A k \in Nat : Owes(q, x, r0, t, k) /\ Got(x, q, t) < k => Got(x, q, t)' < k
    <3>1. q \notin Range(todo[x])
      BY <1>7 DEF Range
    <3>2. /\ Got(x, q, t) = 3 * i + 1
          /\ Got(x, q, t)' = IF root = x /\ q \in InRound(r0) THEN 3 * i + 1 ELSE 3 * i + 2
      BY <1>2, <1>6, <1>7, <1>8, <3>1 DEF Got
    <3>3. CASE root = x /\ q \in InRound(r0)
      BY <3>2, <3>3
    <3>4. CASE ~(root = x /\ q \in InRound(r0))
      <4>1. Got(x, q, t)' = 3 * i + 2 /\ ~Owes(q, x, r0, t, 3 * i + 2)
        BY <1>18, <3>2, <3>4
      <4>2. \A k \in Nat : 3 * i + 1 < k => k = 3 * i + 2 \/ 3 * i + 2 < k
        OBVIOUS
      <4> QED
        BY <3>2, <4>1, <4>2
    <3> QED
      BY <3>3, <3>4
  <2>4. pc[x] \notin Inactive /\ \A y \in Peers \ {x} : Stays(y)
    BY <1>7, <1>8 DEF Inactive, Within
  <2>5. \A t \in Tags : SentAll(x, r0, t)' \in Int /\ SentMost(x, r0, t)' \in Int
    BY <1>17
  <2>6. \A p \in Peers, t \in Tags, got \in Int :
          /\ pc[p] \notin Inactive /\ round(p) = r0
          /\ StreamOf(Box(p, r0, x, t), x, p, r0, t, got, SentAll(x, r0, t), SentMost(x, r0, t))
          => StreamOf(Get(inBox'[p], Key(r0, x, t), <<>>), x, p, r0, t, got,
                      SentAll(x, r0, t)', SentMost(x, r0, t)')
    BY <1>17, <2>1
  <2>7. plan' = plan /\ hosted' = hosted /\ r0 = round(x) /\ Types /\ Streams
    BY <1>1, <1>7 DEF IInv
  <2> QED
    BY <2>2, <2>3, <2>4, <2>5, <2>6, <2>7, SendingStep, Zenon
<1> QED
  BY <1>7, <1>8, <1>14, <1>16, <1>20, StepKeeps

\* A peer enters the next round, which no other has gone through.
LEMMA DistributeKeeps ==
  ASSUME IInv, NEW x \in Peers, Distribute(x)
  PROVE  IInv'
<1>1. PICK r0 \in Nat : r0 = round(x) /\ r0 + 1 \in Rounds /\ r0 + 1 \in Nat /\ r0 + 1 # 0
  <2>1. round(x) \in Nat /\ round(x) < Len(plan.rounds) /\ Len(plan.rounds) \in Nat
    BY RoundNumber, PlanFacts DEF IInv, Types, Distribute
  <2> QED
    BY <2>1 DEF Rounds
<1>2. PICK s : s = Mapped(x, r0 + 1)
  OBVIOUS
<1>3. /\ pc[x] = "idle" /\ graph' = [graph EXCEPT ![x] = EdgesOf(r0 + 1)]
      /\ hosted' = [hosted EXCEPT ![x] = Append(@, s)]
      /\ Goto(x, "split", <<>>)
      /\ UNCHANGED <<plan, iteration, nVertices, vertexMap, peerMap, inBox, data>>
  BY <1>1, <1>2 DEF Distribute, EdgesOf
<1>4. /\ plan \in Plans /\ hosted \in [Peers -> Seq(Seq(Nat))] /\ hosted[x] \in Seq(Seq(Nat))
      /\ pc \in [Peers -> PCs] /\ todo \in [Peers -> Seq(Nat)] /\ graph \in [Peers -> UNION {Range(graph)}]
      /\ DOMAIN graph = Peers
  BY DEF IInv, Types, Range
<1>5. s \in Seq(Nat)
  BY <1>1, <1>2, <1>4, MappedFacts
<1>6. /\ Len(hosted[x]) = r0 /\ DOMAIN hosted = Peers /\ hosted'[x] = Append(hosted[x], s)
      /\ \A y \in Peers \ {x} : hosted'[y] = hosted[y] /\ graph'[y] = graph[y]
      /\ graph'[x] = EdgesOf(r0 + 1)
  BY <1>1, <1>3, <1>4 DEF round
<1>7. /\ hosted'[x] \in Seq(Seq(Nat)) /\ Len(hosted'[x]) = r0 + 1 /\ hosted'[x][r0 + 1] = s
      /\ \A r \in 1 .. r0 : hosted'[x][r] = hosted[x][r]
  BY <1>4, <1>5, <1>6
<1>8. round(x)' = r0 + 1 /\ \A y \in Peers \ {x} : round(y)' = round(y)
  BY <1>6, <1>7 DEF round
<1>9. /\ pc'[x] = "split" /\ todo'[x] = <<>> /\ pc' \in [Peers -> PCs] /\ todo' \in [Peers -> Seq(Nat)]
      /\ \A y \in Peers \ {x} : pc'[y] = pc[y] /\ todo'[y] = todo[y]
  BY <1>3, <1>4 DEF Goto, PCs
<1>10. \A y \in Peers \ {x} : Stays(y)
  BY <1>3, <1>6, <1>9 DEF Stays
<1>11. \A y \in Peers : round(y) \in Nat /\ round(y)' >= round(y) /\ round(y)' \in Nat
  BY <1>1, <1>8, RoundNumber DEF IInv
<1>12. /\ \A r : InRound(r)' = InRound(r) /\ EdgesOf(r)' = EdgesOf(r) /\ \A q : Mapped(q, r)' = Mapped(q, r)
       /\ \A r, v : HostedIn(r, v)' = HostedIn(r, v) /\ LastHost(r, v)' = LastHost(r, v)
       /\ Last' = Last
  BY <1>3, PlanStays
<1>13. Types'
  <2>1. hosted' \in [Peers -> Seq(Seq(Nat))]
    BY <1>3, <1>4, <1>6, <1>7
  <2>2. ASSUME NEW p \in Peers
        PROVE  round(p)' <= Len(plan'.rounds) /\ \A r \in 1 .. round(p)' : hosted'[p][r] = Mapped(p, r)'
    <3>1. CASE p = x
      <4>1. r0 + 1 <= Len(plan.rounds)
        BY <1>1, <1>4, PlanFacts DEF Rounds
      <4>2. \A r \in 1 .. r0 : hosted'[x][r] = Mapped(x, r)
        BY <1>1, <1>7 DEF IInv, Types
      <4>3. \A r \in 1 .. r0 + 1 : r \in 1 .. r0 \/ r = r0 + 1
        OBVIOUS
      <4> QED
        BY <1>2, <1>3, <1>7, <1>8, <1>12, <3>1, <4>1, <4>2, <4>3
    <3>2. CASE p # x
      BY <1>3, <1>6, <1>8, <1>12, <3>2 DEF IInv, Types
    <3> QED
      BY <3>1, <3>2
  <2>3. graph' = [p \in Peers |-> IF round(p)' = 0 THEN <<>> ELSE EdgesOf(round(p))']
    <3>1. \A p \in Peers : graph'[p] = IF round(p)' = 0 THEN <<>> ELSE EdgesOf(round(p))'
      <4> TAKE p \in Peers
      <4>1. CASE p = x
        BY <1>1, <1>6, <1>8, <1>12, <4>1
      <4>2. CASE p # x
        BY <1>6, <1>8, <1>12, <4>2 DEF IInv, Types
      <4> QED
        BY <4>1, <4>2
    <3>2. graph' = [p \in Peers |-> graph'[p]]
      BY <1>3, <1>4
    <3> QED
      BY <3>1, <3>2
  <2>4. \A p \in Peers : \A k \in DOMAIN inBox'[p] :
          k \in (1 .. round(p)') \X Peers \X Tags /\ inBox'[p][k] \in Seq(Messages)
    <3> TAKE p \in Peers
    <3> TAKE k \in DOMAIN inBox'[p]
    <3>1. k \in (1 .. round(p)) \X Peers \X Tags /\ inBox'[p][k] \in Seq(Messages)
      BY <1>3 DEF IInv, Types
    <3>2. 1 .. round(p) \subseteq 1 .. round(p)'
      BY <1>11
    <3> QED
      BY <3>1, <3>2
  <2>5. plan' \in Plans
    BY <1>3, <1>4
  <2>6. /\ iteration' \in [Peers -> 0 .. plan'.iterations]
        /\ DOMAIN nVertices' = Peers /\ DOMAIN vertexMap' = Peers /\ DOMAIN peerMap' = Peers
        /\ \A p \in Peers : vertexMap'[p] \in [DOMAIN vertexMap'[p] -> Peers]
        /\ DOMAIN inBox' = Peers
        /\ data' \in [Peers -> Seq([edge : Nat, value : Nat \cup Seq(Nat)])]
    BY <1>3 DEF IInv, Types
  <2> QED
    BY <1>9, <2>1, <2>2, <2>3, <2>4, <2>5, <2>6 DEF Types
<1>14. Place(x)' /\ Knows(x)'
  <2>1. iteration'[x] = 0 /\ \A q \in Peers : round(q) >= r0
    <3>1. r0 # 0 => \A q \in Peers : round(q) >= r0
      BY <1>1, <1>3 DEF IInv, Place
    <3>2. r0 = 0 => \A q \in Peers : round(q) >= r0
      BY <1>11
    <3>3. iteration[x] = 0
      BY <1>3 DEF IInv, Place
    <3> QED
      BY <1>3, <3>1, <3>2, <3>3
  <2>2. \A q \in Peers : round(q)' + 1 >= r0 + 1
    BY <1>8, <1>11, <2>1
  <2> QED
    BY <1>1, <1>8, <1>9, <2>1, <2>2 DEF Place, Knows
<1>15. ASSUME NEW y \in Peers \ {x}
       PROVE  Place(y)' /\ Knows(y)'
  <2>1. /\ pc'[y] = pc[y] /\ todo'[y] = todo[y] /\ iteration'[y] = iteration[y] /\ round(y)' = round(y)
        /\ nVertices' = nVertices /\ vertexMap' = vertexMap /\ peerMap' = peerMap /\ plan' = plan
    BY <1>3, <1>8, <1>9
  <2>2. InEdges(y)' = InEdges(y)
    BY <1>6, InEdgesStay
  <2>3. Heard(y)' = Heard(y)
    BY <1>12, <2>1 DEF Heard
  <2>4. /\ \A q \in Peers : round(q) >= round(y) => round(q)' >= round(y)
        /\ \A q \in Peers : round(q) + 1 >= round(y) => round(q)' + 1 >= round(y)
    BY <1>11
  <2>5. Place(y) /\ Knows(y)
    BY DEF IInv
  <2>6. Place(y)'
    BY <1>12, <2>1, <2>2, <2>4, <2>5 DEF Place
  <2>7. Knows(y)'
    BY <1>12, <2>1, <2>3, <2>5 DEF Knows
  <2> QED
    BY <2>6, <2>7
<1>16. ASSUME NEW q \in Peers, NEW t \in Tags
       PROVE  SentAll(q, r0 + 1, t)' = 0 /\ SentMost(q, r0 + 1, t)' = 0
  <2>1. CASE q = x
    BY <1>8, <1>9, <2>1 DEF SentAll, SentMost
  <2>2. CASE q # x
    <3>1. round(q) <= r0 + 1 /\ (round(q) = r0 + 1 => pc[q] = "split")
      BY <1>1, <1>11 DEF IInv, Place
    <3>2. round(q)' = round(q) /\ pc'[q] = pc[q]
      BY <1>8, <1>9, <2>2
    <3> QED
      BY <1>11, <3>1, <3>2 DEF SentAll, SentMost
  <2> QED
    BY <2>1, <2>2
<1>17. ASSUME NEW r \in Nat, NEW t
       PROVE  SentAll(x, r, t)' = SentAll(x, r, t) /\ SentMost(x, r, t)' = SentMost(x, r, t)
  <2>1. SentAll(x, r, t) = IF r0 < r THEN 0 ELSE Last
    BY <1>1, <1>3 DEF SentAll
  <2>2. SentAll(x, r, t)' = IF r0 < r THEN 0 ELSE Last
    <3>1. CASE r0 + 1 < r
      BY <1>8, <3>1 DEF SentAll
    <3>2. CASE r0 + 1 = r
      BY <1>8, <1>9, <3>2 DEF SentAll
    <3>3. CASE r0 + 1 > r
      BY <1>8, <1>12, <3>3 DEF SentAll
    <3> QED
      BY <3>1, <3>2, <3>3
  <2> QED
    BY <1>3, <1>9, <2>1, <2>2 DEF SentMost
<1>18. Streams'
  <2> SUFFICES ASSUME NEW p \in Peers, NEW q \in Peers, NEW t \in Tags, pc'[p] \notin Inactive
               PROVE  Stream(p, q, t)'
    BY DEF Streams
  <2>1. CASE p = x
    <3>1. Get(inBox'[x], Key(r0 + 1, q, t), <<>>) = <<>>
      <4>1. r0 + 1 \notin 1 .. round(x)
        BY <1>1
      <4>2. Box(x, r0 + 1, q, t) = <<>>
        BY <4>1, BoxTypes DEF IInv
      <4> QED
        BY <1>3, <4>2 DEF Box
    <3>2. Got(x, q, t)' = 0
      BY <1>9 DEF Got
    <3>3. StreamOf(<<>>, q, x, r0 + 1, t, 0, 0, 0)
      <4>1. \A k \in Nat : Owes(q, x, r0 + 1, t, k) => 0 < k
        BY <1>4, OwedRanks
      <4> QED
        BY <4>1 DEF StreamOf, Ascends, Range
    <3> QED
      BY <1>3, <1>8, <1>16, <2>1, <3>1, <3>2, <3>3, StreamNext
  <2>2. CASE p # x
    <3>1. PICK r \in Nat : r = round(p)
      BY <1>11
    <3>2. PICK got, all, most : got = Got(p, q, t) /\ all = SentAll(q, r, t) /\ most = SentMost(q, r, t)
      OBVIOUS
    <3>3. StreamOf(Box(p, r, q, t), q, p, r, t, got, all, most)
      BY <1>9, <2>2, <3>1, <3>2 DEF IInv, Streams, Stream
    <3>4. Get(inBox'[p], Key(r, q, t), <<>>) = Box(p, r, q, t)
      BY <1>3 DEF Box
    <3>5. Got(p, q, t)' = got /\ round(p)' = r
      BY <1>3, <1>10, <2>2, <3>1, <3>2, StaysFacts
    <3>6. SentAll(q, r, t)' = all /\ SentMost(q, r, t)' = most
      <4>1. CASE q = x
        BY <1>17, <3>2, <4>1
      <4>2. CASE q # x
        BY <1>3, <1>10, <3>2, <4>2, StaysFacts
      <4> QED
        BY <4>1, <4>2
    <3> QED
      BY <1>3, <3>3, <3>4, <3>5, <3>6, StreamNext
  <2> QED
    BY <2>1, <2>2
<1> QED
  BY <1>13, <1>14, <1>15, <1>18 DEF IInv

LEMMA StutterKeeps ==
  ASSUME IInv, UNCHANGED vars
  PROVE  IInv'
<1>1. /\ plan' = plan /\ graph' = graph /\ hosted' = hosted /\ pc' = pc /\ todo' = todo
      /\ iteration' = iteration /\ nVertices' = nVertices /\ vertexMap' = vertexMap
      /\ peerMap' = peerMap /\ inBox' = inBox /\ data' = data
  BY DEF vars
<1>2. PICK x \in Peers : TRUE
  <2>1. 0 \in Peers
    BY PlansAssumption DEF Peers
  <2> QED
    BY <2>1
<1>3. Within(x) /\ \A y : Stays(y)
  BY <1>1 DEF Within, Stays
<1>4. Types'
  <2>1. /\ pc' \in [Peers -> PCs] /\ todo' \in [Peers -> Seq(Nat)]
        /\ iteration' \in [Peers -> 0 .. plan.iterations]
        /\ DOMAIN nVertices' = Peers /\ DOMAIN vertexMap' = Peers /\ DOMAIN peerMap' = Peers
        /\ \A p \in Peers : vertexMap'[p] \in [DOMAIN vertexMap'[p] -> Peers]
        /\ DOMAIN inBox' = Peers
        /\ \A p \in Peers : \A k \in DOMAIN inBox'[p] :
             k \in (1 .. round(p)) \X Peers \X Tags /\ inBox'[p][k] \in Seq(Messages)
        /\ data' \in [Peers -> Seq([edge : Nat, value : Nat \cup Seq(Nat)])]
    BY <1>1 DEF IInv, Types
  <2> QED
    BY <1>3, <2>1, TypesStep DEF IInv
<1>5. \A y \in Peers : Place(y)' /\ Knows(y)'
  BY <1>1, <1>3, PlaceStays DEF IInv
<1>6. Streams'
  <2> SUFFICES ASSUME NEW p \in Peers, NEW q \in Peers, NEW t \in Tags, pc'[p] \notin Inactive
               PROVE  Stream(p, q, t)'
    BY DEF Streams
  <2>1. PICK r : r = round(p) /\ round(p)' = r
    BY <1>1, <1>3, StaysFacts
  <2>2. PICK got, all, most : got = Got(p, q, t) /\ all = SentAll(q, r, t) /\ most = SentMost(q, r, t)
    OBVIOUS
  <2>3. Got(p, q, t)' = got /\ SentAll(q, r, t)' = all /\ SentMost(q, r, t)' = most
    BY <1>1, <1>3, <2>2, StaysFacts
  <2>4. StreamOf(Box(p, r, q, t), q, p, r, t, got, all, most)
    BY <1>1, <2>1, <2>2 DEF IInv, Streams, Stream
  <2>5. Get(inBox'[p], Key(r, q, t), <<>>) = Box(p, r, q, t)
    BY <1>1 DEF Box
  <2> QED
    BY <1>1, <2>1, <2>3, <2>4, <2>5, StreamNext
<1> QED
  BY <1>4, <1>5, <1>6 DEF IInv

LEMMA InitIInv ==
  ASSUME Init
  PROVE  IInv
<1>1. plan \in Plans /\ plan.iterations \in Nat /\ Len(plan.rounds) \in Nat
  BY PlanFacts DEF Init
<1>2. \A p \in Peers : /\ hosted[p] = <<>> /\ round(p) = 0 /\ graph[p] = <<>> /\ pc[p] = "idle"
                       /\ todo[p] = <<>> /\ iteration[p] = 0 /\ vertexMap[p] = <<>> /\ inBox[p] = <<>>
  BY DEF Init, round
<1>3. Types
  <2>1. /\ hosted \in [Peers -> Seq(Seq(Nat))]
        /\ todo \in [Peers -> Seq(Nat)]
        /\ data \in [Peers -> Seq([edge : Nat, value : Nat \cup Seq(Nat)])]
    BY DEF Init
  <2>2. \A p \in Peers : round(p) <= Len(plan.rounds) /\ \A r \in 1 .. round(p) : hosted[p][r] = Mapped(p, r)
    BY <1>1, <1>2
  <2>3. graph = [p \in Peers |-> IF round(p) = 0 THEN <<>> ELSE EdgesOf(round(p))]
    BY <1>2 DEF Init
  <2>4. pc \in [Peers -> PCs] /\ iteration \in [Peers -> 0 .. plan.iterations]
    BY <1>1 DEF Init, PCs
  <2>5. /\ DOMAIN nVertices = Peers /\ DOMAIN vertexMap = Peers /\ DOMAIN peerMap = Peers
        /\ DOMAIN inBox = Peers
    BY DEF Init
  <2>6. \A p \in Peers : vertexMap[p] \in [DOMAIN vertexMap[p] -> Peers]
    <3>1. <<>> \in Seq(Peers) /\ DOMAIN <<>> = {}
      OBVIOUS
    <3>2. <<>> \in [{} -> Peers]
      BY <3>1
    <3> QED
      BY <1>2, <3>1, <3>2
  <2>7. \A p \in Peers : \A k \in DOMAIN inBox[p] :
          k \in (1 .. round(p)) \X Peers \X Tags /\ inBox[p][k] \in Seq(Messages)
    <3>1. DOMAIN <<>> = {}
      OBVIOUS
    <3> QED
      BY <1>2, <3>1
  <2> QED
    BY <1>1, <2>1, <2>2, <2>3, <2>4, <2>5, <2>6, <2>7 DEF Types
<1>4. \A p \in Peers : Place(p)
  BY <1>2 DEF Place
<1>5. \A p \in Peers : Knows(p)
  BY <1>2 DEF Knows
<1>6. Streams
  BY <1>2 DEF Streams, Inactive
<1> QED
  BY <1>3, <1>4, <1>5, <1>6 DEF IInv

LEMMA NextKeeps ==
  ASSUME IInv, [Next]_vars
  PROVE  IInv'
<1>1. ASSUME NEW x \in Peers, Announced(x)
      PROVE  IInv'
  <2>1. iteration[x] = 0
    BY <1>1 DEF Announced, IInv, Place
  <2> QED
    BY <1>1, <2>1, NextIterationKeeps DEF Announced
<1>2. ASSUME NEW x \in Peers, Collected(x)
      PROVE  IInv'
  BY <1>2, NextIterationKeeps DEF Collected
<1>3. ASSUME NEW x \in Peers, Gathered(x)
      PROVE  IInv'
  BY <1>3, NextIterationKeeps DEF Gathered
<1>4. ASSUME NEW x \in Peers, Step(x)
      PROVE  IInv'
  BY <1>1, <1>2, <1>3, <1>4, DistributeKeeps, LeftOutKeeps, AnnounceKeeps, RecvCountKeeps,
     RecvIDsKeeps, SpreadKeeps, StartCollectKeeps, CollectKeeps, RecvAnyEdgeKeeps,
     StartGatherKeeps, RecvGatheredKeeps, SendToRootKeeps DEF Step
<1> QED
  BY <1>4, StutterKeeps DEF Next

\* The inductive invariant: where each peer is in its round, what it knows of the
\* others' vertices, and that what lies in its inBox from each other peer and
\* tag is what that peer has sent and it has not received, in the order of the
\* ranks (the announcements, spreads and gathers in Cage.hpp).
THEOREM StreamsInvariant == Spec => []IInv
<1>1. Init => IInv
  BY InitIInv
<1>2. IInv /\ [Next]_vars => IInv'
  BY NextKeeps
<1> QED
  BY <1>1, <1>2, PTL DEF Spec

\* A peer that waits for an announcement, or in a gather, finds just that, and of
\* its iteration, at the head of its inBox, for any numbers of peers, rounds
\* and iterations (announce, gatherVar).
THEOREM FindsWhatIsMeant == Spec => []NeverMisread
<1>1. IInv => NeverMisread
  <2> SUFFICES ASSUME IInv, NEW p \in Peers, pc[p] \in {"count", "ids", "sizes", "gather"},
                      todo[p] # <<>>, Arrived(p, Head(todo[p]), 0) # <<>>
               PROVE  LET arrived == Arrived(p, Head(todo[p]), 0) IN
                        /\ Head(arrived).kind = pc[p]
                        /\ pc[p] = "ids" => Len(Head(arrived).body) = nVertices[p]
                        /\ pc[p] \in {"sizes", "gather"} =>
                             Head(arrived).body = Value(round(p), Head(todo[p]), iteration[p])
    BY DEF NeverMisread
  <2>1. PICK q, r, i : q = Head(todo[p]) /\ r = round(p) /\ i = iteration[p]
    OBVIOUS
  <2>2. PICK s : s = Arrived(p, q, 0) /\ s = Box(p, r, q, 0) /\ s # <<>>
    BY <2>1 DEF Arrived, Box
  <2>3. q \in Peers
    <3>1. todo[p] \in Seq(Nat) /\ Range(todo[p]) \subseteq InRound(r)
      BY <2>1 DEF IInv, Types, Place
    <3>2. q \in Range(todo[p])
      BY <2>1, <3>1, WorkFacts
    <3> QED
      BY <3>1, <3>2 DEF InRound
  <2>4. PICK got : got = Got(p, q, 0)
    OBVIOUS
  <2>5. PICK all \in Int, most \in Int : most <= all + 1 /\ StreamOf(s, q, p, r, 0, got, all, most)
    <3>1. 0 \in Tags /\ pc[p] \notin Inactive
      BY DEF Tags, Inactive
    <3> QED
      BY <2>1, <2>2, <2>3, <2>4, <3>1, StreamNow
  <2>6. CASE pc[p] \in {"count", "ids"}
    <3>1. /\ pc[p] = "count" => Head(s) = Message("count", Len(Mapped(q, r)))
          /\ pc[p] = "ids" => Head(s) = Message("ids", Mapped(q, r))
      BY <2>1, <2>2, <2>4, <2>5, <2>6, Announcement
    <3>2. pc[p] = "ids" => nVertices[p] = Len(Mapped(q, r))
      BY <2>1 DEF IInv, Place
    <3> QED
      BY <2>1, <2>2, <2>6, <3>1, <3>2 DEF Message
  <2>7. CASE pc[p] \in {"sizes", "gather"}
    <3>1. Head(s) = Message(pc[p], Value(r, q, i))
      BY <2>1, <2>2, <2>4, <2>5, <2>7, Gathering
    <3> QED
      BY <2>1, <2>2, <2>7, <3>1 DEF Message
  <2> QED
    BY <2>6, <2>7
<1> QED
  BY <1>1, StreamsInvariant, PTL

\* A member that spreads or collects knows a host of each vertex, and the vertices
\* of each member, as they are in this round (locateVertex, getHostedVertices).
THEOREM RightMaps == Spec => []MapsAreRight
<1>1. IInv => MapsAreRight
  <2> SUFFICES ASSUME IInv, NEW p \in Peers, pc[p] \in {"spread", "collect"}
               PROVE  LET r == round(p) IN
                        /\ \A v \in VertexSet(r) : Hosts(r, v) # {} => locateVertex(p, v) \in Hosts(r, v)
                        /\ \A q \in Members(r) : peerMap[p][q] = hosted[q][r]
    BY DEF MapsAreRight
  <2>1. PICK r \in Nat : r = round(p)
    BY Iterating
  <2>2. /\ plan \in Plans /\ r \in Rounds /\ r # 0 /\ (\A q \in Peers : round(q) >= r)
        /\ Members(r) = InRound(r) /\ InRound(r) \subseteq Peers /\ Knows(p) /\ Heard(p) = InRound(r)
    BY <2>1, Iterating
  <2>3. \A v : Hosts(r, v) = HostedIn(r, v)
    BY <2>2, MembersFacts DEF IInv
  <2>4. ASSUME NEW v \in VertexSet(r), Hosts(r, v) # {}
        PROVE  locateVertex(p, v) \in Hosts(r, v)
    <3>1. v \in Nat
      BY <2>2, PlanFacts DEF VertexSet
    <3> QED
      BY <2>1, <2>2, <2>3, <2>4, <3>1, Located
  <2>5. ASSUME NEW q \in Members(r)
        PROVE  peerMap[p][q] = hosted[q][r]
    <3>1. q \in Peers /\ q \in Heard(p)
      BY <2>2
    <3>2. peerMap[p][q] = Mapped(q, r)
      BY <2>1, <2>2, <3>1 DEF Knows
    <3>3. r \in 1 .. round(q)
      <4>1. round(q) \in Nat
        BY <3>1, RoundNumber DEF IInv
      <4> QED
        BY <2>2, <3>1, <4>1
    <3> QED
      BY <3>1, <3>2, <3>3 DEF IInv, Types
  <2> QED
    BY <2>1, <2>4, <2>5
<1> QED
  BY <1>1, StreamsInvariant, PTL

-----------------------------------------------------------------------------
(* Exceptions                                                              *)

\* A peer throws in Spread or Collect only.
LEMMA Thrower ==
  ASSUME IInv, NEW x \in Peers, Step(x), NEW p \in Peers, pc'[p] = "thrown"
  PROVE  /\ plan' = plan /\ hosted'[p] = hosted[p]
         /\ pc[p] = "thrown" \/ (p = x /\ (Spread(x) \/ Collect(x)) /\ pc[x] # "thrown")
<1>1. pc \in [Peers -> PCs] /\ DOMAIN hosted = Peers
  BY DEF IInv, Types
<1>2. plan' = plan
  BY DEF Step, Distribute, LeftOut, Announce, RecvCount, RecvIDs, Announced, Spread, StartCollect,
         Collect, RecvAnyEdge, Collected, StartGather, RecvGathered, SendToRoot, Gathered
<1>3. CASE Distribute(x)
  <2>1. pc' = [pc EXCEPT ![x] = "split"] /\ \A y \in Peers \ {x} : hosted'[y] = hosted[y]
    BY <1>1, <1>3 DEF Distribute, Goto
  <2> QED
    BY <1>1, <1>2, <2>1
<1>4. CASE Spread(x) \/ Collect(x)
  <2>1. hosted' = hosted /\ pc[x] # "thrown" /\ \A y \in Peers \ {x} : pc'[y] = pc[y]
    BY <1>1, <1>4 DEF Spread, Collect, Goto, Done
  <2> QED
    BY <1>2, <1>4, <2>1
<1>5. CASE Announced(x) \/ Collected(x) \/ Gathered(x)
  <2>1. hosted' = hosted /\ (pc' = [pc EXCEPT ![x] = "spread"] \/ pc' = [pc EXCEPT ![x] = "idle"])
    BY <1>5 DEF Announced, Collected, Gathered, NextIteration, Goto
  <2> QED
    BY <1>1, <1>2, <2>1
<1>6. CASE RecvAnyEdge(x) \/ RecvGathered(x)
  BY <1>2, <1>6 DEF RecvAnyEdge, RecvGathered, Done
<1>7. CASE LeftOut(x) \/ Announce(x) \/ RecvCount(x) \/ RecvIDs(x) \/ StartCollect(x)
           \/ StartGather(x) \/ SendToRoot(x)
  <2>1. hosted' = hosted /\ \E stage \in PCs \ {"thrown"} : pc' = [pc EXCEPT ![x] = stage]
    BY <1>7 DEF LeftOut, Announce, RecvCount, RecvIDs, StartCollect, StartGather, SendToRoot, Goto, PCs
  <2> QED
    BY <1>1, <1>2, <2>1
<1> QED
  BY <1>3, <1>4, <1>5, <1>6, <1>7 DEF Step

\* Some vertex of the round of p has no host.
Lost(p) == \E v \in VertexSet(round(p)) : HostedIn(round(p), v) = {}

LEMMA ThrowsForLost ==
  ASSUME IInv, NEW x \in Peers, Spread(x) \/ Collect(x), pc'[x] = "thrown", pc[x] # "thrown"
  PROVE  Lost(x)
<1>1. PICK r \in Nat : r = round(x)
  BY Iterating DEF Spread, Collect
<1>2. /\ plan \in Plans /\ r \in Rounds /\ graph[x] = EdgesOf(r) /\ Members(r) = InRound(r)
      /\ Knows(x) /\ Heard(x) = InRound(r) /\ pc \in [Peers -> PCs] /\ todo[x] \in Seq(Nat)
  BY <1>1, Iterating DEF Spread, Collect, IInv, Types
<1>3. pc[x] \in {"spread", "collect"}
  BY DEF Spread, Collect
<1>4. ASSUME NEW v \in Nat, locateVertex(x, v) \notin InRound(r)
      PROVE  HostedIn(r, v) = {}
  BY <1>1, <1>2, <1>3, <1>4, Located
<1>5. CASE Spread(x)
  <2> DEFINE v == Head(todo[x])
             edges == getOutEdges(x, v)
             before == {j \in DOMAIN edges : \A l \in 1 .. j : Reachable(x, edges[l])}
  <2>1. edges \in Seq(EdgeTags(r))
    BY <1>2, GraphFacts
  <2>2. before # DOMAIN edges
    <3>1. pc'[x] # pc[x]
      BY <1>3
    <3> QED
      BY <1>5, <3>1 DEF Spread, Done
  <2>3. PICK j \in DOMAIN edges : \E l \in 1 .. j : ~Reachable(x, edges[l])
    BY <2>2
  <2> HIDE DEF edges, before
  <2>4. PICK e \in EdgeTags(r) : ~Reachable(x, e)
    <3>1. PICK l \in 1 .. j : ~Reachable(x, edges[l])
      BY <2>3
    <3>2. l \in DOMAIN edges
      BY <2>1
    <3> QED
      BY <2>1, <3>1, <3>2
  <2>5. Target(x, e) = To(r, e) /\ To(r, e) \in VertexSet(r) /\ To(r, e) \in Nat
    BY <1>2, EdgeFacts, GraphFacts
  <2>6. HostedIn(r, To(r, e)) = {}
    BY <1>1, <1>2, <1>4, <2>4, <2>5 DEF Reachable
  <2> QED
    BY <1>1, <2>5, <2>6 DEF Lost
<1>6. CASE Collect(x)
  <2>1. PICK e : e = Head(todo[x])
    OBVIOUS
  <2>2. todo[x] # <<>> /\ pc[x] = "collect"
    BY <1>6 DEF Collect
  <2>3. locateVertex(x, Source(x, e)) = None
    <3>1. pc'[x] # pc[x]
      BY <1>3
    <3> QED
      BY <1>6, <2>1, <3>1 DEF Collect, Done
  <2>4. e \in EdgeTags(r)
    <3>1. e \in Range(todo[x])
      BY <1>2, <2>1, <2>2, WorkFacts
    <3> QED
      BY <1>1, <2>2, <3>1, Collecting
  <2>5. Source(x, e) = From(r, e) /\ From(r, e) \in VertexSet(r) /\ From(r, e) \in Nat
    BY <1>2, <2>4, EdgeFacts, GraphFacts
  <2>6. None \notin InRound(r)
    BY PlansAssumption DEF InRound
  <2>7. HostedIn(r, From(r, e)) = {}
    BY <1>4, <2>3, <2>5, <2>6
  <2> QED
    BY <1>1, <2>5, <2>7 DEF Lost
<1> QED
  BY <1>5, <1>6

\* A peer throws only in a round in which some vertex has no host: spread, which
\* looks for the target of each edge, and collect, for the source.
THEOREM OnlyLostThrow == Spec => []ThrowsOnlyForLost
<1> DEFINE Inv == \A p \in Peers : pc[p] = "thrown" => Lost(p)
<1>1. Init => Inv
  BY DEF Init
<1>2. IInv /\ Inv /\ [Next]_vars => Inv'
  <2> SUFFICES ASSUME IInv, Inv, [Next]_vars, NEW p \in Peers, pc'[p] = "thrown"
               PROVE  Lost(p)'
    OBVIOUS
  <2>1. plan' = plan /\ round(p)' = round(p) /\ Lost(p)
    <3>1. CASE UNCHANGED vars
      BY <3>1 DEF vars, round
    <3>2. CASE \E x \in Peers : Step(x)
      <4>1. PICK x \in Peers : Step(x)
        BY <3>2
      <4>2. /\ plan' = plan /\ hosted'[p] = hosted[p]
            /\ pc[p] = "thrown" \/ (p = x /\ (Spread(x) \/ Collect(x)) /\ pc[x] # "thrown")
        BY <4>1, Thrower
      <4>3. Lost(p)
        BY <4>2, ThrowsForLost
      <4> QED
        BY <4>2, <4>3 DEF round
    <3> QED
      BY <3>1, <3>2 DEF Next
  <2>2. \A r : VertexSet(r)' = VertexSet(r) /\ \A v : HostedIn(r, v)' = HostedIn(r, v)
    BY <2>1, PlanStays
  <2> QED
    BY <2>1, <2>2 DEF Lost
<1>3. IInv /\ Inv => ThrowsOnlyForLost
  <2> SUFFICES ASSUME IInv, Inv, NEW p \in Peers, pc[p] = "thrown"
               PROVE  \E v \in VertexSet(round(p)) : Hosts(round(p), v) = {}
    BY DEF ThrowsOnlyForLost
  <2>1. round(p) \in Rounds /\ \A q \in Peers : round(q) >= round(p)
    BY RoundFacts DEF IInv, Place
  <2>2. \A v : Hosts(round(p), v) = HostedIn(round(p), v)
    BY <2>1, MembersFacts DEF IInv
  <2> QED
    BY <2>2 DEF Lost
<1> QED
  BY <1>1, <1>2, <1>3, StreamsInvariant, PTL DEF Spec

-----------------------------------------------------------------------------
(* Receiving from any edge                                                 *)

\* What can happen in a plan that receives from any edge.
LEMMA AnyStep ==
  ASSUME IInv, plan.any, NEW x \in Peers, Step(x)
  PROVE  /\ Distribute(x) \/ LeftOut(x) \/ Announce(x) \/ RecvCount(x) \/ RecvIDs(x) \/ Announced(x)
            \/ Spread(x) \/ StartCollect(x) \/ RecvAnyEdge(x) \/ Collected(x)
<1>1. ~plan.gather
  BY PlanFacts DEF IInv, Types
<1>2. pc[x] \notin {"sizes", "gather"}
  BY <1>1 DEF IInv, Place
<1> QED
  BY <1>1, <1>2 DEF Step, Collect, StartGather, RecvGathered, SendToRoot, Gathered

\* A peer sends in the order of the ranks.
LEMMA SentGrows ==
  ASSUME IInv, plan.any, NEW x \in Peers, Step(x), NEW r \in Nat, NEW t
  PROVE  /\ plan' = plan /\ SentMost(x, r, t) \in Int /\ SentMost(x, r, t)' \in Int
         /\ SentMost(x, r, t) <= SentMost(x, r, t)'
<1>1. PICK n \in Nat, last \in Nat, i \in Nat :
        /\ n = round(x) /\ last = Last /\ i = iteration[x]
        /\ i <= plan.iterations /\ plan.iterations \in Nat /\ last = 3 * plan.iterations + 2
  <2>1. plan.iterations \in Nat /\ iteration[x] \in 0 .. plan.iterations /\ round(x) \in Nat
    BY PlanFacts, RoundNumber DEF IInv, Types
  <2>2. 3 * plan.iterations + 2 \in Nat
    BY <2>1
  <2> QED
    BY <2>1, <2>2 DEF Last
<1>2. pc \in [Peers -> PCs] /\ todo \in [Peers -> Seq(Nat)] /\ DOMAIN iteration = Peers /\ hosted \in [Peers -> Seq(Seq(Nat))]
  BY DEF IInv, Types
<1>3. plan' = plan
  BY AnyStep DEF Distribute, LeftOut, Announce, RecvCount, RecvIDs, Announced, Spread, StartCollect,
     RecvAnyEdge, Collected
<1>4. Last' = last /\ EdgeTags(r)' = EdgeTags(r) /\ From(r, t)' = From(r, t)
  BY <1>1, <1>3, PlanStays
<1>5. SentMost(x, r, t) \in Int /\ SentMost(x, r, t) <= last
  <2>1. SentMost(x, r, t) \in Int
    BY RankTypes DEF IInv
  <2>2. pc[x] \in PCs
    BY <1>2
  <2>3. CASE n # r
    <3>1. SentMost(x, r, t) \in {0, last}
      BY <1>1, <2>3 DEF SentMost, SentAll
    <3> QED
      BY <1>1, <2>1, <3>1
  <2>4. CASE n = r
    <3>1. SentMost(x, r, t) \in {0, 2, 3 * i - 1, 3 * i, 3 * i + 1, 3 * i + 2, last}
      BY <1>1, <2>2, <2>4 DEF SentMost, SentAll, PCs
    <3> QED
      BY <1>1, <2>1, <3>1
  <2> QED
    BY <2>1, <2>3, <2>4
<1>6. CASE Distribute(x)
  <2>1. round(x)' = n + 1 /\ pc'[x] = "split" /\ pc[x] = "idle"
    BY <1>1, <1>2, <1>6 DEF Distribute, Goto, round
  <2>2. r <= n => SentMost(x, r, t)' = last
    BY <1>1, <1>4, <2>1 DEF SentMost, SentAll
  <2>3. r > n => SentMost(x, r, t) = 0 /\ SentMost(x, r, t)' = 0
    BY <1>1, <2>1 DEF SentMost, SentAll
  <2> QED
    BY <1>1, <1>3, <1>5, <2>2, <2>3
<1>7. CASE r # n /\ ~Distribute(x)
  <2>1. hosted' = hosted
    BY <1>7, AnyStep DEF LeftOut, Announce, RecvCount, RecvIDs, Announced, Spread, StartCollect,
       RecvAnyEdge, Collected
  <2>2. SentMost(x, r, t)' = SentMost(x, r, t)
    BY <1>1, <1>3, <1>7, <2>1, OtherRounds
  <2> QED
    BY <1>3, <1>5, <2>2
<1>8. CASE r = n /\ ~Distribute(x)
  <2>1. round(x)' = n
    BY <1>1, <1>8, AnyStep DEF LeftOut, Announce, RecvCount, RecvIDs, Announced, Spread, StartCollect,
       RecvAnyEdge, Collected, round
  <2>2. CASE pc'[x] = "idle"
    <3>1. SentMost(x, r, t)' = last
      BY <1>4, <1>8, <2>1, <2>2 DEF SentMost, SentAll
    <3> QED
      BY <1>1, <1>3, <1>5, <3>1
  <2>3. CASE Announce(x) \/ RecvCount(x) \/ RecvIDs(x)
    <3>1. pc'[x] \in {"count", "ids"} /\ pc[x] \in {"split", "count", "ids"}
      BY <1>2, <2>3 DEF Announce, RecvCount, RecvIDs, Goto
    <3>2. SentMost(x, r, t)' = 2 /\ SentMost(x, r, t) \in {0, 2}
      BY <1>1, <1>8, <2>1, <3>1 DEF SentMost, SentAll
    <3> QED
      BY <1>3, <3>2
  <2>4. CASE (Announced(x) \/ Collected(x)) /\ pc'[x] # "idle"
    <3>1. iteration'[x] = i + 1 /\ pc'[x] = "spread" /\ ((pc[x] = "count" /\ i = 0) \/ pc[x] = "collect")
      <4>1. pc[x] = "count" => i = 0
        BY <1>1 DEF IInv, Place
      <4> QED
        BY <1>1, <1>2, <2>4, <4>1 DEF Announced, Collected, NextIteration, Goto
    <3>2. SentMost(x, r, t)' \in {3 * (i + 1) - 1, 3 * (i + 1)}
      BY <1>8, <2>1, <3>1 DEF SentMost, SentAll
    <3>3. SentMost(x, r, t) = IF pc[x] = "count" THEN 2 ELSE 3 * i
      BY <1>1, <1>8, <3>1 DEF SentMost, SentAll
    <3> QED
      BY <1>3, <3>1, <3>2, <3>3
  <2>5. CASE Spread(x)
    <3>1. /\ iteration'[x] = i /\ pc[x] = "spread"
          /\ pc'[x] = "thrown" \/ (pc'[x] = "spread" /\ todo'[x] = Tail(todo[x]))
          /\ todo[x] # <<>>
      BY <1>1, <1>2, <2>5 DEF Spread, Done, Goto
    <3>2. SentMost(x, r, t) \in {3 * i - 1, 3 * i}
      BY <1>1, <1>8, <3>1 DEF SentMost, SentAll
    <3>3. SentMost(x, r, t) = 3 * i => SentMost(x, r, t)' = 3 * i
      <4>1. CASE pc'[x] = "thrown"
        BY <1>8, <2>1, <3>1, <4>1 DEF SentMost
      <4>2. CASE pc'[x] = "spread" /\ todo'[x] = Tail(todo[x]) /\ todo[x] # <<>>
        <5>1. Range(Tail(todo[x])) \subseteq Range(todo[x])
          BY <1>2, <4>2, WorkFacts
        <5>2. SentMost(x, r, t) = IF t \in EdgeTags(r) /\ From(r, t) \in Range(todo[x]) THEN 3 * i - 1 ELSE 3 * i
          BY <1>1, <1>8, <3>1 DEF SentMost, SentAll
        <5>3. SentMost(x, r, t)' = IF t \in EdgeTags(r) /\ From(r, t) \in Range(Tail(todo[x])) THEN 3 * i - 1 ELSE 3 * i
          BY <1>4, <1>8, <2>1, <3>1, <4>2 DEF SentMost, SentAll
        <5> QED
          BY <5>1, <5>2, <5>3
      <4> QED
        BY <3>1, <4>1, <4>2
    <3>4. SentMost(x, r, t)' \in {3 * i - 1, 3 * i}
      BY <1>8, <2>1, <3>1 DEF SentMost, SentAll
    <3> QED
      BY <1>3, <3>2, <3>3, <3>4
  <2>6. CASE StartCollect(x) \/ RecvAnyEdge(x)
    <3>1. /\ iteration'[x] = i /\ pc'[x] = "collect"
          /\ pc[x] = "collect" \/ (pc[x] = "spread" /\ todo[x] = <<>>)
      BY <1>1, <1>2, <2>6 DEF StartCollect, RecvAnyEdge, Done, Goto
    <3>2. SentMost(x, r, t) \in {3 * i - 1, 3 * i} /\ SentMost(x, r, t)' = 3 * i
      BY <1>1, <1>8, <2>1, <3>1 DEF SentMost, SentAll
    <3> QED
      BY <1>3, <3>2
  <2>7. LeftOut(x) => pc'[x] = "idle"
    BY <1>2 DEF LeftOut, Goto
  <2> QED
    BY <1>8, <2>2, <2>3, <2>4, <2>5, <2>6, <2>7, AnyStep
<1> QED
  BY <1>6, <1>7, <1>8

\* What a step adds to a stream is beyond all the sender has sent.
LEMMA Flow ==
  ASSUME IInv, plan.any, NEW x \in Peers, Step(x), NEW p \in Peers, NEW q \in Peers, NEW r \in Nat, NEW t
  PROVE  /\ plan' = plan /\ SentMost(q, r, t) \in Int /\ SentMost(q, r, t)' \in Int
         /\ SentMost(q, r, t) <= SentMost(q, r, t)'
         /\ \A m \in Range(Get(inBox'[p], Key(r, q, t), <<>>)) :
              m \in Range(Box(p, r, q, t)) \/ (RankOf(m) \in Int /\ SentMost(q, r, t) < RankOf(m))
<1>1. plan' = plan /\ \A y \in Peers \ {x} : Stays(y)
  <2>1. plan' = plan
    BY SentGrows
  <2>2. DOMAIN hosted = Peers /\ DOMAIN pc = Peers /\ DOMAIN todo = Peers /\ DOMAIN iteration = Peers
    BY DEF IInv, Types
  <2> QED
    <3> SUFFICES ASSUME NEW y \in Peers \ {x} PROVE Stays(y)
      BY <2>1
    <3>1. CASE Distribute(x)
      BY <2>2, <3>1 DEF Distribute, Goto, Stays
    <3>2. CASE Announced(x) \/ Collected(x)
      BY <2>2, <3>2 DEF Announced, Collected, NextIteration, Goto, Stays
    <3>3. CASE LeftOut(x) \/ Announce(x) \/ RecvCount(x) \/ RecvIDs(x) \/ StartCollect(x)
      BY <2>2, <3>3 DEF LeftOut, Announce, RecvCount, RecvIDs, StartCollect, Goto, Stays
    <3>4. CASE Spread(x) \/ RecvAnyEdge(x)
      BY <2>2, <3>4 DEF Spread, RecvAnyEdge, Goto, Done, Stays
    <3> QED
      BY <3>1, <3>2, <3>3, <3>4, AnyStep
<1>2. /\ SentMost(q, r, t) \in Int /\ SentMost(q, r, t)' \in Int /\ SentMost(q, r, t) <= SentMost(q, r, t)'
  <2>1. CASE q = x
    BY <2>1, SentGrows
  <2>2. CASE q # x
    <3>1. SentMost(q, r, t)' = SentMost(q, r, t) /\ SentMost(q, r, t) \in Int
      BY <1>1, <2>2, StaysFacts, RankTypes DEF IInv
    <3> QED
      BY <3>1
  <2> QED
    BY <2>1, <2>2
<1>3. CASE inBox' = inBox
  BY <1>1, <1>2, <1>3 DEF Box
<1>4. CASE Announce(x)
  <2>1. PICK r0 \in Nat : r0 = round(x) /\ r0 # 0 /\ \A y \in Peers : round(y) >= r0
    BY <1>4, RoundNumber DEF IInv, Announce, Place, SplitReturned
  <2>2. r0 \in Rounds /\ hosted[x][r0] = Mapped(x, r0) /\ Mapped(x, r0) \in Seq(Nat)
    BY <2>1, RoundFacts DEF IInv
  <2> DEFINE count == Message("count", Len(Mapped(x, r0)))
             ids == Message("ids", Mapped(x, r0))
             u == <<count, ids>>
  <2>3. count \in Messages /\ ids \in Messages /\ RankOf(count) = 1 /\ RankOf(ids) = 2
    <3>1. Len(Mapped(x, r0)) \in Nat
      BY <2>2
    <3> QED
      BY <2>2, <3>1, MessageFacts
  <2>4. Sent(x, ToAll(x, u))
    BY <1>4, <2>1, <2>2 DEF Announce
  <2> HIDE DEF count, ids
  <2>5. u \in Seq(Messages) /\ Range(u) = {count, ids}
    <3>1. DOMAIN u = {1, 2} /\ u[1] = count /\ u[2] = ids /\ u \in Seq(Messages)
      BY <2>3
    <3> HIDE DEF u
    <3> QED
      BY <3>1 DEF Range
  <2> HIDE DEF u
  <2>6. Get(inBox'[p], Key(r, q, t), <<>>) =
          IF r = r0 /\ q = x /\ p \in InRound(r0) /\ t = 0 THEN Box(p, r, q, t) \o u ELSE Box(p, r, q, t)
    BY <2>1, <2>2, <2>4, <2>5, SentToAll DEF IInv
  <2>7. CASE r = r0 /\ q = x
    <3>1. SentMost(q, r, t) = 0
      BY <1>4, <2>1, <2>7 DEF SentMost, SentAll, Announce
    <3>2. Range(Box(p, r, q, t) \o u) = Range(Box(p, r, q, t)) \cup Range(u)
      <4>1. Box(p, r, q, t) \in Seq(Messages)
        BY BoxTypes DEF IInv
      <4> QED
        BY <2>5, <4>1, JoinFacts
    <3> QED
      BY <1>1, <1>2, <2>3, <2>5, <2>6, <3>1, <3>2
  <2>8. CASE ~(r = r0 /\ q = x)
    BY <1>1, <1>2, <2>6, <2>8
  <2> QED
    BY <2>7, <2>8
<1>5. CASE Spread(x)
  <2>1. PICK r0, v, i : r0 = round(x) /\ v = Head(todo[x]) /\ i = iteration[x]
    OBVIOUS
  <2>2. /\ pc[x] = "spread" /\ todo[x] # <<>> /\ r0 \in Rounds /\ r0 \in Nat /\ todo[x] \in Seq(Nat)
        /\ i \in Nat /\ i \in Iterations
    BY <1>5, <2>1, Iterating DEF Spread
  <2>3. PICK D : SpreadsAlong(x, r0, v, i, D)
    BY <1>5, <2>1, SpreadSends
  <2> DEFINE m0 == Message("data", Value(r0, v, i))
  <2>4. v \in Nat /\ v \in Range(todo[x])
    BY <2>1, <2>2, WorkFacts
  <2>5. m0 \in Messages /\ RankOf(m0) = 3 * i
    <3>1. r0 \in Nat /\ v \in Nat /\ i \in Nat
      BY <2>2, <2>4
    <3> QED
      BY <3>1, MessageFacts
  <2>6. Get(inBox'[p], Key(r, q, t), <<>>) =
          IF r = r0 /\ q = x /\ <<p, t>> \in D THEN Box(p, r, q, t) \o <<m0>> ELSE Box(p, r, q, t)
    BY <2>3 DEF SpreadsAlong
  <2>7. <<p, t>> \in D => t \in EdgeTags(r0) /\ From(r0, t) = v
    BY <2>3 DEF SpreadsAlong
  <2> HIDE DEF m0
  <2>8. CASE r = r0 /\ q = x /\ <<p, t>> \in D
    <3>1. SentMost(q, r, t) = 3 * i - 1
      BY <2>1, <2>2, <2>4, <2>7, <2>8 DEF SentMost, SentAll
    <3>2. Range(Box(p, r, q, t) \o <<m0>>) = Range(Box(p, r, q, t)) \cup {m0}
      <4>1. Box(p, r, q, t) \in Seq(Messages)
        BY BoxTypes DEF IInv
      <4>2. PICK u : u = <<m0>> /\ u \in Seq(Messages) /\ Range(u) = {m0}
        BY <2>5, OneMessage
      <4>3. PICK b : b = Box(p, r, q, t)
        OBVIOUS
      <4>4. b \in Seq(Messages) /\ u \in Seq(Messages)
        BY <4>1, <4>2, <4>3
      <4>5. Range(b \o u) = Range(b) \cup Range(u)
        BY <4>4, JoinFacts
      <4> QED
        BY <4>2, <4>3, <4>5
    <3>3. 3 * i \in Int /\ 3 * i - 1 < 3 * i
      BY <2>2
    <3> QED
      BY <1>1, <1>2, <2>5, <2>6, <2>8, <3>1, <3>2, <3>3
  <2>9. CASE ~(r = r0 /\ q = x /\ <<p, t>> \in D)
    BY <1>1, <1>2, <2>6, <2>9
  <2> QED
    BY <2>8, <2>9
<1>6. ASSUME NEW q0 \in Peers, NEW t0 \in Tags, Received(x, q0, t0)
      PROVE  \A m \in Range(Get(inBox'[p], Key(r, q, t), <<>>)) : m \in Range(Box(p, r, q, t))
  <2>1. PICK r0 : r0 = round(x)
    OBVIOUS
  <2>2. /\ Box(x, r0, q0, t0) # <<>> /\ Get(inBox'[x], Key(r0, q0, t0), <<>>) = Tail(Box(x, r0, q0, t0))
        /\ ~(p = x /\ r = r0 /\ q = q0 /\ t = t0) => Get(inBox'[p], Key(r, q, t), <<>>) = Box(p, r, q, t)
    BY <1>6, <2>1, ReceivedFacts DEF IInv
  <2>3. Range(Tail(Box(x, r0, q0, t0))) \subseteq Range(Box(x, r0, q0, t0))
    <3>1. Box(x, r0, q0, t0) \in Seq(Messages)
      BY BoxTypes DEF IInv
    <3> QED
      BY <2>2, <3>1, WorkFacts
  <2> QED
    BY <2>2, <2>3
<1>7. CASE RecvCount(x) \/ RecvIDs(x)
  <2>1. Received(x, Head(todo[x]), 0) /\ pc[x] \in {"count", "ids"} /\ todo[x] # <<>>
    BY <1>7 DEF RecvCount, RecvIDs, IInv, Place
  <2>2. Head(todo[x]) \in Peers
    <3>1. todo[x] \in Seq(Nat) /\ Range(todo[x]) \subseteq InRound(round(x))
      BY <2>1 DEF IInv, Types, Place
    <3>2. Head(todo[x]) \in Range(todo[x])
      BY <2>1, <3>1, WorkFacts
    <3> QED
      BY <3>1, <3>2 DEF InRound
  <2>3. 0 \in Tags
    BY DEF Tags
  <2> QED
    BY <1>1, <1>2, <1>6, <2>1, <2>2, <2>3
<1>8. CASE RecvAnyEdge(x)
  <2>1. Members(round(x)) \subseteq Peers
    BY <1>8, Iterating DEF RecvAnyEdge
  <2>2. PICK q0 \in Peers, t0 \in Tags : Received(x, q0, t0)
    BY <1>8, <2>1 DEF RecvAnyEdge
  <2> QED
    BY <1>1, <1>2, <1>6, <2>2
<1>9. Distribute(x) \/ LeftOut(x) \/ Announced(x) \/ StartCollect(x) \/ Collected(x) => inBox' = inBox
  BY DEF Distribute, LeftOut, Announced, StartCollect, Collected
<1> QED
  BY <1>3, <1>4, <1>5, <1>7, <1>8, <1>9, AnyStep

-----------------------------------------------------------------------------
(* What is collected                                                       *)

\* The parts of CollectsNeighbours, for one peer.
CollectedInOrder(p) ==
    pc[p] = "collect" /\ ~plan.any =>
      LET edges == InEdges(p)
          n == Len(edges) - Len(todo[p])
      IN  data[p] = [j \in 1 .. n |-> Datum(edges[j], Value(round(p), Source(p, edges[j]), iteration[p]))]

CollectedFromAny(p) ==
    pc[p] = "collect" /\ plan.any =>
      LET edges == InEdges(p)
          n == Len(edges) - Len(todo[p])
          d == data[p]
      IN  /\ Len(d) = n
          /\ \A j \in 1 .. n :
               /\ d[j].edge \in Range(edges)
               /\ \E i \in 1 .. plan.iterations : d[j].value = Value(round(p), Source(p, d[j].edge), i)
               /\ \A i \in 1 .. j - 1 : d[i].edge = d[j].edge => d[i].value[3] < d[j].value[3]

\* What the source of the edge of d has sent p after d is of a later iteration, and so
\* is what it will send.
Past(p, d) ==
    LET r == round(p) IN
      \A q \in HostedIn(r, From(r, d.edge)) :
        /\ 3 * d.value[3] <= SentMost(q, r, d.edge)
        /\ \A m \in Range(Box(p, r, q, d.edge)) : 3 * d.value[3] < RankOf(m)
Fresh(p) == pc[p] = "collect" /\ plan.any => \A j \in DOMAIN data[p] : Past(p, data[p][j])

\* A peer that collects has just begun, has received along an edge, or stays.
LEMMA StillCollecting ==
  ASSUME IInv, NEW x \in Peers, Step(x), NEW p \in Peers, pc'[p] = "collect"
  PROVE  /\ plan' = plan
         /\ \/ p = x /\ StartCollect(x)
            \/ p = x /\ Collect(x) /\ Done(x)
            \/ p = x /\ RecvAnyEdge(x)
            \/ /\ pc[p] = "collect" /\ todo'[p] = todo[p] /\ data'[p] = data[p]
               /\ hosted'[p] = hosted[p] /\ graph'[p] = graph[p] /\ iteration'[p] = iteration[p]
<1>1. /\ pc \in [Peers -> PCs] /\ DOMAIN hosted = Peers /\ DOMAIN todo = Peers /\ DOMAIN iteration = Peers
      /\ DOMAIN data = Peers /\ DOMAIN graph = Peers
  BY DEF IInv, Types
<1>2. plan' = plan
  BY DEF Step, Distribute, LeftOut, Announce, RecvCount, RecvIDs, Announced, Spread, StartCollect,
         Collect, RecvAnyEdge, Collected, StartGather, RecvGathered, SendToRoot, Gathered
<1>3. CASE Distribute(x)
  BY <1>1, <1>2, <1>3 DEF Distribute, Goto
<1>4. CASE Announced(x) \/ Collected(x) \/ Gathered(x)
  BY <1>1, <1>2, <1>4 DEF Announced, Collected, Gathered, NextIteration, Goto
<1>5. CASE LeftOut(x) \/ Announce(x) \/ RecvCount(x) \/ RecvIDs(x) \/ StartGather(x) \/ SendToRoot(x)
  <2>1. /\ hosted' = hosted /\ graph' = graph /\ iteration' = iteration /\ data' = data
        /\ \E stage \in PCs \ {"collect"} : \E work : Goto(x, stage, work)
    BY <1>5 DEF LeftOut, Announce, RecvCount, RecvIDs, StartGather, SendToRoot, PCs
  <2> QED
    BY <1>1, <1>2, <2>1 DEF Goto
<1>6. CASE Spread(x) \/ RecvGathered(x)
  <2>1. pc[x] # "collect" /\ (Done(x) \/ Goto(x, "thrown", <<>>))
        /\ hosted' = hosted /\ graph' = graph /\ iteration' = iteration /\ data' = data
    BY <1>6 DEF Spread, RecvGathered
  <2> QED
    BY <1>1, <1>2, <2>1 DEF Done, Goto
<1>7. CASE StartCollect(x) \/ Collect(x) \/ RecvAnyEdge(x)
  <2>1. /\ hosted' = hosted /\ graph' = graph /\ iteration' = iteration
        /\ \A y \in Peers \ {x} : data'[y] = data[y] /\ todo'[y] = todo[y] /\ pc'[y] = pc[y]
    BY <1>1, <1>7 DEF StartCollect, Collect, RecvAnyEdge, Done, Goto
  <2>2. Collect(x) /\ ~Done(x) => pc'[x] = "thrown"
    BY <1>1 DEF Collect, Goto
  <2> QED
    BY <1>2, <1>7, <2>1, <2>2
<1> QED
  BY <1>3, <1>4, <1>5, <1>6, <1>7 DEF Step

\* One more of a function of numbers.
LEMMA OneMore ==
  ASSUME NEW n \in Nat, NEW F
  PROVE  /\ Append([j \in 1 .. n |-> F[j]], F[n + 1]) = [j \in 1 .. n + 1 |-> F[j]]
<1> DEFINE S == {F[j] : j \in 1 .. n + 1}
<1>1. \A j \in 1 .. n + 1 : F[j] \in S
  OBVIOUS
<1>2. n + 1 \in 1 .. n + 1 /\ \A j \in 1 .. n : j \in 1 .. n + 1
  OBVIOUS
<1> HIDE DEF S
<1>3. [j \in 1 .. n |-> F[j]] \in Seq(S) /\ Len([j \in 1 .. n |-> F[j]]) = n
  BY <1>1, <1>2
<1> QED
  BY <1>1, <1>2, <1>3

\* What p has collected, and what is next.
LEMMA NextDatum ==
  ASSUME IInv, NEW x \in Peers, pc[x] = "collect", todo[x] # <<>>
  PROVE  \E n \in Nat : /\ n = Len(InEdges(x)) - Len(todo[x]) /\ n + 1 = Len(InEdges(x)) - Len(Tail(todo[x]))
                        /\ Head(todo[x]) = InEdges(x)[n + 1] /\ n + 1 <= Len(InEdges(x))
<1>1. PICK d \in Nat :
        /\ Len(InEdges(x)) = d + Len(todo[x]) /\ Len(todo[x]) \in Nat
        /\ \A j \in 1 .. Len(todo[x]) : todo[x][j] = InEdges(x)[d + j]
  BY Collecting
<1>2. todo[x] \in Seq(Nat)
  BY DEF IInv, Types
<1>3. /\ Len(todo[x]) \in Nat \ {0} /\ Len(Tail(todo[x])) = Len(todo[x]) - 1 /\ todo[x][1] = Head(todo[x])
  BY <1>2, WorkFacts
<1>4. PICK l \in Nat \ {0} : l = Len(todo[x])
  BY <1>3
<1>5. PICK k \in Nat : k = Len(InEdges(x)) /\ k = d + l
  BY <1>1, <1>4
<1>6. 1 \in 1 .. l /\ d = k - l /\ d + 1 = k - (l - 1) /\ d + 1 <= k
  BY <1>5
<1> QED
  BY <1>1, <1>3, <1>4, <1>5, <1>6

\* The stream s starts with what the host q of the source of edge t has spread in
\* iteration i, and goes on with what it spread later.
HeadOfAny(p, q, r, t, s, i) ==
    /\ Head(s) = Message("data", Value(r, From(r, t), i)) /\ RankOf(Head(s)) = 3 * i
    /\ t \in EdgeTags(r) /\ t \in Range(InEdges(p)) /\ HostedIn(r, From(r, t)) = {q}
    /\ Head(s) \in Range(s) /\ Range(Tail(s)) \subseteq Range(s)
    /\ 3 * i <= SentMost(q, r, t)
    /\ \A m \in Range(Tail(s)) : 3 * i < RankOf(m)

\* What p receives from any edge is of this kind.
LEMMA FromAnyEdge ==
  ASSUME IInv, plan.any, NEW p \in Peers, pc[p] = "collect", NEW r, r = round(p),
         NEW q \in Peers, NEW t \in Tags, NEW s, s = Box(p, r, q, t), s # <<>>
  PROVE  \E i \in Iterations : HeadOfAny(p, q, r, t, s, i)
<1>1. /\ plan \in Plans /\ r \in Nat /\ r \in Rounds /\ p \in InRound(r) /\ InRound(r) \subseteq Peers
      /\ graph[p] = EdgesOf(r) /\ plan.iterations \in Nat /\ ~plan.gather
  BY Iterating, PlanFacts
<1>2. PICK all \in Int, most \in Int : most = SentMost(q, r, t) /\ StreamOf(s, q, p, r, t, 2, all, most)
  <2>1. pc[p] \notin Inactive /\ Got(p, q, t) = 2
    BY DEF Inactive, Got
  <2> QED
    BY <2>1, StreamNow
<1>3. s \in Seq(Messages)
  BY BoxTypes DEF IInv
<1>4. /\ Right(q, p, r, t, Head(s)) /\ Head(s) \in Range(s) /\ Range(Tail(s)) \subseteq Range(s)
      /\ \A m \in Range(Tail(s)) : RankOf(Head(s)) < RankOf(m)
  BY <1>2, <1>3, StreamTail
<1>5. /\ RankOf(Head(s)) \in 1 .. most
      /\ Owes(q, p, r, t, RankOf(Head(s))) => 2 < RankOf(Head(s))
  BY <1>2, <1>4 DEF StreamOf
<1>6. RankOf(Head(s)) \notin {1, 2}
  <2>1. RankOf(Head(s)) \in {1, 2} => Owes(q, p, r, t, RankOf(Head(s)))
    BY <1>1, <1>4, RightIsOwed
  <2> QED
    BY <1>5, <2>1
<1>7. PICK m0 : m0 = Head(s)
  OBVIOUS
<1>8. PICK i \in Iterations : /\ m0 = Message("data", Value(r, From(r, t), i)) /\ t \in EdgeTags(r)
                              /\ q \in HostedIn(r, From(r, t))
                              /\ HostedIn(r, To(r, t)) # {} => p = LastHost(r, To(r, t))
  <2>1. /\ m0 # Message("count", Len(Mapped(q, r)))
        /\ m0 # Message("ids", Mapped(q, r))
    BY <1>6, <1>7 DEF RankOf, Message
  <2>2. Right(q, p, r, t, m0)
    BY <1>4, <1>7
  <2> QED
    BY <1>1, <2>1, <2>2 DEF Right
<1>9. /\ From(r, t) \in VertexSet(r) /\ To(r, t) \in VertexSet(r) /\ From(r, t) \in Nat
  BY <1>1, <1>8, EdgeFacts
<1>10. HostedIn(r, From(r, t)) = {q}
  BY <1>1, <1>8, <1>9, OneHost
<1>11. t \in Range(InEdges(p))
  <2>1. PICK v \in VertexSet(r) : v = To(r, t)
    BY <1>9
  <2>2. HostedIn(r, v) = {LastHost(r, v)}
    BY <1>1, OneHost
  <2>3. p \in HostedIn(r, To(r, t))
    BY <1>8, <2>1, <2>2
  <2>4. To(r, t) \in Range(Mapped(p, r))
    BY <2>3 DEF HostedIn
  <2> QED
    BY <1>8, <2>4, Collecting
<1>12. RankOf(m0) = 3 * i
  <2>1. i \in Nat
    BY <1>1 DEF Iterations
  <2>2. PICK a : a = From(r, t) /\ a \in Nat
    BY <1>9
  <2>3. r \in Nat
    BY <1>1
  <2>4. RankOf(Message("data", Value(r, a, i))) = 3 * i
    BY <2>1, <2>2, <2>3, MessageFacts
  <2> QED
    BY <1>8, <2>2, <2>4
<1> QED
  BY <1>2, <1>4, <1>5, <1>7, <1>8, <1>10, <1>11, <1>12 DEF HeadOfAny

\* Nothing overtakes.
LEMMA PastStays ==
  ASSUME IInv, plan.any, NEW x \in Peers, Step(x), NEW p \in Peers, round(p)' = round(p), round(p) \in Nat,
         NEW d, Past(p, d), 3 * d.value[3] \in Int
  PROVE  Past(p, d)'
<1>1. PICK r, t, k : r = round(p) /\ t = d.edge /\ k = 3 * d.value[3] /\ r \in Nat /\ k \in Int
  OBVIOUS
<1>2. plan' = plan
  BY SentGrows
<1>3. HostedIn(r, From(r, t))' = HostedIn(r, From(r, t)) /\ HostedIn(r, From(r, t)) \subseteq Peers
  <2>1. From(r, t)' = From(r, t) /\ \A v : HostedIn(r, v)' = HostedIn(r, v)
    BY <1>2, PlanStays
  <2>2. HostedIn(r, From(r, t)) \subseteq Peers
    BY DEF HostedIn
  <2> QED
    BY <2>1, <2>2
<1>4. ASSUME NEW q \in HostedIn(r, From(r, t))
      PROVE  /\ k <= SentMost(q, r, t)'
             /\ \A m \in Range(Get(inBox'[p], Key(r, q, t), <<>>)) : k < RankOf(m)
  <2>1. k <= SentMost(q, r, t) /\ \A m \in Range(Box(p, r, q, t)) : k < RankOf(m)
    BY <1>1, <1>4 DEF Past
  <2>2. /\ SentMost(q, r, t) \in Int /\ SentMost(q, r, t)' \in Int /\ SentMost(q, r, t) <= SentMost(q, r, t)'
        /\ \A m \in Range(Get(inBox'[p], Key(r, q, t), <<>>)) :
             m \in Range(Box(p, r, q, t)) \/ (RankOf(m) \in Int /\ SentMost(q, r, t) < RankOf(m))
    BY <1>1, <1>3, <1>4, Flow
  <2> QED
    BY <1>1, <2>1, <2>2
<1>5. \A q : Box(p, r, q, t)' = Get(inBox'[p], Key(r, q, t), <<>>)
  BY DEF Box
<1> QED
  BY <1>1, <1>3, <1>4, <1>5 DEF Past

LEMMA CollectedInOrderKeeps ==
  ASSUME IInv, NEW x \in Peers, Step(x), NEW p \in Peers, CollectedInOrder(p)
  PROVE  CollectedInOrder(p)'
<1> SUFFICES ASSUME pc'[p] = "collect", ~plan'.any
             PROVE  data'[p] = [j \in 1 .. Len(InEdges(p)') - Len(todo'[p]) |->
                      Datum(InEdges(p)'[j], Value(round(p)', Source(p, InEdges(p)[j])', iteration'[p]))]
  BY DEF CollectedInOrder
<1>1. plan' = plan /\ ~plan.any
  BY StillCollecting
<1>2. CASE pc[p] = "collect" /\ todo'[p] = todo[p] /\ data'[p] = data[p]
           /\ hosted'[p] = hosted[p] /\ graph'[p] = graph[p] /\ iteration'[p] = iteration[p]
  <2>1. InEdges(p)' = InEdges(p) /\ round(p)' = round(p)
    BY <1>2, InEdgesStay DEF round
  <2>2. \A j : Source(p, InEdges(p)[j])' = Source(p, InEdges(p)[j])
    BY <1>2, <2>1 DEF Source
  <2> QED
    BY <1>1, <1>2, <2>1, <2>2 DEF CollectedInOrder
<1>3. CASE p = x /\ StartCollect(x)
  <2>1. data'[p] = <<>> /\ todo'[p] = InEdges(p) /\ graph' = graph /\ hosted' = hosted
    BY <1>3 DEF IInv, Types, StartCollect, Goto
  <2>2. InEdges(p)' = InEdges(p)
    BY <2>1, InEdgesStay
  <2>3. Len(InEdges(p)) \in Nat
    <3>1. /\ plan \in Plans /\ round(x) \in Rounds /\ graph[x] = EdgesOf(round(x))
          /\ hosted[x][round(x)] = Mapped(x, round(x))
          /\ Mapped(x, round(x)) \in Seq(Nat) /\ IsInjective(Mapped(x, round(x)))
      BY <1>3, Iterating DEF StartCollect
    <3>2. InEdges(x) \in Seq(EdgeTags(round(x)))
      BY <3>1, InEdgesFacts
    <3> QED
      BY <1>3, <3>2
  <2>4. Len(InEdges(p)') - Len(todo'[p]) = 0
    BY <2>1, <2>2, <2>3
  <2> QED
    BY <2>1, <2>4
<1>4. CASE p = x /\ Collect(x) /\ Done(x)
  <2>1. PICK r, i, e, q : /\ r = round(x) /\ i = iteration[x] /\ e = Head(todo[x])
                          /\ q = locateVertex(x, From(r, e))
    OBVIOUS
  <2>2. pc[x] = "collect" /\ todo[x] # <<>>
    BY <1>4 DEF Collect
  <2>3. /\ plan \in Plans /\ r \in Rounds /\ r \in Nat /\ graph[x] = EdgesOf(r) /\ todo[x] \in Seq(Nat)
        /\ i \in Nat
    BY <2>1, <2>2, Iterating
  <2>4. PICK n \in Nat : /\ n = Len(InEdges(x)) - Len(todo[x]) /\ n + 1 = Len(InEdges(x)) - Len(Tail(todo[x]))
                         /\ e = InEdges(x)[n + 1]
    BY <2>1, <2>2, NextDatum
  <2>5. e \in EdgeTags(r) /\ e \in Tags /\ Source(x, e) = From(r, e)
    <3>1. e \in Range(todo[x]) /\ Range(todo[x]) \subseteq Range(InEdges(x))
          /\ Range(InEdges(x)) \subseteq EdgeTags(r)
      BY <2>1, <2>2, <2>3, WorkFacts, Collecting
    <3> QED
      BY <2>3, <3>1, EdgeFacts, GraphFacts
  <2>6. /\ q # None /\ Received(x, q, e) /\ data' = [data EXCEPT ![x] = Append(@, Datum(e, Head(Arrived(x, q, e)).body))]
        /\ hosted' = hosted /\ graph' = graph /\ iteration' = iteration /\ todo'[x] = Tail(todo[x])
    <3>1. DOMAIN todo = Peers /\ DOMAIN pc = Peers
      BY DEF IInv, Types
    <3>2. pc'[x] # "thrown" /\ todo'[x] = Tail(todo[x])
      BY <1>4, <2>2, <3>1 DEF Done
    <3>3. ~Goto(x, "thrown", <<>>)
      BY <3>1, <3>2 DEF Goto
    <3> QED
      BY <1>4, <2>1, <2>5, <3>2, <3>3 DEF Collect
  <2>7. q \in Peers
    BY <2>1, <2>6 DEF IInv, Types, locateVertex, Get
  <2>8. PICK s : s = Box(x, r, q, e) /\ s = Arrived(x, q, e) /\ s # <<>>
    BY <2>1, <2>6 DEF Box, Arrived, Received
  <2>9. Head(s) = Message("data", Value(r, From(r, e), i))
    <3>1. e \in Range(todo[x])
      BY <2>1, <2>2, <2>3, WorkFacts
    <3>2. Got(x, q, e) = 3 * i - 1 /\ pc[x] \notin Inactive
      BY <1>1, <2>1, <2>2, <3>1 DEF Got, Inactive
    <3>3. PICK all \in Int, most \in Int : most <= all + 1 /\ StreamOf(s, q, x, r, e, 3 * i - 1, all, most)
      BY <2>1, <2>5, <2>7, <2>8, <3>2, StreamNow
    <3> QED
      BY <1>1, <2>1, <2>2, <2>7, <2>8, <3>3, AlongEdge
  <2>10. data'[x] = Append(data[x], Datum(e, Value(r, From(r, e), i)))
    BY <2>6, <2>8, <2>9 DEF Message, IInv, Types
  <2>11. InEdges(x)' = InEdges(x) /\ round(x)' = r /\ \A j : Source(x, InEdges(x)[j])' = Source(x, InEdges(x)[j])
    <3>1. InEdges(x)' = InEdges(x) /\ round(x)' = r
      BY <2>1, <2>6, InEdgesStay DEF round
    <3> QED
      BY <2>6, <3>1 DEF Source
  <2>12. PICK F : F = [j \in 1 .. n + 1 |-> Datum(InEdges(x)[j], Value(r, Source(x, InEdges(x)[j]), i))]
    OBVIOUS
  <2>13. n + 1 \in 1 .. n + 1 /\ \A j \in 1 .. n : j \in 1 .. n + 1
    OBVIOUS
  <2>14. data[x] = [j \in 1 .. n |-> F[j]]
    <3>1. data[x] = [j \in 1 .. n |-> Datum(InEdges(x)[j], Value(r, Source(x, InEdges(x)[j]), i))]
      BY <1>1, <1>4, <2>1, <2>2, <2>4 DEF CollectedInOrder
    <3> QED
      BY <2>12, <2>13, <3>1
  <2>15. F[n + 1] = Datum(e, Value(r, From(r, e), i))
    BY <2>4, <2>5, <2>12, <2>13
  <2>16. data'[x] = [j \in 1 .. n + 1 |-> F[j]]
    BY <2>10, <2>14, <2>15, OneMore
  <2>17. data'[x] = [j \in 1 .. n + 1 |-> Datum(InEdges(x)[j], Value(r, Source(x, InEdges(x)[j]), i))]
    BY <2>12, <2>16
  <2> QED
    BY <1>4, <2>1, <2>4, <2>6, <2>11, <2>17
<1> QED
  BY <1>1, <1>2, <1>3, <1>4, StillCollecting DEF RecvAnyEdge

LEMMA CollectedFromAnyKeeps ==
  ASSUME IInv, NEW x \in Peers, Step(x), NEW p \in Peers, CollectedFromAny(p), Fresh(p)
  PROVE  CollectedFromAny(p)' /\ Fresh(p)'
<1> SUFFICES ASSUME pc'[p] = "collect", plan'.any
             PROVE  CollectedFromAny(p)' /\ Fresh(p)'
  BY DEF CollectedFromAny, Fresh
<1>1. plan' = plan /\ plan.any /\ plan.iterations \in Nat
  BY StillCollecting, PlanFacts DEF IInv, Types
<1>2. CASE pc[p] = "collect" /\ todo'[p] = todo[p] /\ data'[p] = data[p]
           /\ hosted'[p] = hosted[p] /\ graph'[p] = graph[p] /\ iteration'[p] = iteration[p]
  <2>1. InEdges(p)' = InEdges(p) /\ round(p)' = round(p) /\ round(p) \in Nat
    BY <1>2, InEdgesStay, RoundNumber DEF round, IInv
  <2>2. \A e : Source(p, e)' = Source(p, e)
    BY <1>2 DEF Source
  <2>3. CollectedFromAny(p)'
    BY <1>1, <1>2, <2>1, <2>2 DEF CollectedFromAny
  <2>4. ASSUME NEW j \in DOMAIN data[p]
        PROVE  Past(p, data[p][j])'
    <3>1. PICK d : d = data[p][j]
      OBVIOUS
    <3>2. \E i \in 1 .. plan.iterations : d.value = Value(round(p), Source(p, d.edge), i)
      <4>1. data[p] \in Seq([edge : Nat, value : Nat \cup Seq(Nat)])
        BY DEF IInv, Types
      <4>2. j \in 1 .. Len(data[p])
        BY <4>1
      <4> QED
        BY <1>1, <1>2, <3>1, <4>2 DEF CollectedFromAny
    <3>3. 3 * d.value[3] \in Int
      BY <3>2 DEF Value
    <3>4. Past(p, d)
      BY <1>1, <1>2, <3>1 DEF Fresh
    <3>5. Past(p, d)'
      BY <1>1, <2>1, <3>3, <3>4, PastStays
    <3> QED
      BY <1>2, <3>1, <3>5
  <2>5. Fresh(p)'
    BY <1>2, <2>4 DEF Fresh
  <2> QED
    BY <2>3, <2>5
<1>3. CASE p = x /\ StartCollect(x)
  <2>1. data'[p] = <<>> /\ todo'[p] = InEdges(p) /\ graph' = graph /\ hosted' = hosted
    BY <1>3 DEF IInv, Types, StartCollect, Goto
  <2>2. InEdges(p)' = InEdges(p)
    BY <2>1, InEdgesStay
  <2>3. Len(InEdges(p)) \in Nat
    <3>1. /\ plan \in Plans /\ round(x) \in Rounds /\ graph[x] = EdgesOf(round(x))
          /\ hosted[x][round(x)] = Mapped(x, round(x))
          /\ Mapped(x, round(x)) \in Seq(Nat) /\ IsInjective(Mapped(x, round(x)))
      BY <1>3, Iterating DEF StartCollect
    <3>2. InEdges(x) \in Seq(EdgeTags(round(x)))
      BY <3>1, InEdgesFacts
    <3> QED
      BY <1>3, <3>2
  <2>4. Len(InEdges(p)') - Len(todo'[p]) = 0 /\ Len(<<>>) = 0 /\ 1 .. 0 = {} /\ DOMAIN <<>> = {}
    BY <2>1, <2>2, <2>3
  <2>5. CollectedFromAny(p)'
    BY <2>1, <2>4 DEF CollectedFromAny
  <2>6. Fresh(p)'
    BY <2>1, <2>4 DEF Fresh
  <2> QED
    BY <2>5, <2>6
<1>4. CASE p = x /\ RecvAnyEdge(x)
  <2>1. PICK r : r = round(x)
    OBVIOUS
  <2>2. /\ pc[x] = "collect" /\ todo[x] # <<>> /\ graph' = graph /\ hosted' = hosted
        /\ todo'[x] = Tail(todo[x])
    BY <1>4 DEF RecvAnyEdge, Done, IInv, Types
  <2>3. /\ plan \in Plans /\ r \in Rounds /\ r \in Nat /\ graph[x] = EdgesOf(r) /\ Members(r) \subseteq Peers
    BY <2>1, <2>2, Iterating
  <2>4. PICK q \in Peers, t \in Tags :
          /\ Received(x, q, t)
          /\ data' = [data EXCEPT ![x] = Append(@, Datum(t, Head(Arrived(x, q, t)).body))]
    BY <1>4, <2>1, <2>3 DEF RecvAnyEdge
  <2>5. PICK s : s = Box(x, r, q, t) /\ s = Arrived(x, q, t) /\ s # <<>>
    BY <2>1, <2>4 DEF Box, Arrived, Received
  <2>6. PICK i \in Iterations : HeadOfAny(x, q, r, t, s, i)
    BY <1>1, <2>1, <2>2, <2>5, FromAnyEdge
  <2>7. /\ Head(s) = Message("data", Value(r, From(r, t), i)) /\ RankOf(Head(s)) = 3 * i
        /\ t \in EdgeTags(r) /\ t \in Range(InEdges(x)) /\ HostedIn(r, From(r, t)) = {q}
        /\ Head(s) \in Range(s) /\ Range(Tail(s)) \subseteq Range(s)
        /\ 3 * i <= SentMost(q, r, t)
        /\ \A m \in Range(Tail(s)) : 3 * i < RankOf(m)
    BY <2>6 DEF HeadOfAny
  <2>8. PICK new : new = Datum(t, Value(r, From(r, t), i))
    OBVIOUS
  <2>9. new.edge = t /\ new.value = Value(r, From(r, t), i) /\ new.value[3] = i /\ i \in Nat /\ i \in 1 .. plan.iterations
    BY <1>1, <2>8 DEF Datum, Value, Iterations
  <2>10. data'[x] = Append(data[x], new)
    BY <2>4, <2>5, <2>7, <2>8 DEF Message, IInv, Types
  <2>11. PICK n \in Nat : /\ n = Len(InEdges(x)) - Len(todo[x])
                          /\ n + 1 = Len(InEdges(x)) - Len(Tail(todo[x]))
    BY <2>2, NextDatum
  <2>12. PICK d : d = data[x]
    OBVIOUS
  <2>13. /\ Len(d) = n
         /\ \A j \in 1 .. n :
              /\ d[j].edge \in Range(InEdges(x))
              /\ \E k \in 1 .. plan.iterations : d[j].value = Value(r, Source(x, d[j].edge), k)
              /\ \A k \in 1 .. j - 1 : d[k].edge = d[j].edge => d[k].value[3] < d[j].value[3]
         /\ \A j \in DOMAIN d : Past(x, d[j])
    BY <1>1, <1>4, <2>1, <2>2, <2>11, <2>12 DEF CollectedFromAny, Fresh
  <2>14. d \in Seq([edge : Nat, value : Nat \cup Seq(Nat)]) /\ DOMAIN d = 1 .. n
    BY <2>12, <2>13 DEF IInv, Types
  <2>15. PICK d2 : d2 = data'[x]
    OBVIOUS
  <2>16. Len(d2) = n + 1 /\ DOMAIN d2 = 1 .. n + 1 /\ d2[n + 1] = new /\ \A j \in 1 .. n : d2[j] = d[j]
    BY <2>10, <2>12, <2>13, <2>14, <2>15
  <2>17. InEdges(x)' = InEdges(x) /\ round(x)' = r /\ \A e : Source(x, e)' = Source(x, e)
    BY <2>1, <2>2, InEdgesStay DEF round, Source
  <2>18. Source(x, t) = From(r, t)
    BY <2>3, <2>7, GraphFacts
  <2>19. \A j \in 1 .. n : d[j].value[3] \in Nat /\ (d[j].edge = t => d[j].value[3] < i)
    <3> TAKE j \in 1 .. n
    <3>1. d[j].value[3] \in Nat
      <4>1. PICK k \in 1 .. plan.iterations : d[j].value = Value(r, Source(x, d[j].edge), k)
        BY <2>13
      <4> QED
        BY <4>1 DEF Value
    <3>2. ASSUME d[j].edge = t
          PROVE  d[j].value[3] < i
      <4>1. 3 * d[j].value[3] < RankOf(Head(s))
        BY <2>1, <2>5, <2>7, <2>13, <2>14, <3>2 DEF Past
      <4> QED
        BY <2>7, <2>9, <3>1, <4>1
    <3> QED
      BY <3>1, <3>2
  <2>20. CollectedFromAny(p)'
    <3>1. ASSUME NEW j \in 1 .. n + 1
          PROVE  /\ d2[j].edge \in Range(InEdges(x))
                 /\ \E k \in 1 .. plan.iterations : d2[j].value = Value(r, Source(x, d2[j].edge), k)
                 /\ \A k \in 1 .. j - 1 : d2[k].edge = d2[j].edge => d2[k].value[3] < d2[j].value[3]
      <4>1. CASE j \in 1 .. n
        <5>1. d2[j] = d[j] /\ \A k \in 1 .. j - 1 : d2[k] = d[k]
          BY <2>16, <4>1
        <5> QED
          BY <2>13, <4>1, <5>1
      <4>2. CASE j = n + 1
        <5>1. d2[j] = new /\ j - 1 = n /\ \A k \in 1 .. n : d2[k] = d[k]
          BY <2>16, <4>2
        <5> QED
          BY <2>7, <2>9, <2>18, <2>19, <5>1
      <4> QED
        BY <4>1, <4>2
    <3>2. Len(InEdges(x)') - Len(todo'[x]) = n + 1
      BY <2>2, <2>11, <2>17
    <3>3. /\ Len(data'[x]) = n + 1 /\ plan'.iterations = plan.iterations
          /\ \A j \in 1 .. n + 1 :
               /\ data'[x][j].edge \in Range(InEdges(x)')
               /\ \E k \in 1 .. plan.iterations :
                    data'[x][j].value = Value(round(x)', Source(x, data[x][j].edge)', k)
               /\ \A k \in 1 .. j - 1 :
                    data'[x][k].edge = data'[x][j].edge => data'[x][k].value[3] < data'[x][j].value[3]
      BY <1>1, <2>15, <2>16, <2>17, <3>1
    <3>4. /\ Len(data'[x]) = Len(InEdges(x)') - Len(todo'[x])
          /\ \A j \in 1 .. Len(InEdges(x)') - Len(todo'[x]) :
               /\ data'[x][j].edge \in Range(InEdges(x)')
               /\ \E k \in 1 .. plan'.iterations :
                    data'[x][j].value = Value(round(x)', Source(x, data[x][j].edge)', k)
               /\ \A k \in 1 .. j - 1 :
                    data'[x][k].edge = data'[x][j].edge => data'[x][k].value[3] < data'[x][j].value[3]
      BY <3>2, <3>3, Zenon
    <3> QED
      BY <1>4, <3>4, Zenon DEF CollectedFromAny
  <2>21. ASSUME NEW j \in 1 .. n + 1
         PROVE  Past(x, d2[j])'
    <3>1. CASE j \in 1 .. n
      <4>1. Past(x, d[j]) /\ 3 * d[j].value[3] \in Int
        <5>1. Past(x, d[j])
          BY <2>13, <2>14, <3>1
        <5> QED
          BY <2>19, <3>1, <5>1
      <4>2. PICK old : old = d[j]
        OBVIOUS
      <4>3. Past(x, old)'
        BY <1>1, <2>1, <2>3, <2>17, <4>1, <4>2, PastStays
      <4> QED
        BY <2>16, <3>1, <4>2, <4>3
    <3>2. CASE j = n + 1
      <4>1. 3 * i <= SentMost(q, r, t)'
        <5>1. /\ SentMost(q, r, t) \in Int /\ SentMost(q, r, t)' \in Int
              /\ SentMost(q, r, t) <= SentMost(q, r, t)'
          BY <1>1, <2>3, Flow
        <5> QED
          BY <2>7, <2>9, <5>1
      <4>2. Box(x, r, q, t)' = Tail(s)
        <5>1. Get(inBox'[x], Key(r, q, t), <<>>) = Tail(Box(x, r, q, t))
          BY <2>1, <2>4, ReceivedFacts DEF IInv
        <5> QED
          BY <2>5, <5>1 DEF Box
      <4>3. HostedIn(r, From(r, t))' = {q}
        <5>1. From(r, t)' = From(r, t) /\ \A v : HostedIn(r, v)' = HostedIn(r, v)
          BY <1>1, PlanStays
        <5> QED
          BY <2>7, <5>1
      <4>4. Past(x, new)'
        BY <2>7, <2>9, <2>17, <4>1, <4>2, <4>3 DEF Past
      <4> QED
        BY <2>16, <3>2, <4>4
    <3> QED
      BY <3>1, <3>2
  <2>22. Fresh(p)'
    BY <1>4, <2>15, <2>16, <2>21 DEF Fresh
  <2> QED
    BY <2>20, <2>22
<1> QED
  BY <1>1, <1>2, <1>3, <1>4, StillCollecting DEF Collect

\* What a peer collects is what the sources of its edges have spread in the round and
\* iteration it is in, edge by edge, and from any edge in the order of the
\* iterations, however far the others have run ahead (collect, recv, spread).
THEOREM CollectsFromNeighbours == Spec => []CollectsNeighbours
<1> DEFINE Inv == \A p \in Peers : CollectedInOrder(p) /\ CollectedFromAny(p) /\ Fresh(p)
<1>1. Init => Inv
  BY DEF Init, CollectedInOrder, CollectedFromAny, Fresh
<1>2. IInv /\ Inv /\ [Next]_vars => Inv'
  <2>1. ASSUME IInv, Inv, NEW x \in Peers, Step(x), NEW p \in Peers
        PROVE  (CollectedInOrder(p) /\ CollectedFromAny(p) /\ Fresh(p))'
    BY <2>1, CollectedInOrderKeeps, CollectedFromAnyKeeps
  <2>2. ASSUME IInv, Inv, UNCHANGED vars, NEW p \in Peers
        PROVE  (CollectedInOrder(p) /\ CollectedFromAny(p) /\ Fresh(p))'
    <3>1. /\ plan' = plan /\ graph' = graph /\ hosted' = hosted /\ pc' = pc /\ todo' = todo
          /\ iteration' = iteration /\ inBox' = inBox /\ data' = data
      BY <2>2 DEF vars
    <3>2. /\ InEdges(p)' = InEdges(p) /\ round(p)' = round(p) /\ \A e : Source(p, e)' = Source(p, e)
      BY <3>1, InEdgesStay DEF round, Source
    <3>7. \A j : Source(p, InEdges(p)[j])' = Source(p, InEdges(p)[j])
      BY <3>1, <3>2 DEF Source
    <3>8. CollectedInOrder(p) /\ CollectedFromAny(p) /\ Fresh(p)
      BY <2>2
    <3>9. CollectedInOrder(p)'
      BY <3>1, <3>2, <3>7, <3>8 DEF CollectedInOrder
    <3>10. CollectedFromAny(p)'
      BY <3>1, <3>2, <3>8 DEF CollectedFromAny
    <3>3. CollectedInOrder(p)' /\ CollectedFromAny(p)'
      BY <3>9, <3>10
    <3>4. \A y : Stays(y)
      BY <3>1 DEF Stays
    <3>5. ASSUME NEW d, Past(p, d)
          PROVE  Past(p, d)'
      <4>1. /\ \A r, t : From(r, t)' = From(r, t)
            /\ \A r, v : HostedIn(r, v)' = HostedIn(r, v)
            /\ \A q : \A r, t : SentMost(q, r, t)' = SentMost(q, r, t)
            /\ \A q : \A r, t : Box(p, r, q, t)' = Box(p, r, q, t)
        BY <3>1, <3>4, PlanStays, StaysFacts DEF Box
      <4> QED
        BY <3>2, <3>5, <4>1 DEF Past
    <3>6. Fresh(p)'
      BY <2>2, <3>1, <3>5 DEF Fresh
    <3> QED
      BY <3>3, <3>6
  <2> QED
    BY <2>1, <2>2 DEF Next
<1>3. Inv => CollectsNeighbours
  BY DEF CollectsNeighbours, CollectedInOrder, CollectedFromAny
<1> QED
  BY <1>1, <1>2, <1>3, StreamsInvariant, PTL DEF Spec
===============================================================================
