--------------------------------- MODULE Cage ---------------------------------
(***************************************************************************)
(* The cage (include/graybat/Cage.hpp) distributes the vertices of a graph *)
(* over the peers and lets vertices talk along edges.                      *)
(*                                                                         *)
(* All peers execute one plan.  In each of its rounds a peer sets the      *)
(* graph, calls distribute with a mapping, and then, as the example        *)
(* gol.cpp does, a number of times spreads one value from each vertex it   *)
(* hosts, collects the values of their neighbours and gathers at vertex 0. *)
(* Instead of collecting it may, as anyrecv.cpp does, receive from any     *)
(* edge.  Peers proceed at their own pace.                                 *)
(*                                                                         *)
(* Communication is what the modules below promise: splitContext           *)
(* (SplitContext) returns when all peers have called it, with a context of *)
(* the peers that host vertices, ordered by vAddr and under the vAddrs of  *)
(* the global context; messages of one source and tag arrive in order      *)
(* (Transport); connections are never full (PeerToPeer).                   *)
(***************************************************************************)
EXTENDS Mappings, Patterns, FiniteSets, Functions

CONSTANTS
    NPeers,  \* the size of the global context
    Plans,   \* [rounds, a sequence of [pattern, mapping], iterations, any, gather]
    None     \* no host

Peers == 0 .. NPeers - 1
Tags == 0 .. 63

\* The patterns of all plans.
PatternSet == {r.pattern : r \in UNION {Range(g.rounds) : g \in Plans}}

\* Messages of collectives have tag 0, which recv from any edge would take for
\* data of edge 0: no program uses both.  Both need each vertex to have one host.
ASSUME PlansAssumption ==
    /\ NPeers \in Nat \ {0} /\ None \notin Peers
    /\ \A g \in Plans :
         /\ g.rounds \in Seq(Range(g.rounds)) /\ g.iterations \in Nat
         /\ {g.any, g.gather} \subseteq BOOLEAN /\ ~(g.any /\ g.gather)
         /\ \A r \in DOMAIN g.rounds :
              g.rounds[r].mapping.kind \in
                {"Consecutive", "Roundrobin"}
                  \cup (IF g.any \/ g.gather THEN {} ELSE {"Random", "GraphPartition"})

\* Random draws peers.
ASSUME DrawsAssumption ==
    \A g \in Plans : \A r \in DOMAIN g.rounds :
      LET m == g.rounds[r].mapping IN
        m.kind = "Random" => m.draw \in [0 .. VertexCount(g.rounds[r].pattern) - 1 -> Peers]

\* Edges join vertices of the graph, and their ids are tags.
ASSUME PatternsAssumption ==
    \A pattern \in PatternSet :
      /\ VertexCount(pattern) \in Nat
      /\ LET vertices == 0 .. VertexCount(pattern) - 1 IN
           Edges(pattern) \in Seq(vertices \X vertices)
      /\ Len(Edges(pattern)) <= Cardinality(Tags)

VARIABLES
    plan,
    graph,      \* graph[p]: the edges of the graph p has set
    hosted,     \* hosted[p][r]: hostedVertices of the peer in round r
    pc, todo,   \* where the peer is, and what is left to do there
    iteration,
    nVertices,  \* the count a peer has just received
    vertexMap, peerMap,
    inBox,      \* inBox[q][<<r, p, t>>]: messages of p with tag t in graphContext r
    data        \* the values a peer has collected in this iteration

vars == <<plan, graph, hosted, pc, todo, iteration, nVertices, vertexMap, peerMap, inBox, data>>

-----------------------------------------------------------------------------
(* The graph and the context of a round.                                   *)

round(p) == Len(hosted[p])
Pattern(r) == plan.rounds[r].pattern
EdgeIDs(p) == [j \in DOMAIN graph[p] |-> j - 1]
Source(p, e) == graph[p][e + 1][1]
Target(p, e) == graph[p][e + 1][2]
getOutEdges(p, v) == Kept(EdgeIDs(p), {e \in Range(EdgeIDs(p)) : Source(p, e) = v})
getInEdges(p, v) == Kept(EdgeIDs(p), {e \in Range(EdgeIDs(p)) : Target(p, e) = v})

\* The vertices the mapping of round r gives to p.
Mapped(p, r) ==
    LET m == plan.rounds[r].mapping
        n == VertexCount(Pattern(r))
    IN  CASE m.kind = "Consecutive"    -> Consecutive(p, NPeers, n)
          [] m.kind = "Roundrobin"     -> Roundrobin(p, NPeers, n)
          [] m.kind = "Random"         -> Random(p, n, m.draw)
          [] m.kind = "GraphPartition" -> GraphPartition(p, NPeers, n, m.nParts, m.draw)

\* graphContext, once all peers have called splitContext.
Members(r) == {p \in Peers : hosted[p][r] # <<>>}
graphContext(r) == Kept([j \in 1 .. NPeers |-> j - 1], Members(r))

Init ==
    /\ plan \in Plans
    /\ graph = [p \in Peers |-> <<>>]
    /\ hosted = [p \in Peers |-> <<>>]
    /\ pc = [p \in Peers |-> "idle"]
    /\ todo = [p \in Peers |-> <<>>]
    /\ iteration = [p \in Peers |-> 0]
    /\ nVertices = [p \in Peers |-> 0]
    /\ vertexMap = [p \in Peers |-> <<>>]
    /\ peerMap = [p \in Peers |-> <<>>]
    /\ inBox = [p \in Peers |-> <<>>]
    /\ data = [p \in Peers |-> <<>>]

\* Maps grow as std::map does.
Put(map, k, value) == [x \in DOMAIN map \cup {k} |-> IF x = k THEN value ELSE map[x]]
Get(map, k, default) == IF k \in DOMAIN map THEN map[k] ELSE default

Key(r, p, t) == <<r, p, t>>
Message(kind, body) == [kind |-> kind, body |-> body]

\* p sends messages[<<q, t>>] to q with tag t, in that order.
Sent(p, messages) ==
    inBox' = [q \in Peers |->
      LET Sends(k) == k[1] = round(p) /\ k[2] = p /\ <<q, k[3]>> \in DOMAIN messages
          keys == {Key(round(p), p, d[2]) : d \in {d \in DOMAIN messages : d[1] = q}}
      IN  [k \in DOMAIN inBox[q] \cup keys |->
             Get(inBox[q], k, <<>>) \o (IF Sends(k) THEN messages[<<q, k[3]>>] ELSE <<>>)]]
ToAll(p, messages) == [d \in Members(round(p)) \X {0} |-> messages]

\* The messages p can receive from q with tag t.
Arrived(p, q, t) == Get(inBox[p], Key(round(p), q, t), <<>>)
Received(p, q, t) ==
    /\ Arrived(p, q, t) # <<>>
    /\ inBox' = [inBox EXCEPT ![p] = Put(@, Key(round(p), q, t), Tail(Arrived(p, q, t)))]

Goto(p, stage, work) ==
    /\ pc' = [pc EXCEPT ![p] = stage]
    /\ todo' = [todo EXCEPT ![p] = work]

Done(p) == todo' = [todo EXCEPT ![p] = Tail(@)] /\ UNCHANGED pc

-----------------------------------------------------------------------------
(* setGraph, distribute and announce.                                      *)

Distribute(p) ==
    /\ pc[p] = "idle" /\ round(p) < Len(plan.rounds)
    /\ graph' = [graph EXCEPT ![p] = Edges(Pattern(round(p) + 1))]
    /\ hosted' = [hosted EXCEPT ![p] = Append(@, Mapped(p, round(p) + 1))]
    /\ Goto(p, "split", <<>>)
    /\ UNCHANGED <<plan, iteration, nVertices, vertexMap, peerMap, inBox, data>>

\* Mutation: p misses that others are in a later round already.
SplitReturnedTogether(p) == \A q \in Peers : round(q) = round(p)

\* All peers have called splitContext as often as p.
SplitReturned(p) == \A q \in Peers : round(q) >= round(p)

\* splitContext returns an invalid context to a peer without vertices.
LeftOut(p) ==
    /\ pc[p] = "split" /\ SplitReturned(p)
    /\ hosted[p][round(p)] = <<>>
    /\ Goto(p, "idle", <<>>)
    /\ UNCHANGED <<plan, graph, hosted, iteration, nVertices, vertexMap, peerMap, inBox, data>>

\* Mutation: the vertices first.
AnnounceIDsFirst(p) ==
    /\ pc[p] = "split" /\ SplitReturned(p)
    /\ LET vertices == hosted[p][round(p)] IN
         /\ vertices # <<>>
         /\ Sent(p, ToAll(p, <<Message("ids", vertices), Message("count", Len(vertices))>>))
    /\ Goto(p, "count", graphContext(round(p)))
    /\ UNCHANGED <<plan, graph, hosted, iteration, nVertices, vertexMap, peerMap, data>>

\* The count and the vertices go to every member of the new context, p included.
Announce(p) ==
    /\ pc[p] = "split" /\ SplitReturned(p)
    /\ LET vertices == hosted[p][round(p)] IN
         /\ vertices # <<>>
         /\ Sent(p, ToAll(p, <<Message("count", Len(vertices)), Message("ids", vertices)>>))
    /\ Goto(p, "count", graphContext(round(p)))
    /\ UNCHANGED <<plan, graph, hosted, iteration, nVertices, vertexMap, peerMap, data>>

RecvCount(p) ==
    /\ pc[p] = "count" /\ todo[p] # <<>>
    /\ Received(p, Head(todo[p]), 0)
    /\ nVertices' = [nVertices EXCEPT ![p] = Head(Arrived(p, Head(todo[p]), 0)).body]
    /\ Goto(p, "ids", todo[p])
    /\ UNCHANGED <<plan, graph, hosted, iteration, vertexMap, peerMap, data>>

\* Mutation: only vertices whose host is not known are entered.
RecvIDsOnce(p) ==
    /\ pc[p] = "ids"
    /\ LET q == Head(todo[p])
           ids == Head(Arrived(p, q, 0)).body
       IN  /\ Received(p, q, 0)
           /\ vertexMap' = [vertexMap EXCEPT ![p] =
                [v \in DOMAIN @ \cup Range(ids) |-> Get(@, v, q)]]
           /\ peerMap' = [peerMap EXCEPT ![p] = Put(@, q, ids)]
    /\ Goto(p, "count", Tail(todo[p]))
    /\ UNCHANGED <<plan, graph, hosted, iteration, nVertices, data>>

\* Entries of earlier rounds are overwritten, never removed.
RecvIDs(p) ==
    /\ pc[p] = "ids"
    /\ LET q == Head(todo[p])
           ids == SubSeq(Head(Arrived(p, q, 0)).body, 1, nVertices[p])
       IN  /\ Received(p, q, 0)
           /\ vertexMap' = [vertexMap EXCEPT ![p] =
                [v \in DOMAIN @ \cup Range(ids) |-> IF v \in Range(ids) THEN q ELSE @[v]]]
           /\ peerMap' = [peerMap EXCEPT ![p] = Put(@, q, ids)]
    /\ Goto(p, "count", Tail(todo[p]))
    /\ UNCHANGED <<plan, graph, hosted, iteration, nVertices, data>>

-----------------------------------------------------------------------------
(* spread and collect.                                                     *)

locateVertex(p, v) == Get(vertexMap[p], v, None)

\* What vertex v spreads, and what arrives along an edge.
Value(r, v, i) == <<r, v, i>>
Datum(e, value) == [edge |-> e, value |-> value]

\* What the peer does after an announcement or an iteration.
NextIteration(p, i) ==
    /\ iteration' = [iteration EXCEPT ![p] = IF i < plan.iterations THEN i + 1 ELSE 0]
    /\ \/ i < plan.iterations /\ Goto(p, "spread", hosted[p][round(p)])
       \/ i = plan.iterations /\ Goto(p, "idle", <<>>)

Announced(p) ==
    /\ pc[p] = "count" /\ todo[p] = <<>>
    /\ NextIteration(p, 0)
    /\ UNCHANGED <<plan, graph, hosted, nVertices, vertexMap, peerMap, inBox, data>>

\* A target without a known host, and a host outside the context, which has no
\* socket there, are exceptions; the sends before them are done.
Reachable(p, e) == locateVertex(p, Target(p, e)) \in Members(round(p))

Spread(p) ==
    /\ pc[p] = "spread" /\ todo[p] # <<>>
    /\ LET v == Head(todo[p])
           edges == getOutEdges(p, v)
           before == {j \in DOMAIN edges : \A l \in 1 .. j : Reachable(p, edges[l])}
       IN  /\ Sent(p, [d \in {<<locateVertex(p, Target(p, edges[j])), edges[j]>> : j \in before} |->
                         <<Message("data", Value(round(p), v, iteration[p]))>>])
           /\ \/ before = DOMAIN edges /\ Done(p)
              \/ before # DOMAIN edges /\ Goto(p, "thrown", <<>>)
    /\ UNCHANGED <<plan, graph, hosted, iteration, nVertices, vertexMap, peerMap, data>>

\* The incoming edges of the vertices p hosts, vertex by vertex.
InEdges(p) ==
    LET vertices == hosted[p][round(p)]
        edges[n \in 0 .. Len(vertices)] ==
          IF n = 0 THEN <<>> ELSE edges[n - 1] \o getInEdges(p, vertices[n])
    IN  edges[Len(vertices)]

\* All vertices are spread: the incoming edges of each hosted vertex are next.
StartCollect(p) ==
    /\ pc[p] = "spread" /\ todo[p] = <<>>
    /\ Goto(p, "collect", InEdges(p))
    /\ data' = [data EXCEPT ![p] = <<>>]
    /\ UNCHANGED <<plan, graph, hosted, iteration, nVertices, vertexMap, peerMap, inBox>>

\* Mutation: the tag is that of the host's first message.
CollectAnyTag(p) ==
    /\ pc[p] = "collect" /\ todo[p] # <<>> /\ ~plan.any
    /\ LET host == locateVertex(p, Source(p, Head(todo[p]))) IN
         \E t \in {e \in Tags : Arrived(p, host, e) # <<>>} :
           /\ Received(p, host, t)
           /\ data' = [data EXCEPT ![p] = Append(@, Datum(Head(todo[p]), Head(Arrived(p, host, t)).body))]
    /\ Done(p)
    /\ UNCHANGED <<plan, graph, hosted, iteration, nVertices, vertexMap, peerMap>>

\* recv from a source that is no member blocks for ever.
Collect(p) ==
    /\ pc[p] = "collect" /\ todo[p] # <<>> /\ ~plan.any
    /\ LET e == Head(todo[p])
           host == locateVertex(p, Source(p, e))
       IN  \/ /\ host # None
              /\ Received(p, host, e)
              /\ data' = [data EXCEPT ![p] = Append(@, Datum(e, Head(Arrived(p, host, e)).body))]
              /\ Done(p)
           \/ /\ host = None
              /\ Goto(p, "thrown", <<>>)
              /\ UNCHANGED <<inBox, data>>
    /\ UNCHANGED <<plan, graph, hosted, iteration, nVertices, vertexMap, peerMap>>

\* recv from any edge, as often as there are incoming edges: the tag tells the
\* edge.
RecvAnyEdge(p) ==
    /\ pc[p] = "collect" /\ todo[p] # <<>> /\ plan.any
    /\ \E q \in Members(round(p)), t \in Tags :
         /\ Received(p, q, t)
         /\ data' = [data EXCEPT ![p] = Append(@, Datum(t, Head(Arrived(p, q, t)).body))]
    /\ Done(p)
    /\ UNCHANGED <<plan, graph, hosted, iteration, nVertices, vertexMap, peerMap>>

Collected(p) ==
    /\ pc[p] = "collect" /\ todo[p] = <<>> /\ ~plan.gather
    /\ NextIteration(p, iteration[p])
    /\ UNCHANGED <<plan, graph, hosted, nVertices, vertexMap, peerMap, inBox, data>>

-----------------------------------------------------------------------------
(* The gather of an iteration, by the vertex called last (CageCollectives):*)
(* gatherVar of the policy, an allGather of the sizes and a gather.        *)

StartGather(p) ==
    /\ pc[p] = "collect" /\ todo[p] = <<>> /\ plan.gather
    /\ Sent(p, ToAll(p, <<Message("sizes", Value(round(p), p, iteration[p]))>>))
    /\ Goto(p, "sizes", graphContext(round(p)))
    /\ UNCHANGED <<plan, graph, hosted, iteration, nVertices, vertexMap, peerMap, data>>

\* A size, or what a peer contributes to the gather.
RecvGathered(p) ==
    /\ pc[p] \in {"sizes", "gather"} /\ todo[p] # <<>>
    /\ Received(p, Head(todo[p]), 0)
    /\ Done(p)
    /\ UNCHANGED <<plan, graph, hosted, iteration, nVertices, vertexMap, peerMap, data>>

SendToRoot(p) ==
    /\ pc[p] = "sizes" /\ todo[p] = <<>>
    /\ LET root == locateVertex(p, 0) IN
         /\ Sent(p, [d \in {<<root, 0>>} |-> <<Message("gather", Value(round(p), p, iteration[p]))>>])
         /\ Goto(p, "gather", IF root = p THEN graphContext(round(p)) ELSE <<>>)
    /\ UNCHANGED <<plan, graph, hosted, iteration, nVertices, vertexMap, peerMap, data>>

Gathered(p) ==
    /\ pc[p] = "gather" /\ todo[p] = <<>>
    /\ NextIteration(p, iteration[p])
    /\ UNCHANGED <<plan, graph, hosted, nVertices, vertexMap, peerMap, inBox, data>>

Step(p) ==
    \/ Distribute(p) \/ LeftOut(p) \/ Announce(p) \/ RecvCount(p) \/ RecvIDs(p)
    \/ Announced(p) \/ Spread(p)
    \/ StartCollect(p) \/ Collect(p) \/ RecvAnyEdge(p) \/ Collected(p)
    \/ StartGather(p) \/ RecvGathered(p) \/ SendToRoot(p) \/ Gathered(p)

Next == \E p \in Peers : Step(p)

Spec == Init /\ [][Next]_vars

\* The threads of the peers run.
FairSpec == Spec /\ \A p \in Peers : WF_vars(Step(p))

-----------------------------------------------------------------------------
(* Properties                                                              *)

\* What depends on the plan alone is evaluated once.
Initially == \A p \in Peers : hosted[p] = <<>>

VertexSet(r) == 0 .. VertexCount(Pattern(r)) - 1
Hosts(r, v) == {p \in Peers : v \in Range(hosted[p][r])}

\* A distribution the library promises to work with.  Random gives vertices to
\* peers that take none if there are more peers than vertices, and
\* GraphPartition makes as many parts as it is told.
Proper(r) ==
    LET m == plan.rounds[r].mapping IN
      /\ m.kind = "Random" => \A v \in VertexSet(r) : m.draw[v] <= VertexCount(Pattern(r))
      /\ m.kind = "GraphPartition" =>
           /\ m.nParts # 1 \/ NPeers = 1
           /\ \A v \in VertexSet(r) : m.draw[v] \in Peers

\* The mappings partition the vertices: no vertex is left out or hosted twice,
\* neither by two peers nor by one (Consecutive, Roundrobin, and the others
\* where the number of their parts fits the number of peers).
MappingsPartition ==
    Initially => \A r \in DOMAIN plan.rounds : Proper(r) =>
      /\ \A v \in VertexSet(r) : Cardinality({p \in Peers : v \in Range(Mapped(p, r))}) = 1
      /\ \A p \in Peers : IsInjective(Mapped(p, r)) /\ Range(Mapped(p, r)) \subseteq VertexSet(r)

Distance(a, b) == IF a < b THEN b - a ELSE a - b

\* The edges of the patterns by what their names mean.
Reference(pattern) ==
    LET n == VertexCount(pattern)
        row(v) == v \div pattern.width
        column(v) == v % pattern.width
        Pairs(R(_, _)) == {e \in (0 .. n - 1) \X (0 .. n - 1) : R(e[1], e[2])}
    IN  CASE pattern.kind \in {"EdgeLess", "None"} -> {}
          [] pattern.kind = "OutStar"        -> Pairs(LAMBDA a, b : a = 0 /\ b # 0)
          [] pattern.kind = "InStar"         -> Pairs(LAMBDA a, b : a # 0 /\ b = 0)
          [] pattern.kind = "BiStar"         -> Pairs(LAMBDA a, b : (a = 0) # (b = 0))
          [] pattern.kind = "Chain"          -> Pairs(LAMBDA a, b : b = a + 1)
          [] pattern.kind = "Ring"           -> Pairs(LAMBDA a, b : b = (a + 1) % n /\ a # b)
          [] pattern.kind = "FullyConnected" -> Pairs(LAMBDA a, b : a # b)
          [] pattern.kind = "HyperCube"      ->
               Pairs(LAMBDA a, b : \E k \in 0 .. pattern.height - 1 :
                       Distance(a, b) = 2^k /\ a \div 2^(k + 1) = b \div 2^(k + 1))
          [] pattern.kind = "Grid"           ->
               Pairs(LAMBDA a, b : Distance(row(a), row(b)) + Distance(column(a), column(b)) = 1)
          [] pattern.kind = "GridDiagonal"   ->
               Pairs(LAMBDA a, b : a # b /\ Distance(row(a), row(b)) <= 1
                                         /\ Distance(column(a), column(b)) <= 1)

\* Every pattern has the edges its name means, each once: the wrap-around of a
\* ring, the borders of a grid, and the unsigned arithmetic in their
\* conditions.  A random graph has as many edges from each vertex as it is told.
PatternsAreRight ==
    Initially => \A r \in DOMAIN plan.rounds :
      LET pattern == Pattern(r)
          edges == Edges(pattern)
      IN  IF pattern.kind = "Random"
          THEN \A v \in VertexSet(r) :
                 /\ Len(SelectSeq(edges, LAMBDA e : e[1] = v)) \in pattern.min .. pattern.max
                 /\ \A e \in Range(edges) : e[2] \in VertexSet(r)
          ELSE Range(edges) = Reference(pattern) /\ IsInjective(edges)

\* A peer that waits for a count, for vertices, or in a gather finds just that at
\* the head of its inBox, although announcements, gathers and the data of edge
\* 0 have the same tag and the others may still wait for an announcement, or be
\* in the next iteration already.
NeverMisread ==
    \A p \in Peers : pc[p] \in {"count", "ids", "sizes", "gather"} /\ todo[p] # <<>> =>
      LET arrived == Arrived(p, Head(todo[p]), 0) IN
        arrived # <<>> =>
          /\ Head(arrived).kind = pc[p]
          /\ pc[p] = "ids" => Len(Head(arrived).body) = nVertices[p]
          /\ pc[p] \in {"sizes", "gather"} =>
               Head(arrived).body = Value(round(p), Head(todo[p]), iteration[p])

\* After an announcement each member knows the hosts of all vertices and the
\* vertices of all members as they are in this round, whatever its maps held
\* before.
MapsAreRight ==
    \A p \in Peers : pc[p] \in {"spread", "collect"} =>
      LET r == round(p) IN
        /\ \A v \in VertexSet(r) : Hosts(r, v) # {} => locateVertex(p, v) \in Hosts(r, v)
        /\ \A q \in Members(r) : peerMap[p][q] = hosted[q][r]

\* A peer collects, edge by edge, what the source of the edge has spread in the
\* very round and iteration the peer is in, however far the source has run
\* ahead, and whatever the redistribution.  A peer that receives from any edge
\* learns from which one: the values of an edge come in the order they were
\* spread, and one from each edge if there is one iteration only.
CollectsNeighbours ==
    \A p \in Peers : pc[p] = "collect" =>
      LET edges == InEdges(p)
          n == Len(edges) - Len(todo[p])
          d == data[p]
      IN  IF ~plan.any
          THEN d = [j \in 1 .. n |-> Datum(edges[j], Value(round(p), Source(p, edges[j]), iteration[p]))]
          ELSE /\ Len(d) = n
               /\ \A j \in 1 .. n :
                    /\ d[j].edge \in Range(edges)
                    /\ \E i \in 1 .. plan.iterations : d[j].value = Value(round(p), Source(p, d[j].edge), i)
                    /\ \A i \in 1 .. j - 1 : d[i].edge = d[j].edge => d[i].value[3] < d[j].value[3]

\* A peer throws only in a round in which some vertex has no host.
ThrowsOnlyForLost ==
    \A p \in Peers : pc[p] = "thrown" => \E v \in VertexSet(round(p)) : Hosts(round(p), v) = {}

\* Every plan of proper distributions comes to its end at every peer.
Finishes ==
    (\A r \in DOMAIN plan.rounds : Proper(r))
      ~> (\A p \in Peers : pc[p] = "idle" /\ round(p) = Len(plan.rounds))
===============================================================================
