------------------------------- MODULE Examples -------------------------------
(***************************************************************************)
(* The programs of src/example that run on MPI, and a test, as programs of *)
(* BMPI: each calls the cage (include/graybat/Cage.hpp), and vertices and  *)
(* edges (Vertex.hpp, Edge.hpp), which call the policy.                    *)
(*                                                                         *)
(* What a program computes is abstracted to where it comes from: a value   *)
(* of vertex v in iteration i is <<v, i>>, and an addition appends.  Loops *)
(* without an end are cut after some rounds.                               *)
(***************************************************************************)
EXTENDS BMPI, Mappings, Patterns
LOCAL INSTANCE SequencesExt

\* Peers 0 .. n - 1 with a graph, and the vertices each of them hosts.
Cage(n, pattern, mapping) ==
    LET count == VertexCount(pattern) IN
      [n |-> n, vertices |-> count, edges |-> Edges(pattern),
       hosted |-> [p \in 0 .. n - 1 |-> CASE mapping = "Consecutive" -> Consecutive(p, n, count)
                                           [] mapping = "Roundrobin" -> Roundrobin(p, n, count)]]

Flat(s, F(_)) == FlattenSeq([j \in DOMAIN s |-> F(s[j])])
Times(n, F(_)) == FlattenSeq([j \in 1 .. n |-> F(j)])

-----------------------------------------------------------------------------
(* The graph.                                                              *)

\* The members of graphContext, whose vAddrs are their places in it.
Members(g) == SelectSeq([j \in 1 .. g.n |-> j - 1], LAMBDA p : g.hosted[p] # <<>>)
locateVertex(g, v) ==
    (CHOOSE r \in DOMAIN Members(g) : v \in ToSet(g.hosted[Members(g)[r]])) - 1

EdgeIDs(g) == [j \in DOMAIN g.edges |-> j - 1]
Source(g, e) == g.edges[e + 1][1]
Target(g, e) == g.edges[e + 1][2]
getOutEdges(g, v) == SelectSeq(EdgeIDs(g), LAMBDA e : Source(g, e) = v)
getInEdges(g, v) == SelectSeq(EdgeIDs(g), LAMBDA e : Target(g, e) = v)
\* boost::edge finds the first of parallel edges.
getEdge(g, source, target) == Head(SelectSeq(getOutEdges(g, source), LAMBDA e : Target(g, e) = target))

\* The edge back, of each edge that has one.
inverse(g) ==
    [e \in {x \in ToSet(EdgeIDs(g)) : <<Target(g, x), Source(g, x)>> \in ToSet(g.edges)} |->
       getEdge(g, Target(g, e), Source(g, e))]

-----------------------------------------------------------------------------
(* Communication along edges, in the context "graph".                      *)

send(g, e, buf) == <<Send("graph", locateVertex(g, Target(g, e)), e, buf)>>
asyncSend(g, e, buf, vec) == <<AsyncSend("graph", locateVertex(g, Target(g, e)), e, buf, "data", vec)>>
recv(g, e, buf) == <<Recv("graph", locateVertex(g, Source(g, e)), e, buf)>>
asyncRecv(g, e, buf, vec) == <<AsyncRecv("graph", locateVertex(g, Source(g, e)), e, buf, vec)>>

spread(g, v, buf) == Flat(getOutEdges(g, v), LAMBDA e : send(g, e, buf))
asyncSpread(g, v, buf, vec) == Flat(getOutEdges(g, v), LAMBDA e : asyncSend(g, e, buf, vec))

\* Each edge's elements have a buffer of their own, and are copied behind those
\* of the edges before; appended, data keeps what it had.
Elements == <<"elements">>
CollectBehind(g, v, data) ==
    Flat(getInEdges(g, v), LAMBDA e : recv(g, e, Elements) \o <<Assign(data, <<Buf(data), Buf(Elements)>>)>>)
collect(g, v, data) == <<Assign(data, <<>>)>> \o CollectBehind(g, v, data)

\* forward with a functor that appends a value
forward(g, v, data, tokens) ==
    collect(g, v, data) \o <<Assign(data, <<Buf(data), Value(tokens)>>)>> \o spread(g, v, data)

\* distribute and announce.  The events are dropped, and the count and the
\* vertices are local variables.
Announcement == {<<"nVertices">>, <<"vertexIDs">>}
announce(g, p) ==
    LET others == [r \in DOMAIN Members(g) |-> r - 1] IN
      <<Assign(<<"nVertices">>, <<Value(<<Len(g.hosted[p])>>)>>), Assign(<<"vertexIDs">>, <<Value(g.hosted[p])>>)>>
      \o Flat(others, LAMBDA r :
           <<AsyncSend("graph", r, 0, <<"nVertices">>, "announcement", None),
             AsyncSend("graph", r, 0, <<"vertexIDs">>, "announcement", None)>>)
      \o Flat(others, LAMBDA r :
           <<Recv("graph", r, 0, <<"nVertices", r>>), Recv("graph", r, 0, <<"peerMap", r>>)>>)
      \o <<Free(Announcement)>>
Distribute(g, p) ==
    <<Split(g.hosted[p] # <<>>, "global", "graph")>>
      \o IF g.hosted[p] # <<>> THEN announce(g, p) ELSE <<>>

\* What each member knows then: the vertices of all members.
Announced(g, p) ==
    IF g.hosted[p] = <<>> THEN <<>>
    ELSE [b \in {<<"peerMap", r - 1>> : r \in DOMAIN Members(g)} |-> g.hosted[Members(g)[b[2] + 1]]]

-----------------------------------------------------------------------------
(* The examples.  Program(v) is what the host of vertex v does for it.     *)

Programs(g, Before(_), Program(_), After(_)) ==
    [p \in 0 .. g.n - 1 |->
       Distribute(g, p) \o Before(p) \o Flat(g.hosted[p], Program) \o After(p)]
Results(g, Expected(_)) ==
    [p \in 0 .. g.n - 1 |-> LET known == Announced(g, p)
                                own == Expected(p)
                            IN  [b \in DOMAIN known \cup DOMAIN own |->
                                   IF b \in DOMAIN own THEN own[b] ELSE known[b]]]
Hosts(g, p, v) == v \in ToSet(g.hosted[p])
Only(condition, b, tokens) == [x \in {y \in {b} : condition} |-> tokens]

\* A peer that hosts both ends of an edge sends to itself.
SendsToItself(g) ==
    \E e \in ToSet(EdgeIDs(g)) : locateVertex(g, Source(g, e)) = locateVertex(g, Target(g, e))

Plan(eager, keeps, itself, programs, results) ==
    [eager |-> eager, keeps |-> keeps, sendsToItself |-> itself, programs |-> programs, results |-> results]

\* forward.cpp: the input of the first vertex of a chain passes all others.
ForwardProgram(g, v) ==
    (IF v = 0 THEN asyncSpread(g, v, <<"input">>, "events") ELSE <<>>)
    \o (IF v = g.vertices - 1 THEN collect(g, v, <<"output">>) ELSE <<>>)
    \o (IF v \notin {0, g.vertices - 1} THEN forward(g, v, <<"intermediate">>, <<v>>) ELSE <<>>)
Forward(g, eager) ==
    Plan(eager, {"data"}, SendsToItself(g),
         Programs(g, LAMBDA p : <<Assign(<<"input">>, <<Value(<<0>>)>>)>>,
                     LAMBDA v : ForwardProgram(g, v),
                     LAMBDA p : <<WaitLoop("events", 0)>>),
         Results(g, LAMBDA p : Only(Hosts(g, p, g.vertices - 1), <<"output">>,
                                    [j \in 1 .. g.vertices - 1 |-> j - 1])))

\* ring.cpp: a value goes round a ring and every vertex adds to it; cut when the
\* first vertex has received it for the last time.
RingProgram(g, v, laps) ==
    (IF v = 0 THEN <<Assign(<<"input">>, <<Value(<<0>>)>>)>> \o asyncSpread(g, v, <<"input">>, "events") ELSE <<>>)
    \o Times(laps, LAMBDA lap :
         collect(g, v, <<"intermediate">>)
         \o <<Assign(<<"intermediate">>, <<Buf(<<"intermediate">>), Value(<<v>>)>>)>>
         \o IF v = 0 /\ lap = laps THEN <<>> ELSE spread(g, v, <<"intermediate">>))
RingOf(g, laps, eager) ==
    Plan(eager, {"data"}, SendsToItself(g),
         Programs(g, LAMBDA p : <<>>, LAMBDA v : RingProgram(g, v, laps), LAMBDA p : <<>>),
         Results(g, LAMBDA p : Only(Hosts(g, p, 0), <<"intermediate">>,
                                    [j \in 1 .. laps * g.vertices + 1 |-> (j - 1) % g.vertices])))

\* anyrecv.cpp: vertex 0 answers whoever asks, on the edge back; cut after one
\* question of each.
AnyRecvProgram(g, v) ==
    LET back == inverse(g)
        reply == [e \in DOMAIN back |-> [vAddr |-> locateVertex(g, Target(g, back[e])), tag |-> back[e]]]
    IN  IF v = 0
        THEN Times(g.vertices - 1, LAMBDA j :
               <<RecvAny("graph", <<"output">>),
                 Assign(<<"output">>, <<Buf(<<"output">>), Value(<<0>>)>>),
                 Reply("graph", <<"output">>, reply)>>)
        ELSE <<Assign(<<"input">>, <<Value(<<v>>)>>)>> \o spread(g, v, <<"input">>)
             \o collect(g, v, <<"input">>) \o <<Assign(<<"answer", v>>, <<Buf(<<"input">>)>>)>>
AnyRecv(g, eager) ==
    Plan(eager, {"data"}, SendsToItself(g),
         Programs(g, LAMBDA p : <<>>, LAMBDA v : AnyRecvProgram(g, v), LAMBDA p : <<>>),
         Results(g, LAMBDA p : [b \in {<<"answer", v>> : v \in ToSet(g.hosted[p]) \ {0}} |-> <<b[2], 0>>]))

\* pagerank.cpp: in each iteration the rank of each vertex goes along its edges
\* from a vector that lives no longer than the call, and the ranks of its
\* neighbours are received.
PageRankSpread(g, v, i) ==
    LET relative == <<"relativePageRank", v, i>> IN
      <<Assign(relative, <<Value(<<<<v, i>>>>)>>)>> \o asyncSpread(g, v, relative, "events") \o <<Free({relative})>>
Neighbours(v) == <<"neighbours", v>>
PageRankProgram(g, p, iterations) ==
    Times(iterations, LAMBDA i :
         Flat(g.hosted[p], LAMBDA v : PageRankSpread(g, v, i))
      \o Flat(g.hosted[p], LAMBDA v : CollectBehind(g, v, Neighbours(v)))
      \o <<WaitLoop("events", 0)>>)
\* The values of all neighbours in iterations first .. last.
FromNeighbours(g, p, first, last) ==
    [b \in {Neighbours(v) : v \in ToSet(g.hosted[p])} |->
       Times(last - first + 1, LAMBDA i :
         Flat(getInEdges(g, b[2]), LAMBDA e : <<<<Source(g, e), first + i - 1>>>>))]
StartEmpty(g, p) == Flat(g.hosted[p], LAMBDA v : <<Assign(Neighbours(v), <<>>)>>)
PageRank(g, iterations, eager) ==
    Plan(eager, {}, FALSE,
         Programs(g, LAMBDA p : StartEmpty(g, p), LAMBDA v : <<>>,
                     LAMBDA p : PageRankProgram(g, p, iterations)),
         Results(g, LAMBDA p : FromNeighbours(g, p, 1, iterations)))

\* gol.cpp: in each step the states of the cells go along the edges, the states
\* of the neighbours are received and a new state is computed, in the buffer
\* that was sent; the host of cell 0 gathers all states.
isAlive(v) == <<"isAlive", v>>
GolStep(g, p, step) ==
       Flat(g.hosted[p], LAMBDA v : asyncSpread(g, v, isAlive(v), "events"))
    \o Flat(g.hosted[p], LAMBDA v : CollectBehind(g, v, Neighbours(v))
                                      \o <<Assign(isAlive(v), <<Value(<<<<v, step>>>>)>>)>>)
    \o <<WaitLoop("events", 0)>>
    \o IF g.hosted[p] = <<>> THEN <<>>
       ELSE <<Assign(<<"gather">>, [j \in DOMAIN g.hosted[p] |-> Buf(isAlive(g.hosted[p][j]))]),
              CollectiveVar("gatherv", "graph", locateVertex(g, 0), <<"gather">>, <<"golDomain">>)>>
Gol(g, steps, eager) ==
    Plan(eager, {}, FALSE,
         Programs(g, LAMBDA p : StartEmpty(g, p),
                     LAMBDA v : <<Assign(isAlive(v), <<Value(<<<<v, 0>>>>)>>)>>,
                     LAMBDA p : Times(steps, LAMBDA step : GolStep(g, p, step))),
         Results(g, LAMBDA p :
           [b \in {Neighbours(v) : v \in ToSet(g.hosted[p])} \cup
                  {y \in {<<"golDomain">>} : Hosts(g, p, 0)} |->
              IF b = <<"golDomain">>
              THEN Flat(Members(g), LAMBDA q : Flat(g.hosted[q], LAMBDA v : <<<<v, steps>>>>))
              ELSE FromNeighbours(g, p, 0, steps - 1)[b]]))

\* The test asyncSend_asyncRecv of test/CageUT.cpp, one run of it: everything in
\* flight at once, half of the sends and all receives are waited for, and the
\* vector that was sent is a local variable.
AsyncProgram(g, p) ==
       <<Assign(<<"send">>, <<Value(<<p>>)>>)>>
    \o Flat(g.hosted[p], LAMBDA v : asyncSpread(g, v, <<"send">>, "sendEvents"))
    \o Flat(g.hosted[p], LAMBDA v :
         Flat(getInEdges(g, v), LAMBDA e : asyncRecv(g, e, <<"recv", e>>, "recvEvents")))
    \o <<WaitLoop("sendEvents", 0), WaitAll("recvEvents"), Free({<<"send">>})>>
Async(g, eager) ==
    Plan(eager, {}, FALSE,
         Programs(g, LAMBDA p : <<>>, LAMBDA v : <<>>, LAMBDA p : AsyncProgram(g, p)),
         Results(g, LAMBDA p :
           [b \in {<<"recv", e>> : e \in {x \in ToSet(EdgeIDs(g)) : Hosts(g, p, Target(g, x))}} |->
              <<CHOOSE q \in 0 .. g.n - 1 : Hosts(g, q, Source(g, b[2]))>>]))
=============================================================================
