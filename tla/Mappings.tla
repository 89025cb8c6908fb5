------------------------------- MODULE Mappings -------------------------------
(***************************************************************************)
(* Which vertices a peer hosts: the functors of include/graybat/mapping.   *)
(*                                                                         *)
(* processID and processCount are the peer's vAddr and the size of the     *)
(* global context, vertexCount the number of vertices of the graph, whose  *)
(* ids are 0 .. vertexCount - 1.  The result is a sequence, as the code    *)
(* returns a vector.  The counts are small enough for float to be exact    *)
(* in ceil((float)vertexCount / processCount).                             *)
(***************************************************************************)
EXTENDS Integers, Sequences

Lesser(a, b) == IF a < b THEN a ELSE b
CeilDiv(a, b) == (a + b - 1) \div b

\* The vertices first, first + step, ... below last.
Vertices(first, last, step) ==
    [j \in 1 .. (IF first < last THEN CeilDiv(last - first, step) ELSE 0) |-> first + (j - 1) * step]

\* What a loop over s that appends the elements in T collects.
Kept(s, T) ==
    LET kept[n \in 0 .. Len(s)] ==
          IF n = 0 THEN <<>>
          ELSE IF s[n] \in T THEN Append(kept[n - 1], s[n]) ELSE kept[n - 1]
    IN  kept[Len(s)]

\* The vertices 0 .. n - 1 which f gives the value p.
AssignedTo(p, n, f) == Kept(Vertices(0, n, 1), {v \in 0 .. n - 1 : f[v] = p})

\* Mutation: the quotient is rounded down.
ConsecutiveFloor(processID, processCount, vertexCount) ==
    LET vertexPerProcess == vertexCount \div processCount
        minVertex == processID * vertexPerProcess
    IN  Vertices(minVertex, Lesser(minVertex + vertexPerProcess, vertexCount), 1)

\* vertexCount - 1 is unsigned: with no vertex the first return is not taken.
Consecutive(processID, processCount, vertexCount) ==
    LET vertexPerProcess == CeilDiv(vertexCount, processCount)
        minVertex == processID * vertexPerProcess
        maxVertex == Lesser(minVertex + vertexPerProcess, vertexCount)
    IN  IF (vertexCount # 0 /\ processID > vertexCount - 1) \/ minVertex > vertexCount
        THEN <<>>
        ELSE Vertices(minVertex, maxVertex, 1)

Roundrobin(processID, processCount, vertexCount) ==
    LET maxVertex == CeilDiv(vertexCount, processCount)
    IN  IF processID <= vertexCount
        THEN Vertices(processID, Lesser(processID + maxVertex * processCount, vertexCount), processCount)
        ELSE <<>>

\* draw[v] is the random peer of vertex v; all peers use one seed.
Random(processID, vertexCount, draw) ==
    IF processID <= vertexCount THEN AssignedTo(processID, vertexCount, draw) ELSE <<>>

\* nParts is the functor's parameter, 0 if it is not given; part[v] is what
\* METIS_PartGraphKway answers for vertex v, the same at every peer.
GraphPartition(processID, processCount, vertexCount, nParts, part) ==
    IF nParts = 1 \/ (nParts = 0 /\ processCount = 1)
    THEN Vertices(0, vertexCount, 1)
    ELSE AssignedTo(processID, vertexCount, part)
===============================================================================
