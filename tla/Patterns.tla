------------------------------- MODULE Patterns -------------------------------
(***************************************************************************)
(* The graphs of include/graybat/pattern: the edges <<source, target>> of  *)
(* each pattern in the order the functor appends them, which is also the   *)
(* order of their ids (graphPolicy/BGL.hpp).  Vertices are numbered from 0.*)
(***************************************************************************)
EXTENDS Integers, Sequences

OnlyIf(condition, edge) == IF condition THEN <<edge>> ELSE <<>>

\* for(i = 0; i < n; ++i) append(Body(i))
Loop(n, Body(_)) ==
    LET loop[i \in 0 .. n] == IF i = 0 THEN <<>> ELSE loop[i - 1] \o Body(i - 1)
    IN  loop[n]

EdgeLess(n) == <<>>

\* None, the graph of a cage before setGraph
NoEdges == <<>>

\* draw[i] has what rand answers for vertex i: its number of edges, and then
\* their targets.  Edges may be parallel or lead back to their source.
RandomEdges(n, minEdgesPerVertex, maxEdgesPerVertex, draw) ==
    LET drawn(i) == draw[i][1] % maxEdgesPerVertex
        nEdges(i) == IF minEdgesPerVertex < drawn(i) THEN drawn(i) ELSE minEdgesPerVertex
    IN  Loop(n, LAMBDA i : Loop(nEdges(i), LAMBDA j : <<<<i, draw[i][j + 2] % n>>>>))

BiStar(n)  == Loop(n, LAMBDA i : OnlyIf(i # 0, <<i, 0>>) \o OnlyIf(i # 0, <<0, i>>))
InStar(n)  == Loop(n, LAMBDA i : OnlyIf(i # 0, <<i, 0>>))
OutStar(n) == Loop(n, LAMBDA i : OnlyIf(i # 0, <<0, i>>))

\* n # 0: vertices.size() - 1 is unsigned.
Chain(n) == Loop(n - 1, LAMBDA i : <<<<i, i + 1>>>>)

Ring(n) ==
    IF n = 1 THEN <<>>
    ELSE Loop(n, LAMBDA i : <<<<i, IF i = n - 1 THEN 0 ELSE i + 1>>>>)

FullyConnected(n) == Loop(n, LAMBDA i : Loop(n, LAMBDA j : OnlyIf(i # j, <<i, j>>)))

hammingDistance(a, b) ==
    Len(SelectSeq([k \in 1 .. 8 |-> k],
                  LAMBDA k : (a \div 2^(k - 1)) % 2 # (b \div 2^(k - 1)) % 2))

HyperCube(dimension) ==
    LET n == 2^dimension IN
      Loop(n, LAMBDA i : Loop(n, LAMBDA j : OnlyIf(hammingDistance(i, j) = 1, <<i, j>>)))

\* Mutation: the last column is not recognized.
GridWrapped(height, width) ==
    LET n == height * width IN
      Loop(n, LAMBDA i :
           OnlyIf(i >= width, <<i, i - width>>)
        \o OnlyIf(i < n - width, <<i, i + width>>)
        \o OnlyIf(i + 1 < n, <<i, i + 1>>)
        \o OnlyIf(i % width # 0, <<i, i - 1>>))

Grid(height, width) ==
    LET n == height * width IN
      Loop(n, LAMBDA i :
           OnlyIf(i >= width, <<i, i - width>>)
        \o OnlyIf(i < n - width, <<i, i + width>>)
        \o OnlyIf(i % width # width - 1, <<i, i + 1>>)
        \o OnlyIf(i % width # 0, <<i, i - 1>>))

GridDiagonal(height, width) ==
    LET n == height * width
        up(i)    == i >= width
        down(i)  == i < n - width
        left(i)  == i % width # 0
        right(i) == i % width # width - 1
    IN  Loop(n, LAMBDA i :
             OnlyIf(up(i), <<i, i - width>>)
          \o OnlyIf(up(i) /\ left(i), <<i, i - width - 1>>)
          \o OnlyIf(up(i) /\ right(i), <<i, i - width + 1>>)
          \o OnlyIf(down(i), <<i, i + width>>)
          \o OnlyIf(down(i) /\ left(i), <<i, i + width - 1>>)
          \o OnlyIf(down(i) /\ right(i), <<i, i + width + 1>>)
          \o OnlyIf(right(i), <<i, i + 1>>)
          \o OnlyIf(left(i), <<i, i - 1>>))

\* A pattern is [kind, height, width]; those with one parameter use height, and
\* Random has min, max and draw as well.
VertexCount(p) ==
    CASE p.kind = "None" -> 0
      [] p.kind \in {"Grid", "GridDiagonal"} -> p.height * p.width
      [] p.kind = "HyperCube" -> 2^p.height
      [] OTHER -> p.height

Edges(p) ==
    CASE p.kind = "None"           -> NoEdges
      [] p.kind = "Random"         -> RandomEdges(p.height, p.min, p.max, p.draw)
      [] p.kind = "EdgeLess"       -> EdgeLess(p.height)
      [] p.kind = "BiStar"         -> BiStar(p.height)
      [] p.kind = "InStar"         -> InStar(p.height)
      [] p.kind = "OutStar"        -> OutStar(p.height)
      [] p.kind = "Chain"          -> Chain(p.height)
      [] p.kind = "Ring"           -> Ring(p.height)
      [] p.kind = "FullyConnected" -> FullyConnected(p.height)
      [] p.kind = "HyperCube"      -> HyperCube(p.height)
      [] p.kind = "Grid"           -> Grid(p.height, p.width)
      [] p.kind = "GridDiagonal"   -> GridDiagonal(p.height, p.width)
===============================================================================
