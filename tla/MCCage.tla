------------------------------- MODULE MCCage -------------------------------
(* Plans of three peers for TLC.                                           *)
EXTENDS Cage

Shape(kind, h, w) == [kind |-> kind, height |-> h, width |-> w]
Line(kind, n) == Shape(kind, n, 1)
Mapping(kind) == [kind |-> kind, nParts |-> 0, draw |-> <<>>]
Drawn(kind, nParts, draw) == [kind |-> kind, nParts |-> nParts, draw |-> draw]
Round(pattern, mapping) == [pattern |-> pattern, mapping |-> mapping]
Plan(rounds, iterations) ==
    [rounds |-> rounds, iterations |-> iterations, any |-> FALSE, gather |-> FALSE]
FromAny(plans) == {[g EXCEPT !.any = TRUE] : g \in plans}
WithGather(plans) == {[g EXCEPT !.gather = TRUE] : g \in plans}

\* All patterns, and the mappings without a parameter with fewer, as many and
\* more vertices than peers: graphs that are only distributed.
Shapes ==
    {Line(kind, n) : kind \in {"OutStar", "InStar", "BiStar", "Chain", "Ring", "FullyConnected"},
                     n \in {1, 2, 4}}
    \cup {Line("HyperCube", d) : d \in {1, 2, 3}}
    \cup {Shape(kind, hw[1], hw[2]) : kind \in {"Grid", "GridDiagonal"},
                                      hw \in {<<1, 3>>, <<3, 1>>, <<2, 3>>, <<3, 3>>}}
\* Between one and three edges from each of two vertices.
Drawings == {<<n, a, 1, 4>> : n \in 0 .. 3, a \in 0 .. 1}
RandomShape(first, second) ==
    [kind |-> "Random", height |-> 2, width |-> 1, min |-> 1, max |-> 3,
     draw |-> [v \in 0 .. 1 |-> IF v = 0 THEN first ELSE second]]
Static ==
    {Plan(<<Round(RandomShape(first, second), Mapping("Consecutive"))>>, 0) : first, second \in Drawings}
    \cup {Plan(<<Round(Line("None", 0), Mapping(kind))>>, 1) : kind \in {"Consecutive", "Roundrobin"}}
    \cup {Plan(<<Round(s, Mapping("Consecutive"))>>, 0) : s \in Shapes}
    \cup {Plan(<<Round(Line("EdgeLess", n), Mapping(kind))>>, 0) :
            n \in 1 .. 7, kind \in {"Consecutive", "Roundrobin"}}

\* Two iterations, so that a peer can be ahead of its neighbours by one.
Running ==
    {Plan(<<Round(s, Mapping("Consecutive"))>>, 2) :
       s \in {Line("Ring", 3), Line("Chain", 4), Line("BiStar", 3), Line("FullyConnected", 2),
              RandomShape(<<2, 1, 1, 0>>, <<2, 0, 1, 0>>)}}

\* Receives from any edge, and gathers after each iteration.
OtherPrograms ==
    FromAny({Plan(<<Round(Line("BiStar", 3), Mapping("Roundrobin"))>>, 1),
             Plan(<<Round(Line("Chain", 3), Mapping("Consecutive"))>>, 2),
             Plan(<<Round(Line("FullyConnected", 2), Mapping("Consecutive"))>>, 2)})
    \cup WithGather({Plan(<<Round(Line("OutStar", 3), Mapping("Consecutive"))>>, 2),
                     Plan(<<Round(Line("Chain", 4), Mapping("Consecutive"))>>, 2),
                     Plan(<<Round(Line("FullyConnected", 2), Mapping("Consecutive"))>>, 2)})

Parts(n, P) == [0 .. n - 1 -> P]

\* Redistributions, of which some leave vertices without a host or have a
\* smaller context than the round before.
Redistributed ==
    {Plan(<<Round(Line("Ring", 3), Mapping("Roundrobin")),
            Round(Line("Ring", 3), Drawn("GraphPartition", 0, part))>>, 1) : part \in {f \in Parts(3, 0 .. 2) : f[0] = 0}}
    \cup {Plan(<<Round(Line("Chain", 2), Drawn("Random", 0, draw)),
                 Round(Line("BiStar", 2), Mapping("Consecutive"))>>, 1) : draw \in Parts(2, 0 .. 2)}
    \cup {Plan(<<Round(Line("Chain", 2), Drawn("GraphPartition", 4, part))>>, 1) :
            part \in Parts(2, 0 .. 3)}
    \cup {Plan(<<Round(Line("Chain", 2), Mapping("Roundrobin")),
                 Round(Line("Chain", 2), Drawn("GraphPartition", 4, part))>>, 1) :
            part \in Parts(2, 0 .. 3)}
    \cup {Plan(<<Round(Line("EdgeLess", 1), Drawn("Random", 0, draw))>>, 1) : draw \in Parts(1, 0 .. 2)}
    \cup {Plan(<<Round(Line("Chain", 2), Drawn("GraphPartition", 1, [v \in 0 .. 1 |-> 0]))>>, 1)}

MCPlans == Static \cup Running \cup OtherPrograms \cup Redistributed
=============================================================================
