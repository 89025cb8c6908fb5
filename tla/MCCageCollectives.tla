-------------------------- MODULE MCCageCollectives --------------------------
(* Programs of up to three peers for TLC.                                  *)
EXTENDS CageCollectives

Hosts(s) == [v \in 0 .. Len(s) - 1 |-> s[v + 1]]
Alternating == Hosts(<<0, 1, 0>>)
Swapped == Hosts(<<1, 1, 0>>)
AtOne == Hosts(<<0, 0, 0>>)
OneEach == Hosts(<<0, 1>>)
TwoEach == Hosts(<<0, 0, 1, 1>>)
AtThree == Hosts(<<2, 0, 1, 0>>)

Invoke(kind, root, reorder, hosts) ==
    [kind |-> kind, root |-> root, reorder |-> reorder, hosts |-> hosts]
Invocations(hosts) ==
    {Invoke("reduce", r, FALSE, hosts) : r \in {0, 1}}
    \cup {Invoke("allReduce", 0, FALSE, hosts)}
    \cup {Invoke("gather", r, TRUE, hosts) : r \in {0, 1}} \cup {Invoke("gather", 0, FALSE, hosts)}
    \cup {Invoke("allGather", 0, reorder, hosts) : reorder \in BOOLEAN}

Program(calls, buffers) == [peers |-> 2, calls |-> calls, buffers |-> buffers, sized |-> TRUE]
WithThreePeers(g) == [g EXCEPT !.peers = 3]
WithEmptyVectors(g) == [g EXCEPT !.sized = FALSE]
Buffers == {"shared", "vertex", "call"}

\* Every two collectives of three vertices at two peers, at the same places and
\* with a redistribution that changes how many vertices each hosts, or that moves
\* all to one peer; three in a row of which two are alike, with a third peer that
\* hosts nothing; gathers into empty vectors; every collective of four vertices at
\* three peers.  The second allGather of Alternating and Swapped parts the peers,
\* and a third call lets them meet; that of OneEach and TwoEach is entered by both,
\* each before its last vertex.
MCPrograms ==
    {Program(<<c, d>>, b) : c \in Invocations(Alternating), d \in Invocations(Alternating), b \in Buffers}
    \cup {Program(<<c, d>>, b) :
            c \in Invocations(Alternating), d \in Invocations(Swapped), b \in Buffers}
    \cup {WithEmptyVectors(Program(<<c, d>>, b)) :
            c \in {i \in Invocations(Alternating) : i.kind = "gather"},
            d \in {i \in Invocations(Alternating) \cup Invocations(Swapped) : i.kind \in {"gather", "allGather"}},
            b \in Buffers}
    \cup {WithThreePeers(Program(<<Invoke(kind, 0, FALSE, Alternating), Invoke(kind, 0, FALSE, Swapped),
                                   Invoke("reduce", 0, FALSE, Swapped)>>, "vertex")) :
            kind \in {"reduce", "allReduce", "gather"}}
    \cup {Program(<<Invoke("allGather", 0, FALSE, Alternating), Invoke("allGather", 0, reorder, Swapped), d>>,
                  "vertex") : reorder \in BOOLEAN, d \in Invocations(Swapped)}
    \cup {Program(<<Invoke("allGather", 0, FALSE, OneEach), Invoke("allGather", 0, reorder, TwoEach), d>>,
                  b) : reorder \in BOOLEAN, d \in Invocations(TwoEach), b \in {"shared", "call"}}
    \cup {Program(<<c, d>>, "vertex") : c \in Invocations(Alternating), d \in Invocations(AtOne)}
    \cup {WithThreePeers(Program(<<c>>, b)) : c \in Invocations(AtThree), b \in Buffers}
=============================================================================
