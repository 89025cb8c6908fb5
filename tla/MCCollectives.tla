---------------------------- MODULE MCCollectives ----------------------------
(* Contexts and programs for TLC.                                           *)
EXTENDS Collectives

MCCount(p) == p + 1

Invoke(kind, r) == [kind |-> kind, root |-> r]
Rooted == {"gather", "gatherVar", "scatter", "reduce", "broadcast"}
Rootless == {"allGather", "allGatherVar", "allScatter", "allReduce"}
Invocations(roots) ==
    {Invoke(kind, r) : kind \in Rooted, r \in roots} \cup {Invoke(kind, 0) : kind \in Rootless}

Case(context, prog) == [context |-> context, program |-> prog]

\* Every two kinds of collectives of two peers, with one root or two; every collective of three peers
\* (allGatherVar is made of what allGather and gatherVar are), and of the peers
\* 0 and 2, the context splitContext makes of three when vAddr 1 stays away.
MCCases ==
    {Case(<<0, 1>>, <<c, d>>) : c \in Invocations({1}), d \in Invocations({0, 1})}
    \cup {Case(<<0, 1, 2>>, <<c>>) : c \in Invocations({1}) \ {Invoke("allGatherVar", 0)}}
    \cup {Case(<<0, 2>>, <<c>>) : c \in Invocations({0, 2})}

Barriers == {Case(<<0, 1>>, <<Invoke("synchronize", 0)>>)}
=============================================================================
