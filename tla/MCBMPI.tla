-------------------------------- MODULE MCBMPI --------------------------------
(* Plans of two and three peers for TLC: the examples, and programs that use *)
(* the policy as the tests do.                                               *)
EXTENDS Examples, TLC
LOCAL INSTANCE SequencesExt

Shape(kind, h, w) == [kind |-> kind, height |-> h, width |-> w]
Line(kind, n) == Shape(kind, n, 1)
Eagerness == <<Kinds, {"uri", "announcement"}, {"uri"}, {}>>

\* Edges back to their source, two parallel edges, and a vertex without edges to it.
RandomGraph ==
    [kind |-> "Random", height |-> 3, width |-> 1, min |-> 1, max |-> 3,
     draw |-> 0 :> <<0, 0>> @@ 1 :> <<2, 2, 2>> @@ 2 :> <<5, 4, 3>>]

\* The two with the most states have one eagerness each.
ExamplePlans ==
    <<Forward(Cage(3, Line("Chain", 3), "Consecutive"), Kinds),
      AnyRecv(Cage(3, Line("BiStar", 3), "Consecutive"), {"uri", "announcement"})>>
    \o Flat(Eagerness, LAMBDA eager :
         <<Forward(Cage(2, Line("Chain", 3), "Consecutive"), eager),
           Forward(Cage(3, Line("Chain", 2), "Consecutive"), eager),
           RingOf(Cage(2, Line("Ring", 2), "Roundrobin"), 2, eager),
           AnyRecv(Cage(2, Line("BiStar", 2), "Consecutive"), eager),
           PageRank(Cage(2, RandomGraph, "Consecutive"), IF "data" \in eager THEN 2 ELSE 1, eager),
           Gol(Cage(2, Shape("GridDiagonal", 1, 2), "Consecutive"), 2, eager),
           Gol(Cage(2, Shape("GridDiagonal", 1, 3), "Consecutive"), 1, eager),
           Async(Cage(2, Line("FullyConnected", 3), "Consecutive"), eager)>>)


Own(buf, tokens) == Assign(<<buf>>, <<Value(tokens)>>)

\* Every collective in a context of some of the peers, whose contributions
\* differ in length where they may.  No plan below announces anything.
Some == {0, 2}
Mine(p) == [j \in 1 .. 3 - p |-> <<p, j>>]
Two(p) == <<<<p, 1>>, <<p, 2>>>>
CollectivesProgram(p) ==
    <<Split(p \in Some, "global", "some")>>
    \o IF p \notin Some THEN <<>>
       ELSE <<Own("mine", Mine(p)), Own("two", Two(p)),
              CollectiveVar("gatherv", "some", 1, <<"mine">>, <<"gatherVar">>),
              CollectiveVar("allGatherv", "some", None, <<"mine">>, <<"allGatherVar">>),
              Collective("gather", "some", 0, <<"two">>, <<"gather">>, 0),
              Collective("scatter", "some", 1, <<"two">>, <<"scatter">>, 1),
              Collective("allToAll", "some", None, <<"two">>, <<"allToAll">>, 0),
              Collective("reduce", "some", 1, <<"two">>, <<"reduce">>, 0),
              Collective("allReduce", "some", None, <<"two">>, <<"allReduce">>, 0),
              Collective("broadcast", "some", 1, <<"two">>, <<"two">>, 0),
              Collective("barrier", "some", None, <<"two">>, <<"two">>, 0)>>
Reduced == <<<<<<0, 1>>, <<2, 1>>>>, <<<<0, 2>>, <<2, 2>>>>>>
Everyone(rank) ==
    <<"allGatherVar">> :> Mine(0) \o Mine(2) @@ <<"scatter">> :> <<<<2, rank + 1>>>>
    @@ <<"allToAll">> :> <<<<0, rank + 1>>, <<2, rank + 1>>>>
    @@ <<"allReduce">> :> Reduced @@ <<"two">> :> Two(2)
CollectivesPlan ==
    Plan({"uri"}, {"data", "announcement"}, FALSE, [p \in 0 .. 2 |-> CollectivesProgram(p)],
         0 :> (<<"gather">> :> Two(0) \o Two(2) @@ Everyone(0)) @@ 1 :> <<>>
         @@ 2 :> (<<"gatherVar">> :> Mine(0) \o Mine(2) @@ <<"reduce">> :> Reduced @@ Everyone(1)))

\* The members of a context send two messages to the first of them the moment
\* they have the context, with the tag splitContext uses, and split it again;
\* its two receives with one key are waited for backwards.
Both(rank) == <<AsyncRecv("some", rank, 0, <<"a", rank>>, "recvs"), AsyncRecv("some", rank, 0, <<"b", rank>>, "recvs"),
                WaitLoop("recvs", 0), WaitAll("recvs")>>
SplitProgram(p, members, nested, first) ==
    <<Split(p \in members, "global", "some")>>
    \o IF p \notin members THEN <<>>
       ELSE <<Own("x", <<<<p, 1>>>>), Own("y", <<<<p, 2>>>>),
              AsyncSend("some", 0, 0, <<"x">>, "data", "events"),
              AsyncSend("some", 0, 0, <<"y">>, "data", "events"),
              Split(p \in nested, "some", "few")>>
            \o (IF p = first THEN Times(Cardinality(members), LAMBDA r : Both(r - 1)) ELSE <<>>)
            \o <<WaitAll("events")>>
\* order: the members in the order of their ranks.
SplitPlan(order, nested, eager) ==
    Plan(eager, {"data", "announcement"}, FALSE,
         [p \in 0 .. 2 |-> SplitProgram(p, ToSet(order), nested, order[1])],
         [p \in 0 .. 2 |->
            [b \in {<<x, r - 1>> : x \in {y \in {"a", "b"} : p = order[1]}, r \in DOMAIN order} |->
               <<<<order[b[2] + 1], IF b[1] = "a" THEN 1 ELSE 2>>>>]])

SplitPlans ==
    Flat(Eagerness, LAMBDA eager : <<SplitPlan(<<0, 2>>, {2}, eager)>>)
    \o <<SplitPlan(<<0, 1, 2>>, {1, 2}, {"uri"}), SplitPlan(<<0, 1, 2>>, {}, {})>>

MCPlans == ExamplePlans \o <<CollectivesPlan>> \o SplitPlans
=============================================================================
