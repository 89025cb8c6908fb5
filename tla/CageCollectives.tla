---------------------------- MODULE CageCollectives ----------------------------
(***************************************************************************)
(* reduce, allReduce, gather and allGather of a cage: collectives of       *)
(* vertices on top of those of peers (include/graybat/Cage.hpp).           *)
(*                                                                         *)
(* A peer calls the collective once for each vertex it hosts.  The calls   *)
(* gather the contributions, and where the results go, in static variables *)
(* of the member function, and the last of them runs the collective of the *)
(* communication policy.  A program is a sequence of vertex collectives    *)
(* which all peers execute at their own pace; between two of them the      *)
(* vertices may be distributed anew.                                       *)
(*                                                                         *)
(* The collectives of the peers deliver what module Collectives shows for  *)
(* contexts without gaps, the n-th call of each peer in a context being    *)
(* one collective.  Where these are of different calls, a peer that        *)
(* receives would take a message of one for one of the other, or wait for  *)
(* one that nobody sends: it stops in "misread", and what becomes of it is *)
(* not modelled.                                                           *)
(*                                                                         *)
(* op is concatenation, of which <<>> stands for the zero that reduce and  *)
(* recvData start from: plus is the operation for which the code is right. *)
(***************************************************************************)
EXTENDS Integers, Sequences, FiniteSets
LOCAL INSTANCE SequencesExt

CONSTANTS
    Programs,  \* [peers, calls, buffers, sized]
    Width,     \* how many elements a vertex contributes
    None       \* an element nobody has written, and no buffer

(* A call is [kind, root, reorder, hosts]; hosts maps each vertex, 0 ..,   *)
(* to its peer, 0 .. peers - 1.  The caller passes a vector for results    *)
(* with each vertex: one vector of the peer ("shared", as gol.cpp does),   *)
(* one of the vertex ("vertex"), both reused by later calls, or a new one  *)
(* ("call").  Vectors for gathered results are sized, or are empty for the *)
(* callee to resize.                                                       *)

Kinds == {"reduce", "allReduce", "gather", "allGather"}
Hosted(call, p) ==
    SelectSeq([j \in 1 .. Cardinality(DOMAIN call.hosts) |-> j - 1], LAMBDA v : call.hosts[v] = p)
Members(call) == SetToSortSeq({call.hosts[v] : v \in DOMAIN call.hosts}, <)

\* There are no gaps among the vAddrs; not every peer hosts a vertex.
ASSUME ProgramsAssumption ==
    /\ Width \in Nat \ {0}
    /\ \A g \in Programs :
         /\ g.peers \in Nat \ {0} /\ g.buffers \in {"shared", "vertex", "call"} /\ g.sized \in BOOLEAN
         /\ \A c \in ToSet(g.calls) :
              /\ c.kind \in Kinds /\ c.root \in DOMAIN c.hosts
              /\ Members(c) = [i \in DOMAIN Members(c) |-> i - 1] /\ Len(Members(c)) <= g.peers

VARIABLES
    program,
    k, next,   \* the call a peer is in, and the place of the next vertex
    pc,
    reduce,    \* the static variables of each member function
    allReduce, gather, allGather,
    recv,      \* the vectors of a peer
    posted     \* what a peer has passed to the policy's collectives, in order

statics == <<reduce, allReduce, gather, allGather>>
vars == <<program, k, next, pc, statics, recv, posted>>

-----------------------------------------------------------------------------
Peers == 0 .. program.peers - 1
Calls == program.calls
Call(p) == Calls[k[p]]
hostedVertices(p) == Hosted(Call(p), p)
Vertex(p) == hostedVertices(p)[next[p]]
locateVertex(c, v) == c.hosts[v]

Own(v, j) == [e \in 1 .. Width |-> <<v, j, e>>]
Flat(s, F(_)) == FlattenSeq([j \in DOMAIN s |-> F(s[j])])

\* The vector the caller passes with vertex v in call j.
Buffer(j, v) ==
    CASE program.buffers = "shared" -> <<0, 0>>
      [] program.buffers = "vertex" -> <<0, v>>
      [] program.buffers = "call"   -> <<j, v>>

\* Zeros for reductions, and a vector as long as the result, or an empty one,
\* for the others.
Fresh(c) ==
    IF c.kind \in {"reduce", "allReduce"} \/ ~program.sized THEN <<>>
    ELSE [x \in 1 .. Width * Cardinality(DOMAIN c.hosts) |-> None]

\* The contexts: a redistribution makes a new one.
Epoch(j) == Cardinality({i \in 2 .. j : Calls[i].hosts # Calls[i - 1].hosts})

Init ==
    /\ program \in Programs
    /\ k = [p \in Peers |-> 1]
    /\ next = [p \in Peers |-> 1]
    /\ pc = [p \in Peers |-> "start"]
    /\ reduce = [p \in Peers |-> [data |-> <<>>, vertexCount |-> 0, rootRecvData |-> None]]
    /\ allReduce = [p \in Peers |-> [data |-> <<>>, vertexCount |-> 0, recvDatas |-> <<>>]]
    /\ gather = [p \in Peers |-> [data |-> <<>>, nGatherCalls |-> 0, rootRecvData |-> None]]
    /\ allGather = [p \in Peers |-> [data |-> <<>>, nGatherCalls |-> 0, recvDatas |-> <<>>]]
    /\ recv = [p \in Peers |-> <<>>]
    /\ posted = [p \in Peers |-> <<>>]

Running(p) == k[p] <= Len(Calls)

\* The caller sets its vectors up.  A redistribution before it waits for all
\* peers in splitContext.
Prepare(p) ==
    /\ Running(p) /\ pc[p] = "start"
    /\ Epoch(k[p]) # Epoch(k[p] - 1) => \A q \in Peers : k[q] >= k[p]
    /\ LET mine == {Buffer(k[p], v) : v \in ToSet(hostedVertices(p))} IN
         recv' = [recv EXCEPT ![p] =
           [b \in DOMAIN @ \cup mine |-> IF b \in mine THEN Fresh(Call(p)) ELSE @[b]]]
    /\ pc' = [pc EXCEPT ![p] = "call"]
    /\ UNCHANGED <<program, k, next, statics, posted>>

NextCall(p) ==
    /\ k' = [k EXCEPT ![p] = @ + 1]
    /\ next' = [next EXCEPT ![p] = 1]
    /\ pc' = [pc EXCEPT ![p] = "start"]

NextVertex(p) ==
    \/ /\ next[p] < Len(hostedVertices(p))
       /\ next' = [next EXCEPT ![p] = @ + 1]
       /\ pc' = [pc EXCEPT ![p] = "call"]
       /\ UNCHANGED k
    \/ /\ next[p] = Len(hostedVertices(p))
       /\ NextCall(p)

\* A peer without vertices calls nothing.
Skip(p) ==
    /\ Running(p) /\ pc[p] = "call" /\ hostedVertices(p) = <<>>
    /\ NextCall(p)
    /\ UNCHANGED <<program, statics, recv, posted>>

\* After the local part of a call: the collective of the policy, with what the
\* static variables hold, if they take the vertex for the last; else the next.
Proceed(p, last, contribution) ==
    \/ /\ last
       /\ posted' = [posted EXCEPT ![p] =
            Append(@, [kind |-> Call(p).kind, epoch |-> Epoch(k[p]), call |-> k[p], data |-> contribution])]
       /\ pc' = [pc EXCEPT ![p] = "collective"]
       /\ UNCHANGED <<k, next>>
    \/ /\ ~last
       /\ NextVertex(p)
       /\ UNCHANGED posted

Calling(p, kind) ==
    Running(p) /\ pc[p] = "call" /\ Call(p).kind = kind /\ hostedVertices(p) # <<>>

IsRoot(p) == Vertex(p) = Call(p).root
ThisBuffer(p) == Buffer(k[p], Vertex(p))

Reduce(p) ==
    /\ Calling(p, "reduce")
    /\ LET s == [data         |-> reduce[p].data \o Own(Vertex(p), k[p]),
                 vertexCount  |-> reduce[p].vertexCount + 1,
                 rootRecvData |-> IF IsRoot(p) THEN ThisBuffer(p) ELSE reduce[p].rootRecvData]
       IN  /\ reduce' = [reduce EXCEPT ![p] = s]
           /\ Proceed(p, s.vertexCount = Len(hostedVertices(p)), s.data)
    /\ UNCHANGED <<program, allReduce, gather, allGather, recv>>

AllReduce(p) ==
    /\ Calling(p, "allReduce")
    /\ LET s == [data        |-> allReduce[p].data \o Own(Vertex(p), k[p]),
                 vertexCount |-> allReduce[p].vertexCount + 1,
                 recvDatas   |-> Append(allReduce[p].recvDatas, ThisBuffer(p))]
       IN  /\ allReduce' = [allReduce EXCEPT ![p] = s]
           /\ Proceed(p, s.vertexCount = Len(hostedVertices(p)), s.data)
    /\ UNCHANGED <<program, reduce, gather, allGather, recv>>

Gather(p) ==
    /\ Calling(p, "gather")
    /\ LET s == [data         |-> gather[p].data \o Own(Vertex(p), k[p]),
                 nGatherCalls |-> gather[p].nGatherCalls + 1,
                 rootRecvData |-> IF IsRoot(p) THEN ThisBuffer(p) ELSE gather[p].rootRecvData]
       IN  /\ gather' = [gather EXCEPT ![p] = s]
           /\ Proceed(p, s.nGatherCalls = Len(hostedVertices(p)), s.data)
    /\ UNCHANGED <<program, reduce, allReduce, allGather, recv>>

\* Nothing ever sets nGatherCalls back: the second allGather of a distribution
\* never reaches the collective, and after a redistribution a vertex other than
\* the last may.
AllGather(p) ==
    /\ Calling(p, "allGather")
    /\ LET s == [data         |-> allGather[p].data \o Own(Vertex(p), k[p]),
                 nGatherCalls |-> allGather[p].nGatherCalls + 1,
                 recvDatas    |-> Append(allGather[p].recvDatas, ThisBuffer(p))]
       IN  /\ allGather' = [allGather EXCEPT ![p] = s]
           /\ Proceed(p, s.nGatherCalls = Len(hostedVertices(p)), s.data)
    /\ UNCHANGED <<program, reduce, allReduce, gather, recv>>

-----------------------------------------------------------------------------
(* The collective of the policy, and what the last vertex does after it.   *)

Posts(q, epoch) == SelectSeq(posted[q], LAMBDA m : m.epoch = epoch)
Index(p) == Len(Posts(p, Epoch(k[p])))
Arrived(p, q) == Len(Posts(q, Epoch(k[p]))) >= Index(p)
Contribution(p, q) == Posts(q, Epoch(k[p]))[Index(p)].data
\* The members whose collective that meets p's is one of another call.
Strangers(p) ==
    {q \in ToSet(Members(Call(p))) : Arrived(p, q) /\ Posts(q, Epoch(k[p]))[Index(p)].call # k[p]}
Everybody(p) == Strangers(p) = {} /\ \A q \in ToSet(Members(Call(p))) : Arrived(p, q)
Gathered(p) == Flat(Members(Call(p)), LAMBDA q : Contribution(p, q))

InCollective(p, kind) == Running(p) /\ pc[p] = "collective" /\ Call(p).kind = kind

\* A non-root peer only waits until its message is accepted.
Receives(p) == Call(p).kind = "reduce" => locateVertex(Call(p), Call(p).root) = p

\* A message of another collective, in an order that is none.
Misread(p) ==
    /\ Running(p) /\ pc[p] = "collective"
    /\ Receives(p) /\ Strangers(p) # {}
    /\ pc' = [pc EXCEPT ![p] = "misread"]
    /\ UNCHANGED <<program, k, next, statics, recv, posted>>

ReduceReturns(p) ==
    /\ InCollective(p, "reduce")
    /\ \/ /\ Receives(p)
          /\ Everybody(p)
          /\ recv' = [recv EXCEPT ![p][reduce[p].rootRecvData] = @ \o Gathered(p)]
       \/ /\ ~Receives(p)
          /\ UNCHANGED recv
    /\ reduce' = [reduce EXCEPT ![p].data = <<>>, ![p].vertexCount = 0]
    /\ NextVertex(p)
    /\ UNCHANGED <<program, allReduce, gather, allGather, posted>>

\* recvDatas[0] receives, and is copied to all others, those of earlier calls
\* included.
AllReduceReturns(p) ==
    /\ InCollective(p, "allReduce")
    /\ Everybody(p)
    /\ LET recvDatas == allReduce[p].recvDatas
           result == recv[p][recvDatas[1]] \o Gathered(p)
       IN  recv' = [recv EXCEPT ![p] =
             [b \in DOMAIN @ |-> IF b \in ToSet(recvDatas) THEN result ELSE @[b]]]
    /\ allReduce' = [allReduce EXCEPT ![p].data = <<>>, ![p].vertexCount = 0]
    /\ NextVertex(p)
    /\ UNCHANGED <<program, reduce, gather, allGather, posted>>

\* Mutation: the data stay in the order of the peers.
UnorderedData(p, data, size) == data

exclusivePrefixSum(s) ==
    [j \in DOMAIN s |-> FoldLeft(LAMBDA a, b : a + b, 0, SubSeq(s, 1, j - 1))]

\* From the order of the peers, and of the vertices within a peer, to the order
\* of the vertex ids.
Moves(p) ==
    LET c == Call(p)
        recvCount == [j \in DOMAIN Members(c) |-> Len(Contribution(p, j - 1))]
        prefixsum == exclusivePrefixSum(recvCount)
        nElements(q) == recvCount[q + 1] \div Len(Hosted(c, q))
    IN  UNION {{[from |-> prefixsum[q + 1] + (i - 1) * nElements(q) + e,
                 to   |-> Hosted(c, q)[i] * nElements(q) + e] :
                  i \in DOMAIN Hosted(c, q), e \in 1 .. nElements(q)} :
                q \in ToSet(Members(c))}

\* The data are moved into a vector of length size, which is copied over them.
Reordered(p, data, size) ==
    LET moves == Moves(p)
        into(x) == {m \in moves : m.to = x}
    IN  [x \in DOMAIN data |->
           IF x > size THEN data[x]
           ELSE IF into(x) = {} THEN None ELSE data[(CHOOSE m \in into(x) : TRUE).from]]
ReorderFits(p, data, size) == size <= Len(data) /\ \A m \in Moves(p) : m.to <= size

\* gatherVar resizes the vector of a peer that is not the root, too.
Resized(data, size) == [x \in 1 .. size |-> IF x \in DOMAIN data THEN data[x] ELSE None]

\* Mutation: the vector to reorder into is as long as what this peer contributed.
ContributedSize(p, target, result) == Len(Contribution(p, p))

\* The vector to reorder into is as long as the one of the last vertex called,
\* which is the result's where the result goes there.
ReorderedSize(p, target, result) ==
    IF target = ThisBuffer(p) THEN Len(result) ELSE Len(recv[p][ThisBuffer(p)])

\* A write behind the end of a vector.
Overrun(p) ==
    /\ pc' = [pc EXCEPT ![p] = "overrun"]
    /\ UNCHANGED <<program, k, next, statics, recv, posted>>

\* The peer that hosted the root of an earlier call still takes itself for one,
\* and orders what its vector holds.
HostsRoot(p) == gather[p].rootRecvData # None
GatherTarget(p) == IF HostsRoot(p) THEN gather[p].rootRecvData ELSE ThisBuffer(p)
GatherVar(p) ==
    IF locateVertex(Call(p), Call(p).root) = p
    THEN Gathered(p) ELSE Resized(recv[p][GatherTarget(p)], Len(Gathered(p)))
GatherInto(p, size) ==
    recv' = [recv EXCEPT ![p][GatherTarget(p)] =
               IF HostsRoot(p) /\ Call(p).reorder THEN Reordered(p, GatherVar(p), size) ELSE GatherVar(p)]

GatherSize(p) == ReorderedSize(p, GatherTarget(p), GatherVar(p))
GatherFits(p) == HostsRoot(p) /\ Call(p).reorder => ReorderFits(p, GatherVar(p), GatherSize(p))

\* Mutation: the counter is not set back.
GatherReturnsCounting(p) ==
    /\ InCollective(p, "gather") /\ Everybody(p)
    /\ GatherInto(p, GatherSize(p))
    /\ gather' = [gather EXCEPT ![p].data = <<>>]
    /\ NextVertex(p)
    /\ UNCHANGED <<program, reduce, allReduce, allGather, posted>>

GatherReturns(p) ==
    /\ InCollective(p, "gather") /\ Everybody(p)
    /\ GatherFits(p)
    /\ GatherInto(p, GatherSize(p))
    /\ gather' = [gather EXCEPT ![p].data = <<>>, ![p].nGatherCalls = 0]
    /\ NextVertex(p)
    /\ UNCHANGED <<program, reduce, allReduce, allGather, posted>>

GatherOverruns(p) ==
    /\ InCollective(p, "gather") /\ Everybody(p)
    /\ ~GatherFits(p)
    /\ Overrun(p)

\* The vector of the first vertex receives and is resized for it; the result is
\* copied to the others as they are.
AllGatherSize(p) == ReorderedSize(p, allGather[p].recvDatas[1], Gathered(p))
AllGatherFits(p) ==
    LET recvDatas == allGather[p].recvDatas IN
      /\ Call(p).reorder => ReorderFits(p, Gathered(p), AllGatherSize(p))
      /\ \A b \in ToSet(recvDatas) \ {recvDatas[1]} : Len(recv[p][b]) >= Len(Gathered(p))

AllGatherReturns(p) ==
    /\ InCollective(p, "allGather") /\ Everybody(p)
    /\ AllGatherFits(p)
    /\ LET recvDatas == allGather[p].recvDatas
           result == IF Call(p).reorder THEN Reordered(p, Gathered(p), AllGatherSize(p)) ELSE Gathered(p)
       IN  recv' = [recv EXCEPT ![p] =
             [b \in DOMAIN @ |->
                IF b = recvDatas[1] THEN result
                ELSE IF b \in ToSet(recvDatas) THEN result \o SubSeq(@[b], Len(result) + 1, Len(@[b]))
                ELSE @[b]]]
    /\ allGather' = [allGather EXCEPT ![p].data = <<>>]
    /\ NextVertex(p)
    /\ UNCHANGED <<program, reduce, allReduce, gather, posted>>

AllGatherOverruns(p) ==
    /\ InCollective(p, "allGather") /\ Everybody(p)
    /\ ~AllGatherFits(p)
    /\ Overrun(p)

Step(p) ==
    \/ Prepare(p) \/ Skip(p)
    \/ Reduce(p) \/ AllReduce(p) \/ Gather(p) \/ AllGather(p)
    \/ ReduceReturns(p) \/ AllReduceReturns(p) \/ GatherReturns(p) \/ AllGatherReturns(p)
    \/ GatherOverruns(p) \/ AllGatherOverruns(p) \/ Misread(p)

Next == \E p \in Peers : Step(p)

Spec == Init /\ [][Next]_vars

\* Some thread that can run does: programs are finite, and no step undoes one.
FairSpec == Spec /\ WF_vars(Next)

-----------------------------------------------------------------------------
(* Properties                                                              *)

\* How far nGatherCalls of allGather has come at p before call j, and whether p
\* enters the collective of that call.
CountedBefore(p, j) ==
    FoldLeft(LAMBDA a, b : a + b, 0,
             [i \in 1 .. j - 1 |-> IF Calls[i].kind = "allGather" THEN Len(Hosted(Calls[i], p)) ELSE 0])
Enters(p, j) == CountedBefore(p, j) < Len(Hosted(Calls[j], p))
FirstAllGather(j) == \A i \in 1 .. j - 1 : Calls[i].kind # "allGather"

\* An allGather that some members enter and others do not.
Parts(j) ==
    /\ Calls[j].kind = "allGather"
    /\ \E p, q \in ToSet(Members(Calls[j])) : Enters(p, j) /\ ~Enters(q, j)

\* reorder and the copies to other vertices stay inside their vectors, except
\* where a vertex of a peer passes a vector shorter than the result: a gather
\* that reorders then needs the vertex called last to be the root, and an
\* allGather a peer with one vertex.  Nothing is claimed of an allGather after
\* another one, to which not every vertex contributes.
StaysInBounds ==
    \A p \in Peers :
      pc[p] = "overrun" =>
        \/ /\ ~program.sized /\ program.buffers # "shared"
           /\ \/ Call(p).kind = "gather" /\ Call(p).reorder /\ Vertex(p) # Call(p).root
              \/ Call(p).kind = "allGather" /\ Len(hostedVertices(p)) > 1
        \/ Call(p).kind = "allGather" /\ ~FirstAllGather(k[p])

\* The counters of calls that live in static variables decide when a peer
\* enters a collective of the policy.  Two peers of a context never meet in
\* different ones, whatever was called before and wherever the vertices were
\* then, up to an allGather that parts them: nGatherCalls of Cage.hpp:854 is
\* never set back, so that after a redistribution one peer may enter and
\* another may not.  From there to the next context they need not agree.
Aligned ==
    \A p, q \in Peers : \A e \in 0 .. Len(Calls) :
      LET mine == Posts(p, e)
          theirs == Posts(q, e)
      IN  \A j \in DOMAIN mine \cap DOMAIN theirs :
            \/ mine[j].kind = theirs[j].kind /\ mine[j].call = theirs[j].call
            \/ \E i \in 1 .. mine[j].call : Epoch(i) = e /\ Parts(i)

\* What vertex v is to have after call j: the contributions of all vertices,
\* in the order of their ids if that is asked for.
ByPeer(c, j) == Flat(Members(c), LAMBDA q : Flat(Hosted(c, q), LAMBDA v : Own(v, j)))
ByID(c, j) == Flat([i \in 1 .. Cardinality(DOMAIN c.hosts) |-> i - 1], LAMBDA v : Own(v, j))
Expected(v, j) ==
    LET c == Calls[j] IN
      IF c.kind \in {"reduce", "gather"} /\ v # c.root THEN None
      ELSE IF c.kind \in {"gather", "allGather"} /\ c.reorder THEN ByID(c, j)
      ELSE ByPeer(c, j)

\* The caller has not reused the vectors of call j.
Intact(p, j) == program.buffers = "call" \/ (k[p] = j + 1 /\ pc[p] = "start")

CallsOf(kind, p) == {i \in 1 .. k[p] - 1 : Calls[i].kind = kind /\ Hosted(Calls[i], p) # <<>>}
FirstOf(calls) == CHOOSE i \in calls : \A h \in calls : i <= h

\* Where static variables do not spoil the result of call j at p: a gather is
\* safe until a later one that reorders has its root elsewhere; an allReduce
\* writes through the vectors of all earlier ones, the first of which the
\* caller must have set up again; only the first allGather of a program has the
\* contributions of all vertices, and a later one that communicates writes
\* through its vectors.
Reliable(p, j) ==
    LET c == Calls[j] IN
      CASE c.kind = "reduce" -> TRUE
        [] c.kind = "gather" ->
             \A i \in CallsOf("gather", p) : i > j /\ Calls[i].reorder => Calls[i].hosts[Calls[i].root] = p
        [] c.kind = "allReduce" ->
             LET calls == CallsOf("allReduce", p) IN
               /\ program.buffers = "call" => calls = {j}
               /\ program.buffers = "vertex" =>
                    Hosted(Calls[FirstOf(calls)], p)[1] \in ToSet(Hosted(c, p))
        [] c.kind = "allGather" ->
             /\ FirstAllGather(j)
             /\ \A i \in {i \in DOMAIN Calls : j < i /\ i <= k[p]} :
                  Calls[i].kind = "allGather" => ~Enters(p, i)

\* A vertex has the result of a collective of vertices, from the contributions
\* of that very call, in the order of the vertex ids if it asked for that, and
\* for as long as the caller leaves its vector alone.  Of a call in which peers
\* that an allGather has parted misread each other nothing is claimed.
Delivered ==
    \A p \in Peers : \A j \in 1 .. k[p] - 1 : \A v \in ToSet(Hosted(Calls[j], p)) :
      Intact(p, j) /\ Reliable(p, j) /\ Expected(v, j) # None
        => recv[p][Buffer(j, v)] = Expected(v, j)

\* Every program none of whose allGathers parts the peers ends at every peer,
\* with vertices moved between its calls, unless a peer has written behind the
\* end of a vector.
AllReturn ==
    (\A j \in DOMAIN Calls : ~Parts(j))
      => <>((\A p \in Peers : ~Running(p)) \/ \E p \in Peers : pc[p] = "overrun")
=============================================================================
