----------------------------- MODULE Collectives -----------------------------
(***************************************************************************)
(* The collective operations every communication policy inherits:          *)
(* gather ... synchronize of include/graybat/communicationPolicy/Base.hpp. *)
(*                                                                         *)
(* Each collective is a fixed sequence of sends, receives and waits of a   *)
(* peer, all with tag 0.  All peers of the context execute one program of  *)
(* collectives, each at its own pace; nothing separates one collective     *)
(* from the next but the order of the messages between two peers.          *)
(*                                                                         *)
(* Point-to-point communication is as Transport promises: a stream between *)
(* two peers that the destination accepts, and confirms, in order.         *)
(* Connections are never full (module PeerToPeer).                         *)
(***************************************************************************)
EXTENDS Integers, Sequences, FiniteSets
LOCAL INSTANCE SequencesExt

CONSTANTS
    Cases,     \* [context |-> its vAddrs in the order of its iterator,
               \*  program |-> the collectives, a sequence of [kind, root]]
    Count(_),  \* how many elements a peer contributes to a Var collective
    None       \* an element nobody has written

Elements(s) == {s[j] : j \in DOMAIN s}

ASSUME CasesAssumption ==
    \A c \in Cases :
      /\ c.context # <<>> /\ IsInjective(c.context) /\ Elements(c.context) \subseteq Nat
      /\ c.program # <<>>
      /\ \A j \in DOMAIN c.program : c.program[j].root \in Elements(c.context)
      /\ \A p \in Elements(c.context) : Count(p) \in Nat

VARIABLES
    case,      \* the context and the program all its peers execute
    n,         \* the collective each peer is in
    ip,        \* its next step in that collective
    stream,    \* stream[p][q]: all messages p has sent to q, in order
    handled,   \* handled[p][q]: how many of them q has accepted and confirmed
    received,  \* received[p][q]: how many of them q has received
    events,    \* the events a peer holds, as <<destination, position in stream>>
    leaked,    \* the events it has dropped without waiting
    recvData, recvCount, recvOffset,
    returned   \* returned[p][n]: recvData when the n-th collective returned

Context == case.context
program == case.program
Size == Len(Context)
Members == Elements(Context)
Peers == UNION {Elements(c.context) : c \in Cases}

buffers == <<recvData, recvCount, recvOffset>>
vars == <<case, n, ip, stream, handled, received, events, leaked, buffers, returned>>

-----------------------------------------------------------------------------
(* The steps of a peer.                                                    *)

Send(q, d) == [do |-> "send", peer |-> q, data |-> d, at |-> 0]
SendAt(q, o, d) == [do |-> "send", peer |-> q, data |-> d, at |-> o]
RecvAt(q, o) == [do |-> "recvAt", peer |-> q, data |-> o]
RecvCountAt(q, o) == [do |-> "recvCountAt", peer |-> q, data |-> o]
RecvNext(q) == [do |-> "recvNext", peer |-> q]
Fold(q) == [do |-> "fold", peer |-> q]
Skip(q) == Fold(q)  \* of an empty message
ResizeCount == [do |-> "resizeCount"]
Resize == [do |-> "resize"]
Wait == [do |-> "wait"]

Total(s) == FoldLeft(LAMBDA a, b : a + b, 0, s)
Each(F(_)) == [j \in 1 .. Size |-> F(Context[j])]
OnlyIf(condition, steps) == IF condition THEN steps ELSE <<>>

\* for(i = 0; i < events.size(); ++i) with a pop_back in the body: the last
\* half of the events, rounded up.
WaitLoop == [j \in 1 .. (Size + 1) \div 2 |-> Wait]

\* What p contributes to the collective k, for everybody or for one peer.
Own(p, k) == <<<<p, k>>>>
Chunk(p, q, k) == <<<<p, q, k>>>>
VarOwn(p, k) == [j \in 1 .. Count(p) |-> <<p, k, j>>]

\* Mutation: the root does not send to itself.
GatherWithoutRoot(p, r, k) ==
    OnlyIf(p # r, <<Send(r, Own(p, k))>>)
    \o OnlyIf(p = r, Each(LAMBDA q : RecvAt(q, q)))
    \o OnlyIf(p # r, <<Wait>>)

Gather(p, r, k) ==
    <<Send(r, Own(p, k))>>
    \o OnlyIf(p = r, Each(LAMBDA q : RecvAt(q, q)))
    \o <<Wait>>

AllGather(p, k) ==
    Each(LAMBDA q : Send(q, Own(p, k))) \o Each(LAMBDA q : RecvAt(q, q)) \o WaitLoop

\* allGather of the one-element array with the number of elements.
GatherCounts(p) ==
    <<ResizeCount>>
    \o Each(LAMBDA q : Send(q, <<Count(p)>>)) \o Each(LAMBDA q : RecvCountAt(q, q)) \o WaitLoop
    \o <<Resize>>

GatherVar(p, r, k) ==
    GatherCounts(p)
    \o <<Send(r, VarOwn(p, k))>>
    \o OnlyIf(p = r, Each(LAMBDA q : RecvNext(q)))
    \o <<Wait>>

AllGatherVar(p, k) ==
    GatherCounts(p)
    \o Each(LAMBDA q : Send(q, VarOwn(p, k))) \o Each(LAMBDA q : RecvNext(q)) \o WaitLoop

Scatter(p, r, k) ==
    OnlyIf(p = r, Each(LAMBDA q : SendAt(q, q, Chunk(p, q, k))))
    \o <<RecvAt(r, 0)>>
    \o OnlyIf(p = r, WaitLoop)

AllScatter(p, k) ==
    Each(LAMBDA q : SendAt(q, q, Chunk(p, q, k))) \o Each(LAMBDA q : RecvAt(q, q)) \o WaitLoop

\* Mutation: the reduction is stored at the vAddr.
ReduceAt(p, r, k) ==
    <<Send(r, Own(p, k))>>
    \o OnlyIf(p = r, Each(LAMBDA q : RecvAt(q, q)))
    \o <<Wait>>

Reduce(p, r, k) ==
    <<Send(r, Own(p, k))>>
    \o OnlyIf(p = r, Each(LAMBDA q : Fold(q)))
    \o <<Wait>>

\* Mutation: the peers other than the root return at once.
BroadcastFromRoot(p, r, k) ==
    OnlyIf(p = r, Each(LAMBDA q : Send(q, Own(p, k))) \o <<RecvAt(r, 0)>>)

\* Mutation: the first half of the messages is not received.
AllReduceHalf(p, k) ==
    Each(LAMBDA q : Send(q, Own(p, k))) \o SubSeq(Each(LAMBDA q : Fold(q)), 2, Size)

\* The events are never put into the vector that is waited for.
AllReduce(p, k) ==
    Each(LAMBDA q : Send(q, Own(p, k))) \o Each(LAMBDA q : Fold(q))

Broadcast(p, r, k) ==
    OnlyIf(p = r, Each(LAMBDA q : Send(q, Own(p, k)))) \o <<RecvAt(r, 0)>>

\* A blocking send is a send and a wait.
SendEach == FlattenSeq(Each(LAMBDA q : <<Send(q, <<>>), Wait>>))

Synchronize(p) ==
    IF p = 0
    THEN Each(LAMBDA q : Skip(q)) \o SendEach
    ELSE <<Send(0, <<>>), Wait, Skip(0)>>

Steps(p, c, k) ==
    CASE c.kind = "gather"       -> Gather(p, c.root, k)
      [] c.kind = "gatherVar"    -> GatherVar(p, c.root, k)
      [] c.kind = "allGather"    -> AllGather(p, k)
      [] c.kind = "allGatherVar" -> AllGatherVar(p, k)
      [] c.kind = "scatter"      -> Scatter(p, c.root, k)
      [] c.kind = "allScatter"   -> AllScatter(p, k)
      [] c.kind = "reduce"       -> Reduce(p, c.root, k)
      [] c.kind = "allReduce"    -> AllReduce(p, k)
      [] c.kind = "broadcast"    -> Broadcast(p, c.root, k)
      [] c.kind = "synchronize"  -> Synchronize(p)

-----------------------------------------------------------------------------
(* The machine that executes them.                                         *)

\* recvData as the caller passes it.
Fresh(kind) ==
    CASE kind \in {"gather", "allGather", "allScatter"} -> [j \in 1 .. Size |-> None]
      [] kind \in {"scatter", "broadcast"} -> <<None>>
      [] kind \in {"gatherVar", "allGatherVar", "reduce", "allReduce", "synchronize"} -> <<>>

Init ==
    /\ case \in Cases
    /\ n = [p \in Peers |-> 1]
    /\ ip = [p \in Peers |-> 1]
    /\ stream = [p \in Peers |-> [q \in Peers |-> <<>>]]
    /\ handled = [p \in Peers |-> [q \in Peers |-> 0]]
    /\ received = [p \in Peers |-> [q \in Peers |-> 0]]
    /\ events = [p \in Peers |-> <<>>]
    /\ leaked = [p \in Peers |-> 0]
    /\ recvData = [p \in Peers |-> Fresh(program[1].kind)]
    /\ recvCount = [p \in Peers |-> <<>>]
    /\ recvOffset = [p \in Peers |-> 0]
    /\ returned = [p \in Peers |-> <<>>]

Running(p) == p \in Members /\ n[p] <= Len(program)
Ops(p) == Steps(p, program[n[p]], n[p])

\* The next step of p, if it has one in this collective.
NextOp(p) == IF Running(p) THEN LET ops == Ops(p) IN {ops[j] : j \in DOMAIN ops \cap {ip[p]}} ELSE {}

Advance(p) == ip' = [ip EXCEPT ![p] = @ + 1]

\* The peer has left the collective by an exception or an out-of-range write.
Broken(p) == ip[p] = -1
Break(p) == ip' = [ip EXCEPT ![p] = -1]

SendStep(p, op) ==
    /\ op.do = "send"
    /\ LET q == op.peer IN
         \/ /\ op.at < Size
            /\ stream' = [stream EXCEPT ![p][q] = Append(@, op.data)]
            /\ events' = [events EXCEPT ![p] = Append(@, <<q, Len(stream[p][q]) + 1>>)]
            /\ Advance(p)
         \/ /\ op.at >= Size
            /\ Break(p)
            /\ UNCHANGED <<stream, events>>
    /\ UNCHANGED <<case, n, handled, received, leaked, buffers, returned>>

\* The destination's recvHandler accepts a message and confirms it.
Handle(p, q) ==
    /\ handled[p][q] < Len(stream[p][q])
    /\ handled' = [handled EXCEPT ![p][q] = @ + 1]
    /\ UNCHANGED <<case, n, ip, stream, received, events, leaked, buffers, returned>>

\* recv of the next message of a peer.
Receive(p, op) ==
    /\ LET q == op.peer IN
         /\ received[q][p] < handled[q][p]
         /\ received' = [received EXCEPT ![q][p] = @ + 1]
    /\ UNCHANGED <<case, n, stream, handled, events, leaked, returned>>

Incoming(p, q) == stream[q][p][received[q][p] + 1]

\* std::copy of a message to a fixed offset of a buffer, which may lie behind
\* its end.
RecvAtStep(p, op) ==
    /\ op.do = "recvAt"
    /\ Receive(p, op)
    /\ \/ /\ op.data < Len(recvData[p])
          /\ recvData' = [recvData EXCEPT ![p][op.data + 1] = Incoming(p, op.peer)[1]]
          /\ Advance(p)
       \/ /\ op.data >= Len(recvData[p])
          /\ Break(p)
          /\ UNCHANGED recvData
    /\ UNCHANGED <<recvCount, recvOffset>>

RecvCountAtStep(p, op) ==
    /\ op.do = "recvCountAt"
    /\ Receive(p, op)
    /\ \/ /\ op.data < Len(recvCount[p])
          /\ recvCount' = [recvCount EXCEPT ![p][op.data + 1] = Incoming(p, op.peer)[1]]
          /\ Advance(p)
       \/ /\ op.data >= Len(recvCount[p])
          /\ Break(p)
          /\ UNCHANGED recvCount
    /\ UNCHANGED <<recvData, recvOffset>>

\* The next recvCount.at(vAddr) elements.
RecvNextStep(p, op) ==
    /\ op.do = "recvNext"
    /\ Receive(p, op)
    /\ LET c == recvCount[p][op.peer + 1] IN
         /\ recvData' = [recvData EXCEPT ![p] = [j \in DOMAIN @ |->
              IF j - recvOffset[p] \in 1 .. c THEN Incoming(p, op.peer)[j - recvOffset[p]] ELSE @[j]]]
         /\ recvOffset' = [recvOffset EXCEPT ![p] = @ + c]
    /\ Advance(p)
    /\ UNCHANGED recvCount

\* op is concatenation: of all associative operators it keeps the most.
FoldStep(p, op) ==
    /\ op.do = "fold"
    /\ Receive(p, op)
    /\ recvData' = [recvData EXCEPT ![p] = @ \o Incoming(p, op.peer)]
    /\ Advance(p)
    /\ UNCHANGED <<recvCount, recvOffset>>

ResizeStep(p, op) ==
    /\ \/ /\ op.do = "resizeCount"
          /\ recvCount' = [recvCount EXCEPT ![p] = [j \in 1 .. Size |-> 0]]
          /\ UNCHANGED recvData
       \/ /\ op.do = "resize"
          /\ recvData' = [recvData EXCEPT ![p] =
                            [j \in 1 .. Total(recvCount[p]) |-> None]]
          /\ UNCHANGED recvCount
    /\ Advance(p)
    /\ UNCHANGED <<case, n, stream, handled, received, events, leaked, recvOffset, returned>>

\* events.back().wait(), pop_back()
WaitStep(p, op) ==
    /\ op.do = "wait"
    /\ events[p] # <<>>
    /\ LET e == events[p][Len(events[p])] IN handled[p][e[1]] >= e[2]
    /\ events' = [events EXCEPT ![p] = Front(@)]
    /\ Advance(p)
    /\ UNCHANGED <<case, n, stream, handled, received, leaked, buffers, returned>>

\* The collective returns; the events it still holds are dropped.
Return(p) ==
    /\ Running(p) /\ ip[p] = Len(Ops(p)) + 1
    /\ returned' = [returned EXCEPT ![p] = Append(@, recvData[p])]
    /\ leaked' = [leaked EXCEPT ![p] = @ + Len(events[p])]
    /\ events' = [events EXCEPT ![p] = <<>>]
    /\ n' = [n EXCEPT ![p] = @ + 1]
    /\ ip' = [ip EXCEPT ![p] = 1]
    /\ recvData' = [recvData EXCEPT ![p] =
                      IF n[p] < Len(program) THEN Fresh(program[n[p] + 1].kind) ELSE <<>>]
    /\ recvCount' = [recvCount EXCEPT ![p] = <<>>]
    /\ recvOffset' = [recvOffset EXCEPT ![p] = 0]
    /\ UNCHANGED <<case, stream, handled, received>>

Execute(p, op) ==
    \/ SendStep(p, op) \/ RecvAtStep(p, op) \/ RecvCountAtStep(p, op) \/ RecvNextStep(p, op)
    \/ FoldStep(p, op) \/ ResizeStep(p, op) \/ WaitStep(p, op)

PeerStep(p) == (\E op \in NextOp(p) : Execute(p, op)) \/ Return(p)

Next == \E p \in Peers : PeerStep(p) \/ \E q \in Peers : Handle(p, q)

Spec == Init /\ [][Next]_vars

\* User threads and handlers run.
FairSpec ==
    /\ Spec
    /\ \A p \in Peers : WF_vars(PeerStep(p))
    /\ \A p, q \in Peers : WF_vars(Handle(p, q))

-----------------------------------------------------------------------------
(* Properties                                                              *)

\* What a collective is to deliver, whoever runs ahead.
Expected(p, c, k) ==
    CASE c.kind = "gather" /\ p = c.root -> [j \in 1 .. Size |-> <<Context[j], k>>]
      [] c.kind = "allGather"  -> [j \in 1 .. Size |-> <<Context[j], k>>]
      [] c.kind = "scatter"    -> Chunk(c.root, p, k)
      [] c.kind = "allScatter" -> [j \in 1 .. Size |-> <<Context[j], p, k>>]
      [] c.kind = "broadcast"  -> Own(c.root, k)
      [] c.kind = "allReduce" \/ (c.kind = "reduce" /\ p = c.root) ->
           [j \in 1 .. Size |-> <<Context[j], k>>]
      [] c.kind = "allGatherVar" \/ (c.kind = "gatherVar" /\ p = c.root) ->
           FlattenSeq(Each(LAMBDA q : VarOwn(q, k)))
      [] OTHER -> None

\* Every collective delivers what it was called for, from the messages of that
\* very call: consecutive collectives share tag 0 and a fast peer may be some
\* collectives ahead of a slow one, and still they do not mix.
Delivered ==
    \A p \in Peers : \A k \in DOMAIN returned[p] :
      LET x == Expected(p, program[k], k) IN x # None => returned[p][k] = x

\* The confirmations that stay in ctrlBox for good: what one call leaves.
Leak(p, c) ==
    CASE c.kind \in {"allGather", "allScatter", "gatherVar"} -> Size \div 2
      [] c.kind = "allGatherVar" -> 2 * (Size \div 2)
      [] c.kind = "scatter" -> IF p = c.root THEN Size \div 2 ELSE 0
      [] c.kind = "allReduce" -> Size
      [] c.kind = "broadcast" -> IF p = c.root THEN Size ELSE 0
      [] c.kind \in {"gather", "reduce", "synchronize"} -> 0

Returned == \A p \in Members : n[p] > Len(program)

\* Nothing is left of a message but its confirmation when all have returned,
\* and collectives leave exactly the confirmations they never wait for.
NothingLeft ==
    Returned =>
      \A p \in Members :
        /\ \A q \in Members : received[p][q] = Len(stream[p][q])
        /\ leaked[p] = Total([k \in DOMAIN program |-> Leak(p, program[k])])

\* The vAddrs of the context are 0, 1, ... as those of the initial context;
\* splitContext leaves gaps.
Dense == Members = 0 .. Size - 1

\* Every collective returns at every peer.
AllReturn == Dense ~> Returned

\* A peer breaks only where an offset is computed from a vAddr, and only in a
\* context whose vAddrs have a gap.
BreaksOnlyInGaps ==
    \A p \in Members : Broken(p) =>
      /\ ~Dense
      /\ program[n[p]].kind \in {"gather", "gatherVar", "allGather", "allGatherVar",
                                "scatter", "allScatter"}
=============================================================================
