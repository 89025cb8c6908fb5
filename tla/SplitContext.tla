---------------------------- MODULE SplitContext ----------------------------
(***************************************************************************)
(* socket::Base::splitContext: the peers of a context agree on a new       *)
(* context made of those that want to be members.                          *)
(*                                                                         *)
(* Every peer reports to the peer with vAddr 0, which asks the signaling   *)
(* server for an id and tells the members; all peers then pass a barrier.  *)
(* All messages of one sender in one context have the same key, so what a  *)
(* receive gets is decided by their order alone.  recvHandler looks up the *)
(* context of every PEER message.                                          *)
(*                                                                         *)
(* Channels are first-in first-out and never full (PeerToPeer models flow  *)
(* control).  Sends of one loop are one step: each goes to a channel of    *)
(* its own and the loop receives nothing.                                  *)
(*                                                                         *)
(* The master names a new context with a number it draws with rand(), and  *)
(* the server gives one id to each name.  The mapping and the pattern      *)
(* Random seed rand() with what the program passes them, so two contexts   *)
(* may well get one name.                                                  *)
(***************************************************************************)
EXTENDS Integers, Sequences, FiniteSets

CONSTANTS
    MaxPeers, MaxRounds,
    Plans     \* what to do: [peers |-> how many peers the initial context has,
              \*              names |-> what is drawn for each call of splitContext,
              \*              nested |-> whether on the context the last call
              \*                         returned or on the initial one]

ASSUME SplitAssumption ==
    /\ MaxPeers \in Nat \ {0} /\ MaxRounds \in Nat
    /\ \A g \in Plans :
         /\ g.peers \in 1 .. MaxPeers /\ g.nested \in BOOLEAN
         /\ g.names \in Seq(Nat) /\ Len(g.names) <= MaxRounds

VARIABLES
    plan,     \* the plan of this execution
    contextIds, \* server: the id of each name that was asked for
    wire,     \* wire[p][q]: messages from p that recvHandler of q has not read
    inBox,    \* inBox[p][c, q]: SPLIT messages of q in context c
    thrown,   \* recvHandler has left by an exception
    contexts, \* contexts[p][c]: the vAddrs of context c, <<>> if p does not know c
    pc, old,  \* where the user thread is, and the context it splits, [id, peers]
    wants,    \* wants[p][r]: whether p wants to be a member, call by call
    result,   \* result[p][r]: the id p got from its r-th call, -1 if invalid
    i,        \* loop position
    whiteList, newID, newSize

answers == <<wants, result>>
local == <<pc, old, i, whiteList, newID, newSize>>
vars == <<plan, contextIds, wire, inBox, thrown, contexts, answers, local>>

Peers == 0 .. MaxPeers - 1
IDs == 0 .. MaxPeers * MaxRounds
master == 0

\* call is a history: which call of its sender sent the message.  No step reads
\* it, only the properties do.
Msg(kind, c, value, call) == [kind |-> kind, context |-> c, value |-> value, call |-> call]
VAddrs(s) == {s[j] : j \in DOMAIN s}

Init ==
    /\ plan \in Plans
    /\ contextIds = <<>>
    /\ wire = [p \in Peers |-> [q \in Peers |-> <<>>]]
    /\ inBox = [p \in Peers |-> [k \in IDs \X Peers |-> <<>>]]
    /\ thrown = [p \in Peers |-> FALSE]
    /\ contexts = [p \in Peers |-> [c \in IDs |->
                     IF c = 0 THEN [j \in 1 .. plan.peers |-> j - 1] ELSE <<>>]]
    /\ pc = [p \in Peers |-> "idle"]
    /\ old = [p \in Peers |-> [id |-> 0, peers |-> <<>>]]
    /\ wants = [p \in Peers |-> <<>>]
    /\ result = [p \in Peers |-> <<>>]
    /\ i = [p \in Peers |-> 1]
    /\ whiteList = [p \in Peers |-> <<>>]
    /\ newID = [p \in Peers |-> -1]
    /\ newSize = [p \in Peers |-> 0]

-----------------------------------------------------------------------------
rounds == Len(plan.names)
oldPeers(p) == old[p].peers
round(p) == Len(wants[p])
isMember(p) == wants[p][round(p)]

Goto(p, label) == pc' = [pc EXCEPT ![p] = label]

\* asyncSendImpl of a sequence of messages to each of a set of peers.
SendTo(p, Q, ms) ==
    wire' = [wire EXCEPT ![p] = [q \in Peers |-> IF q \in Q THEN @[q] \o ms ELSE @[q]]]

\* recvImpl: whatever comes first under the key.
RecvFrom(p, q, m) ==
    LET k == <<old[p].id, q>> IN
      /\ inBox[p][k] # <<>>
      /\ m = Head(inBox[p][k])
      /\ inBox' = [inBox EXCEPT ![p][k] = Tail(@)]

\* The messages before a receive of peer p from q.
Waiting(p, q) == inBox[p][<<old[p].id, q>>]

-----------------------------------------------------------------------------
\* The context to split: the last one a peer got, or the initial one.
Splits(p) ==
    IF plan.nested /\ result[p] # <<>> THEN result[p][Len(result[p])] ELSE 0

\* A call on a context without vAddr 0 fails when the master's socket is
\* looked up; a peer with an invalid context does not call.
Call(p, member) ==
    /\ pc[p] = "idle"
    /\ p < plan.peers
    /\ Len(result[p]) < rounds
    /\ Splits(p) # -1
    /\ old' = [old EXCEPT ![p] = [id |-> Splits(p), peers |-> contexts[p][Splits(p)]]]
    /\ wants' = [wants EXCEPT ![p] = Append(@, member)]
    /\ i' = [i EXCEPT ![p] = 1]
    /\ whiteList' = [whiteList EXCEPT ![p] = <<>>]
    /\ \/ /\ master \notin VAddrs(contexts[p][Splits(p)])
          /\ Goto(p, "thrown")
          /\ UNCHANGED wire
       \/ /\ master \in VAddrs(contexts[p][Splits(p)])
          /\ SendTo(p, {master}, <<Msg("member", Splits(p), member, round(p) + 1)>>)
          /\ Goto(p, IF p = master THEN "collect" ELSE IF member THEN "recvID" ELSE "barrier")
    /\ UNCHANGED <<plan, contextIds, inBox, thrown, contexts, result, newID, newSize>>

\* Mutation: the answer is not looked at.
CollectAll(p) ==
    /\ pc[p] = "collect" /\ i[p] <= Len(oldPeers(p))
    /\ \E m \in VAddrs(Waiting(p, oldPeers(p)[i[p]])) :
         /\ RecvFrom(p, oldPeers(p)[i[p]], m)
         /\ whiteList' = [whiteList EXCEPT ![p] = Append(@, oldPeers(p)[i[p]])]
    /\ i' = [i EXCEPT ![p] = @ + 1]
    /\ UNCHANGED <<plan, contextIds, wire, thrown, contexts, answers, pc, old, newID, newSize>>

\* Mutation: the position in the loop is entered instead of the vAddr.
CollectPosition(p) ==
    /\ pc[p] = "collect" /\ i[p] <= Len(oldPeers(p))
    /\ \E m \in VAddrs(Waiting(p, oldPeers(p)[i[p]])) :
         /\ RecvFrom(p, oldPeers(p)[i[p]], m)
         /\ whiteList' = [whiteList EXCEPT ![p] = IF m.value THEN Append(@, i[p]) ELSE @]
    /\ i' = [i EXCEPT ![p] = @ + 1]
    /\ UNCHANGED <<plan, contextIds, wire, thrown, contexts, answers, pc, old, newID, newSize>>

\* The master hears one peer after the other.
Collect(p) ==
    /\ pc[p] = "collect" /\ i[p] <= Len(oldPeers(p))
    /\ \E m \in VAddrs(Waiting(p, oldPeers(p)[i[p]])) :
         /\ RecvFrom(p, oldPeers(p)[i[p]], m)
         /\ \/ m.value = TRUE
               /\ whiteList' = [whiteList EXCEPT ![p] = Append(@, oldPeers(p)[i[p]])]
            \/ m.value # TRUE /\ UNCHANGED whiteList
    /\ i' = [i EXCEPT ![p] = @ + 1]
    /\ UNCHANGED <<plan, contextIds, wire, thrown, contexts, answers, pc, old, newID, newSize>>

\* The name the master draws in its call, and the id the server has for it.
drawn(p) == plan.names[round(p)]
getContextID(p) ==
    IF drawn(p) \in DOMAIN contextIds THEN contextIds[drawn(p)]
    ELSE Cardinality(DOMAIN contextIds) + 1

\* The ids the server knows then.
Registered(p) ==
    [n \in DOMAIN contextIds \cup {drawn(p)} |->
       IF n = drawn(p) THEN getContextID(p) ELSE contextIds[n]]

\* Mutation: the size is sent before the id.
DistributeSizeFirst(p) ==
    /\ pc[p] = "collect" /\ i[p] > Len(oldPeers(p))
    /\ SendTo(p, VAddrs(whiteList[p]),
              <<Msg("size", old[p].id, Len(whiteList[p]), round(p)),
                Msg("id", old[p].id, getContextID(p), round(p)),
                Msg("list", old[p].id, whiteList[p], round(p))>>)
    /\ contextIds' = Registered(p)
    /\ Goto(p, IF isMember(p) THEN "recvID" ELSE "barrier")
    /\ UNCHANGED <<plan, inBox, thrown, contexts, answers, old, i, whiteList, newID, newSize>>

\* getContextID, and the three messages to every member.
Distribute(p) ==
    /\ pc[p] = "collect" /\ i[p] > Len(oldPeers(p))
    /\ SendTo(p, VAddrs(whiteList[p]),
              <<Msg("id", old[p].id, getContextID(p), round(p)),
                Msg("size", old[p].id, Len(whiteList[p]), round(p)),
                Msg("list", old[p].id, whiteList[p], round(p))>>)
    /\ contextIds' = Registered(p)
    /\ Goto(p, IF isMember(p) THEN "recvID" ELSE "barrier")
    /\ UNCHANGED <<plan, inBox, thrown, contexts, answers, old, i, whiteList, newID, newSize>>

RecvID(p) ==
    /\ pc[p] = "recvID"
    /\ \E m \in VAddrs(Waiting(p, master)) :
         /\ RecvFrom(p, master, m)
         /\ newID' = [newID EXCEPT ![p] = m.value]
    /\ Goto(p, "recvSize")
    /\ UNCHANGED <<plan, contextIds, wire, thrown, contexts, answers, old, i, whiteList, newSize>>

RecvSize(p) ==
    /\ pc[p] = "recvSize"
    /\ \E m \in VAddrs(Waiting(p, master)) :
         /\ RecvFrom(p, master, m)
         /\ newSize' = [newSize EXCEPT ![p] = m.value]
    /\ Goto(p, "recvList")
    /\ UNCHANGED <<plan, contextIds, wire, thrown, contexts, answers, old, i, whiteList, newID>>

\* The list, and the entry of the new context and of its sockets.
RecvList(p) ==
    /\ pc[p] = "recvList"
    /\ \E m \in VAddrs(Waiting(p, master)) :
         /\ RecvFrom(p, master, m)
         /\ contexts' = [contexts EXCEPT ![p][newID[p]] = SubSeq(m.value, 1, newSize[p])]
    /\ Goto(p, "barrier")
    /\ UNCHANGED <<plan, contextIds, wire, thrown, answers, old, i, whiteList, newID, newSize>>

\* Mutation: no barrier.
SkipBarrier(p) ==
    /\ pc[p] = "barrier"
    /\ i' = [i EXCEPT ![p] = Len(oldPeers(p)) + 1]
    /\ Goto(p, "await")
    /\ UNCHANGED <<plan, contextIds, wire, inBox, thrown, contexts, answers, old, whiteList, newID, newSize>>

\* Mutation: the members tell each other only.
BarrierAmongMembers(p) ==
    /\ pc[p] = "barrier"
    /\ SendTo(p, IF isMember(p) THEN VAddrs(contexts[p][newID[p]]) ELSE {},
              <<Msg("null", old[p].id, 0, round(p))>>)
    /\ i' = [i EXCEPT ![p] = 1]
    /\ Goto(p, "await")
    /\ UNCHANGED <<plan, contextIds, inBox, thrown, contexts, answers, old, whiteList, newID, newSize>>

\* The barrier: an empty message to every peer of the old context,
Barrier(p) ==
    /\ pc[p] = "barrier"
    /\ SendTo(p, VAddrs(oldPeers(p)), <<Msg("null", old[p].id, 0, round(p))>>)
    /\ i' = [i EXCEPT ![p] = 1]
    /\ Goto(p, "await")
    /\ UNCHANGED <<plan, contextIds, inBox, thrown, contexts, answers, old, whiteList, newID, newSize>>

\* and one from each.
Await(p) ==
    /\ pc[p] = "await" /\ i[p] <= Len(oldPeers(p))
    /\ \E m \in VAddrs(Waiting(p, oldPeers(p)[i[p]])) : RecvFrom(p, oldPeers(p)[i[p]], m)
    /\ i' = [i EXCEPT ![p] = @ + 1]
    /\ UNCHANGED <<plan, contextIds, wire, thrown, contexts, answers, pc, old, whiteList, newID, newSize>>

\* splitContext returns; a member goes on to send in the new context.
Return(p) ==
    /\ pc[p] = "await" /\ i[p] > Len(oldPeers(p))
    /\ \/ /\ isMember(p)
          /\ result' = [result EXCEPT ![p] = Append(@, newID[p])]
          /\ SendTo(p, VAddrs(contexts[p][newID[p]]), <<Msg("PEER", newID[p], 0, round(p))>>)
       \/ /\ ~isMember(p)
          /\ result' = [result EXCEPT ![p] = Append(@, -1)]
          /\ UNCHANGED wire
    /\ Goto(p, "idle")
    /\ UNCHANGED <<plan, contextIds, inBox, thrown, contexts, wants, old, i, whiteList, newID, newSize>>

\* handleRecv: contexts.at of an unknown context throws; the confirmation and
\* the receive of a PEER message are left to PeerToPeer.
HandleRecv(p, q) ==
    /\ ~thrown[p]
    /\ wire[q][p] # <<>>
    /\ wire' = [wire EXCEPT ![q][p] = Tail(@)]
    /\ LET m == Head(wire[q][p]) IN
         \/ /\ m.kind = "PEER"
            /\ thrown' = [thrown EXCEPT ![p] = contexts[p][m.context] = <<>>]
            /\ UNCHANGED inBox
         \/ /\ m.kind # "PEER"
            /\ inBox' = [inBox EXCEPT ![p][<<m.context, q>>] = Append(@, m)]
            /\ UNCHANGED thrown
    /\ UNCHANGED <<plan, contextIds, contexts, answers, local>>

UserStep(p) ==
    \/ Collect(p) \/ Distribute(p) \/ RecvID(p) \/ RecvSize(p) \/ RecvList(p)
    \/ Barrier(p) \/ Await(p) \/ Return(p)

Calls(p) == \E member \in BOOLEAN : Call(p, member)

Next ==
    \E p \in Peers : Calls(p) \/ UserStep(p) \/ \E q \in Peers : HandleRecv(p, q)

Spec == Init /\ [][Next]_vars

\* Every peer makes all its calls (splitContext is collective), every channel
\* is read.
FairSpec ==
    /\ Spec
    /\ \A p \in Peers : WF_vars(Calls(p)) /\ WF_vars(UserStep(p))
    /\ \A p, q \in Peers : WF_vars(HandleRecv(p, q))

-----------------------------------------------------------------------------
(* Properties                                                              *)

Kinds == {"member", "id", "size", "list", "null", "PEER"}

\* The types of the state.
TypeOK ==
    /\ plan \in Plans
    /\ \A n \in DOMAIN contextIds : contextIds[n] \in IDs \ {0}
    /\ \A p, q \in Peers : \A j \in DOMAIN wire[p][q] : wire[p][q][j].kind \in Kinds
    /\ thrown \in [Peers -> BOOLEAN]
    /\ contexts \in [Peers -> [IDs -> Seq(Peers)]]
    /\ pc \in [Peers -> {"idle", "collect", "recvID", "recvSize", "recvList", "barrier",
                         "await", "thrown"}]
    /\ old \in [Peers -> [id : IDs, peers : Seq(Peers)]]
    /\ wants \in [Peers -> Seq(BOOLEAN)]
    /\ result \in [Peers -> Seq(IDs \cup {-1})]

\* What the next receive of the user thread is meant to get.
Expected(p) ==
    [collect |-> "member", recvID |-> "id", recvSize |-> "size", recvList |-> "list",
     await |-> "null"]

Source(p) ==
    IF pc[p] \in {"recvID", "recvSize", "recvList"} THEN {master}
    ELSE IF pc[p] \in {"collect", "await"} /\ i[p] <= Len(oldPeers(p)) THEN {oldPeers(p)[i[p]]}
    ELSE {}

\* All split messages of a sender share one key, also those of its next call,
\* which it may send while others are in the barrier of this one.  Still, each
\* receive gets the message it is meant to get, the one of this very call.
NeverMisread ==
    \A p \in Peers : \A q \in Source(p) :
      Waiting(p, q) # <<>> =>
        /\ Head(Waiting(p, q)).kind = Expected(p)[pc[p]]
        /\ Head(Waiting(p, q)).call = round(p)

\* Comment at line 511, "Barrier thus recvHandler is up to date": a message in
\* a new context never reaches a peer that does not know the context yet.
HandlersSurvive == \A p \in Peers : ~thrown[p]

\* p has not begun a call since its r-th that draws the name of that one again.
Current(p, r) == \A n \in DOMAIN wants[p] : n > r => plan.names[n] # plan.names[r]

\* Base.hpp of communicationPolicy, line 249: splitContext returns a context of
\* all peers of the old one that want to participate, the same to each of them,
\* and an invalid one to the others.  A context stays what it is, and different
\* from the others, until its name is drawn again.
SplitAgrees ==
    \A p, q \in Peers : \A r \in DOMAIN result[p] \cap DOMAIN wants[q] :
      LET c == result[p][r] IN
        c # -1 /\ Current(p, r) /\ Current(q, r) =>
          /\ wants[p][r] /\ p \in VAddrs(contexts[p][c])
          /\ \A n \in 1 .. r - 1 : result[p][n] = c => plan.names[n] = plan.names[r]
          /\ ~plan.nested => (q \in VAddrs(contexts[p][c]) <=> wants[q][r])
          /\ (q \in VAddrs(contexts[p][c]) /\ r \in DOMAIN result[q]) =>
               result[q][r] = c /\ contexts[q][c] = contexts[p][c]

\* A call every peer of the context makes returns at every peer, if the
\* context has a vAddr 0.
SplitReturns ==
    \A p \in Peers : (pc[p] # "idle" /\ master \in VAddrs(oldPeers(p))) ~> (pc[p] = "idle")

\* The same of any context: communicationPolicy/Base.hpp:249 makes no
\* exception.
AnySplitReturns == \A p \in Peers : (pc[p] # "idle") ~> (pc[p] = "idle")
=============================================================================
