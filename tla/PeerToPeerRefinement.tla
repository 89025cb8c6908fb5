------------------------ MODULE PeerToPeerRefinement ------------------------
(***************************************************************************)
(* PeerToPeer implements Transport, for every number of peers and every    *)
(* program of calls: a message is sent at its push to the data socket,     *)
(* accepted when recvHandler confirms it, taken by the receive that        *)
(* returns it, and completed by the confirmation with its id.              *)
(***************************************************************************)
EXTENDS PeerToPeerDelivery

(* The order of messages between two peers.                                *)

TypedAscending(s, type) ==
    \A i, j \in DOMAIN s : s[i].type = type /\ s[j].type = type /\ i < j => s[i].id < s[j].id

\* The ids A are larger than all others of S.
Above(A, S) == \A n \in A : \A m \in S \ A : m < n

\* Of what was sent, what is further back on its way was sent later.
Ranks(S, onData, inHandler, filing) ==
    Above(onData, S) /\ Above(inHandler, S \ onData) /\ Above(filing, S \ (onData \cup inHandler))

Ranked(p, q) == Ranks(SentIds(p, q), OnData(p, q), InHandler(p, q), Filing(p, q))
DataAscends(p, q) == TypedAscending(data[p][q], "PEER")
BoxAscends(p, q, g) == TypedAscending(inBox[q][<<p, g>>], "PEER")
InOrder ==
    \A p, q \in Peers :
      Ranked(p, q) /\ DataAscends(p, q) /\ \A g \in Tags : BoxAscends(p, q, g)

\* A message keeps the tag it was sent with.
Tagged(p, q, n, g) == \E i \in DOMAIN sent[p][q] : sent[p][q][i] = [id |-> n, tag |-> g]
QueueTagged(p, q, s) == \A i \in DOMAIN s : s[i].type = "PEER" => Tagged(p, q, s[i].id, s[i].tag)
HandTagged(p, q) ==
    recvPC[q] \in {"lock", "confirm", "enqueue"} /\ recvMsg[q].src = p
      => Tagged(p, q, recvMsg[q].id, recvMsg[q].tag)
FiledTagged(p, q, g) == \A n \in Filed(p, q, g) : Tagged(p, q, n, g)
AllTagged ==
    \A p, q \in Peers :
      /\ QueueTagged(p, q, data[p][q]) /\ HandTagged(p, q)
      /\ \A g \in Tags : FiledTagged(p, q, g)

\* The ids of the messages of p that recvHandler of q has not confirmed.
Waiting(p, q) == OnData(p, q) \cup InHandler(p, q)
UnconfirmedCounts ==
    \A p, q \in Peers :
      /\ IsFiniteSet(Waiting(p, q)) /\ Cardinality(Waiting(p, q)) \in Nat
      /\ Cardinality(Unconfirmed(p, q)) = Cardinality(Waiting(p, q))

-----------------------------------------------------------------------------
(* Queues and ranks.                                                       *)

LEMMA AscendAppend ==
    ASSUME NEW S, NEW s \in Seq(S), NEW m \in S, NEW type, TypedAscending(s, type),
           m.type = type => \A n \in TypedIds(s, type) : n < m.id, NEW t, t = Append(s, m)
    PROVE  TypedAscending(t, type)
  <1>1. PICK n : n = Len(s) + 1
    OBVIOUS
  <1>2. /\ n \in Nat /\ n \notin DOMAIN s /\ DOMAIN t = DOMAIN s \cup {n} /\ t[n] = m
        /\ \A i \in DOMAIN s : t[i] = s[i] /\ i \in Nat /\ i < n
    <2>1. /\ Len(s) \in Nat /\ DOMAIN s = 1 .. Len(s)
          /\ Len(s) + 1 \notin DOMAIN s /\ DOMAIN Append(s, m) = DOMAIN s \cup {Len(s) + 1}
          /\ Append(s, m)[Len(s) + 1] = m
          /\ \A i \in DOMAIN s : Append(s, m)[i] = s[i] /\ i < Len(s) + 1
      BY AppendFacts
    <2>2. QED BY <1>1, <2>1
  <1>3. SUFFICES ASSUME NEW i \in DOMAIN t, NEW j \in DOMAIN t, t[i].type = type, t[j].type = type, i < j
                 PROVE  t[i].id < t[j].id
    BY DEF TypedAscending
  <1>4. i \in DOMAIN s
    BY <1>2, <1>3
  <1>5. CASE j \in DOMAIN s
    BY <1>2, <1>3, <1>4, <1>5 DEF TypedAscending
  <1>6. CASE j = n
    BY <1>2, <1>3, <1>4, <1>6 DEF TypedIds
  <1>7. QED BY <1>2, <1>5, <1>6

LEMMA AscendTail ==
    ASSUME NEW S, NEW s \in Seq(S), s # <<>>, NEW type, TypedAscending(s, type),
           NEW t, t = Tail(s), NEW m, m = Head(s)
    PROVE  /\ TypedAscending(t, type)
           /\ m.type = type => \A n \in TypedIds(t, type) : m.id < n
  <1>1. PICK n : n = Len(s)
    OBVIOUS
  <1>2. /\ n \in Nat /\ n >= 1 /\ DOMAIN s = 1 .. n /\ DOMAIN t = 1 .. n - 1 /\ m = s[1]
        /\ \A i \in 1 .. n - 1 : t[i] = s[i + 1]
    <2>1. /\ Len(s) \in Nat /\ DOMAIN s = 1 .. Len(s) /\ Len(s) # 0 /\ Head(s) = s[1]
          /\ Len(Tail(s)) = Len(s) - 1 /\ \A i \in 1 .. Len(Tail(s)) : Tail(s)[i] = s[i + 1]
          /\ Tail(s) \in Seq(S)
      BY HeadTailProperties, LenProperties, EmptySeq
    <2>2. DOMAIN Tail(s) = 1 .. Len(Tail(s))
      BY <2>1, LenProperties
    <2>3. QED BY <1>1, <2>1, <2>2
  <1>3. \A i \in 1 .. n - 1 : i + 1 \in DOMAIN s /\ t[i] = s[i + 1] /\ 1 < i + 1 /\ 1 \in DOMAIN s
    BY <1>2
  <1>4. TypedAscending(t, type)
    <2>1. SUFFICES ASSUME NEW i \in 1 .. n - 1, NEW j \in 1 .. n - 1,
                          t[i].type = type, t[j].type = type, i < j
                   PROVE  t[i].id < t[j].id
      BY <1>2 DEF TypedAscending
    <2>2. i + 1 < j + 1
      BY <2>1
    <2>3. QED BY <1>3, <2>1, <2>2 DEF TypedAscending
  <1>5. m.type = type => \A x \in TypedIds(t, type) : m.id < x
    <2>1. SUFFICES ASSUME m.type = type, NEW i \in 1 .. n - 1, t[i].type = type
                   PROVE  m.id < t[i].id
      BY <1>2 DEF TypedIds
    <2>2. QED BY <1>2, <1>3, <2>1 DEF TypedAscending
  <1>6. QED BY <1>4, <1>5

LEMMA AscendHead ==
    ASSUME NEW S, NEW s \in Seq(S), s # <<>>, NEW type, TypedAscending(s, type),
           NEW m, m = Head(s), m.type = type, NEW n, n = m.id
    PROVE  n \in TypedIds(s, type) /\ \A x \in TypedIds(s, type) : x = n \/ n < x
  <1>1. Len(s) \in Nat /\ DOMAIN s = 1 .. Len(s) /\ Len(s) # 0 /\ m = s[1]
    BY HeadTailProperties, LenProperties, EmptySeq
  <1>2. 1 \in DOMAIN s /\ \A i \in DOMAIN s : i = 1 \/ 1 < i
    BY <1>1
  <1>3. QED BY <1>1, <1>2 DEF TypedIds, TypedAscending

LEMMA RanksSend ==
    ASSUME NEW S, NEW D, NEW H, NEW F, Ranks(S, D, H, F), NEW n, n \notin S, D \subseteq S,
           \A m \in S : m < n
    PROVE  Ranks(S \cup {n}, D \cup {n}, H, F)
  <1>1. (S \cup {n}) \ (D \cup {n}) = S \ D /\ (S \cup {n}) \ ((D \cup {n}) \cup H) = S \ (D \cup H)
    OBVIOUS
  <1>2. Above(D \cup {n}, S \cup {n})
    BY DEF Ranks, Above
  <1>3. QED BY <1>1, <1>2 DEF Ranks

LEMMA RanksReceive ==
    ASSUME NEW S, NEW D, Ranks(S, D, {}, {}), NEW n \in D, \A m \in D \ {n} : n < m
    PROVE  Ranks(S, D \ {n}, {n}, {})
  BY DEF Ranks, Above

LEMMA RanksConfirm ==
    ASSUME NEW S, NEW D, NEW n, Ranks(S, D, {n}, {})
    PROVE  Ranks(S, D, {}, {n})
  BY DEF Ranks, Above

LEMMA RanksFile ==
    ASSUME NEW S, NEW D, NEW H, NEW n, Ranks(S, D, H, {n})
    PROVE  /\ Ranks(S, D, H, {})
           /\ \A m \in S : m \notin D \cup H \cup {n} => m < n
  BY DEF Ranks, Above

-----------------------------------------------------------------------------
(* The steps, by what they do to the messages.                             *)

HandlersKeep == \A x, y \in Peers : InHandler(x, y)' = InHandler(x, y) /\ Filing(x, y)' = Filing(x, y)

LEMMA StepEffects ==
    ASSUME Shape, [Next]_vars
    PROVE  \/ UNCHANGED <<data, inBox, sent, taken, completed, recvMsg>> /\ HandlersKeep
           \/ \E p \in Peers : Transmit(p) /\ UNCHANGED handlers
           \/ \E p \in Peers : TransmitDestruct(p) /\ UNCHANGED handlers
           \/ \E p \in Peers : DequeueConfirm(p) /\ UNCHANGED handlers
           \/ \E p \in Peers, r \in Peers, h \in Tags :
                TakeMessage(p, <<r, h>>) /\ UNCHANGED <<data, handlers>>
           \/ \E p \in Peers, q \in Peers : RecvFromSocket(p, q)
           \/ \E p \in Peers : Confirm(p) \/ Enqueue(p)
  <1>1. UNCHANGED <<recvPC, recvMsg>> => HandlersKeep
    BY Untouched DEF HandlersKeep
  <1>2. ASSUME NEW p \in Peers, UserStep(p), ~Transmit(p), ~TransmitDestruct(p), ~DequeueConfirm(p)
        PROVE  \/ UNCHANGED <<data, inBox, sent, taken, completed, recvMsg>> /\ HandlersKeep
               \/ \E r \in Peers, h \in Tags : TakeMessage(p, <<r, h>>) /\ UNCHANGED <<data, handlers>>
    <2>1. UNCHANGED handlers
      BY <1>2, UserEffects
    <2>2. CASE UNCHANGED <<wires, boxes, history>> \/ TransmitDestructCtrl(p) \/ PutBack(p)
      <3>1. UNCHANGED <<data, inBox, history>>
        BY <2>2 DEF TransmitDestructCtrl, PutBack, wires, boxes
      <3>2. QED BY <1>1, <2>1, <3>1 DEF handlers, history
    <2>3. ASSUME NEW r \in Peers, NEW h \in Tags, TakeMessage(p, <<r, h>>), UNCHANGED <<wires, out>>
          PROVE  TakeMessage(p, <<r, h>>) /\ UNCHANGED <<data, handlers>>
      BY <2>1, <2>3 DEF wires
    <2>4. QED BY <1>2, <2>2, <2>3, UserEffects
  <1>3. ASSUME NEW p \in Peers, ConfirmLock(p)
        PROVE  UNCHANGED <<data, inBox, sent, taken, completed, recvMsg>> /\ HandlersKeep
    <2>1. /\ recvPC[p] = "lock" /\ recvPC' = [recvPC EXCEPT ![p] = "confirm"]
          /\ UNCHANGED <<data, inBox, sent, taken, completed, recvMsg>>
      BY <1>3 DEF ConfirmLock, GotoRecv, wires, boxes, history
    <2>2. \A y \in Peers : /\ recvPC'[y] \in {"lock", "confirm"} <=> recvPC[y] \in {"lock", "confirm"}
                           /\ recvPC'[y] = "enqueue" <=> recvPC[y] = "enqueue"
      BY <2>1 DEF Shape, Others
    <2>3. QED BY <2>1, <2>2 DEF HandlersKeep, InHandler, Filing
  <1>4. ASSUME NEW p \in Peers, HandleCtrl(p)
        PROVE  UNCHANGED <<data, inBox, sent, taken, completed, recvMsg>> /\ HandlersKeep
    <2>1. UNCHANGED <<data, inBox, history, recvPC, recvMsg>>
      BY <1>4 DEF HandleCtrl, CtrlFromSocket, CtrlCheck, CtrlEnqueue, wires, boxes, history
    <2>2. QED BY <1>1, <2>1 DEF history
  <1>5. CASE UNCHANGED vars
    <2>1. UNCHANGED <<data, inBox, history, recvPC, recvMsg>>
      BY <1>5 DEF vars, wires, boxes, handlers
    <2>2. QED BY <1>1, <2>1 DEF history
  <1>6. ASSUME NEW p \in Peers, UserStep(p) PROVE UNCHANGED handlers
    BY <1>6, UserEffects
  <1>7. CASE Next
    <2>1. PICK p \in Peers : UserStep(p) \/ HandleRecv(p) \/ HandleCtrl(p)
      BY <1>7 DEF Next, Thread
    <2>2. CASE UserStep(p)
      BY <1>2, <1>6, <2>2
    <2>3. CASE HandleRecv(p)
      BY <1>3, <2>3 DEF HandleRecv
    <2>4. CASE HandleCtrl(p)
      BY <1>4, <2>4
    <2>5. QED BY <2>1, <2>2, <2>3, <2>4
  <1>8. QED BY <1>5, <1>7

-----------------------------------------------------------------------------
(* Messages stay in order.                                                 *)

LEMMA RankedStays ==
    ASSUME NEW p, NEW q, Ranked(p, q), SentIds(p, q)' = SentIds(p, q), OnData(p, q)' = OnData(p, q),
           InHandler(p, q)' = InHandler(p, q), Filing(p, q)' = Filing(p, q)
    PROVE  Ranked(p, q)'
  BY DEF Ranked

LEMMA TransmitOrder ==
    ASSUME Shape, MessageIDs, Placed, InOrder, NEW p \in Peers, Transmit(p), UNCHANGED handlers
    PROVE  InOrder'
  <1>0. PICK r, n : r = event[p].peer /\ n = out[p].id
    OBVIOUS
  <1>1. /\ \A q \in Peers : n \notin SentIds(p, q)
        /\ SentIds(p, r)' = SentIds(p, r) \cup {n}
        /\ \A x, y \in Peers : x # p \/ y # r => SentIds(x, y)' = SentIds(x, y)
        /\ OnData(p, r)' = OnData(p, r) \cup {n}
        /\ \A x, y \in Peers : x # p \/ y # r => OnData(x, y)' = OnData(x, y)
    BY <1>0, TransmitMoves
  <1>2. /\ r \in Peers /\ out[p] \in Content("PEER", p) /\ WireHolds(data, "PEER") /\ Pending(p)
        /\ data' = [data EXCEPT ![p][r] = Append(@, out[p])] /\ UNCHANGED inBox
    <2>1. data' = [data EXCEPT ![p][r] = Append(@, out[p])] /\ UNCHANGED inBox
      BY <1>0 DEF Transmit, Push, boxes
    <2>2. r \in Peers /\ out[p] \in Content("PEER", p) /\ Pending(p)
      BY <1>0, TransmitFacts DEF Content, Mail
    <2>3. QED BY <2>1, <2>2 DEF Shape, Wires
  <1>3. \A m \in SentIds(p, r) : m < n
    <2>1. \A i \in DOMAIN sent[p][r] : sent[p][r][i].id < n
      BY <1>0, <1>2 DEF MessageIDs, IdsOK, NextSent
    <2>2. QED BY <2>1 DEF SentIds
  <1>4. OnData(p, r) \subseteq SentIds(p, r)
    BY <1>2, AtIsSent, AtIs, PlaceFacts DEF Placed
  <1>5. \A x, y \in Peers : InHandler(x, y)' = InHandler(x, y) /\ Filing(x, y)' = Filing(x, y)
    BY Untouched DEF handlers
  <1>6. Ranked(p, r)'
    <2>1. Ranks(SentIds(p, r), OnData(p, r), InHandler(p, r), Filing(p, r))
      BY <1>2 DEF InOrder, Ranked
    <2>2. Ranks(SentIds(p, r) \cup {n}, OnData(p, r) \cup {n}, InHandler(p, r), Filing(p, r))
      BY <1>1, <1>2, <1>3, <1>4, <2>1, RanksSend
    <2>3. QED BY <1>1, <1>2, <1>5, <2>2 DEF Ranked
  <1>7. \A x, y \in Peers : x # p \/ y # r => Ranked(x, y)'
    BY <1>1, <1>5, RankedStays DEF InOrder
  <1>8. \A x, y \in Peers : DataAscends(x, y)'
    <2>1. /\ data'[p][r] = Append(data[p][r], out[p])
          /\ \A x, y \in Peers : x # p \/ y # r => data'[x][y] = data[x][y]
      BY <1>2, PushIs
    <2>2. PICK s, t : s = data[p][r] /\ t = data'[p][r]
      OBVIOUS
    <2>3. s \in Seq(Content("PEER", p)) /\ t = Append(s, out[p]) /\ TypedAscending(s, "PEER")
      BY <1>2, <2>1, <2>2 DEF WireHolds, InOrder, DataAscends
    <2>4. \A m \in TypedIds(s, "PEER") : m < out[p].id
      BY <1>0, <1>3, <1>4, <2>2 DEF OnData
    <2>5. TypedAscending(t, "PEER")
      BY <1>2, <2>3, <2>4, AscendAppend
    <2>6. QED BY <2>1, <2>2, <2>5 DEF DataAscends, InOrder
  <1>9. \A x, y \in Peers : \A g \in Tags : BoxAscends(x, y, g)'
    BY <1>2 DEF BoxAscends, InOrder
  <1>10. QED BY <1>6, <1>7, <1>8, <1>9 DEF InOrder

LEMMA DestructOrder ==
    ASSUME Shape, Placed, InOrder, NEW p \in Peers, TransmitDestruct(p), UNCHANGED handlers
    PROVE  InOrder'
  <1>1. /\ out[p] \in Content("PEER", p) /\ out[p].type # "PEER"
        /\ data' = Pushed(data, p, p, out[p]) /\ UNCHANGED <<inBox, sent>>
        /\ WireHolds(data, "PEER") /\ WireDistinct(data, "PEER")
    <2>1. out[p] \in Content("PEER", p) /\ out[p].type # "PEER"
      BY DestructFacts, MailIsMessage DEF Content
    <2>2. data' = Pushed(data, p, p, out[p]) /\ UNCHANGED <<inBox, sent>>
      BY DEF TransmitDestruct, Push, Pushed, boxes, history
    <2>3. QED BY <2>1, <2>2 DEF Shape, Wires, Placed, Distinct
  <1>2. TypedIds(data'[p][p], "PEER") = TypedIds(data[p][p], "PEER")
        /\ \A x, y \in Peers : x # p \/ y # p => data'[x][y] = data[x][y]
    BY <1>1, PushOther
  <1>3. \A x, y \in Peers : Ranked(x, y)'
    <2>1. \A x, y \in Peers : OnData(x, y)' = OnData(x, y)
      BY <1>2 DEF OnData
    <2>2. \A x, y \in Peers : /\ SentIds(x, y)' = SentIds(x, y)
                              /\ InHandler(x, y)' = InHandler(x, y) /\ Filing(x, y)' = Filing(x, y)
      BY <1>1, Untouched DEF handlers
    <2>3. QED BY <2>1, <2>2, RankedStays DEF InOrder
  <1>4. \A x, y \in Peers : DataAscends(x, y)'
    <2>1. PICK s, t : s = data[p][p] /\ t = data'[p][p]
      OBVIOUS
    <2>2. s \in Seq(Content("PEER", p)) /\ t = Append(s, out[p]) /\ TypedAscending(s, "PEER")
      BY <1>1, <2>1, PushIs DEF WireHolds, InOrder, DataAscends, Pushed
    <2>3. TypedAscending(t, "PEER")
      BY <1>1, <2>2, AscendAppend
    <2>4. QED BY <1>2, <2>1, <2>3 DEF DataAscends, InOrder
  <1>5. \A x, y \in Peers : \A g \in Tags : BoxAscends(x, y, g)'
    BY <1>1 DEF BoxAscends, InOrder
  <1>6. QED BY <1>3, <1>4, <1>5 DEF InOrder

LEMMA TakeOrder ==
    ASSUME Shape, Placed, InOrder, NEW p \in Peers, NEW r \in Peers, NEW h \in Tags,
           TakeMessage(p, <<r, h>>), UNCHANGED <<data, handlers>>
    PROVE  InOrder'
  <1>0. PICK k \in Keys : k = <<r, h>>
    BY DEF Keys
  <1>1. /\ inBox[p][k] # <<>> /\ inBox' = Pop(inBox, p, k) /\ UNCHANGED sent
        /\ BoxHolds(inBox, "PEER")
    BY <1>0 DEF TakeMessage, Shape, Boxes
  <1>2. /\ inBox'[p][k] = Tail(inBox[p][k])
        /\ \A x \in Peers : \A l \in Keys : x # p \/ l # k => inBox'[x][l] = inBox[x][l]
    <2>1. PICK t : t = Tail(inBox[p][k])
      OBVIOUS
    <2>2. inBox' = [inBox EXCEPT ![p] = [inBox[p] EXCEPT ![k] = t]]
      BY <1>1, <2>1 DEF Pop
    <2>3. inBox'[p][k] = t
      BY <1>1, <2>2 DEF BoxHolds
    <2>4. \A x \in Peers : \A l \in Keys : x # p \/ l # k => inBox'[x][l] = inBox[x][l]
      BY <1>1, <2>2 DEF BoxHolds
    <2>5. QED BY <2>1, <2>3, <2>4
  <1>3. \A x, y \in Peers : Ranked(x, y)'
    <2>1. \A x, y \in Peers : /\ SentIds(x, y)' = SentIds(x, y) /\ OnData(x, y)' = OnData(x, y)
                              /\ InHandler(x, y)' = InHandler(x, y) /\ Filing(x, y)' = Filing(x, y)
      BY <1>1, Untouched DEF handlers
    <2>2. QED BY <2>1, RankedStays DEF InOrder
  <1>4. \A x, y \in Peers : DataAscends(x, y)'
    BY DEF DataAscends, InOrder
  <1>5. PICK s, t : s = inBox[p][k] /\ t = inBox'[p][k]
    OBVIOUS
  <1>6. TypedAscending(t, "PEER")
    <2>1. s \in Seq(Mail("PEER", {r}, {h})) /\ s # <<>> /\ t = Tail(s)
      BY <1>0, <1>1, <1>2, <1>5 DEF BoxHolds
    <2>2. TypedAscending(s, "PEER")
      BY <1>0, <1>5 DEF InOrder, BoxAscends
    <2>3. QED BY <2>1, <2>2, AscendTail
  <1>7. ASSUME NEW x \in Peers, NEW y \in Peers, NEW g \in Tags PROVE BoxAscends(x, y, g)'
    <2>1. PICK l \in Keys : l = <<x, g>>
      BY DEF Keys
    <2>2. TypedAscending(inBox[y][l], "PEER")
      BY <2>1 DEF InOrder, BoxAscends
    <2>3. TypedAscending(inBox'[y][l], "PEER")
      BY <1>2, <1>5, <1>6, <2>2
    <2>4. QED BY <2>1, <2>3 DEF BoxAscends
  <1>8. QED BY <1>3, <1>4, <1>7 DEF InOrder

LEMMA SocketOrder ==
    ASSUME Shape, Placed, InOrder, NEW p \in Peers, NEW q \in Peers, RecvFromSocket(p, q)
    PROVE  InOrder'
  <1>0. PICK m : m = Head(data[q][p])
    OBVIOUS
  <1>1. /\ data[q][p] # <<>> /\ data' = [data EXCEPT ![q][p] = Tail(@)] /\ UNCHANGED <<inBox, sent>>
        /\ WireHolds(data, "PEER")
    BY DEF RecvFromSocket, boxes, history, Shape, Wires
  <1>2. /\ data'[q][p] = Tail(data[q][p])
        /\ \A x, y \in Peers : x # q \/ y # p => data'[x][y] = data[x][y]
    BY <1>1 DEF WireHolds
  <1>3. PICK s, t : s = data[q][p] /\ t = data'[q][p]
    OBVIOUS
  <1>4. TypedAscending(t, "PEER") /\ (m.type = "PEER" => \A n \in TypedIds(t, "PEER") : m.id < n)
    <2>1. /\ s \in Seq(Content("PEER", q)) /\ s # <<>> /\ t = Tail(s) /\ m = Head(s)
          /\ TypedAscending(s, "PEER")
      BY <1>0, <1>1, <1>2, <1>3 DEF WireHolds, InOrder, DataAscends
    <2>2. QED BY <2>1, AscendTail
  <1>5. \A x, y \in Peers : DataAscends(x, y)'
    BY <1>2, <1>3, <1>4 DEF DataAscends, InOrder
  <1>6. \A x, y \in Peers : \A g \in Tags : BoxAscends(x, y, g)'
    BY <1>1 DEF BoxAscends, InOrder
  <1>7. /\ m.type = "PEER" => OnData(q, p)' = OnData(q, p) \ {m.id} /\ m.id \in OnData(q, p)
        /\ m.type # "PEER" => OnData(q, p)' = OnData(q, p)
        /\ \A x, y \in Peers : x # q \/ y # p => OnData(x, y)' = OnData(x, y)
        /\ InHandler(q, p) = {} /\ Filing(q, p) = {}
        /\ m.type = "PEER" => InHandler(q, p)' = {m.id}
        /\ m.type # "PEER" => InHandler(q, p)' = {}
        /\ \A x, y \in Peers : x # q \/ y # p => InHandler(x, y)' = InHandler(x, y)
        /\ \A x, y \in Peers : Filing(x, y)' = Filing(x, y)
    BY <1>0, SocketMoves
  <1>8. \A x, y \in Peers : SentIds(x, y)' = SentIds(x, y)
    BY <1>1, Untouched
  <1>9. \A x, y \in Peers : x # q \/ y # p => Ranked(x, y)'
    BY <1>7, <1>8, RankedStays DEF InOrder
  <1>10. Ranked(q, p)'
    <2>1. Ranked(q, p)
      BY DEF InOrder
    <2>2. CASE m.type # "PEER"
      BY <1>7, <1>8, <2>1, <2>2, RankedStays
    <2>3. CASE m.type = "PEER"
      <3>1. \A n \in OnData(q, p) \ {m.id} : m.id < n
        BY <1>3, <1>4, <1>7, <2>3 DEF OnData
      <3>2. Ranks(SentIds(q, p), OnData(q, p), {}, {})
        BY <1>7, <2>1 DEF Ranked
      <3>3. Ranks(SentIds(q, p), OnData(q, p) \ {m.id}, {m.id}, {})
        BY <1>7, <2>3, <3>1, <3>2, RanksReceive
      <3>4. QED BY <1>7, <1>8, <2>3, <3>3 DEF Ranked
    <2>4. QED BY <2>2, <2>3
  <1>11. QED BY <1>5, <1>6, <1>9, <1>10 DEF InOrder

LEMMA ConfirmOrder ==
    ASSUME Shape, InOrder, NEW p \in Peers, Confirm(p)
    PROVE  InOrder'
  <1>0. PICK q, n : q = recvMsg[p].src /\ n = recvMsg[p].id
    OBVIOUS
  <1>1. UNCHANGED <<data, inBox, sent>>
    BY DEF Confirm, boxes, history
  <1>2. \A x, y \in Peers : SentIds(x, y)' = SentIds(x, y) /\ OnData(x, y)' = OnData(x, y)
    BY <1>1, Untouched
  <1>3. /\ q \in Peers
        /\ InHandler(q, p) = {n} /\ InHandler(q, p)' = {} /\ Filing(q, p) = {} /\ Filing(q, p)' = {n}
        /\ \A x, y \in Peers : x # q \/ y # p =>
             InHandler(x, y)' = InHandler(x, y) /\ Filing(x, y)' = Filing(x, y)
    BY <1>0, ConfirmMoves
  <1>4. Ranked(q, p)'
    <2>1. Ranks(SentIds(q, p), OnData(q, p), {n}, {})
      BY <1>3 DEF InOrder, Ranked
    <2>2. Ranks(SentIds(q, p), OnData(q, p), {}, {n})
      BY <2>1, RanksConfirm
    <2>3. QED BY <1>2, <1>3, <2>2 DEF Ranked
  <1>5. \A x, y \in Peers : x # q \/ y # p => Ranked(x, y)'
    BY <1>2, <1>3, RankedStays DEF InOrder
  <1>6. QED BY <1>1, <1>4, <1>5 DEF InOrder, DataAscends, BoxAscends

LEMMA EnqueueOrder ==
    ASSUME Shape, Placed, InOrder, NEW p \in Peers, Enqueue(p)
    PROVE  InOrder'
  <1>0. PICK m, q, g, n : m = recvMsg[p] /\ q = m.src /\ g = m.tag /\ n = m.id
    OBVIOUS
  <1>1. /\ q \in Peers /\ g \in Tags /\ Filing(q, p) = {n} /\ Filing(q, p)' = {}
        /\ \A x, y \in Peers : InHandler(x, y)' = InHandler(x, y)
        /\ \A x, y \in Peers : x # q \/ y # p => Filing(x, y)' = Filing(x, y)
    BY <1>0, EnqueueMoves
  <1>2. /\ m \in Mail("PEER", Peers, Tags) /\ inBox' = Put(inBox, p, m) /\ UNCHANGED <<data, sent>>
        /\ BoxHolds(inBox, "PEER")
    <2>1. recvPC[p] = "enqueue" /\ inBox' = Put(inBox, p, m) /\ UNCHANGED <<data, sent>>
      BY <1>0 DEF Enqueue, wires, history
    <2>2. m \in Mail("PEER", Peers, Tags)
      BY <1>0, <2>1, HandlerFacts
    <2>3. QED BY <2>1, <2>2 DEF Shape, Boxes
  <1>3. PICK k \in Keys : k = <<q, g>>
    BY <1>1 DEF Keys
  <1>4. /\ inBox'[p][k] = Append(inBox[p][k], m)
         /\ \A x \in Peers : \A l \in Keys : x # p \/ l # k => inBox'[x][l] = inBox[x][l]
    <2>1. PICK t : t = Append(inBox[p][k], m)
      OBVIOUS
    <2>2. inBox' = [inBox EXCEPT ![p] = [inBox[p] EXCEPT ![k] = t]]
      BY <1>0, <1>2, <1>3, <2>1 DEF Put, Key
    <2>3. inBox'[p][k] = t
      BY <1>2, <2>2 DEF BoxHolds
    <2>4. \A x \in Peers : \A l \in Keys : x # p \/ l # k => inBox'[x][l] = inBox[x][l]
      BY <1>2, <2>2 DEF BoxHolds
    <2>5. QED BY <2>1, <2>3, <2>4
  <1>5. \A x, y \in Peers : SentIds(x, y)' = SentIds(x, y) /\ OnData(x, y)' = OnData(x, y)
    BY <1>2, Untouched
  <1>6. /\ Ranks(SentIds(q, p), OnData(q, p), InHandler(q, p), {})
        /\ \A x \in SentIds(q, p) : x \notin OnData(q, p) \cup InHandler(q, p) \cup {n} => x < n
    <2>1. Ranks(SentIds(q, p), OnData(q, p), InHandler(q, p), {n})
      BY <1>1 DEF InOrder, Ranked
    <2>2. QED BY <2>1, RanksFile
  <1>7. Ranked(q, p)'
    BY <1>1, <1>5, <1>6 DEF Ranked
  <1>8. \A x, y \in Peers : x # q \/ y # p => Ranked(x, y)'
    BY <1>1, <1>5, RankedStays DEF InOrder
  <1>9. \A x \in Filed(q, p, g) : x < n
    <2>1. SUFFICES ASSUME NEW x \in Filed(q, p, g) PROVE x < n
      OBVIOUS
    <2>2. x \in At(q, p, <<"inBox", g>>) /\ <<"inBox", g>> \in MessagePlaces /\ Partition
      <3>1. At(q, p, <<"inBox", g>>) = Filed(q, p, g)
        BY AtIs
      <3>2. QED BY <1>1, <3>1, PlaceFacts DEF Placed
    <2>3. \A w \in {"data", "recvHandler", "enqueue"} :
            <<w, 0>> \in MessagePlaces /\ <<w, 0>> # <<"inBox", g>>
      BY PlaceFacts
    <2>4. \A w \in {"data", "recvHandler", "enqueue"} : x \notin At(q, p, <<w, 0>>)
      BY <1>1, <2>2, <2>3, AtNoOther
    <2>5. x \notin OnData(q, p) /\ x \notin InHandler(q, p) /\ x \notin Filing(q, p)
      BY <2>4, AtIs
    <2>6. x \in SentIds(q, p)
      BY <1>1, <2>2, AtIsSent, PlaceFacts
    <2>7. QED BY <1>1, <1>6, <2>5, <2>6
  <1>10. PICK s, t : s = inBox[p][k] /\ t = inBox'[p][k]
    OBVIOUS
  <1>11. TypedAscending(t, "PEER")
    <2>1. s \in Seq(Mail("PEER", {q}, {g})) /\ m \in Mail("PEER", {q}, {g}) /\ t = Append(s, m)
      BY <1>0, <1>1, <1>2, <1>3, <1>10, <1>4 DEF BoxHolds, Mail
    <2>2. TypedAscending(s, "PEER")
      BY <1>1, <1>3, <1>10 DEF InOrder, BoxAscends
    <2>3. \A x \in TypedIds(s, "PEER") : x < m.id
      BY <1>0, <1>3, <1>9, <1>10 DEF Filed
    <2>4. QED BY <2>1, <2>2, <2>3, AscendAppend
  <1>12. ASSUME NEW x \in Peers, NEW y \in Peers, NEW h \in Tags PROVE BoxAscends(x, y, h)'
    <2>1. PICK l \in Keys : l = <<x, h>>
      BY DEF Keys
    <2>2. TypedAscending(inBox[y][l], "PEER")
      BY <2>1 DEF InOrder, BoxAscends
    <2>3. TypedAscending(inBox'[y][l], "PEER")
      BY <1>10, <1>4, <1>11, <2>2
    <2>4. QED BY <2>1, <2>3 DEF BoxAscends
  <1>13. QED BY <1>2, <1>7, <1>8, <1>12 DEF InOrder, DataAscends

\* What is on its way between two peers, on the connection, in recvHandler and
\* in every queue of inBox, is in the order in which it was sent.
THEOREM InOrderInvariant == Spec => []InOrder
  <1>1. Init => InOrder
    <2>1. SUFFICES ASSUME Init, NEW p \in Peers, NEW q \in Peers
                   PROVE  Ranked(p, q) /\ DataAscends(p, q) /\ \A g \in Tags : BoxAscends(p, q, g)
      BY DEF InOrder
    <2>2. /\ data[p][q] = <<>> /\ sent[p][q] = <<>> /\ \A g \in Tags : inBox[q][<<p, g>>] = <<>>
          /\ recvPC[q] = "recv"
      BY <2>1 DEF Init, Keys
    <2>3. TypedAscending(<<>>, "PEER") /\ TypedIds(<<>>, "PEER") = {}
      BY DEF TypedAscending, TypedIds
    <2>4. SentIds(p, q) = {} /\ OnData(p, q) = {} /\ InHandler(p, q) = {} /\ Filing(p, q) = {}
      BY <2>2, <2>3 DEF SentIds, OnData, InHandler, Filing
    <2>5. QED BY <2>2, <2>3, <2>4 DEF Ranked, Ranks, Above, DataAscends, BoxAscends
  <1>2. Shape /\ MessageIDs /\ Placed /\ InOrder /\ [Next]_vars => InOrder'
    <2>1. SUFFICES ASSUME Shape, MessageIDs, Placed, InOrder, [Next]_vars PROVE InOrder'
      OBVIOUS
    <2>2. ASSUME UNCHANGED <<data, inBox, sent>>, HandlersKeep PROVE InOrder'
      <3>1. \A x, y \in Peers : /\ SentIds(x, y)' = SentIds(x, y) /\ OnData(x, y)' = OnData(x, y)
                                /\ InHandler(x, y)' = InHandler(x, y) /\ Filing(x, y)' = Filing(x, y)
        BY <2>2, Untouched DEF HandlersKeep
      <3>2. \A x, y \in Peers : Ranked(x, y)'
        BY <2>1, <3>1, RankedStays DEF InOrder
      <3>3. QED BY <2>1, <2>2, <3>2 DEF InOrder, DataAscends, BoxAscends
    <2>3. ASSUME NEW p \in Peers, DequeueConfirm(p), UNCHANGED handlers
          PROVE  UNCHANGED <<data, inBox, sent>> /\ HandlersKeep
      BY <2>3, Untouched DEF DequeueConfirm, wires, handlers, HandlersKeep
    <2>4. QED
      BY <2>1, <2>2, <2>3, StepEffects, TransmitOrder, DestructOrder, TakeOrder, SocketOrder,
         ConfirmOrder, EnqueueOrder
  <1>3. QED BY <1>1, <1>2, ShapeInvariant, MessageIDsInvariant, PlacedInvariant, PTL DEF Spec

-----------------------------------------------------------------------------
(* Messages keep their tags.                                               *)

SentStays == \A p, q \in Peers : \A n, g : Tagged(p, q, n, g) => Tagged(p, q, n, g)'

LEMMA TransmitSends ==
    ASSUME Shape, NEW p \in Peers, Transmit(p), NEW r, r = event[p].peer, NEW o, o = out[p]
    PROVE  r \in Peers /\ SentStays /\ Tagged(p, r, o.id, o.tag)'
  <1>0. PICK m, s, t : m = [id |-> o.id, tag |-> o.tag] /\ s = sent[p][r] /\ t = Append(s, m)
    OBVIOUS
  <1>1. r \in Peers /\ m \in Items
    BY <1>0, TransmitFacts DEF Items
  <1>2. sent \in [Peers -> [Peers -> Seq(Items)]]
    BY DEF Shape, Others, Items
  <1>3. sent' = [sent EXCEPT ![p][r] = Append(@, m)]
    BY <1>0 DEF Transmit
  <1>4. sent'[p][r] = t /\ \A x, y \in Peers : x # p \/ y # r => sent'[x][y] = sent[x][y]
    BY <1>0, <1>1, <1>2, <1>3
  <1>5. /\ DOMAIN t = DOMAIN s \cup {Len(s) + 1} /\ t[Len(s) + 1] = m
        /\ \A i \in DOMAIN s : t[i] = s[i]
    <2>1. s \in Seq(Items)
      BY <1>0, <1>1, <1>2
    <2>2. QED BY <1>0, <1>1, <2>1, AppendFacts
  <1>6. Tagged(p, r, o.id, o.tag)'
    BY <1>0, <1>4, <1>5 DEF Tagged
  <1>7. SentStays
    <2>1. SUFFICES ASSUME NEW x \in Peers, NEW y \in Peers, NEW n, NEW g, Tagged(x, y, n, g)
                   PROVE  Tagged(x, y, n, g)'
      BY DEF SentStays
    <2>2. CASE x = p /\ y = r
      <3>1. PICK i \in DOMAIN s : s[i] = [id |-> n, tag |-> g]
        BY <1>0, <2>1, <2>2 DEF Tagged
      <3>2. i \in DOMAIN t /\ t[i] = [id |-> n, tag |-> g]
        BY <1>5, <3>1
      <3>3. QED BY <1>4, <2>2, <3>2 DEF Tagged
    <2>3. CASE x # p \/ y # r
      BY <1>4, <2>1, <2>3 DEF Tagged
    <2>4. QED BY <2>2, <2>3
  <1>8. QED BY <1>1, <1>6, <1>7

LEMMA SentNothing ==
    ASSUME UNCHANGED sent
    PROVE  SentStays
  BY DEF SentStays, Tagged

LEMMA TagsStay ==
    ASSUME AllTagged, SentStays, UNCHANGED <<recvPC, recvMsg>>,
           NEW p \in Peers, NEW q \in Peers
    PROVE  /\ data'[p][q] = data[p][q] => QueueTagged(p, q, data[p][q])'
           /\ HandTagged(p, q)'
           /\ \A g \in Tags : Filed(p, q, g)' \subseteq Filed(p, q, g) => FiledTagged(p, q, g)'
  <1>1. \A n, g : Tagged(p, q, n, g) => Tagged(p, q, n, g)'
    BY DEF SentStays
  <1>2. QueueTagged(p, q, data[p][q]) /\ HandTagged(p, q) /\ \A g \in Tags : FiledTagged(p, q, g)
    BY DEF AllTagged
  <1>3. data'[p][q] = data[p][q] => QueueTagged(p, q, data[p][q])'
    BY <1>1, <1>2 DEF QueueTagged
  <1>4. HandTagged(p, q)'
    BY <1>1, <1>2 DEF HandTagged
  <1>5. \A g \in Tags : Filed(p, q, g)' \subseteq Filed(p, q, g) => FiledTagged(p, q, g)'
    BY <1>1, <1>2 DEF FiledTagged
  <1>6. QED BY <1>3, <1>4, <1>5

LEMMA PushTagged ==
    ASSUME AllTagged, SentStays, Shape, NEW p \in Peers, NEW r \in Peers, NEW m \in Content("PEER", p),
           data' = [data EXCEPT ![p][r] = Append(@, m)], UNCHANGED <<inBox, recvPC, recvMsg>>,
           m.type = "PEER" => Tagged(p, r, m.id, m.tag)'
    PROVE  AllTagged'
  <1>1. WireHolds(data, "PEER")
    BY DEF Shape, Wires
  <1>2. /\ data'[p][r] = Append(data[p][r], m)
        /\ \A x, y \in Peers : x # p \/ y # r => data'[x][y] = data[x][y]
    BY <1>1 DEF WireHolds
  <1>3. PICK s, t : s = data[p][r] /\ t = data'[p][r]
    OBVIOUS
  <1>4. s \in Seq(Content("PEER", p)) /\ t = Append(s, m)
    BY <1>1, <1>2, <1>3 DEF WireHolds
  <1>5. /\ DOMAIN t = DOMAIN s \cup {Len(s) + 1} /\ t[Len(s) + 1] = m
        /\ \A i \in DOMAIN s : t[i] = s[i]
    BY <1>4, AppendFacts
  <1>6. QueueTagged(p, r, data[p][r])'
    <2>1. \A i \in DOMAIN s : s[i].type = "PEER" => Tagged(p, r, s[i].id, s[i].tag)'
      BY <1>3 DEF AllTagged, QueueTagged, SentStays
    <2>2. \A i \in DOMAIN t : t[i].type = "PEER" => Tagged(p, r, t[i].id, t[i].tag)'
      BY <1>5, <2>1
    <2>3. QED BY <1>3, <2>2 DEF QueueTagged
  <1>7. \A x, y \in Peers : \A g \in Tags : Filed(x, y, g)' \subseteq Filed(x, y, g)
    BY Untouched
  <1>8. ASSUME NEW x \in Peers, NEW y \in Peers
        PROVE  /\ QueueTagged(x, y, data[x][y])' /\ HandTagged(x, y)'
               /\ \A g \in Tags : FiledTagged(x, y, g)'
    <2>1. /\ data'[x][y] = data[x][y] => QueueTagged(x, y, data[x][y])'
          /\ HandTagged(x, y)' /\ \A g \in Tags : FiledTagged(x, y, g)'
      BY <1>7, TagsStay
    <2>2. QED BY <1>2, <1>6, <2>1
  <1>9. QED BY <1>8 DEF AllTagged

LEMMA TransmitTagged ==
    ASSUME Shape, AllTagged, NEW p \in Peers, Transmit(p) \/ TransmitDestruct(p), UNCHANGED handlers
    PROVE  AllTagged'
  <1>1. CASE Transmit(p)
    <2>1. PICK r, o : r = event[p].peer /\ o = out[p]
      OBVIOUS
    <2>2. r \in Peers /\ SentStays /\ Tagged(p, r, o.id, o.tag)'
      BY <1>1, <2>1, TransmitSends
    <2>3. o \in Content("PEER", p)
      BY <1>1, <2>1, TransmitFacts DEF Content, Mail
    <2>4. data' = [data EXCEPT ![p][r] = Append(@, o)] /\ UNCHANGED <<inBox, recvPC, recvMsg>>
      BY <1>1, <2>1 DEF Transmit, Push, boxes, handlers
    <2>5. QED BY <2>2, <2>3, <2>4, PushTagged
  <1>2. CASE TransmitDestruct(p)
    <2>1. out[p] \in Content("PEER", p) /\ out[p].type # "PEER"
      BY <1>2, DestructFacts, MailIsMessage DEF Content
    <2>2. /\ data' = [data EXCEPT ![p][p] = Append(@, out[p])]
          /\ UNCHANGED <<inBox, sent, recvPC, recvMsg>>
      BY <1>2 DEF TransmitDestruct, Push, boxes, history, handlers
    <2>3. QED BY <2>1, <2>2, SentNothing, PushTagged
  <1>3. QED BY <1>1, <1>2

LEMMA TakeTagged ==
    ASSUME Shape, Placed, AllTagged, NEW p \in Peers, NEW r \in Peers, NEW h \in Tags,
           TakeMessage(p, <<r, h>>), UNCHANGED <<data, handlers>>
    PROVE  AllTagged'
  <1>1. SentStays /\ UNCHANGED <<recvPC, recvMsg>>
    BY SentNothing DEF TakeMessage, handlers
  <1>2. PICK m : m = Head(inBox[p][<<r, h>>])
    OBVIOUS
  <1>3. /\ Filed(r, p, h)' = Filed(r, p, h) \ {m.id}
        /\ \A x, y \in Peers : \A g \in Tags : x # r \/ y # p \/ g # h => Filed(x, y, g)' = Filed(x, y, g)
    BY <1>2, TakeMoves
  <1>4. \A x, y \in Peers : \A g \in Tags : Filed(x, y, g)' \subseteq Filed(x, y, g)
    BY <1>3
  <1>5. QED BY <1>1, <1>4, TagsStay DEF AllTagged

LEMMA SocketTagged ==
    ASSUME Shape, AllTagged, NEW p \in Peers, NEW q \in Peers, RecvFromSocket(p, q)
    PROVE  AllTagged'
  <1>0. PICK m, s, t : m = Head(data[q][p]) /\ s = data[q][p] /\ t = Tail(s)
    OBVIOUS
  <1>1. /\ recvPC[p] = "recv" /\ data[q][p] # <<>> /\ data' = [data EXCEPT ![q][p] = Tail(@)]
        /\ \/ /\ m.type = "DESTRUCT" /\ recvPC' = [recvPC EXCEPT ![p] = "stopped"] /\ UNCHANGED recvMsg
           \/ /\ m.type = "PEER" /\ recvPC' = [recvPC EXCEPT ![p] = "lock"]
              /\ recvMsg' = [recvMsg EXCEPT ![p] = m]
        /\ UNCHANGED <<inBox, sent>>
    BY <1>0 DEF RecvFromSocket, GotoRecv, boxes, history
  <1>2. /\ WireHolds(data, "PEER")
        /\ recvPC \in [Peers -> {"recv", "lock", "confirm", "enqueue", "stopped"}]
        /\ recvMsg \in [Peers -> Messages \cup {Nothing}]
    BY DEF Shape, Wires, Others
  <1>3. \A x, y \in Peers : \A n, g : Tagged(x, y, n, g) => Tagged(x, y, n, g)'
    BY <1>1, SentNothing DEF SentStays
  <1>4. data'[q][p] = t /\ \A x, y \in Peers : x # q \/ y # p => data'[x][y] = data[x][y]
    BY <1>0, <1>1, <1>2 DEF WireHolds
  <1>5. QueueTagged(q, p, s) /\ \A x, y \in Peers : QueueTagged(x, y, data[x][y]) /\ HandTagged(x, y)
    BY <1>0 DEF AllTagged
  <1>6. 1 \in DOMAIN s /\ m = s[1] /\ \A i \in DOMAIN t : i + 1 \in DOMAIN s /\ t[i] = s[i + 1]
    <2>1. s \in Seq(Content("PEER", q)) /\ s # <<>>
      BY <1>0, <1>1, <1>2 DEF WireHolds
    <2>2. /\ Len(s) \in Nat /\ DOMAIN s = 1 .. Len(s) /\ Len(s) # 0 /\ m = s[1]
          /\ Len(t) = Len(s) - 1 /\ \A i \in 1 .. Len(t) : t[i] = s[i + 1]
          /\ t \in Seq(Content("PEER", q))
      BY <1>0, <2>1, HeadTailProperties, LenProperties, EmptySeq
    <2>3. DOMAIN t = 1 .. Len(t)
      BY <2>2, LenProperties
    <2>4. QED BY <2>2, <2>3
  <1>7. ASSUME NEW x \in Peers, NEW y \in Peers PROVE QueueTagged(x, y, data[x][y])'
    <2>1. CASE x = q /\ y = p
      BY <1>3, <1>4, <1>5, <1>6, <2>1 DEF QueueTagged
    <2>2. CASE x # q \/ y # p
      BY <1>3, <1>4, <1>5, <2>2 DEF QueueTagged
    <2>3. QED BY <2>1, <2>2
  <1>8. ASSUME NEW x \in Peers, NEW y \in Peers PROVE HandTagged(x, y)'
    <2>1. CASE y # p
      BY <1>1, <1>2, <1>3, <1>5, <2>1 DEF HandTagged
    <2>2. CASE y = p /\ m.type = "DESTRUCT"
      BY <1>1, <1>2, <2>2 DEF HandTagged
    <2>3. CASE y = p /\ m.type = "PEER"
      <3>1. m.src = q /\ recvMsg'[p] = m
        BY <1>0, <1>1, <1>2, <2>3, SocketFacts DEF Mail
      <3>2. Tagged(q, p, m.id, m.tag)
        BY <1>5, <1>6, <2>3 DEF QueueTagged
      <3>3. QED BY <1>3, <2>3, <3>1, <3>2 DEF HandTagged
    <2>4. QED BY <1>1, <2>1, <2>2, <2>3
  <1>9. \A x, y \in Peers : \A g \in Tags : FiledTagged(x, y, g)'
    BY <1>1, <1>3, Untouched DEF FiledTagged, AllTagged
  <1>10. QED BY <1>7, <1>8, <1>9 DEF AllTagged

LEMMA ConfirmTagged ==
    ASSUME Shape, AllTagged, NEW p \in Peers, Confirm(p)
    PROVE  AllTagged'
  <1>1. /\ recvPC[p] = "confirm" /\ recvPC' = [recvPC EXCEPT ![p] = "enqueue"]
        /\ UNCHANGED <<data, inBox, sent, recvMsg>>
    BY DEF Confirm, GotoRecv, boxes, history
  <1>2. \A y \in Peers : recvPC'[y] \in {"lock", "confirm", "enqueue"} => recvPC[y] \in {"lock", "confirm", "enqueue"}
    BY <1>1 DEF Shape, Others
  <1>3. \A x, y \in Peers : \A n, g : Tagged(x, y, n, g) => Tagged(x, y, n, g)'
    BY <1>1, SentNothing DEF SentStays
  <1>4. \A x, y \in Peers : QueueTagged(x, y, data[x][y])' /\ HandTagged(x, y)'
    BY <1>1, <1>2, <1>3 DEF AllTagged, QueueTagged, HandTagged
  <1>5. \A x, y \in Peers : \A g \in Tags : FiledTagged(x, y, g)'
    BY <1>1, <1>3, Untouched DEF FiledTagged, AllTagged
  <1>6. QED BY <1>4, <1>5 DEF AllTagged

LEMMA EnqueueTagged ==
    ASSUME Shape, Placed, AllTagged, NEW p \in Peers, Enqueue(p)
    PROVE  AllTagged'
  <1>0. PICK q, g, n : q = recvMsg[p].src /\ g = recvMsg[p].tag /\ n = recvMsg[p].id
    OBVIOUS
  <1>1. /\ recvPC[p] = "enqueue" /\ recvPC' = [recvPC EXCEPT ![p] = "recv"]
        /\ recvMsg' = [recvMsg EXCEPT ![p] = Nothing] /\ UNCHANGED <<data, sent>>
    BY DEF Enqueue, GotoRecv, wires, history
  <1>2. /\ recvPC \in [Peers -> {"recv", "lock", "confirm", "enqueue", "stopped"}]
        /\ recvMsg \in [Peers -> Messages \cup {Nothing}]
    BY DEF Shape, Others
  <1>3. /\ q \in Peers /\ g \in Tags /\ Filed(q, p, g)' = Filed(q, p, g) \cup {n}
        /\ \A x, y \in Peers : \A h \in Tags : x # q \/ y # p \/ h # g => Filed(x, y, h)' = Filed(x, y, h)
    BY <1>0, EnqueueMoves
  <1>4. \A x, y \in Peers : \A m, h : Tagged(x, y, m, h) => Tagged(x, y, m, h)'
    BY <1>1, SentNothing DEF SentStays
  <1>5. Tagged(q, p, n, g)
    BY <1>0, <1>1, <1>3 DEF AllTagged, HandTagged
  <1>6. \A x, y \in Peers : QueueTagged(x, y, data[x][y])'
    BY <1>1, <1>4 DEF AllTagged, QueueTagged
  <1>7. \A x, y \in Peers : HandTagged(x, y)'
    <2>1. recvPC'[p] = "recv" /\ \A y \in Peers \ {p} : recvPC'[y] = recvPC[y] /\ recvMsg'[y] = recvMsg[y]
      BY <1>1, <1>2
    <2>2. QED BY <1>4, <2>1 DEF AllTagged, HandTagged
  <1>8. \A x, y \in Peers : \A h \in Tags : FiledTagged(x, y, h)'
    <2>1. FiledTagged(q, p, g)'
      BY <1>3, <1>4, <1>5 DEF AllTagged, FiledTagged
    <2>2. ASSUME NEW x \in Peers, NEW y \in Peers, NEW h \in Tags, x # q \/ y # p \/ h # g
          PROVE  FiledTagged(x, y, h)'
      <3>1. Filed(x, y, h)' = Filed(x, y, h) /\ FiledTagged(x, y, h)
        BY <1>3, <2>2 DEF AllTagged
      <3>2. QED BY <1>4, <3>1 DEF FiledTagged
    <2>3. QED BY <2>1, <2>2
  <1>9. QED BY <1>6, <1>7, <1>8 DEF AllTagged

\* A message arrives with the tag it was sent with.
THEOREM AllTaggedInvariant == Spec => []AllTagged
  <1>1. Init => AllTagged
    <2>1. SUFFICES ASSUME Init, NEW p \in Peers, NEW q \in Peers
                   PROVE  /\ QueueTagged(p, q, data[p][q]) /\ HandTagged(p, q)
                          /\ \A g \in Tags : FiledTagged(p, q, g)
      BY DEF AllTagged
    <2>2. /\ data[p][q] = <<>> /\ \A g \in Tags : inBox[q][<<p, g>>] = <<>>
          /\ recvPC[q] = "recv"
      BY <2>1 DEF Init, Keys
    <2>3. QED BY <2>2 DEF QueueTagged, HandTagged, FiledTagged, Filed, TypedIds
  <1>2. Shape /\ Placed /\ AllTagged /\ [Next]_vars => AllTagged'
    <2>1. SUFFICES ASSUME Shape, Placed, AllTagged, [Next]_vars PROVE AllTagged'
      OBVIOUS
    <2>2. ASSUME UNCHANGED <<data, inBox, sent, recvMsg>>, HandlersKeep PROVE AllTagged'
      <3>1. SentStays /\ \A x, y \in Peers : \A g \in Tags : Filed(x, y, g)' = Filed(x, y, g)
        BY <2>2, SentNothing, Untouched
      <3>2. \A x, y \in Peers : \A n, g : Tagged(x, y, n, g) => Tagged(x, y, n, g)'
        BY <3>1 DEF SentStays
      <3>3. ASSUME NEW x \in Peers, NEW y \in Peers PROVE HandTagged(x, y)'
        <4>1. /\ recvPC'[y] \in {"lock", "confirm"} /\ recvMsg'[y].src = x
                   => recvPC[y] \in {"lock", "confirm"}
              /\ recvPC'[y] = "enqueue" /\ recvMsg'[y].src = x => recvPC[y] = "enqueue"
          BY <2>2 DEF HandlersKeep, InHandler, Filing
        <4>2. HandTagged(x, y) /\ recvMsg' = recvMsg
          BY <2>1, <2>2 DEF AllTagged
        <4>3. QED BY <3>2, <4>1, <4>2 DEF HandTagged
      <3>4. QED BY <2>1, <2>2, <3>1, <3>2, <3>3 DEF AllTagged, QueueTagged, FiledTagged
    <2>3. ASSUME NEW p \in Peers, DequeueConfirm(p), UNCHANGED handlers
          PROVE  UNCHANGED <<data, inBox, sent, recvMsg>> /\ HandlersKeep
      BY <2>3, Untouched DEF DequeueConfirm, wires, handlers, HandlersKeep
    <2>4. QED
      BY <2>1, <2>2, <2>3, StepEffects, TransmitTagged, TakeTagged, SocketTagged,
         ConfirmTagged, EnqueueTagged
  <1>3. QED BY <1>1, <1>2, ShapeInvariant, PlacedInvariant, PTL DEF Spec

-----------------------------------------------------------------------------
(* How many messages the destination has accepted.                         *)

LEMMA WaitingFacts ==
    ASSUME Shape, MessageIDs, Placed, NEW p \in Peers, NEW q \in Peers
    PROVE  /\ Waiting(p, q) \subseteq SentIds(p, q) /\ IsFiniteSet(Waiting(p, q))
           /\ Cardinality(Waiting(p, q)) \in Nat
           /\ Cardinality(Unconfirmed(p, q)) = Cardinality(Waiting(p, q))
  <1>1. Among(p, q, UnconfirmedPlaces) = Waiting(p, q)
    BY AtIs DEF Among, UnconfirmedPlaces, Waiting
  <1>2. Holds(Unconfirmed(p, q), Waiting(p, q))
    BY <1>1, UnconfirmedHolds
  <1>3. Waiting(p, q) \subseteq SentIds(p, q)
    BY AtIsSent, AtIs, PlaceFacts DEF Placed, Waiting
  <1>4. IsFiniteSet(Waiting(p, q)) /\ Cardinality(Waiting(p, q)) \in Nat
    BY <1>3, SentCounts, FS_Subset, FS_CardinalityType
  <1>5. Cardinality(Waiting(p, q)) = Cardinality(Unconfirmed(p, q)) + Cardinality({})
        /\ Cardinality(Unconfirmed(p, q)) \in Nat
    <2>1. Waiting(p, q) \ Waiting(p, q) = {}
      OBVIOUS
    <2>2. QED BY <1>2, <1>4, <2>1, HoldsCounts
  <1>6. QED BY <1>3, <1>4, <1>5, FS_EmptySet

LEMMA UnconfirmedCounted == Shape /\ MessageIDs /\ Placed => UnconfirmedCounts
  BY WaitingFacts DEF UnconfirmedCounts

Accepted(p, q) == Len(sent[p][q]) - Cardinality(Waiting(p, q))
AbsAccepted ==
    [q \in Peers |-> [p \in Peers |-> Len(sent[p][q]) - Cardinality(Unconfirmed(p, q))]]

LEMMA AcceptedIs ==
    /\ UnconfirmedCounts => AbsAccepted = [q \in Peers |-> [p \in Peers |-> Accepted(p, q)]]
    /\ UnconfirmedCounts' => AbsAccepted' = [q \in Peers |-> [p \in Peers |-> Accepted(p, q)']]
  BY DEF UnconfirmedCounts, AbsAccepted, Accepted

\* The messages of p that wait are the last ones it has sent.
LEMMA WaitingIsLast ==
    ASSUME InOrder, NEW p \in Peers, NEW q \in Peers,
           NEW n \in Waiting(p, q), NEW m \in SentIds(p, q), m \notin Waiting(p, q)
    PROVE  m < n
  <1>1. Ranks(SentIds(p, q), OnData(p, q), InHandler(p, q), Filing(p, q))
    BY DEF InOrder, Ranked
  <1>2. QED BY <1>1 DEF Ranks, Above, Waiting

LEMMA SentFacts ==
    ASSUME Shape, MessageIDs, NEW p \in Peers, NEW q \in Peers
    PROVE  /\ Len(sent[p][q]) \in Nat /\ DOMAIN sent[p][q] = 1 .. Len(sent[p][q])
           /\ \A i \in DOMAIN sent[p][q] : /\ sent[p][q][i] \in Items /\ sent[p][q][i].id \in Nat
                                           /\ sent[p][q][i].id \in SentIds(p, q)
           /\ \A i, j \in DOMAIN sent[p][q] : i < j => sent[p][q][i].id < sent[p][q][j].id
           /\ \A i, j \in DOMAIN sent[p][q] : sent[p][q][i].id = sent[p][q][j].id => i = j
  <1>1. PICK s : s = sent[p][q]
    OBVIOUS
  <1>2. s \in Seq(Items)
    BY <1>1 DEF Shape, Others, Items
  <1>3. Len(s) \in Nat /\ DOMAIN s = 1 .. Len(s) /\ \A i \in DOMAIN s : s[i] \in Items
    BY <1>2, LenProperties, ElementOfSeq
  <1>4. \A i \in DOMAIN s : s[i].id \in Nat /\ s[i].id \in SentIds(p, q)
    BY <1>1, <1>3, PeersAssumption DEF Items, SentIds
  <1>5. \A i, j \in DOMAIN s : i < j => s[i].id < s[j].id
    BY <1>1 DEF MessageIDs, IdsOK
  <1>6. ASSUME NEW i \in DOMAIN s, NEW j \in DOMAIN s, s[i].id = s[j].id PROVE i = j
    <2>1. ~(i < j) /\ ~(j < i)
      BY <1>4, <1>5, <1>6
    <2>2. QED BY <1>3, <2>1
  <1>7. QED BY <1>1, <1>3, <1>4, <1>5, <1>6

\* A message that does not wait any more was accepted.
LEMMA AcceptedFirst ==
    ASSUME Shape, MessageIDs, Placed, InOrder, NEW p \in Peers, NEW q \in Peers,
           NEW i \in DOMAIN sent[p][q], sent[p][q][i].id \notin Waiting(p, q)
    PROVE  i \in 1 .. Accepted(p, q)
  <1>1. PICK s, N, S, W : s = sent[p][q] /\ N = Len(s) /\ S = SentIds(p, q) /\ W = Waiting(p, q)
    OBVIOUS
  <1>2. /\ N \in Nat /\ DOMAIN s = 1 .. N /\ i \in 1 .. N
        /\ \A j \in 1 .. N : s[j].id \in Nat /\ s[j].id \in S
        /\ \A j, k \in 1 .. N : j < k => s[j].id < s[k].id
    BY <1>1, SentFacts
  <1>3. /\ W \subseteq S /\ IsFiniteSet(W) /\ Cardinality(W) \in Nat
        /\ IsFiniteSet(S) /\ Cardinality(S) = N
    BY <1>1, WaitingFacts, SentCounts
  <1>4. PICK t : t = [j \in 1 .. i |-> s[j]]
    OBVIOUS
  <1>5. IsFiniteSet(IdsIn(t)) /\ Cardinality(IdsIn(t)) = i
    <2>1. DOMAIN t = 1 .. i /\ i \in Nat /\ \A j \in 1 .. i : t[j].id \in Nat
      BY <1>2, <1>4
    <2>2. Ascending(t)
      BY <1>2, <1>4 DEF Ascending
    <2>3. QED BY <2>1, <2>2, LengthCounts
  <1>6. \A j \in 1 .. i : s[j].id \notin W
    <2>1. SUFFICES ASSUME NEW j \in 1 .. i, s[j].id \in W PROVE FALSE
      OBVIOUS
    <2>2. s[i].id \in S /\ s[i].id \notin W /\ s[i].id \in Nat /\ s[j].id \in Nat
      BY <1>1, <1>2, <2>1
    <2>3. s[i].id < s[j].id
      BY <1>1, <2>1, <2>2, WaitingIsLast
    <2>4. j = i \/ s[j].id < s[i].id
      BY <1>2, <2>1
    <2>5. QED BY <2>2, <2>3, <2>4
  <1>7. IdsIn(t) \subseteq S \ W
    BY <1>2, <1>4, <1>6 DEF IdsIn
  <1>8. IsFiniteSet(S \ W) /\ Cardinality(S \ W) = N - Cardinality(W)
    <2>1. S \cap W = W
      BY <1>3
    <2>2. IsFiniteSet(S \ W) /\ Cardinality(S \ W) = Cardinality(S) - Cardinality(S \cap W)
      BY <1>3, FS_Difference
    <2>3. QED BY <1>3, <2>1, <2>2
  <1>9. i <= N - Cardinality(W)
    BY <1>5, <1>7, <1>8, FS_Subset
  <1>10. QED BY <1>1, <1>2, <1>3, <1>9 DEF Accepted

-----------------------------------------------------------------------------
(* Every step is one of Transport.                                         *)

LEMMA AcceptedStays ==
    ASSUME UnconfirmedCounts, UnconfirmedCounts', UNCHANGED sent,
           \A p, q \in Peers : Waiting(p, q)' = Waiting(p, q)
    PROVE  AbsAccepted' = AbsAccepted
  <1>1. \A p, q \in Peers : Accepted(p, q)' = Accepted(p, q)
    BY DEF Accepted
  <1>2. QED BY <1>1, AcceptedIs

LEMMA TransmitIsSend ==
    ASSUME Shape, MessageIDs, Placed, UnconfirmedCounts, UnconfirmedCounts',
           NEW p \in Peers, Transmit(p), UNCHANGED handlers
    PROVE  Abstract!Next
  <1>0. PICK r, n, m : r = event[p].peer /\ n = out[p].id /\ m = [id |-> out[p].id, tag |-> out[p].tag]
    OBVIOUS
  <1>1. /\ \A q \in Peers : n \notin SentIds(p, q)
        /\ OnData(p, r)' = OnData(p, r) \cup {n}
        /\ \A x, y \in Peers : x # p \/ y # r => OnData(x, y)' = OnData(x, y)
    BY <1>0, TransmitMoves
  <1>2. r \in Peers /\ m \in [id : MsgIDs, tag : Tags] /\ m.id = n
    BY <1>0, TransmitFacts
  <1>3. sent' = [sent EXCEPT ![p][r] = Append(@, m)] /\ UNCHANGED <<taken, completed>>
    BY <1>0 DEF Transmit
  <1>4. /\ Len(sent'[p][r]) = Len(sent[p][r]) + 1 /\ Len(sent[p][r]) \in Nat
        /\ \A x, y \in Peers : x # p \/ y # r => sent'[x][y] = sent[x][y]
    <2>1. sent \in [Peers -> [Peers -> Seq(Items)]] /\ sent[p][r] \in Seq(Items) /\ m \in Items
      BY <1>2 DEF Shape, Others, Items
    <2>2. sent'[p][r] = Append(sent[p][r], m)
      BY <1>2, <1>3, <2>1
    <2>3. Len(sent'[p][r]) = Len(sent[p][r]) + 1 /\ Len(sent[p][r]) \in Nat
      BY <2>1, <2>2, AppendFacts
    <2>4. QED BY <1>2, <1>3, <2>1, <2>3
  <1>5. \A x, y \in Peers : InHandler(x, y)' = InHandler(x, y)
    BY Untouched DEF handlers
  <1>6. Accepted(p, r)' = Accepted(p, r)
    <2>1. Waiting(p, r)' = Waiting(p, r) \cup {n}
      BY <1>1, <1>2, <1>5 DEF Waiting
    <2>2. /\ n \notin Waiting(p, r) /\ IsFiniteSet(Waiting(p, r)) /\ Cardinality(Waiting(p, r)) \in Nat
      BY <1>1, <1>2, WaitingFacts
    <2>3. Cardinality(Waiting(p, r)') = Cardinality(Waiting(p, r)) + 1
      BY <2>1, <2>2, FS_AddElement
    <2>4. QED BY <1>4, <2>2, <2>3 DEF Accepted
  <1>7. \A x, y \in Peers : x # p \/ y # r => Accepted(x, y)' = Accepted(x, y)
    BY <1>1, <1>4, <1>5 DEF Accepted, Waiting
  <1>8. AbsAccepted' = AbsAccepted
    BY <1>6, <1>7, AcceptedIs
  <1>9. \A q \in Peers : \A i \in DOMAIN sent[p][q] : sent[p][q][i].id # m.id
    BY <1>1, <1>2 DEF SentIds
  <1>10. Abstract!Send(p, r, m)
    BY <1>3, <1>8, <1>9 DEF Abstract!Send, AbsAccepted
  <1>11. QED BY <1>2, <1>10 DEF Abstract!Next

LEMMA ConfirmIsAccept ==
    ASSUME Shape, MessageIDs, Placed, UnconfirmedCounts, UnconfirmedCounts', NEW p \in Peers, Confirm(p)
    PROVE  Abstract!Next
  <1>0. PICK q, n : q = recvMsg[p].src /\ n = recvMsg[p].id
    OBVIOUS
  <1>1. UNCHANGED <<data, sent, taken, completed>>
    BY DEF Confirm, history
  <1>2. /\ q \in Peers /\ InHandler(q, p) = {n} /\ InHandler(q, p)' = {}
        /\ \A x, y \in Peers : x # q \/ y # p => InHandler(x, y)' = InHandler(x, y)
    BY <1>0, ConfirmMoves
  <1>3. \A x, y \in Peers : OnData(x, y)' = OnData(x, y)
    BY <1>1, Untouched
  <1>4. n \notin OnData(q, p)
    <2>1. n \in At(q, p, <<"recvHandler", 0>>)
      BY <1>2, AtIs
    <2>2. n \notin At(q, p, <<"data", 0>>)
      BY <1>2, <2>1, AtNoOther, PlaceFacts DEF Placed
    <2>3. QED BY <2>2, AtIs
  <1>5. PICK W : W = Waiting(q, p)
    OBVIOUS
  <1>6. W \ {n} = Waiting(q, p)' /\ n \in W
    BY <1>2, <1>3, <1>4, <1>5 DEF Waiting
  <1>7. IsFiniteSet(W) /\ Cardinality(W) \in Nat /\ W \subseteq SentIds(q, p)
    BY <1>2, <1>5, WaitingFacts
  <1>8. Cardinality(W \ {n}) = Cardinality(W) - 1 /\ Cardinality(W \ {n}) \in Nat
    BY <1>6, <1>7, FS_RemoveElement, FS_CardinalityType, FS_Subset
  <1>9. Len(sent[q][p]) \in Nat
    BY <1>2, SentCounts
  <1>10. Accepted(q, p)' = Accepted(q, p) + 1 /\ Accepted(q, p) < Len(sent[q][p])
    <2>1. Accepted(q, p) = Len(sent[q][p]) - Cardinality(W)
      BY <1>5 DEF Accepted
    <2>2. Accepted(q, p)' = Len(sent[q][p]) - Cardinality(W \ {n})
      BY <1>1, <1>6 DEF Accepted
    <2>3. PICK a, b, c, d, l : /\ a = Accepted(q, p) /\ b = Accepted(q, p)' /\ l = Len(sent[q][p])
                               /\ c = Cardinality(W) /\ d = Cardinality(W \ {n})
      OBVIOUS
    <2>4. l \in Nat /\ c \in Nat /\ d \in Nat /\ d = c - 1 /\ a = l - c /\ b = l - d
      BY <1>7, <1>8, <1>9, <2>1, <2>2, <2>3
    <2>5. b = a + 1 /\ a < l
      BY <2>4
    <2>6. QED BY <2>3, <2>5
  <1>11. \A x, y \in Peers : x # q \/ y # p => Accepted(x, y)' = Accepted(x, y)
    BY <1>1, <1>2, <1>3 DEF Accepted, Waiting
  <1>12. AbsAccepted' = [AbsAccepted EXCEPT ![p][q] = @ + 1] /\ AbsAccepted[p][q] < Len(sent[q][p])
    <2>1. /\ AbsAccepted = [y \in Peers |-> [x \in Peers |-> Accepted(x, y)]]
          /\ AbsAccepted' = [y \in Peers |-> [x \in Peers |-> Accepted(x, y)']]
      BY AcceptedIs
    <2>2. AbsAccepted[p][q] = Accepted(q, p)
      BY <1>2, <2>1
    <2>3. [AbsAccepted EXCEPT ![p][q] = @ + 1] = [y \in Peers |-> [x \in Peers |-> Accepted(x, y)']]
      <3>1. PICK F, G : /\ F = [y \in Peers |-> [x \in Peers |-> Accepted(x, y)]]
                        /\ G = [y \in Peers |-> [x \in Peers |-> Accepted(x, y)']]
        OBVIOUS
      <3>2. G[p][q] = F[p][q] + 1
        BY <1>2, <1>10, <3>1
      <3>3. \A y, x \in Peers : y # p \/ x # q => G[y][x] = F[y][x]
        BY <1>11, <3>1
      <3>4. \A y \in Peers : F[y] = [x \in Peers |-> F[y][x]] /\ G[y] = [x \in Peers |-> G[y][x]]
        BY <3>1
      <3>5. F = [y \in Peers |-> F[y]] /\ G = [y \in Peers |-> G[y]]
        BY <3>1
      <3>6. PICK f : f = [F[p] EXCEPT ![q] = F[p][q] + 1]
        OBVIOUS
      <3>7. G[p] = f
        BY <1>2, <3>2, <3>3, <3>4, <3>6
      <3>8. \A y \in Peers \ {p} : G[y] = F[y]
        BY <3>3, <3>4
      <3>9. [F EXCEPT ![p] = f] = G
        BY <1>2, <3>5, <3>7, <3>8
      <3>10. QED BY <2>1, <3>1, <3>6, <3>9
    <2>4. QED BY <1>10, <2>1, <2>2, <2>3
  <1>13. Abstract!Accept(p, q)
    BY <1>1, <1>12 DEF Abstract!Accept, AbsAccepted
  <1>14. QED BY <1>2, <1>13 DEF Abstract!Next

LEMMA SocketStutters ==
    ASSUME Shape, Placed, UnconfirmedCounts, UnconfirmedCounts',
           NEW p \in Peers, NEW q \in Peers, RecvFromSocket(p, q)
    PROVE  UNCHANGED Abstract!vars
  <1>0. PICK m : m = Head(data[q][p])
    OBVIOUS
  <1>1. UNCHANGED <<sent, taken, completed>>
    BY DEF RecvFromSocket, history
  <1>2. /\ m.type = "PEER" => OnData(q, p)' = OnData(q, p) \ {m.id} /\ m.id \in OnData(q, p)
        /\ m.type # "PEER" => OnData(q, p)' = OnData(q, p)
        /\ \A x, y \in Peers : x # q \/ y # p => OnData(x, y)' = OnData(x, y)
        /\ InHandler(q, p) = {}
        /\ m.type = "PEER" => InHandler(q, p)' = {m.id}
        /\ m.type # "PEER" => InHandler(q, p)' = {}
        /\ \A x, y \in Peers : x # q \/ y # p => InHandler(x, y)' = InHandler(x, y)
    BY <1>0, SocketMoves
  <1>3. \A x, y \in Peers : Waiting(x, y)' = Waiting(x, y)
    BY <1>2 DEF Waiting
  <1>4. AbsAccepted' = AbsAccepted
    BY <1>1, <1>3, AcceptedStays
  <1>5. QED BY <1>1, <1>4 DEF Abstract!vars, AbsAccepted

\* A message in inBox was accepted, and those of its tag that were sent before
\* the first one there were taken.
LEMMA HeadIsDeliverable ==
    ASSUME Shape, MessageIDs, Placed, InOrder, AllTagged, UnconfirmedCounts,
           NEW p \in Peers, NEW q \in Peers, NEW g \in Tags, inBox[q][<<p, g>>] # <<>>,
           NEW n, n = Head(inBox[q][<<p, g>>]).id
    PROVE  /\ n \notin taken[q][p]
           /\ \E i \in 1 .. Accepted(p, q) :
                /\ i \in DOMAIN sent[p][q] /\ sent[p][q][i].id = n
                /\ \A h \in 1 .. i - 1 : sent[p][q][h].tag = sent[p][q][i].tag
                                           => sent[p][q][h].id \in taken[q][p]
  <1>1. PICK s : s = inBox[q][<<p, g>>]
    OBVIOUS
  <1>2. s \in Seq(Mail("PEER", {p}, {g})) /\ s # <<>> /\ Head(s) \in Mail("PEER", {p}, {g})
    BY <1>1, HeadTailProperties DEF Shape, Boxes, BoxHolds
  <1>3. n \in Filed(p, q, g) /\ \A x \in Filed(p, q, g) : x = n \/ n < x
    <2>1. PICK m : m = Head(s)
      OBVIOUS
    <2>2. m.type = "PEER" /\ m.id = n
      BY <1>1, <1>2, <2>1 DEF Mail
    <2>3. TypedAscending(s, "PEER")
      BY <1>1 DEF InOrder, BoxAscends
    <2>4. n \in TypedIds(s, "PEER") /\ \A x \in TypedIds(s, "PEER") : x = n \/ n < x
      BY <1>2, <2>1, <2>2, <2>3, AscendHead
    <2>5. QED BY <1>1, <2>4 DEF Filed
  <1>4. /\ n \in SentIds(p, q) /\ n \notin taken[q][p] /\ n \notin OnData(p, q)
        /\ n \notin InHandler(p, q) /\ n \notin Filing(p, q)
    <2>1. n \in At(p, q, <<"inBox", g>>) /\ <<"inBox", g>> \in MessagePlaces /\ Partition
      <3>1. At(p, q, <<"inBox", g>>) = Filed(p, q, g)
        BY AtIs
      <3>2. QED BY <1>3, <3>1, PlaceFacts DEF Placed
    <2>2. \A w \in {"data", "recvHandler", "enqueue", "taken"} :
            <<w, 0>> \in MessagePlaces /\ <<w, 0>> # <<"inBox", g>>
      BY PlaceFacts
    <2>3. \A w \in {"data", "recvHandler", "enqueue", "taken"} : n \notin At(p, q, <<w, 0>>)
      BY <2>1, <2>2, AtNoOther
    <2>4. n \in SentIds(p, q)
      BY <2>1, AtIsSent, PlaceFacts
    <2>5. QED BY <2>3, <2>4, AtIs
  <1>5. PICK i \in DOMAIN sent[p][q] : sent[p][q][i].id = n /\ sent[p][q][i].tag = g
    <2>1. Tagged(p, q, n, g)
      BY <1>3 DEF AllTagged, FiledTagged
    <2>2. QED BY <2>1 DEF Tagged
  <1>6. i \in 1 .. Accepted(p, q)
    <2>1. sent[p][q][i].id \notin Waiting(p, q)
      BY <1>4, <1>5 DEF Waiting
    <2>2. QED BY <2>1, AcceptedFirst
  <1>7. ASSUME NEW h \in 1 .. i - 1, sent[p][q][h].tag = g
        PROVE  sent[p][q][h].id \in taken[q][p]
    <2>1. PICK x : x = sent[p][q][h].id
      OBVIOUS
    <2>2. h \in DOMAIN sent[p][q] /\ x \in SentIds(p, q) /\ x < n /\ x \in Nat /\ n \in Nat
      <3>1. /\ Len(sent[p][q]) \in Nat /\ DOMAIN sent[p][q] = 1 .. Len(sent[p][q])
            /\ \A k \in DOMAIN sent[p][q] : sent[p][q][k].id \in Nat /\ sent[p][q][k].id \in SentIds(p, q)
            /\ \A j, k \in DOMAIN sent[p][q] : j < k => sent[p][q][j].id < sent[p][q][k].id
        BY SentFacts
      <3>2. h \in DOMAIN sent[p][q] /\ h < i
        BY <3>1
      <3>3. QED BY <1>5, <2>1, <3>1, <3>2
    <2>3. ~(n < x) /\ x # n
      BY <2>2
    <2>4. x \notin OnData(p, q) /\ x \notin InHandler(p, q) /\ x \notin Filing(p, q)
      <3>1. Ranks(SentIds(p, q), OnData(p, q), InHandler(p, q), Filing(p, q))
        BY DEF InOrder, Ranked
      <3>2. QED BY <1>4, <2>3, <3>1 DEF Ranks, Above
    <2>5. ASSUME NEW f \in Tags, x \in Filed(p, q, f) PROVE FALSE
      <3>1. Tagged(p, q, x, f)
        BY <2>5 DEF AllTagged, FiledTagged
      <3>2. PICK j \in DOMAIN sent[p][q] : sent[p][q][j].id = x /\ sent[p][q][j].tag = f
        BY <3>1 DEF Tagged
      <3>3. j = h
        BY <2>1, <2>2, <3>2, SentFacts
      <3>4. f = g
        BY <1>7, <3>2, <3>3
      <3>5. QED BY <1>3, <2>3, <2>5, <3>4
    <2>6. PICK l \in MessagePlaces : x \in At(p, q, l)
      BY <2>2, PartsMean DEF Placed, Partition
    <2>7. CASE l = <<"taken", 0>>
      BY <2>1, <2>6, <2>7, AtIs
    <2>8. CASE l \in {<<"data", 0>>, <<"recvHandler", 0>>, <<"enqueue", 0>>}
      BY <2>4, <2>6, <2>8, AtIs
    <2>9. CASE \E f \in Tags : l = <<"inBox", f>>
      BY <2>5, <2>6, <2>9, AtIs
    <2>10. QED BY <2>7, <2>8, <2>9 DEF MessagePlaces
  <1>8. QED BY <1>4, <1>5, <1>6, <1>7

LEMMA TakeIsTake ==
    ASSUME Shape, MessageIDs, Placed, InOrder, AllTagged, UnconfirmedCounts, UnconfirmedCounts',
           NEW q \in Peers, NEW p \in Peers, NEW g \in Tags, TakeMessage(q, <<p, g>>),
           UNCHANGED <<data, handlers>>
    PROVE  Abstract!Next
  <1>0. PICK n : n = Head(inBox[q][<<p, g>>]).id
    OBVIOUS
  <1>1. /\ inBox[q][<<p, g>>] # <<>> /\ UNCHANGED <<sent, completed>>
        /\ taken' = [taken EXCEPT ![q][p] = @ \cup {n}]
    BY <1>0 DEF TakeMessage
  <1>2. n \notin taken[q][p]
    BY <1>0, <1>1, HeadIsDeliverable
  <1>3. PICK i \in 1 .. Accepted(p, q) :
          /\ sent[p][q][i].id = n
          /\ \A h \in 1 .. i - 1 : sent[p][q][h].tag = sent[p][q][i].tag => sent[p][q][h].id \in taken[q][p]
    BY <1>0, <1>1, HeadIsDeliverable
  <1>4. AbsAccepted[q][p] = Accepted(p, q)
    BY AcceptedIs
  <1>5. sent[p][q][i] \in Abstract!Deliverable(q, p)
    <2>1. i \in 1 .. AbsAccepted[q][p]
      BY <1>4
    <2>2. QED BY <1>2, <1>3, <2>1 DEF Abstract!Deliverable, AbsAccepted
  <1>6. AbsAccepted' = AbsAccepted
    <2>1. \A x, y \in Peers : Waiting(x, y)' = Waiting(x, y)
      BY Untouched DEF handlers, Waiting
    <2>2. QED BY <1>1, <2>1, AcceptedStays
  <1>7. Abstract!Take(q, p)
    BY <1>1, <1>3, <1>5, <1>6 DEF Abstract!Take, AbsAccepted
  <1>8. QED BY <1>7 DEF Abstract!Next

LEMMA DequeueIsComplete ==
    ASSUME Shape, MessageIDs, Placed, InOrder, UnconfirmedCounts, UnconfirmedCounts',
           NEW p \in Peers, DequeueConfirm(p), UNCHANGED handlers
    PROVE  Abstract!Next \/ UNCHANGED Abstract!vars
  <1>0. PICK q, g, m : q = event[p].peer /\ g = event[p].tag /\ m = Head(ctrlBox[p][<<q, g>>])
    OBVIOUS
  <1>1. /\ UNCHANGED <<data, sent, taken>> /\ ctrlBox[p][<<q, g>>] # <<>>
        /\ \/ m.id = event[p].id /\ completed' = [completed EXCEPT ![p] = @ \cup {m.id}]
           \/ UNCHANGED completed
    BY <1>0 DEF DequeueConfirm, wires
  <1>2. q \in Peers /\ g \in Tags /\ m \in Mail("CONFIRM", {q}, {g})
    BY <1>0, DequeueFacts
  <1>3. AbsAccepted' = AbsAccepted
    <2>1. \A x, y \in Peers : Waiting(x, y)' = Waiting(x, y)
      BY <1>1, Untouched DEF handlers, Waiting
    <2>2. QED BY <1>1, <2>1, AcceptedStays
  <1>4. CASE UNCHANGED completed
    BY <1>1, <1>3, <1>4 DEF Abstract!vars, AbsAccepted
  <1>5. CASE completed' = [completed EXCEPT ![p] = @ \cup {m.id}]
    <2>1. m.id \in Answered(p, q, g)
      <3>1. PICK s : s = ctrlBox[p][<<q, g>>]
        OBVIOUS
      <3>2. s \in Seq(Mail("CONFIRM", {q}, {g})) /\ s # <<>> /\ m = Head(s) /\ m.type = "CONFIRM"
        BY <1>0, <1>1, <1>2, <3>1 DEF Shape, Boxes, BoxHolds, Mail
      <3>3. 1 \in DOMAIN s /\ s[1] = m
        BY <3>2, HeadTailProperties, LenProperties, EmptySeq
      <3>4. QED BY <3>1, <3>2, <3>3 DEF Answered, TypedIds
    <2>2. m.id \in At(p, q, <<"ctrlBox", g>>) /\ <<"ctrlBox", g>> \in ConfirmationPlaces /\ Partition
      <3>1. At(p, q, <<"ctrlBox", g>>) = Answered(p, q, g)
        BY AtIs
      <3>2. QED BY <1>2, <2>1, <3>1, PlaceFacts DEF Placed
    <2>3. \A w \in {"data", "recvHandler", "completed"} :
            <<w, 0>> \in ConfirmationPlaces /\ <<w, 0>> # <<"ctrlBox", g>>
      BY PlaceFacts
    <2>4. \A w \in {"data", "recvHandler", "completed"} : m.id \notin At(p, q, <<w, 0>>)
      BY <1>2, <2>2, <2>3, AtNoOther
    <2>5. m.id \in SentIds(p, q)
      BY <1>2, <2>2, AtIsSent, PlaceFacts
    <2>6. m.id \notin Waiting(p, q) /\ m.id \notin completed[p]
      BY <2>4, <2>5, AtIs DEF Waiting, Finished
    <2>7. PICK i \in DOMAIN sent[p][q] : sent[p][q][i].id = m.id
      BY <2>5 DEF SentIds
    <2>8. i \in 1 .. AbsAccepted[q][p]
      <3>1. i \in 1 .. Accepted(p, q)
        BY <1>2, <2>6, <2>7, AcceptedFirst
      <3>2. AbsAccepted[q][p] = Accepted(p, q)
        BY <1>2, AcceptedIs
      <3>3. QED BY <3>1, <3>2
    <2>9. Abstract!Complete(p, q)
      BY <1>1, <1>3, <1>5, <2>6, <2>7, <2>8 DEF Abstract!Complete, AbsAccepted
    <2>10. QED BY <1>2, <2>9 DEF Abstract!Next
  <1>6. QED BY <1>1, <1>4, <1>5

LEMMA StepImplements ==
    ASSUME Shape, MessageIDs, Placed, InOrder, AllTagged, UnconfirmedCounts, UnconfirmedCounts', [Next]_vars
    PROVE  [Abstract!Next]_(Abstract!vars)
  <1>1. ASSUME UNCHANGED <<data, sent, taken, completed>>,
               \A x, y \in Peers : InHandler(x, y)' = InHandler(x, y)
        PROVE  UNCHANGED Abstract!vars
    <2>1. \A x, y \in Peers : Waiting(x, y)' = Waiting(x, y)
      BY <1>1, Untouched DEF Waiting
    <2>2. AbsAccepted' = AbsAccepted
      BY <1>1, <2>1, AcceptedStays
    <2>3. QED BY <1>1, <2>2 DEF Abstract!vars, AbsAccepted
  <1>2. ASSUME NEW p \in Peers, TransmitDestruct(p), UNCHANGED handlers
        PROVE  UNCHANGED Abstract!vars
    <2>1. /\ out[p] \in Content("PEER", p) /\ out[p].type # "PEER"
          /\ data' = Pushed(data, p, p, out[p]) /\ UNCHANGED <<sent, taken, completed>>
          /\ WireHolds(data, "PEER") /\ WireDistinct(data, "PEER")
      <3>1. out[p] \in Content("PEER", p) /\ out[p].type # "PEER"
        BY <1>2, DestructFacts, MailIsMessage DEF Content
      <3>2. data' = Pushed(data, p, p, out[p]) /\ UNCHANGED <<sent, taken, completed>>
        BY <1>2 DEF TransmitDestruct, Push, Pushed, history
      <3>3. QED BY <3>1, <3>2 DEF Shape, Wires, Placed, Distinct
    <2>2. \A x, y \in Peers : OnData(x, y)' = OnData(x, y)
      <3>1. TypedIds(data'[p][p], "PEER") = TypedIds(data[p][p], "PEER")
            /\ \A x, y \in Peers : x # p \/ y # p => data'[x][y] = data[x][y]
        BY <2>1, PushOther
      <3>2. QED BY <3>1 DEF OnData
    <2>3. \A x, y \in Peers : Waiting(x, y)' = Waiting(x, y)
      BY <1>2, <2>2, Untouched DEF Waiting, handlers
    <2>4. AbsAccepted' = AbsAccepted
      BY <2>1, <2>3, AcceptedStays
    <2>5. QED BY <2>1, <2>4 DEF Abstract!vars, AbsAccepted
  <1>3. ASSUME NEW p \in Peers, Enqueue(p) PROVE UNCHANGED Abstract!vars
    <2>1. UNCHANGED <<data, sent, taken, completed>>
      BY <1>3 DEF Enqueue, wires, history
    <2>2. PICK q, g, n : q = recvMsg[p].src /\ g = recvMsg[p].tag /\ n = recvMsg[p].id
      OBVIOUS
    <2>3. \A x, y \in Peers : InHandler(x, y)' = InHandler(x, y)
      BY <1>3, <2>2, EnqueueMoves
    <2>4. QED BY <1>1, <2>1, <2>3
  <1>4. ASSUME NEW p \in Peers, NEW q \in Peers, RecvFromSocket(p, q) PROVE UNCHANGED Abstract!vars
    BY <1>4, SocketStutters
  <1>5. ASSUME NEW p \in Peers, Transmit(p), UNCHANGED handlers PROVE Abstract!Next
    BY <1>5, TransmitIsSend
  <1>6. ASSUME NEW p \in Peers, Confirm(p) PROVE Abstract!Next
    BY <1>6, ConfirmIsAccept
  <1>7. ASSUME NEW p \in Peers, NEW r \in Peers, NEW h \in Tags, TakeMessage(p, <<r, h>>), UNCHANGED <<data, handlers>>
        PROVE  Abstract!Next
    BY <1>7, TakeIsTake
  <1>8. ASSUME NEW p \in Peers, DequeueConfirm(p), UNCHANGED handlers
        PROVE  Abstract!Next \/ UNCHANGED Abstract!vars
    BY <1>8, DequeueIsComplete
  <1>9. QED
    BY <1>1, <1>2, <1>3, <1>4, <1>5, <1>6, <1>7, <1>8, StepEffects DEF HandlersKeep

\* Every behaviour of the peers is one of the streams of Transport: messages of
\* one peer and tag are received in the order in which asyncSendImpl sent them,
\* none twice, and a send finishes once, after its message was accepted.
THEOREM TransportRefinement == Spec => ImplementsTransport
  <1>1. Init => Abstract!Init
    <2>1. SUFFICES ASSUME Init PROVE Abstract!Init
      OBVIOUS
    <2>2. ASSUME NEW p \in Peers, NEW q \in Peers
          PROVE  Len(sent[p][q]) - Cardinality(Unconfirmed(p, q)) = 0
      <3>1. sent[p][q] = <<>> /\ data[p][q] = <<>> /\ recvPC[q] = "recv"
        BY <2>1 DEF Init
      <3>2. Unconfirmed(p, q) = {}
        BY <3>1 DEF Unconfirmed, Ids
      <3>3. QED BY <3>1, <3>2, FS_EmptySet
    <2>3. AbsAccepted = [q \in Peers |-> [p \in Peers |-> 0]]
      BY <2>2 DEF AbsAccepted
    <2>4. QED BY <2>1, <2>3 DEF Init, Abstract!Init, AbsAccepted
  <1>2. Spec => []UnconfirmedCounts
    BY UnconfirmedCounted, ShapeInvariant, MessageIDsInvariant, PlacedInvariant, PTL
  <1>3. /\ Shape /\ MessageIDs /\ Placed /\ InOrder /\ AllTagged
        /\ UnconfirmedCounts /\ UnconfirmedCounts' /\ [Next]_vars
        => [Abstract!Next]_(Abstract!vars)
    BY StepImplements
  <1>4. QED
    BY <1>1, <1>2, <1>3, ShapeInvariant, MessageIDsInvariant, PlacedInvariant,
       InOrderInvariant, AllTaggedInvariant, PTL
       DEF Spec, ImplementsTransport, Abstract!Spec
=============================================================================
