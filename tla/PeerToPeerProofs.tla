-------------------------- MODULE PeerToPeerProofs --------------------------
(***************************************************************************)
(* Theorems about PeerToPeer, for every number of peers, every program of  *)
(* calls, and every size of the connections and boxes.                     *)
(***************************************************************************)
EXTENDS PeerToPeer, FiniteSetTheorems, SequenceTheorems, TLAPS

(* The shape of the state: types, and what each thread has in its hands.   *)

Mail(type, P, G) == [type : {type}, id : MsgIDs, src : P, tag : G]
DestructOf(p) == Message("DESTRUCT", 0, p, 0)

UserTypes ==
    /\ maxMsgID \in [Peers -> Nat] /\ made \in [Peers -> Nat]
    /\ userPC \in [Peers -> UserPCs]
    /\ out \in [Peers -> Messages \cup {Nothing}]
    /\ event \in [Peers -> Events \cup {Nothing}]
    /\ events \in [Peers -> SUBSET Events]
    /\ call = [p \in Peers |-> call[p]]

Others ==
    /\ setup \in Setups
    /\ sendMtx \in [Peers -> {{}, {"user"}, {"recvHandler"}}]
    /\ recvPC \in [Peers -> {"recv", "lock", "confirm", "enqueue", "stopped"}]
    /\ ctrlPC \in [Peers -> {"recv", "checkSize", "enqueue", "stopped"}]
    /\ recvMsg \in [Peers -> Messages \cup {Nothing}]
    /\ ctrlMsg \in [Peers -> Messages \cup {Nothing}]
    /\ sent \in [Peers -> [Peers -> Seq([id : MsgIDs, tag : Tags])]]
    /\ taken \in [Peers -> [Peers -> SUBSET MsgIDs]]
    /\ completed \in [Peers -> SUBSET MsgIDs]

Content(type, p) == Mail(type, {p}, Tags) \cup {DestructOf(p)}
WireHolds(wire, type) ==
    /\ wire \in [Peers -> [Peers -> Seq(Messages)]]
    /\ \A p, q \in Peers : wire[p][q] \in Seq(Content(type, p))
BoxHolds(box, type) ==
    /\ box \in [Peers -> [Keys -> Seq(Messages)]]
    /\ \A p, q \in Peers : \A g \in Tags : box[p][<<q, g>>] \in Seq(Mail(type, {q}, {g}))

Wires == WireHolds(data, "PEER") /\ WireHolds(ctrl, "CONFIRM")
Boxes == BoxHolds(inBox, "PEER") /\ BoxHolds(ctrlBox, "CONFIRM")

\* The message ids a program has drawn so far are as many as its calls may draw.
Drawn(p) == {n \in Drawing(Program(p)) : n <= made[p]}

UserOK(p) ==
    /\ made[p] <= Len(Program(p))
    /\ maxMsgID[p] + (IF userPC[p] = "recvAny" THEN 1 ELSE 0) <= Cardinality(Drawn(p))
    /\ userPC[p] = "recv" => call[p].peer \in Peers /\ call[p].tag \in Tags
    /\ CASE userPC[p] \in {"lock", "transmit"} ->
              \/ event[p] \in Events /\ out[p] \in Mail("PEER", {p}, {event[p].tag})
              \/ out[p] = DestructOf(p)
         [] userPC[p] = "transmitCtrl" -> out[p] = DestructOf(p)
         [] userPC[p] \in {"checkSize", "putBack"} ->
              event[p] \in Events /\ out[p] \in Mail("CONFIRM", {event[p].peer}, {event[p].tag})
         [] userPC[p] \in {"dequeue", "poll"} -> event[p] \in Events /\ out[p] = Nothing
         [] OTHER -> out[p] = Nothing

HandlersOK(p) ==
    /\ IF recvPC[p] \in {"lock", "confirm", "enqueue"} THEN recvMsg[p] \in Mail("PEER", Peers, Tags)
       ELSE recvMsg[p] = Nothing
    /\ IF ctrlPC[p] \in {"checkSize", "enqueue"} THEN ctrlMsg[p] \in Mail("CONFIRM", Peers, Tags)
       ELSE ctrlMsg[p] = Nothing

Threads == \A p \in Peers : UserOK(p) /\ HandlersOK(p)

Shape == UserTypes /\ Others /\ Wires /\ Boxes /\ Threads

(* Message ids: a peer sends every id at most once, in ascending order.    *)

Pending(p) == userPC[p] \in {"lock", "transmit"} /\ out[p].type = "PEER"
NextSent(p) == IF Pending(p) THEN out[p].id ELSE maxMsgID[p]

IdsOK(p) ==
    /\ NextSent(p) \in Nat /\ NextSent(p) <= maxMsgID[p]
    /\ Pending(p) => out[p].id < maxMsgID[p]
    /\ \A q \in Peers :
         /\ \A i \in DOMAIN sent[p][q] : sent[p][q][i].id < NextSent(p)
         /\ \A i, j \in DOMAIN sent[p][q] : i < j => sent[p][q][i].id < sent[p][q][j].id
    /\ \A q, r \in Peers : q # r => SentIds(p, q) \cap SentIds(p, r) = {}
MessageIDs == \A p \in Peers : IdsOK(p)

-----------------------------------------------------------------------------
(* Programs, and the ids they draw.                                        *)

LEMMA ProgramFacts ==
    ASSUME setup \in Setups, NEW p \in Peers
    PROVE  /\ Len(Program(p)) \in Nat
           /\ IsFiniteSet(Drawing(Program(p)))
           /\ Cardinality(Drawing(Program(p))) \in Nat
           /\ 0 .. Cardinality(Drawing(Program(p))) - 1 \subseteq MsgIDs
           /\ \A n \in 1 .. Len(Program(p)) : \A c \in Program(p)[n] : IsCall(c)
  <1>1. /\ Len(Program(p)) \in Nat
        /\ 0 .. Cardinality(Drawing(Program(p))) - 1 \subseteq MsgIDs
        /\ \A n \in 1 .. Len(Program(p)) : \A c \in Program(p)[n] : IsCall(c)
    BY SetupsAssumption DEF Program
  <1>2. IsFiniteSet(1 .. Len(Program(p))) /\ Drawing(Program(p)) \subseteq 1 .. Len(Program(p))
    BY <1>1, FS_Interval DEF Drawing
  <1>3. IsFiniteSet(Drawing(Program(p)))
    BY <1>2, FS_Subset
  <1>4. QED BY <1>1, <1>3, FS_CardinalityType

LEMMA DrawnFacts ==
    ASSUME setup \in Setups, NEW p \in Peers
    PROVE  /\ IsFiniteSet(Drawn(p)) /\ Cardinality(Drawn(p)) \in Nat
           /\ Cardinality(Drawn(p)) <= Cardinality(Drawing(Program(p)))
  BY ProgramFacts, FS_Subset, FS_CardinalityType DEF Drawn

\* A call that may draw an id makes the number of such calls larger.
LEMMA DrawnGrows ==
    ASSUME setup \in Setups, setup' = setup, NEW p \in Peers, NEW c, Start(p, c),
           made[p] \in Nat, made'[p] = made[p] + 1
    PROVE  /\ Cardinality(Drawn(p)) <= Cardinality(Drawn(p)') /\ Cardinality(Drawn(p)') \in Nat
           /\ c.op \in {"send", "asyncSend", "recvAny", "asyncRecv"} =>
                Cardinality(Drawn(p)') = Cardinality(Drawn(p)) + 1
  <1>1. Drawn(p)' = {n \in Drawing(Program(p)) : n <= made[p] + 1}
    BY DEF Drawn, Program
  <1>2. Drawn(p) \subseteq Drawn(p)' /\ Drawn(p)' \subseteq Drawing(Program(p))
    BY <1>1 DEF Drawn, Drawing
  <1>3. IsFiniteSet(Drawn(p)') /\ Cardinality(Drawn(p)) <= Cardinality(Drawn(p)')
    BY <1>2, ProgramFacts, FS_Subset
  <1>4. ASSUME c.op \in {"send", "asyncSend", "recvAny", "asyncRecv"}
        PROVE  Cardinality(Drawn(p)') = Cardinality(Drawn(p)) + 1
    <2>1. made[p] + 1 \in Drawing(Program(p)) /\ made[p] + 1 \notin Drawn(p)
      BY <1>4, ProgramFacts DEF Start, Drawing, Drawn
    <2>2. Drawn(p)' = Drawn(p) \cup {made[p] + 1}
      BY <1>1, <2>1 DEF Drawn, Drawing
    <2>3. QED BY <2>1, <2>2, DrawnFacts, FS_AddElement
  <1>5. QED BY <1>3, <1>4, FS_CardinalityType

\* The id a call draws is one.
LEMMA IdAvailable ==
    ASSUME Shape, NEW p \in Peers
    PROVE  /\ maxMsgID[p] \in Nat /\ made[p] \in Nat
           /\ \A c : Start(p, c) /\ c.op \in {"send", "asyncSend", "recvAny", "asyncRecv"}
                => maxMsgID[p] \in MsgIDs
           /\ userPC[p] = "recvAny" => maxMsgID[p] \in MsgIDs
  <1>1. /\ maxMsgID[p] \in Nat /\ made[p] \in Nat
        /\ maxMsgID[p] + (IF userPC[p] = "recvAny" THEN 1 ELSE 0) <= Cardinality(Drawn(p))
    BY DEF Shape, UserTypes, Threads, UserOK
  <1>2. /\ Cardinality(Drawn(p)) \in Nat /\ Cardinality(Drawing(Program(p))) \in Nat
        /\ Cardinality(Drawn(p)) <= Cardinality(Drawing(Program(p)))
        /\ 0 .. Cardinality(Drawing(Program(p))) - 1 \subseteq MsgIDs
    BY DrawnFacts, ProgramFacts DEF Shape, Others
  <1>3. ASSUME NEW c, Start(p, c), c.op \in {"send", "asyncSend", "recvAny", "asyncRecv"}
        PROVE  maxMsgID[p] \in MsgIDs
    <2>1. made[p] + 1 \in Drawing(Program(p)) /\ made[p] + 1 \notin Drawn(p)
      BY <1>1, <1>3, ProgramFacts DEF Start, Drawing, Drawn, Shape, Others
    <2>2. Drawn(p) \subseteq Drawing(Program(p)) /\ Drawn(p) # Drawing(Program(p))
      BY <2>1 DEF Drawn
    <2>3. Cardinality(Drawn(p)) # Cardinality(Drawing(Program(p)))
      BY <2>2, ProgramFacts, FS_Subset DEF Shape, Others
    <2>4. maxMsgID[p] <= Cardinality(Drawn(p))
      BY <1>1, <1>2
    <2>5. maxMsgID[p] \in 0 .. Cardinality(Drawing(Program(p))) - 1
      BY <1>1, <1>2, <2>3, <2>4
    <2>6. QED BY <1>2, <2>5
  <1>4. ASSUME userPC[p] = "recvAny" PROVE maxMsgID[p] \in MsgIDs
    <2>1. maxMsgID[p] \in 0 .. Cardinality(Drawing(Program(p))) - 1
      BY <1>1, <1>2, <1>4
    <2>2. QED BY <1>2, <2>1
  <1>5. QED BY <1>1, <1>3, <1>4

\* The call a thread starts names a peer and a tag if it needs them.
LEMMA StartFacts ==
    ASSUME Shape, NEW p \in Peers, NEW c, Start(p, c)
    PROVE  /\ userPC[p] = "idle" /\ out[p] = Nothing /\ made[p] + 1 <= Len(Program(p))
           /\ made' = [made EXCEPT ![p] = @ + 1] /\ call' = [call EXCEPT ![p] = c]
           /\ c.op \in {"send", "asyncSend", "recv", "asyncRecv"} => c.peer \in Peers /\ c.tag \in Tags
  <1>1. setup \in Setups /\ made[p] \in Nat
    BY DEF Shape, Others, UserTypes
  <1>2. made[p] < Len(Program(p)) /\ c \in Program(p)[made[p] + 1] /\ userPC[p] = "idle"
        /\ made' = [made EXCEPT ![p] = @ + 1] /\ call' = [call EXCEPT ![p] = c]
    BY DEF Start
  <1>3. made[p] + 1 \in 1 .. Len(Program(p))
    BY <1>1, <1>2, ProgramFacts
  <1>4. IsCall(c)
    BY <1>1, <1>2, <1>3, ProgramFacts
  <1>5. out[p] = Nothing
    BY <1>2 DEF Shape, Threads, UserOK
  <1>6. QED BY <1>2, <1>3, <1>4, <1>5 DEF IsCall

LEMMA MailIsMessage ==
    /\ \A type \in {"PEER", "CONFIRM"} : \A P \in SUBSET Peers : \A G \in SUBSET Tags :
         Mail(type, P, G) \subseteq Messages
    /\ \A p \in Peers : DestructOf(p) \in Messages
    /\ \A m \in Messages : m # Nothing
    /\ \A type, P, G : \A m \in Mail(type, P, G) : m.type = type /\ m.src \in P /\ m.tag \in G
    /\ \A p : DestructOf(p).type = "DESTRUCT"
  BY PeersAssumption, NothingAssumption DEF Mail, Messages, DestructOf, Message

-----------------------------------------------------------------------------
(* The user thread keeps its types and its control.                        *)

UserSame(q) ==
    /\ maxMsgID'[q] = maxMsgID[q] /\ made'[q] = made[q] /\ userPC'[q] = userPC[q]
    /\ out'[q] = out[q] /\ event'[q] = event[q] /\ call'[q] = call[q]

UserKept(p) == UserTypes' /\ UserOK(p)' /\ \A q \in Peers \ {p} : UserSame(q)

LEMMA UserStays ==
    ASSUME setup' = setup, NEW q, UserSame(q), UserOK(q)
    PROVE  UserOK(q)'
  BY DEF UserSame, UserOK, Drawn, Program, DestructOf, Mail, Events

\* What a call adds to the counters of its thread.
LEMMA CallCounts ==
    ASSUME Shape, setup' = setup, NEW p \in Peers, NEW c, Start(p, c),
           \/ UNCHANGED maxMsgID
           \/ NextMsgID(p) /\ c.op \in {"send", "asyncSend", "asyncRecv"},
           userPC'[p] = "recvAny" => UNCHANGED maxMsgID /\ c.op = "recvAny"
    PROVE  /\ maxMsgID' \in [Peers -> Nat] /\ made' \in [Peers -> Nat]
           /\ call' = [q \in Peers |-> call'[q]] /\ call'[p] = c
           /\ made'[p] <= Len(Program(p)')
           /\ maxMsgID'[p] + (IF userPC'[p] = "recvAny" THEN 1 ELSE 0) <= Cardinality(Drawn(p)')
           /\ \A q \in Peers \ {p} :
                made'[q] = made[q] /\ call'[q] = call[q] /\ maxMsgID'[q] = maxMsgID[q]
  <1>1. /\ made \in [Peers -> Nat] /\ maxMsgID \in [Peers -> Nat] /\ setup \in Setups
        /\ call = [q \in Peers |-> call[q]] /\ made' = [made EXCEPT ![p] = @ + 1]
        /\ call' = [call EXCEPT ![p] = c] /\ made[p] + 1 <= Len(Program(p))
        /\ userPC[p] = "idle"
    BY StartFacts DEF Shape, UserTypes, Others
  <1>2. maxMsgID[p] <= Cardinality(Drawn(p))
    <2>1. maxMsgID[p] + (IF userPC[p] = "recvAny" THEN 1 ELSE 0) <= Cardinality(Drawn(p))
      BY DEF Shape, Threads, UserOK
    <2>2. QED BY <1>1, <2>1
  <1>3. made'[p] = made[p] + 1 /\ made[p] \in Nat
    BY <1>1
  <1>4. /\ Cardinality(Drawn(p)) \in Nat /\ Cardinality(Drawn(p)') \in Nat
        /\ Cardinality(Drawn(p)) <= Cardinality(Drawn(p)')
        /\ c.op \in {"send", "asyncSend", "recvAny", "asyncRecv"} =>
             Cardinality(Drawn(p)') = Cardinality(Drawn(p)) + 1
    BY <1>1, <1>3, DrawnGrows, DrawnFacts
  <1>5. maxMsgID'[p] + (IF userPC'[p] = "recvAny" THEN 1 ELSE 0) <= Cardinality(Drawn(p)')
    <2>1. CASE UNCHANGED maxMsgID
      BY <1>1, <1>2, <1>4, <2>1
    <2>2. CASE NextMsgID(p) /\ c.op \in {"send", "asyncSend", "asyncRecv"}
      <3>1. maxMsgID'[p] = maxMsgID[p] + 1
        BY <1>1, <2>2 DEF NextMsgID
      <3>2. maxMsgID'[p] # maxMsgID[p] /\ userPC'[p] # "recvAny"
        BY <1>1, <2>2, <3>1
      <3>3. QED BY <1>1, <1>2, <1>4, <2>2, <3>1, <3>2
    <2>3. QED BY <2>1, <2>2
  <1>6. maxMsgID' \in [Peers -> Nat] /\ \A q \in Peers \ {p} : maxMsgID'[q] = maxMsgID[q]
    BY <1>1 DEF NextMsgID
  <1>7. made'[p] <= Len(Program(p)')
    BY <1>1 DEF Program
  <1>8. made' \in [Peers -> Nat]
    BY <1>1
  <1>9. /\ call' = [q \in Peers |-> call'[q]] /\ call'[p] = c
        /\ \A q \in Peers \ {p} : made'[q] = made[q] /\ call'[q] = call[q]
    BY <1>1
  <1>10. QED BY <1>1, <1>5, <1>6, <1>7, <1>8, <1>9

LEMMA CallsKeepUser ==
    ASSUME Shape, setup' = setup, NEW p \in Peers, Calls(p)
    PROVE  UserKept(p)
  <1> USE DEF GotoUser, NextMsgID, UserKept, UserSame
  <1>0. PICK c : SendCall(p, c) \/ RecvCall(p, c) \/ EventCall(p, c) \/ AsyncRecv(p, c) \/ DestroyCall(p, c)
    BY DEF Calls
  <1>1. /\ userPC \in [Peers -> UserPCs] /\ out \in [Peers -> Messages \cup {Nothing}]
        /\ event \in [Peers -> Events \cup {Nothing}] /\ events \in [Peers -> SUBSET Events]
    BY DEF Shape, UserTypes
  <1>2. CASE SendCall(p, c)
    <2>1. Start(p, c) /\ c.op \in {"send", "asyncSend"} /\ NextMsgID(p) /\ userPC' = [userPC EXCEPT ![p] = "lock"]
          /\ UNCHANGED events
      BY <1>2 DEF SendCall
    <2>2. c.peer \in Peers /\ c.tag \in Tags /\ maxMsgID[p] \in MsgIDs
      BY <2>1, StartFacts, IdAvailable
    <2>3. /\ Message("PEER", maxMsgID[p], p, c.tag) \in Mail("PEER", {p}, {c.tag})
          /\ Message("PEER", maxMsgID[p], p, c.tag) \in Messages
          /\ SendEvent(maxMsgID[p], c.peer, c.tag) \in Events
          /\ SendEvent(maxMsgID[p], c.peer, c.tag).tag = c.tag
      BY <2>2 DEF Message, Mail, Messages, SendEvent, Events
    <2>4. /\ out' = [out EXCEPT ![p] = Message("PEER", maxMsgID[p], p, c.tag)]
          /\ event' = [event EXCEPT ![p] = SendEvent(maxMsgID[p], c.peer, c.tag)]
          /\ userPC'[p] = "lock"
      BY <1>1, <1>2, <2>1 DEF SendCall
    <2>5. UserTypes'
      BY <1>1, <2>1, <2>3, <2>4, CallCounts DEF UserTypes, UserPCs
    <2>6. UserOK(p)'
      BY <1>1, <2>1, <2>3, <2>4, CallCounts DEF UserOK
    <2>7. QED BY <1>1, <2>1, <2>4, <2>5, <2>6, CallCounts
  <1>3. CASE RecvCall(p, c)
    <2>1. /\ Start(p, c) /\ c.op \in {"recv", "recvAny"} /\ userPC' = [userPC EXCEPT ![p] = c.op]
          /\ UNCHANGED <<maxMsgID, out, event, events>> /\ userPC'[p] = c.op
      BY <1>1, <1>3 DEF RecvCall
    <2>2. out[p] = Nothing /\ (c.op = "recv" => c.peer \in Peers /\ c.tag \in Tags)
      BY <2>1, StartFacts
    <2>3. UserTypes'
      BY <1>1, <2>1, CallCounts DEF UserTypes, UserPCs
    <2>4. UserOK(p)'
      BY <2>1, <2>2, CallCounts DEF UserOK
    <2>5. QED BY <1>1, <2>1, <2>3, <2>4, CallCounts
  <1>4. CASE EventCall(p, c)
    <2>1. PICK e \in events[p], l \in {"dequeue", "poll"} :
            /\ Start(p, c) /\ c.op \in {"wait", "ready"}
            /\ event' = [event EXCEPT ![p] = e] /\ userPC' = [userPC EXCEPT ![p] = l]
            /\ UNCHANGED <<maxMsgID, out, events>>
      BY <1>4 DEF EventCall
    <2>2. out[p] = Nothing /\ e \in Events /\ userPC'[p] = l /\ event'[p] = e
      BY <1>1, <2>1, StartFacts
    <2>3. UserTypes'
      BY <1>1, <2>1, <2>2, CallCounts DEF UserTypes, UserPCs
    <2>4. UserOK(p)'
      BY <2>1, <2>2, CallCounts DEF UserOK
    <2>5. QED BY <1>1, <2>1, <2>3, <2>4, CallCounts
  <1>5. CASE AsyncRecv(p, c)
    <2>1. Start(p, c) /\ c.op = "asyncRecv" /\ NextMsgID(p) /\ UNCHANGED <<userPC, out, event>>
      BY <1>5 DEF AsyncRecv
    <2>2. /\ c.peer \in Peers /\ c.tag \in Tags /\ maxMsgID[p] \in MsgIDs /\ out[p] = Nothing
          /\ userPC[p] = "idle"
      BY <2>1, StartFacts, IdAvailable
    <2>3. RecvEvent(maxMsgID[p], c.peer, c.tag) \in Events
      BY <2>2 DEF RecvEvent, Events
    <2>4. events' \in [Peers -> SUBSET Events]
      BY <1>1, <1>5, <2>3 DEF AsyncRecv
    <2>5. UserTypes'
      BY <1>1, <2>1, <2>2, <2>4, CallCounts DEF UserTypes
    <2>6. UserOK(p)'
      BY <2>1, <2>2, CallCounts DEF UserOK
    <2>7. QED BY <1>1, <2>1, <2>2, <2>5, <2>6, CallCounts
  <1>6. CASE DestroyCall(p, c)
    <2>1. /\ Start(p, c) /\ c.op = "destroy" /\ userPC' = [userPC EXCEPT ![p] = "lock"]
          /\ out' = [out EXCEPT ![p] = DestructOf(p)] /\ UNCHANGED <<maxMsgID, event, events>>
      BY <1>6 DEF DestroyCall, DestructOf
    <2>2. userPC'[p] = "lock" /\ out'[p] = DestructOf(p)
      BY <1>1, <2>1
    <2>3. UserTypes'
      BY <1>1, <2>1, <2>2, CallCounts, MailIsMessage DEF UserTypes, UserPCs
    <2>4. UserOK(p)'
      BY <2>1, <2>2, CallCounts DEF UserOK
    <2>5. QED BY <1>1, <2>1, <2>3, <2>4, CallCounts
  <1>7. QED BY <1>0, <1>2, <1>3, <1>4, <1>5, <1>6

\* The other steps of the user thread: the counters stay, but for RecvAny.
LEMMA UserStepKeepsUser ==
    ASSUME Shape, setup' = setup, NEW p \in Peers,
           \/ UserLock(p) \/ Transmit(p) \/ TransmitDestruct(p) \/ TransmitDestructCtrl(p) \/ Join(p)
           \/ Recv(p) \/ RecvAny(p) \/ Poll(p)
           \/ DequeueConfirm(p) \/ PutBackCheck(p) \/ PutBack(p)
    PROVE  UserKept(p)
  <1> USE DEF GotoUser, UserKept, UserSame
  <1>1. /\ maxMsgID \in [Peers -> Nat] /\ made \in [Peers -> Nat] /\ call = [q \in Peers |-> call[q]]
        /\ userPC \in [Peers -> UserPCs] /\ out \in [Peers -> Messages \cup {Nothing}]
        /\ event \in [Peers -> Events \cup {Nothing}] /\ events \in [Peers -> SUBSET Events]
    BY DEF Shape, UserTypes
  <1>2. UserOK(p) /\ Drawn(p)' = Drawn(p) /\ Len(Program(p)') = Len(Program(p))
    BY DEF Shape, Threads, Drawn, Program,
           UserLock, Transmit, TransmitDestruct, TransmitDestructCtrl, Join, Recv, RecvAny, Poll,
           DequeueConfirm, PutBackCheck, PutBack
  <1>3. CASE UserLock(p)
    <2>1. /\ userPC[p] = "lock" /\ userPC' = [userPC EXCEPT ![p] = "transmit"]
          /\ UNCHANGED <<call, out, event, events, made, maxMsgID>>
      BY <1>3 DEF UserLock
    <2>2. UserOK(p)'
      BY <1>1, <1>2, <2>1 DEF UserOK
    <2>3. QED BY <1>1, <2>1, <2>2 DEF UserTypes, UserPCs
  <1>4. CASE Transmit(p)
    <2>1. PICK l \in {"dequeue", "idle"} :
            /\ userPC[p] = "transmit" /\ userPC' = [userPC EXCEPT ![p] = l]
            /\ out' = [out EXCEPT ![p] = Nothing] /\ out[p].type = "PEER"
            /\ UNCHANGED <<call, event, made, maxMsgID>>
            /\ UNCHANGED events \/ events' = [events EXCEPT ![p] = @ \cup {event[p]}]
      BY <1>4 DEF Transmit
    <2>2. event[p] \in Events
      BY <1>2, <2>1, MailIsMessage DEF UserOK
    <2>3. UserOK(p)'
      BY <1>1, <1>2, <2>1, <2>2 DEF UserOK
    <2>4. QED BY <1>1, <2>1, <2>2, <2>3 DEF UserTypes, UserPCs
  <1>5. CASE TransmitDestruct(p)
    <2>1. /\ userPC[p] = "transmit" /\ userPC' = [userPC EXCEPT ![p] = "transmitCtrl"]
          /\ out[p].type = "DESTRUCT" /\ UNCHANGED <<call, out, event, events, made, maxMsgID>>
      BY <1>5 DEF TransmitDestruct
    <2>2. out[p] = DestructOf(p)
      BY <1>2, <2>1, MailIsMessage DEF UserOK
    <2>3. UserOK(p)'
      BY <1>1, <1>2, <2>1, <2>2 DEF UserOK
    <2>4. QED BY <1>1, <2>1, <2>3 DEF UserTypes, UserPCs
  <1>6. CASE TransmitDestructCtrl(p)
    <2>1. /\ userPC[p] = "transmitCtrl" /\ userPC' = [userPC EXCEPT ![p] = "join"]
          /\ out' = [out EXCEPT ![p] = Nothing] /\ UNCHANGED <<call, event, events, made, maxMsgID>>
      BY <1>6 DEF TransmitDestructCtrl
    <2>2. UserOK(p)'
      BY <1>1, <1>2, <2>1 DEF UserOK
    <2>3. QED BY <1>1, <2>1, <2>2 DEF UserTypes, UserPCs
  <1>7. CASE Join(p)
    <2>1. /\ userPC[p] = "join" /\ userPC' = [userPC EXCEPT ![p] = "gone"]
          /\ UNCHANGED <<call, out, event, events, made, maxMsgID>>
      BY <1>7 DEF Join
    <2>2. UserOK(p)'
      BY <1>1, <1>2, <2>1 DEF UserOK
    <2>3. QED BY <1>1, <2>1, <2>2 DEF UserTypes, UserPCs
  <1>8. CASE Recv(p) \/ Poll(p)
    <2>1. /\ userPC[p] \in {"recv", "poll"} /\ userPC' = [userPC EXCEPT ![p] = "idle"]
          /\ UNCHANGED <<call, out, event, made, maxMsgID>>
          /\ UNCHANGED events \/ events' = [events EXCEPT ![p] = @ \ {event[p]}]
      BY <1>8 DEF Recv, Poll
    <2>2. UserOK(p)'
      BY <1>1, <1>2, <2>1 DEF UserOK
    <2>3. QED BY <1>1, <2>1, <2>2 DEF UserTypes, UserPCs
  <1>9. CASE RecvAny(p)
    <2>1. PICK k \in Keys :
            /\ userPC[p] = "recvAny" /\ userPC' = [userPC EXCEPT ![p] = "idle"]
            /\ UNCHANGED <<call, out, event, made>>
            /\ maxMsgID' = [maxMsgID EXCEPT ![p] = @ + 1]
            /\ events' = [events EXCEPT ![p] = @ \cup {SendEvent(maxMsgID[p], k[1], k[2])}]
      BY <1>9 DEF RecvAny, NextMsgID
    <2>2. SendEvent(maxMsgID[p], k[1], k[2]) \in Events
      BY <2>1, IdAvailable DEF SendEvent, Events, Keys
    <2>3. UserOK(p)'
      BY <1>1, <1>2, <2>1 DEF UserOK
    <2>4. QED BY <1>1, <2>1, <2>2, <2>3 DEF UserTypes, UserPCs
  <1>10. CASE DequeueConfirm(p)
    <2>1. /\ userPC[p] = "dequeue" /\ ctrlBox[p][<<event[p].peer, event[p].tag>>] # <<>>
          /\ UNCHANGED <<call, event, made, maxMsgID>>
          /\ \/ /\ userPC' = [userPC EXCEPT ![p] = "idle"] /\ UNCHANGED out
                /\ events' = [events EXCEPT ![p] = @ \ {event[p]}]
             \/ /\ userPC' = [userPC EXCEPT ![p] = "checkSize"] /\ UNCHANGED events
                /\ out' = [out EXCEPT ![p] = Head(ctrlBox[p][<<event[p].peer, event[p].tag>>])]
      BY <1>10 DEF DequeueConfirm
    <2>2. /\ event[p] \in Events /\ event[p].peer \in Peers /\ event[p].tag \in Tags
      BY <1>2, <2>1 DEF UserOK, Events
    <2>3. /\ Head(ctrlBox[p][<<event[p].peer, event[p].tag>>])
               \in Mail("CONFIRM", {event[p].peer}, {event[p].tag})
          /\ Head(ctrlBox[p][<<event[p].peer, event[p].tag>>]) \in Messages
      <3>1. ctrlBox[p][<<event[p].peer, event[p].tag>>] \in Seq(Mail("CONFIRM", {event[p].peer}, {event[p].tag}))
        BY <2>2 DEF Shape, Boxes, BoxHolds
      <3>2. Head(ctrlBox[p][<<event[p].peer, event[p].tag>>])
               \in Mail("CONFIRM", {event[p].peer}, {event[p].tag})
        BY <2>1, <3>1
      <3>3. QED BY <2>2, <3>2, MailIsMessage
    <2>4. UserOK(p)'
      BY <1>1, <1>2, <2>1, <2>2, <2>3 DEF UserOK
    <2>5. UserTypes'
      <3>1. userPC' \in [Peers -> UserPCs] /\ events' \in [Peers -> SUBSET Events]
        BY <1>1, <2>1 DEF UserPCs
      <3>2. out' \in [Peers -> Messages \cup {Nothing}]
        BY <1>1, <2>1, <2>3
      <3>3. QED BY <1>1, <2>1, <3>1, <3>2 DEF UserTypes
    <2>6. \A q \in Peers \ {p} : UserSame(q)
      BY <1>1, <2>1
    <2>7. QED BY <2>4, <2>5, <2>6
  <1>11. CASE PutBackCheck(p)
    <2>1. /\ userPC[p] = "checkSize" /\ userPC' = [userPC EXCEPT ![p] = "putBack"]
          /\ UNCHANGED <<call, out, event, events, made, maxMsgID>>
      BY <1>11 DEF PutBackCheck
    <2>2. UserOK(p)'
      BY <1>1, <1>2, <2>1 DEF UserOK
    <2>3. QED BY <1>1, <2>1, <2>2 DEF UserTypes, UserPCs
  <1>12. CASE PutBack(p)
    <2>1. PICK l \in {"idle", "dequeue"} :
            /\ userPC[p] = "putBack" /\ userPC' = [userPC EXCEPT ![p] = l]
            /\ out' = [out EXCEPT ![p] = Nothing]
            /\ UNCHANGED <<call, event, events, made, maxMsgID>>
      BY <1>12 DEF PutBack
    <2>2. UserOK(p)'
      BY <1>1, <1>2, <2>1 DEF UserOK
    <2>3. QED BY <1>1, <2>1, <2>2 DEF UserTypes, UserPCs
  <1>13. QED BY <1>3, <1>4, <1>5, <1>6, <1>7, <1>8, <1>9, <1>10, <1>11, <1>12

-----------------------------------------------------------------------------
(* What the operations on connections and boxes do to each of them.        *)

LEMMA PushIs ==
    ASSUME NEW w, NEW type \in {"PEER", "CONFIRM"}, WireHolds(w, type), NEW p \in Peers, NEW q \in Peers,
           NEW m \in Content(type, p), NEW v, v = [w EXCEPT ![p][q] = Append(@, m)]
    PROVE  /\ WireHolds(v, type)
           /\ v[p][q] = Append(w[p][q], m)
           /\ \A x, y \in Peers : x # p \/ y # q => v[x][y] = w[x][y]
  <1>1. m \in Messages
    BY MailIsMessage DEF Content
  <1>2. Append(w[p][q], m) \in Seq(Messages)
    BY <1>1, AppendProperties DEF WireHolds
  <1>3. Append(w[p][q], m) \in Seq(Content(type, p))
    BY AppendProperties DEF WireHolds
  <1>4. v \in [Peers -> [Peers -> Seq(Messages)]]
    BY <1>2 DEF WireHolds
  <1>5. /\ v[p][q] = Append(w[p][q], m)
        /\ \A x, y \in Peers : x # p \/ y # q => v[x][y] = w[x][y]
    BY DEF WireHolds
  <1>6. QED BY <1>3, <1>4, <1>5 DEF WireHolds

LEMMA ShiftIs ==
    ASSUME NEW w, NEW type, WireHolds(w, type), NEW p \in Peers, NEW q \in Peers,
           w[p][q] # <<>>, NEW v, v = [w EXCEPT ![p][q] = Tail(@)]
    PROVE  /\ WireHolds(v, type) /\ Head(w[p][q]) \in Content(type, p)
           /\ v[p][q] = Tail(w[p][q])
           /\ \A x, y \in Peers : x # p \/ y # q => v[x][y] = w[x][y]
  <1>1. Tail(w[p][q]) \in Seq(Messages)
    BY HeadTailProperties DEF WireHolds
  <1>2. Tail(w[p][q]) \in Seq(Content(type, p)) /\ Head(w[p][q]) \in Content(type, p)
    BY HeadTailProperties DEF WireHolds
  <1>3. v \in [Peers -> [Peers -> Seq(Messages)]]
    BY <1>1 DEF WireHolds
  <1>4. /\ v[p][q] = Tail(w[p][q])
        /\ \A x, y \in Peers : x # p \/ y # q => v[x][y] = w[x][y]
    BY DEF WireHolds
  <1>5. QED BY <1>2, <1>3, <1>4 DEF WireHolds

LEMMA PutIs ==
    ASSUME NEW b, NEW type \in {"PEER", "CONFIRM"}, BoxHolds(b, type), NEW p \in Peers,
           NEW m \in Mail(type, Peers, Tags), NEW v, v = Put(b, p, m)
    PROVE  /\ BoxHolds(v, type)
           /\ v[p][<<m.src, m.tag>>] = Append(b[p][<<m.src, m.tag>>], m)
           /\ \A x, y \in Peers : \A g \in Tags :
                x # p \/ y # m.src \/ g # m.tag => v[x][<<y, g>>] = b[x][<<y, g>>]
  <1> DEFINE k == <<m.src, m.tag>>
  <1>1. /\ m.src \in Peers /\ m.tag \in Tags /\ m \in Mail(type, {m.src}, {m.tag})
    BY DEF Mail
  <1>2. m \in Messages
    BY <1>1, MailIsMessage
  <1>3. k \in Keys /\ Key(m) = k
    BY <1>1 DEF Key, Keys
  <1>4. Append(b[p][k], m) \in Seq(Messages)
    BY <1>2, <1>3, AppendProperties DEF BoxHolds
  <1>5. Append(b[p][k], m) \in Seq(Mail(type, {m.src}, {m.tag}))
    BY <1>1, AppendProperties DEF BoxHolds
  <1>6. v = [b EXCEPT ![p] = [b[p] EXCEPT ![k] = Append(b[p][k], m)]]
    BY <1>3 DEF Put
  <1> HIDE DEF k
  <1>7. v \in [Peers -> [Keys -> Seq(Messages)]]
    BY <1>3, <1>4, <1>6 DEF BoxHolds
  <1>8. v[p][k] = Append(b[p][k], m)
    BY <1>3, <1>6 DEF BoxHolds
  <1>9. \A x \in Peers : \A l \in Keys : x # p \/ l # k => v[x][l] = b[x][l]
    BY <1>3, <1>6 DEF BoxHolds
  <1>10. \A x, y \in Peers : \A g \in Tags :
                x # p \/ y # m.src \/ g # m.tag => v[x][<<y, g>>] = b[x][<<y, g>>]
    BY <1>9 DEF Keys, k
  <1>11. \A x, y \in Peers : \A g \in Tags : v[x][<<y, g>>] \in Seq(Mail(type, {y}, {g}))
    <2>1. SUFFICES ASSUME NEW x \in Peers, NEW y \in Peers, NEW g \in Tags
                   PROVE  v[x][<<y, g>>] \in Seq(Mail(type, {y}, {g}))
      OBVIOUS
    <2>2. CASE x = p /\ y = m.src /\ g = m.tag
      BY <1>5, <1>8, <2>2 DEF k
    <2>3. CASE x # p \/ y # m.src \/ g # m.tag
      BY <1>10, <2>3 DEF BoxHolds
    <2>4. QED BY <2>2, <2>3
  <1>12. QED BY <1>7, <1>8, <1>10, <1>11 DEF BoxHolds, k

LEMMA PopIs ==
    ASSUME NEW b, NEW type, BoxHolds(b, type), NEW p \in Peers,
           NEW r \in Peers, NEW h \in Tags, b[p][<<r, h>>] # <<>>, NEW v, v = Pop(b, p, <<r, h>>)
    PROVE  /\ BoxHolds(v, type) /\ Head(b[p][<<r, h>>]) \in Mail(type, {r}, {h})
           /\ v[p][<<r, h>>] = Tail(b[p][<<r, h>>])
           /\ \A x, y \in Peers : \A g \in Tags :
                x # p \/ y # r \/ g # h => v[x][<<y, g>>] = b[x][<<y, g>>]
  <1> DEFINE k == <<r, h>>
  <1>1. k \in Keys
    BY DEF Keys
  <1>2. Tail(b[p][k]) \in Seq(Messages)
    BY <1>1, HeadTailProperties DEF BoxHolds
  <1>3. Tail(b[p][k]) \in Seq(Mail(type, {r}, {h})) /\ Head(b[p][k]) \in Mail(type, {r}, {h})
    BY HeadTailProperties DEF BoxHolds
  <1>4. v = [b EXCEPT ![p] = [b[p] EXCEPT ![k] = Tail(b[p][k])]]
    BY DEF Pop
  <1> HIDE DEF k
  <1>5. v \in [Peers -> [Keys -> Seq(Messages)]]
    <2>1. b \in [Peers -> [Keys -> Seq(Messages)]]
      BY DEF BoxHolds
    <2>2. PICK t \in Seq(Messages) : t = Tail(b[p][k])
      BY <1>2
    <2>3. v = [b EXCEPT ![p] = [b[p] EXCEPT ![k] = t]]
      BY <1>4, <2>2
    <2>4. [b[p] EXCEPT ![k] = t] \in [Keys -> Seq(Messages)]
      BY <2>1
    <2>5. QED BY <2>1, <2>3, <2>4
  <1>6. v[p][k] = Tail(b[p][k])
    BY <1>1, <1>4 DEF BoxHolds
  <1>7. \A x \in Peers : \A l \in Keys : x # p \/ l # k => v[x][l] = b[x][l]
    <2>1. b \in [Peers -> [Keys -> Seq(Messages)]]
      BY DEF BoxHolds
    <2>2. PICK t : t = Tail(b[p][k])
      OBVIOUS
    <2>3. v = [b EXCEPT ![p] = [b[p] EXCEPT ![k] = t]]
      BY <1>4, <2>2
    <2>4. QED BY <1>1, <2>1, <2>3
  <1>8. \A x, y \in Peers : \A g \in Tags :
                x # p \/ y # r \/ g # h => v[x][<<y, g>>] = b[x][<<y, g>>]
    BY <1>7 DEF Keys, k
  <1>9. \A x, y \in Peers : \A g \in Tags : v[x][<<y, g>>] \in Seq(Mail(type, {y}, {g}))
    <2>1. SUFFICES ASSUME NEW x \in Peers, NEW y \in Peers, NEW g \in Tags
                   PROVE  v[x][<<y, g>>] \in Seq(Mail(type, {y}, {g}))
      OBVIOUS
    <2>2. CASE x = p /\ y = r /\ g = h
      BY <1>3, <1>6, <2>2 DEF k
    <2>3. CASE x # p \/ y # r \/ g # h
      BY <1>8, <2>3 DEF BoxHolds
    <2>4. QED BY <2>2, <2>3
  <1>10. QED BY <1>3, <1>5, <1>6, <1>8, <1>9 DEF BoxHolds, k

-----------------------------------------------------------------------------
(* What a step of the user thread does to what the threads share.          *)

NoConfirmation(m) == m = Nothing \/ m.type # "CONFIRM"
HandsStay == \A x \in Peers : out'[x] = out[x] \/ (NoConfirmation(out[x]) /\ NoConfirmation(out'[x]))

LEMMA UserEffects ==
    ASSUME Shape, NEW p \in Peers, UserStep(p)
    PROVE  /\ UNCHANGED handlers
           /\ \/ UNCHANGED <<wires, boxes, history>> /\ HandsStay
              \/ \E r \in Peers, h \in Tags :
                   TakeMessage(p, <<r, h>>) /\ UNCHANGED <<wires, out>>
              \/ Transmit(p) \/ TransmitDestruct(p) \/ TransmitDestructCtrl(p)
              \/ DequeueConfirm(p) \/ PutBack(p)
           /\ \/ UNCHANGED sendMtx \/ sendMtx' = [sendMtx EXCEPT ![p] = {"user"}]
              \/ sendMtx' = [sendMtx EXCEPT ![p] = {}]
  <1>0. out \in [Peers -> Messages \cup {Nothing}] /\ UserOK(p)
    BY DEF Shape, UserTypes, Threads
  <1>1. CASE Calls(p)
    <2>1. PICK c : SendCall(p, c) \/ RecvCall(p, c) \/ EventCall(p, c) \/ AsyncRecv(p, c) \/ DestroyCall(p, c)
      BY <1>1 DEF Calls
    <2>2. CASE SendCall(p, c) \/ DestroyCall(p, c)
      <3>1. PICK m : /\ UNCHANGED <<handlers, wires, boxes, sendMtx, history>> /\ m.type # "CONFIRM"
                     /\ out' = [out EXCEPT ![p] = m] /\ Start(p, c)
        BY <2>2 DEF SendCall, DestroyCall, Message
      <3>2. out[p] = Nothing
        BY <3>1, StartFacts
      <3>3. HandsStay
        BY <1>0, <3>1, <3>2 DEF HandsStay, NoConfirmation
      <3>4. QED BY <3>1, <3>3
    <2>3. CASE RecvCall(p, c) \/ EventCall(p, c)
      BY <2>3 DEF RecvCall, EventCall, HandsStay
    <2>4. CASE AsyncRecv(p, c)
      <3>1. c.peer \in Peers /\ c.tag \in Tags
        BY <2>4, StartFacts DEF AsyncRecv
      <3>2. UNCHANGED <<out, wires, handlers, sendMtx>>
        BY <2>4 DEF AsyncRecv
      <3>3. \/ TakeMessage(p, <<c.peer, c.tag>>)
            \/ UNCHANGED <<boxes, history>>
        BY <2>4 DEF AsyncRecv
      <3>4. QED BY <3>1, <3>2, <3>3 DEF HandsStay
    <2>5. QED BY <2>1, <2>2, <2>3, <2>4
  <1>2. CASE UserLock(p) \/ Join(p) \/ PutBackCheck(p)
    BY <1>2 DEF UserLock, Lock, Join, PutBackCheck, HandsStay
  <1>3. CASE Transmit(p) \/ TransmitDestruct(p) \/ TransmitDestructCtrl(p) \/ DequeueConfirm(p) \/ PutBack(p)
    BY <1>3 DEF Transmit, TransmitDestruct, TransmitDestructCtrl, DequeueConfirm, PutBack, Unlock
  <1>4. CASE Recv(p)
    <2>1. call[p].peer \in Peers /\ call[p].tag \in Tags
      BY <1>0, <1>4 DEF Recv, UserOK
    <2>2. QED BY <1>4, <2>1 DEF Recv
  <1>5. CASE RecvAny(p)
    <2>1. PICK k \in Keys : TakeMessage(p, k)
      BY <1>5 DEF RecvAny
    <2>2. \E r \in Peers, h \in Tags : k = <<r, h>>
      BY DEF Keys
    <2>3. UNCHANGED <<out, wires, handlers, sendMtx>>
      BY <1>5 DEF RecvAny
    <2>4. QED BY <2>1, <2>2, <2>3
  <1>6. CASE Poll(p)
    <2>1. event[p] \in Events
      BY <1>0, <1>6 DEF Poll, UserOK
    <2>2. event[p].peer \in Peers /\ event[p].tag \in Tags
      BY <2>1 DEF Events
    <2>3. /\ UNCHANGED <<out, wires, handlers, sendMtx>>
          /\ TakeMessage(p, <<event[p].peer, event[p].tag>>) \/ UNCHANGED <<boxes, history>>
      BY <1>6 DEF Poll
    <2>4. QED BY <2>2, <2>3 DEF HandsStay
  <1>7. QED BY <1>1, <1>2, <1>3, <1>4, <1>5, <1>6 DEF UserStep

\* The messages at the hands of the steps.
LEMMA TransmitFacts ==
    ASSUME Shape, NEW p \in Peers, Transmit(p)
    PROVE  /\ event[p].peer \in Peers /\ out[p] \in Mail("PEER", {p}, Tags)
           /\ [id |-> out[p].id, tag |-> out[p].tag] \in [id : MsgIDs, tag : Tags]
           /\ out[p] # Nothing /\ Pending(p) /\ userPC[p] = "transmit"
  <1>1. /\ event[p] \in Events /\ out[p] \in Mail("PEER", {p}, {event[p].tag}) /\ userPC[p] = "transmit"
        /\ out[p].type = "PEER"
    BY MailIsMessage DEF Transmit, Shape, Threads, UserOK
  <1>2. event[p].peer \in Peers /\ event[p].tag \in Tags
    BY <1>1 DEF Events
  <1>3. out[p] \in Mail("PEER", {p}, Tags)
    BY <1>1, <1>2 DEF Mail
  <1>4. QED BY <1>1, <1>2, <1>3, MailIsMessage DEF Mail, Pending

LEMMA DestructFacts ==
    ASSUME Shape, NEW p \in Peers, TransmitDestruct(p) \/ TransmitDestructCtrl(p)
    PROVE  out[p] = DestructOf(p)
  <1>1. CASE TransmitDestruct(p)
    BY <1>1 DEF TransmitDestruct, Shape, Threads, UserOK, Mail
  <1>2. CASE TransmitDestructCtrl(p)
    BY <1>2 DEF TransmitDestructCtrl, Shape, Threads, UserOK
  <1>3. QED BY <1>1, <1>2

LEMMA DequeueFacts ==
    ASSUME Shape, NEW p \in Peers, DequeueConfirm(p)
    PROVE  LET q == event[p].peer
               g == event[p].tag
               m == Head(ctrlBox[p][<<q, g>>])
           IN  /\ event[p] \in Events /\ q \in Peers /\ g \in Tags /\ event[p].id \in MsgIDs
               /\ ctrlBox[p][<<q, g>>] # <<>> /\ out[p] = Nothing
               /\ m \in Mail("CONFIRM", {q}, {g})
               /\ m.id \in MsgIDs /\ m.src = q /\ m.tag = g
  <1>1. event[p] \in Events /\ out[p] = Nothing
    BY DEF DequeueConfirm, Shape, Threads, UserOK
  <1>2. /\ event[p].peer \in Peers /\ event[p].tag \in Tags /\ event[p].id \in MsgIDs
        /\ ctrlBox[p][<<event[p].peer, event[p].tag>>] # <<>>
    BY <1>1 DEF DequeueConfirm, Events
  <1>3. Head(ctrlBox[p][<<event[p].peer, event[p].tag>>]) \in Mail("CONFIRM", {event[p].peer}, {event[p].tag})
    BY <1>2, HeadTailProperties DEF Shape, Boxes, BoxHolds
  <1>4. QED BY <1>1, <1>2, <1>3 DEF Mail

LEMMA PutBackFacts ==
    ASSUME Shape, NEW p \in Peers, PutBack(p)
    PROVE  /\ out[p] \in Mail("CONFIRM", Peers, Tags) /\ out[p] # Nothing
           /\ out[p].src \in Peers /\ out[p].tag \in Tags /\ out[p].type = "CONFIRM"
  <1>1. event[p] \in Events /\ out[p] \in Mail("CONFIRM", {event[p].peer}, {event[p].tag})
    BY DEF PutBack, Shape, Threads, UserOK
  <1>2. out[p] \in Mail("CONFIRM", Peers, Tags)
    BY <1>1 DEF Events, Mail
  <1>3. QED BY <1>2, MailIsMessage DEF Mail

LEMMA HandlerFacts ==
    ASSUME Shape, NEW p \in Peers
    PROVE  /\ recvPC[p] \in {"lock", "confirm", "enqueue"} =>
                /\ recvMsg[p] \in Mail("PEER", Peers, Tags) /\ recvMsg[p] # Nothing
                /\ recvMsg[p].src \in Peers /\ recvMsg[p].tag \in Tags /\ recvMsg[p].id \in MsgIDs
                /\ Message("CONFIRM", recvMsg[p].id, p, recvMsg[p].tag) \in Mail("CONFIRM", {p}, Tags)
           /\ ctrlPC[p] \in {"checkSize", "enqueue"} =>
                /\ ctrlMsg[p] \in Mail("CONFIRM", Peers, Tags) /\ ctrlMsg[p] # Nothing
                /\ ctrlMsg[p].src \in Peers /\ ctrlMsg[p].tag \in Tags /\ ctrlMsg[p].type = "CONFIRM"
           /\ ctrlPC[p] = "recv" => ctrlMsg[p] = Nothing
           /\ recvPC[p] = "recv" => recvMsg[p] = Nothing
  <1>1. /\ recvPC[p] \in {"lock", "confirm", "enqueue"} => recvMsg[p] \in Mail("PEER", Peers, Tags)
        /\ ctrlPC[p] \in {"checkSize", "enqueue"} => ctrlMsg[p] \in Mail("CONFIRM", Peers, Tags)
        /\ ctrlPC[p] = "recv" => ctrlMsg[p] = Nothing
        /\ recvPC[p] = "recv" => recvMsg[p] = Nothing
    BY DEF Shape, Threads, HandlersOK
  <1>2. \A m : m \in Mail("PEER", Peers, Tags) \cup Mail("CONFIRM", Peers, Tags) =>
          m # Nothing /\ m.src \in Peers /\ m.tag \in Tags /\ m.id \in MsgIDs
    BY MailIsMessage DEF Mail
  <1>3. QED BY <1>1, <1>2 DEF Message, Mail

\* What the handlers find at the head of a connection.
LEMMA SocketFacts ==
    ASSUME Shape, NEW p \in Peers, NEW q \in Peers
    PROVE  /\ data[q][p] # <<>> /\ Head(data[q][p]).type = "PEER" =>
                Head(data[q][p]) \in Mail("PEER", {q}, Tags) /\ Head(data[q][p]) \in Messages
           /\ ctrl[q][p] # <<>> /\ Head(ctrl[q][p]).type = "CONFIRM" =>
                Head(ctrl[q][p]) \in Mail("CONFIRM", {q}, Tags) /\ Head(ctrl[q][p]) \in Messages
  <1>1. /\ data[q][p] # <<>> => Head(data[q][p]) \in Content("PEER", q)
        /\ ctrl[q][p] # <<>> => Head(ctrl[q][p]) \in Content("CONFIRM", q)
    BY HeadTailProperties DEF Shape, Wires, WireHolds
  <1>2. QED BY <1>1, MailIsMessage DEF Content

-----------------------------------------------------------------------------
(* The shape of the state is invariant.                                    *)

HandlersSame(q) ==
    recvPC'[q] = recvPC[q] /\ recvMsg'[q] = recvMsg[q] /\ ctrlPC'[q] = ctrlPC[q] /\ ctrlMsg'[q] = ctrlMsg[q]

LEMMA HandlersStay ==
    ASSUME NEW q, HandlersSame(q), HandlersOK(q)
    PROVE  HandlersOK(q)'
  BY DEF HandlersSame, HandlersOK, Mail

LEMMA WiresStay == Wires /\ UNCHANGED wires => Wires'
  BY DEF Wires, WireHolds, wires, Content, Mail, DestructOf

LEMMA BoxesStay == Boxes /\ UNCHANGED boxes => Boxes'
  BY DEF Boxes, BoxHolds, boxes, Mail, Keys

LEMMA UserStepShape ==
    ASSUME Shape, NEW p \in Peers, UserStep(p), setup' = setup
    PROVE  Shape'
  <1>1. UserKept(p)
    BY CallsKeepUser, UserStepKeepsUser DEF UserStep
  <1>2. Threads'
    <2>1. \A q \in Peers : UserOK(q)'
      BY <1>1, UserStays DEF UserKept, Shape, Threads
    <2>2. \A q \in Peers : HandlersOK(q)'
      BY UserEffects, HandlersStay DEF handlers, HandlersSame, Shape, Threads
    <2>3. QED BY <2>1, <2>2 DEF Threads
  <1> DEFINE Parts3 == /\ sent' \in [Peers -> [Peers -> Seq([id : MsgIDs, tag : Tags])]]
                       /\ taken' \in [Peers -> [Peers -> SUBSET MsgIDs]]
                       /\ completed' \in [Peers -> SUBSET MsgIDs]
  <1>3. Parts3 /\ Wires' /\ Boxes'
    <2>0. /\ sent \in [Peers -> [Peers -> Seq([id : MsgIDs, tag : Tags])]]
          /\ taken \in [Peers -> [Peers -> SUBSET MsgIDs]]
          /\ completed \in [Peers -> SUBSET MsgIDs]
          /\ Wires /\ Boxes
      BY DEF Shape, Others
    <2>1. CASE UNCHANGED <<wires, boxes, history>>
      BY <2>0, <2>1, WiresStay, BoxesStay DEF history
    <2>2. CASE \E r \in Peers, h \in Tags : TakeMessage(p, <<r, h>>) /\ UNCHANGED <<wires, out>>
      <3>1. PICK r \in Peers, h \in Tags : TakeMessage(p, <<r, h>>) /\ UNCHANGED <<wires, out>>
        BY <2>2
      <3>2. /\ inBox[p][<<r, h>>] # <<>> /\ inBox' = Pop(inBox, p, <<r, h>>) /\ UNCHANGED ctrlBox
            /\ taken' = [taken EXCEPT ![p][r] = @ \cup {Head(inBox[p][<<r, h>>]).id}]
            /\ UNCHANGED <<sent, completed>>
        BY <3>1 DEF TakeMessage
      <3>3. BoxHolds(inBox', "PEER") /\ Head(inBox[p][<<r, h>>]) \in Mail("PEER", {r}, {h})
        BY <2>0, <3>2, PopIs DEF Boxes
      <3>4. Head(inBox[p][<<r, h>>]).id \in MsgIDs
        BY <3>3 DEF Mail
      <3>5. Boxes'
        BY <2>0, <3>2, <3>3 DEF Boxes, BoxHolds, Mail, Keys
      <3>6. QED BY <2>0, <3>1, <3>2, <3>4, <3>5, WiresStay
    <2>3. CASE Transmit(p)
      <3>1. /\ data' = [data EXCEPT ![p][event[p].peer] = Append(@, out[p])]
            /\ sent' = [sent EXCEPT ![p][event[p].peer] = Append(@, [id |-> out[p].id, tag |-> out[p].tag])]
            /\ UNCHANGED <<ctrl, boxes, taken, completed>>
        BY <2>3 DEF Transmit, Push
      <3>2. event[p].peer \in Peers /\ out[p] \in Content("PEER", p)
            /\ [id |-> out[p].id, tag |-> out[p].tag] \in [id : MsgIDs, tag : Tags]
        BY <2>3, TransmitFacts DEF Content
      <3>3. WireHolds(data', "PEER")
        BY <2>0, <3>1, <3>2, PushIs DEF Wires
      <3>4. Wires'
        BY <2>0, <3>1, <3>3 DEF Wires, WireHolds, Content, Mail, DestructOf
      <3>5. sent' \in [Peers -> [Peers -> Seq([id : MsgIDs, tag : Tags])]]
        <4>1. Append(sent[p][event[p].peer], [id |-> out[p].id, tag |-> out[p].tag])
                \in Seq([id : MsgIDs, tag : Tags])
          BY <2>0, <3>2, AppendProperties
        <4>2. QED BY <2>0, <3>1, <3>2, <4>1
      <3>6. QED BY <2>0, <3>1, <3>4, <3>5, BoxesStay
    <2>4. CASE TransmitDestruct(p)
      <3>1. /\ data' = [data EXCEPT ![p][p] = Append(@, out[p])]
            /\ UNCHANGED <<ctrl, boxes, history>> /\ out[p] \in Content("PEER", p)
        BY <2>4, DestructFacts DEF TransmitDestruct, Push, Content
      <3>2. WireHolds(data', "PEER")
        BY <2>0, <3>1, PushIs DEF Wires
      <3>3. Wires'
        BY <2>0, <3>1, <3>2 DEF Wires, WireHolds, Content, Mail, DestructOf
      <3>4. QED BY <2>0, <3>1, <3>3, BoxesStay DEF history
    <2>5. CASE TransmitDestructCtrl(p)
      <3>1. /\ ctrl' = [ctrl EXCEPT ![p][p] = Append(@, out[p])]
            /\ UNCHANGED <<data, boxes, history>> /\ out[p] \in Content("CONFIRM", p)
        BY <2>5, DestructFacts DEF TransmitDestructCtrl, Push, Content
      <3>2. WireHolds(ctrl', "CONFIRM")
        BY <2>0, <3>1, PushIs DEF Wires
      <3>3. Wires'
        BY <2>0, <3>1, <3>2 DEF Wires, WireHolds, Content, Mail, DestructOf
      <3>4. QED BY <2>0, <3>1, <3>3, BoxesStay DEF history
    <2>6. CASE DequeueConfirm(p)
      <3>1. /\ ctrlBox' = Pop(ctrlBox, p, <<event[p].peer, event[p].tag>>)
            /\ completed' = [completed EXCEPT ![p] = @ \cup {event[p].id}] \/ UNCHANGED completed
            /\ UNCHANGED <<wires, inBox, sent, taken>>
        BY <2>6 DEF DequeueConfirm
      <3>2. BoxHolds(ctrlBox', "CONFIRM") /\ event[p].id \in MsgIDs
        BY <2>0, <2>6, <3>1, PopIs, DequeueFacts DEF Boxes
      <3>3. Boxes'
        BY <2>0, <3>1, <3>2 DEF Boxes, BoxHolds, Mail, Keys
      <3>4. QED BY <2>0, <3>1, <3>2, <3>3, WiresStay
    <2>7. CASE PutBack(p)
      <3>1. ctrlBox' = Put(ctrlBox, p, out[p]) /\ UNCHANGED <<wires, inBox, history>>
        BY <2>7 DEF PutBack
      <3>2. BoxHolds(ctrlBox', "CONFIRM")
        BY <2>0, <2>7, <3>1, PutIs, PutBackFacts DEF Boxes
      <3>3. Boxes'
        BY <2>0, <3>1, <3>2 DEF Boxes, BoxHolds, Mail, Keys
      <3>4. QED BY <2>0, <3>1, <3>3, WiresStay DEF history
    <2>8. QED BY <2>1, <2>2, <2>3, <2>4, <2>5, <2>6, <2>7, UserEffects
  <1>4. Others'
    BY <1>3, UserEffects DEF Shape, Others, handlers
  <1>5. QED BY <1>1, <1>2, <1>3, <1>4 DEF Shape, UserKept

LEMMA HandlerShape ==
    ASSUME Shape, NEW p \in Peers, HandleRecv(p) \/ HandleCtrl(p), setup' = setup
    PROVE  Shape'
  <1>0. /\ UserTypes /\ Others /\ Wires /\ Boxes /\ Threads /\ UNCHANGED <<userVars, history>>
    BY DEF Shape, HandleRecv, RecvFromSocket, ConfirmLock, Confirm, Enqueue,
           HandleCtrl, CtrlFromSocket, CtrlCheck, CtrlEnqueue
  <1>1. UserTypes' /\ \A q \in Peers : UserOK(q)'
    BY <1>0, UserStays DEF userVars, UserTypes, UserSame, Threads
  <1>2. ASSUME /\ Wires' /\ Boxes' /\ HandlersOK(p)'
               /\ recvPC' \in [Peers -> {"recv", "lock", "confirm", "enqueue", "stopped"}]
               /\ ctrlPC' \in [Peers -> {"recv", "checkSize", "enqueue", "stopped"}]
               /\ recvMsg' \in [Peers -> Messages \cup {Nothing}]
               /\ ctrlMsg' \in [Peers -> Messages \cup {Nothing}]
               /\ sendMtx' \in [Peers -> {{}, {"user"}, {"recvHandler"}}]
               /\ \A q \in Peers \ {p} : HandlersSame(q)
        PROVE  Shape'
    <2>1. Others'
      BY <1>0, <1>2 DEF Others, history
    <2>2. \A q \in Peers : HandlersOK(q)'
      BY <1>0, <1>2, HandlersStay DEF Threads
    <2>3. QED BY <1>1, <1>2, <2>1, <2>2 DEF Shape, Threads
  <1>3. HandlersOK(p) /\ HandlersOK(p)' = HandlersOK(p)'
    BY <1>0 DEF Threads
  <1>4. ASSUME NEW q \in Peers, RecvFromSocket(p, q) PROVE Shape'
    <2>1. /\ recvPC[p] = "recv" /\ data[q][p] # <<>> /\ data' = [data EXCEPT ![q][p] = Tail(@)]
          /\ UNCHANGED <<ctrlPC, ctrlMsg, ctrl, boxes, sendMtx>>
          /\ \/ recvPC' = [recvPC EXCEPT ![p] = "stopped"] /\ UNCHANGED recvMsg
             \/ /\ recvPC' = [recvPC EXCEPT ![p] = "lock"] /\ Head(data[q][p]).type = "PEER"
                /\ recvMsg' = [recvMsg EXCEPT ![p] = Head(data[q][p])]
      BY <1>4 DEF RecvFromSocket, GotoRecv
    <2>2. WireHolds(data', "PEER")
      BY <1>0, <2>1, ShiftIs DEF Wires
    <2>3. Wires' /\ Boxes'
      BY <1>0, <2>1, <2>2, BoxesStay DEF Wires, WireHolds, Content, Mail, DestructOf
    <2>4. Head(data[q][p]).type = "PEER" =>
            Head(data[q][p]) \in Mail("PEER", Peers, Tags) /\ Head(data[q][p]) \in Messages
      BY <2>1, SocketFacts DEF Mail
    <2>5. HandlersOK(p)'
      BY <1>0, <1>3, <2>1, <2>4 DEF HandlersOK, Mail, Others
    <2>6. /\ recvPC' \in [Peers -> {"recv", "lock", "confirm", "enqueue", "stopped"}]
          /\ recvMsg' \in [Peers -> Messages \cup {Nothing}]
      <3>1. recvPC' \in [Peers -> {"recv", "lock", "confirm", "enqueue", "stopped"}]
        BY <1>0, <2>1 DEF Others
      <3>2. PICK m \in Messages \cup {Nothing} :
              UNCHANGED recvMsg \/ recvMsg' = [recvMsg EXCEPT ![p] = m]
        BY <2>1, <2>4
      <3>3. recvMsg' \in [Peers -> Messages \cup {Nothing}]
        <4>1. recvMsg \in [Peers -> Messages \cup {Nothing}]
          BY <1>0 DEF Others
        <4>2. CASE UNCHANGED recvMsg
          BY <4>1, <4>2
        <4>3. CASE recvMsg' = [recvMsg EXCEPT ![p] = m]
          BY <4>1, <4>3
        <4>4. QED BY <3>2, <4>2, <4>3
      <3>4. QED BY <3>1, <3>3
    <2>7. \A r \in Peers \ {p} : HandlersSame(r)
      BY <1>0, <2>1 DEF Others, HandlersSame
    <2>8. QED BY <1>0, <1>2, <2>1, <2>3, <2>5, <2>6, <2>7 DEF Others
  <1>5. CASE ConfirmLock(p)
    <2>1. /\ recvPC[p] = "lock" /\ recvPC' = [recvPC EXCEPT ![p] = "confirm"]
          /\ sendMtx' = [sendMtx EXCEPT ![p] = {"recvHandler"}]
          /\ UNCHANGED <<recvMsg, ctrlPC, ctrlMsg, wires, boxes>>
      BY <1>5 DEF ConfirmLock, Lock, GotoRecv
    <2>2. Wires' /\ Boxes'
      BY <1>0, <2>1, BoxesStay, WiresStay
    <2>3. HandlersOK(p)'
      BY <1>0, <1>3, <2>1 DEF HandlersOK, Mail, Others
    <2>4. QED BY <1>0, <1>2, <2>1, <2>2, <2>3 DEF Others, HandlersSame
  <1>6. CASE Confirm(p)
    <2>1. /\ recvPC[p] = "confirm" /\ recvPC' = [recvPC EXCEPT ![p] = "enqueue"]
          /\ sendMtx' = [sendMtx EXCEPT ![p] = {}]
          /\ ctrl' = [ctrl EXCEPT ![p][recvMsg[p].src] =
                        Append(@, Message("CONFIRM", recvMsg[p].id, p, recvMsg[p].tag))]
          /\ UNCHANGED <<recvMsg, ctrlPC, ctrlMsg, data, boxes>>
      BY <1>6 DEF Confirm, Push, Unlock, GotoRecv
    <2>2. /\ recvMsg[p].src \in Peers
          /\ Message("CONFIRM", recvMsg[p].id, p, recvMsg[p].tag) \in Content("CONFIRM", p)
      BY <2>1, HandlerFacts DEF Content
    <2>3. WireHolds(ctrl', "CONFIRM")
      BY <1>0, <2>1, <2>2, PushIs DEF Wires
    <2>4. Wires' /\ Boxes'
      BY <1>0, <2>1, <2>3, BoxesStay DEF Wires, WireHolds, Content, Mail, DestructOf
    <2>5. HandlersOK(p)'
      BY <1>0, <1>3, <2>1 DEF HandlersOK, Mail, Others
    <2>6. QED BY <1>0, <1>2, <2>1, <2>4, <2>5 DEF Others, HandlersSame
  <1>7. CASE Enqueue(p)
    <2>1. /\ recvPC[p] = "enqueue" /\ recvPC' = [recvPC EXCEPT ![p] = "recv"]
          /\ inBox' = Put(inBox, p, recvMsg[p]) /\ recvMsg' = [recvMsg EXCEPT ![p] = Nothing]
          /\ UNCHANGED <<ctrlPC, ctrlMsg, wires, ctrlBox, sendMtx>>
      BY <1>7 DEF Enqueue, GotoRecv
    <2>2. BoxHolds(inBox', "PEER")
      BY <1>0, <2>1, PutIs, HandlerFacts DEF Boxes
    <2>3. Wires' /\ Boxes'
      BY <1>0, <2>1, <2>2, WiresStay DEF Boxes, BoxHolds, Mail, Keys
    <2>4. HandlersOK(p)'
      BY <1>0, <1>3, <2>1 DEF HandlersOK, Mail, Others
    <2>5. QED BY <1>0, <1>2, <2>1, <2>3, <2>4 DEF Others, HandlersSame
  <1>8. ASSUME NEW q \in Peers, CtrlFromSocket(p, q) PROVE Shape'
    <2>1. /\ ctrlPC[p] = "recv" /\ ctrl[q][p] # <<>> /\ ctrl' = [ctrl EXCEPT ![q][p] = Tail(@)]
          /\ UNCHANGED <<recvPC, recvMsg, data, boxes, sendMtx>>
          /\ \/ ctrlPC' = [ctrlPC EXCEPT ![p] = "stopped"] /\ UNCHANGED ctrlMsg
             \/ /\ ctrlPC' = [ctrlPC EXCEPT ![p] = "checkSize"] /\ Head(ctrl[q][p]).type = "CONFIRM"
                /\ ctrlMsg' = [ctrlMsg EXCEPT ![p] = Head(ctrl[q][p])]
      BY <1>8 DEF CtrlFromSocket
    <2>2. WireHolds(ctrl', "CONFIRM")
      BY <1>0, <2>1, ShiftIs DEF Wires
    <2>3. Wires' /\ Boxes'
      BY <1>0, <2>1, <2>2, BoxesStay DEF Wires, WireHolds, Content, Mail, DestructOf
    <2>4. Head(ctrl[q][p]).type = "CONFIRM" =>
            Head(ctrl[q][p]) \in Mail("CONFIRM", Peers, Tags) /\ Head(ctrl[q][p]) \in Messages
      BY <2>1, SocketFacts DEF Mail
    <2>5. HandlersOK(p)'
      BY <1>0, <1>3, <2>1, <2>4 DEF HandlersOK, Mail, Others
    <2>6. /\ ctrlPC' \in [Peers -> {"recv", "checkSize", "enqueue", "stopped"}]
          /\ ctrlMsg' \in [Peers -> Messages \cup {Nothing}]
      <3>1. ctrlPC' \in [Peers -> {"recv", "checkSize", "enqueue", "stopped"}]
        BY <1>0, <2>1 DEF Others
      <3>2. PICK m \in Messages \cup {Nothing} :
              UNCHANGED ctrlMsg \/ ctrlMsg' = [ctrlMsg EXCEPT ![p] = m]
        BY <2>1, <2>4
      <3>3. ctrlMsg' \in [Peers -> Messages \cup {Nothing}]
        <4>1. ctrlMsg \in [Peers -> Messages \cup {Nothing}]
          BY <1>0 DEF Others
        <4>2. CASE UNCHANGED ctrlMsg
          BY <4>1, <4>2
        <4>3. CASE ctrlMsg' = [ctrlMsg EXCEPT ![p] = m]
          BY <4>1, <4>3
        <4>4. QED BY <3>2, <4>2, <4>3
      <3>4. QED BY <3>1, <3>3
    <2>7. \A r \in Peers \ {p} : HandlersSame(r)
      BY <1>0, <2>1 DEF Others, HandlersSame
    <2>8. QED BY <1>0, <1>2, <2>1, <2>3, <2>5, <2>6, <2>7 DEF Others
  <1>9. CASE CtrlCheck(p)
    <2>1. /\ ctrlPC[p] = "checkSize" /\ ctrlPC' = [ctrlPC EXCEPT ![p] = "enqueue"]
          /\ UNCHANGED <<recvPC, recvMsg, ctrlMsg, wires, boxes, sendMtx>>
      BY <1>9 DEF CtrlCheck
    <2>2. Wires' /\ Boxes'
      BY <1>0, <2>1, BoxesStay, WiresStay
    <2>3. HandlersOK(p)'
      BY <1>0, <1>3, <2>1 DEF HandlersOK, Mail, Others
    <2>4. QED BY <1>0, <1>2, <2>1, <2>2, <2>3 DEF Others, HandlersSame
  <1>10. CASE CtrlEnqueue(p)
    <2>1. /\ ctrlPC[p] = "enqueue" /\ ctrlPC' = [ctrlPC EXCEPT ![p] = "recv"]
          /\ ctrlBox' = Put(ctrlBox, p, ctrlMsg[p]) /\ ctrlMsg' = [ctrlMsg EXCEPT ![p] = Nothing]
          /\ UNCHANGED <<recvPC, recvMsg, wires, inBox, sendMtx>>
      BY <1>10 DEF CtrlEnqueue
    <2>2. BoxHolds(ctrlBox', "CONFIRM")
      BY <1>0, <2>1, PutIs, HandlerFacts DEF Boxes
    <2>3. Wires' /\ Boxes'
      BY <1>0, <2>1, <2>2, WiresStay DEF Boxes, BoxHolds, Mail, Keys
    <2>4. HandlersOK(p)'
      BY <1>0, <1>3, <2>1 DEF HandlersOK, Mail, Others
    <2>5. QED BY <1>0, <1>2, <2>1, <2>3, <2>4 DEF Others, HandlersSame
  <1>11. QED BY <1>4, <1>5, <1>6, <1>7, <1>8, <1>9, <1>10 DEF HandleRecv, HandleCtrl

LEMMA InitShape == Init => Shape
  <1> SUFFICES ASSUME Init PROVE Shape
    OBVIOUS
  <1>1. UserTypes /\ Others
    BY EmptySeq DEF Init, UserTypes, Others, UserPCs
  <1>2. Wires /\ Boxes
    BY EmptySeq DEF Init, Wires, WireHolds, Boxes, BoxHolds, Keys
  <1>3. ASSUME NEW p \in Peers PROVE UserOK(p) /\ HandlersOK(p)
    <2>1. Len(Program(p)) \in Nat /\ Cardinality(Drawn(p)) \in Nat
      BY <1>3, ProgramFacts, DrawnFacts DEF Init
    <2>2. QED BY <1>3, <2>1 DEF Init, UserOK, HandlersOK
  <1>4. QED BY <1>1, <1>2, <1>3 DEF Shape, Threads

LEMMA StutterShape == Shape /\ UNCHANGED vars => Shape'
  <1> SUFFICES ASSUME Shape, UNCHANGED vars PROVE Shape'
    OBVIOUS
  <1>1. UserTypes' /\ Others'
    BY DEF Shape, UserTypes, Others, vars, userVars, handlers, history
  <1>2. Wires' /\ Boxes'
    BY WiresStay, BoxesStay DEF Shape, vars
  <1>3. Threads'
    BY UserStays, HandlersStay DEF Shape, Threads, vars, userVars, handlers, UserSame, HandlersSame
  <1>4. QED BY <1>1, <1>2, <1>3 DEF Shape

\* The types of the state, and what every thread has in its hands at each step:
\* a message that is sent, filed or put back is of the kind that belongs there.
THEOREM ShapeInvariant == Spec => []Shape
  <1>1. Shape /\ [Next]_vars => Shape'
    BY UserStepShape, HandlerShape, StutterShape DEF Next, Thread
  <1>2. QED BY <1>1, InitShape, PTL DEF Spec

\* The types of the state: connections and boxes hold messages with keys of the
\* right length, and every thread is somewhere in its program.
THEOREM TypeCorrect == Spec => []TypeOK
  <1>1. Shape => TypeOK
    BY DEF Shape, UserTypes, Others, Wires, WireHolds, Boxes, BoxHolds, TypeOK
  <1>2. QED BY <1>1, ShapeInvariant, PTL

-----------------------------------------------------------------------------
(* Message ids.                                                            *)

LEMMA AppendFacts ==
    ASSUME NEW S, NEW s \in Seq(S), NEW m \in S
    PROVE  /\ Len(s) \in Nat /\ DOMAIN s = 1 .. Len(s) /\ Len(s) + 1 \notin DOMAIN s
           /\ Append(s, m) \in Seq(S) /\ Len(Append(s, m)) = Len(s) + 1
           /\ DOMAIN Append(s, m) = DOMAIN s \cup {Len(s) + 1}
           /\ Append(s, m)[Len(s) + 1] = m
           /\ \A i \in DOMAIN s : Append(s, m)[i] = s[i] /\ s[i] \in S /\ i < Len(s) + 1
  <1>1. Len(s) \in Nat /\ DOMAIN s = 1 .. Len(s) /\ \A i \in 1 .. Len(s) : s[i] \in S
    BY LenProperties, ElementOfSeq
  <1>2. /\ Append(s, m) \in Seq(S) /\ Len(Append(s, m)) = Len(s) + 1
        /\ \A i \in 1 .. Len(s) : Append(s, m)[i] = s[i]
        /\ Append(s, m)[Len(s) + 1] = m
    BY AppendProperties
  <1>3. DOMAIN Append(s, m) = 1 .. Len(s) + 1
    BY <1>2, LenProperties
  <1>4. QED BY <1>1, <1>2, <1>3

LEMMA IdsStay ==
    ASSUME Shape, NEW p \in Peers, IdsOK(p), sent'[p] = sent[p],
           NextSent(p)' \in Nat, NextSent(p)' >= NextSent(p), NextSent(p)' <= maxMsgID'[p],
           Pending(p)' => out'[p].id < maxMsgID'[p]
    PROVE  IdsOK(p)'
  <1>1. \A q \in Peers : SentIds(p, q)' = SentIds(p, q)
    BY DEF SentIds
  <1>2. \A q \in Peers : \A i \in DOMAIN sent[p][q] : sent[p][q][i].id \in Nat
    <2>1. SUFFICES ASSUME NEW q \in Peers, NEW i \in DOMAIN sent[p][q]
                   PROVE  sent[p][q][i].id \in Nat
      OBVIOUS
    <2>2. sent[p][q] \in Seq([id : MsgIDs, tag : Tags])
      BY DEF Shape, Others
    <2>3. sent[p][q][i] \in [id : MsgIDs, tag : Tags]
      BY <2>2, ElementOfSeq, LenProperties
    <2>4. QED BY <2>3, PeersAssumption
  <1>3. \A q \in Peers : \A i \in DOMAIN sent'[p][q] : sent'[p][q][i].id < NextSent(p)'
    <2>1. \A n \in Nat : n < NextSent(p) => n < NextSent(p)'
      BY DEF IdsOK
    <2>2. QED BY <1>2, <2>1 DEF IdsOK
  <1>4. QED BY <1>1, <1>3 DEF IdsOK

LEMMA SameIds ==
    ASSUME NEW p, IdsOK(p), sent'[p] = sent[p], UserSame(p)
    PROVE  IdsOK(p)'
  <1>1. (Pending(p)' <=> Pending(p)) /\ NextSent(p)' = NextSent(p) /\ out'[p] = out[p]
    BY DEF UserSame, NextSent, Pending
  <1>2. \A q \in Peers : SentIds(p, q)' = SentIds(p, q)
    BY DEF SentIds
  <1>3. maxMsgID'[p] = maxMsgID[p]
    BY DEF UserSame
  <1>4. QED BY <1>1, <1>2, <1>3 DEF IdsOK

Ascending(s) == \A i, j \in DOMAIN s : i < j => s[i].id < s[j].id
IdsIn(s) == {s[i].id : i \in DOMAIN s}
AtMost(s, n) == \A i \in DOMAIN s : s[i].id <= n /\ s[i].id \in Nat
Items == [id : MsgIDs, tag : Tags]
Below(s, n) == \A i \in DOMAIN s : s[i].id < n

\* A larger id at the end keeps a stream ascending.
LEMMA AscendingAppend ==
    ASSUME NEW s \in Seq(Items), NEW m \in Items,
           Below(s, m.id), Ascending(s), NEW t, t = Append(s, m)
    PROVE  Ascending(t) /\ AtMost(t, m.id) /\ IdsIn(t) = IdsIn(s) \cup {m.id}
  <1>0. m.id \in Nat /\ \A x \in Items : x.id \in Nat
    BY PeersAssumption DEF Items
  <1>1. PICK n : n = Len(s) + 1
    OBVIOUS
  <1>2. /\ Len(s) \in Nat /\ DOMAIN s = 1 .. Len(s) /\ n \notin DOMAIN s
        /\ DOMAIN t = DOMAIN s \cup {n} /\ t[n] = m
        /\ \A i \in DOMAIN s : t[i] = s[i] /\ s[i] \in Items /\ i < n /\ i \in Nat
    <2>1. /\ Len(s) \in Nat /\ DOMAIN s = 1 .. Len(s) /\ Len(s) + 1 \notin DOMAIN s
          /\ DOMAIN Append(s, m) = DOMAIN s \cup {Len(s) + 1}
          /\ Append(s, m)[Len(s) + 1] = m
          /\ \A i \in DOMAIN s : Append(s, m)[i] = s[i] /\ s[i] \in Items /\ i < Len(s) + 1
      BY AppendFacts
    <2>2. QED BY <1>1, <2>1
  <1>3. AtMost(t, m.id)
    BY <1>0, <1>2 DEF Below, AtMost
  <1>4. Ascending(t)
    <2>1. SUFFICES ASSUME NEW i \in DOMAIN t, NEW j \in DOMAIN t, i < j PROVE t[i].id < t[j].id
      BY DEF Ascending
    <2>2. i \in DOMAIN s
      BY <1>1, <1>2, <2>1
    <2>3. CASE j \in DOMAIN s
      BY <1>2, <2>1, <2>2, <2>3 DEF Ascending
    <2>4. CASE j = n
      BY <1>2, <2>2, <2>4 DEF Below
    <2>5. QED BY <1>2, <2>3, <2>4
  <1>5. IdsIn(t) = IdsIn(s) \cup {m.id}
    BY <1>2 DEF IdsIn
  <1>6. QED BY <1>3, <1>4, <1>5

\* The id that is sent next is larger than those sent before.
LEMMA TransmitIds ==
    ASSUME Shape, NEW p \in Peers, IdsOK(p), Transmit(p)
    PROVE  /\ IdsOK(p)'
           /\ \A q \in Peers : out[p].id \notin SentIds(p, q)
           /\ \A q \in Peers : SentIds(p, q)' =
                IF q = event[p].peer THEN SentIds(p, q) \cup {out[p].id} ELSE SentIds(p, q)
  <1>0. PICK r, m : r = event[p].peer /\ m = [id |-> out[p].id, tag |-> out[p].tag]
    OBVIOUS
  <1>1. /\ r \in Peers /\ m \in [id : MsgIDs, tag : Tags] /\ m.id = out[p].id /\ m.id \in Nat
        /\ Pending(p)
    BY <1>0, TransmitFacts, PeersAssumption DEF Mail
  <1>2. /\ sent' = [sent EXCEPT ![p][r] = Append(@, m)] /\ maxMsgID' = maxMsgID
        /\ maxMsgID[p] \in Nat /\ ~Pending(p)'
        /\ sent \in [Peers -> [Peers -> Seq([id : MsgIDs, tag : Tags])]]
    <2>1. /\ sent' = [sent EXCEPT ![p][r] = Append(@, m)] /\ maxMsgID' = maxMsgID
          /\ userPC' = [userPC EXCEPT ![p] = "dequeue"] \/ userPC' = [userPC EXCEPT ![p] = "idle"]
      BY <1>0 DEF Transmit, GotoUser
    <2>2. ~Pending(p)'
      BY <2>1 DEF Pending, Shape, UserTypes
    <2>3. QED BY <2>1, <2>2 DEF Shape, Others, UserTypes
  <1>3. NextSent(p) = m.id /\ m.id < maxMsgID[p] /\ NextSent(p)' = maxMsgID[p]
    BY <1>1, <1>2 DEF IdsOK, NextSent
  <1>4. PICK s, t : s = sent[p][r] /\ t = Append(s, m)
    OBVIOUS
  <1>5. /\ s \in Seq([id : MsgIDs, tag : Tags])
        /\ sent'[p][r] = t /\ \A q \in Peers \ {r} : sent'[p][q] = sent[p][q]
    BY <1>1, <1>2, <1>4
  <1>6. Below(s, m.id) /\ Ascending(s)
    BY <1>1, <1>3, <1>4 DEF IdsOK, Below, Ascending
  <1>7. Ascending(t) /\ AtMost(t, m.id) /\ IdsIn(t) = IdsIn(s) \cup {m.id}
    <2>1. s \in Seq(Items) /\ m \in Items /\ t = Append(s, m)
      BY <1>1, <1>4, <1>5 DEF Items
    <2>2. QED BY <1>6, <2>1, AscendingAppend
  <1>8. \A q \in Peers : m.id \notin SentIds(p, q)
    <2>1. \A q \in Peers : \A i \in DOMAIN sent[p][q] : sent[p][q][i].id < m.id
      BY <1>3 DEF IdsOK
    <2>2. \A q \in Peers : \A i \in DOMAIN sent[p][q] : sent[p][q][i].id # m.id
      BY <1>1, <2>1
    <2>3. QED BY <2>2 DEF SentIds
  <1>9. /\ \A q \in Peers \ {r} : SentIds(p, q)' = SentIds(p, q)
        /\ SentIds(p, r)' = SentIds(p, r) \cup {m.id}
    <2>1. SentIds(p, r)' = IdsIn(t) /\ SentIds(p, r) = IdsIn(s)
      BY <1>4, <1>5 DEF SentIds, IdsIn
    <2>2. \A q \in Peers \ {r} : SentIds(p, q)' = SentIds(p, q)
      BY <1>5 DEF SentIds
    <2>3. QED BY <1>7, <2>1, <2>2
  <1>10. \A q \in Peers : \A i \in DOMAIN sent'[p][q] : sent'[p][q][i].id < NextSent(p)'
    <2>1. \A i \in DOMAIN t : t[i].id < maxMsgID[p]
      BY <1>1, <1>2, <1>3, <1>7 DEF AtMost
    <2>2. ASSUME NEW q \in Peers, q # r, NEW i \in DOMAIN sent[p][q] PROVE sent[p][q][i].id < maxMsgID[p]
      <3>1. sent[p][q][i].id < m.id
        BY <1>3, <2>2 DEF IdsOK
      <3>2. sent[p][q] \in Seq([id : MsgIDs, tag : Tags])
        BY <1>2
      <3>3. sent[p][q][i].id \in Nat
        <4>1. sent[p][q][i] \in [id : MsgIDs, tag : Tags]
          BY <2>2, <3>2, ElementOfSeq, LenProperties
        <4>2. QED BY <4>1, PeersAssumption
      <3>4. QED BY <1>1, <1>2, <1>3, <3>1, <3>3
    <2>3. QED BY <1>3, <1>5, <2>1, <2>2
  <1>11. \A q \in Peers : \A i, j \in DOMAIN sent'[p][q] : i < j => sent'[p][q][i].id < sent'[p][q][j].id
    BY <1>5, <1>7 DEF IdsOK, Ascending
  <1>12. \A q, x \in Peers : q # x => SentIds(p, q)' \cap SentIds(p, x)' = {}
    BY <1>8, <1>9 DEF IdsOK
  <1>13. IdsOK(p)'
    <2>1. maxMsgID'[p] = maxMsgID[p] /\ NextSent(p)' \in Nat /\ NextSent(p)' <= maxMsgID'[p]
      BY <1>2, <1>3
    <2>2. QED BY <1>2, <1>10, <1>11, <1>12, <2>1 DEF IdsOK
  <1>14. QED BY <1>0, <1>1, <1>8, <1>9, <1>13

\* A user step other than Transmit sends nothing.
LEMMA SendsNothing ==
    ASSUME Shape, NEW p \in Peers, UserStep(p), ~Transmit(p)
    PROVE  sent' = sent
  BY UserEffects DEF TakeMessage, TransmitDestruct, TransmitDestructCtrl, DequeueConfirm, PutBack, history

LEMMA UserStepIds ==
    ASSUME Shape, NEW p \in Peers, IdsOK(p), UserStep(p), setup' = setup
    PROVE  IdsOK(p)'
  <1>0. /\ maxMsgID \in [Peers -> Nat] /\ userPC \in [Peers -> UserPCs]
        /\ out \in [Peers -> Messages \cup {Nothing}]
        /\ maxMsgID[p] \in Nat
    BY DEF Shape, UserTypes
  <1>1. CASE Transmit(p)
    BY <1>1, TransmitIds
  <1>2. CASE ~Transmit(p) /\ Pending(p)
    <2>1. UserLock(p)
      BY <1>2, MailIsMessage
         DEF UserStep, Calls, SendCall, RecvCall, EventCall, AsyncRecv, DestroyCall, Start, Pending,
             TransmitDestruct, TransmitDestructCtrl, Join, Recv, RecvAny, Poll,
             DequeueConfirm, PutBackCheck, PutBack
    <2>2. UNCHANGED <<sent, out, maxMsgID>> /\ userPC'[p] = "transmit"
      BY <1>0, <2>1 DEF UserLock, GotoUser, history
    <2>3. Pending(p)' /\ NextSent(p)' = NextSent(p)
      BY <1>2, <2>2 DEF Pending, NextSent
    <2>4. QED BY <1>0, <1>2, <2>2, <2>3, IdsStay DEF IdsOK
  <1>3. CASE ~Transmit(p) /\ ~Pending(p)
    <2>1. sent' = sent /\ NextSent(p) = maxMsgID[p]
      BY <1>3, SendsNothing DEF NextSent
    <2>2. CASE \E c : SendCall(p, c)
      <3>1. PICK c : SendCall(p, c)
        BY <2>2
      <3>2. /\ maxMsgID'[p] = maxMsgID[p] + 1
            /\ out'[p] = Message("PEER", maxMsgID[p], p, c.tag) /\ userPC'[p] = "lock"
        BY <1>0, <3>1 DEF SendCall, NextMsgID, GotoUser
      <3>3. Pending(p)' /\ out'[p].id = maxMsgID[p] /\ NextSent(p)' = maxMsgID[p]
        BY <3>2 DEF Pending, NextSent, Message
      <3>4. QED BY <1>0, <2>1, <3>2, <3>3, IdsStay
    <2>3. CASE ~\E c : SendCall(p, c)
      <3>1. ~Pending(p)'
        <4>1. CASE Calls(p)
          <5>1. PICK c : RecvCall(p, c) \/ EventCall(p, c) \/ AsyncRecv(p, c) \/ DestroyCall(p, c)
            BY <2>3, <4>1 DEF Calls
          <5>2. CASE DestroyCall(p, c)
            BY <1>0, <5>2 DEF DestroyCall, Message, Pending
          <5>3. CASE AsyncRecv(p, c)
            BY <5>3 DEF AsyncRecv, Start, Pending
          <5>4. CASE RecvCall(p, c) \/ EventCall(p, c)
            <6>1. userPC'[p] \notin {"lock", "transmit"}
              BY <1>0, <5>4 DEF RecvCall, EventCall, GotoUser
            <6>2. QED BY <6>1 DEF Pending
          <5>5. QED BY <5>1, <5>2, <5>3, <5>4
        <4>2. CASE UserLock(p)
          BY <1>3, <4>2 DEF UserLock, Pending
        <4>3. CASE /\ ~Calls(p) /\ ~UserLock(p)
          <5>1. userPC'[p] \notin {"lock", "transmit"}
            BY <1>0, <1>3, <4>3 DEF UserStep, GotoUser, TransmitDestruct, TransmitDestructCtrl, Join,
               Recv, RecvAny, Poll, DequeueConfirm, PutBackCheck, PutBack
          <5>2. QED BY <5>1 DEF Pending
        <4>4. QED BY <4>1, <4>2, <4>3
      <3>2. maxMsgID'[p] \in {maxMsgID[p], maxMsgID[p] + 1}
        <4>1. UNCHANGED maxMsgID \/ NextMsgID(p)
          BY <1>3, <2>3 DEF UserStep, Calls, RecvCall, EventCall, AsyncRecv, DestroyCall, UserLock,
             TransmitDestruct, TransmitDestructCtrl, Join, Recv, RecvAny, Poll,
             DequeueConfirm, PutBackCheck, PutBack
        <4>2. QED BY <1>0, <4>1 DEF NextMsgID
      <3>3. NextSent(p)' = maxMsgID'[p] /\ maxMsgID'[p] \in Nat /\ maxMsgID'[p] >= maxMsgID[p]
        BY <1>0, <3>1, <3>2 DEF NextSent
      <3>4. QED BY <2>1, <3>1, <3>3, IdsStay
    <2>4. QED BY <2>2, <2>3
  <1>4. QED BY <1>1, <1>2, <1>3

\* What a peer has sent carries ascending ids, below the one it sends next.
THEOREM MessageIDsInvariant == Spec => []MessageIDs
  <1>1. Init => MessageIDs
    <2>1. SUFFICES ASSUME Init, NEW p \in Peers PROVE IdsOK(p)
      BY DEF MessageIDs
    <2>2. \A q \in Peers : sent[p][q] = <<>> /\ DOMAIN sent[p][q] = {}
      <3>1. \A q \in Peers : sent[p][q] = <<>>
        BY <2>1 DEF Init
      <3>2. DOMAIN <<>> = {}
        OBVIOUS
      <3>3. QED BY <3>1, <3>2
    <2>3. NextSent(p) = 0 /\ maxMsgID[p] = 0 /\ ~Pending(p)
      <3>1. maxMsgID[p] = 0 /\ userPC[p] = "idle"
        BY <2>1 DEF Init
      <3>2. QED BY <3>1 DEF NextSent, Pending
    <2>4. QED BY <2>2, <2>3 DEF IdsOK, SentIds
  <1>2. Shape /\ MessageIDs /\ [Next]_vars => MessageIDs'
    <2>1. SUFFICES ASSUME Shape, MessageIDs, [Next]_vars, NEW x \in Peers PROVE IdsOK(x)'
      BY DEF MessageIDs
    <2>2. IdsOK(x)
      BY <2>1 DEF MessageIDs
    <2>3. ASSUME NEW p \in Peers, UserStep(p), setup' = setup PROVE IdsOK(x)'
      <3>1. CASE x = p
        BY <2>1, <2>2, <2>3, <3>1, UserStepIds
      <3>2. CASE x # p
        <4>1. UserSame(x)
          BY <2>1, <2>3, <3>2, CallsKeepUser, UserStepKeepsUser DEF UserStep, UserKept
        <4>2. sent'[x] = sent[x]
          <5>1. CASE Transmit(p)
            BY <2>1, <3>2, <5>1 DEF Transmit, Shape, Others
          <5>2. CASE ~Transmit(p)
            BY <2>1, <2>3, <5>2, SendsNothing
          <5>3. QED BY <5>1, <5>2
        <4>3. QED BY <2>2, <4>1, <4>2, SameIds
      <3>3. QED BY <3>1, <3>2
    <2>4. ASSUME NEW p \in Peers, HandleRecv(p) \/ HandleCtrl(p) PROVE IdsOK(x)'
      <3>1. UNCHANGED <<userVars, sent>>
        BY <2>4 DEF HandleRecv, RecvFromSocket, ConfirmLock, Confirm, Enqueue,
                    HandleCtrl, CtrlFromSocket, CtrlCheck, CtrlEnqueue, history
      <3>2. QED BY <2>2, <3>1, SameIds DEF userVars, UserSame
    <2>5. CASE UNCHANGED vars
      BY <2>2, <2>5, SameIds DEF vars, userVars, history, UserSame
    <2>6. QED BY <2>1, <2>3, <2>4, <2>5 DEF Next, Thread
  <1>3. QED BY <1>1, <1>2, ShapeInvariant, PTL DEF Spec
=============================================================================
