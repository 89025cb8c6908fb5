----------------------------- MODULE PeerToPeer -----------------------------
(***************************************************************************)
(* Point-to-point communication of the socket communication policy:        *)
(* socket::Base (include/graybat/communicationPolicy/socket/Base.hpp) over *)
(* the sockets of ZMQ.hpp, with the events of zmq/Event.hpp.               *)
(*                                                                         *)
(* Every peer runs three threads: the user thread, which executes a        *)
(* program of calls, recvHandler, which confirms what arrives on the data  *)
(* socket and files it in inBox, and ctrlHandler, which files what arrives *)
(* on the control socket in ctrlBox.  The user thread and recvHandler      *)
(* share the sockets to the other peers under sendMtx, which they hold     *)
(* while a socket blocks.                                                  *)
(*                                                                         *)
(* A PUSH socket and the PULL socket it is connected to are one first-in   *)
(* first-out channel that holds at most HWM messages; a PULL socket picks  *)
(* any of its channels.  A box is atomic here (module MessageBox proves    *)
(* that it may be) and its size is counted in messages.  All peers share   *)
(* one context; splitContext is not part of this module.                   *)
(***************************************************************************)
EXTENDS Integers, Sequences, FiniteSets

CONSTANTS
    Peers,          \* the vAddrs of the context
    Tags,
    Setups,         \* [program, hwm, inBox, ctrlBox]
    MsgIDs,         \* message ids; longer programs would wrap the unsigned
    Nothing

ASSUME PeersAssumption ==
    Peers \subseteq Nat /\ IsFiniteSet(Peers) /\ MsgIDs \subseteq Nat /\ 0 \in MsgIDs

Ops == {"send", "asyncSend", "recv", "recvAny", "asyncRecv", "wait", "ready", "destroy"}
IsCall(c) ==
    /\ c.op \in Ops
    /\ c.op \in {"send", "asyncSend", "recv", "asyncRecv"} => c.peer \in Peers /\ c.tag \in Tags

\* The calls of a program, by their number, that may draw a message id.
Drawing(calls) ==
    {n \in 1 .. Len(calls) :
       \E c \in calls[n] : c.op \in {"send", "asyncSend", "recvAny", "asyncRecv"}}

\* program[p][n] are the calls peer p may make as its n-th; a connection holds
\* hwm messages before send blocks, inBox and ctrlBox as many as their names say.
ASSUME SetupsAssumption ==
    \A s \in Setups :
      /\ DOMAIN s.program = Peers
      /\ \A p \in Peers :
           /\ Len(s.program[p]) \in Nat
           /\ 0 .. Cardinality(Drawing(s.program[p])) - 1 \subseteq MsgIDs
           /\ \A n \in 1 .. Len(s.program[p]) : \A c \in s.program[p][n] : IsCall(c)
      /\ {s.hwm, s.inBox, s.ctrlBox} \subseteq Nat \ {0}

VARIABLES
    setup,
    maxMsgID,   \* the next message id of each peer
    sendMtx,    \* the thread that holds sendMtx, {} if none
    data, ctrl, \* data[p][q], ctrl[p][q]: what p has sent to q's two sockets
    inBox, ctrlBox,
    recvPC, recvMsg,  \* recvHandler and the message it works on
    ctrlPC, ctrlMsg,  \* ctrlHandler and the message it works on
    userPC, call,     \* the user thread and the call it executes
    out,        \* the message the user thread sends or puts back
    event,      \* the event the user thread works on
    events,     \* the unfinished events the user thread holds
    made,       \* the number of calls made
    sent, taken, completed  \* what was sent, received, and finished so far

wires == <<data, ctrl>>
boxes == <<inBox, ctrlBox>>
handlers == <<recvPC, recvMsg, ctrlPC, ctrlMsg>>
history == <<sent, taken, completed>>
userVars == <<userPC, call, out, event, events, made, maxMsgID>>
vars == <<setup, userVars, handlers, wires, boxes, sendMtx, history>>

Keys == Peers \X Tags
HWM == setup.hwm
Program(p) == setup.program[p]

Messages == [type : {"PEER", "CONFIRM", "DESTRUCT"}, id : MsgIDs, src : Peers, tag : Tags \cup {0}]
ASSUME NothingAssumption == Nothing \notin Messages

Message(type, id, src, tag) == [type |-> type, id |-> id, src |-> src, tag |-> tag]
Key(m) == <<m.src, m.tag>>

\* The two kinds of events: of a send (no buffer) and of a receive.
SendEvent(id, q, g) == [kind |-> "send", id |-> id, peer |-> q, tag |-> g]
RecvEvent(id, q, g) == [kind |-> "recv", id |-> id, peer |-> q, tag |-> g]

Put(box, p, m) == [box EXCEPT ![p][Key(m)] = Append(@, m)]
Pop(box, p, k) == [box EXCEPT ![p][k] = Tail(@)]
Count(box) == Cardinality(UNION {{k} \X DOMAIN box[k] : k \in Keys})

\* socket.send blocks while the connection is full.
Push(wire, p, q, m) ==
    /\ Len(wire[p][q]) < HWM
    /\ wire' = [wire EXCEPT ![p][q] = Append(@, m)]

\* Mutation: the mutex does not exclude.
LockTogether(p, thread) == sendMtx' = [sendMtx EXCEPT ![p] = @ \cup {thread}]

Lock(p, thread) ==
    /\ sendMtx[p] = {}
    /\ sendMtx' = [sendMtx EXCEPT ![p] = {thread}]
Unlock(p) == sendMtx' = [sendMtx EXCEPT ![p] = {}]

GotoUser(p, label) == userPC' = [userPC EXCEPT ![p] = label]

-----------------------------------------------------------------------------
Init ==
    /\ setup \in Setups
    /\ maxMsgID = [p \in Peers |-> 0]
    /\ sendMtx = [p \in Peers |-> {}]
    /\ data = [p \in Peers |-> [q \in Peers |-> <<>>]]
    /\ ctrl = [p \in Peers |-> [q \in Peers |-> <<>>]]
    /\ inBox = [p \in Peers |-> [k \in Keys |-> <<>>]]
    /\ ctrlBox = [p \in Peers |-> [k \in Keys |-> <<>>]]
    /\ recvPC = [p \in Peers |-> "recv"] /\ recvMsg = [p \in Peers |-> Nothing]
    /\ ctrlPC = [p \in Peers |-> "recv"] /\ ctrlMsg = [p \in Peers |-> Nothing]
    /\ userPC = [p \in Peers |-> "idle"] /\ call = [p \in Peers |-> Nothing]
    /\ out = [p \in Peers |-> Nothing]
    /\ event = [p \in Peers |-> Nothing]
    /\ events = [p \in Peers |-> {}]
    /\ made = [p \in Peers |-> 0]
    /\ sent = [p \in Peers |-> [q \in Peers |-> <<>>]]
    /\ taken = [p \in Peers |-> [q \in Peers |-> {}]]
    /\ completed = [p \in Peers |-> {}]

-----------------------------------------------------------------------------
(* Calls of the user thread.                                               *)

Start(p, c) ==
    /\ userPC[p] = "idle"
    /\ made[p] < Len(Program(p)) /\ c \in Program(p)[made[p] + 1]
    /\ made' = [made EXCEPT ![p] = @ + 1]
    /\ call' = [call EXCEPT ![p] = c]

\* getMsgID
NextMsgID(p) == maxMsgID' = [maxMsgID EXCEPT ![p] = @ + 1]

\* send and asyncSend
SendCall(p, c) ==
    /\ c.op \in {"send", "asyncSend"}
    /\ Start(p, c)
    /\ NextMsgID(p)
    /\ out' = [out EXCEPT ![p] = Message("PEER", maxMsgID[p], p, c.tag)]
    /\ event' = [event EXCEPT ![p] = SendEvent(maxMsgID[p], c.peer, c.tag)]
    /\ GotoUser(p, "lock")
    /\ UNCHANGED <<events, handlers, wires, boxes, sendMtx, history>>

\* recv from one peer and tag, or from any
RecvCall(p, c) ==
    /\ c.op \in {"recv", "recvAny"}
    /\ Start(p, c)
    /\ GotoUser(p, c.op)
    /\ UNCHANGED <<maxMsgID, out, event, events, handlers, wires, boxes, sendMtx, history>>

\* wait or ready of an event; a finished event answers without a step
EventCall(p, c) ==
    /\ c.op \in {"wait", "ready"}
    /\ Start(p, c)
    /\ \E e \in events[p] :
         /\ event' = [event EXCEPT ![p] = e]
         /\ \/ e.kind = "send" /\ GotoUser(p, "dequeue")
            \/ e.kind = "recv" /\ GotoUser(p, "poll")
    /\ UNCHANGED <<maxMsgID, out, events, handlers, wires, boxes, sendMtx, history>>

\* the destructor
DestroyCall(p, c) ==
    /\ c.op = "destroy"
    /\ Start(p, c)
    /\ out' = [out EXCEPT ![p] = Message("DESTRUCT", 0, p, 0)]
    /\ GotoUser(p, "lock")
    /\ UNCHANGED <<maxMsgID, event, events, handlers, wires, boxes, sendMtx, history>>

-----------------------------------------------------------------------------
(* asyncSendImpl in the user thread, and the joins of deinit.              *)

UserLock(p) ==
    /\ userPC[p] = "lock"
    /\ Lock(p, "user")
    /\ GotoUser(p, "transmit")
    /\ UNCHANGED <<call, out, event, events, made, maxMsgID, handlers, wires, boxes, history>>

Transmit(p) ==
    /\ userPC[p] = "transmit" /\ out[p].type = "PEER"
    /\ LET q == event[p].peer IN
         /\ Push(data, p, q, out[p])
         /\ sent' = [sent EXCEPT ![p][q] = Append(@, [id |-> out[p].id, tag |-> out[p].tag])]
    /\ Unlock(p)
    /\ \/ /\ call[p].op = "send"
          /\ GotoUser(p, "dequeue")
          /\ UNCHANGED events
       \/ /\ call[p].op = "asyncSend"
          /\ GotoUser(p, "idle")
          /\ events' = [events EXCEPT ![p] = @ \cup {event[p]}]
    /\ out' = [out EXCEPT ![p] = Nothing]
    /\ UNCHANGED <<call, event, made, maxMsgID, handlers, ctrl, boxes, taken, completed>>

\* DESTRUCT goes to the peer's own two sockets, in one critical section.
TransmitDestruct(p) ==
    /\ userPC[p] = "transmit" /\ out[p].type = "DESTRUCT"
    /\ Push(data, p, p, out[p])
    /\ GotoUser(p, "transmitCtrl")
    /\ UNCHANGED <<call, out, event, events, made, maxMsgID, handlers, ctrl, boxes, sendMtx, history>>

TransmitDestructCtrl(p) ==
    /\ userPC[p] = "transmitCtrl"
    /\ Push(ctrl, p, p, out[p])
    /\ Unlock(p)
    /\ out' = [out EXCEPT ![p] = Nothing]
    /\ GotoUser(p, "join")
    /\ UNCHANGED <<call, event, events, made, maxMsgID, handlers, data, boxes, history>>

Join(p) ==
    /\ userPC[p] = "join"
    /\ recvPC[p] = "stopped" /\ ctrlPC[p] = "stopped"
    /\ GotoUser(p, "gone")
    /\ UNCHANGED <<call, out, event, events, made, maxMsgID, handlers, wires, boxes, sendMtx, history>>

-----------------------------------------------------------------------------
(* Receives.                                                               *)

\* The oldest message under key k leaves inBox for the user.
TakeMessage(p, k) ==
    /\ inBox[p][k] # <<>>
    /\ inBox' = Pop(inBox, p, k)
    /\ taken' = [taken EXCEPT ![p][k[1]] = @ \cup {Head(inBox[p][k]).id}]
    /\ UNCHANGED <<ctrlBox, sent, completed>>

Recv(p) ==
    /\ userPC[p] = "recv"
    /\ TakeMessage(p, <<call[p].peer, call[p].tag>>)
    /\ GotoUser(p, "idle")
    /\ UNCHANGED <<call, out, event, events, made, maxMsgID, handlers, wires, sendMtx>>

\* The event of a receive from any peer is built like that of a send.
RecvAny(p) ==
    /\ userPC[p] = "recvAny"
    /\ \E k \in Keys :
         /\ TakeMessage(p, k)
         /\ events' = [events EXCEPT ![p] = @ \cup {SendEvent(maxMsgID[p], k[1], k[2])}]
    /\ NextMsgID(p)
    /\ GotoUser(p, "idle")
    /\ UNCHANGED <<call, out, event, made, handlers, wires, sendMtx>>

\* asyncRecv tries once; its event is finished if it found a message.
AsyncRecv(p, c) ==
    /\ c.op = "asyncRecv"
    /\ Start(p, c)
    /\ NextMsgID(p)
    /\ LET k == <<c.peer, c.tag>> IN
         \/ TakeMessage(p, k) /\ UNCHANGED events
         \/ /\ inBox[p][k] = <<>>
            /\ events' = [events EXCEPT ![p] = @ \cup {RecvEvent(maxMsgID[p], c.peer, c.tag)}]
            /\ UNCHANGED <<boxes, history>>
    /\ UNCHANGED <<userPC, out, event, handlers, wires, sendMtx>>

\* ready, or one round of wait, on the event of an asyncRecv.
Poll(p) ==
    /\ userPC[p] = "poll"
    /\ LET k == <<event[p].peer, event[p].tag>> IN
         \/ /\ TakeMessage(p, k)
            /\ events' = [events EXCEPT ![p] = @ \ {event[p]}]
         \/ /\ inBox[p][k] = <<>> /\ call[p].op = "ready"
            /\ UNCHANGED <<events, boxes, history>>
    /\ GotoUser(p, "idle")
    /\ UNCHANGED <<call, out, event, made, maxMsgID, handlers, wires, sendMtx>>

-----------------------------------------------------------------------------
(* Base::ready: take a confirmation from ctrlBox, and put back another's.  *)

\* Mutation: the confirmation of another event is dropped.
DequeueConfirmAndDrop(p) ==
    /\ userPC[p] = "dequeue"
    /\ LET k == <<event[p].peer, event[p].tag>> IN
         /\ ctrlBox[p][k] # <<>>
         /\ ctrlBox' = Pop(ctrlBox, p, k)
         /\ \/ /\ Head(ctrlBox[p][k]).id = event[p].id
               /\ completed' = [completed EXCEPT ![p] = @ \cup {event[p].id}]
               /\ events' = [events EXCEPT ![p] = @ \ {event[p]}]
               /\ GotoUser(p, "idle")
            \/ /\ Head(ctrlBox[p][k]).id # event[p].id
               /\ GotoUser(p, IF call[p].op = "ready" THEN "idle" ELSE "dequeue")
               /\ UNCHANGED <<completed, events>>
    /\ UNCHANGED <<call, out, event, made, maxMsgID, handlers, wires, inBox, sendMtx, sent, taken>>

\* Mutation: any confirmation of the same peer and tag finishes the event.
DequeueAnyConfirm(p) ==
    /\ userPC[p] = "dequeue"
    /\ LET k == <<event[p].peer, event[p].tag>> IN
         /\ ctrlBox[p][k] # <<>>
         /\ ctrlBox' = Pop(ctrlBox, p, k)
    /\ completed' = [completed EXCEPT ![p] = @ \cup {event[p].id}]
    /\ events' = [events EXCEPT ![p] = @ \ {event[p]}]
    /\ GotoUser(p, "idle")
    /\ UNCHANGED <<call, out, event, made, maxMsgID, handlers, wires, inBox, sendMtx, sent, taken>>

DequeueConfirm(p) ==
    /\ userPC[p] = "dequeue"
    /\ LET k == <<event[p].peer, event[p].tag>> IN
         /\ ctrlBox[p][k] # <<>>
         /\ ctrlBox' = Pop(ctrlBox, p, k)
         /\ \/ /\ Head(ctrlBox[p][k]).id = event[p].id
               /\ completed' = [completed EXCEPT ![p] = @ \cup {event[p].id}]
               /\ events' = [events EXCEPT ![p] = @ \ {event[p]}]
               /\ GotoUser(p, "idle")
               /\ UNCHANGED out
            \/ /\ Head(ctrlBox[p][k]).id # event[p].id
               /\ out' = [out EXCEPT ![p] = Head(ctrlBox[p][k])]
               /\ GotoUser(p, "checkSize")
               /\ UNCHANGED <<completed, events>>
    /\ UNCHANGED <<call, event, made, maxMsgID, handlers, wires, inBox, sendMtx, sent, taken>>

PutBackCheck(p) ==
    /\ userPC[p] = "checkSize"
    /\ Count(ctrlBox[p]) < setup.ctrlBox
    /\ GotoUser(p, "putBack")
    /\ UNCHANGED <<call, out, event, events, made, maxMsgID, handlers, wires, boxes, sendMtx, history>>

\* ready returns false, wait asks again.
PutBack(p) ==
    /\ userPC[p] = "putBack"
    /\ ctrlBox' = Put(ctrlBox, p, out[p])
    /\ out' = [out EXCEPT ![p] = Nothing]
    /\ GotoUser(p, IF call[p].op = "ready" THEN "idle" ELSE "dequeue")
    /\ UNCHANGED <<call, event, events, made, maxMsgID, handlers, wires, inBox, sendMtx, history>>

-----------------------------------------------------------------------------
(* handleRecv                                                              *)

GotoRecv(p, label) == recvPC' = [recvPC EXCEPT ![p] = label]

RecvFromSocket(p, q) ==
    /\ recvPC[p] = "recv"
    /\ data[q][p] # <<>>
    /\ data' = [data EXCEPT ![q][p] = Tail(@)]
    /\ LET m == Head(data[q][p]) IN
         \/ /\ m.type = "DESTRUCT"
            /\ GotoRecv(p, "stopped")
            /\ UNCHANGED recvMsg
         \/ /\ m.type = "PEER"
            /\ GotoRecv(p, "lock")
            /\ recvMsg' = [recvMsg EXCEPT ![p] = m]
    /\ UNCHANGED <<ctrlPC, ctrlMsg, ctrl, boxes, sendMtx, history, userVars>>

ConfirmLock(p) ==
    /\ recvPC[p] = "lock"
    /\ Lock(p, "recvHandler")
    /\ GotoRecv(p, "confirm")
    /\ UNCHANGED <<recvMsg, ctrlPC, ctrlMsg, wires, boxes, history, userVars>>

\* Mutation: a message is filed without being confirmed.
ConfirmNothing(p) ==
    /\ recvPC[p] = "confirm"
    /\ Unlock(p)
    /\ GotoRecv(p, "enqueue")
    /\ UNCHANGED <<recvMsg, ctrlPC, ctrlMsg, wires, boxes, history, userVars>>

\* The confirmation leaves before the message is in inBox.
Confirm(p) ==
    /\ recvPC[p] = "confirm"
    /\ LET m == recvMsg[p] IN Push(ctrl, p, m.src, Message("CONFIRM", m.id, p, m.tag))
    /\ Unlock(p)
    /\ GotoRecv(p, "enqueue")
    /\ UNCHANGED <<recvMsg, ctrlPC, ctrlMsg, data, boxes, history, userVars>>

\* Mutation: a full box drops the message instead of waiting.
EnqueueOrDrop(p) ==
    /\ recvPC[p] = "enqueue"
    /\ inBox' = IF Count(inBox[p]) < setup.inBox THEN Put(inBox, p, recvMsg[p]) ELSE inBox
    /\ recvMsg' = [recvMsg EXCEPT ![p] = Nothing]
    /\ GotoRecv(p, "recv")
    /\ UNCHANGED <<ctrlPC, ctrlMsg, wires, ctrlBox, sendMtx, history, userVars>>

Enqueue(p) ==
    /\ recvPC[p] = "enqueue"
    /\ Count(inBox[p]) < setup.inBox
    /\ inBox' = Put(inBox, p, recvMsg[p])
    /\ recvMsg' = [recvMsg EXCEPT ![p] = Nothing]
    /\ GotoRecv(p, "recv")
    /\ UNCHANGED <<ctrlPC, ctrlMsg, wires, ctrlBox, sendMtx, history, userVars>>

-----------------------------------------------------------------------------
(* handleCtrl.  Its enqueue competes with the one of Base::ready, so the   *)
(* check of the size and the push are two steps.                           *)

CtrlFromSocket(p, q) ==
    /\ ctrlPC[p] = "recv"
    /\ ctrl[q][p] # <<>>
    /\ ctrl' = [ctrl EXCEPT ![q][p] = Tail(@)]
    /\ LET m == Head(ctrl[q][p]) IN
         \/ /\ m.type = "DESTRUCT"
            /\ ctrlPC' = [ctrlPC EXCEPT ![p] = "stopped"]
            /\ UNCHANGED ctrlMsg
         \/ /\ m.type = "CONFIRM"
            /\ ctrlPC' = [ctrlPC EXCEPT ![p] = "checkSize"]
            /\ ctrlMsg' = [ctrlMsg EXCEPT ![p] = m]
    /\ UNCHANGED <<recvPC, recvMsg, data, boxes, sendMtx, history, userVars>>

CtrlCheck(p) ==
    /\ ctrlPC[p] = "checkSize"
    /\ Count(ctrlBox[p]) < setup.ctrlBox
    /\ ctrlPC' = [ctrlPC EXCEPT ![p] = "enqueue"]
    /\ UNCHANGED <<recvPC, recvMsg, ctrlMsg, wires, boxes, sendMtx, history, userVars>>

CtrlEnqueue(p) ==
    /\ ctrlPC[p] = "enqueue"
    /\ ctrlBox' = Put(ctrlBox, p, ctrlMsg[p])
    /\ ctrlMsg' = [ctrlMsg EXCEPT ![p] = Nothing]
    /\ ctrlPC' = [ctrlPC EXCEPT ![p] = "recv"]
    /\ UNCHANGED <<recvPC, recvMsg, wires, inBox, sendMtx, history, userVars>>

-----------------------------------------------------------------------------
Calls(p) ==
    \E c \in UNION {Program(p)[n] : n \in DOMAIN Program(p)} :
      SendCall(p, c) \/ RecvCall(p, c) \/ EventCall(p, c) \/ AsyncRecv(p, c) \/ DestroyCall(p, c)

UserStep(p) ==
    \/ Calls(p)
    \/ UserLock(p) \/ Transmit(p) \/ TransmitDestruct(p) \/ TransmitDestructCtrl(p) \/ Join(p)
    \/ Recv(p) \/ RecvAny(p) \/ Poll(p)
    \/ DequeueConfirm(p) \/ PutBackCheck(p) \/ PutBack(p)

HandleRecv(p) ==
    \/ \E q \in Peers : RecvFromSocket(p, q)
    \/ ConfirmLock(p) \/ Confirm(p) \/ Enqueue(p)

HandleCtrl(p) ==
    \/ \E q \in Peers : CtrlFromSocket(p, q)
    \/ CtrlCheck(p) \/ CtrlEnqueue(p)

\* The steps of a thread; peers do not change what they execute.
Thread(Step(_), p) == Step(p) /\ UNCHANGED setup

Next == \E p \in Peers : Thread(UserStep, p) \/ Thread(HandleRecv, p) \/ Thread(HandleCtrl, p)

Spec == Init /\ [][Next]_vars

\* The three threads of a peer run, and the user thread runs its program.
Fairness ==
    \A p \in Peers :
      /\ WF_vars(Thread(UserStep, p))
      /\ WF_vars(Thread(HandleRecv, p))
      /\ WF_vars(Thread(HandleCtrl, p))

FairSpec == Spec /\ Fairness

-----------------------------------------------------------------------------
(* Properties                                                              *)

Events == [kind : {"send", "recv"}, id : MsgIDs, peer : Peers, tag : Tags]
UserPCs == {"idle", "lock", "transmit", "transmitCtrl", "join", "gone", "recv", "recvAny",
            "poll", "dequeue", "checkSize", "putBack"}

\* The types of the state.
TypeOK ==
    /\ maxMsgID \in [Peers -> Nat]
    /\ sendMtx \in [Peers -> {{}, {"user"}, {"recvHandler"}}]
    /\ {data, ctrl} \subseteq [Peers -> [Peers -> Seq(Messages)]]
    /\ {inBox, ctrlBox} \subseteq [Peers -> [Keys -> Seq(Messages)]]
    /\ recvPC \in [Peers -> {"recv", "lock", "confirm", "enqueue", "stopped"}]
    /\ ctrlPC \in [Peers -> {"recv", "checkSize", "enqueue", "stopped"}]
    /\ {recvMsg, ctrlMsg, out} \subseteq [Peers -> Messages \cup {Nothing}]
    /\ userPC \in [Peers -> UserPCs]
    /\ event \in [Peers -> Events \cup {Nothing}]
    /\ events \in [Peers -> SUBSET Events]
    /\ sent \in [Peers -> [Peers -> Seq([id : MsgIDs, tag : Tags])]]
    /\ taken \in [Peers -> [Peers -> SUBSET MsgIDs]]
    /\ completed \in [Peers -> SUBSET MsgIDs]

\* The places of a message or a confirmation, as pairs of a place and an id.
Ids(s, type, place) == {<<place, i, s[i].id>> : i \in {j \in DOMAIN s : s[j].type = type}}
Hand(m, type, place) == IF m # Nothing /\ m.type = type THEN {<<place, 0, m.id>>} ELSE {}

SentIds(p, q) == {sent[p][q][i].id : i \in DOMAIN sent[p][q]}

\* Messages from p to q that recvHandler of q has not confirmed.
Unconfirmed(p, q) ==
    Ids(data[p][q], "PEER", <<"data", 0>>)
    \cup IF recvPC[q] \in {"lock", "confirm"} /\ recvMsg[q].src = p
         THEN {<<<<"hand", 0>>, 0, recvMsg[q].id>>} ELSE {}

\* Those it has confirmed and the user thread of q has not received.
Arrived(p, q) ==
    (UNION {Ids(inBox[q][<<p, g>>], "PEER", <<"inBox", g>>) : g \in Tags})
    \cup IF recvPC[q] = "enqueue" /\ recvMsg[q].src = p
         THEN {<<<<"hand", 0>>, 0, recvMsg[q].id>>} ELSE {}

\* Confirmations of q on their way to the user thread of p.
Confirming(p, q) ==
    Ids(ctrl[q][p], "CONFIRM", <<"ctrl", 0>>)
    \cup (UNION {Ids(ctrlBox[p][<<q, g>>], "CONFIRM", <<"ctrlBox", g>>) : g \in Tags})
    \cup {x \in Hand(ctrlMsg[p], "CONFIRM", <<"ctrlHandler", 0>>) : ctrlMsg[p].src = q}
    \cup {x \in Hand(out[p], "CONFIRM", <<"user", 0>>) : out[p].src = q}

IdOf(P) == {x[3] : x \in P}

\* Every message is at exactly one place between the sender's socket and the
\* receiving user, whatever blocks, and however calls interleave.
ExactlyOnce ==
    \A p, q \in Peers :
      LET P == Unconfirmed(p, q) \cup Arrived(p, q) IN
        /\ SentIds(p, q) = IdOf(P) \cup taken[q][p]
        /\ Len(sent[p][q]) = Cardinality(P) + Cardinality(taken[q][p])

\* Every message owes its sender exactly one confirmation until its event is
\* finished: none is lost when Base::ready puts one back, and none arrives
\* twice.
OneConfirmation ==
    \A p, q \in Peers :
      LET P == Unconfirmed(p, q) \cup Confirming(p, q)
          D == completed[p] \cap SentIds(p, q)
      IN  /\ SentIds(p, q) = IdOf(P) \cup D
          /\ Len(sent[p][q]) = Cardinality(P) + Cardinality(D)

\* Messages of one peer and tag are received in the order they were sent, and
\* send events finish only after their message was accepted: see Transport.
Abstract == INSTANCE Transport WITH
    accepted <- [q \in Peers |-> [p \in Peers |->
                   Len(sent[p][q]) - Cardinality(Unconfirmed(p, q))]]
ImplementsTransport == Abstract!Spec

\* The calls of p that are C.
CallsOf(p, C(_)) == {n \in DOMAIN Program(p) : \A c \in Program(p)[n] : C(c)}
Sends(p, q, G) ==
    CallsOf(p, LAMBDA c : c.op \in {"send", "asyncSend"} /\ c.peer = q /\ c.tag \in G)
Recvs(p, q, G) == CallsOf(p, LAMBDA c : c.op = "recv" /\ c.peer = q /\ c.tag \in G)
Of(p, op) == CallsOf(p, LAMBDA c : c.op = op)
Sum(F(_)) == Cardinality(UNION {{q} \X F(q) : q \in Peers})

\* Sends and receives match, the receives name their source and tag or none
\* does, a peer waits for sends only and ends with its destruction, and the
\* messages and confirmations that can be outstanding fit into the connections
\* and boxes.
Fits ==
    /\ \A p \in Peers : \A n \in DOMAIN Program(p) : Cardinality(Program(p)[n]) = 1
    /\ \A p \in Peers :
         /\ \/ \A q \in Peers : \A g \in Tags :
                 Cardinality(Recvs(p, q, {g})) = Cardinality(Sends(q, p, {g}))
            \/ /\ Cardinality(Of(p, "recvAny")) = Sum(LAMBDA q : Sends(q, p, Tags))
               /\ Of(p, "recv") = {} /\ Of(p, "wait") = {}
         /\ Of(p, "asyncRecv") \cup Of(p, "ready") = {}
         /\ \A n \in Of(p, "wait") :
              Cardinality(Of(p, "wait") \cap (1 .. n)) <= Cardinality(Of(p, "asyncSend") \cap (1 .. n))
         /\ Of(p, "destroy") = {Len(Program(p))} \ {0}
         /\ \A q \in Peers : Cardinality(Sends(p, q, Tags)) + Cardinality(Of(p, "destroy")) <= HWM + 1
         /\ Sum(LAMBDA q : Sends(q, p, Tags)) <= setup.inBox
         /\ Sum(LAMBDA q : Sends(p, q, Tags)) <= setup.ctrlBox

\* A program whose sends and receives match, and whose outstanding messages fit
\* into the connections and boxes, runs to its end: every wait returns, in
\* whatever order events are waited for, and every destructor joins its threads.
Terminates == Fits ~> (\A p \in Peers : Program(p) # <<>> => userPC[p] = "gone")

\* Base.hpp:141, "Non blocking transmission of a message": asyncSend returns
\* whatever the other peers' user threads do.
AsyncSendReturns ==
    \A p \in Peers :
      (userPC[p] \in {"lock", "transmit"} /\ call[p].op = "asyncSend") ~> userPC[p] = "idle"
=============================================================================
