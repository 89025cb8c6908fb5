---------------------------- MODULE MCPeerToPeer ----------------------------
(* Setups of two peers for TLC.                                             *)
EXTENDS PeerToPeer

Op(op, q, g) == [op |-> op, peer |-> q, tag |-> g]
OnEvent(op) == [op |-> op]
Setup(zero, one, hwm, box) ==
    [program |-> [p \in 0 .. 1 |-> <<zero, one>>[p + 1]], hwm |-> hwm, inBox |-> box, ctrlBox |-> box]

\* Peer 0 sends and asks for its events, peer 1 receives in every way and asks
\* for its events as well; everything holds one message.
Mixed ==
    Setup(<<{Op("asyncSend", 1, 1)},
            {Op("asyncSend", 1, 1), Op("asyncSend", 1, 2)},
            {Op("send", 1, 1), OnEvent("wait"), OnEvent("ready")}>>,
          <<{Op("asyncSend", 0, 1), Op("asyncRecv", 0, 1)},
            {Op("recvAny", 0, 1), OnEvent("wait"), OnEvent("ready")},
            {Op("recv", 0, 1), OnEvent("ready")}>>,
          1, 1)

\* Both peers send twice, receive twice, wait for their two events in either
\* order and are destroyed.
ExchangeProgram(q) ==
    <<{Op("asyncSend", q, 1)}, {Op("asyncSend", q, 1)}, {Op("recv", q, 1)}, {Op("recv", q, 1)},
      {OnEvent("wait")}, {OnEvent("wait")}, {OnEvent("destroy")}>>
Exchange == Setup(ExchangeProgram(1), ExchangeProgram(0), 2, 2)

\* Peer 0 receives from any what peer 1 and itself send.
FanIn ==
    Setup(<<{Op("asyncSend", 0, 1)}, {Op("recvAny", 0, 1)}, {Op("recvAny", 0, 1)}, {OnEvent("destroy")}>>,
          <<{Op("send", 0, 2)}, {OnEvent("destroy")}>>, 1, 2)

MCSetups == {Mixed, Exchange, FanIn}

\* Both peers send three messages without waiting for anything; inBox has room
\* for all.
FloodProgram(q) == [n \in 1 .. 3 |-> {Op("asyncSend", q, 1)}]
Flood == {Setup(FloodProgram(1), FloodProgram(0), 1, 3)}
=============================================================================
