------------------------------ MODULE Signaling ------------------------------
(***************************************************************************)
(* How processes become the peers of a context: the signaling server       *)
(* (utils/zmq_signaling_server.cpp) and the bootstrap of a process         *)
(* (socket::Base::init and deinit).                                        *)
(*                                                                         *)
(* A process has one REQ socket to the server, so at most one request or   *)
(* reply is on its wire.  The server answers requests one at a time, in    *)
(* any order.  deinit sends DESTRUCT and does not wait for the reply, so   *)
(* it may be served long after the process is gone.  A process binds an    *)
(* address no live process is bound to, which a dead one may have used.    *)
(* The server never dies, and a process dies only by its destructor.       *)
(***************************************************************************)
EXTENDS Integers, Sequences, FiniteSets

CONSTANTS
    Processes,
    Names, NameOf,  \* the contextName a process is configured with
    ContextSize,    \* the number of peers each process expects in its context
    Uris,           \* the addresses processes can bind
    Launches,       \* ways to launch them: functions like the variable after
    None

ASSUME SignalingAssumption ==
    /\ IsFiniteSet(Processes)
    /\ NameOf \in [Processes -> Names]
    /\ ContextSize \in Nat \ {0}
    /\ Launches \subseteq [Processes -> SUBSET Processes]
    /\ None \notin Uris

VARIABLES
    after,        \* after[p]: the processes whose end the launcher awaits before p
    contextIds,   \* server: [Names -> the id registered for a name, -1 if none]
    maxContextID, \* server: the next id
    phoneBook,    \* server: [context id -> Seq(Uris)], vAddr v at position v + 1
    wire,         \* the request or reply on the wire of a process
    pc,           \* where each process is in init, "gone" after its destructor
    uri,          \* the address of a process
    contextID, vAddr, \* what the process has been told
    book          \* the process's own phone book: [vAddr -> Uris \cup {None}]

server == <<contextIds, maxContextID, phoneBook>>
process == <<after, pc, uri, contextID, vAddr, book>>
vars == <<server, wire, process>>

ContextIDs == 0 .. Cardinality(Processes) - 1
VAddrs == 0 .. ContextSize - 1
Alive(p) == pc[p] \notin {"off", "gone"}

NoMessage == [type |-> "NONE"]
Request(type, arg) == [type |-> type, arg |-> arg]
Reply(value) == [type |-> "REPLY", value |-> value]

Init ==
    /\ after \in Launches
    /\ contextIds = [n \in Names |-> -1]
    /\ maxContextID = 0
    /\ phoneBook = [c \in ContextIDs |-> <<>>]
    /\ wire = [p \in Processes |-> NoMessage]
    /\ pc = [p \in Processes |-> "off"]
    /\ uri = [p \in Processes |-> None]
    /\ contextID = [p \in Processes |-> -1]
    /\ vAddr = [p \in Processes |-> -1]
    /\ book = [p \in Processes |-> [v \in VAddrs |-> None]]

-----------------------------------------------------------------------------
(* The server.                                                             *)

Answer(p, value) == wire' = [wire EXCEPT ![p] = Reply(value)]

\* Mutation: a name that is known gets a new context, too.
AlwaysNewContext(p) ==
    /\ wire[p].type = "CONTEXT_REQUEST"
    /\ Answer(p, maxContextID)
    /\ contextIds' = [contextIds EXCEPT ![wire[p].arg] = maxContextID]
    /\ maxContextID' = maxContextID + 1
    /\ UNCHANGED <<phoneBook, process>>

ContextRequest(p) ==
    /\ wire[p].type = "CONTEXT_REQUEST"
    /\ LET name == wire[p].arg IN
         \/ /\ contextIds[name] # -1
            /\ Answer(p, contextIds[name])
            /\ UNCHANGED server
         \/ /\ contextIds[name] = -1
            /\ Answer(p, maxContextID)
            /\ contextIds' = [contextIds EXCEPT ![name] = maxContextID]
            /\ maxContextID' = maxContextID + 1
            /\ UNCHANGED phoneBook
    /\ UNCHANGED process

\* Mutation: the vAddr is read before the process is entered.
VAddrBeforePush(p) ==
    /\ wire[p].type = "VADDR_REQUEST"
    /\ LET c == wire[p].arg.context IN
         /\ phoneBook' = [phoneBook EXCEPT ![c] = Append(@, wire[p].arg.uri)]
         /\ Answer(p, IF phoneBook[c] = <<>> THEN 0 ELSE Len(phoneBook[c]) - 1)
    /\ UNCHANGED <<contextIds, maxContextID, process>>

\* Mutation: the vAddr is the number of peers instead of the last index.
VAddrOffByOne(p) ==
    /\ wire[p].type = "VADDR_REQUEST"
    /\ LET c == wire[p].arg.context IN
         /\ phoneBook' = [phoneBook EXCEPT ![c] = Append(@, wire[p].arg.uri)]
         /\ Answer(p, Len(phoneBook[c]) + 1)
    /\ UNCHANGED <<contextIds, maxContextID, process>>

VAddrRequest(p) ==
    /\ wire[p].type = "VADDR_REQUEST"
    /\ LET c == wire[p].arg.context IN
         /\ phoneBook' = [phoneBook EXCEPT ![c] = Append(@, wire[p].arg.uri)]
         /\ Answer(p, Len(phoneBook[c]))
    /\ UNCHANGED <<contextIds, maxContextID, process>>

\* None stands for RETRY.
VAddrLookup(p) ==
    /\ wire[p].type = "VADDR_LOOKUP"
    /\ LET c == wire[p].arg.context
           v == wire[p].arg.vAddr
       IN  \/ v < Len(phoneBook[c]) /\ Answer(p, phoneBook[c][v + 1])
           \/ v >= Len(phoneBook[c]) /\ Answer(p, None)
    /\ UNCHANGED <<server, process>>

\* Mutation: the name stays registered.
KeepName(p) ==
    /\ wire[p].type = "DESTRUCT"
    /\ wire' = [wire EXCEPT ![p] = NoMessage]
    /\ UNCHANGED <<server, process>>

\* The name is forgotten, whichever context it stands for by now; nobody
\* receives the reply.
Destruct(p) ==
    /\ wire[p].type = "DESTRUCT"
    /\ contextIds' = [contextIds EXCEPT ![wire[p].arg] = -1]
    /\ wire' = [wire EXCEPT ![p] = NoMessage]
    /\ UNCHANGED <<maxContextID, phoneBook, process>>

-----------------------------------------------------------------------------
(* A process.                                                              *)

\* The end of p has been seen by the server.
Ended(p) == pc[p] = "gone" /\ wire[p] = NoMessage

\* The constructor: bind an address, ask for the context.
Launch(p) ==
    /\ pc[p] = "off"
    /\ \A q \in after[p] : Ended(q)
    /\ \E u \in Uris \ {uri[q] : q \in {r \in Processes : Alive(r)}} :
         uri' = [uri EXCEPT ![p] = u]
    /\ pc' = [pc EXCEPT ![p] = "context"]
    /\ wire' = [wire EXCEPT ![p] = Request("CONTEXT_REQUEST", NameOf[p])]
    /\ UNCHANGED <<server, after, contextID, vAddr, book>>

\* getContextID returns, getVAddr asks.
GotContext(p) ==
    /\ pc[p] = "context" /\ wire[p].type = "REPLY"
    /\ contextID' = [contextID EXCEPT ![p] = wire[p].value]
    /\ wire' = [wire EXCEPT ![p] =
                  Request("VADDR_REQUEST", [context |-> wire[p].value, uri |-> uri[p]])]
    /\ pc' = [pc EXCEPT ![p] = "vAddr"]
    /\ UNCHANGED <<server, after, uri, vAddr, book>>

Ask(p, v) ==
    wire' = [wire EXCEPT ![p] =
               Request("VADDR_LOOKUP", [context |-> contextID[p], vAddr |-> v])]

\* getVAddr returns, getUri asks for the first peer.
GotVAddr(p) ==
    /\ pc[p] = "vAddr" /\ wire[p].type = "REPLY"
    /\ vAddr' = [vAddr EXCEPT ![p] = wire[p].value]
    /\ Ask(p, 0)
    /\ pc' = [pc EXCEPT ![p] = "lookup"]
    /\ UNCHANGED <<server, after, uri, contextID, book>>

\* The peer whose address is asked for: the first without one.
NextVAddr(p) == Cardinality({v \in VAddrs : book[p][v] # None})

\* getUri asks again after RETRY; after the last address the sockets are
\* connected and the handlers started.
GotUri(p) ==
    /\ pc[p] = "lookup" /\ wire[p].type = "REPLY"
    /\ LET v == NextVAddr(p) IN
         \/ /\ wire[p].value = None
            /\ Ask(p, v)
            /\ UNCHANGED <<pc, book>>
         \/ /\ wire[p].value # None
            /\ book' = [book EXCEPT ![p][v] = wire[p].value]
            /\ \/ v + 1 < ContextSize /\ Ask(p, v + 1) /\ UNCHANGED pc
               \/ /\ v + 1 = ContextSize
                  /\ pc' = [pc EXCEPT ![p] = "running"]
                  /\ wire' = [wire EXCEPT ![p] = NoMessage]
    /\ UNCHANGED <<server, after, uri, contextID, vAddr>>

\* deinit: the peer's own handlers stop (module PeerToPeer).
Deinit(p) ==
    /\ pc[p] = "running"
    /\ pc' = [pc EXCEPT ![p] = "gone"]
    /\ wire' = [wire EXCEPT ![p] = Request("DESTRUCT", NameOf[p])]
    /\ UNCHANGED <<server, after, uri, contextID, vAddr, book>>

Serve(p) == ContextRequest(p) \/ VAddrRequest(p) \/ VAddrLookup(p) \/ Destruct(p)
Continue(p) == GotContext(p) \/ GotVAddr(p) \/ GotUri(p)

Next == \E p \in Processes : Launch(p) \/ Serve(p) \/ Continue(p) \/ Deinit(p)

Spec == Init /\ [][Next]_vars

\* The server serves every process (ZMQ_REP queues its clients fairly),
\* processes go on, and the launcher starts what it may start.
Fairness ==
    \A p \in Processes : WF_vars(Serve(p)) /\ WF_vars(Continue(p)) /\ WF_vars(Launch(p))

FairSpec == Spec /\ Fairness /\ \A p \in Processes : WF_vars(Deinit(p))

-----------------------------------------------------------------------------
(* Properties                                                              *)

\* The types of the state; a vAddr is a position in the server's book.
TypeOK ==
    /\ after \in Launches
    /\ contextIds \in [Names -> ContextIDs \cup {-1}]
    /\ maxContextID \in 0 .. Cardinality(Processes)
    /\ phoneBook \in [ContextIDs -> Seq(Uris)]
    /\ pc \in [Processes -> {"off", "context", "vAddr", "lookup", "running", "gone"}]
    /\ uri \in [Processes -> Uris \cup {None}]
    /\ contextID \in [Processes -> ContextIDs \cup {-1}]
    /\ vAddr \in [Processes -> Int]
    /\ \A p \in Processes :
         vAddr[p] # -1 => vAddr[p] \in 0 .. Len(phoneBook[contextID[p]]) - 1
    /\ book \in [Processes -> [VAddrs -> Uris \cup {None}]]

Members(c) == {p \in Processes : contextID[p] = c /\ vAddr[p] # -1}

\* No two members of a context have the same vAddr, at whatever time, restarted
\* or surplus, they asked for it.
VAddrsUnique ==
    \A c \in ContextIDs : \A p, q \in Members(c) : vAddr[p] = vAddr[q] => p = q

\* Every address in the phone book of a process is that of the one member of
\* its context with that vAddr: messages never go to a process of an earlier
\* generation, although names and addresses are used again.
BooksAreRight ==
    \A p \in Processes : \A v \in VAddrs :
      book[p][v] # None =>
        \E q \in Processes : /\ contextID[q] = contextID[p]
                             /\ phoneBook[contextID[p]][v + 1] = uri[q]
                             /\ book[p][v] = uri[q]
                             /\ vAddr[q] \in {v, -1}

\* The processes launched together with p, under the same name.
Generation(p) == {q \in Processes : NameOf[q] = NameOf[p] /\ after[q] = after[p]}

\* Every name is used by one full generation after the other.
Orderly ==
    \A p \in Processes :
      /\ Cardinality(Generation(p)) = ContextSize
      /\ \A q \in Processes \ Generation(p) :
           NameOf[q] = NameOf[p] => Generation(p) \subseteq after[q] \/ Generation(q) \subseteq after[p]

\* A process that completed init is one of the peers it expects, under its own
\* address: without that its destructor could not stop its own handlers.
FindsItself ==
    Orderly => \A p \in Processes :
      pc[p] = "running" => vAddr[p] \in VAddrs /\ book[p][vAddr[p]] = uri[p]

\* Every launched group completes its initialisation, one generation after the
\* other, although names and addresses are used again.
GroupForms ==
    \A p \in Processes : (Orderly /\ pc[p] = "context") ~> (pc[p] = "running")
=============================================================================
