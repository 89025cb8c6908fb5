--------------------------------- MODULE BMPI ---------------------------------
(***************************************************************************)
(* The communication policy on top of MPI (communicationPolicy/BMPI.hpp,   *)
(* with the contexts and events of communicationPolicy/bmpi).              *)
(*                                                                         *)
(* Every peer executes a program: a sequence of statements, which are the  *)
(* calls of the policy and assignments to the caller's buffers.  A call    *)
(* that blocks replaces itself by what is left of it.                      *)
(*                                                                         *)
(* MPI is external: messages of one sender, receiver, communicator and tag *)
(* do not overtake each other; a message is either copied when it is sent  *)
(* (eager) or read from the sender's buffer when a receive has been found  *)
(* for it (rendezvous), as MPI decides by its size; and the n-th           *)
(* collective operations of all processes of a communicator belong         *)
(* together.  A buffer that is no longer there reads as None.              *)
(***************************************************************************)
EXTENDS Integers, Sequences, FiniteSets
LOCAL INSTANCE SequencesExt

CONSTANTS
    Plans,  \* a sequence of [programs, eager, keeps, sendsToItself, results]
    None

\* What messages carry: the uris of splitContext, the vertices of announce, and
\* the data of the program.
Kinds == {"uri", "announcement", "data"}

\* eager has the kinds of messages MPI copies, and keeps those of which the
\* program does not touch a buffer before its send is over; sendsToItself tells
\* whether a peer sends to itself and blocks; results is what the buffers of a
\* peer are to hold when its program ends.
ASSUME PlansAssumption ==
    \A p \in ToSet(Plans) :
      /\ DOMAIN p.programs = 0 .. Cardinality(DOMAIN p.programs) - 1
      /\ DOMAIN p.results = DOMAIN p.programs
      /\ p.eager \subseteq Kinds /\ p.keeps \subseteq Kinds /\ p.sendsToItself \in BOOLEAN

VARIABLES
    chosen,        \* the plan, by its place in Plans
    todo,          \* the statements a peer has left
    memory,        \* memory[p]: the buffers of p that are alive
    contexts,      \* the contexts p has, by the names its program gives them
    contextCount, uriMap,
    events,        \* the vectors of events of the program and of splitContext
    status,        \* of the last receive from any peer
    requests,      \* how many requests a peer has made
    finished,      \* those that are finished
    sent,          \* sent[s][d]: messages of s no receive has been found for
    posted,        \* posted[d]: receives no message has been found for
    joined         \* joined[p]: what p has brought into each communicator's
                   \* collective operations, in order

books == <<contexts, contextCount, uriMap>>
mpi == <<requests, finished, sent, posted, joined>>
vars == <<chosen, todo, memory, books, events, status, mpi>>

plan == Plans[chosen]
Peers == DOMAIN plan.programs

\* Maps grow as std::map does.
Put(map, k, value) == [x \in DOMAIN map \cup {k} |-> IF x = k THEN value ELSE map[x]]
Get(map, k, default) == IF k \in DOMAIN map THEN map[k] ELSE default

-----------------------------------------------------------------------------
(* Statements.  vec is the vector an event is appended to, None if the     *)
(* event is dropped.                                                       *)

Send(c, v, tag, buf) ==
    [op |-> "send", context |-> c, vAddr |-> v, tag |-> tag, buf |-> buf, kind |-> "data"]
AsyncSend(c, v, tag, buf, kind, vec) ==
    [op |-> "asyncSend", context |-> c, vAddr |-> v, tag |-> tag, buf |-> buf, kind |-> kind, events |-> vec]
Recv(c, v, tag, buf) == [op |-> "recv", context |-> c, vAddr |-> v, tag |-> tag, buf |-> buf]
AsyncRecv(c, v, tag, buf, vec) ==
    [op |-> "asyncRecv", context |-> c, vAddr |-> v, tag |-> tag, buf |-> buf, events |-> vec]
RecvAny(c, buf) == [op |-> "recvAny", context |-> c, buf |-> buf]
\* Send to the peer and with the tag inverse maps the last status to.
Reply(c, buf, inverse) == [op |-> "reply", context |-> c, buf |-> buf, inverse |-> inverse]
\* for(i = 0; i < events.size(); ++i){ events.back().wait(); events.pop_back(); }
WaitLoop(vec, i) == [op |-> "waitLoop", events |-> vec, i |-> i]
\* Wait for all events, in the order they are ready.
WaitAll(vec) == [op |-> "waitAll", events |-> vec]
Split(isMember, old, new) ==
    [op |-> "split", kind |-> "split", isMember |-> isMember, context |-> old, new |-> new]
Collective(kind, c, root, buf, into, count) ==
    [op |-> "collective", kind |-> kind, context |-> c, vAddr |-> root, buf |-> buf, into |-> into, count |-> count]
\* kind is "gatherv" or "allGatherv".
CollectiveVar(kind, c, root, buf, into) == [Collective(kind, c, root, buf, into, 0) EXCEPT !.op = "collectiveVar"]
\* buf = the concatenation of parts, each [value] or [buf]; the end of bufs.
Assign(buf, parts) == [op |-> "assign", buf |-> buf, parts |-> parts]
Value(tokens) == [value |-> tokens]
Buf(buf) == [buf |-> buf]
Free(bufs) == [op |-> "free", bufs |-> bufs]

\* The collective operations with a root.
Rooted == {"gather", "gatherv", "scatter", "reduce", "broadcast"}

\* What is left of a call.
Await(request) == [op |-> "await", request |-> request]
RecvRank(comm, rank, tag, buf) ==
    [op |-> "recvRank", comm |-> comm, rank |-> rank, tag |-> tag, buf |-> buf]
EnterUri(id, v, buf) == [op |-> "enterUri", id |-> id, vAddr |-> v, buf |-> buf]
Enter(new, context) == [op |-> "enter", new |-> new, context |-> context]
Complete(s, comm, n, root) == [op |-> "complete", call |-> s, comm |-> comm, n |-> n, root |-> root]

-----------------------------------------------------------------------------
(* Communicators and contexts.  A communicator is the sequence of its      *)
(* processes, with the splits it comes from as its name.                   *)

Size(comm) == Len(comm.group)
Ranks(comm) == 0 .. Size(comm) - 1
Process(comm, rank) == comm.group[rank + 1]
Rank(comm, p) == CHOOSE r \in Ranks(comm) : Process(comm, r) = p
World == [name |-> <<>>, group |-> [r \in 1 .. Cardinality(Peers) |-> r - 1]]

Context(id, comm) == [id |-> id, valid |-> TRUE, comm |-> comm]
\* Context(): its communicator is the default one, MPI_COMM_WORLD.
InvalidContext == [id |-> 0, valid |-> FALSE, comm |-> World]

Init ==
    /\ chosen \in DOMAIN Plans
    /\ todo = plan.programs
    /\ memory = [p \in Peers |-> <<>>]
    /\ contexts = [p \in Peers |-> [c \in {"global"} |-> Context(0, World)]]
    /\ contextCount = [p \in Peers |-> 0]
    /\ uriMap = [p \in Peers |-> <<[v \in 1 .. Cardinality(Peers) |-> v - 1]>>]
    /\ events = [p \in Peers |-> <<>>]
    /\ status = [p \in Peers |-> None]
    /\ requests = [p \in Peers |-> 0]
    /\ finished = [p \in Peers |-> {}]
    /\ sent = [s \in Peers |-> [d \in Peers |-> <<>>]]
    /\ posted = [d \in Peers |-> <<>>]
    /\ joined = [p \in Peers |-> <<>>]

Statement(p) == Head(todo[p])
Doing(p, op) == todo[p] # <<>> /\ Statement(p).op = op
\* The statement is over, up to what is left of it.
Then(p, statements) == todo' = [todo EXCEPT ![p] = statements \o Tail(@)]

Read(p, buf) == Get(memory[p], buf, <<None>>)
Write(p, buf, tokens) == memory' = [memory EXCEPT ![p] = Put(@, buf, tokens)]

Comm(p, c) == contexts[p][c].comm
Uris(p, c) ==
    LET id == contexts[p][c].id IN IF id + 1 \in DOMAIN uriMap[p] THEN uriMap[p][id + 1] ELSE <<>>
getVAddrUri(p, c, v) == Uris(p, c)[v + 1]
\* The vAddr has a uri in the context, and the uri is one.
HasUri(p, c, v) == v + 1 \in DOMAIN Uris(p, c) /\ getVAddrUri(p, c, v) \in Ranks(Comm(p, c))

-----------------------------------------------------------------------------
(* Requests of MPI.                                                        *)

NextRequest(p) == requests[p] + 1
MakeRequest(p) == requests' = [requests EXCEPT ![p] = @ + 1]
Keep(p, vec, made) ==
    events' = IF vec = None THEN events ELSE [events EXCEPT ![p] = Put(@, vec, Get(@, vec, <<>>) \o made)]

Message(p, comm, tag, buf, content, kind, request) ==
    [comm |-> comm.name, tag |-> tag, buf |-> buf, content |-> content,
     eager |-> kind \in plan.eager, request |-> request]

\* isend; the request of an eager message is finished at once
Isend(p, comm, rank, s) ==
    /\ MakeRequest(p)
    /\ sent' = [sent EXCEPT ![p][Process(comm, rank)] =
         Append(@, Message(p, comm, s.tag, s.buf, Read(p, s.buf), s.kind, NextRequest(p)))]
    /\ finished' = IF s.kind \in plan.eager
                   THEN [finished EXCEPT ![p] = @ \cup {NextRequest(p)}] ELSE finished

Irecv(p, comm, rank, tag, buf) ==
    /\ MakeRequest(p)
    /\ posted' = [posted EXCEPT ![p] =
         Append(@, [comm |-> comm.name, source |-> Process(comm, rank), tag |-> tag, buf |-> buf,
                    request |-> NextRequest(p)])]

Matches(r, s, m) == r.source = s /\ r.comm = m.comm /\ r.tag = m.tag

\* The first receive of d that matches the first such message of s gets it.
Deliver(s, d) ==
    \E i \in DOMAIN posted[d], j \in DOMAIN sent[s][d] :
      LET r == posted[d][i]
          m == sent[s][d][j]
      IN  /\ Matches(r, s, m)
          /\ \A h \in 1 .. i - 1 : ~Matches(posted[d][h], s, m)
          /\ \A h \in 1 .. j - 1 : ~Matches(r, s, sent[s][d][h])
          /\ posted' = [posted EXCEPT ![d] = RemoveAt(@, i)]
          /\ sent' = [sent EXCEPT ![s][d] = RemoveAt(@, j)]
          /\ Write(d, r.buf, IF m.eager THEN m.content ELSE Read(s, m.buf))
          /\ finished' = [p \in Peers |-> finished[p]
               \cup (IF p = d THEN {r.request} ELSE {}) \cup (IF p = s THEN {m.request} ELSE {})]
          /\ UNCHANGED <<chosen, todo, books, events, status, requests, joined>>

-----------------------------------------------------------------------------
(* Point-to-point communication of the policy.                             *)

\* send blocks until its request is finished, asyncSend returns an event.
SendCall(p) ==
    /\ Doing(p, "send")
    /\ LET s == Statement(p) IN
         /\ HasUri(p, s.context, s.vAddr)
         /\ Isend(p, Comm(p, s.context), getVAddrUri(p, s.context, s.vAddr), s)
    /\ Then(p, <<Await(NextRequest(p))>>)
    /\ UNCHANGED <<chosen, memory, books, events, status, posted, joined>>

AsyncSendCall(p) ==
    /\ Doing(p, "asyncSend")
    /\ LET s == Statement(p) IN
         /\ HasUri(p, s.context, s.vAddr)
         /\ Isend(p, Comm(p, s.context), getVAddrUri(p, s.context, s.vAddr), s)
         /\ Keep(p, s.events, <<NextRequest(p)>>)
    /\ Then(p, <<>>)
    /\ UNCHANGED <<chosen, memory, books, status, posted, joined>>

RecvCall(p) ==
    /\ Doing(p, "recv")
    /\ LET s == Statement(p) IN
         /\ HasUri(p, s.context, s.vAddr)
         /\ Irecv(p, Comm(p, s.context), getVAddrUri(p, s.context, s.vAddr), s.tag, s.buf)
    /\ Then(p, <<Await(NextRequest(p))>>)
    /\ UNCHANGED <<chosen, memory, books, events, status, finished, sent, joined>>

AsyncRecvCall(p) ==
    /\ Doing(p, "asyncRecv")
    /\ LET s == Statement(p) IN
         /\ HasUri(p, s.context, s.vAddr)
         /\ Irecv(p, Comm(p, s.context), getVAddrUri(p, s.context, s.vAddr), s.tag, s.buf)
         /\ Keep(p, s.events, <<NextRequest(p)>>)
    /\ Then(p, <<>>)
    /\ UNCHANGED <<chosen, memory, books, status, finished, sent, joined>>

\* comm.recv of splitContext and recv from any peer names a rank.
RecvRankCall(p) ==
    /\ Doing(p, "recvRank")
    /\ LET s == Statement(p) IN Irecv(p, s.comm, s.rank, s.tag, s.buf)
    /\ Then(p, <<Await(NextRequest(p))>>)
    /\ UNCHANGED <<chosen, memory, books, events, status, finished, sent, joined>>

\* recv from any peer: probe tells source and tag of a message, which is then
\* received.  The event keeps them.
Probe(p) ==
    /\ Doing(p, "recvAny")
    /\ LET c == Statement(p)
           comm == Comm(p, c.context)
           from(r) == SelectSeq(sent[Process(comm, r)][p], LAMBDA m : m.comm = comm.name)
       IN  \E r \in {x \in Ranks(comm) : from(x) # <<>>} :
             /\ ~\E i \in DOMAIN posted[p] : Matches(posted[p][i], Process(comm, r), Head(from(r)))
             /\ status' = [status EXCEPT ![p] = [source |-> r, tag |-> Head(from(r)).tag]]
             /\ Then(p, <<RecvRank(comm, r, Head(from(r)).tag, c.buf)>>)
    /\ UNCHANGED <<chosen, memory, books, events, mpi>>

ReplyCall(p) ==
    /\ Doing(p, "reply")
    /\ LET s == Statement(p)
           to == s.inverse[status[p].tag]
       IN  Then(p, <<Send(s.context, to.vAddr, to.tag, s.buf)>>)
    /\ UNCHANGED <<chosen, memory, books, events, status, mpi>>

\* getVAddrUri exits the process if the context has no uri of the vAddr, and
\* broadcast throws; what MPI does with a uri that is none ends the process here
\* as well.
NoUri(p) ==
    /\ \/ \E op \in {"send", "asyncSend", "recv", "asyncRecv"} : Doing(p, op)
       \/ Doing(p, "collective") /\ Statement(p).kind \in Rooted
    /\ ~HasUri(p, Statement(p).context, Statement(p).vAddr)
    /\ todo' = [todo EXCEPT ![p] = <<[op |-> "exited"]>>]
    /\ UNCHANGED <<chosen, memory, books, events, status, mpi>>

-----------------------------------------------------------------------------
(* Events, and the buffers of the program.                                 *)

Finished(p, request) == request \in finished[p]

AwaitRequest(p) ==
    /\ Doing(p, "await") /\ Finished(p, Statement(p).request)
    /\ Then(p, <<>>)
    /\ UNCHANGED <<chosen, memory, books, events, status, mpi>>

\* The loop compares a growing index with a shrinking size: it waits for the
\* last half of the events and leaves the others.
WaitNext(p) ==
    /\ Doing(p, "waitLoop")
    /\ LET s == Statement(p)
           pending == Get(events[p], s.events, <<>>)
       IN  \/ /\ s.i >= Len(pending)
              /\ Then(p, <<>>)
              /\ UNCHANGED events
           \/ /\ s.i < Len(pending)
              /\ Finished(p, pending[Len(pending)])
              /\ events' = [events EXCEPT ![p][s.events] = SubSeq(@, 1, Len(@) - 1)]
              /\ Then(p, <<WaitLoop(s.events, s.i + 1)>>)
    /\ UNCHANGED <<chosen, memory, books, status, mpi>>

\* Any event that is ready is erased, until none is left.
WaitReady(p) ==
    /\ Doing(p, "waitAll")
    /\ LET vec == Statement(p).events
           pending == Get(events[p], vec, <<>>)
       IN  /\ \A i \in DOMAIN pending : Finished(p, pending[i])
           /\ events' = [events EXCEPT ![p] = Put(@, vec, <<>>)]
    /\ Then(p, <<>>)
    /\ UNCHANGED <<chosen, memory, books, status, mpi>>

AssignBuffer(p) ==
    /\ Doing(p, "assign")
    /\ LET s == Statement(p)
           tokens(part) == IF "buf" \in DOMAIN part THEN Read(p, part.buf) ELSE part.value
       IN  Write(p, s.buf, FlattenSeq([j \in DOMAIN s.parts |-> tokens(s.parts[j])]))
    /\ Then(p, <<>>)
    /\ UNCHANGED <<chosen, books, events, status, mpi>>

FreeBuffers(p) ==
    /\ Doing(p, "free")
    /\ memory' = [memory EXCEPT ![p] = [b \in DOMAIN @ \ Statement(p).bufs |-> @[b]]]
    /\ Then(p, <<>>)
    /\ UNCHANGED <<chosen, books, events, status, mpi>>

-----------------------------------------------------------------------------
(* Collective operations.  Every process brings something into the n-th    *)
(* operation of a communicator and completes it when MPI lets it.          *)

Joined(p, comm) == Get(joined[p], comm.name, <<>>)
Bring(p, comm, kind, tokens) ==
    joined' = [joined EXCEPT ![p] =
                 Put(@, comm.name, Append(Joined(p, comm), [kind |-> kind, tokens |-> tokens]))]
Completed(p, s, comm, root) == Complete(s, comm, Len(Joined(p, comm)) + 1, root)

Join(p) ==
    /\ Doing(p, "collective")
    /\ LET s == Statement(p)
           comm == Comm(p, s.context)
           Rest(root) == Then(p, <<Completed(p, s, comm, root)>>)
       IN  /\ \/ /\ s.kind \in Rooted
                 /\ HasUri(p, s.context, s.vAddr)
                 /\ Rest(getVAddrUri(p, s.context, s.vAddr))
              \/ s.kind \notin Rooted /\ Rest(None)
           /\ Bring(p, comm, s.kind, Read(p, s.buf))
    /\ UNCHANGED <<chosen, memory, books, events, status, requests, finished, sent, posted>>

\* gatherVar and allGatherVar exchange the numbers of elements first.
JoinVar(p) ==
    /\ Doing(p, "collectiveVar")
    /\ LET s == Statement(p) IN
         /\ Write(p, <<"nElements">>, <<Len(Read(p, s.buf))>>)
         /\ Then(p, <<Collective("allGather", s.context, None, <<"nElements">>, <<"recvCount">>, 1),
                      [s EXCEPT !.op = "collective"]>>)
    /\ UNCHANGED <<chosen, books, events, status, mpi>>

\* What the process of rank r has brought into the operation.
Brought(s, r) == Joined(Process(s.comm, r), s.comm)[s.n]
Arrived(s, r) ==
    /\ Len(Joined(Process(s.comm, r), s.comm)) >= s.n
    /\ Brought(s, r).kind = s.call.kind
AllArrived(s) == \A r \in Ranks(s.comm) : Arrived(s, r)

Everything(s) == FlattenSeq([j \in 1 .. Size(s.comm) |-> Brought(s, j - 1).tokens])
Slice(tokens, r, n) == SubSeq(tokens, r * n + 1, (r + 1) * n)

\* Mutation: the offset grows by one per rank.
DisplacementInRanks(recvCount, r) == r

\* rdispls
Displacement(recvCount, r) == FoldLeft(LAMBDA a, b : a + b, 0, SubSeq(recvCount, 1, r))

\* MPI_Gatherv puts the data of each rank at its displacement.
Gatherv(s, recvCount) ==
    LET total == FoldLeft(LAMBDA a, b : a + b, 0, recvCount)
        Holds(r, x) == x - Displacement(recvCount, r) \in 1 .. recvCount[r + 1]
    IN  [x \in 1 .. total |->
           IF \E r \in Ranks(s.comm) : Holds(r, x)
           THEN LET r == CHOOSE r \in Ranks(s.comm) : Holds(r, x)
                IN  Brought(s, r).tokens[x - Displacement(recvCount, r)]
           ELSE None]

\* The i-th element is the reduction of the i-th elements in order of the ranks.
Reduction(s) ==
    [i \in DOMAIN Brought(s, 0).tokens |-> [j \in 1 .. Size(s.comm) |-> Brought(s, j - 1).tokens[i]]]

Result(p, s) ==
    LET call == s.call
        rank == Rank(s.comm, p)
    IN  CASE call.kind \in {"gather", "allGather"} -> Everything(s)
          [] call.kind \in {"gatherv", "allGatherv"} -> Gatherv(s, Read(p, <<"recvCount">>))
          [] call.kind = "scatter" -> Slice(Brought(s, s.root).tokens, rank, call.count)
          [] call.kind = "allToAll" ->
               LET n == Len(Read(p, call.buf)) \div Size(s.comm) IN
                 FlattenSeq([j \in 1 .. Size(s.comm) |-> Slice(Brought(s, j - 1).tokens, rank, n)])
          [] call.kind \in {"reduce", "allReduce"} -> Reduction(s)
          [] call.kind = "broadcast" -> Brought(s, s.root).tokens

\* A process whose contribution is all it has to do with the operation may
\* return at once; the root of a gather or reduction, and everybody in the
\* others, waits for those whose data it needs.
CompleteCall(p) ==
    /\ Doing(p, "complete") /\ Statement(p).call.kind # "split"
    /\ LET s == Statement(p)
           kind == s.call.kind
           atRoot == s.root = Rank(s.comm, p)
       IN  \/ /\ kind \in {"gather", "gatherv", "reduce"} /\ ~atRoot
              /\ UNCHANGED memory
           \/ /\ kind \in {"scatter", "broadcast"}
              /\ Arrived(s, s.root)
              /\ Write(p, s.call.into, Result(p, s))
           \/ /\ kind \in {"gather", "gatherv", "reduce"} => atRoot
              /\ kind \notin {"scatter", "broadcast"}
              /\ AllArrived(s)
              /\ \/ kind = "barrier" /\ UNCHANGED memory
                 \/ kind # "barrier" /\ Write(p, s.call.into, Result(p, s))
    /\ Then(p, <<>>)
    /\ UNCHANGED <<chosen, books, events, status, mpi>>

-----------------------------------------------------------------------------
(* splitContext                                                            *)

SplitCall(p) ==
    /\ Doing(p, "split")
    /\ LET s == Statement(p)
           comm == Comm(p, s.context)
       IN  /\ Bring(p, comm, "split", <<s.isMember>>)
           /\ Then(p, <<Completed(p, s, comm, None)>>)
    /\ UNCHANGED <<chosen, memory, books, events, status, requests, finished, sent, posted>>

\* comm.split: those that say the same get a communicator, in the old order.
NewComm(s) ==
    [name  |-> Append(s.comm.name, <<s.n, s.call.isMember>>),
     group |-> SelectSeq(s.comm.group, LAMBDA q : Joined(q, s.comm)[s.n].tokens = <<s.call.isMember>>)]

LeftOut(p) ==
    /\ Doing(p, "complete") /\ Statement(p).call.kind = "split"
    /\ LET s == Statement(p) IN
         /\ ~s.call.isMember /\ AllArrived(s)
         /\ contexts' = [contexts EXCEPT ![p] = Put(@, s.call.new, InvalidContext)]
    /\ Then(p, <<>>)
    /\ UNCHANGED <<chosen, memory, contextCount, uriMap, events, status, mpi>>

Uri(id) == <<"uri", id>>
OtherUri == <<"otherUri">>

\* Mutation: the events are not waited for.
ExchangeUrisOnly(comm, id, new) ==
    FlattenSeq([v \in 1 .. Size(comm) |->
                  <<RecvRank(comm, v - 1, 0, OtherUri), EnterUri(id, v - 1, OtherUri)>>])
      \o <<Free({Uri(id)}), Enter(new, Context(id, comm))>>

\* What a member does once its uri is on the way: the uris of the others, half
\* of its events, and the end of the local variables.
ExchangeUris(comm, id, new) ==
    FlattenSeq([v \in 1 .. Size(comm) |->
                  <<RecvRank(comm, v - 1, 0, OtherUri), EnterUri(id, v - 1, OtherUri)>>])
      \o <<WaitLoop("split", 0), Free({Uri(id)}), Enter(new, Context(id, comm))>>

\* Mutation: a member does not send to itself.
OthersOnly(comm, p) == ToSet(comm.group) \ {p}

\* Every member gets the uri, the sender included.
Addressees(comm, p) == ToSet(comm.group)

SplitReturns(p) ==
    /\ Doing(p, "complete") /\ Statement(p).call.kind = "split"
    /\ LET s == Statement(p)
           comm == NewComm(s)
           id == contextCount[p] + 1
           uri == <<Rank(comm, p)>>
           Request(r) == requests[p] + r + 1
       IN  /\ s.call.isMember /\ AllArrived(s)
           /\ contextCount' = [contextCount EXCEPT ![p] = id]
           /\ uriMap' = [uriMap EXCEPT ![p] = Append(@, [v \in 1 .. Size(comm) |-> 0])]
           /\ Write(p, Uri(id), uri)
           /\ sent' = [sent EXCEPT ![p] = [q \in Peers |->
                IF q \in Addressees(comm, p)
                THEN Append(@[q], Message(p, comm, 0, Uri(id), uri, "uri", Request(Rank(comm, q))))
                ELSE @[q]]]
           /\ requests' = [requests EXCEPT ![p] = @ + Size(comm)]
           /\ finished' = IF "uri" \in plan.eager
                          THEN [finished EXCEPT ![p] = @ \cup {Request(r) : r \in Ranks(comm)}]
                          ELSE finished
           /\ events' = [events EXCEPT ![p] = Put(@, "split", [v \in 1 .. Size(comm) |-> Request(v - 1)])]
           /\ Then(p, ExchangeUris(comm, id, s.call.new))
    /\ UNCHANGED <<chosen, contexts, status, posted, joined>>

EnterUriCall(p) ==
    /\ Doing(p, "enterUri")
    /\ LET s == Statement(p) IN uriMap' = [uriMap EXCEPT ![p][s.id + 1][s.vAddr + 1] = Read(p, s.buf)[1]]
    /\ Then(p, <<>>)
    /\ UNCHANGED <<chosen, memory, contexts, contextCount, events, status, mpi>>

Return(p) ==
    /\ Doing(p, "enter")
    /\ contexts' = [contexts EXCEPT ![p] = Put(@, Statement(p).new, Statement(p).context)]
    /\ Then(p, <<>>)
    /\ UNCHANGED <<chosen, memory, contextCount, uriMap, events, status, mpi>>

-----------------------------------------------------------------------------
Step(p) ==
    \/ SendCall(p) \/ AsyncSendCall(p) \/ RecvCall(p) \/ AsyncRecvCall(p) \/ RecvRankCall(p)
    \/ Probe(p) \/ ReplyCall(p) \/ NoUri(p)
    \/ AwaitRequest(p) \/ WaitNext(p) \/ WaitReady(p) \/ AssignBuffer(p) \/ FreeBuffers(p)
    \/ Join(p) \/ JoinVar(p) \/ CompleteCall(p)
    \/ SplitCall(p) \/ LeftOut(p) \/ SplitReturns(p) \/ EnterUriCall(p) \/ Return(p)

Next == (\E p \in Peers : Step(p)) \/ (\E s, d \in Peers : Deliver(s, d))

Spec == Init /\ [][Next]_vars

\* Some process runs, or MPI delivers: enough, since programs are finite.
FairSpec == Spec /\ WF_vars(Next)

-----------------------------------------------------------------------------
(* Properties                                                              *)

\* A peer that has a context knows the uri of each of its members: their rank
\* in the new communicator, whatever is sent in the old and the new context
\* meanwhile, and although the numbers of one context differ from peer to peer.
\* If MPI reads uris from the sender's memory, only the last half of the
\* members is sure of theirs: for the others no peer waits before its variable
\* is gone.
UrisAreRanks ==
    \A p \in Peers : \A c \in DOMAIN contexts[p] :
      LET comm == Comm(p, c) IN
        contexts[p][c].valid /\ ("uri" \in plan.eager \/ Rank(comm, p) >= Size(comm) \div 2)
          => Uris(p, c) = [v \in 1 .. Size(comm) |-> v - 1]

\* A peer that has come to its end has received what its program is for, from
\* the right peers and in the right order, if MPI copies what the program does
\* not keep.
ResultsAreRight ==
    {"uri", "announcement", "data"} \ plan.keeps \subseteq plan.eager =>
      \A p \in Peers : todo[p] = <<>> =>
        \A b \in DOMAIN plan.results[p] : Read(p, b) = plan.results[p][b]

\* Every program comes to its end at every peer, if its blocking sends go to
\* other processes or are copied.
Finishes ==
    ("uri" \in plan.eager /\ ("data" \in plan.eager \/ ~plan.sendsToItself))
      ~> (\A p \in Peers : todo[p] = <<>>)
=============================================================================
