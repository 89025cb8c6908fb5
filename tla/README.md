# Verification of graybat

graybat is a C++ library for communication along the edges of a graph. This
directory holds TLA+ models of it, TLC configurations that check them on small
instances, and proofs that TLAPS checks. Source paths are relative to the root
of the repository; `graybat/` abbreviates `include/graybat/`.

    tlc -config MCBox.cfg MCMessageBox.tla     # a run: each .cfg names its constants
    tlapm MessageBoxProofs.tla                 # the proofs of a module

## 1. The system

| Component | Source | State | Operations |
|---|---|---|---|
| MessageBox, MultiKeyMap | `graybat/utils/MultiKeyMap.hpp` | a map from key tuples to queues, the atomic `bufferSize`, one mutex, two condition variables | `enqueue`, `waitDequeue` with all keys or with a prefix of them, `tryDequeue` |
| Point-to-point communication | `graybat/communicationPolicy/socket/Base.hpp`, `ZMQ.hpp`, `zmq/` | `inBox`, `ctrlBox`, `sendMtx`, send sockets, message ids, two handler threads | `send`, `asyncSend`, `recv`, `recv` from anybody, `asyncRecv`, `Event::wait`, `ready`, `handleRecv`, `handleCtrl`, `deinit` |
| Signaling | `utils/zmq_signaling_server.cpp`, `Base::init`, `deinit` | context ids by name, a phone book per context id, a process's own phone book | `CONTEXT_INIT`, `CONTEXT_REQUEST`, `VADDR_REQUEST`, `VADDR_LOOKUP`, `DESTRUCT` |
| Contexts | `Base::splitContext` | `contexts`, `sendSocketMappings` | collecting, distributing, the barrier |
| Collectives | `graybat/communicationPolicy/Base.hpp` | the caller's vectors, a vector of events | `gather` to `synchronize` |
| Cage | `graybat/Cage.hpp`, `Vertex.hpp`, `Edge.hpp`, `graphPolicy/` | graph, `hostedVertices`, `graphContext`, `vertexMap`, `peerMap` | `setGraph`, `distribute`, `announce`, `send`, `recv` from an edge or from any, `spread`, `collect`, `accumulate` |
| Collectives of vertices | `Cage.hpp`, `utils/exclusivePrefixSum.hpp` | static variables of four member functions | `reduce`, `allReduce`, `gather`, `allGather`, `reorder` |
| Mappings | `graybat/mapping` | none | `Consecutive`, `Roundrobin`, `Random`, `GraphPartition`, `Filter` |
| Patterns | `graybat/pattern` | none | twelve shapes of graphs, from `None` to `Random` |
| BMPI policy | `graybat/communicationPolicy/BMPI.hpp`, `bmpi/` | `contextCount`, `uriMap` (the rank of each vAddr of each context), MPI communicators and requests | the same interface on boost::mpi |
| Examples | `example`, `test` | what a vertex holds; the events of a process | `forward`, `ring`, `anyrecv`, `pagerank`, `gol`; `chain`, `zmq/` |
| Progress bars | `include/elegant-progressbars` | | |

How they interact. A process constructs a communication policy, which asks the
signaling server for a context id and a vAddr, looks the other processes up,
and starts two threads: `recvHandler` takes messages off its sockets, confirms
each one to its sender, and enters it into `inBox`; `ctrlHandler` enters
confirmations into `ctrlBox`. The user thread sends over sockets that hold a
bounded number of messages, receives from `inBox`, and waits for events in
`ctrlBox`. `splitContext` and the collectives are written in terms of these
sends and receives, all with tag 0. A `Cage` distributes the vertices of a
graph with a mapping, makes a context of the peers that host some, announces
who hosts what, and turns communication along an edge into a message to the
host of its other end, with the edge id as tag. BMPI offers the same calls
without threads: point-to-point calls and collectives are those of MPI, and
`splitContext` splits the communicator and exchanges the ranks.

What is hard:

* *threads*: a lock taken twice where one section was meant, a counter outside
  of the lock, notifications that can be lost, `sendMtx` held in a blocking
  send;
* *messages*: keys shared by everything that has tag 0, so that order alone
  tells messages apart; peers that run ahead of others by whole collectives or
  iterations; confirmations taken out by one event and put back for another;
* *bounded resources*: sockets and boxes that block when they are full, and
  confirmations nobody waits for that fill them;
* *membership*: processes that start and end in any order against a server
  that only learns of an end through an unacknowledged message; contexts whose
  vAddrs have gaps;
* *buffers*: MPI may read what is sent long after `asyncSend` has returned, from
  variables that are gone or overwritten by then;
* *state that outlives a call*: static variables of member functions, and maps
  that a redistribution overwrites but never clears.

What makes each component correct:

| Component | It is correct if |
|---|---|
| MessageBox | its counter equals what it holds and is bounded; each message leaves once, in order of its key; nobody is left waiting for what is there |
| Point-to-point | a message is received once and in order per tag, its event completes once and not before it was accepted; an exchange that fits ends |
| Signaling | vAddrs are unique, phone books name the right processes, and a group of the right size forms, again after a restart |
| splitContext | all members hold the same id and list, made of who wanted; handlers know a context before its first message; calls return |
| Collectives | each delivers the data of its own call, returns, and leaves no message behind |
| Cage | each vertex is hosted once, located rightly by every member, and collects its neighbours' values of its own iteration |
| Vertex collectives | the peers meet in the same collective, and every vertex has its result in the order it asked for, without a write behind a vector |
| BMPI | each member of a context maps its vAddrs to the right ranks |
| Examples | each vertex receives what it should, and the programs end |

## 2. The modules

    Mailbox  <=implements=  MessageBox                    (MessageBoxProofs)
    Transport  <=implements=  PeerToPeer                  (PeerToPeerRefinement)
    Signaling -> SplitContext -> Cage -> CageCollectives
                 Transport, PeerToPeer -> Collectives ------^
    Mappings, Patterns -> Cage
    Mappings, Patterns, BMPI -> Examples

The arrows read "assumed by": SplitContext takes the initial context as
Signaling establishes it, Collectives and Cage take streams as Transport
promises them, and Cage takes from SplitContext that a call returns, to each
peer, the context of the peers that wanted to be in it. Examples extends BMPI,
Mappings and Patterns. What a module takes from Transport, Signaling or
SplitContext is proved of these (section 4), except that calls return. The
proofs about module M are in MProofs; those about PeerToPeer are spread over
PeerToPeerProofs, PeerToPeerDelivery and PeerToPeerRefinement, each of which
extends the one before.

**MessageBox** steps from one lock operation to the next. `EnqueueCheck`,
`EnqueueReserve`, `EnqueueLock`, `EnqueuePush`, `EnqueueNotify` are the lines of
`enqueue`; `TestKey` ... `Pop` those of `waitDequeue` with all keys, `Lookup`
... `ScanEmpty` those with a prefix, `TryTest` and `TryEmpty` those of
`tryDequeue`. A condition variable is a set of waiters, of which `NotifyOne`
wakes any one; `Timeout` is the return of `wait_for` after 100 ms. Keys are
tuples, sizes come from a constant, the map is a function with the set
`mapped` of the keys it has. **Mailbox** is what a box promises: an offered
message is put at once into the queue of its key, a taker gets the head of the
queue of a key it accepts.

**PeerToPeer** has a user thread and two handlers for each peer, and a program
of calls with choices. Sockets are sequences of at most `HWM` messages; boxes
are as Mailbox promises, with a capacity in messages. `Lock`, `Push` and
`Unlock` are the parts of `asyncSendImpl` under `sendMtx`, `Confirm` and
`Enqueue` the parts of `handleRecv` in that order. The event of a `recv` from any
peer is one of a send (`RecvAny`), as its constructor makes it, and `ready` on it
takes confirmations out of `ctrlBox`. **Transport** has neither
threads nor boxes: streams between peers, of which the destination accepts a
prefix and hands out messages first-in first-out per tag.

**Signaling** has one server action per request (`ContextRequest` ...
`Destruct`), processes that walk through `init`, and the launcher's order
`after`. Processes reuse addresses of dead ones. **SplitContext** has an
action for every send and receive of `splitContext`, and handlers that take a
message off a socket only if they know its context (`HandleRecv`). The names of
new contexts come from the plan, since `rand` may draw one twice; `contextIds` is
what the server knows of them. A message carries the number of the call that
sent it, `call`, a history that no step reads.

**Collectives** gives each collective as the sequence of sends, receives,
folds, resizes and waits a peer goes through (`Gather(p, r, k)` ...
`Synchronize(p)`), with their offsets, and a machine that executes them. The
operator of a reduction is concatenation: it tells apart every order and every
multiplicity of operands.

**Patterns** lists edges in the order of the functors (those of `Random` as they
are drawn), **Mappings** the vertices of a peer. **Cage** has one action for `setGraph` with `distribute`,
for the sends of `announce`, for each of its receives, for each `spread` and for
each receive of `collect`; `Spread` sends up to the first target it cannot
reach and then throws, as the loop does. Instead of collecting from each edge a
program may receive from any (`RecvAnyEdge`), and it may end each iteration with
a `gather`, whose messages share tag 0 with edge 0 and the announcements
(`StartGather`, `RecvGathered`, `SendToRoot`). **CageCollectives** has one action
for each call with a vertex that is not the last (it only touches the static
variables), and two for the last: entering the policy's collective, and what
follows it. (A later `allGather` may take another vertex for the last, as its
counter is never set back.) The static variables are records with the source's
names. A peer that writes behind a vector stops at `overrun`; one whose collective
meets another peer's of a different call stops at `misread`.

**BMPI** executes programs, sequences of statements that are the calls of the
policy and the caller's assignments; what is left of a blocking call is itself a
statement (`Await`, `Complete`, `ExchangeUris`). The lower half is MPI, external:
requests, messages that do not overtake each other, messages that MPI copies
(`eager`) or reads when the receive is there, communicators, and collective
operations that belong together by their count. **Examples** writes the programs
of `example` down as such statements, through operators for what the cage
(`send`, `recv`, `asyncRecv`, `spread`, `collect`, `announce`), vertices and edges
(`forward`, `inverse`) do; a value is the vertex and the iteration it comes from.

Mutants: an operator with the comment "Mutation:" is a plausible wrong version of
a definition. No specification uses it; each property of a run is shown to
fail when it takes the definition's place.

## 3. The runs

| Run | Shows | Bounds |
|---|---|---|
| MCBox | `TypeOK`, `Accounting`, `BufferBound`, `NeverPopsEmpty`; `ConsumerServed`, `ProducerServed`; `ImplementsMailbox` | two producers of which one is the consumer (as in `ctrlBox`), three messages of sizes 1, 2, 2 for a size of 2: two of one key, so order matters, and a sum that does not fit |
| MCPeers | `TypeOK`, `ExactlyOnce`, `OneConfirmation`, `ImplementsTransport`, `Terminates` | two peers: three calls each with up to three choices, everything holding one message, so everything blocks; two messages each way, sockets and boxes of two; two senders to one peer that receives from any; three message ids, as no program draws more |
| MCGroups | `TypeOK`, `VAddrsUnique`, `BooksAreRight`, `FindsItself`, `GroupForms` | contexts of two and four processes of one name on three addresses, launched one group after the other, or three processes at any time |
| MCSplit | `TypeOK`, `NeverMisread`, `HandlersSurvive`, `SplitAgrees`, `SplitReturns` | three peers once, two peers twice, plain and nested, with two names drawn or one; every choice of members |
| MCCollectives | `Delivered`, `NothingLeft`, `BreaksOnlyInGaps`, `AllReturn` | every two collectives at two peers, with the same root or not; every one at three peers; every one in the context of peers 0 and 2 |
| MCCage | `MappingsPartition`, `PatternsAreRight`, `NeverMisread`, `MapsAreRight`, `CollectsNeighbours`, `ThrowsOnlyForLost`, `Finishes` | three peers; none to nine vertices; two iterations, with receives from each edge or any, with a gather or without; two rounds with every assignment of two or three vertices |
| MCCageCollectives | `StaysInBounds`, `Aligned`, `Delivered`, `AllReturn` | every two collectives of three vertices at two peers, with and without a redistribution (which may leave a peer without vertices), and a third one after two `allGather`s that part the peers or that both enter early; one of four vertices at three; three disciplines for the vectors, sized or empty |
| MCBMPI | `UrisAreRanks`, `ResultsAreRight`, `Finishes` | each example at two peers, forward and anyrecv at three; every collective in the context of peers 0 and 2; a split of a split; MPI copying everything, all but data, uris only, nothing |
| MCUnlockedLookup, MCFlood, MCSplitNested, MCSynchronize | a violation each, section 5 | |

Two peers are enough where all that matters happens between a sender and a
receiver (keys, order, confirmations); three where a third party's message can
come between, or membership has a proper subset. Two consecutive calls are
enough for confusions of one call with the next: every key is a stream of its
own, and what a call leaves in it would be met by the very next. A bound on
capacities of one or two is where every blocking path is taken.

### What the properties claim

* `BufferBound` is the bound that holds, not `maxBufferSize`: the size is tested
  before it is reserved, so each further producer can add a message.
* `ConsumerServed` needs the timeout of `wait_for`: `notify_one` is sent without
  the waiter's mutex. Without `Timeout` it fails, and that is its mutant.
* `ProducerServed` is conditional: on consumers that take from anybody again and
  again and do not put messages back, and on a message that fits at all.
* `FindsItself` and `GroupForms` are claimed for groups of the size of the
  context that follow each other; a group launched before the last one has
  ended may be split up by a late `DESTRUCT`, and a surplus process is not in its
  own context. Such launches are in the run for the other properties.
* `NothingLeft` fixes how many confirmations each collective leaves in `ctrlBox`
  for good: half of them where the wait loop compares a growing index with a
  shrinking size, all of them where the events are not kept.
* `BreaksOnlyInGaps`: in contexts with gaps six collectives index by vAddr
  beyond their vectors; the others are right there.
* `NeverMisread` of SplitContext says of each receive that the message it will get is
  of the kind it expects and was sent in the same call.
* `SplitReturns` excludes contexts without vAddr 0; `AnySplitReturns` does not,
  and fails.
* `SplitAgrees`: a context stays what it is until its name is drawn again. When it
  is, the server answers with the same id, and the peers replace the context.
* `CollectsNeighbours` of a program that receives from any edge says what is left
  of the order then: the values of one edge come in order.
* `Finishes` of Cage is claimed for `Proper` rounds only: `Random` with no vertex drawn
  for a peer whose vAddr exceeds the number of vertices, `GraphPartition` with
  as many parts as peers. The other rounds are in the plans too, for
  `ThrowsOnlyForLost` and `CollectsNeighbours`.
* `Delivered` of CageCollectives is claimed where `Reliable` holds, which says
  exactly what the static variables spoil: only the first `allGather` of a
  process communicates; an `allReduce` reduces into the vector of the first one;
  a `gather` with reordering permutes the result of an earlier root.
* `StaysInBounds` names the only calls that write behind a vector: a `gather`
  with reordering whose last vertex is not the root and passes a vector that is
  shorter than the result, and an `allGather` of a peer with several such
  vertices. It claims nothing of an `allGather` after another one.
* `Aligned` says how far the counters in static variables keep the peers together:
  up to an `allGather` that `Parts` them, entered by some and not by others, since
  `nGatherCalls` (`Cage.hpp:854`) is never set back and is compared with the
  number of vertices hosted now. With hosts 0, 1, 0 and then 1, 1, 0, peer 1
  enters the second `allGather` and peer 0 does not; what peer 0 calls next meets
  it. Without that exception the run refutes it. `AllReturn` is claimed of the
  programs that no `allGather` parts.
* `UrisAreRanks` and `ResultsAreRight` depend on which messages MPI copies.
  `splitContext` waits for the last half of its sends before their buffer is
  gone, so without a copy only the last half of the ranks is served for sure;
  the announcements of a cage, `pagerank` and `gol` need a copy. The other
  examples keep their buffers, and are right without. So is every collective in
  the context of peers 0 and 2, and the split of a split, once the uris are copied.
* `Finishes` of BMPI needs copies of what a process sends to itself with a
  blocking send, as `forward` does with two neighbouring vertices, and of the uris,
  which may be wrong otherwise.

### Fairness

Weak fairness of every thread that is inside of a method, of every handler,
of the server, and of each process between its requests: operating systems
schedule runnable threads, and ZeroMQ delivers. Nothing forces a user thread to
call anything in MessageBox; in the other modules its program is executed, which
is the assumption under which a collective operation returns at all. A mutex
is strongly fair only as a hypothesis of `ProducerServed`. The destructors of
Signaling run eventually (`WF(Deinit)`), since a second generation waits for
them. BMPI and CageCollectives have `WF_vars(Next)` only: some process, peer or
MPI takes a step, which is enough, since every behaviour of a finite program is
finite.

## 4. The proofs

The theorems hold for every value of the constants that their module's
assumptions allow: any number of threads, processes, peers, messages, tags,
contexts and calls.

| Module | Theorem | What it states |
|---|---|---|
| MessageBoxProofs | `TypeInvariant` | `TypeOK`: `bufferSize` is never negative |
| | `AccountingInvariant` | `Accounting` |
| | `BufferBoundInvariant` | `BufferBound` |
| | `NeverPopsEmptyInvariant` | `NeverPopsEmpty`, for a single consumer |
| | `MailboxRefinement` | `ImplementsMailbox` |
| PeerToPeerProofs | `TypeCorrect` | `TypeOK` |
| | `ShapeInvariant`, `MessageIDsInvariant` | the types of everything under way; the ids a peer has used grow, each is of one message |
| PeerToPeerDelivery | `PlacedInvariant` | each message and each confirmation is in exactly one place |
| | `EveryMessageOnce` | `ExactlyOnce` |
| | `OneConfirmationEach` | `OneConfirmation` |
| PeerToPeerRefinement | `InOrderInvariant`, `AllTaggedInvariant` | what is further back was sent later; a message keeps its tag |
| | `TransportRefinement` | `ImplementsTransport` |
| SignalingProofs | `InvInvariant`, `GroupInvariant` | the two inductive invariants |
| | `TypeCorrect` | `TypeOK` |
| | `UniqueVAddrs` | `VAddrsUnique` |
| | `RightBooks` | `BooksAreRight` |
| | `ProcessFindsItself` | `FindsItself` |
| SplitContextProofs | `SplitInvariant` | the inductive invariant with `HandlersSurvive` |
| | `TypeCorrect` | `TypeOK` |
| | `ReceivesWhatIsMeant` | `NeverMisread` |
| | `HandlersGoOn` | `HandlersSurvive` |
| | `MembersAgree` | `SplitAgrees` |
| MappingsProofs | `ConsecutivePartitions`, `RoundrobinPartitions` | each vertex is hosted by exactly one peer, once, and no peer has more than the quotient rounded up |
| | `RandomPartitions` | the same without the bound, if no vertex is drawn for a peer beyond the number of vertices |
| | `GraphPartitionPartitions` | the same, if there are as many parts as peers |
| CageProofs | `MappingsPartitionTheorem` | `MappingsPartition` |
| | `StreamsInvariant` | the inductive invariant |
| | `FindsWhatIsMeant` | `NeverMisread` |
| | `RightMaps` | `MapsAreRight` |
| | `OnlyLostThrow` | `ThrowsOnlyForLost` |
| | `CollectsFromNeighbours` | `CollectsNeighbours` |

### Assumptions

| Assumption | What it says | Why |
|---|---|---|
| `MessagesAssumption`, `BoxAssumption` | finite sets of threads and messages, keys and sizes of messages, sizes bounded by `MaxMessageSize` | a process is finite, and so is each of its messages |
| `SingleConsumer` | one thread takes messages; only for `NeverPopsEmptyInvariant` | both boxes are emptied by the user thread only |
| `PeersAssumption`, `SetupsAssumption` | vAddrs and message ids are naturals; the calls of a program are calls of the interface; there is an id for each call that may draw one; capacities are positive | `msgID` is a counter that does not wrap in the model (section 6); a socket and a box hold at least a message |
| `NothingAssumption` | the value of an empty hand is no message | it stands for a handler that holds none |
| `SignalingAssumption` | finitely many processes, each with a name; contexts of at least one process; `None` is no address | the size is a parameter of the policy's configuration; the server answers with an empty string for an address it does not know |
| `SplitAssumption` | a plan has at least one peer and a name for each round | the context that is split was formed by Signaling |
| `PlansAssumption` | there is a peer; a plan has finitely many rounds and iterations; receives from any edge and gathers are not combined, and both go with `Consecutive` and `Roundrobin` | a gather has tag 0, as edge 0, so a receive from any edge would take its messages: programs that do both are outside the model (section 6). A gather waits for every vertex, which a distribution without a host for one never has |
| `ProgramsAssumption` | at least one peer; the peers that host vertices in a call have vAddrs without gaps; the root is a vertex | only for CageCollectives, which no theorem is about: contexts with gaps are those of Collectives (`BreaksOnlyInGaps`) |
| `DrawsAssumption` | `Random` draws a peer for each vertex | `rand() % processCount` |
| `PatternsAssumption` | edges join vertices of the graph, and there are at most as many as tags (64) | each functor lists its edges between its own vertices; their ids are the tags of their messages. `Tags` is `0 .. 63`, which no run exhausts; the proofs use of the number only that edge ids are tags |

The theorems of Mappings are about a positive number of peers; those about drawn
assignments also about draws that are proper, with the reason in their
comments. The module itself reads `ceil((float)vertexCount / processCount)` as exact, which it is up
to 2^24 vertices.

### MessageBox

1. `Shape` (types, what each program counter implies for the thread's other
   variables, and that a thread which writes the map holds `access`) is
   inductive. `NotifyFacts` bounds what a notification does to other threads.
2. `Apart`: a message is in at most one place: in one position of one queue, or
   in the hands of one producer. It is what makes sizes of sets add up, and is
   not a consequence of `Accounting` but needed for it.
3. `Accounting` alone is not inductive: it takes `Apart` for the push, where a
   message moves from `Reserved` to `Queued`, and for the pop, where exactly one
   leaves. Each step is classified by how it moves messages (`QuietPlaces`,
   `CheckPlaces`, `ReservePlaces`, `PushPlaces`, `TakePlaces`).
4. `BufferBound` is strengthened to `CheckedBound`, which counts messages whose
   producers have passed the test but not yet reserved: the bound must hold for
   these already, by at most one message for each producer other than the one
   that tests.
5. The refinement maps a producer's message to an offer, `wanted` to what is
   asked for; push, take and miss are the abstract steps, all others stutter
   (`StepImplements`), using `AskingOK` for what a scan still has to visit.

The size of a set of messages is the number of its bytes, and `SizeOfUnion`,
`SizeOfMore` and `SizeOfLess` are the facts about it that the rest uses.

### PeerToPeer

1. `Shape` types the connections, the boxes and what each thread holds, one
   conjunct for each program counter (`UserOK`, `HandlersOK`). `MessageIDs` says
   that the ids sent by a peer, to whomever, are distinct, ascend in `sent` and
   do not exceed `maxMsgID`, and that the id in the hand of a thread that is
   about to send is larger than all of them.
2. `ExactlyOnce` and `OneConfirmation` count, and a count is not inductive. What is:
   `Placed`. For each pair of peers and each id sent, exactly one of the *places*
   holds the message (the connection, `recvHandler` before or after it has
   confirmed, `inBox` under one tag, what is taken), and exactly one holds it
   or its confirmation (the connection, `recvHandler`, the way back, `ctrlHandler`,
   `ctrlBox` under one tag, the hand of a user thread that puts back what it
   took, the completed sends). No queue holds an id twice. Each action moves one
   id from one place to the next (`Gains`, `Loses`), and the two counts follow
   from the places being disjoint.
3. `InOrder`: of what a peer has sent to another, all that is on the connection
   was sent after what is in `recvHandler`, and that after the rest; queues
   ascend. `AllTagged`: the tag under which a message is filed is the one it was
   sent with.
4. The refinement (`TransportRefinement`): a push of a message is the abstract
   send, the push of its confirmation the acceptance, `recv` the receipt, and taking the
   confirmation the completion; everything else stutters. `accepted` is what was
   sent less what is not confirmed (`UnconfirmedCounts`). That `recvHandler`
   confirms in the order of the connection makes it a prefix; that ids of one
   tag ascend in `inBox` makes the head the abstract stream's next message.

### Signaling

1. `Inv` has one disjunct for each value of `pc` (`Phase`): what a process knows
   and which request or reply of its is on the wire. A reply already counts as
   known (`Told`, `Placed`), since the server has acted on it. `Books`: the phone
   book of a process is a prefix of the server's, as long as its progress in
   the lookups. `Places`: the processes with a vAddr and the entries of the
   server's phone books correspond one to one. `VAddrsUnique` and
   `BooksAreRight` follow.
2. `FindsItself` needs more, as a process ends and the next of its name must get
   a new context: `GroupInv` says that a name the server knows belongs to a
   context of processes of this name of which it saw none end (`Owners`), that
   processes start after those before them have ended (`LaunchedInOrder`), and,
   when launches are `Orderly`, that processes of one context are of one
   generation. The rest is counting: a generation has as many processes as the
   context has places.

### SplitContext

All messages of `splitContext` have tag 0, and those of successive calls share
streams. The proof gives each message of a pair of peers a *rank*, 6 times its
call plus its place in the call. `Owes` says which messages a peer sends another
in a call (it follows from who is in the context and who wants to be in the next),
`Reached(q)` up to which rank q has sent, `Got(p, q)` up to which p has received
from q. Both depend on the program counter only.

1. `Streams`: ranks ascend along a stream, box first and wire after it
   (`InOrder`); what is on its way is owed, is above `Got`, at most `Reached`, and
   has the contents its call gives it (`Sound`); all that is owed between them is
   on its way (`Complete`); nobody has received what was not sent (`Passed`). So
   the head of a stream is the very message the receiver waits for, which is
   `NeverMisread`.
2. `Calling`: what a call knows at each program counter (`Place`, `NewContext`), which
   contexts are known (`Known`, `FirstContext`), what the master has collected
   (`WhiteLists`) and the server has named (`Names`).
3. `HandlersSurvive` is proved together with it, in one induction: that a
   peer's handler goes on is what lets its messages be taken off the wire, and
   that its context is known when the first message of it comes is what
   `Passed` says of the barrier: a member of the new context that sends in it has
   heard everybody in the barrier, who had entered it.
4. `SplitAgrees` has an invariant of its own, `Agreement`: a member that holds
   the current context of a name has the list of those who wanted to be in it
   (`Members`), the same list as the others (`OneList`), which is the one still
   on its way (`ThisList`), under the id that is the result of its call
   (`Results`); ids of names differ (`DistinctIds`).

The messages of the model carry their call for this (`call`); no step reads it.

### Mappings and Cage

`Consecutive` and `Roundrobin` are arithmetic. `Random` and `GraphPartition` push
the vertices that are drawn for a peer; that such a filtered sequence has just
these elements, each once, takes an induction over its length. It is done with
the least number at which a prefix would fail (`LeastNumber`), which is first
order.

The announcement, the data of edge 0 and a gather have one tag, peers run ahead
of others by an iteration and by the announcement of the next round, and nothing
in a message says what it is. The proof gives the messages of a round a *rank*
in the order in which they are sent: 1 and 2 for the count and the ids of the
announcement, 3i, 3i + 1 and 3i + 2 for the data, the sizes and the gather of
iteration i. `Owes(q, p, r, t, k)` says that p receives from q in round r with tag
t something of rank k; it depends on the plan only. `Right` says what q may send
p, which is more: where a vertex has several hosts, all of them send, and the
last announced one is received from. `SentAll(q, r, t)`, `SentMost(q, r, t)` and `Got(p, q, t)`
say up to which rank q has sent and p has received, by their program counters;
`SentAll` and `SentMost` differ only for a peer that threw in the middle of a
`spread`.

1. `IInv` consists of `Types`; `Place`, what each program counter says about
   the work left and how far the others can be; `Knows`, which entries `peerMap`
   and `vertexMap` have of those heard of so far; and `Streams`, that each
   `inBox` queue of the current round ascends in rank, holds only what is right,
   nothing already received and nothing beyond what was sent, and all that was
   sent and is still owed.
2. A step changes one peer. Either it sends (`SendingStep`: the queues of other
   peers grow at their ends) or it receives (`ReceivingStep`: one queue of its own
   loses its head); all that is left for an action is to show how its ranks
   move (`AnnounceKeeps` ... `SendToRootKeeps`). No peer can be in the next
   round before all have distributed it, so a queue of the current round holds
   nothing of another.
3. `NeverMisread` follows: the head of the queue has the smallest rank of all on
   their way, what is waited for has the smallest rank that is owed and not
   received, and a message whose rank is owed is the one owed. So
   does `MapsAreRight`, from `Knows` of a peer that has heard everybody.
   `ThrowsOnlyForLost` adds that a vertex with a host is in the map, with a
   host that is in the context.
4. `CollectsNeighbours` where edges are received one by one follows from the same
   argument, as each head has rank 3i for the receiver's own i. Where a receive
   takes from any edge it may take what a neighbour has sent in a later
   iteration, so `Got` says nothing about data. What holds instead
   is `Past`: of the edge of a value taken, all that is on its way or will be sent
   is of a later iteration. It is kept since `SentMost` never falls (`SentGrows`) and
   what is added to a queue is above it (`Flow`).

### Only model-checked

* All liveness (`ConsumerServed`, `ProducerServed`, `Terminates`, `GroupForms`,
  `SplitReturns`, `AllReturn`, `Finishes`): fairness and ENABLED are out of the
  prover's reach.
* Collectives, `Delivered` of CageCollectives, `ResultsAreRight` and
  `PatternsAreRight`: the results are folds over sequences of operands, programs or edges, and
  what a fold computes takes an induction over data.
* `StaysInBounds` and `Aligned` of CageCollectives, where the lengths of results
  are those of flattened and selected sequences, and `UrisAreRanks` of BMPI,
  where an invariant would have to speak of every rest of a program: not proved.

## 5. Where code and documentation disagree

* MCUnlockedLookup: `tryDequeue` looks up its key a second time without the mutex
  (`MultiKeyMap.hpp:331`); the comment in line 256 calls it a critical section.
* MCFlood: `asyncSend` is documented as non-blocking (`socket/Base.hpp:141`) and
  blocks for ever when two peers fill each other's connections: `sendMtx` is
  held in the blocking send and needed by the handler that would drain.
* MCSplitNested: `splitContext` returns a subcontext of any context
  (`communicationPolicy/Base.hpp:249`), but throws where vAddr 0 is missing.
* MCSynchronize: the barrier (`communicationPolicy/Base.hpp:231`) never returns.

Without a run of their own: `cage.dox:257` says of `allGather` that data is sent to
all vertices, but only the first of a process sends anything for sure, as
`Cage.hpp:854` is never set back (section 3, `Aligned`); `gatherVar` resizes the vectors of all peers although
its documentation says they stay empty (`communicationPolicy/Base.hpp:120`);
`getHostedVertices` is called the opposite of `locateVertex`, which ends when a
peer leaves the context in a redistribution; `Cage::getEdge` cannot reach its
own error for a missing edge, since the bimap lookup in BGL throws before;
`asyncSend` promises an event, which BMPI's `splitContext` and the loops of the
examples and collectives do not all wait for (`BMPI.hpp:527`, `gol.cpp:172`): the
index grows while the vector shrinks; `recvFromSocket(std::stringstream&)` of
`ZMQ.hpp:194` reads an answer of the signaling server as a string that ends with
0, which the message does not contain.

## 6. Not modelled

* `mapping::Filter`, which uses `cage.comm` as an object and not as the pointer it
  is, and so cannot be instantiated, nor can `chain.cpp`, its only user; the
  examples under `zmq`, which do not compile either; subgraphs of BGL;
  serialization of tuples.
* `Cage::announce(vertices, false)`, which splits the graph's own context and is
  called by nobody; module SplitContext splits a split context.
* A collective between receives from any edge: the receive would take its
  messages, which have tag 0, for those of edge 0. No example does that.
* Message contents; wrap-around of message ids after 2^32 messages; the server's
  exit on an unknown request; connections that fail.
* What peers make of each other's messages when an `allGather` has parted them,
  beyond that they misread them.
* Dangling static pointers in the collectives of vertices: the models keep the
  caller's vectors alive. `reorder` of `gol` in module Examples is the identity,
  since `Consecutive` hosts the cells in order.
* MPI's own errors: a uri that is no rank of its communicator ends the process
  in the model (`NoUri`).

## 7. Plan

Done: MessageBox, PeerToPeer, Signaling, SplitContext and Cage with mappings and
patterns, receives from any edge and gathers, each with the proofs of the safety
properties its run checks, but `PatternsAreRight`; the two refinements;
Collectives; the collectives of vertices; BMPI and the examples on it.

Next, in this order:

1. *Prove*, with TLC first on each strengthened invariant: `Aligned` and
   `StaysInBounds` of CageCollectives; `UrisAreRanks` of BMPI where uris are
   copied.
2. *Extend*: a third peer in PeerToPeer; `announce(vertices, false)`.
3. *Stay with TLC*: liveness under fairness, which is out of the prover's reach,
   and what folds over sequences compute.
