----------------------------- MODULE MessageBox -----------------------------
(***************************************************************************)
(* The mailbox between the socket threads and the user thread of a peer:   *)
(* utils::MessageBox of include/graybat/utils/MultiKeyMap.hpp.             *)
(*                                                                         *)
(* Threads run at the grain of the source: the size check, the atomic      *)
(* counter update, every critical section of `access` and every timed wait *)
(* is a step of its own.  Sections that write the map are two steps        *)
(* (acquire, then body and release), so that a lookup made without the     *)
(* mutex can be seen to overlap one; sections that only read are one step. *)
(* The mutexes writeNotify and readNotify are left out: a thread holds     *)
(* them only to enter a timed wait, and no notifier takes them.            *)
(*                                                                         *)
(* A message is its identity; KeyOf and SizeOf give its key tuple and its  *)
(* number of bytes.  A message outside the box and outside every enqueue   *)
(* may be enqueued again: it stands for another one with the same fields,  *)
(* or for the same one, as when Base::ready puts a confirmation back.      *)
(***************************************************************************)
EXTENDS Integers, Sequences, FiniteSets

CONSTANTS
    Producers,      \* threads that call enqueue
    Consumers,      \* threads that call a dequeue (a thread may do both)
    Messages, Keys,
    KeyOf,          \* [Messages -> Keys]
    SizeOf,         \* [Messages -> 0 .. MaxMessageSize]
    MaxMessageSize,
    MaxBufferSize,  \* the constructor's maxBufferSize
    WaitKeys,       \* key tuples asked of waitDequeue(keys...)
    Prefixes,       \* key prefixes asked of waitDequeue(allKeys, someKeys...)
    TryKeys,        \* key tuples asked of tryDequeue
    NoMsg

Threads == Producers \cup Consumers

ASSUME MessagesAssumption ==
    /\ IsFiniteSet(Messages)
    /\ NoMsg \notin Messages
    /\ MaxMessageSize \in Nat
    /\ KeyOf \in [Messages -> Keys]
    /\ SizeOf \in [Messages -> 0 .. MaxMessageSize]

ASSUME BoxAssumption ==
    /\ IsFiniteSet(Threads)
    /\ MaxBufferSize \in Nat
    /\ Producers # {}
    /\ WaitKeys \subseteq Keys
    /\ TryKeys \subseteq Keys

VARIABLES
    bufferSize, \* the atomic byte counter
    access,     \* the thread inside a writing section of `access`, {} if none
    mapped,     \* the keys that have a queue (queues are never erased)
    queue,      \* [Keys -> Seq(Messages)]
    pc,         \* where each thread is; "idle" outside the box's methods
    msg,        \* message being enqueued, or returned by the last dequeue
    wanted,     \* keys the running dequeue accepts
    keysList    \* keysList of waitDequeue(allKeys, someKeys...)

vars == <<bufferSize, access, mapped, queue, pc, msg, wanted, keysList>>

-----------------------------------------------------------------------------
(* Key tuples and their prefixes, and bytes.                               *)

\* A prefix of the key tuple selects it.
PrefixMatch(p, k) == \A i \in DOMAIN p : p[i] = k[i]

\* std::map iterates over key tuples in lexicographic order.
KeyLess(a, b) ==
    \E i \in DOMAIN a : a[i] < b[i] /\ \A j \in 1 .. i - 1 : a[j] = b[j]

\* Mutation: the lookup forgets to compare prefixes.
ValuesOfAnyPrefix(K) == mapped

\* The keys that MultiKeyMap::values finds for a set of accepted keys.
Values(K) == mapped \cap K

\* The bytes of a set of messages, each byte once, and their number.
Bytes(S) == UNION {{m} \X (1 .. SizeOf[m]) : m \in S}
SizeOfSet(S) == Cardinality(Bytes(S))

Elements(s) == {s[i] : i \in DOMAIN s}
Queued == UNION {Elements(queue[k]) : k \in Keys}

\* A thread has added its message to bufferSize and not yet pushed it.
PushPCs == {"lockPush", "push"}
Reserved == {msg[t] : t \in {u \in Threads : pc[u] \in PushPCs}}

\* Messages some thread is enqueueing, at any step before its push.
EnqueuePCs == {"checkSize", "readWait", "reserve"} \cup PushPCs
Sending == {msg[t] : t \in {u \in Threads : pc[u] \in EnqueuePCs}}

-----------------------------------------------------------------------------
(* Timed waits.  wait_for returns when notified or after 100 ms.           *)

WriteWaits == {"waitKey", "waitEmpty", "waitLookup", "waitScan"}

\* Mutation: the emptiness test is an if, not a loop.
ResumeWithoutRetest(t) ==
    IF pc[t] = "waitLookup" /\ keysList[t] = {} THEN "lookup"
    ELSE [readWait   |-> "checkSize", waitKey  |-> "testKey", waitEmpty |-> "lockPop",
          waitLookup |-> "lockScan",  waitScan |-> "lookup"][pc[t]]

\* Where a thread goes on after its wait.
Resume(t) ==
    IF pc[t] = "waitLookup" /\ keysList[t] = {} THEN "lookup"
    ELSE [readWait   |-> "checkSize", waitKey  |-> "testKey", waitEmpty |-> "testEmpty",
          waitLookup |-> "lockScan",  waitScan |-> "lookup"][pc[t]]

\* The program counters notify_one can lead to, from f: one waiter resumes.
NotifyOne(waits, f) ==
    LET W == {t \in Threads : f[t] \in waits}
    IN  IF W = {} THEN {f} ELSE {[f EXCEPT ![t] = Resume(t)] : t \in W}

Goto(t, label) == pc' = [pc EXCEPT ![t] = label]
Call(t, label, K) ==
    /\ pc[t] = "idle"
    /\ Goto(t, label)
    /\ wanted' = [wanted EXCEPT ![t] = K]
    /\ msg' = [msg EXCEPT ![t] = NoMsg]
    /\ UNCHANGED <<bufferSize, access, mapped, queue, keysList>>

-----------------------------------------------------------------------------
Init ==
    /\ bufferSize = 0
    /\ access = {}
    /\ mapped = {}
    /\ queue = [k \in Keys |-> <<>>]
    /\ pc = [t \in Threads |-> "idle"]
    /\ msg = [t \in Threads |-> NoMsg]
    /\ wanted = [t \in Threads |-> {}]
    /\ keysList = [t \in Threads |-> {}]

-----------------------------------------------------------------------------
(* enqueue                                                                 *)

EnqueueCall(t, m) ==
    /\ t \in Producers
    /\ pc[t] = "idle"
    /\ m \notin Queued \cup Sending
    /\ Goto(t, "checkSize")
    /\ msg' = [msg EXCEPT ![t] = m]
    /\ wanted' = [wanted EXCEPT ![t] = {}]
    /\ UNCHANGED <<bufferSize, access, mapped, queue, keysList>>

\* Mutation: the size of the message is not part of the comparison.
EnqueueCheckIgnoringSize(t) ==
    /\ pc[t] = "checkSize"
    /\ \/ MaxBufferSize <= bufferSize /\ Goto(t, "readWait")
       \/ MaxBufferSize > bufferSize /\ Goto(t, "reserve")
    /\ UNCHANGED <<bufferSize, access, mapped, queue, msg, wanted, keysList>>

\* Mutation: a message that would exactly fill the box has to wait.
EnqueueCheckStrict(t) ==
    /\ pc[t] = "checkSize"
    /\ \/ MaxBufferSize <= bufferSize + SizeOf[msg[t]] /\ Goto(t, "readWait")
       \/ MaxBufferSize > bufferSize + SizeOf[msg[t]] /\ Goto(t, "reserve")
    /\ UNCHANGED <<bufferSize, access, mapped, queue, msg, wanted, keysList>>

\* The unlocked comparison of the loop condition.
EnqueueCheck(t) ==
    /\ pc[t] = "checkSize"
    /\ \/ /\ MaxBufferSize < bufferSize + SizeOf[msg[t]]
          /\ Goto(t, "readWait")
       \/ /\ MaxBufferSize >= bufferSize + SizeOf[msg[t]]
          /\ Goto(t, "reserve")
    /\ UNCHANGED <<bufferSize, access, mapped, queue, msg, wanted, keysList>>

\* Mutation: the counter is only kept by the dequeues.
EnqueueWithoutReserve(t) ==
    /\ pc[t] = "reserve"
    /\ Goto(t, "lockPush")
    /\ UNCHANGED <<bufferSize, access, mapped, queue, msg, wanted, keysList>>

EnqueueReserve(t) ==
    /\ pc[t] = "reserve"
    /\ bufferSize' = bufferSize + SizeOf[msg[t]]
    /\ Goto(t, "lockPush")
    /\ UNCHANGED <<access, mapped, queue, msg, wanted, keysList>>

EnqueueLock(t) ==
    /\ pc[t] = "lockPush"
    /\ access = {}
    /\ access' = {t}
    /\ Goto(t, "push")
    /\ UNCHANGED <<bufferSize, mapped, queue, msg, wanted, keysList>>

EnqueuePush(t) ==
    /\ pc[t] = "push"
    /\ LET k == KeyOf[msg[t]] IN
         /\ mapped' = mapped \cup {k}
         /\ queue' = [queue EXCEPT ![k] = Append(@, msg[t])]
    /\ access' = {}
    /\ msg' = [msg EXCEPT ![t] = NoMsg]
    /\ Goto(t, "notifyWrite")
    /\ UNCHANGED <<bufferSize, wanted, keysList>>

EnqueueNotify(t) ==
    /\ pc[t] = "notifyWrite"
    /\ pc' \in NotifyOne(WriteWaits, [pc EXCEPT ![t] = "idle"])
    /\ UNCHANGED <<bufferSize, access, mapped, queue, msg, wanted, keysList>>

-----------------------------------------------------------------------------
(* waitDequeue(keys...)                                                    *)

WaitDequeueCall(t, k) ==
    /\ t \in Consumers
    /\ Call(t, "testKey", {k})

TestKey(t) ==
    /\ pc[t] = "testKey"
    /\ access = {}
    /\ \/ wanted[t] \subseteq mapped /\ Goto(t, "testEmpty")
       \/ ~(wanted[t] \subseteq mapped) /\ Goto(t, "waitKey")
    /\ UNCHANGED <<bufferSize, access, mapped, queue, msg, wanted, keysList>>

TestEmpty(t) ==
    /\ pc[t] = "testEmpty"
    /\ access = {}
    /\ \E k \in wanted[t] :
         \/ queue[k] # <<>> /\ Goto(t, "lockPop")
         \/ queue[k] = <<>> /\ Goto(t, "waitEmpty")
    /\ UNCHANGED <<bufferSize, access, mapped, queue, msg, wanted, keysList>>

LockPop(t) ==
    /\ pc[t] = "lockPop"
    /\ access = {}
    /\ access' = {t}
    /\ Goto(t, "pop")
    /\ UNCHANGED <<bufferSize, mapped, queue, msg, wanted, keysList>>

\* Mutation: a dequeue does not give its bytes back.
TakeWithoutRelease(t, k) ==
    /\ queue[k] # <<>>
    /\ msg' = [msg EXCEPT ![t] = Head(queue[k])]
    /\ queue' = [queue EXCEPT ![k] = Tail(@)]
    /\ access' = {}
    /\ pc' \in NotifyOne({"readWait"}, [pc EXCEPT ![t] = "idle"])
    /\ wanted' = [wanted EXCEPT ![t] = {}]
    /\ keysList' = [keysList EXCEPT ![t] = {}]
    /\ UNCHANGED <<bufferSize, mapped>>

\* front(), pop(), the counter and readCondition.notify_one, under the mutex.
TakeFrom(t, k) ==
    /\ queue[k] # <<>>
    /\ msg' = [msg EXCEPT ![t] = Head(queue[k])]
    /\ queue' = [queue EXCEPT ![k] = Tail(@)]
    /\ bufferSize' = bufferSize - SizeOf[Head(queue[k])]
    /\ access' = {}
    /\ pc' \in NotifyOne({"readWait"}, [pc EXCEPT ![t] = "idle"])
    /\ wanted' = [wanted EXCEPT ![t] = {}]
    /\ keysList' = [keysList EXCEPT ![t] = {}]
    /\ UNCHANGED mapped

\* front() of an empty queue is undefined: no step models it, and the
\* invariant NeverPopsEmpty says that none is needed.
Pop(t) ==
    /\ pc[t] = "pop"
    /\ \E k \in wanted[t] : TakeFrom(t, k)

-----------------------------------------------------------------------------
(* waitDequeue(allKeys, someKeys...)                                       *)

WaitDequeuePrefixCall(t, p) ==
    /\ t \in Consumers
    /\ Call(t, "lookup", {k \in Keys : PrefixMatch(p, k)})

\* Every lookup, successful or not, is followed by one timed wait.
Lookup(t) ==
    /\ pc[t] = "lookup"
    /\ access = {}
    /\ keysList' = [keysList EXCEPT ![t] = Values(wanted[t])]
    /\ Goto(t, "waitLookup")
    /\ UNCHANGED <<bufferSize, access, mapped, queue, msg, wanted>>

LockScan(t) ==
    /\ pc[t] = "lockScan"
    /\ access = {}
    /\ access' = {t}
    /\ Goto(t, "scan")
    /\ UNCHANGED <<bufferSize, mapped, queue, msg, wanted, keysList>>

\* The first queue of keysList, in key order, that holds a message.
FirstNonEmpty(t, k) ==
    /\ k \in keysList[t]
    /\ queue[k] # <<>>
    /\ \A j \in keysList[t] : KeyLess(j, k) => queue[j] = <<>>

ScanFound(t) ==
    /\ pc[t] = "scan"
    /\ \E k \in keysList[t] : FirstNonEmpty(t, k) /\ TakeFrom(t, k)

ScanEmpty(t) ==
    /\ pc[t] = "scan"
    /\ \A k \in keysList[t] : queue[k] = <<>>
    /\ access' = {}
    /\ keysList' = [keysList EXCEPT ![t] = {}]
    /\ Goto(t, "waitScan")
    /\ UNCHANGED <<bufferSize, mapped, queue, msg, wanted>>

-----------------------------------------------------------------------------
(* tryDequeue                                                              *)

TryDequeueCall(t, k) ==
    /\ t \in Consumers
    /\ Call(t, "tryTest", {k})

Miss(t) ==
    /\ Goto(t, "idle")
    /\ wanted' = [wanted EXCEPT ![t] = {}]
    /\ UNCHANGED <<bufferSize, access, mapped, queue, msg, keysList>>

TryTest(t) ==
    /\ pc[t] = "tryTest"
    /\ access = {}
    /\ \/ /\ ~(wanted[t] \subseteq mapped)
          /\ Miss(t)
       \/ /\ wanted[t] \subseteq mapped
          /\ Goto(t, "tryEmpty")
          /\ UNCHANGED <<bufferSize, access, mapped, queue, msg, wanted, keysList>>

\* A thread inside its push is adding a key to the map.
InsertingKey == \E u \in access : pc[u] = "push" /\ KeyOf[msg[u]] \notin mapped

\* The second test reads the map without the mutex.  While another thread
\* inserts a key the search may miss the node and at() throws.
TryEmpty(t) ==
    /\ pc[t] = "tryEmpty"
    /\ \/ \E k \in wanted[t] : queue[k] = <<>> /\ Miss(t)
       \/ /\ \E k \in wanted[t] : queue[k] # <<>>
          /\ Goto(t, "lockPop")
          /\ UNCHANGED <<bufferSize, access, mapped, queue, msg, wanted, keysList>>
       \/ /\ InsertingKey
          /\ Goto(t, "thrown")
          /\ UNCHANGED <<bufferSize, access, mapped, queue, msg, wanted, keysList>>

-----------------------------------------------------------------------------
\* Mutation: wait instead of wait_for.
NoTimeout(t) == FALSE /\ UNCHANGED vars

\* wait_for returns without a notification.
Timeout(t) ==
    /\ pc[t] \in WriteWaits \cup {"readWait"}
    /\ Goto(t, Resume(t))
    /\ UNCHANGED <<bufferSize, access, mapped, queue, msg, wanted, keysList>>

Calls(t) ==
    \/ \E m \in Messages : EnqueueCall(t, m)
    \/ \E k \in WaitKeys : WaitDequeueCall(t, k)
    \/ \E p \in Prefixes : WaitDequeuePrefixCall(t, p)
    \/ \E k \in TryKeys : TryDequeueCall(t, k)

EnqueueStep(t) ==
    \/ EnqueueCheck(t) \/ EnqueueReserve(t) \/ EnqueueLock(t)
    \/ EnqueuePush(t) \/ EnqueueNotify(t)

DequeueStep(t) ==
    \/ TestKey(t) \/ TestEmpty(t) \/ LockPop(t) \/ Pop(t)
    \/ Lookup(t) \/ LockScan(t) \/ ScanFound(t) \/ ScanEmpty(t)
    \/ TryTest(t) \/ TryEmpty(t)

Step(t) == EnqueueStep(t) \/ DequeueStep(t) \/ Timeout(t)

Next == \E t \in Threads : Calls(t) \/ Step(t)

Spec == Init /\ [][Next]_vars

\* A running method goes on; nobody has to call one.
Fairness == \A t \in Threads : WF_vars(Step(t))

FairSpec == Spec /\ Fairness

-----------------------------------------------------------------------------
(* Properties                                                              *)

PCs == {"idle", "thrown", "notifyWrite", "testKey", "testEmpty", "lockPop", "pop",
        "lookup", "lockScan", "scan", "tryTest", "tryEmpty"}
       \cup EnqueuePCs \cup WriteWaits

\* The types of the state; bufferSize never goes below zero.
TypeOK ==
    /\ bufferSize \in Nat
    /\ access \in SUBSET Threads
    /\ mapped \in SUBSET Keys
    /\ queue \in [Keys -> Seq(Messages)]
    /\ pc \in [Threads -> PCs]
    /\ msg \in [Threads -> Messages \cup {NoMsg}]
    /\ wanted \in [Threads -> SUBSET Keys]
    /\ keysList \in [Threads -> SUBSET Keys]

\* The atomic counter, updated outside the mutex by enqueue and inside it by
\* the dequeues, always equals the bytes queued plus the bytes of messages
\* whose thread has passed line 225 and not yet pushed.
Accounting == bufferSize = SizeOfSet(Queued \cup Reserved)

\* No message is in the box twice, or in the box and still being enqueued.
NoDuplicates ==
    /\ \A k, l \in Keys : \A i \in DOMAIN queue[k], j \in DOMAIN queue[l] :
         queue[k][i] = queue[l][j] => k = l /\ i = j
    /\ Queued \cap Sending = {}

\* Check and reservation are not one step, so the limit can be overshot, but
\* by no more than one message for every producer after the first: with the
\* one recvHandler that fills inBox, maxBufferSize is never exceeded.
BufferBound == bufferSize <= MaxBufferSize + (Cardinality(Producers) - 1) * MaxMessageSize

\* The emptiness test and front() are two critical sections: the message seen
\* by the first is still there in the second (one consumer thread).
NeverPopsEmpty ==
    \A t \in Threads : pc[t] \in {"lockPop", "pop"} => \E k \in wanted[t] : queue[k] # <<>>

\* Comment at line 256: the access of multiKeyMap.at(keys...) is a critical
\* section.  No thread looks a key up while another one is writing the map.
LookupIsCritical == \A t \in Threads : pc[t] = "tryEmpty" => access = {}

\* A waitDequeue whose message has arrived returns, although notify_one is sent
\* without the waiter's mutex and can be lost between its test and its wait.
ConsumerServed ==
    \A c \in Consumers :
      (pc[c] \notin {"idle", "thrown"} /\ \E k \in wanted[c] : queue[k] # <<>>)
        ~> pc[c] \in {"idle", "thrown"}

\* The consumers receive from anybody again and again, and have stopped putting
\* messages back themselves.
Draining ==
    \A c \in Consumers :
      /\ []<>(pc[c] = "lookup" /\ wanted[c] = Keys)
      /\ <>[](pc[c] \notin EnqueuePCs)

\* A mutex that is free again and again is eventually acquired: a consumer that
\* finds nothing sleeps in a timed wait between any two of its sections.
LockFairness == \A p \in Producers : SF_vars(EnqueueLock(p))

\* An enqueue blocked on a full box returns if the consumers drain it, provided
\* its message alone fits into the box.
ProducerServed ==
    (Draining /\ LockFairness) =>
      \A p \in Producers \ Consumers :
        (pc[p] = "checkSize" /\ SizeOf[msg[p]] <= MaxBufferSize) ~> pc[p] = "idle"

-----------------------------------------------------------------------------
(* The box implements the atomic mailbox.                                  *)

Overshoot == MaxBufferSize + (Cardinality(Producers) - 1) * MaxMessageSize

Abstract == INSTANCE Mailbox WITH
    Capacity <- Overshoot,
    box <- queue,
    offer <- [t \in Threads |-> IF pc[t] \in EnqueuePCs THEN msg[t] ELSE NoMsg],
    accept <- wanted,
    got <- [t \in Threads |-> IF pc[t] \in EnqueuePCs THEN NoMsg ELSE msg[t]]

\* Enqueue and the three dequeues are linearizable: enqueue takes effect at its
\* push, a successful dequeue at its pop, and tryDequeue fails only when its
\* queue is empty.  Messages of one key leave in the order they were pushed,
\* and a push never exceeds the capacity.
ImplementsMailbox == Abstract!Spec
=============================================================================
