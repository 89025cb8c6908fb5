-------------------------- MODULE MessageBoxProofs --------------------------
(***************************************************************************)
(* Theorems about MessageBox, for every set of threads, messages and keys, *)
(* the last of them that it implements the atomic Mailbox.                 *)
(***************************************************************************)
EXTENDS MessageBox, FiniteSetTheorems, TLAPS

(* The shape of the state: types, and what a program counter says about    *)
(* the other variables of its thread.                                      *)

Types ==
    /\ bufferSize \in Int
    /\ access \in SUBSET Threads
    /\ mapped \in SUBSET Keys
    /\ queue \in [Keys -> Seq(Messages)]
    /\ pc \in [Threads -> PCs]
    /\ msg \in [Threads -> Messages \cup {NoMsg}]
    /\ wanted \in [Threads -> SUBSET Keys]
    /\ keysList \in [Threads -> SUBSET Keys]

KeyPCs == {"testKey", "waitKey", "testEmpty", "waitEmpty", "lockPop", "pop",
           "tryTest", "tryEmpty"}
PrefixPCs == {"lookup", "waitLookup", "lockScan", "scan", "waitScan"}
WritingPCs == {"push", "pop", "scan"}

HandsOK ==
    \A t \in Threads : pc[t] \in EnqueuePCs => t \in Producers /\ msg[t] \in Messages
KeysOK ==
    \A t \in Threads : pc[t] \in KeyPCs => t \in Consumers /\ \E k \in Keys : wanted[t] = {k}
PrefixOK ==
    \A t \in Threads : pc[t] \in PrefixPCs => t \in Consumers
LockOK ==
    \A t \in Threads : pc[t] \in WritingPCs => access = {t}

Shape == Types /\ HandsOK /\ KeysOK /\ PrefixOK /\ LockOK

-----------------------------------------------------------------------------
(* The waiter that a notification or a timeout resumes stays in its method. *)

LEMMA ResumeFacts ==
    ASSUME NEW t \in Threads, pc[t] \in WriteWaits \cup {"readWait"}
    PROVE  /\ pc[t] \in EnqueuePCs => Resume(t) = "checkSize"
           /\ pc[t] \in KeyPCs => Resume(t) \in {"testKey", "testEmpty"}
           /\ pc[t] \in PrefixPCs => Resume(t) \in {"lookup", "lockScan"}
           /\ Resume(t) \in PCs
  BY DEF WriteWaits, Resume, EnqueuePCs, PushPCs, KeyPCs, PrefixPCs, PCs

\* What notify_one, sent by t on its way back to its caller, does to pc.
LEMMA NotifyFacts ==
    ASSUME Types, NEW t \in Threads, NEW waits \in SUBSET (WriteWaits \cup {"readWait"}),
           pc' \in NotifyOne(waits, [pc EXCEPT ![t] = "idle"])
    PROVE  /\ pc' \in [Threads -> PCs]
           /\ pc'[t] = "idle"
           /\ \A u \in Threads \ {t} :
                \/ pc'[u] = pc[u]
                \/ pc[u] \in WriteWaits \cup {"readWait"} /\ pc'[u] = Resume(u)
  <1> DEFINE f == [pc EXCEPT ![t] = "idle"]
             W == {u \in Threads : f[u] \in waits}
  <1>1. f \in [Threads -> PCs] /\ f[t] = "idle" /\ \A u \in Threads \ {t} : f[u] = pc[u]
    BY DEF Types, PCs
  <1>2. CASE W = {}
    <2>1. pc' = f
      BY <1>2 DEF NotifyOne
    <2>2. QED BY <2>1, <1>1
  <1>3. CASE W # {}
    <2>1. PICK u \in W : pc' = [f EXCEPT ![u] = Resume(u)]
      BY <1>3 DEF NotifyOne
    <2>2. u # t
      BY <1>1, <2>1 DEF WriteWaits
    <2>3. pc[u] \in WriteWaits \cup {"readWait"}
      BY <1>1, <2>1, <2>2
    <2>4. Resume(u) \in PCs
      BY <2>1, <2>3, ResumeFacts
    <2>5. QED BY <2>1, <2>2, <2>3, <2>4, <1>1
  <1>4. QED BY <1>2, <1>3

\* What those facts mean for the classes of program counters.
LEMMA NotifyKeepsClasses ==
    ASSUME Types, NEW t \in Threads, NEW waits \in SUBSET (WriteWaits \cup {"readWait"}),
           pc' \in NotifyOne(waits, [pc EXCEPT ![t] = "idle"])
    PROVE  /\ pc' \in [Threads -> PCs]
           /\ pc'[t] = "idle"
           /\ \A u \in Threads \ {t} :
                /\ pc'[u] \in EnqueuePCs <=> pc[u] \in EnqueuePCs
                /\ pc'[u] \in PushPCs <=> pc[u] \in PushPCs
                /\ pc'[u] \in KeyPCs <=> pc[u] \in KeyPCs
                /\ pc'[u] \in PrefixPCs => pc[u] \in PrefixPCs
                /\ pc'[u] \in WritingPCs <=> pc[u] \in WritingPCs
                /\ pc'[u] = "reserve" <=> pc[u] = "reserve"
                /\ pc'[u] \in {"lockPop", "pop"} <=> pc[u] \in {"lockPop", "pop"}
  <1>1. /\ pc' \in [Threads -> PCs]
        /\ pc'[t] = "idle"
        /\ \A u \in Threads \ {t} :
             \/ pc'[u] = pc[u]
             \/ pc[u] \in WriteWaits \cup {"readWait"} /\ pc'[u] = Resume(u)
    BY NotifyFacts
  <1>2. ASSUME NEW u \in Threads \ {t}, pc[u] \in WriteWaits \cup {"readWait"},
               pc'[u] = Resume(u)
        PROVE  /\ pc'[u] \in EnqueuePCs <=> pc[u] \in EnqueuePCs
               /\ pc'[u] \in PushPCs <=> pc[u] \in PushPCs
               /\ pc'[u] \in KeyPCs <=> pc[u] \in KeyPCs
               /\ pc'[u] \in PrefixPCs => pc[u] \in PrefixPCs
               /\ pc'[u] \in WritingPCs <=> pc[u] \in WritingPCs
               /\ pc'[u] = "reserve" <=> pc[u] = "reserve"
               /\ pc'[u] \in {"lockPop", "pop"} <=> pc[u] \in {"lockPop", "pop"}
    BY <1>2, ResumeFacts
       DEF WriteWaits, EnqueuePCs, PushPCs, KeyPCs, PrefixPCs, WritingPCs
  <1>3. QED BY <1>1, <1>2

\* The reads of a dequeue and its take, as far as Shape goes.
LEMMA TakeKeepsShape ==
    ASSUME Shape, MessagesAssumption, NEW t \in Threads, NEW k \in Keys,
           pc[t] \in {"pop", "scan"}, TakeFrom(t, k)
    PROVE  Shape'
  <1>1. /\ pc' \in [Threads -> PCs]
        /\ pc'[t] = "idle"
        /\ \A u \in Threads \ {t} :
             /\ pc'[u] \in EnqueuePCs <=> pc[u] \in EnqueuePCs
             /\ pc'[u] \in KeyPCs <=> pc[u] \in KeyPCs
             /\ pc'[u] \in PrefixPCs => pc[u] \in PrefixPCs
             /\ pc'[u] \in WritingPCs <=> pc[u] \in WritingPCs
    BY NotifyKeepsClasses DEF TakeFrom, Shape
  <1>2. Head(queue[k]) \in Messages /\ Tail(queue[k]) \in Seq(Messages)
    BY DEF TakeFrom, Shape, Types
  <1>3. SizeOf[Head(queue[k])] \in Int
    BY <1>2 DEF MessagesAssumption
  <1>4. Types'
    <2>1. bufferSize' \in Int /\ access' \in SUBSET Threads /\ mapped' \in SUBSET Keys
      BY <1>2, <1>3 DEF Shape, Types, TakeFrom
    <2>2. queue' \in [Keys -> Seq(Messages)]
      BY <1>2 DEF Shape, Types, TakeFrom
    <2>3. msg' \in [Threads -> Messages \cup {NoMsg}]
      BY <1>2 DEF Shape, Types, TakeFrom
    <2>4. wanted' \in [Threads -> SUBSET Keys] /\ keysList' \in [Threads -> SUBSET Keys]
      BY DEF Shape, Types, TakeFrom
    <2>5. QED BY <1>1, <2>1, <2>2, <2>3, <2>4 DEF Types
  <1>5. HandsOK'
    BY <1>1 DEF Shape, Types, HandsOK, TakeFrom, EnqueuePCs, PushPCs
  <1>6. KeysOK' /\ PrefixOK'
    BY <1>1 DEF Shape, Types, KeysOK, PrefixOK, TakeFrom, KeyPCs, PrefixPCs
  <1>7. LockOK'
    <2> SUFFICES ASSUME NEW u \in Threads, pc'[u] \in WritingPCs
                 PROVE  FALSE
      BY DEF LockOK
    <2>1. u # t
      BY <1>1 DEF WritingPCs
    <2>2. access = {u} /\ access = {t}
      BY <1>1, <2>1 DEF Shape, LockOK, WritingPCs
    <2>3. QED BY <2>1, <2>2
  <1>8. QED BY <1>4, <1>5, <1>6, <1>7 DEF Shape

\* Every state has the shape described above.
THEOREM ShapeInvariant == Spec => []Shape
  <1> USE MessagesAssumption, BoxAssumption
  <1>1. Init => Shape
    BY DEF Init, Shape, Types, HandsOK, KeysOK, PrefixOK, LockOK, PCs,
           EnqueuePCs, PushPCs, KeyPCs, PrefixPCs, WritingPCs
  <1>2. Shape /\ [Next]_vars => Shape'
    <2> SUFFICES ASSUME Shape, [Next]_vars
                 PROVE  Shape'
      OBVIOUS
    <2> USE DEF Goto, Call
    <2>1. CASE UNCHANGED vars
      BY <2>1 DEF vars, Shape, Types, HandsOK, KeysOK, PrefixOK, LockOK
    <2>2. CASE Next
      <3>1. PICK t \in Threads : Calls(t) \/ Step(t)
        BY <2>2 DEF Next
      <3> USE DEF PCs, EnqueuePCs, PushPCs, KeyPCs, PrefixPCs, WritingPCs, WriteWaits
      <3>2. ASSUME NEW m \in Messages, EnqueueCall(t, m) PROVE Shape'
        BY <3>2 DEF EnqueueCall, Shape, Types, HandsOK, KeysOK, PrefixOK, LockOK
      <3>3. ASSUME NEW k \in WaitKeys, WaitDequeueCall(t, k) PROVE Shape'
        <4>1. k \in Keys
          OBVIOUS
        <4>2. wanted' = [wanted EXCEPT ![t] = {k}] /\ {k} \in SUBSET Keys /\ t \in Consumers
          BY <3>3, <4>1 DEF WaitDequeueCall
        <4>3. Types' /\ HandsOK' /\ PrefixOK' /\ LockOK'
          BY <3>3, <4>2 DEF WaitDequeueCall, Shape, Types, HandsOK, PrefixOK, LockOK
        <4>4. KeysOK'
          BY <3>3, <4>1, <4>2 DEF WaitDequeueCall, Shape, Types, KeysOK
        <4>5. QED BY <4>3, <4>4 DEF Shape
      <3>4. ASSUME NEW p \in Prefixes, WaitDequeuePrefixCall(t, p) PROVE Shape'
        BY <3>4 DEF WaitDequeuePrefixCall, Shape, Types, HandsOK, KeysOK, PrefixOK, LockOK
      <3>5. ASSUME NEW k \in TryKeys, TryDequeueCall(t, k) PROVE Shape'
        <4>1. k \in Keys
          OBVIOUS
        <4>2. wanted' = [wanted EXCEPT ![t] = {k}] /\ {k} \in SUBSET Keys /\ t \in Consumers
          BY <3>5, <4>1 DEF TryDequeueCall
        <4>3. Types' /\ HandsOK' /\ PrefixOK' /\ LockOK'
          BY <3>5, <4>2 DEF TryDequeueCall, Shape, Types, HandsOK, PrefixOK, LockOK
        <4>4. KeysOK'
          BY <3>5, <4>1, <4>2 DEF TryDequeueCall, Shape, Types, KeysOK
        <4>5. QED BY <4>3, <4>4 DEF Shape
      <3>6. CASE EnqueueCheck(t)
        BY <3>6 DEF EnqueueCheck, Shape, Types, HandsOK, KeysOK, PrefixOK, LockOK
      <3>7. CASE EnqueueReserve(t)
        <4>1. msg[t] \in Messages
          BY <3>7 DEF EnqueueReserve, Shape, HandsOK
        <4>2. SizeOf[msg[t]] \in Int
          BY <4>1
        <4>3. QED
          BY <3>7, <4>2 DEF EnqueueReserve, Shape, Types, HandsOK, KeysOK, PrefixOK, LockOK
      <3>8. CASE EnqueueLock(t)
        BY <3>8 DEF EnqueueLock, Shape, Types, HandsOK, KeysOK, PrefixOK, LockOK
      <3>9. CASE EnqueuePush(t)
        <4>1. msg[t] \in Messages /\ KeyOf[msg[t]] \in Keys
          BY <3>9 DEF EnqueuePush, Shape, HandsOK
        <4>2. queue' \in [Keys -> Seq(Messages)]
          BY <3>9, <4>1 DEF EnqueuePush, Shape, Types
        <4>3. Types'
          BY <3>9, <4>1, <4>2 DEF EnqueuePush, Shape, Types
        <4>4. HandsOK' /\ KeysOK' /\ PrefixOK'
          BY <3>9 DEF EnqueuePush, Shape, Types, HandsOK, KeysOK, PrefixOK
        <4>5. LockOK'
          BY <3>9 DEF EnqueuePush, Shape, Types, LockOK
        <4>6. QED BY <4>3, <4>4, <4>5 DEF Shape
      <3>10. CASE EnqueueNotify(t)
        <4>1. /\ pc' \in [Threads -> PCs]
              /\ pc'[t] = "idle"
              /\ \A u \in Threads \ {t} :
                   /\ pc'[u] \in EnqueuePCs <=> pc[u] \in EnqueuePCs
                   /\ pc'[u] \in KeyPCs <=> pc[u] \in KeyPCs
                   /\ pc'[u] \in PrefixPCs => pc[u] \in PrefixPCs
                   /\ pc'[u] \in WritingPCs <=> pc[u] \in WritingPCs
          BY <3>10, NotifyKeepsClasses DEF EnqueueNotify, Shape
        <4>2. QED
          BY <3>10, <4>1 DEF EnqueueNotify, Shape, Types, HandsOK, KeysOK, PrefixOK, LockOK
      <3>11. CASE TestKey(t)
        BY <3>11 DEF TestKey, Shape, Types, HandsOK, KeysOK, PrefixOK, LockOK
      <3>12. CASE TestEmpty(t)
        BY <3>12 DEF TestEmpty, Shape, Types, HandsOK, KeysOK, PrefixOK, LockOK
      <3>13. CASE LockPop(t)
        BY <3>13 DEF LockPop, Shape, Types, HandsOK, KeysOK, PrefixOK, LockOK
      <3>14. CASE Pop(t)
        <4>1. PICK k \in wanted[t] : TakeFrom(t, k)
          BY <3>14 DEF Pop
        <4>2. k \in Keys
          BY DEF Shape, Types
        <4>3. QED BY <3>14, <4>1, <4>2, TakeKeepsShape DEF Pop
      <3>15. CASE Lookup(t)
        BY <3>15 DEF Lookup, Values, Shape, Types, HandsOK, KeysOK, PrefixOK, LockOK
      <3>16. CASE LockScan(t)
        BY <3>16 DEF LockScan, Shape, Types, HandsOK, KeysOK, PrefixOK, LockOK
      <3>17. CASE ScanFound(t)
        <4>1. PICK k \in keysList[t] : TakeFrom(t, k)
          BY <3>17 DEF ScanFound
        <4>2. k \in Keys
          BY DEF Shape, Types
        <4>3. QED BY <3>17, <4>1, <4>2, TakeKeepsShape DEF ScanFound
      <3>18. CASE ScanEmpty(t)
        BY <3>18 DEF ScanEmpty, Shape, Types, HandsOK, KeysOK, PrefixOK, LockOK
      <3>19. CASE TryTest(t)
        BY <3>19 DEF TryTest, Miss, Shape, Types, HandsOK, KeysOK, PrefixOK, LockOK
      <3>20. CASE TryEmpty(t)
        BY <3>20 DEF TryEmpty, Miss, Shape, Types, HandsOK, KeysOK, PrefixOK, LockOK
      <3>21. CASE Timeout(t)
        <4>1. /\ pc[t] \in EnqueuePCs => Resume(t) = "checkSize"
              /\ pc[t] \in KeyPCs => Resume(t) \in {"testKey", "testEmpty"}
              /\ pc[t] \in PrefixPCs => Resume(t) \in {"lookup", "lockScan"}
          BY <3>21, ResumeFacts DEF Timeout
        <4>2. QED
          BY <3>21, <4>1 DEF Timeout, Shape, Types, HandsOK, KeysOK, PrefixOK, LockOK
      <3>22. QED
        BY <3>1, <3>2, <3>3, <3>4, <3>5, <3>6, <3>7, <3>8, <3>9, <3>10, <3>11, <3>12,
           <3>13, <3>14, <3>15, <3>16, <3>17, <3>18, <3>19, <3>20, <3>21
           DEF Calls, Step, EnqueueStep, DequeueStep
    <2>3. QED BY <2>1, <2>2
  <1>3. QED BY <1>1, <1>2, PTL DEF Spec

-----------------------------------------------------------------------------
(* A message seen by the emptiness test is still there at front(), with    *)
(* one consumer thread.                                                    *)

SingleConsumer == \A c, d \in Consumers : c = d

\* Every step keeps the queue of a thread that is about to pop non-empty.
THEOREM NeverPopsEmptyInvariant ==
    SingleConsumer => (Spec => []NeverPopsEmpty)
  <1> SUFFICES ASSUME SingleConsumer
               PROVE  Spec => []NeverPopsEmpty
    OBVIOUS
  <1> USE MessagesAssumption, BoxAssumption
  <1>1. Init => NeverPopsEmpty
    BY DEF Init, NeverPopsEmpty
  <1>2. Shape /\ NeverPopsEmpty /\ [Next]_vars => NeverPopsEmpty'
    <2> SUFFICES ASSUME Shape, NeverPopsEmpty, [Next]_vars,
                        NEW c \in Threads, pc'[c] \in {"lockPop", "pop"}
                 PROVE  \E k \in wanted'[c] : queue'[k] # <<>>
      BY DEF NeverPopsEmpty
    <2> USE DEF Goto, Call
    <2>1. CASE UNCHANGED vars
      BY <2>1 DEF vars, NeverPopsEmpty
    <2>2. CASE Next
      <3>1. PICK t \in Threads : Calls(t) \/ Step(t)
        BY <2>2 DEF Next
      <3>2. CASE Calls(t)
        <4>1. pc[c] \in {"lockPop", "pop"} /\ wanted'[c] = wanted[c] /\ queue' = queue
          BY <3>2 DEF Calls, EnqueueCall, WaitDequeueCall, WaitDequeuePrefixCall,
                      TryDequeueCall, Shape, Types
        <4>2. QED BY <4>1 DEF NeverPopsEmpty
      <3>3. ASSUME NEW k \in Keys, pc[t] \in {"pop", "scan"}, TakeFrom(t, k)
            PROVE  FALSE
        <4>1. t \in Consumers
          BY <3>3 DEF Shape, KeysOK, PrefixOK, KeyPCs, PrefixPCs
        <4>2. /\ pc'[t] = "idle"
              /\ c # t => pc[c] \in {"lockPop", "pop"}
          BY <3>3, NotifyKeepsClasses DEF TakeFrom, Shape
        <4>3. c \in Consumers /\ c # t
          BY <4>2 DEF Shape, KeysOK, KeyPCs
        <4>4. QED BY <4>1, <4>3 DEF SingleConsumer
      <3>4. CASE EnqueuePush(t)
        <4>1. /\ msg[t] \in Messages /\ KeyOf[msg[t]] \in Keys
              /\ pc[c] \in {"lockPop", "pop"} /\ wanted'[c] = wanted[c]
          BY <3>4 DEF EnqueuePush, Shape, Types, HandsOK, EnqueuePCs, PushPCs
        <4>2. PICK k \in wanted[c] : queue[k] # <<>>
          BY <4>1 DEF NeverPopsEmpty
        <4>3. k \in Keys /\ queue[k] \in Seq(Messages)
          BY DEF Shape, Types
        <4>4. queue'[k] = queue[k] \/ queue'[k] = Append(queue[k], msg[t])
          BY <3>4, <4>1, <4>3 DEF EnqueuePush, Shape, Types
        <4>5. queue'[k] # <<>>
          BY <4>1, <4>2, <4>3, <4>4
        <4>6. QED BY <4>1, <4>5
      <3>5. CASE EnqueueNotify(t)
        <4>1. pc[c] \in {"lockPop", "pop"}
          BY <3>5, NotifyKeepsClasses DEF EnqueueNotify, Shape
        <4>2. QED BY <3>5, <4>1 DEF EnqueueNotify, NeverPopsEmpty
      <3>6. CASE TestEmpty(t)
        BY <3>6 DEF TestEmpty, NeverPopsEmpty, Shape, Types
      <3>7. CASE TryEmpty(t)
        BY <3>7 DEF TryEmpty, Miss, NeverPopsEmpty, Shape, Types
      <3>8. CASE Pop(t)
        BY <3>3, <3>8 DEF Pop, Shape, Types
      <3>9. CASE ScanFound(t)
        BY <3>3, <3>9 DEF ScanFound, Shape, Types
      <3>10. CASE Timeout(t)
        <4>1. pc[c] \in {"lockPop", "pop"}
          BY <3>10, ResumeFacts
             DEF Timeout, Shape, Types, WriteWaits, EnqueuePCs, PushPCs, KeyPCs, PrefixPCs
        <4>2. QED BY <3>10, <4>1 DEF Timeout, NeverPopsEmpty
      <3>11. CASE \/ EnqueueCheck(t) \/ EnqueueReserve(t) \/ EnqueueLock(t)
                  \/ TestKey(t) \/ LockPop(t) \/ Lookup(t) \/ LockScan(t)
                  \/ ScanEmpty(t) \/ TryTest(t)
        <4>1. /\ pc[c] \in {"lockPop", "pop"} /\ wanted'[c] = wanted[c] /\ queue' = queue
          BY <3>11 DEF EnqueueCheck, EnqueueReserve, EnqueueLock, TestKey, LockPop, Lookup,
                       LockScan, ScanEmpty, TryTest, Miss, Shape, Types
        <4>2. QED BY <4>1 DEF NeverPopsEmpty
      <3>12. QED
        BY <3>1, <3>2, <3>4, <3>5, <3>6, <3>7, <3>8, <3>9, <3>10, <3>11
           DEF Step, EnqueueStep, DequeueStep
    <2>3. QED BY <2>1, <2>2
  <1>3. QED BY <1>1, <1>2, ShapeInvariant, PTL DEF Spec

-----------------------------------------------------------------------------
(* Bytes of sets of messages.  A size is the number of bytes of a set, so  *)
(* that sizes add up by the theorems about finite cardinalities.           *)

\* A set of messages has finitely many bytes.
LEMMA SizeIsNat ==
    ASSUME MessagesAssumption, NEW S \in SUBSET Messages
    PROVE  IsFiniteSet(Bytes(S)) /\ SizeOfSet(S) \in Nat
  <1>1. IsFiniteSet(1 .. MaxMessageSize)
    BY FS_Interval DEF MessagesAssumption
  <1>2. IsFiniteSet(S)
    BY FS_Subset DEF MessagesAssumption
  <1>3. IsFiniteSet(S \X (1 .. MaxMessageSize))
    BY <1>1, <1>2, FS_Product
  <1>4. Bytes(S) \in SUBSET (S \X (1 .. MaxMessageSize))
    BY DEF Bytes, MessagesAssumption
  <1>5. IsFiniteSet(Bytes(S))
    BY <1>3, <1>4, FS_Subset
  <1>6. QED BY <1>5, FS_CardinalityType DEF SizeOfSet

\* The size of a set of messages is at most the largest size for each.
LEMMA SizeBound ==
    ASSUME MessagesAssumption, NEW S \in SUBSET Messages
    PROVE  SizeOfSet(S) <= Cardinality(S) * MaxMessageSize
  <1>1. /\ IsFiniteSet(1 .. MaxMessageSize)
        /\ Cardinality(1 .. MaxMessageSize) = MaxMessageSize
    BY FS_Interval DEF MessagesAssumption
  <1>2. IsFiniteSet(S)
    BY FS_Subset DEF MessagesAssumption
  <1>3. /\ IsFiniteSet(S \X (1 .. MaxMessageSize))
        /\ Cardinality(S \X (1 .. MaxMessageSize)) = Cardinality(S) * MaxMessageSize
    BY <1>1, <1>2, FS_Product
  <1>4. Bytes(S) \in SUBSET (S \X (1 .. MaxMessageSize))
    BY DEF Bytes, MessagesAssumption
  <1>5. QED BY <1>3, <1>4, FS_Subset DEF SizeOfSet

\* Sizes of disjoint sets add up.
LEMMA SizeOfUnion ==
    ASSUME MessagesAssumption, NEW S \in SUBSET Messages, NEW T \in SUBSET Messages,
           S \cap T = {}
    PROVE  SizeOfSet(S \cup T) = SizeOfSet(S) + SizeOfSet(T)
  <1>1. IsFiniteSet(Bytes(S)) /\ IsFiniteSet(Bytes(T))
    BY SizeIsNat
  <1>2. Bytes(S \cup T) = Bytes(S) \cup Bytes(T)
    BY DEF Bytes
  <1>3. Bytes(S) \cap Bytes(T) = {}
    BY DEF Bytes
  <1>4. Cardinality(Bytes(S) \cap Bytes(T)) = 0
    BY <1>3, FS_EmptySet
  <1>5. SizeOfSet(S) \in Nat /\ SizeOfSet(T) \in Nat
    BY SizeIsNat
  <1>6. Cardinality(Bytes(S) \cup Bytes(T))
          = Cardinality(Bytes(S)) + Cardinality(Bytes(T)) - Cardinality(Bytes(S) \cap Bytes(T))
    BY <1>1, FS_Union
  <1>7. SizeOfSet(S \cup T) = Cardinality(Bytes(S) \cup Bytes(T))
    BY <1>2, Zenon DEF SizeOfSet
  <1>8. SizeOfSet(S) = Cardinality(Bytes(S)) /\ SizeOfSet(T) = Cardinality(Bytes(T))
    BY DEF SizeOfSet
  <1>9. SizeOfSet(S \cup T) = SizeOfSet(S) + SizeOfSet(T) - 0
    BY <1>4, <1>6, <1>7, <1>8, Zenon
  <1>10. QED BY <1>5, <1>9

\* The size of one message.
LEMMA SizeOfSingleton ==
    ASSUME MessagesAssumption, NEW m \in Messages
    PROVE  SizeOfSet({m}) = SizeOf[m]
  <1>1. SizeOf[m] \in Nat
    BY DEF MessagesAssumption
  <1>2. IsFiniteSet({m}) /\ Cardinality({m}) = 1
    BY FS_Singleton
  <1>3. IsFiniteSet(1 .. SizeOf[m]) /\ Cardinality(1 .. SizeOf[m]) = SizeOf[m]
    BY <1>1, FS_Interval
  <1>4. Cardinality({m} \X (1 .. SizeOf[m])) = Cardinality({m}) * Cardinality(1 .. SizeOf[m])
    BY <1>2, <1>3, FS_Product
  <1>5. Cardinality({m} \X (1 .. SizeOf[m])) = 1 * SizeOf[m]
    BY <1>2, <1>3, <1>4, Zenon
  <1>6. Bytes({m}) = {m} \X (1 .. SizeOf[m])
    BY Zenon DEF Bytes
  <1>7. SizeOfSet({m}) = 1 * SizeOf[m]
    BY <1>5, <1>6, Zenon DEF SizeOfSet
  <1>8. QED BY <1>1, <1>7

\* One more message, one message less.
LEMMA SizeOfMore ==
    ASSUME MessagesAssumption, NEW S \in SUBSET Messages, NEW m \in Messages \ S
    PROVE  SizeOfSet(S \cup {m}) = SizeOfSet(S) + SizeOf[m]
  <1>1. {m} \in SUBSET Messages /\ S \cap {m} = {}
    OBVIOUS
  <1>2. SizeOfSet(S \cup {m}) = SizeOfSet(S) + SizeOfSet({m})
    BY <1>1, SizeOfUnion
  <1>3. QED BY <1>2, SizeOfSingleton

LEMMA SizeOfLess ==
    ASSUME MessagesAssumption, NEW S \in SUBSET Messages, NEW m \in S
    PROVE  SizeOfSet(S \ {m}) = SizeOfSet(S) - SizeOf[m]
  <1>1. SizeOfSet((S \ {m}) \cup {m}) = SizeOfSet(S \ {m}) + SizeOf[m]
    BY SizeOfMore
  <1>2. (S \ {m}) \cup {m} = S
    OBVIOUS
  <1>3. SizeOfSet(S \ {m}) \in Nat /\ SizeOf[m] \in Nat
    BY SizeIsNat DEF MessagesAssumption
  <1>4. QED BY <1>1, <1>2, <1>3

-----------------------------------------------------------------------------
(* Where the messages are.  Five kinds of step move a message or reserve   *)
(* its bytes; every other step is quiet.                                   *)

Quiet ==
    /\ UNCHANGED <<bufferSize, queue>>
    /\ \A u \in Threads :
         /\ pc'[u] \in EnqueuePCs <=> pc[u] \in EnqueuePCs
         /\ pc'[u] \in PushPCs <=> pc[u] \in PushPCs
         /\ pc'[u] = "reserve" <=> pc[u] = "reserve"
         /\ pc[u] \in EnqueuePCs => msg'[u] = msg[u]

\* The steps of the specification, sorted by what they do to messages.
LEMMA StepKinds ==
    ASSUME Shape, [Next]_vars
    PROVE  \/ Quiet
           \/ \E t \in Threads : \E m \in Messages : EnqueueCall(t, m)
           \/ \E t \in Threads : EnqueueCheck(t)
           \/ \E t \in Threads : EnqueueReserve(t)
           \/ \E t \in Threads : EnqueuePush(t)
           \/ \E t \in Threads : \E k \in Keys : pc[t] \in {"pop", "scan"} /\ TakeFrom(t, k)
  <1> USE DEF Goto, Call
  <1>1. CASE UNCHANGED vars
    BY <1>1 DEF vars, Quiet
  <1>2. CASE Next
    <2>1. PICK t \in Threads : Calls(t) \/ Step(t)
      BY <1>2 DEF Next
    <2>2. CASE EnqueueNotify(t)
      <3>1. /\ pc'[t] = "idle"
            /\ \A u \in Threads \ {t} :
                 /\ pc'[u] \in EnqueuePCs <=> pc[u] \in EnqueuePCs
                 /\ pc'[u] \in PushPCs <=> pc[u] \in PushPCs
                 /\ pc'[u] = "reserve" <=> pc[u] = "reserve"
        BY <2>2, NotifyKeepsClasses DEF EnqueueNotify, Shape
      <3>2. Quiet
        BY <2>2, <3>1 DEF EnqueueNotify, Quiet, EnqueuePCs, PushPCs
      <3>3. QED BY <3>2
    <2>3. CASE Timeout(t)
      <3>1. pc[t] \in EnqueuePCs => Resume(t) = "checkSize"
        BY <2>3, ResumeFacts DEF Timeout
      <3>2. pc[t] \notin EnqueuePCs =>
              Resume(t) \in {"testKey", "testEmpty", "lookup", "lockScan"}
        BY <2>3, ResumeFacts
           DEF Timeout, WriteWaits, EnqueuePCs, PushPCs, KeyPCs, PrefixPCs
      <3>3. Quiet
        BY <2>3, <3>1, <3>2 DEF Timeout, Quiet, Shape, Types, WriteWaits, EnqueuePCs, PushPCs
      <3>4. QED BY <3>3
    <2>4. CASE Pop(t) \/ ScanFound(t)
      <3>1. PICK k \in wanted[t] \cup keysList[t] : pc[t] \in {"pop", "scan"} /\ TakeFrom(t, k)
        BY <2>4 DEF Pop, ScanFound
      <3>2. k \in Keys
        BY DEF Shape, Types
      <3>3. QED BY <3>1, <3>2
    <2>5. CASE \/ \E k \in WaitKeys : WaitDequeueCall(t, k)
               \/ \E p \in Prefixes : WaitDequeuePrefixCall(t, p)
               \/ \E k \in TryKeys : TryDequeueCall(t, k)
      <3>1. Quiet
        BY <2>5 DEF WaitDequeueCall, WaitDequeuePrefixCall, TryDequeueCall, Quiet,
                    Shape, Types, EnqueuePCs, PushPCs
      <3>2. QED BY <3>1
    <2>6. CASE \/ EnqueueLock(t) \/ TestKey(t) \/ TestEmpty(t) \/ LockPop(t) \/ Lookup(t)
               \/ LockScan(t) \/ ScanEmpty(t) \/ TryTest(t) \/ TryEmpty(t)
      <3>1. Quiet
        BY <2>6 DEF EnqueueLock, TestKey, TestEmpty, LockPop, Lookup, LockScan, ScanEmpty,
                    TryTest, TryEmpty, Miss, Quiet, Shape, Types, EnqueuePCs, PushPCs
      <3>2. QED BY <3>1
    <2>7. QED
      BY <2>1, <2>2, <2>3, <2>4, <2>5, <2>6 DEF Calls, Step, EnqueueStep, DequeueStep
  <1>3. QED BY <1>1, <1>2

\* The elements of a sequence after a push and after a pop.
LEMMA AppendElements ==
    ASSUME NEW S, NEW s \in Seq(S), NEW m \in S
    PROVE  /\ Elements(Append(s, m)) = Elements(s) \cup {m}
           /\ \A i \in DOMAIN Append(s, m) :
                \/ i \in DOMAIN s /\ Append(s, m)[i] = s[i]
                \/ i = Len(s) + 1 /\ Append(s, m)[i] = m
  <1>1. /\ DOMAIN Append(s, m) = DOMAIN s \cup {Len(s) + 1}
        /\ Append(s, m)[Len(s) + 1] = m
        /\ \A i \in DOMAIN s : Append(s, m)[i] = s[i]
    OBVIOUS
  <1>2. Elements(Append(s, m)) = Elements(s) \cup {m}
    BY <1>1, Zenon DEF Elements
  <1>3. QED BY <1>1, <1>2

LEMMA TailElements ==
    ASSUME NEW S, NEW s \in Seq(S), s # <<>>,
           \A i, j \in DOMAIN s : s[i] = s[j] => i = j
    PROVE  /\ Head(s) \in Elements(s)
           /\ Elements(Tail(s)) = Elements(s) \ {Head(s)}
           /\ \A i \in DOMAIN Tail(s) : i + 1 \in DOMAIN s /\ Tail(s)[i] = s[i + 1]
  <1>1. /\ Len(s) \in Nat \ {0} /\ DOMAIN s = 1 .. Len(s) /\ Head(s) = s[1]
        /\ DOMAIN Tail(s) = 1 .. Len(s) - 1
        /\ \A i \in DOMAIN Tail(s) : Tail(s)[i] = s[i + 1]
    OBVIOUS
  <1>2. 1 \in DOMAIN s /\ \A i \in DOMAIN Tail(s) : i + 1 \in DOMAIN s /\ i + 1 # 1
    BY <1>1
  <1>3. \A x \in Elements(s) \ {Head(s)} : x \in Elements(Tail(s))
    <2> SUFFICES ASSUME NEW i \in DOMAIN s, s[i] # Head(s)
                 PROVE  \E j \in DOMAIN Tail(s) : Tail(s)[j] = s[i]
      BY DEF Elements
    <2>1. i - 1 \in DOMAIN Tail(s) /\ (i - 1) + 1 = i
      BY <1>1
    <2>2. QED BY <1>1, <2>1
  <1>4. \A x \in Elements(Tail(s)) : x \in Elements(s) /\ x # Head(s)
    BY <1>1, <1>2 DEF Elements
  <1>5. Head(s) \in Elements(s)
    BY <1>1, <1>2 DEF Elements
  <1>6. Elements(Tail(s)) = Elements(s) \ {Head(s)}
    BY <1>3, <1>4
  <1>7. QED BY <1>1, <1>2, <1>5, <1>6

\* A push adds its message to the queued ones.
LEMMA PushQueued ==
    ASSUME Shape, MessagesAssumption, NEW t \in Threads, EnqueuePush(t)
    PROVE  /\ msg[t] \in Messages /\ KeyOf[msg[t]] \in Keys
           /\ queue' = [queue EXCEPT ![KeyOf[msg[t]]] = Append(@, msg[t])]
           /\ Queued' = Queued \cup {msg[t]}
  <1> DEFINE m == msg[t]
             l == KeyOf[msg[t]]
  <1>1. m \in Messages /\ l \in Keys
    BY DEF EnqueuePush, Shape, HandsOK, EnqueuePCs, PushPCs, MessagesAssumption
  <1>2. queue' = [queue EXCEPT ![l] = Append(@, m)]
    BY DEF EnqueuePush
  <1>3. queue[l] \in Seq(Messages)
    BY <1>1 DEF Shape, Types
  <1>4. Elements(queue'[l]) = Elements(queue[l]) \cup {m}
    BY <1>1, <1>2, <1>3, AppendElements DEF Shape, Types
  <1>5. \A k \in Keys \ {l} : queue'[k] = queue[k]
    BY <1>1, <1>2 DEF Shape, Types
  <1>6. Queued' = Queued \cup {m}
    <2>1. Queued' = UNION {Elements(queue'[k]) : k \in Keys}
      BY DEF Queued, Elements
    <2>2. QED BY <1>1, <1>4, <1>5, <2>1 DEF Queued
  <1>7. QED BY <1>1, <1>2, <1>6

\* A take removes the head from the queued messages.
LEMMA TakeQueued ==
    ASSUME Shape, NoDuplicates, NEW t \in Threads, NEW k \in Keys, TakeFrom(t, k)
    PROVE  /\ Head(queue[k]) \in Messages \cap Queued
           /\ queue' = [queue EXCEPT ![k] = Tail(@)]
           /\ Queued' = Queued \ {Head(queue[k])}
  <1> DEFINE h == Head(queue[k])
  <1>1. queue[k] \in Seq(Messages) /\ queue[k] # <<>> /\ h \in Messages
    BY DEF Shape, Types, TakeFrom
  <1>2. queue' = [queue EXCEPT ![k] = Tail(@)]
    BY DEF TakeFrom
  <1>3. \A i, j \in DOMAIN queue[k] : queue[k][i] = queue[k][j] => i = j
    BY DEF NoDuplicates
  <1>4. h \in Elements(queue[k]) /\ Elements(Tail(queue[k])) = Elements(queue[k]) \ {h}
    BY <1>1, <1>3, TailElements
  <1>5. Elements(queue'[k]) = Elements(queue[k]) \ {h}
    BY <1>2, <1>4 DEF Shape, Types
  <1>6. \A l \in Keys \ {k} : queue'[l] = queue[l] /\ h \notin Elements(queue[l])
    BY <1>2, <1>4 DEF Shape, Types, NoDuplicates, Elements
  <1>7. Queued' = UNION {Elements(queue'[l]) : l \in Keys}
    BY DEF Queued, Elements
  <1>8. Queued' = Queued \ {h}
    BY <1>5, <1>6, <1>7 DEF Queued
  <1>9. h \in Queued
    BY <1>4 DEF Queued
  <1>10. QED BY <1>1, <1>2, <1>8, <1>9

-----------------------------------------------------------------------------
(* Every message is in one place.                                          *)

HandsApart ==
    \A t, u \in Threads :
      pc[t] \in EnqueuePCs /\ pc[u] \in EnqueuePCs /\ msg[t] = msg[u] => t = u

Apart == NoDuplicates /\ HandsApart

\* A step that moves no message keeps the places apart.
LEMMA StillApart ==
    ASSUME Apart, queue' = queue,
           \A u \in Threads : /\ pc'[u] \in EnqueuePCs <=> pc[u] \in EnqueuePCs
                              /\ pc[u] \in EnqueuePCs => msg'[u] = msg[u]
    PROVE  Apart' /\ Sending' = Sending
  <1>1. Sending' = Sending
    BY DEF Sending
  <1>2. Queued' = Queued
    BY DEF Queued, Elements
  <1>3. QED BY <1>1, <1>2 DEF Apart, NoDuplicates, HandsApart

LEMMA EnqueueCallKeepsApart ==
    ASSUME Shape, Apart, NEW t \in Threads, NEW m \in Messages, EnqueueCall(t, m)
    PROVE  Apart'
  <1>1. /\ pc'[t] \in EnqueuePCs /\ pc[t] \notin EnqueuePCs /\ msg'[t] = m
        /\ \A u \in Threads \ {t} : pc'[u] = pc[u] /\ msg'[u] = msg[u]
    BY DEF EnqueueCall, Goto, Shape, Types, EnqueuePCs, PushPCs
  <1>2. m \notin Queued \cup Sending /\ queue' = queue /\ Queued' = Queued
    BY DEF EnqueueCall, Queued, Elements
  <1>3. Sending' = Sending \cup {m}
    BY <1>1 DEF Sending
  <1>4. NoDuplicates'
    BY <1>2, <1>3 DEF Apart, NoDuplicates
  <1>5. HandsApart'
    BY <1>1, <1>2 DEF Apart, HandsApart, Sending
  <1>6. QED BY <1>4, <1>5 DEF Apart

LEMMA PushKeepsApart ==
    ASSUME Shape, Apart, MessagesAssumption, NEW t \in Threads, EnqueuePush(t)
    PROVE  Apart'
  <1> DEFINE m == msg[t]
             l == KeyOf[msg[t]]
  <1>1. /\ m \in Messages /\ l \in Keys
        /\ queue' = [queue EXCEPT ![l] = Append(@, m)]
        /\ Queued' = Queued \cup {m}
    BY PushQueued
  <1>2. /\ pc[t] \in EnqueuePCs /\ pc'[t] \notin EnqueuePCs
        /\ \A u \in Threads \ {t} : pc'[u] = pc[u] /\ msg'[u] = msg[u]
    BY DEF EnqueuePush, Goto, Shape, Types, EnqueuePCs, PushPCs
  <1>3. Sending' \subseteq Sending \ {m} /\ m \in Sending
    BY <1>2 DEF Sending, Apart, HandsApart
  <1>4. Queued' \cap Sending' = {}
    BY <1>1, <1>3 DEF Apart, NoDuplicates
  <1>5. \A k \in Keys : \A i \in DOMAIN queue[k] : queue[k][i] # m
    BY <1>3 DEF Apart, NoDuplicates, Queued, Elements
  <1>6. /\ \A k \in Keys \ {l} : queue'[k] = queue[k]
        /\ \A i \in DOMAIN queue'[l] :
             \/ i \in DOMAIN queue[l] /\ queue'[l][i] = queue[l][i]
             \/ i = Len(queue[l]) + 1 /\ queue'[l][i] = m
    BY <1>1, AppendElements DEF Shape, Types
  <1>7. ASSUME NEW k \in Keys, NEW j \in Keys, NEW a \in DOMAIN queue'[k],
               NEW b \in DOMAIN queue'[j], queue'[k][a] = queue'[j][b]
        PROVE  k = j /\ a = b
    <2>1. \/ a \in DOMAIN queue[k] /\ queue'[k][a] = queue[k][a]
          \/ k = l /\ a = Len(queue[l]) + 1 /\ queue'[k][a] = m
      BY <1>6
    <2>2. \/ b \in DOMAIN queue[j] /\ queue'[j][b] = queue[j][b]
          \/ j = l /\ b = Len(queue[l]) + 1 /\ queue'[j][b] = m
      BY <1>6
    <2>3. QED BY <1>5, <1>7, <2>1, <2>2 DEF Apart, NoDuplicates
  <1>8. HandsApart'
    BY <1>2 DEF Apart, HandsApart
  <1>9. QED BY <1>4, <1>7, <1>8 DEF Apart, NoDuplicates

LEMMA TakeKeepsApart ==
    ASSUME Shape, Apart, NEW t \in Threads, NEW k \in Keys,
           pc[t] \in {"pop", "scan"}, TakeFrom(t, k)
    PROVE  Apart'
  <1>1. /\ queue' = [queue EXCEPT ![k] = Tail(@)]
        /\ Queued' = Queued \ {Head(queue[k])}
    BY TakeQueued DEF Apart
  <1>2. \A u \in Threads : /\ pc'[u] \in EnqueuePCs <=> pc[u] \in EnqueuePCs
                           /\ pc[u] \in EnqueuePCs => msg'[u] = msg[u]
    <2>1. pc'[t] \notin EnqueuePCs /\ pc[t] \notin EnqueuePCs
      BY NotifyKeepsClasses DEF TakeFrom, Shape, EnqueuePCs, PushPCs
    <2>2. \A u \in Threads \ {t} : /\ pc'[u] \in EnqueuePCs <=> pc[u] \in EnqueuePCs
                                   /\ msg'[u] = msg[u]
      BY NotifyKeepsClasses DEF TakeFrom, Shape, Types
    <2>3. QED BY <2>1, <2>2
  <1>3. Sending' = Sending /\ HandsApart'
    BY <1>2 DEF Sending, Apart, HandsApart
  <1>4. /\ \A l \in Keys \ {k} : queue'[l] = queue[l]
        /\ \A i \in DOMAIN queue'[k] : i + 1 \in DOMAIN queue[k] /\ queue'[k][i] = queue[k][i + 1]
    <2>1. queue[k] \in Seq(Messages) /\ queue[k] # <<>>
      BY DEF TakeFrom, Shape, Types
    <2>2. \A i \in DOMAIN Tail(queue[k]) :
            i + 1 \in DOMAIN queue[k] /\ Tail(queue[k])[i] = queue[k][i + 1]
      BY <2>1, TailElements DEF Apart, NoDuplicates
    <2>3. QED BY <1>1, <2>2 DEF Shape, Types
  <1>5. ASSUME NEW j \in Keys, NEW l \in Keys, NEW a \in DOMAIN queue'[j],
               NEW b \in DOMAIN queue'[l], queue'[j][a] = queue'[l][b]
        PROVE  j = l /\ a = b
    <2> DEFINE x == IF j = k THEN a + 1 ELSE a
               y == IF l = k THEN b + 1 ELSE b
    <2>1. x \in DOMAIN queue[j] /\ queue'[j][a] = queue[j][x]
      BY <1>4
    <2>2. y \in DOMAIN queue[l] /\ queue'[l][b] = queue[l][y]
      BY <1>4
    <2>3. j = l /\ x = y
      <3> HIDE DEF x, y
      <3>1. queue[j][x] = queue[l][y]
        BY <1>5, <2>1, <2>2
      <3>2. QED BY <2>1, <2>2, <3>1 DEF Apart, NoDuplicates
    <2>4. a \in Int /\ b \in Int
      <3>1. queue[k] \in Seq(Messages) /\ queue[k] # <<>>
        BY DEF TakeFrom, Shape, Types
      <3>2. Tail(queue[k]) \in Seq(Messages)
        BY <3>1
      <3>3. queue'[j] \in Seq(Messages) /\ queue'[l] \in Seq(Messages)
        BY <1>1, <3>2 DEF Shape, Types
      <3>4. QED BY <3>3
    <2>5. QED BY <2>3, <2>4
  <1>6. QED BY <1>1, <1>3, <1>5 DEF Apart, NoDuplicates

\* No message is queued twice, or queued while it is being enqueued.
THEOREM ApartInvariant == Spec => []Apart
  <1> USE MessagesAssumption
  <1>1. Init => Apart
    BY DEF Init, Apart, NoDuplicates, HandsApart, Queued, Sending, Elements,
           EnqueuePCs, PushPCs
  <1>2. Shape /\ Apart /\ [Next]_vars => Apart'
    <2> SUFFICES ASSUME Shape, Apart, [Next]_vars
                 PROVE  Apart'
      OBVIOUS
    <2>1. CASE Quiet
      BY <2>1, StillApart DEF Quiet
    <2>2. ASSUME NEW t \in Threads, EnqueueCheck(t) \/ EnqueueReserve(t)
          PROVE  Apart'
      <3>1. /\ queue' = queue
            /\ \A u \in Threads : /\ pc'[u] \in EnqueuePCs <=> pc[u] \in EnqueuePCs
                                  /\ pc[u] \in EnqueuePCs => msg'[u] = msg[u]
        BY <2>2 DEF EnqueueCheck, EnqueueReserve, Goto, Shape, Types, EnqueuePCs, PushPCs
      <3>2. QED BY <3>1, StillApart
    <2>3. QED
      BY <2>1, <2>2, StepKinds, EnqueueCallKeepsApart, PushKeepsApart, TakeKeepsApart
  <1>3. QED BY <1>1, <1>2, ShapeInvariant, PTL DEF Spec

-----------------------------------------------------------------------------
(* The byte counter and its bound.                                         *)

Held == Queued \cup Reserved

\* Messages that have passed the size check and are not reserved yet.
Checked == {msg[t] : t \in {u \in Threads : pc[u] = "reserve"}}

\* What the counter becomes when every checked message is added to it.
CheckedBound == SizeOfSet(Held \cup Checked) <= Overshoot

LEMMA PlacesFacts ==
    ASSUME Shape, Apart
    PROVE  /\ Queued \in SUBSET Messages /\ Reserved \in SUBSET Messages
           /\ Checked \in SUBSET Messages
           /\ Queued \cap Reserved = {} /\ Held \cap Checked = {}
           /\ \A t \in Threads : pc[t] \in EnqueuePCs => msg[t] \in Messages \ Queued
           /\ \A t \in Threads :
                pc[t] \in EnqueuePCs \ PushPCs => msg[t] \notin Held
           /\ \A t \in Threads :
                pc[t] \in EnqueuePCs \ {"reserve"} => msg[t] \notin Checked
  <1>1. Queued \in SUBSET Messages
    <2> SUFFICES ASSUME NEW k \in Keys, NEW i \in DOMAIN queue[k]
                 PROVE  queue[k][i] \in Messages
      BY DEF Queued, Elements
    <2>1. queue[k] \in Seq(Messages)
      BY DEF Shape, Types
    <2>2. QED BY <2>1
  <1>2. Reserved \in SUBSET Messages /\ Checked \in SUBSET Messages
    BY DEF Shape, HandsOK, Reserved, Checked, EnqueuePCs, PushPCs
  <1>3. \A t \in Threads : pc[t] \in EnqueuePCs => msg[t] \in Messages \ Queued
    BY DEF Shape, HandsOK, Apart, NoDuplicates, Sending
  <1>4. \A t \in Threads : pc[t] \in EnqueuePCs \ PushPCs => msg[t] \notin Held
    BY <1>3 DEF Held, Reserved, Apart, HandsApart, EnqueuePCs
  <1>5. \A t \in Threads : pc[t] \in EnqueuePCs \ {"reserve"} => msg[t] \notin Checked
    BY DEF Checked, Apart, HandsApart, EnqueuePCs
  <1>6. Queued \cap Reserved = {} /\ Held \cap Checked = {}
    BY <1>3, <1>4 DEF Held, Reserved, Checked, EnqueuePCs, PushPCs
  <1>7. QED BY <1>1, <1>2, <1>3, <1>4, <1>5, <1>6

\* The three moves of bytes, and the moves that leave the bytes alone.
LEMMA QuietPlaces ==
    ASSUME Shape, Quiet \/ \E t \in Threads : \E m \in Messages : EnqueueCall(t, m)
    PROVE  bufferSize' = bufferSize /\ Held' = Held /\ Checked' = Checked
  <1>1. /\ queue' = queue /\ bufferSize' = bufferSize
        /\ \A u \in Threads :
             /\ pc'[u] \in PushPCs <=> pc[u] \in PushPCs
             /\ pc'[u] = "reserve" <=> pc[u] = "reserve"
             /\ pc[u] \in PushPCs \cup {"reserve"} => msg'[u] = msg[u]
    BY DEF Quiet, EnqueueCall, Goto, Shape, Types, EnqueuePCs, PushPCs
  <1>2. Queued' = Queued
    BY <1>1 DEF Queued, Elements
  <1>3. Reserved' = Reserved /\ Checked' = Checked
    BY <1>1 DEF Reserved, Checked
  <1>4. QED BY <1>1, <1>2, <1>3 DEF Held

LEMMA CheckPlaces ==
    ASSUME Shape, NEW t \in Threads, EnqueueCheck(t)
    PROVE  /\ bufferSize' = bufferSize /\ Held' = Held
           /\ \/ Checked' = Checked
              \/ /\ MaxBufferSize >= bufferSize + SizeOf[msg[t]]
                 /\ Checked' = Checked \cup {msg[t]}
  <1>1. /\ queue' = queue /\ bufferSize' = bufferSize /\ msg' = msg
        /\ \A u \in Threads : pc'[u] \in PushPCs <=> pc[u] \in PushPCs
        /\ \A u \in Threads \ {t} : pc'[u] = pc[u]
        /\ pc[t] = "checkSize"
    BY DEF EnqueueCheck, Goto, Shape, Types, PushPCs
  <1>2. Held' = Held
    BY <1>1 DEF Held, Queued, Reserved, Elements
  <1>3. CASE pc'[t] = "readWait"
    BY <1>1, <1>2, <1>3 DEF Checked
  <1>4. CASE pc'[t] = "reserve" /\ MaxBufferSize >= bufferSize + SizeOf[msg[t]]
    BY <1>1, <1>2, <1>4 DEF Checked
  <1>5. QED BY <1>3, <1>4 DEF EnqueueCheck, Goto, Shape, Types

LEMMA ReservePlaces ==
    ASSUME Shape, Apart, NEW t \in Threads, EnqueueReserve(t)
    PROVE  /\ msg[t] \in Messages \ Held
           /\ bufferSize' = bufferSize + SizeOf[msg[t]]
           /\ Held' = Held \cup {msg[t]}
           /\ Held' \cup Checked' = Held \cup Checked
  <1>1. /\ queue' = queue /\ msg' = msg /\ pc[t] = "reserve" /\ pc'[t] = "lockPush"
        /\ \A u \in Threads \ {t} : pc'[u] = pc[u]
        /\ bufferSize' = bufferSize + SizeOf[msg[t]]
    BY DEF EnqueueReserve, Goto, Shape, Types
  <1>2. Queued' = Queued
    BY <1>1 DEF Queued, Elements
  <1>3. Reserved' = Reserved \cup {msg[t]}
    BY <1>1 DEF Reserved, PushPCs
  <1>4. Checked = Checked' \cup {msg[t]}
    BY <1>1 DEF Checked
  <1>5. msg[t] \in Messages \ Held
    BY <1>1, PlacesFacts DEF EnqueuePCs, PushPCs
  <1>6. QED BY <1>1, <1>2, <1>3, <1>4, <1>5 DEF Held

LEMMA PushPlaces ==
    ASSUME Shape, Apart, MessagesAssumption, NEW t \in Threads, EnqueuePush(t)
    PROVE  bufferSize' = bufferSize /\ Held' = Held /\ Checked' = Checked
  <1>1. /\ bufferSize' = bufferSize /\ pc[t] = "push" /\ pc'[t] = "notifyWrite"
        /\ \A u \in Threads \ {t} : pc'[u] = pc[u] /\ msg'[u] = msg[u]
    BY DEF EnqueuePush, Goto, Shape, Types
  <1>2. Queued' = Queued \cup {msg[t]}
    BY PushQueued
  <1>3. Reserved = Reserved' \cup {msg[t]}
    BY <1>1 DEF Reserved, PushPCs
  <1>4. Checked' = Checked
    BY <1>1 DEF Checked
  <1>5. QED BY <1>1, <1>2, <1>3, <1>4 DEF Held

LEMMA TakePlaces ==
    ASSUME Shape, Apart, NEW t \in Threads, NEW k \in Keys,
           pc[t] \in {"pop", "scan"}, TakeFrom(t, k)
    PROVE  /\ Head(queue[k]) \in Messages \cap Held
           /\ Head(queue[k]) \notin Checked
           /\ bufferSize' = bufferSize - SizeOf[Head(queue[k])]
           /\ Held' = Held \ {Head(queue[k])} /\ Checked' = Checked
  <1>1. /\ Head(queue[k]) \in Messages \cap Queued
        /\ Queued' = Queued \ {Head(queue[k])}
    BY TakeQueued DEF Apart
  <1>2. /\ pc'[t] = "idle"
        /\ \A u \in Threads \ {t} :
             /\ pc'[u] \in PushPCs <=> pc[u] \in PushPCs
             /\ pc'[u] = "reserve" <=> pc[u] = "reserve"
             /\ msg'[u] = msg[u]
    BY NotifyKeepsClasses DEF TakeFrom, Shape, Types
  <1>3. Reserved' = Reserved /\ Checked' = Checked
    BY <1>2 DEF Reserved, Checked, PushPCs
  <1>4. Head(queue[k]) \notin Reserved /\ Head(queue[k]) \notin Checked
    BY <1>1, PlacesFacts DEF Held
  <1>5. bufferSize' = bufferSize - SizeOf[Head(queue[k])]
    BY DEF TakeFrom
  <1>6. QED BY <1>1, <1>3, <1>4, <1>5 DEF Held

\* bufferSize is the number of bytes held, for any number of producers.
THEOREM AccountingInvariant == Spec => []Accounting
  <1> USE MessagesAssumption
  <1>1. Init => Accounting
    <2> SUFFICES ASSUME Init PROVE Accounting
      OBVIOUS
    <2>1. Queued \cup Reserved = {}
      BY DEF Init, Queued, Reserved, Elements, PushPCs
    <2>2. Bytes({}) = {}
      BY DEF Bytes
    <2>3. QED BY <2>1, <2>2, FS_EmptySet DEF Init, Accounting, SizeOfSet
  <1>2. Shape /\ Apart /\ Accounting /\ [Next]_vars => Accounting'
    <2> SUFFICES ASSUME Shape, Apart, bufferSize = SizeOfSet(Held), [Next]_vars
                 PROVE  bufferSize' = SizeOfSet(Held')
      BY DEF Accounting, Held
    <2>1. Held \in SUBSET Messages
      BY PlacesFacts DEF Held
    <2>2. CASE Quiet \/ \E t \in Threads : \E m \in Messages : EnqueueCall(t, m)
      BY <2>2, QuietPlaces
    <2>3. CASE \E t \in Threads : EnqueueCheck(t) \/ EnqueuePush(t)
      BY <2>3, CheckPlaces, PushPlaces
    <2>4. ASSUME NEW t \in Threads, EnqueueReserve(t)
          PROVE  bufferSize' = SizeOfSet(Held')
      <3>1. /\ msg[t] \in Messages \ Held
            /\ bufferSize' = bufferSize + SizeOf[msg[t]]
            /\ Held' = Held \cup {msg[t]}
        BY <2>4, ReservePlaces
      <3>2. SizeOfSet(Held \cup {msg[t]}) = SizeOfSet(Held) + SizeOf[msg[t]]
        BY <2>1, <3>1, SizeOfMore
      <3>3. QED BY <3>1, <3>2
    <2>5. ASSUME NEW t \in Threads, NEW k \in Keys, pc[t] \in {"pop", "scan"}, TakeFrom(t, k)
          PROVE  bufferSize' = SizeOfSet(Held')
      <3> DEFINE h == Head(queue[k])
      <3>1. h \in Held /\ bufferSize' = bufferSize - SizeOf[h] /\ Held' = Held \ {h}
        BY <2>5, TakePlaces
      <3>2. SizeOfSet(Held \ {h}) = SizeOfSet(Held) - SizeOf[h]
        BY <2>1, <3>1, SizeOfLess
      <3>3. QED BY <3>1, <3>2
    <2>6. QED BY <2>2, <2>3, <2>4, <2>5, StepKinds
  <1>3. QED BY <1>1, <1>2, ShapeInvariant, ApartInvariant, PTL DEF Spec

\* Types, with a byte counter that never goes below zero.
THEOREM TypeInvariant == Spec => []TypeOK
  <1>1. Shape /\ Apart /\ Accounting => TypeOK
    <2> SUFFICES ASSUME Shape, Apart, Accounting PROVE TypeOK
      OBVIOUS
    <2>1. bufferSize \in Nat
      BY PlacesFacts, SizeIsNat, MessagesAssumption DEF Accounting
    <2>2. QED BY <2>1 DEF Shape, Types, TypeOK
  <1>2. QED BY <1>1, ShapeInvariant, ApartInvariant, AccountingInvariant, PTL

-----------------------------------------------------------------------------
\* Other producers between their check and their reservation hold at most one
\* message of the largest size each.
LEMMA OthersChecked ==
    ASSUME Shape, Apart, MessagesAssumption, BoxAssumption, NEW t \in Producers,
           pc[t] = "checkSize"
    PROVE  SizeOfSet(Checked) <= (Cardinality(Producers) - 1) * MaxMessageSize
  <1> DEFINE others == Producers \ {t}
             f == [x \in Checked |-> CHOOSE u \in Threads : pc[u] = "reserve" /\ msg[u] = x]
  <1>1. /\ IsFiniteSet(Producers) /\ IsFiniteSet(others)
        /\ Cardinality(Producers) \in Nat /\ Cardinality(others) \in Nat
        /\ Cardinality(others) = Cardinality(Producers) - 1
    <2>1. IsFiniteSet(Producers)
      BY FS_Subset DEF BoxAssumption, Threads
    <2>2. QED BY <2>1, FS_RemoveElement, FS_CardinalityType
  <1>2. \A x \in Checked : f[x] \in Threads /\ pc[f[x]] = "reserve" /\ msg[f[x]] = x
    BY DEF Checked
  <1>3. \A x \in Checked : f[x] \in others
    BY <1>2 DEF Shape, HandsOK, EnqueuePCs
  <1>4. f \in [Checked -> others]
    BY <1>3
  <1>5. f \in Injection(Checked, others)
    <2> HIDE DEF f
    <2>1. \A x, y \in Checked : f[x] = f[y] => x = y
      BY <1>2
    <2>2. QED BY <1>4, <2>1 DEF Injection, IsInjective
  <1>6. IsFiniteSet(Checked) /\ Cardinality(Checked) <= Cardinality(others)
    BY <1>1, <1>5, FS_Injection
  <1>7. SizeOfSet(Checked) <= Cardinality(Checked) * MaxMessageSize
    BY PlacesFacts, SizeBound
  <1>8. Cardinality(Checked) * MaxMessageSize <= Cardinality(others) * MaxMessageSize
    <2>1. Cardinality(Checked) \in Nat
      BY <1>6, FS_CardinalityType
    <2>2. \A a, b, c \in Nat : a <= b => a * c <= b * c
      OBVIOUS
    <2>3. QED BY <1>1, <1>6, <2>1, <2>2 DEF MessagesAssumption
  <1>9. SizeOfSet(Checked) \in Nat
    BY PlacesFacts, SizeIsNat
  <1>10. QED BY <1>1, <1>6, <1>7, <1>8, <1>9, FS_CardinalityType DEF MessagesAssumption

LEMMA OvershootIsNat ==
    ASSUME MessagesAssumption, BoxAssumption
    PROVE  Overshoot \in Nat /\ Overshoot >= MaxBufferSize
  <1>1. IsFiniteSet(Producers)
    BY FS_Subset DEF BoxAssumption, Threads
  <1>2. Cardinality(Producers) \in Nat \ {0}
    BY <1>1, FS_CardinalityType, FS_EmptySet DEF BoxAssumption
  <1>3. (Cardinality(Producers) - 1) * MaxMessageSize \in Nat
    BY <1>2 DEF MessagesAssumption
  <1>4. QED BY <1>3 DEF Overshoot, BoxAssumption

\* The bytes held and checked never exceed the limit by more than one largest
\* message for every producer after the first.
THEOREM CheckedBoundInvariant == Spec => []CheckedBound
  <1> USE MessagesAssumption, BoxAssumption
  <1>1. Init => CheckedBound
    <2> SUFFICES ASSUME Init PROVE CheckedBound
      OBVIOUS
    <2>1. Held \cup Checked = {}
      BY DEF Init, Held, Checked, Queued, Reserved, Elements, PushPCs
    <2>2. Bytes({}) = {}
      BY DEF Bytes
    <2>3. SizeOfSet(Held \cup Checked) = 0
      BY <2>1, <2>2, FS_EmptySet DEF SizeOfSet
    <2>4. QED BY <2>3, OvershootIsNat DEF CheckedBound
  <1>2. Shape /\ Apart /\ Accounting /\ CheckedBound /\ [Next]_vars => CheckedBound'
    <2> SUFFICES ASSUME Shape, Apart, Accounting, CheckedBound, [Next]_vars
                 PROVE  SizeOfSet(Held' \cup Checked') <= Overshoot
      BY DEF CheckedBound
    <2>1. Held \in SUBSET Messages /\ Checked \in SUBSET Messages /\ Held \cap Checked = {}
      BY PlacesFacts DEF Held
    <2>2. CASE Quiet \/ \E t \in Threads : \E m \in Messages : EnqueueCall(t, m)
      BY <2>2, QuietPlaces DEF CheckedBound
    <2>3. CASE \E t \in Threads : EnqueueReserve(t) \/ EnqueuePush(t)
      <3>1. Held' \cup Checked' = Held \cup Checked
        BY <2>3, ReservePlaces, PushPlaces
      <3>2. QED BY <3>1 DEF CheckedBound
    <2>4. ASSUME NEW t \in Threads, EnqueueCheck(t)
          PROVE  SizeOfSet(Held' \cup Checked') <= Overshoot
      <3> DEFINE m == msg[t]
      <3>1. pc[t] = "checkSize" /\ t \in Producers /\ m \in Messages
        BY <2>4 DEF EnqueueCheck, Shape, HandsOK, EnqueuePCs
      <3>2. m \notin Held /\ m \notin Checked
        BY <3>1, PlacesFacts DEF EnqueuePCs, PushPCs
      <3>3. CASE Held' = Held /\ Checked' = Checked
        BY <3>3 DEF CheckedBound
      <3>4. CASE /\ MaxBufferSize >= bufferSize + SizeOf[m]
                 /\ Held' = Held /\ Checked' = Checked \cup {m}
        <4>1. SizeOfSet(Held \cup (Checked \cup {m})) = SizeOfSet(Held) + SizeOfSet(Checked \cup {m})
          BY <2>1, <3>1, <3>2, SizeOfUnion
        <4>2. SizeOfSet(Checked \cup {m}) = SizeOfSet(Checked) + SizeOf[m]
          BY <2>1, <3>1, <3>2, SizeOfMore
        <4>3. SizeOfSet(Checked) <= (Cardinality(Producers) - 1) * MaxMessageSize
          BY <3>1, OthersChecked
        <4>4. bufferSize = SizeOfSet(Held)
          BY DEF Accounting, Held
        <4>5. /\ SizeOfSet(Held) \in Nat /\ SizeOfSet(Checked) \in Nat
              /\ SizeOf[m] \in Nat /\ MaxBufferSize \in Nat
          BY <2>1, <3>1, SizeIsNat
        <4>6. (Cardinality(Producers) - 1) * MaxMessageSize \in Int
          <5>1. IsFiniteSet(Producers)
            BY FS_Subset DEF Threads
          <5>2. Cardinality(Producers) \in Nat
            BY <5>1, FS_CardinalityType
          <5>3. QED BY <5>2
        <4>7. SizeOfSet(Held' \cup Checked') = bufferSize + SizeOf[m] + SizeOfSet(Checked)
          BY <3>4, <4>1, <4>2, <4>4, <4>5
        <4>8. QED BY <3>4, <4>3, <4>4, <4>5, <4>6, <4>7 DEF Overshoot
      <3>5. QED BY <2>4, <3>3, <3>4, CheckPlaces
    <2>5. ASSUME NEW t \in Threads, NEW k \in Keys, pc[t] \in {"pop", "scan"}, TakeFrom(t, k)
          PROVE  SizeOfSet(Held' \cup Checked') <= Overshoot
      <3> DEFINE h == Head(queue[k])
      <3>1. h \in Held /\ h \notin Checked /\ Held' = Held \ {h} /\ Checked' = Checked
        BY <2>5, TakePlaces
      <3>2. SizeOfSet((Held \cup Checked) \ {h}) = SizeOfSet(Held \cup Checked) - SizeOf[h]
        BY <2>1, <3>1, SizeOfLess
      <3>3. Held' \cup Checked' = (Held \cup Checked) \ {h}
        BY <3>1
      <3>4. SizeOfSet(Held \cup Checked) \in Nat /\ SizeOf[h] \in Nat /\ Overshoot \in Nat
        BY <2>1, <3>1, SizeIsNat, OvershootIsNat
      <3>5. SizeOfSet(Held' \cup Checked') = SizeOfSet(Held \cup Checked) - SizeOf[h]
        BY <3>2, <3>3, Zenon
      <3>6. QED BY <3>4, <3>5 DEF CheckedBound
    <2>6. QED BY <2>2, <2>3, <2>4, <2>5, StepKinds
  <1>3. QED
    BY <1>1, <1>2, ShapeInvariant, ApartInvariant, AccountingInvariant, PTL DEF Spec

\* The counter never exceeds maxBufferSize by more than one largest message
\* for every producer after the first; with one producer it never exceeds it.
THEOREM BufferBoundInvariant == Spec => []BufferBound
  <1> USE MessagesAssumption, BoxAssumption
  <1>1. Shape /\ Apart /\ Accounting /\ CheckedBound => BufferBound
    <2> SUFFICES ASSUME Shape, Apart, Accounting, CheckedBound PROVE BufferBound
      OBVIOUS
    <2>1. Held \in SUBSET Messages /\ Checked \in SUBSET Messages /\ Held \cap Checked = {}
      BY PlacesFacts DEF Held
    <2>2. SizeOfSet(Held \cup Checked) = SizeOfSet(Held) + SizeOfSet(Checked)
      BY <2>1, SizeOfUnion
    <2>3. SizeOfSet(Held) \in Nat /\ SizeOfSet(Checked) \in Nat /\ Overshoot \in Nat
      BY <2>1, SizeIsNat, OvershootIsNat
    <2>4. bufferSize <= Overshoot
      BY <2>2, <2>3 DEF Accounting, CheckedBound, Held
    <2>5. QED BY <2>4 DEF Overshoot, BufferBound
  <1>2. QED
    BY <1>1, ShapeInvariant, ApartInvariant, AccountingInvariant, CheckedBoundInvariant, PTL

-----------------------------------------------------------------------------
(* MessageBox implements Mailbox: enqueue takes effect at its push, a      *)
(* successful dequeue at its pop, tryDequeue's failure at the test that    *)
(* fails.                                                                  *)


\* What a thread asks for, and which keys have a queue.
AskingOK ==
    /\ \A t \in Threads : /\ pc[t] \in EnqueuePCs \cup {"idle", "notifyWrite"} => wanted[t] = {}
                          /\ keysList[t] \subseteq wanted[t]
                          /\ pc[t] \notin PrefixPCs => keysList[t] = {}
    /\ \A k \in Keys \ mapped : queue[k] = <<>>

LEMMA TakeKeepsAsking ==
    ASSUME Shape, AskingOK, NEW t \in Threads, NEW k \in Keys, k \in wanted[t],
           pc[t] \in {"pop", "scan"}, TakeFrom(t, k)
    PROVE  AskingOK'
  <1>1. /\ pc'[t] = "idle"
        /\ \A u \in Threads \ {t} :
             pc'[u] \in EnqueuePCs \cup {"idle", "notifyWrite"}
               => pc[u] \in EnqueuePCs \cup {"idle", "notifyWrite"}
        /\ \A u \in Threads \ {t} : pc[u] \in PrefixPCs => pc'[u] \in PrefixPCs
    <2>1. /\ pc'[t] = "idle"
          /\ \A u \in Threads \ {t} :
               \/ pc'[u] = pc[u]
               \/ pc[u] \in WriteWaits \cup {"readWait"} /\ pc'[u] = Resume(u)
      BY NotifyFacts DEF TakeFrom, Shape
    <2>2. \A u \in Threads : pc[u] \in WriteWaits =>
            /\ Resume(u) \in {"testKey", "testEmpty", "lookup", "lockScan"}
            /\ pc[u] \in PrefixPCs => Resume(u) \in PrefixPCs
      BY ResumeFacts DEF WriteWaits, KeyPCs, PrefixPCs
    <2>3. QED BY <2>1, <2>2 DEF EnqueuePCs, PushPCs, PrefixPCs
  <1>2. /\ wanted' = [wanted EXCEPT ![t] = {}] /\ keysList' = [keysList EXCEPT ![t] = {}]
        /\ mapped' = mapped /\ queue' = [queue EXCEPT ![k] = Tail(@)] /\ queue[k] # <<>>
    BY DEF TakeFrom
  <1>3. \A u \in Threads :
          /\ pc'[u] \in EnqueuePCs \cup {"idle", "notifyWrite"} => wanted'[u] = {}
          /\ keysList'[u] \subseteq wanted'[u]
          /\ pc'[u] \notin PrefixPCs => keysList'[u] = {}
    BY <1>1, <1>2 DEF AskingOK, Shape, Types
  <1>4. \A l \in Keys \ mapped' : queue'[l] = <<>>
    BY <1>2 DEF AskingOK, Shape, Types
  <1>5. QED BY <1>3, <1>4 DEF AskingOK

\* An idle thread asks for nothing, a scan stays within what was asked for,
\* and a key without a queue has no messages.
THEOREM AskingInvariant == Spec => []AskingOK
  <1> USE MessagesAssumption, BoxAssumption
  <1>1. Init => AskingOK
    BY DEF Init, AskingOK, EnqueuePCs, PushPCs
  <1>2. Shape /\ AskingOK /\ [Next]_vars => AskingOK'
    <2> SUFFICES ASSUME Shape, AskingOK, [Next]_vars
                 PROVE  AskingOK'
      OBVIOUS
    <2> USE DEF Goto, Call, EnqueuePCs, PushPCs, PrefixPCs
    <2>1. CASE UNCHANGED vars
      BY <2>1 DEF vars, AskingOK
    <2>2. CASE Next
      <3>1. PICK t \in Threads : Calls(t) \/ Step(t)
        BY <2>2 DEF Next
      <3>2. CASE Calls(t)
        <4>1. /\ pc[t] = "idle" /\ UNCHANGED <<mapped, queue, keysList>>
              /\ \/ pc'[t] \in EnqueuePCs /\ wanted'[t] = {}
                 \/ pc'[t] \in {"testKey", "lookup", "tryTest"}
              /\ \A u \in Threads \ {t} : pc'[u] = pc[u] /\ wanted'[u] = wanted[u]
          BY <3>2 DEF Calls, EnqueueCall, WaitDequeueCall, WaitDequeuePrefixCall,
                      TryDequeueCall, Shape, Types
        <4>2. keysList[t] = {}
          BY <4>1 DEF AskingOK
        <4>3. QED BY <4>1, <4>2 DEF AskingOK
      <3>3. CASE \/ EnqueueCheck(t) \/ EnqueueReserve(t) \/ EnqueueLock(t)
                 \/ TestKey(t) \/ TestEmpty(t) \/ LockPop(t) \/ LockScan(t)
        <4>1. /\ pc'[t] \in EnqueuePCs \cup {"idle", "notifyWrite"} => pc[t] \in EnqueuePCs
              /\ pc'[t] \in PrefixPCs <=> pc[t] \in PrefixPCs
              /\ \A u \in Threads \ {t} : pc'[u] = pc[u]
              /\ UNCHANGED <<mapped, queue, wanted, keysList>>
          BY <3>3 DEF EnqueueCheck, EnqueueReserve, EnqueueLock, TestKey, TestEmpty, LockPop,
                      LockScan, Shape, Types
        <4>2. QED BY <4>1 DEF AskingOK
      <3>9. CASE TryTest(t) \/ TryEmpty(t)
        <4>1. /\ \/ wanted'[t] = {}
                 \/ wanted'[t] = wanted[t] /\ pc'[t] \in {"tryEmpty", "lockPop", "thrown"}
              /\ pc[t] \notin PrefixPCs
              /\ \A u \in Threads \ {t} : pc'[u] = pc[u] /\ wanted'[u] = wanted[u]
              /\ UNCHANGED <<mapped, queue, keysList>>
          BY <3>9 DEF TryTest, TryEmpty, Miss, Shape, Types
        <4>2. keysList[t] = {}
          BY <4>1 DEF AskingOK
        <4>3. QED BY <4>1, <4>2 DEF AskingOK
      <3>10. CASE ScanEmpty(t)
        BY <3>10 DEF ScanEmpty, AskingOK, Shape, Types
      <3>4. CASE Lookup(t)
        BY <3>4 DEF Lookup, Values, AskingOK, Shape, Types
      <3>5. CASE EnqueuePush(t)
        <4>1. /\ KeyOf[msg[t]] \in Keys
              /\ queue' = [queue EXCEPT ![KeyOf[msg[t]]] = Append(@, msg[t])]
          BY <3>5, PushQueued
        <4>2. QED BY <3>5, <4>1 DEF EnqueuePush, AskingOK, Shape, Types
      <3>6. CASE EnqueueNotify(t) \/ Timeout(t)
        <4>1. \A u \in Threads :
                \/ pc'[u] = pc[u]
                \/ u = t /\ pc[t] = "notifyWrite" /\ pc'[t] = "idle"
                \/ pc[u] \in WriteWaits \cup {"readWait"} /\ pc'[u] = Resume(u)
          BY <3>6, NotifyFacts DEF EnqueueNotify, Timeout, Shape, Types
        <4>2. \A u \in Threads : pc[u] \in WriteWaits =>
                /\ Resume(u) \in {"testKey", "testEmpty", "lookup", "lockScan"}
                /\ pc[u] \in PrefixPCs => Resume(u) \in {"lookup", "lockScan"}
          BY ResumeFacts DEF WriteWaits, KeyPCs, PrefixPCs
        <4>3. UNCHANGED <<mapped, queue, wanted, keysList>>
          BY <3>6 DEF EnqueueNotify, Timeout
        <4>4. QED BY <4>1, <4>2, <4>3 DEF AskingOK, Shape, Types
      <3>7. CASE Pop(t) \/ ScanFound(t)
        <4>1. PICK k \in Keys : /\ k \in wanted[t] /\ pc[t] \in {"pop", "scan"}
                                /\ TakeFrom(t, k)
          BY <3>7 DEF Pop, ScanFound, AskingOK, Shape, Types
        <4>2. QED BY <4>1, TakeKeepsAsking
      <3>8. QED
        BY <3>1, <3>2, <3>3, <3>4, <3>5, <3>6, <3>7, <3>9, <3>10 DEF Step, EnqueueStep, DequeueStep
    <2>3. QED BY <2>1, <2>2
  <1>3. QED BY <1>1, <1>2, ShapeInvariant, PTL DEF Spec

-----------------------------------------------------------------------------
(* The abstract state, and the steps that move it.                         *)

AbsOffer == [t \in Threads |-> IF pc[t] \in EnqueuePCs THEN msg[t] ELSE NoMsg]
AbsGot == [t \in Threads |-> IF pc[t] \in EnqueuePCs THEN NoMsg ELSE msg[t]]

\* A step of one thread that leaves the others in their methods.
OthersStay(t) ==
    \A u \in Threads \ {t} : /\ pc'[u] \in EnqueuePCs <=> pc[u] \in EnqueuePCs
                             /\ msg'[u] = msg[u]

LEMMA EnqueueCallIsOffer ==
    ASSUME Shape, AskingOK, MessagesAssumption, NEW t \in Threads, NEW m \in Messages,
           EnqueueCall(t, m)
    PROVE  Abstract!Offer(t, m)
  <1>1. /\ pc[t] = "idle" /\ pc'[t] = "checkSize" /\ msg'[t] = m
        /\ OthersStay(t) /\ m \notin Queued \cup Sending
        /\ queue' = queue /\ wanted' = [wanted EXCEPT ![t] = {}]
    BY DEF EnqueueCall, Goto, OthersStay, Shape, Types
  <1>2. wanted[t] = {}
    BY <1>1 DEF AskingOK
  <1>3. wanted' = wanted
    BY <1>1, <1>2 DEF Shape, Types
  <1>4. AbsOffer[t] = NoMsg /\ m \notin {AbsOffer[u] : u \in Threads}
    BY <1>1 DEF AbsOffer, Sending, EnqueuePCs, PushPCs, MessagesAssumption
  <1>5. AbsOffer' = [AbsOffer EXCEPT ![t] = m] /\ AbsGot' = [AbsGot EXCEPT ![t] = NoMsg]
    BY <1>1 DEF AbsOffer, AbsGot, OthersStay, EnqueuePCs
  <1>6. m \notin Abstract!Contents
    BY <1>1 DEF Abstract!Contents, Abstract!Elements, Queued, Elements
  <1>7. QED
    BY <1>1, <1>2, <1>3, <1>4, <1>5, <1>6
       DEF Abstract!Offer, Abstract!Offered, AbsOffer, AbsGot

LEMMA PushIsPut ==
    ASSUME Shape, Apart, Accounting, BufferBound, MessagesAssumption, BoxAssumption,
           NEW t \in Threads, EnqueuePush(t)
    PROVE  Abstract!Put(t)
  <1> DEFINE m == msg[t]
  <1>1. /\ pc[t] = "push" /\ pc'[t] = "notifyWrite" /\ msg'[t] = NoMsg
        /\ OthersStay(t) /\ wanted' = wanted
    BY DEF EnqueuePush, Goto, OthersStay, Shape, Types
  <1>2. /\ m \in Messages
        /\ queue' = [queue EXCEPT ![KeyOf[m]] = Append(@, m)]
    BY PushQueued
  <1>3. AbsOffer[t] = m /\ m # NoMsg
    BY <1>1, <1>2 DEF AbsOffer, EnqueuePCs, PushPCs, MessagesAssumption
  <1>4. AbsOffer' = [AbsOffer EXCEPT ![t] = NoMsg] /\ AbsGot' = AbsGot
    BY <1>1 DEF AbsOffer, AbsGot, OthersStay, EnqueuePCs, PushPCs
  <1>5. SizeOfSet(Queued \cup {m}) <= Overshoot
    <2>1. Held \in SUBSET Messages /\ Queued \cup {m} \subseteq Held
      BY <1>1, PlacesFacts DEF Held, Reserved, PushPCs
    <2>2. Bytes(Queued \cup {m}) \in SUBSET Bytes(Held)
      BY <2>1 DEF Bytes
    <2>3. SizeOfSet(Queued \cup {m}) <= SizeOfSet(Held)
      BY <2>1, <2>2, SizeIsNat, FS_Subset DEF SizeOfSet
    <2>4. SizeOfSet(Held) <= Overshoot
      BY DEF Accounting, BufferBound, Held, Overshoot
    <2>5. SizeOfSet(Queued \cup {m}) \in Nat /\ SizeOfSet(Held) \in Nat /\ Overshoot \in Nat
      BY <2>1, SizeIsNat, OvershootIsNat
    <2>6. QED BY <2>3, <2>4, <2>5
  <1>6. Abstract!Contents = Queued
    BY DEF Abstract!Contents, Abstract!Elements, Queued, Elements
  <1>7. QED
    BY <1>1, <1>2, <1>3, <1>4, <1>5, <1>6 DEF Abstract!Put, AbsOffer, AbsGot

LEMMA CallIsAsk ==
    ASSUME Shape, AskingOK, NEW t \in Threads, NEW K \in SUBSET Keys,
           NEW label \in {"testKey", "lookup", "tryTest"}, Call(t, label, K)
    PROVE  Abstract!Ask(t, K)
  <1>1. /\ pc[t] = "idle" /\ pc'[t] = label /\ msg'[t] = NoMsg /\ OthersStay(t)
        /\ queue' = queue /\ wanted' = [wanted EXCEPT ![t] = K]
    BY DEF Call, Goto, OthersStay, Shape, Types
  <1>2. wanted[t] = {}
    BY <1>1 DEF AskingOK
  <1>3. /\ AbsOffer[t] = NoMsg /\ AbsOffer' = AbsOffer
        /\ AbsGot' = [AbsGot EXCEPT ![t] = NoMsg]
    BY <1>1 DEF AbsOffer, AbsGot, OthersStay, EnqueuePCs, PushPCs
  <1>4. QED BY <1>1, <1>2, <1>3 DEF Abstract!Ask, AbsOffer, AbsGot

LEMMA TakeIsTake ==
    ASSUME Shape, NEW t \in Threads, NEW k \in wanted[t],
           pc[t] \in {"pop", "scan"}, TakeFrom(t, k)
    PROVE  Abstract!Take(t, k)
  <1>1. /\ pc'[t] = "idle" /\ OthersStay(t) /\ msg'[t] = Head(queue[k])
    BY NotifyKeepsClasses DEF TakeFrom, OthersStay, Shape, Types
  <1>2. AbsOffer' = AbsOffer /\ AbsGot' = [AbsGot EXCEPT ![t] = Head(queue[k])]
    BY <1>1 DEF AbsOffer, AbsGot, OthersStay, EnqueuePCs, PushPCs
  <1>3. QED BY <1>2 DEF TakeFrom, Abstract!Take, AbsOffer, AbsGot

LEMMA MissIsGiveUp ==
    ASSUME Shape, NEW t \in Threads, NEW k \in Keys, wanted[t] = {k}, queue[k] = <<>>,
           pc[t] \in {"tryTest", "tryEmpty"}, Miss(t)
    PROVE  Abstract!GiveUp(t, k)
  <1>1. pc'[t] = "idle" /\ OthersStay(t) /\ msg' = msg
    BY DEF Miss, Goto, OthersStay, Shape, Types
  <1>2. AbsOffer' = AbsOffer /\ AbsGot' = AbsGot
    BY <1>1 DEF AbsOffer, AbsGot, OthersStay, EnqueuePCs, PushPCs
  <1>3. QED BY <1>2 DEF Miss, Abstract!GiveUp, AbsOffer, AbsGot

\* Steps inside a method do not move the abstract state.
LEMMA InnerStepStutters ==
    ASSUME Shape, UNCHANGED <<queue, wanted, msg>>,
           \A u \in Threads : pc'[u] \in EnqueuePCs <=> pc[u] \in EnqueuePCs
    PROVE  UNCHANGED Abstract!vars
  <1>1. AbsOffer' = AbsOffer /\ AbsGot' = AbsGot
    BY DEF AbsOffer, AbsGot
  <1>2. QED BY <1>1 DEF Abstract!vars, AbsOffer, AbsGot

LEMMA StepImplements ==
    ASSUME Shape, Apart, Accounting, BufferBound, AskingOK,
           MessagesAssumption, BoxAssumption, [Next]_vars
    PROVE  [Abstract!Next]_(Abstract!vars)
  <1>1. CASE UNCHANGED vars
    BY <1>1, InnerStepStutters DEF vars
  <1>2. CASE Next
    <2>1. PICK t \in Threads : Calls(t) \/ Step(t)
      BY <1>2 DEF Next
    <2>2. ASSUME NEW m \in Messages, EnqueueCall(t, m)
          PROVE  Abstract!Next
      BY <2>2, EnqueueCallIsOffer DEF Abstract!Next
    <2>3. ASSUME NEW K \in SUBSET Keys, NEW label \in {"testKey", "lookup", "tryTest"},
                 Call(t, label, K)
          PROVE  Abstract!Next
      BY <2>3, CallIsAsk DEF Abstract!Next
    <2>4. CASE Calls(t)
      <3>1. ASSUME NEW k \in WaitKeys \cup TryKeys PROVE {k} \in SUBSET Keys
        BY BoxAssumption
      <3>2. QED
        BY <2>2, <2>3, <2>4, <3>1
           DEF Calls, WaitDequeueCall, WaitDequeuePrefixCall, TryDequeueCall
    <2>5. CASE EnqueuePush(t)
      BY <2>5, PushIsPut DEF Abstract!Next
    <2>6. CASE Pop(t) \/ ScanFound(t)
      <3>1. PICK k \in Keys : k \in wanted[t] /\ pc[t] \in {"pop", "scan"} /\ TakeFrom(t, k)
        BY <2>6 DEF Pop, ScanFound, AskingOK, Shape, Types
      <3>2. QED BY <3>1, TakeIsTake DEF Abstract!Next
    <2>7. CASE EnqueueNotify(t)
      <3>1. \A u \in Threads : pc'[u] \in EnqueuePCs <=> pc[u] \in EnqueuePCs
        BY <2>7, NotifyKeepsClasses DEF EnqueueNotify, Shape, EnqueuePCs, PushPCs
      <3>2. QED BY <2>7, <3>1, InnerStepStutters DEF EnqueueNotify
    <2>8. CASE Timeout(t)
      <3>1. \A u \in Threads : pc'[u] \in EnqueuePCs <=> pc[u] \in EnqueuePCs
        BY <2>8, ResumeFacts
           DEF Timeout, Goto, Shape, Types, WriteWaits, EnqueuePCs, PushPCs, KeyPCs, PrefixPCs
      <3>2. QED BY <2>8, <3>1, InnerStepStutters DEF Timeout
    <2>9. CASE TryTest(t) \/ TryEmpty(t)
      <3>1. PICK k \in Keys : wanted[t] = {k}
        BY <2>9 DEF TryTest, TryEmpty, Shape, KeysOK, KeyPCs
      <3>2. CASE Miss(t)
        <4>1. queue[k] = <<>> /\ pc[t] \in {"tryTest", "tryEmpty"}
          BY <2>9, <3>1, <3>2 DEF TryTest, TryEmpty, Miss, Goto, AskingOK, Shape, Types
        <4>2. QED BY <3>1, <3>2, <4>1, MissIsGiveUp DEF Abstract!Next
      <3>3. CASE ~Miss(t)
        <4>1. UNCHANGED <<queue, wanted, msg>>
          BY <2>9, <3>3 DEF TryTest, TryEmpty
        <4>2. \A u \in Threads : pc'[u] \in EnqueuePCs <=> pc[u] \in EnqueuePCs
          BY <2>9, <3>3 DEF TryTest, TryEmpty, Goto, Shape, Types, EnqueuePCs, PushPCs
        <4>3. QED BY <4>1, <4>2, InnerStepStutters
      <3>4. QED BY <3>2, <3>3
    <2>10. CASE \/ EnqueueCheck(t) \/ EnqueueReserve(t) \/ EnqueueLock(t) \/ TestKey(t)
                \/ TestEmpty(t) \/ LockPop(t) \/ Lookup(t) \/ LockScan(t) \/ ScanEmpty(t)
      <3>1. UNCHANGED <<queue, wanted, msg>>
        BY <2>10 DEF EnqueueCheck, EnqueueReserve, EnqueueLock, TestKey, TestEmpty, LockPop,
                     Lookup, LockScan, ScanEmpty
      <3>2. \A u \in Threads : pc'[u] \in EnqueuePCs <=> pc[u] \in EnqueuePCs
        BY <2>10 DEF EnqueueCheck, EnqueueReserve, EnqueueLock, TestKey, TestEmpty, LockPop,
                     Lookup, LockScan, ScanEmpty, Goto, Shape, Types, EnqueuePCs, PushPCs
      <3>3. QED BY <3>1, <3>2, InnerStepStutters
    <2>11. QED
      BY <2>1, <2>4, <2>5, <2>6, <2>7, <2>8, <2>9, <2>10 DEF Step, EnqueueStep, DequeueStep
  <1>3. QED BY <1>1, <1>2

\* Every behaviour of the threads is one of the atomic mailbox.
THEOREM MailboxRefinement == Spec => ImplementsMailbox
  <1>1. Init => Abstract!Init
    BY DEF Init, Abstract!Init, EnqueuePCs, PushPCs
  <1>2. /\ Shape /\ Apart /\ Accounting /\ BufferBound /\ AskingOK
        /\ [Next]_vars
        => [Abstract!Next]_(Abstract!vars)
    BY StepImplements, MessagesAssumption, BoxAssumption
  <1>3. QED
    BY <1>1, <1>2, ShapeInvariant, ApartInvariant, AccountingInvariant,
       BufferBoundInvariant, AskingInvariant, PTL
       DEF Spec, ImplementsMailbox, Abstract!Spec
==============================================================================
