------------------------------- MODULE Mailbox -------------------------------
(***************************************************************************)
(* What a MessageBox promises its callers: a family of first-in first-out  *)
(* queues, one for each key tuple, that share a capacity in bytes.  Every  *)
(* call takes effect in one atomic step between its start and its return.  *)
(* There are no locks, no counters, no waits and no lookups here.          *)
(***************************************************************************)
EXTENDS Integers, Sequences

CONSTANTS
    Threads, Messages, Keys,
    KeyOf,         \* [Messages -> Keys]
    SizeOfSet(_),  \* the bytes of a set of messages
    Capacity,      \* the most bytes the queues hold together
    NoMsg

VARIABLES
    box,     \* [Keys -> Seq(Messages)]
    offer,   \* the message a thread has asked to put and not put yet
    accept,  \* the keys the running dequeue of a thread accepts
    got      \* what the last dequeue of a thread returned

vars == <<box, offer, accept, got>>

Elements(s) == {s[i] : i \in DOMAIN s}
Contents == UNION {Elements(box[k]) : k \in Keys}
Offered == {offer[t] : t \in Threads}

Init ==
    /\ box = [k \in Keys |-> <<>>]
    /\ offer = [t \in Threads |-> NoMsg]
    /\ accept = [t \in Threads |-> {}]
    /\ got = [t \in Threads |-> NoMsg]

\* A call of enqueue.
Offer(t, m) ==
    /\ offer[t] = NoMsg /\ accept[t] = {}
    /\ m \notin Contents \cup Offered
    /\ offer' = [offer EXCEPT ![t] = m]
    /\ got' = [got EXCEPT ![t] = NoMsg]
    /\ UNCHANGED <<box, accept>>

\* The message enters the queue of its key at the tail, if it fits.
Put(t) ==
    /\ offer[t] # NoMsg
    /\ SizeOfSet(Contents \cup {offer[t]}) <= Capacity
    /\ box' = [box EXCEPT ![KeyOf[offer[t]]] = Append(@, offer[t])]
    /\ offer' = [offer EXCEPT ![t] = NoMsg]
    /\ UNCHANGED <<accept, got>>

\* A call of a dequeue for one key or for all keys with a prefix.
Ask(t, K) ==
    /\ offer[t] = NoMsg /\ accept[t] = {}
    /\ accept' = [accept EXCEPT ![t] = K]
    /\ got' = [got EXCEPT ![t] = NoMsg]
    /\ UNCHANGED <<box, offer>>

\* The oldest message of an accepted key leaves the box.
Take(t, k) ==
    /\ k \in accept[t]
    /\ box[k] # <<>>
    /\ got' = [got EXCEPT ![t] = Head(box[k])]
    /\ box' = [box EXCEPT ![k] = Tail(@)]
    /\ accept' = [accept EXCEPT ![t] = {}]
    /\ UNCHANGED offer

\* A dequeue that does not wait reports an empty queue.
GiveUp(t, k) ==
    /\ accept[t] = {k}
    /\ box[k] = <<>>
    /\ accept' = [accept EXCEPT ![t] = {}]
    /\ UNCHANGED <<box, offer, got>>

Next ==
    \E t \in Threads :
      \/ \E m \in Messages : Offer(t, m)
      \/ Put(t)
      \/ \E K \in SUBSET Keys : Ask(t, K)
      \/ \E k \in Keys : Take(t, k) \/ GiveUp(t, k)

Spec == Init /\ [][Next]_vars
=============================================================================
