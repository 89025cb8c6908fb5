------------------------------ MODULE Transport ------------------------------
(***************************************************************************)
(* What point-to-point communication promises: between every ordered pair  *)
(* of peers a stream of tagged messages that the destination accepts in    *)
(* the order they were sent and hands out first-in first-out per tag.  A   *)
(* send event is completed once, and only after the destination's process  *)
(* has accepted the message.  There are no threads, sockets or boxes here. *)
(***************************************************************************)
EXTENDS Integers, Sequences

CONSTANTS Peers, MsgIDs, Tags

VARIABLES
    sent,       \* sent[p][q]: the messages of p to q, as [id, tag]
    accepted,   \* accepted[q][p]: how many of them q has accepted
    taken,      \* taken[q][p]: the ids of those a receive of q returned
    completed   \* completed[p]: the ids of the finished send events of p

vars == <<sent, accepted, taken, completed>>

\* The messages of p that a receive of q may return: of each tag the oldest
\* accepted one that was not returned before.
Deliverable(q, p) ==
    {sent[p][q][i] : i \in
       {j \in 1 .. accepted[q][p] :
          /\ sent[p][q][j].id \notin taken[q][p]
          /\ \A h \in 1 .. j - 1 : sent[p][q][h].tag = sent[p][q][j].tag
                                     => sent[p][q][h].id \in taken[q][p]}}

Init ==
    /\ sent = [p \in Peers |-> [q \in Peers |-> <<>>]]
    /\ accepted = [q \in Peers |-> [p \in Peers |-> 0]]
    /\ taken = [q \in Peers |-> [p \in Peers |-> {}]]
    /\ completed = [p \in Peers |-> {}]

\* A new message: no message of p carries its id.
Send(p, q, m) ==
    /\ \A r \in Peers : \A i \in DOMAIN sent[p][r] : sent[p][r][i].id # m.id
    /\ sent' = [sent EXCEPT ![p][q] = Append(@, m)]
    /\ UNCHANGED <<accepted, taken, completed>>

Accept(q, p) ==
    /\ accepted[q][p] < Len(sent[p][q])
    /\ accepted' = [accepted EXCEPT ![q][p] = @ + 1]
    /\ UNCHANGED <<sent, taken, completed>>

Take(q, p) ==
    /\ \E m \in Deliverable(q, p) : taken' = [taken EXCEPT ![q][p] = @ \cup {m.id}]
    /\ UNCHANGED <<sent, accepted, completed>>

Complete(p, q) ==
    /\ \E i \in 1 .. accepted[q][p] :
         /\ sent[p][q][i].id \notin completed[p]
         /\ completed' = [completed EXCEPT ![p] = @ \cup {sent[p][q][i].id}]
    /\ UNCHANGED <<sent, accepted, taken>>

Next ==
    \E p, q \in Peers :
      \/ \E m \in [id : MsgIDs, tag : Tags] : Send(p, q, m)
      \/ Accept(q, p) \/ Take(q, p) \/ Complete(p, q)

Spec == Init /\ [][Next]_vars
=============================================================================
