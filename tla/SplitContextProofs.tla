-------------------------- MODULE SplitContextProofs --------------------------
(***************************************************************************)
(* Theorems about SplitContext, for every number of peers, all plans, and  *)
(* every order in which the peers and their handlers run.                  *)
(***************************************************************************)
EXTENDS SplitContext, FiniteSetTheorems, SequenceTheorems, TLAPS

(* Types.  TypeOK leaves out the values of messages, which depend on the   *)
(* order of the stream.                                                    *)

Values == BOOLEAN \cup Nat \cup Seq(Peers)
Messages == [kind : Kinds, context : IDs, value : Values, call : Nat \ {0}]

Shape ==
    /\ plan \in Plans
    /\ IsFiniteSet(DOMAIN contextIds)
    /\ wire \in [Peers -> [Peers -> Seq(Messages)]]
    /\ inBox \in [Peers -> [IDs \X Peers -> Seq(Messages)]]
    /\ thrown \in [Peers -> BOOLEAN]
    /\ contexts \in [Peers -> [IDs -> Seq(Peers)]]
    /\ pc \in [Peers -> {"idle", "collect", "recvID", "recvSize", "recvList", "barrier",
                         "await", "thrown"}]
    /\ old \in [Peers -> [id : IDs, peers : Seq(Peers)]]
    /\ wants \in [Peers -> Seq(BOOLEAN)]
    /\ result \in [Peers -> Seq(IDs \cup {-1})]
    /\ i \in [Peers -> Nat \ {0}]
    /\ whiteList \in [Peers -> Seq(Peers)]
    /\ newID \in [Peers -> IDs \cup {-1}]
    /\ newSize \in [Peers -> Nat]

-----------------------------------------------------------------------------
(* What has been sent and received                                         *)

Slot == [member |-> 1, id |-> 2, size |-> 3, list |-> 4, null |-> 5, PEER |-> 6]
SplitKinds == Kinds \ {"PEER"}

\* The messages of one peer to another in the order in which they are sent.
Rank(r, k) == 6 * r + Slot[k]
RankOf(m) == Rank(m.call, m.kind)

\* The peers whose r-th call is on the context that the others split in their
\* r-th call, and those that want to be in the context it makes.
Group(r) ==
    {q \in Peers :
       /\ q < plan.peers
       /\ plan.nested /\ r > 1 => r - 1 \in DOMAIN wants[q] /\ wants[q][r - 1]}
Chosen(r) == {q \in Peers : r \in DOMAIN wants[q] /\ wants[q][r]}

\* The id of that context.
Ctx(r) == IF plan.nested /\ r > 1 THEN contextIds[plan.names[r - 1]] ELSE 0

\* q sends p a message of kind k in its r-th call.
Owes(q, p, r, k) ==
    /\ {q, p, master} \subseteq Group(r)
    /\ k = "member" => p = master
    /\ k \in {"id", "size", "list"} => q = master /\ p \in Chosen(r)

\* The rank up to which p has sent what it owes.
Stage(p) ==
    CASE pc[p] = "thrown" -> 0
      [] pc[p] = "collect" -> 1
      [] pc[p] \in {"recvID", "recvSize", "recvList", "barrier"} -> 4
      [] pc[p] = "await" -> 5
      [] pc[p] = "idle" -> 6
Reached(p) == 6 * round(p) + Stage(p)

\* The peers p has heard in the loop it is in.
Heard(p) == {oldPeers(p)[j] : j \in 1 .. i[p] - 1}

\* The rank up to which p has received from q.
Level(p, q) ==
    CASE pc[p] = "thrown" -> 0
      [] pc[p] = "collect" -> IF q \in Heard(p) THEN 1 ELSE 0
      [] pc[p] = "recvID" -> 1
      [] pc[p] = "recvSize" -> 2
      [] pc[p] = "recvList" -> 3
      [] pc[p] = "barrier" -> 4
      [] pc[p] = "await" -> IF q \in Heard(p) THEN 5 ELSE 4
      [] pc[p] = "idle" -> 5
Got(p, q) == 6 * round(p) + Level(p, q)

-----------------------------------------------------------------------------
(* The invariant                                                           *)

Ascends(s) == \A a, b \in DOMAIN s : a < b => RankOf(s[a]) < RankOf(s[b])

Box(p, c, q) == inBox[p][<<c, q>>]

InOrder ==
    \A p, q \in Peers :
      /\ Ascends(wire[q][p])
      /\ \A c \in IDs :
           /\ Ascends(Box(p, c, q))
           /\ \A m \in VAddrs(Box(p, c, q)), n \in VAddrs(wire[q][p]) : RankOf(m) < RankOf(n)

\* A message from q to p.
Content(q, p, m) ==
    /\ m.context = Ctx(m.call)
    /\ m.kind = "member" => m.value = wants[q][m.call]
    /\ m.kind = "id" => m.value = contextIds[plan.names[m.call]]
    /\ m.kind = "size" => m.value = Len(whiteList[master])
    /\ m.kind = "list" => m.value = whiteList[master]

SplitMessage(q, p, m) ==
    /\ m.kind \in SplitKinds /\ m.call \in Nat \ {0}
    /\ Owes(q, p, m.call, m.kind)
    /\ Got(p, q) < RankOf(m) /\ RankOf(m) <= Reached(q)
    /\ Content(q, p, m)

PeerMessage(q, p, m) ==
    /\ m.kind = "PEER" /\ m.call \in Nat \ {0}
    /\ RankOf(m) <= Reached(q)
    /\ m.context \in IDs /\ contexts[p][m.context] # <<>>

Sound ==
    \A p, q \in Peers :
      /\ \A m \in VAddrs(wire[q][p]) : SplitMessage(q, p, m) \/ PeerMessage(q, p, m)
      /\ \A c \in IDs : \A m \in VAddrs(Box(p, c, q)) : SplitMessage(q, p, m) /\ m.context = c

\* What q has sent and p has not received is on its way.
Complete ==
    \A p, q \in Peers : \A r \in Nat \ {0}, k \in SplitKinds :
      Owes(q, p, r, k) /\ Got(p, q) < Rank(r, k) /\ Rank(r, k) <= Reached(q)
        => \E m \in VAddrs(wire[q][p]) \cup VAddrs(Box(p, Ctx(r), q)) : m.call = r /\ m.kind = k

\* What p has received, q has sent.
Passed ==
    \A p, q \in Peers : \A r \in Nat \ {0}, k \in SplitKinds :
      Owes(q, p, r, k) /\ Rank(r, k) <= Got(p, q) => Rank(r, k) <= Reached(q)

Injective(s) == \A a, b \in DOMAIN s : s[a] = s[b] => a = b
Lists(s, S) == Injective(s) /\ VAddrs(s) = S

Working(p) == pc[p] \notin {"idle", "thrown"}

\* A peer and its current call.
Place(p) ==
    /\ pc[p] # "idle" => round(p) # 0
    /\ Len(result[p]) = IF pc[p] = "idle" THEN round(p) ELSE round(p) - 1
    /\ round(p) # 0 => p < plan.peers
    /\ round(p) <= rounds
    /\ \A r \in 1 .. round(p) - 1 : master \in Group(r) /\ (plan.nested => wants[p][r])
    /\ round(p) # 0 => /\ old[p].id = Ctx(round(p))
                       /\ Lists(oldPeers(p), Group(round(p)))
                       /\ pc[p] # "thrown" <=> master \in Group(round(p))
    /\ pc[p] = "collect" => p = master
    /\ pc[p] \in {"recvID", "recvSize", "recvList"} => wants[p][round(p)]
    /\ i[p] \in 1 .. Len(oldPeers(p)) + 1

\* What the master has heard.
WhiteLists ==
    round(master) # 0 /\ pc[master] # "thrown" =>
      Lists(whiteList[master],
            IF pc[master] = "collect" THEN Heard(master) \cap Chosen(round(master))
            ELSE Chosen(round(master)))

\* What a member knows of its new context, and what the others get.
NewContext(p) ==
    /\ round(p) # 0 /\ wants[p][round(p)] =>
         LET id == contextIds[plan.names[round(p)]] IN
           /\ pc[p] \in {"recvSize", "recvList", "barrier", "await"} => newID[p] = id
           /\ pc[p] = "recvList" => newSize[p] = Len(whiteList[master])
           /\ pc[p] = "idle" => result[p][round(p)] = id
           /\ pc[p] \in {"barrier", "await", "idle"} => Lists(contexts[p][id], Chosen(round(p)))
    /\ round(p) # 0 /\ pc[p] = "idle" /\ ~wants[p][round(p)] => result[p][round(p)] = -1

\* A context a member has entered stays known.
Known(p) ==
    \A r \in 1 .. round(p) :
      wants[p][r] /\ (r < round(p) \/ pc[p] \in {"barrier", "await", "idle"})
        => contexts[p][contextIds[plan.names[r]]] # <<>>

FirstContext == \A p \in Peers : Lists(contexts[p][0], {q \in Peers : q < plan.peers})

\* The server's ids.
Names ==
    /\ DOMAIN contextIds \subseteq
         {plan.names[r] : r \in 1 .. (IF pc[master] \in {"collect", "thrown"} THEN round(master) - 1 ELSE round(master))}
    /\ \A r \in 1 .. round(master) : Rank(r, "id") <= Reached(master) => plan.names[r] \in DOMAIN contextIds
    /\ \A n \in DOMAIN contextIds : contextIds[n] \in 1 .. Cardinality(DOMAIN contextIds)

Streams == InOrder /\ Sound /\ Complete /\ Passed
Calling ==
    /\ \A p \in Peers : Place(p) /\ NewContext(p) /\ Known(p)
    /\ WhiteLists /\ FirstContext /\ Names
Inv == Shape /\ Streams /\ Calling

-----------------------------------------------------------------------------
(* Constants and ranks                                                     *)

LEMMA Constants ==
  /\ MaxPeers \in Nat \ {0} /\ MaxRounds \in Nat
  /\ master \in Peers /\ 0 \in IDs
  /\ \A p \in Peers : p \in Nat
  /\ 1 .. MaxRounds \subseteq IDs
  /\ IDs \subseteq Nat /\ -1 \notin IDs
<1>1. PICK a \in Nat, b \in Nat, m \in Nat : a = MaxPeers /\ b = MaxRounds /\ m = a * b
  BY SplitAssumption
<1>2. a # 0
  BY <1>1, SplitAssumption
<1>3. b <= m
  <2>1. PICK c \in Nat : a = c + 1
    <3>1. a - 1 \in Nat /\ a = (a - 1) + 1
      BY <1>2
    <3> QED
      BY <3>1
  <2>2. m = c * b + b /\ c * b \in Nat
    BY <1>1, <2>1
  <2> QED
    BY <2>2
<1>4. IDs = 0 .. m /\ Peers = 0 .. a - 1
  BY <1>1 DEF IDs, Peers
<1> QED
  BY <1>1, <1>2, <1>3, <1>4 DEF master

LEMMA PlanType ==
  ASSUME plan \in Plans
  PROVE  /\ plan.peers \in 1 .. MaxPeers /\ plan.nested \in BOOLEAN
         /\ plan.names \in Seq(Nat) /\ rounds \in 0 .. MaxRounds
         /\ \A r \in 1 .. rounds : plan.names[r] \in Nat
BY SplitAssumption DEF rounds

LEMMA Slots ==
  /\ \A k \in Kinds : Slot[k] \in 1 .. 6
  /\ \A k \in SplitKinds : k \in Kinds /\ Slot[k] \in 1 .. 5
  /\ \A k, l \in Kinds : Slot[k] = Slot[l] => k = l
  /\ Slot["member"] = 1 /\ Slot["id"] = 2 /\ Slot["size"] = 3 /\ Slot["list"] = 4
  /\ Slot["null"] = 5 /\ Slot["PEER"] = 6
  /\ {"member", "id", "size", "list", "null"} = SplitKinds
  /\ "PEER" \notin SplitKinds
BY DEF Slot, Kinds, SplitKinds

LEMMA Ranks ==
  /\ \A r \in Nat, k \in Kinds : Rank(r, k) \in Nat /\ 6 * r + 1 <= Rank(r, k) /\ Rank(r, k) <= 6 * r + 6
  /\ \A r \in Nat, k \in SplitKinds : k \in Kinds /\ Rank(r, k) <= 6 * r + 5
  /\ \A r, s \in Nat, k, l \in Kinds : Rank(r, k) = Rank(s, l) => r = s /\ k = l
  /\ \A r \in Nat :
       /\ Rank(r, "member") = 6 * r + 1 /\ Rank(r, "id") = 6 * r + 2
       /\ Rank(r, "size") = 6 * r + 3 /\ Rank(r, "list") = 6 * r + 4
       /\ Rank(r, "null") = 6 * r + 5 /\ Rank(r, "PEER") = 6 * r + 6
<1>1. \A r \in Nat, k \in Kinds :
        Rank(r, k) \in Nat /\ 6 * r + 1 <= Rank(r, k) /\ Rank(r, k) <= 6 * r + 6
  BY Slots DEF Rank
<1>2. \A r \in Nat, k \in SplitKinds : k \in Kinds /\ Rank(r, k) <= 6 * r + 5
  BY Slots DEF Rank
<1>3. ASSUME NEW r \in Nat, NEW s \in Nat, NEW k \in Kinds, NEW l \in Kinds, Rank(r, k) = Rank(s, l)
      PROVE  r = s /\ k = l
  <2>1. PICK a \in 1 .. 6, b \in 1 .. 6 : a = Slot[k] /\ b = Slot[l]
    BY Slots
  <2>2. 6 * r + a = 6 * s + b
    BY <1>3, <2>1 DEF Rank
  <2>3. r = s /\ a = b
    BY <2>2
  <2> QED
    BY <2>1, <2>3, Slots
<1> QED
  BY <1>1, <1>2, <1>3, Slots DEF Rank

LEMMA SameRank ==
  ASSUME NEW r \in Nat, NEW s \in Nat, NEW k \in Kinds, NEW l \in Kinds, Rank(r, k) = Rank(s, l)
  PROVE  r = s /\ k = l
BY Ranks

LEMMA ElementsOf ==
  ASSUME NEW S, NEW s \in Seq(S)
  PROVE  /\ VAddrs(s) \subseteq S
         /\ \A x : x \in VAddrs(s) <=> \E j \in 1 .. Len(s) : s[j] = x
         /\ s # <<>> => Head(s) \in VAddrs(s) /\ Head(s) = s[1] /\ Len(s) \in Nat \ {0}
BY DEF VAddrs

-----------------------------------------------------------------------------
(* Where a peer is                                                         *)

\* The ranks by the place in splitContext.
LEMMA Levels ==
  ASSUME Shape, NEW p \in Peers
  PROVE  /\ round(p) \in Nat
         /\ pc[p] = "thrown" => Reached(p) = 6 * round(p) /\ \A q : Got(p, q) = 6 * round(p)
         /\ pc[p] = "collect" => /\ Reached(p) = 6 * round(p) + 1
                                 /\ \A q : Got(p, q) = IF q \in Heard(p) THEN 6 * round(p) + 1
                                                       ELSE 6 * round(p)
         /\ pc[p] = "recvID" => \A q : Got(p, q) = 6 * round(p) + 1
         /\ pc[p] = "recvSize" => \A q : Got(p, q) = 6 * round(p) + 2
         /\ pc[p] = "recvList" => \A q : Got(p, q) = 6 * round(p) + 3
         /\ pc[p] \in {"recvID", "recvSize", "recvList", "barrier"} => Reached(p) = 6 * round(p) + 4
         /\ pc[p] = "barrier" => \A q : Got(p, q) = 6 * round(p) + 4
         /\ pc[p] = "await" => /\ Reached(p) = 6 * round(p) + 5
                               /\ \A q : Got(p, q) = IF q \in Heard(p) THEN 6 * round(p) + 5
                                                     ELSE 6 * round(p) + 4
         /\ pc[p] = "idle" => Reached(p) = 6 * round(p) + 6 /\ \A q : Got(p, q) = 6 * round(p) + 5
<1>1. round(p) \in Nat
  BY DEF Shape, round
<1> QED
  BY <1>1 DEF Reached, Stage, Got, Level

\* The same after a step.
LEMMA LevelsAfter ==
  ASSUME NEW p \in Peers, wants'[p] \in Seq(BOOLEAN)
  PROVE  /\ round(p)' \in Nat /\ round(p)' = Len(wants'[p])
         /\ pc'[p] = "thrown" => Reached(p)' = 6 * round(p)' /\ \A q : Got(p, q)' = 6 * round(p)'
         /\ pc'[p] = "collect" => /\ Reached(p)' = 6 * round(p)' + 1
                                  /\ \A q : Got(p, q)' = IF q \in Heard(p)' THEN 6 * round(p)' + 1
                                                         ELSE 6 * round(p)'
         /\ pc'[p] = "recvID" => \A q : Got(p, q)' = 6 * round(p)' + 1
         /\ pc'[p] = "recvSize" => \A q : Got(p, q)' = 6 * round(p)' + 2
         /\ pc'[p] = "recvList" => \A q : Got(p, q)' = 6 * round(p)' + 3
         /\ pc'[p] \in {"recvID", "recvSize", "recvList", "barrier"} => Reached(p)' = 6 * round(p)' + 4
         /\ pc'[p] = "barrier" => \A q : Got(p, q)' = 6 * round(p)' + 4
         /\ pc'[p] = "await" => /\ Reached(p)' = 6 * round(p)' + 5
                                /\ \A q : Got(p, q)' = IF q \in Heard(p)' THEN 6 * round(p)' + 5
                                                       ELSE 6 * round(p)' + 4
         /\ pc'[p] = "idle" => Reached(p)' = 6 * round(p)' + 6 /\ \A q : Got(p, q)' = 6 * round(p)' + 5
<1>1. round(p)' \in Nat /\ round(p)' = Len(wants'[p])
  BY DEF round
<1> QED
  BY <1>1 DEF Reached, Stage, Got, Level

\* Who does nothing, stays where it is.
LEMMA OthersStay ==
  ASSUME NEW p \in Peers, pc'[p] = pc[p], wants'[p] = wants[p], i'[p] = i[p], old'[p] = old[p]
  PROVE  /\ round(p)' = round(p) /\ Heard(p)' = Heard(p) /\ oldPeers(p)' = oldPeers(p)
         /\ Reached(p)' = Reached(p)
         /\ \A q : Got(p, q)' = Got(p, q)
BY DEF round, Heard, oldPeers, Reached, Stage, Got, Level

LEMMA Bounds ==
  ASSUME Shape, NEW p \in Peers
  PROVE  /\ round(p) \in Nat
         /\ Reached(p) \in Nat /\ 6 * round(p) <= Reached(p) /\ Reached(p) <= 6 * round(p) + 6
         /\ \A q : Got(p, q) \in Nat /\ 6 * round(p) <= Got(p, q) /\ Got(p, q) <= 6 * round(p) + 5
         /\ 6 * round(p) + 5 <= Reached(p) => \A q : 6 * round(p) + 4 <= Got(p, q)
<1>1. pc[p] \in {"idle", "collect", "recvID", "recvSize", "recvList", "barrier", "await", "thrown"}
  BY DEF Shape
<1> QED
  BY <1>1, Levels

-----------------------------------------------------------------------------
(* What the invariant says of the groups                                   *)

LEMMA InGroups ==
  ASSUME Inv, NEW p \in Peers, NEW r \in 1 .. round(p)
  PROVE  /\ p \in Group(r)
         /\ r < round(p) \/ pc[p] # "thrown" => master \in Group(r)
         /\ r \in Nat /\ r # 0
<1>1. round(p) \in Nat /\ round(p) # 0
  BY Bounds DEF Inv
<1>2. p < plan.peers
  BY <1>1 DEF Inv, Calling, Place
<1>3. plan.nested /\ r > 1 => r - 1 \in DOMAIN wants[p] /\ wants[p][r - 1]
  <2>1. DOMAIN wants[p] = 1 .. round(p)
    BY DEF Inv, Shape, round
  <2>2. \A s \in 1 .. round(p) - 1 : plan.nested => wants[p][s]
    BY DEF Inv, Calling, Place
  <2> QED
    BY <1>1, <2>1, <2>2
<1>4. p \in Group(r)
  BY <1>2, <1>3 DEF Group
<1>5. r < round(p) => master \in Group(r)
  <2>1. \A s \in 1 .. round(p) - 1 : master \in Group(s)
    BY DEF Inv, Calling, Place
  <2> QED
    BY <1>1, <2>1
<1>6. pc[p] # "thrown" => master \in Group(round(p))
  BY <1>1 DEF Inv, Calling, Place
<1>7. r < round(p) \/ r = round(p)
  BY <1>1
<1> QED
  BY <1>4, <1>5, <1>6, <1>7, <1>1

\* Who has received a message, had it sent.
LEMMA Heard1 ==
  ASSUME Inv, NEW p \in Peers, NEW q \in Peers, NEW r \in Nat \ {0}, NEW k \in SplitKinds,
         Owes(q, p, r, k), Rank(r, k) <= Got(p, q)
  PROVE  Rank(r, k) <= Reached(q) /\ r <= round(q)
<1>1. Rank(r, k) <= Reached(q)
  BY DEF Inv, Streams, Passed
<1>2. k \in Kinds
  BY Slots
<1>3. Rank(r, k) \in Nat /\ 6 * r + 1 <= Rank(r, k)
  BY <1>2, Ranks
<1>4. Reached(q) \in Nat /\ round(q) \in Nat /\ Reached(q) <= 6 * round(q) + 6
  BY Bounds DEF Inv
<1> QED
  BY <1>1, <1>3, <1>4

\* Who is in a call, or past it, knows that its whole group is past the one before.
LEMMA Settled ==
  ASSUME Inv, NEW p \in Peers, NEW r \in Nat \ {0}, r < round(p), NEW q \in Group(r)
  PROVE  6 * r + 5 <= Reached(q) /\ r <= round(q)
<1>1. round(p) \in Nat /\ r \in 1 .. round(p)
  BY Bounds DEF Inv
<1>2. {p, q, master} \subseteq Group(r) /\ q \in Peers
  BY <1>1, InGroups DEF Group
<1>3. Owes(q, p, r, "null")
  BY <1>2 DEF Owes
<1>4. Rank(r, "null") <= Got(p, q)
  <2>1. Rank(r, "null") = 6 * r + 5
    BY Ranks
  <2>2. Got(p, q) \in Nat /\ 6 * round(p) <= Got(p, q)
    BY Bounds DEF Inv
  <2> QED
    BY <1>1, <2>1, <2>2
<1>5. "null" \in SplitKinds
  BY Slots
<1>6. Rank(r, "null") <= Reached(q) /\ r <= round(q)
  BY <1>2, <1>3, <1>4, <1>5, Heard1
<1> QED
  BY <1>6, Ranks

\* Who has an id, has one that the server knows.
LEMMA FromMaster ==
  ASSUME Inv, NEW p \in Peers, NEW r \in 1 .. round(p), p \in Chosen(r), NEW k \in {"id", "size", "list"},
         Rank(r, k) <= Got(p, master), r < round(p) \/ pc[p] # "thrown"
  PROVE  /\ Rank(r, k) <= Reached(master) /\ r <= round(master)
         /\ plan.names[r] \in DOMAIN contextIds
<1>1. {p, master} \subseteq Group(r) /\ r \in Nat \ {0}
  BY InGroups
<1>2. Owes(master, p, r, k)
  BY <1>1 DEF Owes
<1>3. Rank(r, k) <= Reached(master) /\ r <= round(master)
  BY <1>1, <1>2, Constants, Slots, Heard1
<1>4. Rank(r, "id") <= Rank(r, k) /\ Rank(r, k) \in Nat /\ Rank(r, "id") \in Nat
  BY <1>1, Ranks, Slots DEF Rank
<1>5. Rank(r, "id") <= Reached(master) /\ r \in 1 .. round(master)
  BY <1>1, <1>3, <1>4, Bounds, Constants DEF Inv
<1> QED
  BY <1>3, <1>5 DEF Inv, Calling, Names

LEMMA CtxKnown ==
  ASSUME Inv, NEW p \in Peers, NEW r \in 1 .. round(p), plan.nested, r > 1
  PROVE  plan.names[r - 1] \in DOMAIN contextIds
<1>1. round(p) \in Nat
  BY Bounds DEF Inv
<1>2. PICK s \in 1 .. round(p) - 1 : s = r - 1
  BY <1>1
<1>3. wants[p][s] /\ DOMAIN wants[p] = 1 .. round(p)
  BY DEF Inv, Calling, Place, Shape, round
<1>4. p \in Chosen(s) /\ s \in 1 .. round(p) /\ s < round(p)
  BY <1>1, <1>3 DEF Chosen
<1>5. Rank(s, "list") <= Got(p, master)
  <2>1. Rank(s, "list") = 6 * s + 4
    BY <1>2, Ranks
  <2>2. Got(p, master) \in Nat /\ 6 * round(p) <= Got(p, master)
    BY Bounds DEF Inv
  <2> QED
    BY <1>1, <1>2, <2>1, <2>2
<1> QED
  BY <1>2, <1>4, <1>5, FromMaster

LEMMA IdsTyped ==
  ASSUME Inv
  PROVE  /\ Cardinality(DOMAIN contextIds) \in 0 .. round(master)
         /\ pc[master] \in {"collect", "thrown"} => Cardinality(DOMAIN contextIds) \in 0 .. round(master) - 1
         /\ \A n \in DOMAIN contextIds : contextIds[n] \in IDs \ {0}
<1>1. PICK m \in 0 .. MaxRounds :
        /\ m = IF pc[master] \in {"collect", "thrown"} THEN round(master) - 1 ELSE round(master)
        /\ DOMAIN contextIds \subseteq {plan.names[r] : r \in 1 .. m}
  <2>1. round(master) \in Nat /\ round(master) <= rounds /\ rounds \in 0 .. MaxRounds
    BY Constants, Bounds, PlanType DEF Inv, Calling, Place, Shape
  <2>2. pc[master] \in {"collect", "thrown"} => round(master) # 0
    BY Constants DEF Inv, Calling, Place
  <2> QED
    BY <2>1, <2>2, Constants DEF Inv, Calling, Names
<1>2. DEFINE f == [r \in 1 .. m |-> plan.names[r]]
<1>3. DOMAIN f = 1 .. m /\ {plan.names[r] : r \in 1 .. m} = {f[r] : r \in DOMAIN f}
  OBVIOUS
<1>4. IsFiniteSet(1 .. m) /\ Cardinality(1 .. m) = m
  BY FS_Interval
<1> HIDE DEF f
<1>5. /\ IsFiniteSet({f[r] : r \in DOMAIN f})
      /\ Cardinality({f[r] : r \in DOMAIN f}) <= m
      /\ Cardinality({f[r] : r \in DOMAIN f}) \in Nat
  <2>1. f \in Surjection(1 .. m, {f[r] : r \in DOMAIN f})
    <3>1. f \in [1 .. m -> {f[r] : r \in DOMAIN f}]
      BY <1>3 DEF f
    <3>2. \A x \in {f[r] : r \in DOMAIN f} : \E r \in 1 .. m : f[r] = x
      BY <1>3
    <3> QED
      BY <3>1, <3>2 DEF Surjection
  <2> QED
    BY <1>4, <2>1, FS_Surjection, FS_CardinalityType
<1>6. Cardinality(DOMAIN contextIds) \in 0 .. m
  BY <1>1, <1>3, <1>5, FS_Subset, FS_CardinalityType
<1>7. \A n \in DOMAIN contextIds : contextIds[n] \in 1 .. Cardinality(DOMAIN contextIds)
  BY DEF Inv, Calling, Names
<1>8. \A n \in DOMAIN contextIds : contextIds[n] \in IDs \ {0}
  BY <1>6, <1>7, Constants
<1>9. round(master) \in Nat
  BY Constants, Bounds DEF Inv
<1> QED
  BY <1>1, <1>6, <1>8, <1>9

LEMMA CtxTyped ==
  ASSUME Inv, NEW p \in Peers, NEW r \in 1 .. round(p)
  PROVE  Ctx(r) \in IDs
BY CtxKnown, IdsTyped, Constants DEF Ctx

-----------------------------------------------------------------------------
(* What a receive gets                                                     *)

\* The rank of the message p waits for is the next after what it has got.
LEMMA Awaited ==
  ASSUME Inv, NEW p \in Peers, NEW q \in Source(p)
  PROVE  /\ q \in Peers /\ round(p) \in Nat \ {0} /\ pc[p] # "thrown"
         /\ Expected(p)[pc[p]] \in SplitKinds
         /\ Owes(q, p, round(p), Expected(p)[pc[p]])
         /\ Rank(round(p), Expected(p)[pc[p]]) = Got(p, q) + 1
         /\ old[p].id = Ctx(round(p)) /\ old[p].id \in IDs
<1>1. /\ pc[p] \in {"collect", "recvID", "recvSize", "recvList", "await"}
      /\ pc[p] \in {"collect", "await"} => i[p] <= Len(oldPeers(p)) /\ q = oldPeers(p)[i[p]]
      /\ pc[p] \in {"recvID", "recvSize", "recvList"} => q = master
  BY DEF Source
<1>2. round(p) \in Nat \ {0}
  BY <1>1, Bounds DEF Inv, Calling, Place
<1>3. /\ old[p].id = Ctx(round(p)) /\ Lists(oldPeers(p), Group(round(p)))
      /\ pc[p] = "collect" => p = master
      /\ pc[p] \in {"recvID", "recvSize", "recvList"} => wants[p][round(p)]
  BY <1>2 DEF Inv, Calling, Place
<1>4. {p, master} \subseteq Group(round(p))
  BY <1>1, <1>2, InGroups
<1>5. q \in Group(round(p)) /\ q \in Peers
  <2>1. CASE pc[p] \in {"collect", "await"}
    <3>1. i[p] \in DOMAIN oldPeers(p)
      BY <1>1, <2>1 DEF Inv, Shape, oldPeers
    <3> QED
      BY <1>1, <1>3, <2>1, <3>1 DEF Lists, VAddrs, Group
  <2>2. CASE pc[p] \in {"recvID", "recvSize", "recvList"}
    BY <1>1, <1>4, <2>2, Constants
  <2> QED
    BY <1>1, <2>1, <2>2
<1>6. pc[p] \in {"collect", "await"} => q \notin Heard(p)
  <2>1. SUFFICES ASSUME pc[p] \in {"collect", "await"}, q \in Heard(p) PROVE FALSE
    OBVIOUS
  <2>2. PICK j \in 1 .. i[p] - 1 : q = oldPeers(p)[j]
    BY <2>1 DEF Heard
  <2>3. i[p] \in Nat \ {0} /\ oldPeers(p) \in Seq(Peers) /\ i[p] <= Len(oldPeers(p))
    BY <1>1, <2>1 DEF Inv, Shape, oldPeers
  <2>4. j \in DOMAIN oldPeers(p) /\ i[p] \in DOMAIN oldPeers(p) /\ j # i[p]
    BY <2>2, <2>3
  <2> QED
    BY <1>1, <1>3, <2>1, <2>2, <2>4 DEF Lists, Injective
<1>7. pc[p] \in {"recvID", "recvSize", "recvList"} => p \in Chosen(round(p))
  <2>1. round(p) \in DOMAIN wants[p]
    BY <1>2 DEF Inv, Shape, round
  <2> QED
    BY <1>3, <2>1 DEF Chosen
<1>8. old[p].id \in IDs
  BY DEF Inv, Shape
<1>9. CASE pc[p] = "collect"
  <2>1. Got(p, q) = 6 * round(p) /\ Expected(p)[pc[p]] = "member"
    BY <1>6, <1>9, Levels DEF Inv, Expected
  <2>2. Owes(q, p, round(p), "member")
    BY <1>3, <1>4, <1>5, <1>9 DEF Owes
  <2>3. Rank(round(p), "member") = 6 * round(p) + 1
    BY <1>2, Ranks
  <2> QED
    BY <1>2, <1>3, <1>5, <1>8, <1>9, <2>1, <2>2, <2>3, Slots
<1>10. CASE pc[p] \in {"recvID", "recvSize", "recvList"}
  <2> DEFINE k == Expected(p)[pc[p]]
  <2>1. k \in {"id", "size", "list"} /\ Rank(round(p), k) = Got(p, q) + 1
    <3>1. /\ Rank(round(p), "id") = 6 * round(p) + 2 /\ Rank(round(p), "size") = 6 * round(p) + 3
          /\ Rank(round(p), "list") = 6 * round(p) + 4
      BY <1>2, Ranks
    <3>2. CASE pc[p] = "recvID"
      BY <1>2, <3>1, <3>2, Levels DEF Inv, Expected
    <3>3. CASE pc[p] = "recvSize"
      BY <1>2, <3>1, <3>3, Levels DEF Inv, Expected
    <3>4. CASE pc[p] = "recvList"
      BY <1>2, <3>1, <3>4, Levels DEF Inv, Expected
    <3> QED
      BY <1>10, <3>2, <3>3, <3>4
  <2> HIDE DEF k
  <2>2. Owes(q, p, round(p), k)
    BY <1>1, <1>4, <1>5, <1>7, <1>10, <2>1 DEF Owes
  <2>3. k \in SplitKinds
    BY <2>1, Slots
  <2> QED
    BY <1>2, <1>3, <1>5, <1>8, <1>10, <2>1, <2>2, <2>3 DEF k
<1>11. CASE pc[p] = "await"
  <2>1. Got(p, q) = 6 * round(p) + 4 /\ Expected(p)[pc[p]] = "null"
    BY <1>6, <1>11, Levels DEF Inv, Expected
  <2>2. Owes(q, p, round(p), "null")
    BY <1>4, <1>5 DEF Owes
  <2>3. Rank(round(p), "null") = 6 * round(p) + 5
    BY <1>2, Ranks
  <2> QED
    BY <1>2, <1>3, <1>5, <1>8, <1>11, <2>1, <2>2, <2>3, Slots
<1> QED
  BY <1>1, <1>9, <1>10, <1>11

\* The head of the queue is that message, and whatever is behind it comes later.
LEMMA HeadIsNext ==
  ASSUME Inv, NEW p \in Peers, NEW q \in Peers, NEW r \in Nat \ {0}, NEW k \in SplitKinds,
         Owes(q, p, r, k), Rank(r, k) = Got(p, q) + 1,
         NEW c \in IDs, c = Ctx(r), Box(p, c, q) # <<>>,
         NEW m, m = Head(Box(p, c, q))
  PROVE  m.kind = k /\ m.call = r /\ SplitMessage(q, p, m) /\ m \in Messages
<1>1. Box(p, c, q) \in Seq(Messages) /\ wire[q][p] \in Seq(Messages)
  BY DEF Inv, Shape, Box
<1>2. m \in VAddrs(Box(p, c, q)) /\ m \in Messages /\ m = Box(p, c, q)[1] /\ 1 \in DOMAIN Box(p, c, q)
  BY <1>1, ElementsOf
<1>3. SplitMessage(q, p, m)
  BY <1>2 DEF Inv, Streams, Sound
<1>4. PICK x \in Nat : x = RankOf(m) /\ Got(p, q) < x /\ x <= Reached(q)
  <2>1. m.call \in Nat /\ m.kind \in Kinds
    BY <1>2 DEF Messages
  <2> QED
    BY <1>3, <2>1, Ranks DEF SplitMessage, RankOf
<1>5. Got(p, q) \in Nat /\ Rank(r, k) \in Nat /\ Reached(q) \in Nat
  BY Bounds DEF Inv
<1>6. Rank(r, k) <= x
  BY <1>4, <1>5
<1>7. Got(p, q) < Rank(r, k) /\ Rank(r, k) <= Reached(q)
  BY <1>4, <1>5, <1>6
<1>8. PICK n \in VAddrs(wire[q][p]) \cup VAddrs(Box(p, c, q)) : n.call = r /\ n.kind = k
  BY <1>7 DEF Inv, Streams, Complete
<1>9. RankOf(n) = Rank(r, k)
  BY <1>8 DEF RankOf
<1>10. n \in VAddrs(Box(p, c, q))
  <2>1. SUFFICES ASSUME n \in VAddrs(wire[q][p]) PROVE FALSE
    BY <1>8
  <2>2. RankOf(m) < RankOf(n)
    BY <1>2, <2>1 DEF Inv, Streams, InOrder
  <2> QED
    BY <1>4, <1>5, <1>6, <1>9, <2>2
<1>11. PICK b \in DOMAIN Box(p, c, q) : Box(p, c, q)[b] = n
  BY <1>10 DEF VAddrs
<1>12. b = 1
  <2>1. SUFFICES ASSUME b # 1 PROVE FALSE
    OBVIOUS
  <2>2. b \in Nat /\ 1 < b
    BY <1>1, <1>11, <2>1
  <2>3. RankOf(m) < RankOf(n)
    BY <1>2, <1>11, <2>2 DEF Inv, Streams, InOrder, Ascends
  <2> QED
    BY <1>4, <1>5, <1>6, <1>9, <2>3
<1> QED
  BY <1>2, <1>3, <1>8, <1>11, <1>12

LEMMA InvRead ==
  ASSUME Inv
  PROVE  NeverMisread
<1>1. SUFFICES ASSUME NEW p \in Peers, NEW q \in Source(p), Waiting(p, q) # <<>>
               PROVE  /\ Head(Waiting(p, q)).kind = Expected(p)[pc[p]]
                      /\ Head(Waiting(p, q)).call = round(p)
  BY DEF NeverMisread
<1>2. PICK k \in SplitKinds, c \in IDs : k = Expected(p)[pc[p]] /\ c = old[p].id
  BY Awaited
<1>3. Waiting(p, q) = Box(p, c, q)
  BY <1>2 DEF Waiting, Box
<1> QED
  BY <1>1, <1>2, <1>3, Awaited, HeadIsNext

-----------------------------------------------------------------------------
(* Steps that receive                                                      *)

LEMMA TailFacts ==
  ASSUME NEW S, NEW s \in Seq(S), s # <<>>
  PROVE  /\ Tail(s) \in Seq(S)
         /\ DOMAIN Tail(s) = 1 .. Len(s) - 1 /\ DOMAIN s = 1 .. Len(s) /\ Len(s) \in Nat
         /\ \A j \in DOMAIN Tail(s) : Tail(s)[j] = s[j + 1]
         /\ VAddrs(Tail(s)) \subseteq VAddrs(s)
         /\ VAddrs(s) = {Head(s)} \cup VAddrs(Tail(s))
<1>1. /\ Tail(s) \in Seq(S) /\ Head(s) = s[1]
      /\ DOMAIN Tail(s) = 1 .. Len(s) - 1 /\ DOMAIN s = 1 .. Len(s) /\ Len(s) \in Nat \ {0}
      /\ \A j \in DOMAIN Tail(s) : Tail(s)[j] = s[j + 1]
  OBVIOUS
<1>2. VAddrs(Tail(s)) \subseteq VAddrs(s)
  <2>1. \A j \in DOMAIN Tail(s) : j + 1 \in DOMAIN s
    BY <1>1
  <2> QED
    BY <1>1, <2>1 DEF VAddrs
<1>3. ASSUME NEW x \in VAddrs(s), x # s[1] PROVE x \in VAddrs(Tail(s))
  <2>1. PICK j \in DOMAIN s : x = s[j]
    BY <1>3 DEF VAddrs
  <2>2. j - 1 \in DOMAIN Tail(s) /\ (j - 1) + 1 = j
    BY <1>1, <1>3, <2>1
  <2>3. Tail(s)[j - 1] = x
    BY <1>1, <2>1, <2>2
  <2> QED
    BY <2>2, <2>3 DEF VAddrs
<1>4. s[1] \in VAddrs(s)
  BY <1>1 DEF VAddrs
<1> QED
  BY <1>1, <1>2, <1>3, <1>4

\* Groups, and what peers owe each other, depend on the calls only.
LEMMA SameOwes ==
  ASSUME UNCHANGED <<plan, wants>>
  PROVE  /\ \A r : Group(r)' = Group(r) /\ Chosen(r)' = Chosen(r)
         /\ \A q, p, r, k : Owes(q, p, r, k)' <=> Owes(q, p, r, k)
<1>1. \A r : Group(r)' = Group(r) /\ Chosen(r)' = Chosen(r)
  BY DEF Group, Chosen
<1> QED
  BY <1>1 DEF Owes

\* In context c, p receives the message of kind k of q's r-th call.
Takes(p, q, r, k, c) ==
    /\ Owes(q, p, r, k) /\ Rank(r, k) = Got(p, q) + 1
    /\ c = Ctx(r) /\ Box(p, c, q) # <<>>
    /\ inBox' = [inBox EXCEPT ![p][<<c, q>>] = Tail(@)]
    /\ UNCHANGED <<plan, contextIds, wants, wire>>
    /\ \A a \in Peers : Reached(a)' = Reached(a)
    /\ \A a \in Peers : \A b : a # p => Got(a, b)' = Got(a, b)
    /\ \A b \in Peers : Got(p, b)' \in Nat /\ Got(p, b) <= Got(p, b)'
    /\ Got(p, q)' = Rank(r, k)
    /\ \A b \in Peers, s \in Nat \ {0}, l \in SplitKinds :
         b # q /\ Owes(b, p, s, l) /\ Rank(s, l) <= Got(p, b)' => Rank(s, l) <= Got(p, b)
    /\ \A a \in Peers, d \in IDs : contexts[a][d] # <<>> => contexts'[a][d] # <<>>
    /\ \/ whiteList'[master] = whiteList[master]
       \/ \A b \in Peers : \A m : SplitMessage(master, b, m) => m.kind \notin {"size", "list"}

\* The effect on the streams.
LEMMA TakeStreams ==
  ASSUME Inv, NEW p \in Peers, NEW q \in Peers, NEW r \in Nat \ {0}, NEW k \in SplitKinds,
         NEW c \in IDs, Takes(p, q, r, k, c)
  PROVE  Streams'
<1>0. /\ Owes(q, p, r, k) /\ Rank(r, k) = Got(p, q) + 1
      /\ c = Ctx(r) /\ Box(p, c, q) # <<>>
      /\ inBox' = [inBox EXCEPT ![p][<<c, q>>] = Tail(@)]
      /\ UNCHANGED <<plan, contextIds, wants, wire>>
      /\ \A a \in Peers : Reached(a)' = Reached(a)
      /\ \A a \in Peers : \A b : a # p => Got(a, b)' = Got(a, b)
      /\ \A b \in Peers : Got(p, b)' \in Nat /\ Got(p, b) <= Got(p, b)'
      /\ Got(p, q)' = Rank(r, k)
      /\ \A b \in Peers, s \in Nat \ {0}, l \in SplitKinds :
           b # q /\ Owes(b, p, s, l) /\ Rank(s, l) <= Got(p, b)' => Rank(s, l) <= Got(p, b)
      /\ \A a \in Peers, d \in IDs : contexts[a][d] # <<>> => contexts'[a][d] # <<>>
      /\ \/ whiteList'[master] = whiteList[master]
         \/ \A b \in Peers : \A m : SplitMessage(master, b, m) => m.kind \notin {"size", "list"}
  BY DEF Takes
<1> USE <1>0
<1> DEFINE m0 == Head(Box(p, c, q))
<1>1. m0.kind = k /\ m0.call = r /\ SplitMessage(q, p, m0) /\ m0 \in Messages
  BY HeadIsNext
<1>2. /\ Box(p, c, q)' = Tail(Box(p, c, q))
      /\ \A a, b \in Peers, d \in IDs :
           /\ ~(b = p /\ d = c /\ a = q) => Box(b, d, a)' = Box(b, d, a)
           /\ Box(b, d, a) \in Seq(Messages) /\ wire'[a][b] = wire[a][b] /\ wire[a][b] \in Seq(Messages)
  <2>1. inBox \in [Peers -> [IDs \X Peers -> Seq(Messages)]]
    BY DEF Inv, Shape
  <2>2. PICK kc \in IDs \X Peers : kc = <<c, q>>
    OBVIOUS
  <2>3. inBox'[p][kc] = Tail(inBox[p][kc])
    BY <2>1, <2>2
  <2>4. ASSUME NEW a \in Peers, NEW b \in Peers, NEW d \in IDs, ~(b = p /\ d = c /\ a = q)
        PROVE  Box(b, d, a)' = Box(b, d, a)
    <3>1. PICK kd \in IDs \X Peers : kd = <<d, a>>
      OBVIOUS
    <3>2. b = p => kd # kc
      BY <2>2, <2>4, <3>1
    <3>3. inBox'[b][kd] = inBox[b][kd]
      BY <2>1, <2>2, <3>2
    <3> QED
      BY <3>1, <3>3 DEF Box
  <2>5. Box(p, c, q)' = Tail(Box(p, c, q))
    BY <2>2, <2>3 DEF Box
  <2>6. ASSUME NEW a \in Peers, NEW b \in Peers, NEW d \in IDs
        PROVE  Box(b, d, a) \in Seq(Messages) /\ wire'[a][b] = wire[a][b] /\ wire[a][b] \in Seq(Messages)
    BY DEF Inv, Shape, Box
  <2> QED
    BY <2>4, <2>5, <2>6
<1>3. \A a, b \in Peers, d \in IDs : VAddrs(Box(b, d, a)') \subseteq VAddrs(Box(b, d, a))
  <2>1. VAddrs(Box(p, c, q)') \subseteq VAddrs(Box(p, c, q))
    BY <1>2, TailFacts
  <2> QED
    BY <1>2, <2>1
<1>4. \A x \in VAddrs(Box(p, c, q)) : x = m0 \/ x \in VAddrs(Box(p, c, q)')
  BY <1>2, TailFacts
<1> HIDE DEF m0
<1>5. \A a, b \in Peers : \A s, l : Owes(a, b, s, l)' <=> Owes(a, b, s, l)
  BY SameOwes
<1>6. \A s : Ctx(s)' = Ctx(s)
  BY DEF Ctx
<1>7. InOrder'
  <2>1. ASSUME NEW a \in Peers, NEW b \in Peers
        PROVE  /\ Ascends(wire'[a][b])
               /\ \A d \in IDs :
                    /\ Ascends(Box(b, d, a)')
                    /\ \A m \in VAddrs(Box(b, d, a)'), n \in VAddrs(wire'[a][b]) : RankOf(m) < RankOf(n)
    <3>1. Ascends(wire'[a][b])
      BY <1>2 DEF Inv, Streams, InOrder
    <3>2. ASSUME NEW d \in IDs PROVE Ascends(Box(b, d, a)')
      <4>1. Ascends(Box(b, d, a))
        BY DEF Inv, Streams, InOrder
      <4>2. CASE b = p /\ d = c /\ a = q
        <5>1. Box(b, d, a)' = Tail(Box(p, c, q)) /\ Box(p, c, q) \in Seq(Messages)
          BY <1>2, <4>2
        <5>2. DEFINE s == Box(p, c, q)
        <5>3. /\ DOMAIN Tail(s) = 1 .. Len(s) - 1 /\ DOMAIN s = 1 .. Len(s) /\ Len(s) \in Nat
              /\ \A j \in DOMAIN Tail(s) : Tail(s)[j] = s[j + 1]
          BY <5>1, TailFacts
        <5>4. Ascends(s)
          BY <4>1, <4>2
        <5> HIDE DEF s
        <5>5. ASSUME NEW x \in DOMAIN Tail(s), NEW y \in DOMAIN Tail(s), x < y
              PROVE  RankOf(Tail(s)[x]) < RankOf(Tail(s)[y])
          <6>1. x + 1 \in DOMAIN s /\ y + 1 \in DOMAIN s /\ x + 1 < y + 1
            BY <5>3, <5>5
          <6>2. RankOf(s[x + 1]) < RankOf(s[y + 1])
            BY <5>4, <6>1 DEF Ascends
          <6> QED
            BY <5>3, <6>2
        <5>6. Ascends(Tail(s))
          BY <5>5 DEF Ascends
        <5> QED
          BY <5>1, <5>6 DEF s
      <4>3. CASE ~(b = p /\ d = c /\ a = q)
        <5>1. Box(b, d, a)' = Box(b, d, a)
          BY <1>2, <4>3
        <5> QED
          BY <4>1, <5>1
      <4> QED
        BY <4>2, <4>3
    <3>3. ASSUME NEW d \in IDs, NEW m \in VAddrs(Box(b, d, a)'), NEW n \in VAddrs(wire'[a][b])
          PROVE  RankOf(m) < RankOf(n)
      BY <1>2, <1>3 DEF Inv, Streams, InOrder
    <3> QED
      BY <3>1, <3>2, <3>3
  <2>2. \A s : Ascends(s)' <=> Ascends(s)
    BY DEF Ascends, RankOf, Rank, Slot
  <2> QED
    BY <2>1 DEF InOrder, Ascends, RankOf, Rank, Slot
<1>8. ASSUME NEW a \in Peers, NEW b \in Peers, NEW m \in Messages, SplitMessage(a, b, m),
             ~(a = q /\ b = p /\ RankOf(m) = Rank(r, k))
      PROVE  SplitMessage(a, b, m)'
  <2>1. m.kind \in SplitKinds /\ m.call \in Nat \ {0} /\ Owes(a, b, m.call, m.kind)
        /\ Got(b, a) < RankOf(m) /\ RankOf(m) <= Reached(a) /\ Content(a, b, m)
    BY <1>8 DEF SplitMessage
  <2>2. RankOf(m) = Rank(m.call, m.kind) /\ RankOf(m) \in Nat
    BY <2>1, Slots, Ranks DEF RankOf
  <2>3. Got(b, a) \in Nat /\ Rank(r, k) \in Nat
    BY Slots, Ranks, Bounds DEF Inv
  <2>4. Got(b, a)' < RankOf(m)
    <3>1. CASE b # p
      BY <2>1, <3>1
    <3>2. CASE b = p /\ a # q
      <4>1. ~(RankOf(m) <= Got(p, a)')
        BY <2>1, <2>2, <2>3, <3>2
      <4> QED
        BY <2>2, <3>2, <4>1
    <3>3. CASE b = p /\ a = q
      <4>1. RankOf(m) # Rank(r, k)
        BY <1>8, <3>3
      <4> QED
        BY <2>1, <2>2, <2>3, <3>3, <4>1
    <3> QED
      BY <3>1, <3>2, <3>3
  <2>5. Content(a, b, m)'
    <3>1. m.kind \in {"size", "list"} => whiteList'[master] = whiteList[master]
      <4>1. m.kind \in {"size", "list"} => a = master
        BY <2>1 DEF Owes
      <4> QED
        BY <1>8, <4>1
    <3> QED
      BY <1>6, <2>1, <3>1 DEF Content
  <2>6. RankOf(m)' = RankOf(m)
    BY DEF RankOf, Rank, Slot
  <2> QED
    BY <1>5, <2>1, <2>4, <2>5, <2>6 DEF SplitMessage, RankOf, Rank, Slot, SplitKinds, Kinds
<1>9. ASSUME NEW a \in Peers, NEW b \in Peers, NEW m \in Messages, PeerMessage(a, b, m)
      PROVE  PeerMessage(a, b, m)'
  BY <1>9 DEF PeerMessage, RankOf, Rank, Slot
<1>10. ASSUME NEW m \in VAddrs(wire[q][p])
       PROVE  Rank(r, k) < RankOf(m)
  <2>1. m0 \in VAddrs(Box(p, c, q)) /\ RankOf(m0) = Rank(r, k)
    BY <1>1, <1>2, TailFacts DEF RankOf, m0
  <2> QED
    BY <2>1 DEF Inv, Streams, InOrder
<1>11. ASSUME NEW m \in VAddrs(Box(p, c, q)')
       PROVE  RankOf(m) # Rank(r, k)
  <2>1. DEFINE s == Box(p, c, q)
  <2>2. s \in Seq(Messages) /\ s # <<>> /\ Ascends(s) /\ Box(p, c, q)' = Tail(s)
    BY <1>2 DEF Inv, Streams, InOrder
  <2>3. m0 = s[1]
    BY <2>2 DEF m0
  <2> HIDE DEF s
  <2>4. PICK j \in DOMAIN Tail(s) : m = s[j + 1] /\ j + 1 \in DOMAIN s /\ 1 \in DOMAIN s /\ 1 < j + 1
    BY <1>11, <2>2, TailFacts DEF VAddrs
  <2>5. RankOf(m0) < RankOf(m)
    BY <2>2, <2>3, <2>4 DEF Ascends
  <2>6. RankOf(m0) = Rank(r, k) /\ Rank(r, k) \in Nat
    BY <1>1, Slots, Ranks DEF RankOf
  <2> QED
    BY <2>5, <2>6
<1>12. Sound'
  <2>1. ASSUME NEW a \in Peers, NEW b \in Peers, NEW m \in VAddrs(wire'[a][b])
        PROVE  SplitMessage(a, b, m)' \/ PeerMessage(a, b, m)'
    <3>1. m \in VAddrs(wire[a][b]) /\ m \in Messages
      BY <1>2, <2>1, ElementsOf
    <3>2. SplitMessage(a, b, m) \/ PeerMessage(a, b, m)
      BY <3>1 DEF Inv, Streams, Sound
    <3>3. a = q /\ b = p => RankOf(m) # Rank(r, k)
      <4>1. Rank(r, k) \in Nat
        BY Slots, Ranks
      <4> QED
        BY <1>10, <3>1, <4>1
    <3> QED
      BY <1>8, <1>9, <3>1, <3>2, <3>3
  <2>2. ASSUME NEW a \in Peers, NEW b \in Peers, NEW d \in IDs, NEW m \in VAddrs(Box(b, d, a)')
        PROVE  SplitMessage(a, b, m)' /\ m.context = d
    <3>1. m \in VAddrs(Box(b, d, a)) /\ m \in Messages
      BY <1>2, <1>3, <2>2, ElementsOf
    <3>2. SplitMessage(a, b, m) /\ m.context = d
      BY <3>1 DEF Inv, Streams, Sound
    <3>3. a = q /\ b = p => RankOf(m) # Rank(r, k)
      <4>1. SUFFICES ASSUME a = q, b = p PROVE RankOf(m) # Rank(r, k)
        OBVIOUS
      <4>2. m.context = Ctx(m.call)
        BY <3>2 DEF SplitMessage, Content
      <4>3. CASE d = c
        BY <1>11, <2>2, <4>1, <4>3
      <4>4. CASE d # c
        <5>1. m.call # r
          BY <3>2, <4>2, <4>4
        <5>2. m.call \in Nat /\ m.kind \in Kinds /\ k \in Kinds
          BY <3>1, Slots DEF Messages
        <5>3. RankOf(m) = Rank(m.call, m.kind)
          BY DEF RankOf
        <5>4. Rank(m.call, m.kind) # Rank(r, k)
          BY <5>1, <5>2, SameRank
        <5> QED
          BY <5>3, <5>4
      <4> QED
        BY <4>3, <4>4
    <3> QED
      BY <1>8, <3>1, <3>2, <3>3
  <2> QED
    BY <2>1, <2>2 DEF Sound
<1>13. Complete'
  <2>1. ASSUME NEW a \in Peers, NEW b \in Peers, NEW s \in Nat \ {0}, NEW l \in SplitKinds,
               Owes(a, b, s, l)', Got(b, a)' < Rank(s, l), Rank(s, l) <= Reached(a)'
        PROVE  \E d \in IDs : /\ d = Ctx(s)'
                             /\ \E m \in VAddrs(wire'[a][b]) \cup VAddrs(Box(b, d, a)') :
                                  m.call = s /\ m.kind = l
    <3>1. Rank(s, l) \in Nat /\ Got(b, a) \in Nat /\ Got(b, a)' \in Nat /\ Got(b, a) <= Got(b, a)'
      <4>1. Got(b, a) \in Nat
        BY Bounds DEF Inv
      <4>2. Rank(s, l) \in Nat
        BY Slots, Ranks
      <4> QED
        BY <4>1, <4>2
    <3>2. Owes(a, b, s, l) /\ Got(b, a) < Rank(s, l) /\ Rank(s, l) <= Reached(a)
      BY <1>5, <2>1, <3>1
    <3>3. PICK m \in VAddrs(wire[a][b]) \cup VAddrs(Box(b, Ctx(s), a)) : m.call = s /\ m.kind = l
      BY <3>2 DEF Inv, Streams, Complete
    <3>4. Ctx(s)' = Ctx(s) /\ Ctx(s) \in IDs
      <4>1. s \in 1 .. round(a)
        <5>1. l \in Kinds
          BY Slots
        <5>2. 6 * s + 1 <= Rank(s, l)
          BY <5>1, Ranks
        <5>3. Reached(a) \in Nat /\ round(a) \in Nat /\ Reached(a) <= 6 * round(a) + 6
          BY Bounds DEF Inv
        <5> QED
          BY <3>1, <3>2, <5>2, <5>3
      <4> QED
        BY <1>6, <4>1, CtxTyped
    <3>5. PICK d \in IDs : d = Ctx(s)
      BY <3>4
    <3>6. CASE m \in VAddrs(wire[a][b])
      BY <1>2, <3>3, <3>4, <3>5, <3>6
    <3>7. CASE m \in VAddrs(Box(b, d, a))
      <4>1. m \in VAddrs(Box(b, d, a)')
        <5>1. CASE b = p /\ d = c /\ a = q
          <6>1. m # m0
            <7>1. SUFFICES ASSUME m = m0 PROVE FALSE
              OBVIOUS
            <7>2. s = r /\ l = k
              BY <1>1, <3>3, <7>1
            <7> QED
              BY <2>1, <3>1, <5>1, <7>2
          <6> QED
            BY <1>4, <3>7, <5>1, <6>1
        <5>2. CASE ~(b = p /\ d = c /\ a = q)
          BY <1>2, <3>7, <5>2
        <5> QED
          BY <5>1, <5>2
      <4> QED
        BY <3>3, <3>4, <3>5, <4>1
    <3> QED
      BY <3>3, <3>5, <3>6, <3>7
  <2>2. ASSUME NEW a \in Peers, NEW b \in Peers, NEW s \in Nat \ {0}, NEW l \in SplitKinds,
               Owes(a, b, s, l)', Got(b, a)' < Rank(s, l), Rank(s, l) <= Reached(a)'
        PROVE  \E m \in VAddrs(wire'[a][b]) \cup VAddrs(inBox'[b][<<Ctx(s)', a>>]) :
                 m.call = s /\ m.kind = l
    <3>1. PICK d \in IDs : /\ d = Ctx(s)'
                           /\ \E m \in VAddrs(wire'[a][b]) \cup VAddrs(Box(b, d, a)') :
                                m.call = s /\ m.kind = l
      BY <2>1, <2>2
    <3> QED
      BY <3>1 DEF Box
  <2> SUFFICES ASSUME NEW b \in Peers, NEW a \in Peers, NEW s \in Nat \ {0}, NEW l \in SplitKinds,
                      (Owes(a, b, s, l) /\ Got(b, a) < Rank(s, l) /\ Rank(s, l) <= Reached(a))'
               PROVE  (\E m \in VAddrs(wire[a][b]) \cup VAddrs(Box(b, Ctx(s), a)) :
                         m.call = s /\ m.kind = l)'
    BY DEF Complete, SplitKinds, Kinds
  <2>3. Rank(s, l)' = Rank(s, l)
    BY DEF Rank, Slot
  <2>4. \E m \in VAddrs(wire'[a][b]) \cup VAddrs(inBox'[b][<<Ctx(s)', a>>]) : m.call = s /\ m.kind = l
    BY <2>2, <2>3
  <2> QED
    BY <2>4 DEF Box, VAddrs
<1>14. Passed'
  <2>1. ASSUME NEW a \in Peers, NEW b \in Peers, NEW s \in Nat \ {0}, NEW l \in SplitKinds,
               Owes(a, b, s, l)', Rank(s, l) <= Got(b, a)'
        PROVE  Rank(s, l) <= Reached(a)'
    <3>1. Owes(a, b, s, l)
      BY <1>5, <2>1
    <3>2. Rank(s, l) \in Nat /\ Got(b, a) \in Nat
      BY Slots, Ranks, Bounds DEF Inv
    <3>3. CASE Rank(s, l) <= Got(b, a)
      BY <3>1, <3>3 DEF Inv, Streams, Passed
    <3>4. CASE Got(b, a) < Rank(s, l)
      <4>1. b = p /\ a = q
        BY <2>1, <3>1, <3>2, <3>4
      <4>2. Rank(s, l) = RankOf(m0)
        BY <1>1, <2>1, <3>2, <3>4, <4>1 DEF RankOf
      <4>3. RankOf(m0) <= Reached(q)
        BY <1>1 DEF SplitMessage
      <4> QED
        BY <4>1, <4>2, <4>3
    <3> QED
      BY <3>2, <3>3, <3>4
  <2> QED
    BY <2>1 DEF Passed, Rank, Slot, SplitKinds, Kinds
<1> QED
  BY <1>7, <1>12, <1>13, <1>14 DEF Streams

-----------------------------------------------------------------------------
(* Steps that send                                                         *)

LEMMA ConcatFacts ==
  ASSUME NEW S, NEW s \in Seq(S), NEW t \in Seq(S)
  PROVE  /\ s \o t \in Seq(S)
         /\ VAddrs(s \o t) = VAddrs(s) \cup VAddrs(t)
<1>1. /\ DOMAIN (s \o t) = 1 .. Len(s) + Len(t) /\ DOMAIN s = 1 .. Len(s) /\ DOMAIN t = 1 .. Len(t)
      /\ Len(s) \in Nat /\ Len(t) \in Nat
      /\ \A j \in 1 .. Len(s) + Len(t) : (s \o t)[j] = IF j <= Len(s) THEN s[j] ELSE t[j - Len(s)]
      /\ s \o t \in Seq(S)
  BY ConcatProperties
<1>2. ASSUME NEW x \in VAddrs(s \o t) PROVE x \in VAddrs(s) \cup VAddrs(t)
  <2>1. PICK j \in 1 .. Len(s) + Len(t) : x = (s \o t)[j]
    BY <1>1 DEF VAddrs
  <2>2. CASE j <= Len(s)
    BY <1>1, <2>1, <2>2 DEF VAddrs
  <2>3. CASE ~(j <= Len(s))
    <3>1. j - Len(s) \in DOMAIN t /\ x = t[j - Len(s)]
      BY <1>1, <2>1, <2>3
    <3> QED
      BY <3>1 DEF VAddrs
  <2> QED
    BY <2>2, <2>3
<1>3. ASSUME NEW x \in VAddrs(s) PROVE x \in VAddrs(s \o t)
  <2>1. PICK j \in 1 .. Len(s) : x = s[j]
    BY <1>1, <1>3 DEF VAddrs
  <2>2. j \in DOMAIN (s \o t) /\ (s \o t)[j] = x
    BY <1>1, <2>1
  <2> QED
    BY <2>2 DEF VAddrs
<1>4. ASSUME NEW x \in VAddrs(t) PROVE x \in VAddrs(s \o t)
  <2>1. PICK j \in 1 .. Len(t) : x = t[j]
    BY <1>1, <1>4 DEF VAddrs
  <2>2. j + Len(s) \in DOMAIN (s \o t) /\ ~(j + Len(s) <= Len(s)) /\ (j + Len(s)) - Len(s) = j
    BY <1>1, <2>1
  <2>3. (s \o t)[j + Len(s)] = x
    BY <1>1, <2>1, <2>2
  <2> QED
    BY <2>2, <2>3 DEF VAddrs
<1> QED
  BY <1>1, <1>2, <1>3, <1>4

LEMMA ConcatAscends ==
  ASSUME NEW s \in Seq(Messages), NEW t \in Seq(Messages), Ascends(s), Ascends(t),
         \A m \in VAddrs(s), n \in VAddrs(t) : RankOf(m) < RankOf(n)
  PROVE  Ascends(s \o t)
<1>1. /\ DOMAIN (s \o t) = 1 .. Len(s) + Len(t) /\ DOMAIN s = 1 .. Len(s) /\ DOMAIN t = 1 .. Len(t)
      /\ Len(s) \in Nat /\ Len(t) \in Nat
      /\ \A j \in 1 .. Len(s) + Len(t) : (s \o t)[j] = IF j <= Len(s) THEN s[j] ELSE t[j - Len(s)]
  BY ConcatProperties
<1>2. SUFFICES ASSUME NEW a \in 1 .. Len(s) + Len(t), NEW b \in 1 .. Len(s) + Len(t), a < b
               PROVE  RankOf((s \o t)[a]) < RankOf((s \o t)[b])
  BY <1>1 DEF Ascends
<1>3. CASE b <= Len(s)
  <2>1. a \in DOMAIN s /\ b \in DOMAIN s /\ (s \o t)[a] = s[a] /\ (s \o t)[b] = s[b]
    BY <1>1, <1>2, <1>3
  <2> QED
    BY <1>2, <2>1 DEF Ascends
<1>4. CASE a <= Len(s) /\ ~(b <= Len(s))
  <2>1. a \in DOMAIN s /\ b - Len(s) \in DOMAIN t /\ (s \o t)[a] = s[a] /\ (s \o t)[b] = t[b - Len(s)]
    BY <1>1, <1>2, <1>4
  <2>2. s[a] \in VAddrs(s) /\ t[b - Len(s)] \in VAddrs(t)
    BY <2>1 DEF VAddrs
  <2> QED
    BY <2>1, <2>2
<1>5. CASE ~(a <= Len(s))
  <2>1. PICK x \in DOMAIN t, y \in DOMAIN t : x = a - Len(s) /\ y = b - Len(s)
    BY <1>1, <1>2, <1>5
  <2>2. (s \o t)[a] = t[x] /\ (s \o t)[b] = t[y] /\ x < y
    BY <1>1, <1>2, <1>5, <2>1
  <2> QED
    BY <2>2 DEF Ascends
<1> QED
  BY <1>2, <1>3, <1>4, <1>5

LEMMA SendToMeans ==
  ASSUME Shape, NEW p \in Peers, NEW Q, NEW ms \in Seq(Messages), SendTo(p, Q, ms)
  PROVE  /\ \A a, b \in Peers : ~(a = p /\ b \in Q) => wire'[a][b] = wire[a][b]
         /\ \A b \in Peers : b \in Q => wire'[p][b] = wire[p][b] \o ms
         /\ wire' \in [Peers -> [Peers -> Seq(Messages)]]
<1> DEFINE new == [b \in Peers |-> IF b \in Q THEN wire[p][b] \o ms ELSE wire[p][b]]
<1>1. wire \in [Peers -> [Peers -> Seq(Messages)]]
  BY DEF Shape
<1>2. wire' = [wire EXCEPT ![p] = new]
  BY DEF SendTo
<1>3. \A b \in Peers : wire[p][b] \o ms \in Seq(Messages)
  BY <1>1, ConcatFacts
<1>4. new \in [Peers -> Seq(Messages)]
  BY <1>1, <1>3
<1>5. \A b \in Peers : new[b] = IF b \in Q THEN wire[p][b] \o ms ELSE wire[p][b]
  OBVIOUS
<1> HIDE DEF new
<1>6. wire' \in [Peers -> [Peers -> Seq(Messages)]]
  BY <1>1, <1>2, <1>4
<1>7. wire'[p] = new /\ \A a \in Peers : a # p => wire'[a] = wire[a]
  BY <1>1, <1>2
<1> QED
  BY <1>5, <1>6, <1>7

\* p sends ms to the peers Q, and the ranks of all the peers go with it.
Sends(p, Q, ms) ==
    /\ SendTo(p, Q, ms) /\ UNCHANGED inBox
    /\ Ascends(ms) /\ \A m \in VAddrs(ms) : Reached(p) < RankOf(m)
    /\ \A q \in Peers : q \in Q =>
         \A m \in VAddrs(ms) : SplitMessage(p, q, m)' \/ PeerMessage(p, q, m)'
    /\ \A a, b \in Peers, m \in Messages : SplitMessage(a, b, m) => SplitMessage(a, b, m)'
    /\ \A a, b \in Peers, m \in Messages : PeerMessage(a, b, m) => PeerMessage(a, b, m)'
    /\ \A a, b \in Peers, s \in Nat \ {0}, l \in SplitKinds :
         Owes(a, b, s, l)' /\ Got(b, a)' < Rank(s, l) /\ Rank(s, l) <= Reached(a)'
           => \/ /\ Owes(a, b, s, l) /\ Got(b, a) < Rank(s, l) /\ Rank(s, l) <= Reached(a)
                 /\ Ctx(s)' = Ctx(s)
              \/ a = p /\ b \in Q /\ \E m \in VAddrs(ms) : m.call = s /\ m.kind = l
    /\ Passed'

\* The effect on the streams.
LEMMA SendStreams ==
  ASSUME Inv, NEW p \in Peers, NEW Q, NEW ms \in Seq(Messages), Sends(p, Q, ms)
  PROVE  Streams'
<1>0. /\ SendTo(p, Q, ms) /\ UNCHANGED inBox
      /\ Ascends(ms) /\ \A m \in VAddrs(ms) : Reached(p) < RankOf(m)
      /\ \A q \in Peers : q \in Q =>
           \A m \in VAddrs(ms) : SplitMessage(p, q, m)' \/ PeerMessage(p, q, m)'
      /\ \A a, b \in Peers, m \in Messages : SplitMessage(a, b, m) => SplitMessage(a, b, m)'
      /\ \A a, b \in Peers, m \in Messages : PeerMessage(a, b, m) => PeerMessage(a, b, m)'
      /\ \A a, b \in Peers, s \in Nat \ {0}, l \in SplitKinds :
           Owes(a, b, s, l)' /\ Got(b, a)' < Rank(s, l) /\ Rank(s, l) <= Reached(a)'
             => \/ /\ Owes(a, b, s, l) /\ Got(b, a) < Rank(s, l) /\ Rank(s, l) <= Reached(a)
                   /\ Ctx(s)' = Ctx(s)
                \/ a = p /\ b \in Q /\ \E m \in VAddrs(ms) : m.call = s /\ m.kind = l
      /\ Passed'
  BY DEF Sends
<1> USE <1>0
<1>1. /\ \A a, b \in Peers : ~(a = p /\ b \in Q) => wire'[a][b] = wire[a][b]
      /\ \A b \in Peers : b \in Q => wire'[p][b] = wire[p][b] \o ms
  BY SendToMeans DEF Inv
<1>2. \A a, b \in Peers : wire[a][b] \in Seq(Messages)
  BY DEF Inv, Shape
<1>3. ASSUME NEW b \in Peers, b \in Q
      PROVE  VAddrs(wire'[p][b]) = VAddrs(wire[p][b]) \cup VAddrs(ms)
  <2>1. VAddrs(wire[p][b] \o ms) = VAddrs(wire[p][b]) \cup VAddrs(ms)
    BY <1>2, ConcatFacts
  <2>2. wire'[p][b] = wire[p][b] \o ms
    BY <1>1, <1>3
  <2> QED
    BY <2>1, <2>2
<1>4. \A a, b \in Peers, d \in IDs : Box(b, d, a)' = Box(b, d, a) /\ Box(b, d, a) \in Seq(Messages)
  BY DEF Box, Inv, Shape
<1>5. ASSUME NEW a \in Peers, NEW b \in Peers,
             NEW m \in Messages, SplitMessage(a, b, m) \/ PeerMessage(a, b, m)
      PROVE  RankOf(m) \in Nat /\ RankOf(m) <= Reached(a)
  <2>1. m.call \in Nat /\ m.kind \in Kinds
    BY DEF Messages
  <2>2. RankOf(m) <= Reached(a)
    BY <1>5 DEF SplitMessage, PeerMessage
  <2> QED
    BY <2>1, <2>2, Ranks DEF RankOf
<1>6. \A m \in VAddrs(ms) : m \in Messages /\ RankOf(m) \in Nat
  <2>1. TAKE m \in VAddrs(ms)
  <2>2. m \in Messages
    BY ElementsOf
  <2>3. m.call \in Nat /\ m.kind \in Kinds
    BY <2>2 DEF Messages
  <2> QED
    BY <2>2, <2>3, Ranks DEF RankOf
<1>7. Reached(p) \in Nat
  BY Bounds DEF Inv
<1>8. ASSUME NEW a \in Peers, NEW b \in Peers
      PROVE  /\ Ascends(wire'[a][b])
             /\ \A d \in IDs : Ascends(Box(b, d, a)')
             /\ \A d \in IDs : \A m \in VAddrs(Box(b, d, a)'), n \in VAddrs(wire'[a][b]) :
                  RankOf(m) < RankOf(n)
  <2>1. /\ Ascends(wire[a][b])
        /\ \A d \in IDs : /\ Ascends(Box(b, d, a))
                          /\ \A m \in VAddrs(Box(b, d, a)), n \in VAddrs(wire[a][b]) :
                               RankOf(m) < RankOf(n)
    BY DEF Inv, Streams, InOrder
  <2>2. \A d \in IDs : Ascends(Box(b, d, a)')
    BY <1>4, <2>1
  <2>3. CASE ~(a = p /\ b \in Q)
    <3>1. wire'[a][b] = wire[a][b]
      BY <1>1, <2>3
    <3>2. ASSUME NEW d \in IDs, NEW m \in VAddrs(Box(b, d, a)'), NEW n \in VAddrs(wire'[a][b])
          PROVE  RankOf(m) < RankOf(n)
      BY <1>4, <2>1, <3>1
    <3> QED
      BY <2>1, <2>2, <3>1, <3>2
  <2>4. CASE a = p /\ b \in Q
    <3>1. wire'[a][b] = wire[a][b] \o ms /\ VAddrs(wire'[a][b]) = VAddrs(wire[a][b]) \cup VAddrs(ms)
      BY <1>1, <1>3, <2>4
    <3>2. \A m \in VAddrs(wire[a][b]), n \in VAddrs(ms) : RankOf(m) < RankOf(n)
      <4>1. TAKE m \in VAddrs(wire[a][b]), n \in VAddrs(ms)
      <4>2. m \in Messages /\ (SplitMessage(a, b, m) \/ PeerMessage(a, b, m))
        BY <1>2, ElementsOf DEF Inv, Streams, Sound
      <4>3. RankOf(m) \in Nat /\ RankOf(m) <= Reached(p)
        BY <1>5, <2>4, <4>2
      <4>4. Reached(p) < RankOf(n) /\ RankOf(n) \in Nat
        BY <1>6
      <4> QED
        BY <1>7, <4>3, <4>4
    <3>3. Ascends(wire'[a][b])
      BY <1>2, <2>1, <3>1, <3>2, ConcatAscends
    <3>4. ASSUME NEW d \in IDs, NEW m \in VAddrs(Box(b, d, a)'), NEW n \in VAddrs(wire'[a][b])
          PROVE  RankOf(m) < RankOf(n)
      <4>1. m \in VAddrs(Box(b, d, a))
        BY <1>4, <3>4
      <4>2. m \in Messages /\ SplitMessage(a, b, m)
        BY <1>4, <4>1, ElementsOf DEF Inv, Streams, Sound
      <4>3. RankOf(m) \in Nat /\ RankOf(m) <= Reached(p)
        BY <1>5, <2>4, <4>2
      <4>4. CASE n \in VAddrs(wire[a][b])
        BY <2>1, <4>1, <4>4
      <4>5. CASE n \in VAddrs(ms)
        <5>1. Reached(p) < RankOf(n) /\ RankOf(n) \in Nat
          BY <1>6, <4>5
        <5> QED
          BY <1>7, <4>3, <5>1
      <4> QED
        BY <3>1, <3>4, <4>4, <4>5
    <3> QED
      BY <2>2, <3>3, <3>4
  <2> QED
    BY <2>3, <2>4
<1>9. InOrder'
  BY <1>8 DEF InOrder, Ascends, RankOf, Rank, Slot
<1>10. Sound'
  <2>1. ASSUME NEW a \in Peers, NEW b \in Peers, NEW m \in VAddrs(wire'[a][b])
        PROVE  SplitMessage(a, b, m)' \/ PeerMessage(a, b, m)'
    <3>1. CASE m \in VAddrs(wire[a][b])
      <4>1. m \in Messages /\ (SplitMessage(a, b, m) \/ PeerMessage(a, b, m))
        BY <1>2, <3>1, ElementsOf DEF Inv, Streams, Sound
      <4> QED
        BY <4>1
    <3>2. CASE m \notin VAddrs(wire[a][b])
      <4>1. a = p /\ b \in Q
        BY <1>1, <2>1, <3>2
      <4>2. m \in VAddrs(ms)
        BY <1>3, <2>1, <3>2, <4>1
      <4> QED
        BY <4>1, <4>2
    <3> QED
      BY <3>1, <3>2
  <2>2. ASSUME NEW a \in Peers, NEW b \in Peers, NEW d \in IDs, NEW m \in VAddrs(Box(b, d, a)')
        PROVE  SplitMessage(a, b, m)' /\ m.context = d
    <3>1. m \in VAddrs(Box(b, d, a))
      BY <1>4, <2>2
    <3>2. m \in Messages /\ SplitMessage(a, b, m) /\ m.context = d
      BY <1>4, <3>1, ElementsOf DEF Inv, Streams, Sound
    <3> QED
      BY <3>2
  <2> QED
    BY <2>1, <2>2 DEF Sound
<1>11. Complete'
  <2> SUFFICES ASSUME NEW b \in Peers, NEW a \in Peers, NEW s \in Nat \ {0}, NEW l \in SplitKinds,
                      (Owes(a, b, s, l) /\ Got(b, a) < Rank(s, l) /\ Rank(s, l) <= Reached(a))'
               PROVE  (\E m \in VAddrs(wire[a][b]) \cup VAddrs(Box(b, Ctx(s), a)) :
                         m.call = s /\ m.kind = l)'
    BY DEF Complete, SplitKinds, Kinds
  <2>1. Rank(s, l)' = Rank(s, l)
    BY DEF Rank, Slot
  <2>2. \/ /\ Owes(a, b, s, l) /\ Got(b, a) < Rank(s, l) /\ Rank(s, l) <= Reached(a)
           /\ Ctx(s)' = Ctx(s)
        \/ a = p /\ b \in Q /\ \E m \in VAddrs(ms) : m.call = s /\ m.kind = l
    BY <2>1
  <2>3. \E m \in VAddrs(wire'[a][b]) \cup VAddrs(inBox'[b][<<Ctx(s)', a>>]) : m.call = s /\ m.kind = l
    <3>1. CASE a = p /\ b \in Q /\ \E m \in VAddrs(ms) : m.call = s /\ m.kind = l
      BY <1>3, <3>1
    <3>2. CASE /\ Owes(a, b, s, l) /\ Got(b, a) < Rank(s, l) /\ Rank(s, l) <= Reached(a)
               /\ Ctx(s)' = Ctx(s)
      <4>1. PICK m \in VAddrs(wire[a][b]) \cup VAddrs(Box(b, Ctx(s), a)) : m.call = s /\ m.kind = l
        BY <3>2 DEF Inv, Streams, Complete
      <4>2. VAddrs(wire[a][b]) \subseteq VAddrs(wire'[a][b])
        BY <1>1, <1>3
      <4>3. Box(b, Ctx(s), a) = inBox'[b][<<Ctx(s)', a>>]
        BY <3>2 DEF Box
      <4> QED
        BY <4>1, <4>2, <4>3
    <3> QED
      BY <2>2, <3>1, <3>2
  <2> QED
    BY <2>3 DEF Box, VAddrs
<1> QED
  BY <1>9, <1>10, <1>11 DEF Streams

-----------------------------------------------------------------------------
(* The handler                                                             *)

LEMMA AppendFacts ==
  ASSUME NEW S, NEW s \in Seq(S), NEW x \in S
  PROVE  /\ Append(s, x) \in Seq(S)
         /\ VAddrs(Append(s, x)) = VAddrs(s) \cup {x}
         /\ DOMAIN Append(s, x) = 1 .. Len(s) + 1 /\ DOMAIN s = 1 .. Len(s) /\ Len(s) \in Nat
         /\ \A j \in 1 .. Len(s) : Append(s, x)[j] = s[j]
         /\ Append(s, x)[Len(s) + 1] = x
<1>1. /\ Append(s, x) \in Seq(S)
      /\ DOMAIN Append(s, x) = 1 .. Len(s) + 1 /\ DOMAIN s = 1 .. Len(s) /\ Len(s) \in Nat
      /\ \A j \in 1 .. Len(s) : Append(s, x)[j] = s[j]
      /\ Append(s, x)[Len(s) + 1] = x
  BY AppendProperties
<1>2. VAddrs(Append(s, x)) = VAddrs(s) \cup {x}
  BY <1>1 DEF VAddrs
<1> QED
  BY <1>1, <1>2

LEMMA MoveStreams ==
  ASSUME Inv, NEW p \in Peers, NEW q \in Peers, HandleRecv(p, q), HandlersSurvive
  PROVE  Streams' /\ HandlersSurvive' /\ Shape'
<1> DEFINE m0 == Head(wire[q][p])
<1>1. /\ wire \in [Peers -> [Peers -> Seq(Messages)]] /\ wire[q][p] # <<>>
      /\ wire' = [wire EXCEPT ![q][p] = Tail(@)]
      /\ UNCHANGED <<plan, contextIds, contexts, answers, local>>
  BY DEF HandleRecv, Inv, Shape
<1>2. m0 \in Messages /\ m0 \in VAddrs(wire[q][p]) /\ wire[q][p] \in Seq(Messages)
  BY <1>1, ElementsOf
<1>3. SplitMessage(q, p, m0) \/ PeerMessage(q, p, m0)
  BY <1>2 DEF Inv, Streams, Sound
<1>4. /\ \A a, b \in Peers : ~(a = q /\ b = p) => wire'[a][b] = wire[a][b]
      /\ wire'[q][p] = Tail(wire[q][p])
      /\ wire' \in [Peers -> [Peers -> Seq(Messages)]]
  <2>1. Tail(wire[q][p]) \in Seq(Messages)
    BY <1>1, <1>2, TailFacts
  <2> QED
    BY <1>1, <2>1
<1>5. m0.context \in IDs
  BY <1>2 DEF Messages
<1>6. \/ /\ PeerMessage(q, p, m0) /\ m0.kind = "PEER" /\ UNCHANGED <<inBox, thrown>>
      \/ /\ SplitMessage(q, p, m0) /\ m0.kind # "PEER" /\ UNCHANGED thrown
         /\ inBox' = [inBox EXCEPT ![p][<<m0.context, q>>] = Append(@, m0)]
  <2>1. CASE m0.kind = "PEER"
    <3>1. PeerMessage(q, p, m0)
      BY <1>3, <2>1, Slots DEF SplitMessage
    <3>2. thrown' = [thrown EXCEPT ![p] = contexts[p][m0.context] = <<>>] /\ UNCHANGED inBox
      BY <2>1 DEF HandleRecv
    <3>3. (contexts[p][m0.context] = <<>>) = FALSE
      BY <3>1 DEF PeerMessage
    <3>4. thrown \in [Peers -> BOOLEAN] /\ thrown[p] = FALSE
      BY DEF Inv, Shape, HandlersSurvive
    <3>5. thrown' = [thrown EXCEPT ![p] = FALSE]
      BY <3>2, <3>3
    <3>6. thrown' = thrown
      BY <3>4, <3>5
    <3> QED
      BY <2>1, <3>1, <3>2, <3>6
  <2>2. CASE m0.kind # "PEER"
    <3>1. SplitMessage(q, p, m0)
      BY <1>3, <2>2 DEF PeerMessage
    <3> QED
      BY <2>2, <3>1 DEF HandleRecv
  <2> QED
    BY <2>1, <2>2
<1>7. HandlersSurvive'
  BY <1>6 DEF HandlersSurvive
<1>8. PICK e \in IDs : e = m0.context
  BY <1>5
<1>9. /\ \A a, b \in Peers, d \in IDs : Box(b, d, a) \in Seq(Messages)
      /\ \A a, b \in Peers, d \in IDs : ~(a = q /\ b = p /\ d = e) => Box(b, d, a)' = Box(b, d, a)
      /\ \/ PeerMessage(q, p, m0) /\ Box(p, e, q)' = Box(p, e, q)
         \/ SplitMessage(q, p, m0) /\ Box(p, e, q)' = Append(Box(p, e, q), m0)
      /\ inBox' \in [Peers -> [IDs \X Peers -> Seq(Messages)]]
  <2>1. inBox \in [Peers -> [IDs \X Peers -> Seq(Messages)]]
    BY DEF Inv, Shape
  <2>2. PICK ke \in IDs \X Peers : ke = <<e, q>>
    OBVIOUS
  <2>3. \A a, b \in Peers, d \in IDs : Box(b, d, a) \in Seq(Messages)
    BY <2>1 DEF Box
  <2>4. CASE PeerMessage(q, p, m0) /\ UNCHANGED inBox
    BY <2>1, <2>3, <2>4 DEF Box
  <2>5. CASE SplitMessage(q, p, m0) /\ inBox' = [inBox EXCEPT ![p][<<m0.context, q>>] = Append(@, m0)]
    <3>1. inBox' = [inBox EXCEPT ![p][ke] = Append(@, m0)]
      BY <1>8, <2>2, <2>5
    <3>2. Append(inBox[p][ke], m0) \in Seq(Messages)
      BY <1>2, <2>1, AppendFacts
    <3>3. inBox'[p][ke] = Append(inBox[p][ke], m0) /\ inBox' \in [Peers -> [IDs \X Peers -> Seq(Messages)]]
      BY <2>1, <3>1, <3>2
    <3>4. ASSUME NEW a \in Peers, NEW b \in Peers, NEW d \in IDs, ~(a = q /\ b = p /\ d = e)
          PROVE  Box(b, d, a)' = Box(b, d, a)
      <4>1. PICK kd \in IDs \X Peers : kd = <<d, a>>
        OBVIOUS
      <4>2. b = p => kd # ke
        BY <2>2, <3>4, <4>1
      <4>3. inBox'[b][kd] = inBox[b][kd]
        BY <2>1, <3>1, <4>2
      <4> QED
        BY <4>1, <4>3 DEF Box
    <3>5. Box(p, e, q)' = Append(Box(p, e, q), m0)
      BY <2>2, <3>3 DEF Box
    <3> QED
      BY <2>3, <2>5, <3>3, <3>4, <3>5
  <2> QED
    BY <1>6, <2>4, <2>5
<1>10. Shape'
  BY <1>1, <1>4, <1>6, <1>9 DEF Inv, Shape, answers, local, Messages, Values
<1>11. \A s \in Seq(Messages) : s # <<>> => s[1] = Head(s) /\ 1 \in DOMAIN s
  OBVIOUS
<1>12. \A m \in VAddrs(wire'[q][p]) : RankOf(m0) < RankOf(m) /\ m \in VAddrs(wire[q][p])
  <2>1. DEFINE s == wire[q][p]
  <2>2. s \in Seq(Messages) /\ s # <<>> /\ Ascends(s) /\ wire'[q][p] = Tail(s)
    BY <1>1, <1>2, <1>4 DEF Inv, Streams, InOrder
  <2>3. m0 = s[1] /\ 1 \in DOMAIN s
    BY <1>11, <2>2
  <2> HIDE DEF s, m0
  <2>4. TAKE m \in VAddrs(wire'[q][p])
  <2>5. PICK j \in DOMAIN Tail(s) : m = s[j + 1] /\ j + 1 \in DOMAIN s /\ 1 < j + 1
    BY <2>2, TailFacts DEF VAddrs
  <2>6. RankOf(m0) < RankOf(m)
    BY <2>2, <2>3, <2>5 DEF Ascends
  <2>7. m \in VAddrs(s)
    BY <2>5 DEF VAddrs
  <2> QED
    BY <2>6, <2>7 DEF s
<1>13. VAddrs(wire[q][p]) = {m0} \cup VAddrs(wire'[q][p])
  BY <1>1, <1>2, <1>4, TailFacts
<1>14. VAddrs(Append(Box(p, e, q), m0)) = VAddrs(Box(p, e, q)) \cup {m0}
  BY <1>2, <1>9, AppendFacts
<1>15. ASSUME NEW a \in Peers, NEW b \in Peers, NEW m
       PROVE  /\ SplitMessage(a, b, m)' <=> SplitMessage(a, b, m)
              /\ PeerMessage(a, b, m)' <=> PeerMessage(a, b, m)
  BY <1>1 DEF answers, local, SplitMessage, PeerMessage, Content, Ctx, RankOf, Rank, Owes, Group,
     Chosen, Got, Level, Reached, Stage, Heard, oldPeers, round
<1>16. \A a, b \in Peers : \A s, l : /\ Owes(a, b, s, l)' <=> Owes(a, b, s, l)
                                /\ Ctx(s)' = Ctx(s) /\ Got(b, a)' = Got(b, a) /\ Reached(a)' = Reached(a)
  BY <1>1 DEF answers, local, Ctx, Owes, Group, Chosen, Got, Level, Reached, Stage, Heard, oldPeers, round
<1> HIDE DEF m0
<1>17. InOrder'
  <2>1. ASSUME NEW a \in Peers, NEW b \in Peers PROVE Ascends(wire'[a][b])
    <3>1. Ascends(wire[a][b]) /\ wire[a][b] \in Seq(Messages)
      BY <1>1 DEF Inv, Streams, InOrder
    <3>2. CASE ~(a = q /\ b = p)
      BY <1>4, <3>1, <3>2
    <3>3. CASE a = q /\ b = p
      <4>1. DEFINE s == wire[q][p]
      <4>2. s \in Seq(Messages) /\ s # <<>> /\ Ascends(s) /\ wire'[q][p] = Tail(s)
        BY <1>1, <1>4, <3>1, <3>3
      <4> HIDE DEF s
      <4>3. ASSUME NEW x \in DOMAIN Tail(s), NEW y \in DOMAIN Tail(s), x < y
            PROVE  RankOf(Tail(s)[x]) < RankOf(Tail(s)[y])
        <5>1. /\ DOMAIN Tail(s) = 1 .. Len(s) - 1 /\ DOMAIN s = 1 .. Len(s) /\ Len(s) \in Nat
              /\ \A j \in DOMAIN Tail(s) : Tail(s)[j] = s[j + 1]
          BY <4>2, TailFacts
        <5>2. x + 1 \in DOMAIN s /\ y + 1 \in DOMAIN s /\ x + 1 < y + 1
          BY <4>3, <5>1
        <5>3. RankOf(s[x + 1]) < RankOf(s[y + 1])
          BY <4>2, <5>2 DEF Ascends
        <5> QED
          BY <5>1, <5>3
      <4>4. Ascends(Tail(s))
        BY <4>3 DEF Ascends
      <4> QED
        BY <3>3, <4>2, <4>4
    <3> QED
      BY <3>2, <3>3
  <2>2. ASSUME NEW a \in Peers, NEW b \in Peers, NEW d \in IDs
        PROVE  /\ Ascends(Box(b, d, a)')
               /\ \A m \in VAddrs(Box(b, d, a)'), n \in VAddrs(wire'[a][b]) : RankOf(m) < RankOf(n)
    <3>1. /\ Ascends(Box(b, d, a))
          /\ \A m \in VAddrs(Box(b, d, a)), n \in VAddrs(wire[a][b]) : RankOf(m) < RankOf(n)
      BY DEF Inv, Streams, InOrder
    <3>2. VAddrs(wire'[a][b]) \subseteq VAddrs(wire[a][b])
      BY <1>4, <1>12
    <3>3. CASE Box(b, d, a)' = Box(b, d, a)
      <4>1. ASSUME NEW m \in VAddrs(Box(b, d, a)'), NEW n \in VAddrs(wire'[a][b])
            PROVE  RankOf(m) < RankOf(n)
        BY <3>1, <3>2, <3>3
      <4> QED
        BY <3>1, <3>3, <4>1
    <3>4. CASE a = q /\ b = p /\ d = e /\ Box(b, d, a)' = Append(Box(b, d, a), m0)
      <4>1. \A m \in VAddrs(Box(b, d, a)) : RankOf(m) < RankOf(m0)
        BY <1>13, <3>1, <3>4
      <4>2. Box(b, d, a) \in Seq(Messages)
        BY <1>9
      <4>3. Ascends(Append(Box(b, d, a), m0))
        <5> DEFINE s == Box(b, d, a)
        <5>1. /\ DOMAIN Append(s, m0) = 1 .. Len(s) + 1 /\ DOMAIN s = 1 .. Len(s) /\ Len(s) \in Nat
              /\ \A j \in 1 .. Len(s) : Append(s, m0)[j] = s[j]
              /\ Append(s, m0)[Len(s) + 1] = m0
          BY <1>2, <4>2, AppendFacts
        <5>2. Ascends(s) /\ \A j \in DOMAIN s : RankOf(s[j]) < RankOf(m0)
          BY <3>1, <4>1 DEF VAddrs
        <5> HIDE DEF s
        <5>3. ASSUME NEW x \in DOMAIN Append(s, m0), NEW y \in DOMAIN Append(s, m0), x < y
              PROVE  RankOf(Append(s, m0)[x]) < RankOf(Append(s, m0)[y])
          <6>1. CASE y = Len(s) + 1
            <7>1. x \in DOMAIN s /\ Append(s, m0)[x] = s[x] /\ Append(s, m0)[y] = m0
              BY <5>1, <5>3, <6>1
            <7> QED
              BY <5>2, <7>1
          <6>2. CASE y # Len(s) + 1
            <7>1. x \in DOMAIN s /\ y \in DOMAIN s /\ Append(s, m0)[x] = s[x] /\ Append(s, m0)[y] = s[y]
              BY <5>1, <5>3, <6>2
            <7> QED
              BY <5>2, <5>3, <7>1 DEF Ascends
          <6> QED
            BY <6>1, <6>2
        <5> QED
          BY <5>3 DEF Ascends, s
      <4>4. ASSUME NEW m \in VAddrs(Box(b, d, a)'), NEW n \in VAddrs(wire'[a][b])
            PROVE  RankOf(m) < RankOf(n)
        <5>1. m \in VAddrs(Box(b, d, a)) \/ m = m0
          BY <1>14, <3>4, <4>4
        <5> QED
          BY <1>12, <3>1, <3>2, <3>4, <4>4, <5>1
      <4> QED
        BY <3>4, <4>3, <4>4
    <3> QED
      BY <1>9, <3>3, <3>4
  <2> QED
    BY <2>1, <2>2 DEF InOrder, Ascends, RankOf, Rank, Slot
<1>18. Sound'
  <2>1. ASSUME NEW a \in Peers, NEW b \in Peers, NEW m \in VAddrs(wire'[a][b])
        PROVE  SplitMessage(a, b, m)' \/ PeerMessage(a, b, m)'
    <3>1. m \in VAddrs(wire[a][b])
      BY <1>4, <1>12, <2>1
    <3>2. SplitMessage(a, b, m) \/ PeerMessage(a, b, m)
      BY <3>1 DEF Inv, Streams, Sound
    <3> QED
      BY <1>15, <3>2
  <2>2. ASSUME NEW a \in Peers, NEW b \in Peers, NEW d \in IDs, NEW m \in VAddrs(Box(b, d, a)')
        PROVE  SplitMessage(a, b, m)' /\ m.context = d
    <3>1. CASE m \in VAddrs(Box(b, d, a))
      <4>1. SplitMessage(a, b, m) /\ m.context = d
        BY <3>1 DEF Inv, Streams, Sound
      <4> QED
        BY <1>15, <4>1
    <3>2. CASE m \notin VAddrs(Box(b, d, a))
      <4>1. Box(b, d, a)' # Box(b, d, a)
        BY <2>2, <3>2
      <4>2. a = q /\ b = p /\ d = e
        BY <1>9, <4>1
      <4>3. SplitMessage(q, p, m0) /\ Box(p, e, q)' = Append(Box(p, e, q), m0)
        BY <1>9, <4>1, <4>2
      <4>4. m = m0
        <5>1. VAddrs(Box(p, e, q)') = VAddrs(Append(Box(p, e, q), m0))
          BY <4>3
        <5> QED
          BY <1>14, <2>2, <3>2, <4>2, <5>1
      <4>5. SplitMessage(a, b, m) /\ m.context = d
        BY <1>8, <4>2, <4>3, <4>4
      <4> QED
        BY <1>15, <4>5
    <3> QED
      BY <3>1, <3>2
  <2> QED
    BY <2>1, <2>2 DEF Sound
<1>19. Complete'
  <2> SUFFICES ASSUME NEW b \in Peers, NEW a \in Peers, NEW s \in Nat \ {0}, NEW l \in SplitKinds,
                      (Owes(a, b, s, l) /\ Got(b, a) < Rank(s, l) /\ Rank(s, l) <= Reached(a))'
               PROVE  (\E m \in VAddrs(wire[a][b]) \cup VAddrs(Box(b, Ctx(s), a)) :
                         m.call = s /\ m.kind = l)'
    BY DEF Complete, SplitKinds, Kinds
  <2>1. Rank(s, l)' = Rank(s, l)
    BY DEF Rank, Slot
  <2>2. Owes(a, b, s, l) /\ Got(b, a) < Rank(s, l) /\ Rank(s, l) <= Reached(a)
    BY <1>16, <2>1
  <2>3. PICK m \in VAddrs(wire[a][b]) \cup VAddrs(Box(b, Ctx(s), a)) : m.call = s /\ m.kind = l
    BY <2>2 DEF Inv, Streams, Complete
  <2>4. PICK d \in IDs : d = Ctx(s)
    <3>1. l \in Kinds /\ Rank(s, l) \in Nat /\ 6 * s + 1 <= Rank(s, l)
      BY Slots, Ranks
    <3>2. Reached(a) \in Nat /\ round(a) \in Nat /\ Reached(a) <= 6 * round(a) + 6
      BY Bounds DEF Inv
    <3>3. s \in 1 .. round(a)
      BY <2>2, <3>1, <3>2
    <3> QED
      BY <3>3, CtxTyped
  <2>5. m \in VAddrs(wire'[a][b]) \cup VAddrs(Box(b, d, a)')
    <3>1. CASE m \in VAddrs(Box(b, d, a))
      BY <1>9, <1>14, <3>1
    <3>2. CASE m \in VAddrs(wire[a][b]) /\ ~(a = q /\ b = p /\ m = m0)
      BY <1>4, <1>13, <3>2
    <3>3. CASE a = q /\ b = p /\ m = m0
      <4>1. SplitMessage(q, p, m0)
        BY <1>6, <2>3, <3>3, Slots
      <4>2. m0.context = Ctx(m0.call)
        BY <4>1 DEF SplitMessage, Content
      <4>3. d = e
        BY <1>8, <2>3, <2>4, <3>3, <4>2
      <4>4. Box(p, e, q)' = Append(Box(p, e, q), m0)
        BY <1>9, <4>1 DEF SplitMessage, PeerMessage, SplitKinds
      <4> QED
        BY <1>14, <3>3, <4>3, <4>4
    <3> QED
      BY <2>3, <2>4, <3>1, <3>2, <3>3
  <2>6. m \in VAddrs(wire'[a][b]) \cup VAddrs(inBox'[b][<<Ctx(s)', a>>])
    BY <1>16, <2>4, <2>5 DEF Box
  <2> QED
    BY <2>3, <2>6 DEF Box, VAddrs
<1>20. Passed'
  BY <1>16 DEF Inv, Streams, Passed, Rank, Slot, SplitKinds, Kinds
<1> QED
  BY <1>7, <1>10, <1>17, <1>18, <1>19, <1>20 DEF Streams

-----------------------------------------------------------------------------
(* What a receive changes                                                  *)

\* Calling does not depend on the streams.
LEMMA SameCalling ==
  ASSUME Calling, UNCHANGED <<plan, contextIds, contexts, wants, result, pc, old, i, whiteList,
                              newID, newSize>>
  PROVE  Calling'
<1>1. \A p \in Peers : Place(p)' <=> Place(p)
  BY DEF Place, round, rounds, Group, Ctx, oldPeers, Lists, Injective, VAddrs
<1>2. \A p \in Peers : NewContext(p)' <=> NewContext(p)
  BY DEF NewContext, round, Chosen, Lists, Injective, VAddrs
<1>3. \A p \in Peers : Known(p)' <=> Known(p)
  BY DEF Known, round
<1>4. WhiteLists' <=> WhiteLists
  BY DEF WhiteLists, round, Chosen, Heard, oldPeers, Lists, Injective, VAddrs
<1>5. FirstContext' <=> FirstContext
  BY DEF FirstContext, Lists, Injective, VAddrs
<1>6. Names' <=> Names
  BY DEF Names, round, Rank, Slot, Reached, Stage
<1> QED
  BY <1>1, <1>2, <1>3, <1>4, <1>5, <1>6 DEF Calling

\* The message a receive gets.
LEMMA Received ==
  ASSUME Inv, NEW p \in Peers, NEW q \in Source(p), NEW m, RecvFrom(p, q, m)
  PROVE  /\ m \in Messages /\ SplitMessage(q, p, m)
         /\ m.kind = Expected(p)[pc[p]] /\ m.call = round(p)
         /\ inBox' \in [Peers -> [IDs \X Peers -> Seq(Messages)]]
         /\ \E c \in IDs : /\ c = Ctx(round(p)) /\ Box(p, c, q) # <<>>
                           /\ inBox' = [inBox EXCEPT ![p][<<c, q>>] = Tail(@)]
<1>1. PICK k \in SplitKinds, c \in IDs :
        k = Expected(p)[pc[p]] /\ c = old[p].id /\ c = Ctx(round(p)) /\ q \in Peers
  BY Awaited
<1>2. Box(p, c, q) # <<>> /\ m = Head(Box(p, c, q)) /\ inBox' = [inBox EXCEPT ![p][<<c, q>>] = Tail(@)]
  BY <1>1 DEF RecvFrom, Box
<1>3. m \in Messages /\ SplitMessage(q, p, m) /\ m.kind = k /\ m.call = round(p)
  BY <1>1, <1>2, Awaited, HeadIsNext
<1>4. inBox' \in [Peers -> [IDs \X Peers -> Seq(Messages)]]
  <2>1. inBox \in [Peers -> [IDs \X Peers -> Seq(Messages)]]
    BY DEF Inv, Shape
  <2>2. PICK kc \in IDs \X Peers : kc = <<c, q>>
    BY <1>1
  <2>3. Tail(inBox[p][kc]) \in Seq(Messages)
    BY <1>2, <2>1, <2>2, TailFacts DEF Box
  <2>4. inBox' = [inBox EXCEPT ![p][kc] = Tail(@)]
    BY <1>2, <2>2
  <2> QED
    BY <2>1, <2>3, <2>4
<1> QED
  BY <1>1, <1>2, <1>3, <1>4

\* When the master has finished a call, or begun the next, nobody waits for
\* its list of the call before.
LEMMA Delivered ==
  ASSUME Inv, pc[master] \in {"collect", "idle"}, NEW q \in Peers, NEW n \in Nat \ {0},
         NEW k \in {"id", "size", "list"}, Owes(master, q, n, k), Rank(n, k) <= Reached(master)
  PROVE  Rank(n, k) <= Got(q, master) /\ 6 * n + 5 <= Reached(q)
<1>1. master \in Peers /\ round(master) \in Nat /\ Reached(master) \in Nat
  BY Constants, Bounds DEF Inv
<1>2. PICK x \in Nat : x = Rank(n, k) /\ 6 * n + 2 <= x /\ x <= 6 * n + 4
  BY Ranks, Slots DEF Rank
<1>3. 6 * n + 5 <= Reached(q)
  <2>1. q \in Group(n) /\ master \in Group(n)
    BY DEF Owes
  <2>2. CASE n < round(master)
    BY <1>1, <2>1, <2>2, Settled
  <2>3. CASE ~(n < round(master))
    <3>1. pc[master] = "idle" /\ n = round(master)
      <4>1. pc[master] = "collect" => Reached(master) = 6 * round(master) + 1
        BY <1>1, Levels DEF Inv
      <4>2. Reached(master) <= 6 * round(master) + 6
        BY <1>1, Bounds DEF Inv
      <4> QED
        BY <1>1, <1>2, <2>3, <4>1, <4>2
    <3>2. Owes(q, master, n, "null") /\ Rank(n, "null") = 6 * n + 5
      BY <2>1, Ranks DEF Owes
    <3>3. Got(master, q) = 6 * n + 5
      BY <1>1, <3>1, Levels DEF Inv
    <3>4. Rank(n, "null") <= Got(master, q) /\ "null" \in SplitKinds
      BY <3>2, <3>3, Slots
    <3> QED
      BY <1>1, <3>2, <3>4, Heard1
  <2> QED
    BY <2>2, <2>3
<1>4. Got(q, master) \in Nat /\ round(q) \in Nat /\ Reached(q) \in Nat /\ Reached(q) <= 6 * round(q) + 6
      /\ 6 * round(q) <= Got(q, master)
      /\ (6 * round(q) + 5 <= Reached(q) => 6 * round(q) + 4 <= Got(q, master))
  BY <1>1, Bounds DEF Inv
<1>5. n <= round(q)
  BY <1>3, <1>4
<1>6. 6 * n + 4 <= Got(q, master)
  BY <1>3, <1>4, <1>5
<1> QED
  BY <1>2, <1>3, <1>4, <1>6

LEMMA NoLists ==
  ASSUME Inv, pc[master] \in {"collect", "idle"}
  PROVE  /\ \A b \in Peers : \A m : SplitMessage(master, b, m) => m.kind \notin {"size", "list"}
         /\ \A b \in Peers : pc[b] # "recvList"
<1>1. ASSUME NEW b \in Peers, NEW m, SplitMessage(master, b, m), m.kind \in {"size", "list"}
      PROVE  FALSE
  <2>1. PICK n \in Nat \ {0}, k \in {"id", "size", "list"} : m.call = n /\ m.kind = k
    BY <1>1 DEF SplitMessage
  <2>2. Owes(master, b, n, k) /\ Rank(n, k) <= Reached(master) /\ Got(b, master) < Rank(n, k)
    BY <1>1, <2>1 DEF SplitMessage, RankOf
  <2>3. Rank(n, k) <= Got(b, master)
    BY <2>2, Delivered
  <2>4. Rank(n, k) \in Nat /\ Got(b, master) \in Nat
    BY Ranks, Slots, Bounds DEF Inv
  <2> QED
    BY <2>2, <2>3, <2>4
<1>2. ASSUME NEW b \in Peers, pc[b] = "recvList"
      PROVE  FALSE
  <2>1. Got(b, master) = 6 * round(b) + 3 /\ Reached(b) = 6 * round(b) + 4
    BY <1>2, Levels DEF Inv
  <2>2. PICK n \in Nat \ {0} : n = round(b) /\ Rank(n, "size") = 6 * n + 3
    <3>1. round(b) \in Nat /\ round(b) # 0
      BY <1>2, Bounds DEF Inv, Calling, Place
    <3> QED
      BY <3>1, Ranks
  <2>3. b \in Group(n) /\ master \in Group(n) /\ b \in Chosen(n)
    <3>1. n \in 1 .. round(b) /\ wants[b][n] /\ DOMAIN wants[b] = 1 .. round(b)
      <4>1. wants[b][n]
        BY <1>2, <2>2 DEF Inv, Calling, Place
      <4>2. DOMAIN wants[b] = 1 .. round(b) /\ round(b) \in Nat
        BY DEF Inv, Shape, round
      <4> QED
        BY <2>2, <4>1, <4>2
    <3> QED
      BY <1>2, <2>2, <3>1, InGroups DEF Chosen
  <2>4. Owes(master, b, n, "size")
    BY <2>3 DEF Owes
  <2>5. Rank(n, "size") <= Reached(master)
    BY <2>1, <2>2, <2>4, Constants, Slots, Heard1
  <2>6. 6 * n + 5 <= Reached(b)
    BY <2>4, <2>5, Delivered
  <2> QED
    BY <2>1, <2>2, <2>6
<1> QED
  BY <1>1, <1>2

\* The streams after a receive.
LEMMA ReceiveStreams ==
  ASSUME Inv, NEW p \in Peers, NEW q \in Source(p), NEW m, RecvFrom(p, q, m),
         UNCHANGED <<plan, contextIds, wants, wire, old>>,
         \A a \in Peers : a # p => pc'[a] = pc[a] /\ i'[a] = i[a],
         Reached(p)' = Reached(p),
         Got(p, q)' = Got(p, q) + 1,
         \A b \in Peers : b # q =>
           \/ Got(p, b)' = Got(p, b)
           \/ pc[p] \in {"recvID", "recvSize", "recvList"} /\ Got(p, b)' = Got(p, b) + 1,
         \A a \in Peers, d \in IDs : contexts[a][d] # <<>> => contexts'[a][d] # <<>>,
         \/ whiteList'[master] = whiteList[master]
         \/ \A b \in Peers : \A n : SplitMessage(master, b, n) => n.kind \notin {"size", "list"}
  PROVE  Streams'
<1>1. PICK k \in SplitKinds, c \in IDs, r \in Nat \ {0} :
        /\ k = Expected(p)[pc[p]] /\ c = Ctx(r) /\ r = round(p) /\ q \in Peers
        /\ Owes(q, p, r, k) /\ Rank(r, k) = Got(p, q) + 1
  BY Awaited
<1>2. Box(p, c, q) # <<>> /\ inBox' = [inBox EXCEPT ![p][<<c, q>>] = Tail(@)]
  BY <1>1, Received
<1>3. ASSUME NEW a \in Peers, a # p
      PROVE  Reached(a)' = Reached(a) /\ \A b : Got(a, b)' = Got(a, b)
  BY <1>3, OthersStay
<1>4. \A b \in Peers : Got(p, b) \in Nat /\ Got(p, b)' \in Nat /\ Got(p, b) <= Got(p, b)'
                       /\ (b # q => Got(p, b)' <= Got(p, b) + 1)
  <2>1. \A b \in Peers : Got(p, b) \in Nat
    BY Bounds DEF Inv
  <2>2. TAKE b \in Peers
  <2>3. b # q => Got(p, b)' = Got(p, b) \/ Got(p, b)' = Got(p, b) + 1
    OBVIOUS
  <2>4. b = q => Got(p, b)' = Got(p, b) + 1
    OBVIOUS
  <2> QED
    BY <2>1, <2>3, <2>4
<1>5. ASSUME NEW b \in Peers, NEW s \in Nat \ {0}, NEW l \in SplitKinds,
             b # q, Owes(b, p, s, l), Rank(s, l) <= Got(p, b)'
      PROVE  Rank(s, l) <= Got(p, b)
  <2>1. SUFFICES ASSUME ~(Rank(s, l) <= Got(p, b)) PROVE FALSE
    OBVIOUS
  <2>2. Rank(s, l) \in Nat
    BY Slots, Ranks
  <2>3. Rank(s, l) = Got(p, b) + 1 /\ pc[p] \in {"recvID", "recvSize", "recvList"}
    <3>1. CASE Got(p, b)' = Got(p, b)
      BY <1>4, <1>5, <2>1, <3>1
    <3>2. CASE pc[p] \in {"recvID", "recvSize", "recvList"} /\ Got(p, b)' = Got(p, b) + 1
      BY <1>4, <1>5, <2>1, <2>2, <3>2
    <3> QED
      BY <1>5, <3>1, <3>2
  <2>4. q = master /\ k \in {"id", "size", "list"} /\ Got(p, b) = Got(p, q)
    <3>1. q = master
      BY <2>3 DEF Source
    <3>2. k \in {"id", "size", "list"}
      BY <1>1, <2>3 DEF Expected
    <3>3. Got(p, b) = Got(p, q)
      <4>1. CASE pc[p] = "recvID"
        BY <4>1, Levels DEF Inv
      <4>2. CASE pc[p] = "recvSize"
        BY <4>2, Levels DEF Inv
      <4>3. CASE pc[p] = "recvList"
        BY <4>3, Levels DEF Inv
      <4> QED
        BY <2>3, <4>1, <4>2, <4>3
    <3> QED
      BY <3>1, <3>2, <3>3
  <2>5. l = k
    <3>1. Rank(s, l) = Rank(r, k) /\ l \in Kinds /\ k \in Kinds
      BY <1>1, <2>3, <2>4, Slots
    <3> QED
      BY <3>1, SameRank
  <2> QED
    BY <1>5, <2>4, <2>5 DEF Owes
<1>6. \A a \in Peers : Reached(a)' = Reached(a)
  BY <1>3
<1>7. \A a \in Peers : \A b : a # p => Got(a, b)' = Got(a, b)
  BY <1>3
<1>8. Got(p, q)' = Rank(r, k)
  BY <1>1
<1>9. \A b \in Peers : Got(p, b)' \in Nat /\ Got(p, b) <= Got(p, b)'
  BY <1>4
<1>10. \A b \in Peers, s \in Nat \ {0}, l \in SplitKinds :
         b # q /\ Owes(b, p, s, l) /\ Rank(s, l) <= Got(p, b)' => Rank(s, l) <= Got(p, b)
  BY <1>5
<1>11. Takes(p, q, r, k, c)
  BY <1>1, <1>2, <1>6, <1>7, <1>8, <1>9, <1>10 DEF Takes
<1> QED
  BY <1>1, <1>11, TakeStreams

-----------------------------------------------------------------------------
(* What a step leaves as it is                                             *)

\* The server knows the name of a context that a peer has the id of.
LEMMA KnownName ==
  ASSUME Inv, NEW p \in Peers, NEW r \in 1 .. round(p), wants[p][r],
         r < round(p) \/ pc[p] \in {"recvSize", "recvList", "barrier", "await", "idle"}
  PROVE  plan.names[r] \in DOMAIN contextIds
<1>1. round(p) \in Nat /\ r \in Nat /\ DOMAIN wants[p] = 1 .. round(p)
  BY DEF Inv, Shape, round
<1>2. p \in Chosen(r)
  BY <1>1 DEF Chosen
<1>3. Rank(r, "id") = 6 * r + 2
  BY <1>1, Ranks
<1>4. Got(p, master) \in Nat /\ 6 * round(p) <= Got(p, master)
  BY Bounds DEF Inv
<1>5. pc[p] \in {"recvSize", "recvList", "barrier", "await", "idle"} =>
        6 * round(p) + 2 <= Got(p, master)
  BY <1>1, Levels DEF Inv
<1>6. Rank(r, "id") <= Got(p, master)
  BY <1>1, <1>3, <1>4, <1>5
<1> QED
  BY <1>2, <1>6, FromMaster

\* A step of p, other than Call.
LEMMA OthersCalling ==
  ASSUME Inv, NEW p \in Peers, UNCHANGED <<plan, wants>>,
         \A n \in DOMAIN contextIds : contextIds'[n] = contextIds[n],
         \A a \in Peers : a # p =>
           /\ pc'[a] = pc[a] /\ i'[a] = i[a] /\ old'[a] = old[a] /\ result'[a] = result[a]
           /\ contexts'[a] = contexts[a] /\ newID'[a] = newID[a] /\ newSize'[a] = newSize[a],
         whiteList'[master] = whiteList[master] \/ \A b \in Peers : pc[b] # "recvList"
  PROVE  \A a \in Peers : a # p => Place(a)' /\ NewContext(a)' /\ Known(a)'
<1>1. SUFFICES ASSUME NEW a \in Peers, a # p PROVE Place(a)' /\ NewContext(a)' /\ Known(a)'
  OBVIOUS
<1>2. /\ pc'[a] = pc[a] /\ i'[a] = i[a] /\ old'[a] = old[a] /\ result'[a] = result[a]
      /\ contexts'[a] = contexts[a] /\ newID'[a] = newID[a] /\ newSize'[a] = newSize[a]
  BY <1>1
<1>3. round(a)' = round(a) /\ round(a) \in Nat /\ oldPeers(a)' = oldPeers(a)
  BY <1>2 DEF Inv, Shape, round, oldPeers
<1>4. \A r : Group(r)' = Group(r) /\ Chosen(r)' = Chosen(r)
  BY SameOwes
<1>5. Place(a) /\ NewContext(a) /\ Known(a)
  BY DEF Inv, Calling
<1>6. \A s, S : Lists(s, S)' <=> Lists(s, S)
  BY DEF Lists, Injective, VAddrs
<1>7. Place(a)'
  <2>1. round(a) # 0 => Ctx(round(a))' = Ctx(round(a))
    <3>1. SUFFICES ASSUME round(a) # 0 PROVE Ctx(round(a))' = Ctx(round(a))
      OBVIOUS
    <3>2. PICK r \in 1 .. round(a) : r = round(a)
      BY <1>3, <3>1
    <3>3. plan.nested /\ r > 1 => plan.names[r - 1] \in DOMAIN contextIds
      BY CtxKnown
    <3>4. Ctx(r)' = Ctx(r)
      BY <3>3 DEF Ctx
    <3> QED
      BY <1>3, <3>2, <3>4 DEF Ctx
  <2>2. rounds' = rounds
    BY DEF rounds
  <2>3. \A r \in 1 .. round(a) - 1 : (master \in Group(r))' /\ (plan.nested' => wants'[a][r])
    BY <1>4, <1>5 DEF Place
  <2>4. round(a) # 0 => /\ old'[a].id = Ctx(round(a))'
                        /\ Lists(oldPeers(a), Group(round(a)))
                        /\ pc'[a] # "thrown" <=> master \in Group(round(a))
    BY <1>2, <1>5, <2>1 DEF Place
  <2>5. Group(round(a))' = Group(round(a))
    BY <1>3 DEF Group
  <2>6. Lists(oldPeers(a), Group(round(a)))' <=> Lists(oldPeers(a), Group(round(a)))
    BY <1>3, <2>5 DEF Lists, Injective, VAddrs
  <2> QED
    BY <1>2, <1>3, <1>5, <2>2, <2>3, <2>4, <2>5, <2>6 DEF Place, master
<1>8. NewContext(a)'
  <2>1. CASE round(a) # 0 /\ wants[a][round(a)]
           /\ pc[a] \in {"recvSize", "recvList", "barrier", "await", "idle"}
    <3>1. PICK r \in 1 .. round(a) : r = round(a)
      BY <1>3, <2>1
    <3>2. plan.names[r] \in DOMAIN contextIds
      BY <2>1, <3>1, KnownName
    <3>3. contextIds'[plan'.names[round(a)']] = contextIds[plan.names[round(a)]]
      BY <1>3, <3>1, <3>2
    <3>4. pc[a] = "recvList" => Len(whiteList'[master]) = Len(whiteList[master])
      OBVIOUS
    <3>5. Chosen(round(a))' = Chosen(round(a))
      BY <1>3 DEF Chosen
    <3> QED
      BY <1>2, <1>3, <1>5, <2>1, <3>3, <3>4, <3>5 DEF NewContext, Lists, Injective, VAddrs, master
  <2>2. CASE ~(round(a) # 0 /\ wants[a][round(a)]
                 /\ pc[a] \in {"recvSize", "recvList", "barrier", "await", "idle"})
    BY <1>2, <1>3, <1>5, <2>2 DEF NewContext
  <2> QED
    BY <2>1, <2>2
<1>9. Known(a)'
  <2>1. ASSUME NEW r \in 1 .. round(a), wants[a][r],
               r < round(a) \/ pc[a] \in {"barrier", "await", "idle"}
        PROVE  contexts'[a][contextIds'[plan.names[r]]] # <<>>
    <3>1. plan.names[r] \in DOMAIN contextIds
      BY <2>1, KnownName
    <3>2. contexts[a][contextIds[plan.names[r]]] # <<>>
      BY <1>5, <2>1 DEF Known
    <3> QED
      BY <1>2, <3>1, <3>2
  <2> QED
    BY <1>2, <1>3, <2>1 DEF Known
<1> QED
  BY <1>7, <1>8, <1>9

\* A step of p inside a call.
LEMMA OwnPlace ==
  ASSUME Inv, NEW p \in Peers, UNCHANGED <<plan, wants, old>>,
         \A n \in DOMAIN contextIds : contextIds'[n] = contextIds[n],
         pc[p] \notin {"idle", "thrown"}, pc'[p] # "thrown",
         Len(result'[p]) = IF pc'[p] = "idle" THEN Len(result[p]) + 1 ELSE Len(result[p]),
         pc'[p] = "collect" => p = master,
         pc'[p] \in {"recvID", "recvSize", "recvList"} => wants[p][round(p)],
         i'[p] \in 1 .. Len(oldPeers(p)) + 1
  PROVE  Place(p)'
<1>1. /\ round(p) # 0 /\ p < plan.peers /\ round(p) <= rounds
      /\ Len(result[p]) = round(p) - 1
      /\ \A r \in 1 .. round(p) - 1 : master \in Group(r) /\ (plan.nested => wants[p][r])
      /\ old[p].id = Ctx(round(p))
      /\ Lists(oldPeers(p), Group(round(p)))
      /\ master \in Group(round(p))
  BY DEF Inv, Calling, Place
<1>2. round(p)' = round(p) /\ round(p) \in Nat /\ oldPeers(p)' = oldPeers(p) /\ rounds' = rounds
  BY DEF Inv, Shape, round, oldPeers, rounds
<1>3. \A r : Group(r)' = Group(r)
  BY SameOwes
<1>4. Ctx(round(p))' = Ctx(round(p))
  <2>1. PICK r \in 1 .. round(p) : r = round(p)
    BY <1>1, <1>2
  <2>2. plan.nested /\ r > 1 => plan.names[r - 1] \in DOMAIN contextIds
    BY CtxKnown
  <2>3. Ctx(r)' = Ctx(r)
    BY <2>2 DEF Ctx
  <2> QED
    BY <1>2, <2>1, <2>3 DEF Ctx
<1>5. Group(round(p))' = Group(round(p))
  BY <1>2 DEF Group
<1>6. Lists(oldPeers(p), Group(round(p)))' <=> Lists(oldPeers(p), Group(round(p)))
  BY <1>2, <1>5 DEF Lists, Injective, VAddrs
<1>7. \A r \in 1 .. round(p) - 1 : (master \in Group(r))' /\ (plan'.nested => wants'[p][r])
  BY <1>1, <1>3 DEF master
<1>8. Len(result'[p]) = IF pc'[p] = "idle" THEN round(p) ELSE round(p) - 1
  BY <1>1, <1>2
<1>9. (master \in Group(round(p)))'
  BY <1>1, <1>5 DEF master
<1> QED
  BY <1>1, <1>2, <1>4, <1>6, <1>7, <1>8, <1>9 DEF Place, master

LEMMA OwnKnown ==
  ASSUME Inv, NEW p \in Peers, UNCHANGED <<plan, wants>>,
         \A n \in DOMAIN contextIds : contextIds'[n] = contextIds[n],
         \A d \in IDs : contexts[p][d] # <<>> => contexts'[p][d] # <<>>,
         \/ pc[p] \in {"barrier", "await", "idle"}
         \/ pc'[p] \notin {"barrier", "await", "idle"}
         \/ ~wants[p][round(p)]
         \/ contexts'[p][contextIds'[plan.names[round(p)]]] # <<>>
  PROVE  Known(p)'
<1>1. round(p)' = round(p) /\ round(p) \in Nat /\ plan' = plan
  BY DEF round, Inv, Shape
<1>2. SUFFICES ASSUME NEW r \in 1 .. round(p), wants[p][r],
                      r < round(p) \/ pc'[p] \in {"barrier", "await", "idle"}
               PROVE  contexts'[p][contextIds'[plan.names[r]]] # <<>>
  BY <1>1 DEF Known
<1>3. CASE r < round(p) \/ pc[p] \in {"barrier", "await", "idle"}
  <2>1. plan.names[r] \in DOMAIN contextIds
    BY <1>2, <1>3, KnownName
  <2>2. contexts[p][contextIds[plan.names[r]]] # <<>>
    BY <1>2, <1>3 DEF Inv, Calling, Known
  <2>3. contextIds[plan.names[r]] \in IDs
    BY <2>1, IdsTyped
  <2> QED
    BY <2>1, <2>2, <2>3
<1>4. CASE ~(r < round(p) \/ pc[p] \in {"barrier", "await", "idle"})
  <2>1. r = round(p)
    BY <1>1, <1>4
  <2> QED
    BY <1>2, <1>4, <2>1
<1> QED
  BY <1>3, <1>4

\* The master after its Distribute, or a step of another.
LEMMA MasterCalling ==
  ASSUME Inv, UNCHANGED <<plan, wants, contextIds>>, whiteList'[master] = whiteList[master],
         \/ pc'[master] = pc[master] /\ i'[master] = i[master] /\ old'[master] = old[master]
         \/ {pc[master], pc'[master]} \subseteq
              {"recvID", "recvSize", "recvList", "barrier", "await", "idle"}
  PROVE  WhiteLists' /\ Names'
<1>1. master \in Peers /\ round(master) \in Nat /\ round(master)' = round(master)
  BY Constants, Bounds DEF Inv, round
<1>2. WhiteLists /\ Names
  BY DEF Inv, Calling
<1>3. Chosen(round(master))' = Chosen(round(master))
  BY <1>1 DEF Chosen
<1>4. \A r : Rank(r, "id")' = Rank(r, "id")
  BY DEF Rank, Slot
<1>5. CASE pc'[master] = pc[master] /\ i'[master] = i[master] /\ old'[master] = old[master]
  <2>1. Heard(master)' = Heard(master) /\ Reached(master)' = Reached(master)
    BY <1>1, <1>5, OthersStay
  <2> QED
    BY <1>1, <1>2, <1>3, <1>4, <1>5, <2>1 DEF WhiteLists, Names, Lists, Injective, VAddrs, Rank, Slot, master
<1>6. CASE {pc[master], pc'[master]} \subseteq
             {"recvID", "recvSize", "recvList", "barrier", "await", "idle"}
  <2>1. 6 * round(master) + 4 <= Reached(master) /\ Reached(master) \in Nat
    BY <1>1, <1>6, Levels, Bounds DEF Inv
  <2>2. ASSUME NEW r \in 1 .. round(master) PROVE plan.names[r] \in DOMAIN contextIds
    <3>1. Rank(r, "id") = 6 * r + 2
      BY Ranks
    <3>2. Rank(r, "id") <= Reached(master)
      BY <1>1, <2>1, <3>1
    <3> QED
      BY <1>2, <3>2 DEF Names
  <2>3. Names'
    BY <1>1, <1>2, <1>6, <2>2 DEF Names
  <2>4. WhiteLists'
    BY <1>1, <1>2, <1>3, <1>6 DEF WhiteLists, Lists, Injective, VAddrs, master
  <2> QED
    BY <2>3, <2>4
<1> QED
  BY <1>5, <1>6

-----------------------------------------------------------------------------
(* The steps that receive                                                  *)

LEMMA AwaitStep ==
  ASSUME Inv, NEW p \in Peers, Await(p)
  PROVE  Inv'
<1>1. /\ pc[p] = "await" /\ i[p] <= Len(oldPeers(p))
      /\ i' = [i EXCEPT ![p] = @ + 1]
      /\ UNCHANGED <<plan, contextIds, wire, thrown, contexts, wants, result, pc, old, whiteList,
                     newID, newSize>>
  BY DEF Await, answers
<1>2. PICK q, m : q \in Source(p) /\ q = oldPeers(p)[i[p]] /\ RecvFrom(p, q, m)
  BY <1>1 DEF Await, Source
<1>3. q \in Peers /\ round(p) \in Nat \ {0} /\ Got(p, q) \in Nat
  BY <1>2, Awaited, Bounds DEF Inv
<1>4. /\ i \in [Peers -> Nat \ {0}] /\ i'[p] = i[p] + 1
      /\ \A a \in Peers : a # p => i'[a] = i[a]
  BY <1>1 DEF Inv, Shape
<1>5. oldPeers(p)' = oldPeers(p) /\ round(p)' = round(p) /\ oldPeers(p) \in Seq(Peers)
  BY <1>1 DEF oldPeers, round, Inv, Shape
<1>6. Heard(p)' = Heard(p) \cup {q}
  <2>1. PICK x \in Nat \ {0} : x = i[p]
    BY <1>4
  <2>2. Heard(p) = {oldPeers(p)[j] : j \in 1 .. x - 1} /\ Heard(p)' = {oldPeers(p)[j] : j \in 1 .. x}
    BY <1>4, <1>5, <2>1 DEF Heard
  <2>3. 1 .. x = 1 .. x - 1 \cup {x}
    BY <2>1
  <2> QED
    BY <1>2, <2>1, <2>2, <2>3
<1>7. q \notin Heard(p)
  <2>1. Rank(round(p), "null") = Got(p, q) + 1
    <3>1. Expected(p)[pc[p]] = "null"
      BY <1>1 DEF Expected
    <3> QED
      BY <1>2, <3>1, Awaited
  <2>3. Rank(round(p), "null") = 6 * round(p) + 5
    BY <1>3, Ranks
  <2>2. Got(p, q) = IF q \in Heard(p) THEN 6 * round(p) + 5 ELSE 6 * round(p) + 4
    BY <1>1, Levels DEF Inv
  <2> QED
    BY <1>3, <2>1, <2>2, <2>3
<1>8. /\ Reached(p)' = Reached(p)
      /\ \A b \in Peers : Got(p, b)' = IF b = q THEN Got(p, b) + 1 ELSE Got(p, b)
  <2>1. wants'[p] \in Seq(BOOLEAN) /\ pc'[p] = "await"
    BY <1>1 DEF Inv, Shape
  <2>2. Reached(p)' = 6 * round(p) + 5
        /\ \A b : Got(p, b)' = IF b \in Heard(p)' THEN 6 * round(p) + 5 ELSE 6 * round(p) + 4
    BY <1>5, <2>1, LevelsAfter
  <2>3. Reached(p) = 6 * round(p) + 5
        /\ \A b : Got(p, b) = IF b \in Heard(p) THEN 6 * round(p) + 5 ELSE 6 * round(p) + 4
    BY <1>1, Levels DEF Inv
  <2> QED
    BY <1>3, <1>6, <1>7, <2>2, <2>3
<1>9. Streams'
  <2>1. UNCHANGED <<plan, contextIds, wants, wire, old>>
    BY <1>1
  <2>2. \A a \in Peers : a # p => pc'[a] = pc[a] /\ i'[a] = i[a]
    BY <1>1, <1>4
  <2>3. \A a \in Peers, d \in IDs : contexts[a][d] # <<>> => contexts'[a][d] # <<>>
    BY <1>1
  <2>4. Got(p, q)' = Got(p, q) + 1 /\ \A b \in Peers : b # q => Got(p, b)' = Got(p, b)
    BY <1>3, <1>8
  <2>5. whiteList'[master] = whiteList[master]
    BY <1>1
  <2> QED
    BY <1>2, <1>8, <2>1, <2>2, <2>3, <2>4, <2>5, ReceiveStreams
<1>10. Shape'
  <2>1. inBox' \in [Peers -> [IDs \X Peers -> Seq(Messages)]]
    BY <1>2, Received
  <2>2. i' \in [Peers -> Nat \ {0}]
    BY <1>1, <1>4
  <2> QED
    BY <1>1, <2>1, <2>2 DEF Inv, Shape, Messages, Values
<1>11. Place(p)'
  <2>1. i'[p] \in 1 .. Len(oldPeers(p)) + 1
    BY <1>1, <1>4, <1>5
  <2> QED
    BY <1>1, <2>1, OwnPlace
<1>12. NewContext(p)' /\ Known(p)'
  <2>1. NewContext(p)
    BY DEF Inv, Calling
  <2>2. Chosen(round(p))' = Chosen(round(p))
    BY <1>1, <1>5 DEF Chosen
  <2>3. NewContext(p)'
    BY <1>1, <1>5, <2>1, <2>2 DEF NewContext, Lists, Injective, VAddrs
  <2>4. Known(p)'
    BY <1>1, OwnKnown
  <2> QED
    BY <2>3, <2>4
<1>13. \A a \in Peers : a # p => Place(a)' /\ NewContext(a)' /\ Known(a)'
  BY <1>1, <1>4, OthersCalling
<1>14. WhiteLists' /\ Names'
  BY <1>1, <1>4, MasterCalling, Constants
<1>15. FirstContext'
  BY <1>1 DEF Inv, Calling, FirstContext, Lists, Injective, VAddrs
<1> QED
  BY <1>9, <1>10, <1>11, <1>12, <1>13, <1>14, <1>15 DEF Inv, Calling

\* What a member gets from the master, and what that does to the streams.
LEMMA MemberReceives ==
  ASSUME Inv, NEW p \in Peers, pc[p] \in {"recvID", "recvSize", "recvList"},
         NEW m, RecvFrom(p, master, m),
         pc' = [pc EXCEPT ![p] = CASE pc[p] = "recvID" -> "recvSize"
                                   [] pc[p] = "recvSize" -> "recvList"
                                   [] pc[p] = "recvList" -> "barrier"],
         UNCHANGED <<plan, contextIds, wants, wire, old, i, whiteList>>,
         \A a \in Peers, d \in IDs : contexts[a][d] # <<>> => contexts'[a][d] # <<>>
  PROVE  Streams'
<1>1. master \in Source(p) /\ round(p) \in Nat /\ master \in Peers
  BY Constants, Bounds DEF Source, Inv
<1>2. /\ \A a \in Peers : a # p => pc'[a] = pc[a] /\ i'[a] = i[a]
      /\ pc[p] = "recvID" => pc'[p] = "recvSize"
      /\ pc[p] = "recvSize" => pc'[p] = "recvList"
      /\ pc[p] = "recvList" => pc'[p] = "barrier"
  BY DEF Inv, Shape
<1>3. wants'[p] \in Seq(BOOLEAN) /\ round(p)' = round(p)
  BY DEF Inv, Shape, round
<1>4. Reached(p)' = Reached(p) /\ \A b : Got(p, b)' = Got(p, b) + 1
  <2>1. CASE pc[p] = "recvID"
    <3>1. Reached(p) = 6 * round(p) + 4 /\ \A b : Got(p, b) = 6 * round(p) + 1
      BY <2>1, Levels DEF Inv
    <3>2. Reached(p)' = 6 * round(p) + 4 /\ \A b : Got(p, b)' = 6 * round(p) + 2
      BY <1>2, <1>3, <2>1, LevelsAfter
    <3> QED
      BY <1>1, <3>1, <3>2
  <2>2. CASE pc[p] = "recvSize"
    <3>1. Reached(p) = 6 * round(p) + 4 /\ \A b : Got(p, b) = 6 * round(p) + 2
      BY <2>2, Levels DEF Inv
    <3>2. Reached(p)' = 6 * round(p) + 4 /\ \A b : Got(p, b)' = 6 * round(p) + 3
      BY <1>2, <1>3, <2>2, LevelsAfter
    <3> QED
      BY <1>1, <3>1, <3>2
  <2>3. CASE pc[p] = "recvList"
    <3>1. Reached(p) = 6 * round(p) + 4 /\ \A b : Got(p, b) = 6 * round(p) + 3
      BY <2>3, Levels DEF Inv
    <3>2. Reached(p)' = 6 * round(p) + 4 /\ \A b : Got(p, b)' = 6 * round(p) + 4
      BY <1>2, <1>3, <2>3, LevelsAfter
    <3> QED
      BY <1>1, <3>1, <3>2
  <2> QED
    BY <2>1, <2>2, <2>3
<1>5. UNCHANGED <<plan, contextIds, wants, wire, old>> /\ whiteList'[master] = whiteList[master]
  OBVIOUS
<1> QED
  BY <1>1, <1>2, <1>4, <1>5, ReceiveStreams

\* The content of the next message of the master.
LEMMA FromMasterContent ==
  ASSUME Inv, NEW p \in Peers, pc[p] \in {"recvID", "recvSize", "recvList"},
         NEW m, RecvFrom(p, master, m)
  PROVE  /\ pc[p] = "recvID" => m.value = contextIds[plan.names[round(p)]]
         /\ pc[p] = "recvSize" => m.value = Len(whiteList[master])
         /\ pc[p] = "recvList" => m.value = whiteList[master]
         /\ wants[p][round(p)] /\ p \in Chosen(round(p)) /\ round(p) \in Nat \ {0}
         /\ plan.names[round(p)] \in DOMAIN contextIds
         /\ contextIds[plan.names[round(p)]] \in IDs \ {0}
         /\ inBox' \in [Peers -> [IDs \X Peers -> Seq(Messages)]]
<1>1. master \in Source(p) /\ master \in Peers
  BY Constants DEF Source
<1>2. /\ SplitMessage(master, p, m) /\ m.kind = Expected(p)[pc[p]] /\ m.call = round(p)
      /\ inBox' \in [Peers -> [IDs \X Peers -> Seq(Messages)]]
  BY <1>1, Received
<1>3. Content(master, p, m) /\ Owes(master, p, m.call, m.kind) /\ RankOf(m) <= Reached(master)
  BY <1>2 DEF SplitMessage
<1>4. /\ pc[p] = "recvID" => m.kind = "id"
      /\ pc[p] = "recvSize" => m.kind = "size"
      /\ pc[p] = "recvList" => m.kind = "list"
      /\ m.kind \in {"id", "size", "list"}
  BY <1>2 DEF Expected
<1>5. wants[p][round(p)] /\ p \in Chosen(round(p))
  BY <1>2, <1>3, <1>4 DEF Owes, Chosen
<1>6. round(p) \in Nat \ {0} /\ round(p) \in 1 .. round(p)
  <2>1. round(p) # 0
    BY DEF Inv, Calling, Place
  <2> QED
    BY <2>1, Bounds DEF Inv
<1>7. plan.names[round(p)] \in DOMAIN contextIds
  <2>1. PICK r \in 1 .. round(p) : r = round(p)
    BY <1>6
  <2>2. Rank(r, "id") <= Rank(r, m.kind) /\ Rank(r, "id") \in Nat /\ Rank(r, m.kind) \in Nat
    BY <1>4, <1>6, Ranks, Slots DEF Rank
  <2>3. Rank(r, m.kind) <= Reached(master)
    BY <1>2, <1>3, <2>1 DEF RankOf
  <2>4. Reached(master) \in Nat /\ round(master) \in Nat /\ Reached(master) <= 6 * round(master) + 6
    BY <1>1, Bounds DEF Inv
  <2>5. Rank(r, "id") <= Reached(master) /\ Rank(r, "id") = 6 * r + 2
    BY <2>2, <2>3, <2>4, Ranks
  <2>6. r \in 1 .. round(master)
    BY <2>4, <2>5
  <2> QED
    BY <2>1, <2>5, <2>6 DEF Inv, Calling, Names
<1>8. contextIds[plan.names[round(p)]] \in IDs \ {0}
  BY <1>7, IdsTyped
<1> QED
  BY <1>2, <1>3, <1>4, <1>5, <1>6, <1>7, <1>8 DEF Content

\* The list that the master sent names the members.
LEMMA TheList ==
  ASSUME Inv, NEW p \in Peers, pc[p] = "recvList"
  PROVE  /\ Lists(whiteList[master], Chosen(round(p)))
         /\ round(master) = round(p) /\ pc[master] \notin {"collect", "thrown"}
<1>1. master \in Peers /\ round(master) \in Nat /\ Reached(master) \in Nat
  BY Constants, Bounds DEF Inv
<1>2. round(p) \in Nat \ {0} /\ wants[p][round(p)]
  BY Bounds DEF Inv, Calling, Place
<1>3. PICK r \in 1 .. round(p) : r = round(p)
  BY <1>2
<1>4. r \in Nat \ {0} /\ p \in Chosen(r) /\ p \in Group(r)
  <2>1. DOMAIN wants[p] = 1 .. round(p)
    BY DEF Inv, Shape, round
  <2> QED
    BY <1>2, <1>3, <2>1, InGroups DEF Chosen
<1>5. Got(p, master) = 6 * r + 3 /\ Reached(p) = 6 * r + 4 /\ Rank(r, "size") = 6 * r + 3
  BY <1>3, <1>4, Levels, Ranks DEF Inv
<1>6. Rank(r, "size") <= Reached(master) /\ r <= round(master)
  BY <1>4, <1>5, FromMaster
<1>7. ~(r < round(master))
  BY <1>1, <1>4, <1>5, Settled
<1>8. round(master) = r
  BY <1>1, <1>4, <1>6, <1>7
<1>9. pc[master] # "collect"
  BY NoLists
<1>10. pc[master] # "thrown"
  BY <1>1, <1>5, <1>6, <1>8, Levels DEF Inv
<1> QED
  BY <1>3, <1>4, <1>8, <1>9, <1>10 DEF Inv, Calling, WhiteLists

LEMMA RecvIDStep ==
  ASSUME Inv, NEW p \in Peers, RecvID(p)
  PROVE  Inv'
<1>1. /\ pc[p] = "recvID" /\ pc' = [pc EXCEPT ![p] = "recvSize"]
      /\ UNCHANGED <<plan, contextIds, wire, thrown, contexts, wants, result, old, i, whiteList,
                     newSize>>
  BY DEF RecvID, answers, Goto
<1>2. PICK m : RecvFrom(p, master, m) /\ newID' = [newID EXCEPT ![p] = m.value]
  BY DEF RecvID
<1>3. PICK id \in IDs \ {0} : id = contextIds[plan.names[round(p)]] /\ m.value = id
  BY <1>1, <1>2, FromMasterContent
<1>4. /\ wants[p][round(p)]
      /\ inBox' \in [Peers -> [IDs \X Peers -> Seq(Messages)]]
  BY <1>1, <1>2, FromMasterContent
<1>5. Shape'
  <2>1. pc' \in [Peers -> {"idle", "collect", "recvID", "recvSize", "recvList", "barrier",
                           "await", "thrown"}]
    BY <1>1 DEF Inv, Shape
  <2>2. newID' \in [Peers -> IDs \cup {-1}]
    BY <1>2, <1>3 DEF Inv, Shape
  <2> QED
    BY <1>1, <1>4, <2>1, <2>2 DEF Inv, Shape, Messages, Values
<1>6. /\ pc'[p] = "recvSize" /\ newID'[p] = id
      /\ \A a \in Peers : a # p => pc'[a] = pc[a] /\ newID'[a] = newID[a]
  BY <1>1, <1>2, <1>3 DEF Inv, Shape
<1>7. Streams'
  BY <1>1, <1>2, MemberReceives
<1>8. Place(p)'
  <2>1. i'[p] \in 1 .. Len(oldPeers(p)) + 1
    BY <1>1 DEF Inv, Calling, Place
  <2> QED
    BY <1>1, <1>4, <1>6, <2>1, OwnPlace
<1>9. NewContext(p)'
  BY <1>1, <1>3, <1>6 DEF NewContext, round
<1>10. Known(p)'
  BY <1>1, <1>6, OwnKnown
<1>11. \A a \in Peers : a # p => Place(a)' /\ NewContext(a)' /\ Known(a)'
  BY <1>1, <1>6, OthersCalling
<1>12. WhiteLists' /\ Names'
  BY <1>1, <1>6, MasterCalling, Constants
<1>13. FirstContext'
  BY <1>1 DEF Inv, Calling, FirstContext, Lists, Injective, VAddrs
<1> QED
  BY <1>5, <1>7, <1>8, <1>9, <1>10, <1>11, <1>12, <1>13 DEF Inv, Calling

LEMMA RecvSizeStep ==
  ASSUME Inv, NEW p \in Peers, RecvSize(p)
  PROVE  Inv'
<1>1. /\ pc[p] = "recvSize" /\ pc' = [pc EXCEPT ![p] = "recvList"]
      /\ UNCHANGED <<plan, contextIds, wire, thrown, contexts, wants, result, old, i, whiteList,
                     newID>>
  BY DEF RecvSize, answers, Goto
<1>2. PICK m : RecvFrom(p, master, m) /\ newSize' = [newSize EXCEPT ![p] = m.value]
  BY DEF RecvSize
<1>3. /\ wants[p][round(p)] /\ round(p) # 0 /\ m.value = Len(whiteList[master])
      /\ inBox' \in [Peers -> [IDs \X Peers -> Seq(Messages)]]
  BY <1>1, <1>2, FromMasterContent
<1>4. Shape'
  <2>1. pc' \in [Peers -> {"idle", "collect", "recvID", "recvSize", "recvList", "barrier",
                           "await", "thrown"}]
    BY <1>1 DEF Inv, Shape
  <2>2. Len(whiteList[master]) \in Nat
    BY Constants DEF Inv, Shape
  <2>3. newSize' \in [Peers -> Nat]
    BY <1>2, <1>3, <2>2 DEF Inv, Shape
  <2> QED
    BY <1>1, <1>3, <2>1, <2>3 DEF Inv, Shape, Messages, Values
<1>5. /\ pc'[p] = "recvList" /\ newSize'[p] = Len(whiteList[master])
      /\ \A a \in Peers : a # p => pc'[a] = pc[a] /\ newSize'[a] = newSize[a]
  BY <1>1, <1>2, <1>3 DEF Inv, Shape
<1>6. Streams'
  BY <1>1, <1>2, MemberReceives
<1>7. Place(p)'
  <2>1. i'[p] \in 1 .. Len(oldPeers(p)) + 1
    BY <1>1 DEF Inv, Calling, Place
  <2> QED
    BY <1>1, <1>3, <1>5, <2>1, OwnPlace
<1>8. NewContext(p)'
  <2>1. newID[p] = contextIds[plan.names[round(p)]]
    BY <1>1, <1>3 DEF Inv, Calling, NewContext
  <2> QED
    BY <1>1, <1>3, <1>5, <2>1 DEF NewContext, round, master
<1>9. Known(p)'
  BY <1>1, <1>5, OwnKnown
<1>10. \A a \in Peers : a # p => Place(a)' /\ NewContext(a)' /\ Known(a)'
  BY <1>1, <1>5, OthersCalling
<1>11. WhiteLists' /\ Names'
  BY <1>1, <1>5, MasterCalling, Constants
<1>12. FirstContext'
  BY <1>1 DEF Inv, Calling, FirstContext, Lists, Injective, VAddrs
<1> QED
  BY <1>4, <1>6, <1>7, <1>8, <1>9, <1>10, <1>11, <1>12 DEF Inv, Calling

\* What a member enters.
LEMMA EntersList ==
  ASSUME Inv, NEW p \in Peers, RecvList(p)
  PROVE  \E id \in IDs \ {0}, list \in Seq(Peers) :
           /\ id = contextIds[plan.names[round(p)]] /\ newID[p] = id /\ list = whiteList[master]
           /\ Lists(list, Chosen(round(p))) /\ list # <<>>
           /\ contexts' = [contexts EXCEPT ![p][id] = list]
<1>1. pc[p] = "recvList"
  BY DEF RecvList
<1>2. PICK m : /\ RecvFrom(p, master, m)
               /\ contexts' = [contexts EXCEPT ![p][newID[p]] = SubSeq(m.value, 1, newSize[p])]
  BY DEF RecvList
<1>3. /\ wants[p][round(p)] /\ round(p) \in Nat \ {0} /\ m.value = whiteList[master]
      /\ p \in Chosen(round(p)) /\ contextIds[plan.names[round(p)]] \in IDs \ {0}
  BY <1>1, <1>2, FromMasterContent
<1>4. PICK id \in IDs \ {0}, list \in Seq(Peers) :
        id = contextIds[plan.names[round(p)]] /\ list = whiteList[master]
  BY <1>3, Constants DEF Inv, Shape
<1>5. newID[p] = id /\ newSize[p] = Len(list)
  BY <1>1, <1>3, <1>4 DEF Inv, Calling, NewContext
<1>6. Lists(list, Chosen(round(p))) /\ list # <<>>
  <2>1. Lists(list, Chosen(round(p)))
    BY <1>1, <1>4, TheList
  <2> QED
    BY <1>3, <2>1 DEF Lists, VAddrs
<1>7. contexts' = [contexts EXCEPT ![p][id] = list]
  <2>1. SubSeq(list, 1, Len(list)) = list
    OBVIOUS
  <2> QED
    BY <1>2, <1>3, <1>4, <1>5, <2>1
<1> QED
  BY <1>4, <1>5, <1>6, <1>7

LEMMA RecvListStep ==
  ASSUME Inv, NEW p \in Peers, RecvList(p)
  PROVE  Inv'
<1>1. /\ pc[p] = "recvList" /\ pc' = [pc EXCEPT ![p] = "barrier"]
      /\ UNCHANGED <<plan, contextIds, wire, thrown, wants, result, old, i, whiteList, newID,
                     newSize>>
  BY DEF RecvList, answers, Goto
<1>2. PICK m : /\ RecvFrom(p, master, m)
               /\ contexts' = [contexts EXCEPT ![p][newID[p]] = SubSeq(m.value, 1, newSize[p])]
  BY DEF RecvList
<1>3. /\ wants[p][round(p)] /\ round(p) \in Nat \ {0} /\ m.value = whiteList[master]
      /\ p \in Chosen(round(p)) /\ contextIds[plan.names[round(p)]] \in IDs \ {0}
      /\ inBox' \in [Peers -> [IDs \X Peers -> Seq(Messages)]]
  BY <1>1, <1>2, FromMasterContent
<1>4. PICK id \in IDs \ {0}, list \in Seq(Peers) :
        /\ id = contextIds[plan.names[round(p)]] /\ newID[p] = id /\ list = whiteList[master]
        /\ Lists(list, Chosen(round(p))) /\ list # <<>>
        /\ contexts' = [contexts EXCEPT ![p][id] = list]
  BY EntersList
<1>5. /\ contexts' \in [Peers -> [IDs -> Seq(Peers)]] /\ contexts'[p][id] = list
      /\ \A d \in IDs : d # id => contexts'[p][d] = contexts[p][d]
      /\ \A a \in Peers : a # p => contexts'[a] = contexts[a]
  BY <1>4 DEF Inv, Shape
<1>6. \A a \in Peers, d \in IDs : contexts[a][d] # <<>> => contexts'[a][d] # <<>>
  BY <1>4, <1>5
<1>7. pc'[p] = "barrier" /\ \A a \in Peers : a # p => pc'[a] = pc[a]
  BY <1>1 DEF Inv, Shape
<1>8. Shape'
  <2>1. pc' \in [Peers -> {"idle", "collect", "recvID", "recvSize", "recvList", "barrier",
                           "await", "thrown"}]
    BY <1>1 DEF Inv, Shape
  <2> QED
    BY <1>1, <1>3, <1>5, <2>1 DEF Inv, Shape, Messages, Values
<1>9. Streams'
  BY <1>1, <1>2, <1>6, MemberReceives
<1>10. Place(p)'
  <2>1. i'[p] \in 1 .. Len(oldPeers(p)) + 1
    BY <1>1 DEF Inv, Calling, Place
  <2> QED
    BY <1>1, <1>3, <1>7, <2>1, OwnPlace
<1>11. NewContext(p)'
  <2>1. contexts'[p][id] = list /\ contextIds'[plan'.names[round(p)']] = id /\ newID'[p] = id
    BY <1>1, <1>4, <1>5 DEF round
  <2>2. round(p)' = round(p) /\ Chosen(round(p))' = Chosen(round(p))
    BY <1>1 DEF Chosen, round
  <2>3. Lists(contexts[p][contextIds[plan.names[round(p)]]], Chosen(round(p)))'
    <3>1. PICK s, S : /\ s = (contexts[p][contextIds[plan.names[round(p)]]])' /\ s = list
                      /\ S = Chosen(round(p))' /\ S = Chosen(round(p))
      BY <2>1, <2>2
    <3> QED
      BY <1>4, <3>1 DEF Lists, Injective, VAddrs
  <2> QED
    BY <1>1, <1>3, <1>7, <2>1, <2>2, <2>3 DEF NewContext
<1>12. Known(p)'
  <2>1. contexts'[p][contextIds'[plan.names[round(p)]]] # <<>>
    BY <1>1, <1>4, <1>5
  <2>2. \A d \in IDs : contexts[p][d] # <<>> => contexts'[p][d] # <<>>
    BY <1>6
  <2> QED
    BY <1>1, <2>1, <2>2, OwnKnown
<1>13. \A a \in Peers : a # p => Place(a)' /\ NewContext(a)' /\ Known(a)'
  BY <1>1, <1>5, <1>7, OthersCalling
<1>14. WhiteLists' /\ Names'
  BY <1>1, <1>7, MasterCalling, Constants
<1>15. FirstContext'
  <2>1. \A a \in Peers : contexts'[a][0] = contexts[a][0]
    BY <1>5, Constants
  <2> QED
    BY <1>1, <2>1 DEF Inv, Calling, FirstContext, Lists, Injective, VAddrs
<1> QED
  BY <1>8, <1>9, <1>10, <1>11, <1>12, <1>13, <1>14, <1>15 DEF Inv, Calling

LEMMA CollectStep ==
  ASSUME Inv, NEW p \in Peers, Collect(p)
  PROVE  Inv'
<1>1. /\ pc[p] = "collect" /\ i[p] <= Len(oldPeers(p))
      /\ i' = [i EXCEPT ![p] = @ + 1]
      /\ UNCHANGED <<plan, contextIds, wire, thrown, contexts, wants, result, pc, old, newID, newSize>>
  BY DEF Collect, answers
<1>2. PICK q, m :
        /\ q \in Source(p) /\ q = oldPeers(p)[i[p]] /\ RecvFrom(p, q, m)
        /\ \/ m.value = TRUE /\ whiteList' = [whiteList EXCEPT ![p] = Append(@, q)]
           \/ m.value # TRUE /\ UNCHANGED whiteList
  BY <1>1 DEF Collect, Source
<1>3. p = master /\ round(p) \in Nat \ {0} /\ q \in Peers /\ Got(p, q) \in Nat
  BY <1>1, <1>2, Awaited, Bounds DEF Inv, Calling, Place
<1>4. /\ SplitMessage(q, p, m) /\ m.kind = "member" /\ m.call = round(p)
      /\ inBox' \in [Peers -> [IDs \X Peers -> Seq(Messages)]]
  <2>1. Expected(p)[pc[p]] = "member"
    BY <1>1 DEF Expected
  <2> QED
    BY <1>2, <2>1, Received
<1>5. m.value = TRUE <=> q \in Chosen(round(p))
  <2>1. m.value = wants[q][round(p)]
    BY <1>4 DEF SplitMessage, Content
  <2>2. RankOf(m) = 6 * round(p) + 1 /\ RankOf(m) <= Reached(q)
    BY <1>3, <1>4, Ranks DEF SplitMessage, RankOf
  <2>3. Reached(q) \in Nat /\ round(q) \in Nat /\ Reached(q) <= 6 * round(q) + 6
    BY <1>3, Bounds DEF Inv
  <2>4. round(p) \in 1 .. round(q)
    BY <1>3, <2>2, <2>3
  <2>5. wants[q] \in Seq(BOOLEAN) /\ round(q) = Len(wants[q])
    BY <1>3 DEF Inv, Shape, round
  <2>6. round(p) \in DOMAIN wants[q] /\ wants[q][round(p)] \in BOOLEAN
    BY <2>4, <2>5
  <2> QED
    BY <1>3, <2>1, <2>6 DEF Chosen
<1>6. /\ i \in [Peers -> Nat \ {0}] /\ i'[p] = i[p] + 1
      /\ \A a \in Peers : a # p => i'[a] = i[a]
  BY <1>1 DEF Inv, Shape
<1>7. oldPeers(p)' = oldPeers(p) /\ round(p)' = round(p) /\ oldPeers(p) \in Seq(Peers)
  BY <1>1 DEF oldPeers, round, Inv, Shape
<1>8. Heard(p)' = Heard(p) \cup {q}
  <2>1. PICK x \in Nat \ {0} : x = i[p]
    BY <1>6
  <2>2. Heard(p) = {oldPeers(p)[j] : j \in 1 .. x - 1} /\ Heard(p)' = {oldPeers(p)[j] : j \in 1 .. x}
    BY <1>6, <1>7, <2>1 DEF Heard
  <2>3. 1 .. x = 1 .. x - 1 \cup {x}
    BY <2>1
  <2> QED
    BY <1>2, <2>1, <2>2, <2>3
<1>9. q \notin Heard(p)
  <2>1. Rank(round(p), "member") = Got(p, q) + 1
    <3>1. Expected(p)[pc[p]] = "member"
      BY <1>1 DEF Expected
    <3> QED
      BY <1>2, <3>1, Awaited
  <2>2. Rank(round(p), "member") = 6 * round(p) + 1
    BY <1>3, Ranks
  <2>3. Got(p, q) = IF q \in Heard(p) THEN 6 * round(p) + 1 ELSE 6 * round(p)
    BY <1>1, Levels DEF Inv
  <2> QED
    BY <1>3, <2>1, <2>2, <2>3
<1>10. /\ Reached(p)' = Reached(p)
       /\ \A b \in Peers : Got(p, b)' = IF b = q THEN Got(p, b) + 1 ELSE Got(p, b)
  <2>1. wants'[p] \in Seq(BOOLEAN) /\ pc'[p] = "collect"
    BY <1>1 DEF Inv, Shape
  <2>2. Reached(p)' = 6 * round(p) + 1
        /\ \A b : Got(p, b)' = IF b \in Heard(p)' THEN 6 * round(p) + 1 ELSE 6 * round(p)
    BY <1>7, <2>1, LevelsAfter
  <2>3. Reached(p) = 6 * round(p) + 1
        /\ \A b : Got(p, b) = IF b \in Heard(p) THEN 6 * round(p) + 1 ELSE 6 * round(p)
    BY <1>1, Levels DEF Inv
  <2> QED
    BY <1>3, <1>8, <1>9, <2>2, <2>3
<1>11. /\ \A b \in Peers : \A n : SplitMessage(master, b, n) => n.kind \notin {"size", "list"}
       /\ \A b \in Peers : pc[b] # "recvList"
  BY <1>1, <1>3, NoLists
<1>12. Streams'
  <2>1. UNCHANGED <<plan, contextIds, wants, wire, old>>
    BY <1>1
  <2>2. \A a \in Peers : a # p => pc'[a] = pc[a] /\ i'[a] = i[a]
    BY <1>1, <1>6
  <2>3. \A a \in Peers, d \in IDs : contexts[a][d] # <<>> => contexts'[a][d] # <<>>
    BY <1>1
  <2>4. Got(p, q)' = Got(p, q) + 1 /\ \A b \in Peers : b # q => Got(p, b)' = Got(p, b)
    BY <1>3, <1>10
  <2> QED
    BY <1>2, <1>10, <1>11, <2>1, <2>2, <2>3, <2>4, ReceiveStreams
<1>13. PICK wl \in Seq(Peers) : wl = whiteList[p]
  BY DEF Inv, Shape
<1>14. /\ whiteList' \in [Peers -> Seq(Peers)]
       /\ whiteList'[p] = IF q \in Chosen(round(p)) THEN Append(wl, q) ELSE wl
  <2>1. Append(wl, q) \in Seq(Peers) /\ whiteList \in [Peers -> Seq(Peers)]
    BY <1>3, <1>13 DEF Inv, Shape
  <2>2. CASE q \in Chosen(round(p))
    <3>1. whiteList' = [whiteList EXCEPT ![p] = Append(wl, q)]
      BY <1>2, <1>5, <1>13, <2>2
    <3> QED
      BY <2>1, <2>2, <3>1
  <2>3. CASE q \notin Chosen(round(p))
    <3>1. whiteList' = whiteList
      BY <1>2, <1>5, <2>3
    <3> QED
      BY <1>13, <2>1, <2>3, <3>1
  <2> QED
    BY <2>2, <2>3
<1>15. Shape'
  <2>1. i' \in [Peers -> Nat \ {0}]
    BY <1>1, <1>6
  <2> QED
    BY <1>1, <1>4, <1>14, <2>1 DEF Inv, Shape, Messages, Values
<1>16. Place(p)'
  <2>1. i'[p] \in 1 .. Len(oldPeers(p)) + 1
    BY <1>1, <1>6, <1>7
  <2> QED
    BY <1>1, <1>3, <2>1, OwnPlace
<1>17. NewContext(p)' /\ Known(p)'
  <2>1. Known(p)'
    BY <1>1, OwnKnown
  <2> QED
    BY <1>1, <2>1 DEF NewContext
<1>18. \A a \in Peers : a # p => Place(a)' /\ NewContext(a)' /\ Known(a)'
  BY <1>1, <1>6, <1>11, OthersCalling
<1>19. WhiteLists'
  <2>1. Lists(wl, Heard(p) \cap Chosen(round(p)))
    BY <1>1, <1>3, <1>13 DEF Inv, Calling, WhiteLists
  <2>2. Lists(whiteList'[p], (Heard(p) \cup {q}) \cap Chosen(round(p)))
    <3>1. CASE q \in Chosen(round(p))
      <4>1. /\ VAddrs(Append(wl, q)) = VAddrs(wl) \cup {q}
            /\ DOMAIN Append(wl, q) = 1 .. Len(wl) + 1 /\ DOMAIN wl = 1 .. Len(wl) /\ Len(wl) \in Nat
            /\ \A j \in 1 .. Len(wl) : Append(wl, q)[j] = wl[j]
            /\ Append(wl, q)[Len(wl) + 1] = q
        BY <1>3, AppendFacts
      <4>2. q \notin VAddrs(wl) /\ Injective(wl)
        BY <1>9, <2>1 DEF Lists
      <4>3. \A j \in DOMAIN wl : wl[j] # q
        BY <4>2 DEF VAddrs
      <4>4. Injective(Append(wl, q))
        BY <4>1, <4>2, <4>3 DEF Injective
      <4> QED
        BY <1>14, <2>1, <3>1, <4>1, <4>4 DEF Lists
    <3>2. CASE q \notin Chosen(round(p))
      BY <1>14, <2>1, <3>2 DEF Lists
    <3> QED
      BY <3>1, <3>2
  <2>3. Chosen(round(p))' = Chosen(round(p))
    BY <1>1, <1>7 DEF Chosen
  <2>4. (Heard(p) \cap Chosen(round(p)))' = (Heard(p) \cup {q}) \cap Chosen(round(p))
    BY <1>8, <2>3
  <2> QED
    BY <1>1, <1>3, <1>7, <2>2, <2>4 DEF WhiteLists, Lists, Injective, VAddrs, master
<1>20. Names'
  BY <1>1, <1>3, <1>7, <1>10 DEF Inv, Calling, Names, Rank, Slot, master
<1>21. FirstContext'
  BY <1>1 DEF Inv, Calling, FirstContext, Lists, Injective, VAddrs
<1> QED
  BY <1>12, <1>15, <1>16, <1>17, <1>18, <1>19, <1>20, <1>21 DEF Inv, Calling

-----------------------------------------------------------------------------
(* The steps that send                                                     *)

LEMMA InCall ==
  ASSUME Inv, NEW a \in Peers, NEW s \in Nat \ {0}, NEW k \in Kinds, Rank(s, k) <= Reached(a)
  PROVE  s \in 1 .. round(a)
<1>1. Rank(s, k) \in Nat /\ 6 * s + 1 <= Rank(s, k)
  BY Ranks
<1>2. Reached(a) \in Nat /\ round(a) \in Nat /\ Reached(a) <= 6 * round(a) + 6
  BY Bounds DEF Inv
<1> QED
  BY <1>1, <1>2

LEMMA CtxStays ==
  ASSUME Inv, UNCHANGED plan, \A n \in DOMAIN contextIds : contextIds'[n] = contextIds[n],
         NEW a \in Peers, NEW s \in 1 .. round(a)
  PROVE  Ctx(s)' = Ctx(s)
<1>1. plan.nested /\ s > 1 => plan.names[s - 1] \in DOMAIN contextIds
  BY CtxKnown
<1> QED
  BY <1>1 DEF Ctx

\* p moves on in its call, and sends what that means.
Advances(p, Q, ms) ==
    /\ SendTo(p, Q, ms)
    /\ UNCHANGED <<plan, inBox, contexts, wants, whiteList>>
    /\ \A n \in DOMAIN contextIds : contextIds'[n] = contextIds[n]
    /\ \A a \in Peers : a # p => Reached(a)' = Reached(a)
    /\ \A a \in Peers : \A b : a # p => Got(a, b)' = Got(a, b)
    /\ Reached(p)' \in Nat /\ Reached(p) <= Reached(p)'
    /\ \A b \in Peers : Got(p, b)' \in Nat /\ Got(p, b) <= Got(p, b)'
    /\ \A b \in Peers, s \in Nat \ {0}, l \in SplitKinds :
         Owes(b, p, s, l) /\ Rank(s, l) <= Got(p, b)' => Rank(s, l) <= Got(p, b)
    /\ Ascends(ms) /\ \A m \in VAddrs(ms) : Reached(p) < RankOf(m)
    /\ \A q \in Peers : q \in Q =>
         \A m \in VAddrs(ms) : SplitMessage(p, q, m)' \/ PeerMessage(p, q, m)'
    /\ \A b \in Peers, s \in Nat \ {0}, l \in SplitKinds :
         Owes(p, b, s, l) /\ Reached(p) < Rank(s, l) /\ Rank(s, l) <= Reached(p)'
           => b \in Q /\ \E m \in VAddrs(ms) : m.call = s /\ m.kind = l

LEMMA AdvanceStreams ==
  ASSUME Inv, NEW p \in Peers, NEW Q, NEW ms \in Seq(Messages), Advances(p, Q, ms)
  PROVE  Streams'
<1>1. /\ SendTo(p, Q, ms)
      /\ UNCHANGED <<plan, inBox, contexts, wants, whiteList>>
      /\ \A n \in DOMAIN contextIds : contextIds'[n] = contextIds[n]
      /\ \A q \in Peers : q \in Q =>
           \A m \in VAddrs(ms) : SplitMessage(p, q, m)' \/ PeerMessage(p, q, m)'
      /\ Ascends(ms) /\ \A m \in VAddrs(ms) : Reached(p) < RankOf(m)
  BY DEF Advances
<1>2. \A a, b, s, l : Owes(a, b, s, l)' <=> Owes(a, b, s, l)
  BY <1>1, SameOwes
<1>3. \A a \in Peers : Reached(a) \in Nat /\ Reached(a)' \in Nat /\ Reached(a) <= Reached(a)'
  <2>1. \A a \in Peers : Reached(a) \in Nat
    BY Bounds DEF Inv
  <2> QED
    BY <2>1 DEF Advances
<1>4. \A a, b \in Peers : Got(b, a) \in Nat /\ Got(b, a)' \in Nat /\ Got(b, a) <= Got(b, a)'
  <2>1. \A a, b \in Peers : Got(b, a) \in Nat
    BY Bounds DEF Inv
  <2> QED
    BY <2>1 DEF Advances
<1>5. ASSUME NEW a \in Peers, NEW b \in Peers, NEW s \in Nat \ {0}, NEW l \in SplitKinds,
             Owes(a, b, s, l), Rank(s, l) <= Got(b, a)'
      PROVE  Rank(s, l) <= Got(b, a)
  <2>1. CASE b # p
    BY <1>5, <2>1 DEF Advances
  <2>2. CASE b = p
    BY <1>5, <2>2 DEF Advances
  <2> QED
    BY <2>1, <2>2
<1>6. \A s \in Nat \ {0}, l \in SplitKinds : Rank(s, l) \in Nat /\ l \in Kinds
  BY Slots, Ranks
<1>7. ASSUME NEW a \in Peers, NEW b \in Peers, NEW m \in Messages, SplitMessage(a, b, m)
      PROVE  SplitMessage(a, b, m)'
  <2>1. PICK s \in Nat \ {0}, l \in SplitKinds : s = m.call /\ l = m.kind
    BY <1>7 DEF SplitMessage
  <2>2. /\ Owes(a, b, s, l) /\ Got(b, a) < Rank(s, l) /\ Rank(s, l) <= Reached(a)
        /\ Content(a, b, m)
    BY <1>7, <2>1 DEF SplitMessage, RankOf
  <2>3. s \in 1 .. round(a)
    BY <1>6, <2>2, InCall
  <2>4. Ctx(s)' = Ctx(s)
    BY <1>1, <2>3, CtxStays
  <2>5. l = "id" => contextIds'[plan.names[s]] = contextIds[plan.names[s]]
    <3>1. SUFFICES ASSUME l = "id" PROVE plan.names[s] \in DOMAIN contextIds
      BY <1>1
    <3>2. a = master
      BY <2>2, <3>1 DEF Owes
    <3> QED
      BY <2>2, <2>3, <3>1, <3>2 DEF Inv, Calling, Names
  <2>6. Content(a, b, m)'
    BY <1>1, <2>1, <2>2, <2>4, <2>5 DEF Content, master
  <2>7. Got(b, a)' < Rank(s, l) /\ Rank(s, l) <= Reached(a)'
    <3>1. PICK x \in Nat, g \in Nat, h \in Nat, y \in Nat, z \in Nat :
            /\ x = Rank(s, l) /\ g = Got(b, a) /\ h = Got(b, a)'
            /\ y = Reached(a) /\ z = Reached(a)'
      BY <1>3, <1>4, <1>6
    <3>2. ~(x <= h)
      <4>1. x <= h => x <= g
        BY <1>5, <2>2, <3>1
      <4>2. g < x
        BY <2>2, <3>1
      <4> QED
        BY <4>1, <4>2
    <3>3. x <= y /\ y <= z
      BY <1>3, <2>2, <3>1
    <3>4. h < x /\ x <= z
      BY <3>2, <3>3
    <3> QED
      BY <3>1, <3>4
  <2>8. Owes(a, b, s, l)'
    BY <1>2, <2>2
  <2> QED
    BY <2>1, <2>6, <2>7, <2>8 DEF SplitMessage, RankOf, Rank, Slot, SplitKinds, Kinds
<1>8. ASSUME NEW a \in Peers, NEW b \in Peers, NEW m \in Messages, PeerMessage(a, b, m)
      PROVE  PeerMessage(a, b, m)'
  <2>1. RankOf(m) \in Nat /\ RankOf(m) <= Reached(a)
    <3>1. m.call \in Nat /\ m.kind \in Kinds
      BY DEF Messages
    <3> QED
      BY <1>8, <3>1, Ranks DEF PeerMessage, RankOf
  <2>2. RankOf(m) <= Reached(a)'
    BY <1>3, <2>1
  <2> QED
    BY <1>1, <1>8, <2>2 DEF PeerMessage, RankOf, Rank, Slot
<1>9. ASSUME NEW a \in Peers, NEW b \in Peers, NEW s \in Nat \ {0}, NEW l \in SplitKinds,
             Owes(a, b, s, l)', Got(b, a)' < Rank(s, l), Rank(s, l) <= Reached(a)'
      PROVE  \/ /\ Owes(a, b, s, l) /\ Got(b, a) < Rank(s, l) /\ Rank(s, l) <= Reached(a)
                /\ Ctx(s)' = Ctx(s)
             \/ a = p /\ b \in Q /\ \E m \in VAddrs(ms) : m.call = s /\ m.kind = l
  <2>1. Owes(a, b, s, l) /\ Got(b, a) < Rank(s, l)
    <3>1. PICK x \in Nat, g \in Nat, h \in Nat :
            x = Rank(s, l) /\ g = Got(b, a) /\ h = Got(b, a)' /\ g <= h
      BY <1>4, <1>6
    <3>2. h < x
      BY <1>9, <3>1
    <3> QED
      BY <1>2, <1>9, <3>1, <3>2
  <2>2. CASE Rank(s, l) <= Reached(a)
    <3>1. s \in 1 .. round(a)
      BY <1>6, <2>2, InCall
    <3>2. Ctx(s)' = Ctx(s)
      BY <1>1, <3>1, CtxStays
    <3> QED
      BY <2>1, <2>2, <3>2
  <2>3. CASE ~(Rank(s, l) <= Reached(a))
    <3>1. a = p
      BY <1>9, <2>3 DEF Advances
    <3>2. Reached(a) < Rank(s, l)
      BY <1>3, <1>6, <2>3
    <3> QED
      BY <1>9, <2>1, <3>1, <3>2 DEF Advances
  <2> QED
    BY <2>2, <2>3
<1>10. Passed'
  <2>1. ASSUME NEW a \in Peers, NEW b \in Peers, NEW s \in Nat \ {0}, NEW l \in SplitKinds,
               Owes(a, b, s, l)', Rank(s, l) <= Got(b, a)'
        PROVE  Rank(s, l) <= Reached(a)'
    <3>1. Rank(s, l) <= Got(b, a) /\ Owes(a, b, s, l)
      BY <1>2, <1>5, <2>1
    <3>2. Rank(s, l) <= Reached(a)
      BY <3>1 DEF Inv, Streams, Passed
    <3> QED
      BY <1>3, <1>6, <3>2
  <2> QED
    BY <2>1 DEF Passed, Rank, Slot, SplitKinds, Kinds
<1>11. Sends(p, Q, ms)
  BY <1>1, <1>7, <1>8, <1>9, <1>10 DEF Sends
<1> QED
  BY <1>11, SendStreams

LEMMA OneMessage ==
  ASSUME NEW m \in Messages
  PROVE  <<m>> \in Seq(Messages) /\ VAddrs(<<m>>) = {m} /\ Ascends(<<m>>)
<1>1. <<m>> \in Seq(Messages) /\ DOMAIN <<m>> = 1 .. 1 /\ <<m>>[1] = m
  OBVIOUS
<1>2. DOMAIN <<m>> = {1}
  BY <1>1
<1> QED
  BY <1>1, <1>2 DEF VAddrs, Ascends

LEMMA NoSend ==
  ASSUME Shape, NEW p \in Peers, wire' = wire
  PROVE  SendTo(p, {}, <<>>)
<1>1. wire \in [Peers -> [Peers -> Seq(Messages)]]
  BY DEF Shape
<1>2. [q \in Peers |-> IF q \in {} THEN wire[p][q] \o <<>> ELSE wire[p][q]] = wire[p]
  BY <1>1
<1> QED
  BY <1>1, <1>2 DEF SendTo

\* What has not been sent, has not been received.
LEMMA NotYet ==
  ASSUME Inv, NEW p \in Peers, NEW q \in Peers, NEW r \in Nat \ {0}, NEW k \in SplitKinds,
         Owes(p, q, r, k), Reached(p) < Rank(r, k)
  PROVE  Got(q, p) < Rank(r, k)
<1>1. Rank(r, k) \in Nat /\ Got(q, p) \in Nat /\ Reached(p) \in Nat
  BY Slots, Ranks, Bounds DEF Inv
<1>2. ~(Rank(r, k) <= Got(q, p))
  <2>1. SUFFICES ASSUME Rank(r, k) <= Got(q, p) PROVE FALSE
    OBVIOUS
  <2>2. Rank(r, k) <= Reached(p)
    BY <2>1 DEF Inv, Streams, Passed
  <2> QED
    BY <1>1, <2>2
<1> QED
  BY <1>1, <1>2

\* At the end of a loop a peer has heard its whole group.
LEMMA HeardAll ==
  ASSUME Inv, NEW p \in Peers, pc[p] # "idle", i[p] > Len(oldPeers(p))
  PROVE  Heard(p) = Group(round(p))
<1>1. /\ Lists(oldPeers(p), Group(round(p))) /\ i[p] \in 1 .. Len(oldPeers(p)) + 1
      /\ oldPeers(p) \in Seq(Peers)
  BY DEF Inv, Calling, Place, Shape, oldPeers
<1>2. PICK x \in Nat : x = Len(oldPeers(p)) /\ i[p] = x + 1 /\ DOMAIN oldPeers(p) = 1 .. x
  BY <1>1
<1>3. (x + 1) - 1 = x
  BY <1>2
<1>4. Heard(p) = {oldPeers(p)[j] : j \in 1 .. x}
  BY <1>2, <1>3 DEF Heard
<1> QED
  BY <1>1, <1>2, <1>4 DEF Lists, VAddrs

\* The facts of Place about a peer inside a call.
LEMMA AtWork ==
  ASSUME Inv, NEW p \in Peers, pc[p] \notin {"idle", "thrown"}
  PROVE  /\ round(p) \in Nat \ {0} /\ round(p) \in 1 .. round(p)
         /\ {p, master} \subseteq Group(round(p))
         /\ old[p].id = Ctx(round(p)) /\ old[p].id \in IDs
         /\ Lists(oldPeers(p), Group(round(p)))
         /\ round(p) \in DOMAIN wants[p] /\ isMember(p) = wants[p][round(p)]
         /\ isMember(p) => p \in Chosen(round(p))
<1>1. round(p) # 0 /\ round(p) \in Nat
  BY Bounds DEF Inv, Calling, Place
<1>2. {p, master} \subseteq Group(round(p))
  BY <1>1, InGroups
<1>3. old[p].id = Ctx(round(p)) /\ Lists(oldPeers(p), Group(round(p)))
  BY <1>1 DEF Inv, Calling, Place
<1>4. old[p].id \in IDs
  BY DEF Inv, Shape
<1>5. DOMAIN wants[p] = 1 .. round(p)
  BY DEF Inv, Shape, round
<1> QED
  BY <1>1, <1>2, <1>3, <1>4, <1>5 DEF isMember, Chosen

LEMMA BarrierStep ==
  ASSUME Inv, NEW p \in Peers, Barrier(p)
  PROVE  Inv'
<1> DEFINE m0 == Msg("null", old[p].id, 0, round(p))
<1>1. /\ pc[p] = "barrier" /\ pc' = [pc EXCEPT ![p] = "await"] /\ i' = [i EXCEPT ![p] = 1]
      /\ SendTo(p, VAddrs(oldPeers(p)), <<m0>>)
      /\ UNCHANGED <<plan, contextIds, inBox, thrown, contexts, wants, result, old, whiteList,
                     newID, newSize>>
  BY DEF Barrier, answers, Goto
<1>2. PICK n \in Nat \ {0}, c \in IDs :
        /\ n = round(p) /\ c = old[p].id /\ c = Ctx(n) /\ n \in 1 .. round(p)
        /\ {p, master} \subseteq Group(n) /\ Lists(oldPeers(p), Group(n))
  BY <1>1, AtWork
<1>3. PICK m \in Messages :
        m = m0 /\ m.kind = "null" /\ m.context = c /\ m.value = 0 /\ m.call = n
  <2>1. 0 \in Values /\ "null" \in Kinds
    BY DEF Values, Kinds
  <2>2. m0 = [kind |-> "null", context |-> c, value |-> 0, call |-> n]
    BY <1>2 DEF Msg
  <2> QED
    BY <2>1, <2>2 DEF Messages
<1>4. RankOf(m) = 6 * n + 5 /\ Rank(n, "null") = 6 * n + 5
  BY <1>3, Ranks DEF RankOf
<1>5. <<m>> \in Seq(Messages) /\ VAddrs(<<m>>) = {m} /\ Ascends(<<m>>)
  BY OneMessage
<1>6. /\ pc'[p] = "await" /\ i'[p] = 1
      /\ \A a \in Peers : a # p => pc'[a] = pc[a] /\ i'[a] = i[a]
      /\ pc' \in [Peers -> {"idle", "collect", "recvID", "recvSize", "recvList", "barrier",
                            "await", "thrown"}]
      /\ i' \in [Peers -> Nat \ {0}]
  BY <1>1 DEF Inv, Shape
<1>7. VAddrs(oldPeers(p)) = Group(n)
  BY <1>2 DEF Lists
<1>8. SendTo(p, Group(n), <<m>>)
  BY <1>1, <1>3, <1>7
<1>9. /\ Reached(p) = 6 * n + 4 /\ Reached(p)' = 6 * n + 5
      /\ \A b : Got(p, b) = 6 * n + 4 /\ Got(p, b)' = 6 * n + 4
  <2>1. wants'[p] \in Seq(BOOLEAN) /\ round(p)' = n
    BY <1>1, <1>2 DEF Inv, Shape, round
  <2>2. Heard(p)' = {}
    BY <1>6 DEF Heard
  <2>3. Reached(p)' = 6 * n + 5 /\ \A b : Got(p, b)' = 6 * n + 4
    BY <1>6, <2>1, <2>2, LevelsAfter
  <2> QED
    BY <1>1, <1>2, <2>3, Levels DEF Inv
<1>10. \A a \in Peers : a # p => Reached(a)' = Reached(a) /\ \A b : Got(a, b)' = Got(a, b)
  BY <1>1, <1>6, OthersStay
<1>11. \A a, b, s, l : Owes(a, b, s, l)' <=> Owes(a, b, s, l)
  BY <1>1, SameOwes
<1>12. ASSUME NEW q \in Peers, q \in Group(n)
       PROVE  SplitMessage(p, q, m)'
  <2>1. Owes(p, q, n, "null")
    BY <1>2, <1>12 DEF Owes
  <2>2. Got(q, p) < 6 * n + 5
    BY <1>4, <1>9, <2>1, NotYet, Slots
  <2>3. Got(q, p)' = Got(q, p)
    BY <1>9, <1>10
  <2>4. Ctx(n)' = Ctx(n)
    BY <1>1, <1>2, CtxStays
  <2>5. Content(p, q, m)'
    BY <1>2, <1>3, <2>4 DEF Content
  <2>6. Owes(p, q, n, "null")'
    BY <1>11, <2>1
  <2>7. RankOf(m)' = RankOf(m)
    BY DEF RankOf, Rank, Slot
  <2>8. (Got(q, p) < RankOf(m) /\ RankOf(m) <= Reached(p))'
    BY <1>4, <1>9, <2>2, <2>3, <2>7
  <2> QED
    BY <1>3, <2>5, <2>6, <2>8, Slots DEF SplitMessage, SplitKinds, Kinds
<1>13. ASSUME NEW b \in Peers, NEW s \in Nat \ {0}, NEW l \in SplitKinds,
              Owes(p, b, s, l), Reached(p) < Rank(s, l), Rank(s, l) <= Reached(p)'
       PROVE  b \in Group(n) /\ m.call = s /\ m.kind = l
  <2>1. Rank(s, l) = Rank(n, "null") /\ l \in Kinds /\ "null" \in Kinds
    <3>1. l \in Kinds /\ "null" \in Kinds /\ Rank(s, l) \in Nat
      BY Slots, Ranks
    <3> QED
      BY <1>4, <1>9, <1>13, <3>1
  <2>2. s = n /\ l = "null"
    BY <2>1, SameRank
  <2> QED
    BY <1>3, <1>13, <2>2 DEF Owes
<1>14. Advances(p, Group(n), <<m>>)
  <2>1. UNCHANGED <<plan, inBox, contexts, wants, whiteList>>
        /\ \A d \in DOMAIN contextIds : contextIds'[d] = contextIds[d]
    BY <1>1
  <2>2. Reached(p)' \in Nat /\ Reached(p) <= Reached(p)'
        /\ \A b \in Peers : Got(p, b)' \in Nat /\ Got(p, b) <= Got(p, b)' /\ Got(p, b)' = Got(p, b)
    BY <1>9
  <2>3. \A x \in VAddrs(<<m>>) : Reached(p) < RankOf(x)
    BY <1>4, <1>5, <1>9
  <2>4. \A q \in Peers : q \in Group(n) =>
          \A x \in VAddrs(<<m>>) : SplitMessage(p, q, x)' \/ PeerMessage(p, q, x)'
    BY <1>5, <1>12
  <2> QED
    BY <1>5, <1>8, <1>10, <1>13, <2>1, <2>2, <2>3, <2>4 DEF Advances
<1>15. Streams'
  BY <1>5, <1>14, AdvanceStreams
<1>16. Shape'
  <2>1. wire' \in [Peers -> [Peers -> Seq(Messages)]]
    BY <1>5, <1>8, SendToMeans DEF Inv
  <2> QED
    BY <1>1, <1>6, <2>1 DEF Inv, Shape, Messages, Values
<1>17. Place(p)'
  <2>1. i'[p] \in 1 .. Len(oldPeers(p)) + 1
    BY <1>6 DEF Inv, Shape, oldPeers
  <2> QED
    BY <1>1, <1>6, <2>1, OwnPlace
<1>18. NewContext(p)' /\ Known(p)'
  <2>1. NewContext(p)
    BY DEF Inv, Calling
  <2>2. round(p)' = round(p) /\ Chosen(round(p))' = Chosen(round(p))
    BY <1>1 DEF Chosen, round
  <2>3. NewContext(p)'
    BY <1>1, <1>6, <2>1, <2>2 DEF NewContext, Lists, Injective, VAddrs
  <2>4. Known(p)'
    BY <1>1, OwnKnown
  <2> QED
    BY <2>3, <2>4
<1>19. \A a \in Peers : a # p => Place(a)' /\ NewContext(a)' /\ Known(a)'
  BY <1>1, <1>6, OthersCalling
<1>20. WhiteLists' /\ Names'
  BY <1>1, <1>6, MasterCalling, Constants
<1>21. FirstContext'
  BY <1>1 DEF Inv, Calling, FirstContext, Lists, Injective, VAddrs
<1> QED
  BY <1>15, <1>16, <1>17, <1>18, <1>19, <1>20, <1>21 DEF Inv, Calling

LEMMA ReturnStep ==
  ASSUME Inv, NEW p \in Peers, Return(p)
  PROVE  Inv'
<1>1. /\ pc[p] = "await" /\ i[p] > Len(oldPeers(p)) /\ pc' = [pc EXCEPT ![p] = "idle"]
      /\ UNCHANGED <<plan, contextIds, inBox, thrown, contexts, wants, old, i, whiteList, newID, newSize>>
      /\ \/ /\ isMember(p)
            /\ result' = [result EXCEPT ![p] = Append(@, newID[p])]
            /\ SendTo(p, VAddrs(contexts[p][newID[p]]), <<Msg("PEER", newID[p], 0, round(p))>>)
         \/ /\ ~isMember(p)
            /\ result' = [result EXCEPT ![p] = Append(@, -1)]
            /\ UNCHANGED wire
  BY DEF Return, Goto
<1>2. PICK n \in Nat \ {0} :
        /\ n = round(p) /\ n \in 1 .. round(p) /\ {p, master} \subseteq Group(n)
        /\ isMember(p) = wants[p][n] /\ (isMember(p) => p \in Chosen(n))
  BY <1>1, AtWork
<1>3. /\ pc'[p] = "idle" /\ \A a \in Peers : a # p => pc'[a] = pc[a]
      /\ pc' \in [Peers -> {"idle", "collect", "recvID", "recvSize", "recvList", "barrier",
                            "await", "thrown"}]
  BY <1>1 DEF Inv, Shape
<1>4. Heard(p) = Group(n)
  BY <1>1, <1>2, HeardAll
<1>5. /\ Reached(p) = 6 * n + 5 /\ Reached(p)' = 6 * n + 6
      /\ \A b : Got(p, b) = IF b \in Group(n) THEN 6 * n + 5 ELSE 6 * n + 4
      /\ \A b : Got(p, b)' = 6 * n + 5
  <2>1. wants'[p] \in Seq(BOOLEAN) /\ round(p)' = n
    BY <1>1, <1>2 DEF Inv, Shape, round
  <2>2. Reached(p)' = 6 * n + 6 /\ \A b : Got(p, b)' = 6 * n + 5
    BY <1>3, <2>1, LevelsAfter
  <2> QED
    BY <1>1, <1>2, <1>4, <2>2, Levels DEF Inv
<1>6. \A a \in Peers : a # p => Reached(a)' = Reached(a) /\ \A b : Got(a, b)' = Got(a, b)
  BY <1>1, <1>3, OthersStay
<1>7. PICK res \in IDs \cup {-1} :
        /\ result' = [result EXCEPT ![p] = Append(@, res)]
        /\ wants[p][n] => res = newID[p] /\ res = contextIds[plan.names[n]] /\ res \in IDs \ {0}
                          /\ Lists(contexts[p][res], Chosen(n))
                          /\ SendTo(p, Chosen(n), <<Msg("PEER", res, 0, n)>>)
        /\ ~wants[p][n] => res = -1 /\ UNCHANGED wire
  <2>1. CASE wants[p][n]
    <3>1. newID[p] = contextIds[plan.names[n]] /\ Lists(contexts[p][newID[p]], Chosen(n))
      BY <1>1, <1>2, <2>1 DEF Inv, Calling, NewContext
    <3>2. plan.names[n] \in DOMAIN contextIds
      BY <1>1, <1>2, <2>1, KnownName
    <3>3. newID[p] \in IDs \ {0}
      BY <3>1, <3>2, IdsTyped
    <3>4. VAddrs(contexts[p][newID[p]]) = Chosen(n)
      BY <3>1 DEF Lists
    <3>5. /\ result' = [result EXCEPT ![p] = Append(@, newID[p])]
          /\ SendTo(p, Chosen(n), <<Msg("PEER", newID[p], 0, n)>>)
      BY <1>1, <1>2, <2>1, <3>4
    <3> QED
      BY <2>1, <3>1, <3>3, <3>5
  <2>2. CASE ~wants[p][n]
    BY <1>1, <1>2, <2>2
  <2> QED
    BY <2>1, <2>2
<1>8. ASSUME NEW b \in Peers, NEW s \in Nat \ {0}, NEW l \in SplitKinds, Owes(b, p, s, l),
             Rank(s, l) <= Got(p, b)'
      PROVE  Rank(s, l) <= Got(p, b)
  <2>1. Rank(s, l) \in Nat /\ l \in Kinds /\ "null" \in Kinds /\ Rank(n, "null") = 6 * n + 5
    BY Slots, Ranks
  <2>2. CASE b \in Group(n)
    BY <1>5, <1>8, <2>2
  <2>3. CASE b \notin Group(n)
    <3>1. Rank(s, l) # 6 * n + 5
      <4>1. SUFFICES ASSUME Rank(s, l) = Rank(n, "null") PROVE FALSE
        BY <2>1
      <4>2. s = n
        BY <2>1, <4>1, SameRank
      <4> QED
        BY <1>8, <2>3, <4>2 DEF Owes
    <3> QED
      BY <1>5, <1>8, <2>1, <2>3, <3>1
  <2> QED
    BY <2>2, <2>3
<1>9. ASSUME NEW q \in Peers, q \in Chosen(n), wants[p][n]
      PROVE  contexts[q][res] # <<>>
  <2>1. n \in 1 .. round(q) /\ wants[q][n] /\ round(q) \in Nat
    <3>1. DOMAIN wants[q] = 1 .. round(q) /\ round(q) \in Nat
      BY DEF Inv, Shape, round
    <3> QED
      BY <1>9, <3>1 DEF Chosen
  <2>2. q \in Group(n)
    BY <2>1, InGroups
  <2>3. 6 * n + 5 <= Reached(q)
    <3>1. Owes(q, p, n, "null") /\ Rank(n, "null") = 6 * n + 5 /\ "null" \in SplitKinds
      BY <1>2, <2>2, Ranks, Slots DEF Owes
    <3>2. Rank(n, "null") <= Got(p, q)
      BY <1>5, <2>2, <3>1
    <3> QED
      BY <3>1, <3>2, Heard1
  <2>4. n < round(q) \/ pc[q] \in {"await", "idle"}
    <3>1. SUFFICES ASSUME round(q) = n PROVE pc[q] \in {"await", "idle"}
      BY <2>1
    <3>2. pc[q] \in {"idle", "collect", "recvID", "recvSize", "recvList", "barrier", "await", "thrown"}
      BY DEF Inv, Shape
    <3>3. /\ pc[q] = "thrown" => Reached(q) = 6 * n
          /\ pc[q] = "collect" => Reached(q) = 6 * n + 1
          /\ pc[q] \in {"recvID", "recvSize", "recvList", "barrier"} => Reached(q) = 6 * n + 4
      BY <3>1, Levels DEF Inv
    <3> QED
      BY <2>3, <3>2, <3>3
  <2>5. contexts[q][contextIds[plan.names[n]]] # <<>>
    BY <2>1, <2>4 DEF Inv, Calling, Known
  <2> QED
    BY <1>7, <1>9, <2>5
<1>10. \E Q \in SUBSET Peers, ms \in Seq(Messages) : Advances(p, Q, ms)
  <2>1. UNCHANGED <<plan, inBox, contexts, wants, whiteList>>
        /\ \A d \in DOMAIN contextIds : contextIds'[d] = contextIds[d]
    BY <1>1
  <2>2. Reached(p)' \in Nat /\ Reached(p) <= Reached(p)'
        /\ \A b \in Peers : Got(p, b)' \in Nat /\ Got(p, b) <= Got(p, b)'
    BY <1>5
  <2>3. ASSUME NEW b \in Peers, NEW s \in Nat \ {0}, NEW l \in SplitKinds,
               Owes(p, b, s, l), Reached(p) < Rank(s, l), Rank(s, l) <= Reached(p)'
        PROVE  FALSE
    <3>1. Rank(s, l) \in Nat /\ l \in Kinds /\ "PEER" \in Kinds /\ Rank(n, "PEER") = 6 * n + 6
      BY Slots, Ranks DEF Kinds
    <3>2. Rank(s, l) = Rank(n, "PEER")
      BY <1>5, <2>3, <3>1
    <3>3. l = "PEER"
      BY <3>1, <3>2, SameRank
    <3> QED
      BY <3>3, Slots
  <2>4. CASE wants[p][n]
    <3>1. PICK m \in Messages :
            m = Msg("PEER", res, 0, n) /\ m.kind = "PEER" /\ m.context = res /\ m.call = n
      <4>1. 0 \in Values /\ "PEER" \in Kinds
        BY DEF Values, Kinds
      <4> QED
        BY <1>7, <2>4, <4>1 DEF Msg, Messages
    <3>2. RankOf(m) = 6 * n + 6
      BY <3>1, Ranks DEF RankOf
    <3>3. <<m>> \in Seq(Messages) /\ VAddrs(<<m>>) = {m} /\ Ascends(<<m>>)
      BY OneMessage
    <3>4. SendTo(p, Chosen(n), <<m>>)
      BY <1>7, <2>4, <3>1
    <3>5. ASSUME NEW q \in Peers, q \in Chosen(n) PROVE PeerMessage(p, q, m)'
      <4>1. contexts'[q][res] # <<>>
        BY <1>1, <1>9, <2>4, <3>5
      <4>2. RankOf(m)' = RankOf(m)
        BY DEF RankOf, Rank, Slot
      <4>3. (RankOf(m) <= Reached(p))'
        BY <1>5, <3>2, <4>2
      <4> QED
        BY <1>7, <2>4, <3>1, <4>1, <4>3 DEF PeerMessage
    <3>6. \A x \in VAddrs(<<m>>) : Reached(p) < RankOf(x)
      BY <1>5, <3>2, <3>3
    <3>7. \A q \in Peers : q \in Chosen(n) =>
            \A x \in VAddrs(<<m>>) : SplitMessage(p, q, x)' \/ PeerMessage(p, q, x)'
      BY <3>3, <3>5
    <3>8. Advances(p, Chosen(n), <<m>>)
      BY <1>6, <1>8, <2>1, <2>2, <2>3, <3>3, <3>4, <3>6, <3>7 DEF Advances
    <3>9. Chosen(n) \in SUBSET Peers
      BY DEF Chosen
    <3> QED
      BY <3>3, <3>8, <3>9
  <2>5. CASE ~wants[p][n]
    <3>1. SendTo(p, {}, <<>>)
      BY <1>7, <2>5, NoSend DEF Inv
    <3>2. <<>> \in Seq(Messages) /\ VAddrs(<<>>) = {} /\ Ascends(<<>>)
      <4>1. DOMAIN <<>> = {} /\ <<>> \in Seq(Messages)
        OBVIOUS
      <4> QED
        BY <4>1 DEF VAddrs, Ascends
    <3>3. Advances(p, {}, <<>>)
      BY <1>6, <1>8, <2>1, <2>2, <2>3, <3>1, <3>2 DEF Advances
    <3> QED
      BY <3>2, <3>3
  <2> QED
    BY <2>4, <2>5
<1>11. PICK Q \in SUBSET Peers, ms \in Seq(Messages) : Advances(p, Q, ms)
  BY <1>10
<1>12. Streams'
  BY <1>11, AdvanceStreams
<1>13. PICK rs \in Seq(IDs \cup {-1}) : rs = result[p] /\ Len(rs) = n - 1
  BY <1>1, <1>2 DEF Inv, Shape, Calling, Place
<1>14. /\ result' \in [Peers -> Seq(IDs \cup {-1})]
       /\ Len(result'[p]) = Len(result[p]) + 1 /\ result'[p][n] = res
       /\ \A a \in Peers : a # p => result'[a] = result[a]
  <2>1. /\ Append(rs, res) \in Seq(IDs \cup {-1}) /\ Len(Append(rs, res)) = Len(rs) + 1
        /\ Append(rs, res)[Len(rs) + 1] = res
    OBVIOUS
  <2>2. Append(rs, res)[n] = res
    BY <1>2, <1>13, <2>1
  <2>3. result \in [Peers -> Seq(IDs \cup {-1})] /\ result' = [result EXCEPT ![p] = Append(rs, res)]
    BY <1>7, <1>13 DEF Inv, Shape
  <2> QED
    BY <1>13, <2>1, <2>2, <2>3
<1>15. Shape'
  <2>1. wire' \in [Peers -> [Peers -> Seq(Messages)]]
    BY <1>11, SendToMeans DEF Inv, Advances
  <2> QED
    BY <1>1, <1>3, <1>14, <2>1 DEF Inv, Shape, Messages, Values
<1>16. Place(p)'
  <2>1. i'[p] \in 1 .. Len(oldPeers(p)) + 1
    BY <1>1 DEF Inv, Calling, Place
  <2> QED
    BY <1>1, <1>3, <1>14, <2>1, OwnPlace
<1>17. NewContext(p)' /\ Known(p)'
  <2>1. round(p)' = n /\ Chosen(n)' = Chosen(n)
    BY <1>1, <1>2 DEF Chosen, round
  <2>3. NewContext(p)'
    <3>1. CASE wants[p][n]
      <4>1. Lists(contexts[p][contextIds[plan.names[round(p)]]], Chosen(round(p)))
        BY <1>2, <1>7, <3>1
      <4>2. Chosen(round(p))' = Chosen(round(p)) /\ round(p)' = round(p)
        BY <1>1 DEF Chosen, round
      <4>3. result'[p][round(p)] = contextIds[plan.names[round(p)]]
        BY <1>2, <1>7, <1>14, <3>1
      <4>4. (Lists(contexts[p][contextIds[plan.names[round(p)]]], Chosen(round(p))))'
        <5>1. PICK s, S : /\ s = contexts[p][contextIds[plan.names[round(p)]]] /\ S = Chosen(round(p))
                          /\ s = contexts'[p][contextIds'[plan'.names[round(p)']]] /\ S = Chosen(round(p))'
          BY <1>1, <4>2
        <5>2. Lists(s, S)
          BY <4>1, <5>1
        <5> QED
          BY <5>1, <5>2 DEF Lists, Injective, VAddrs
      <4>5. (result[p][round(p)] = contextIds[plan.names[round(p)]] /\ wants[p][round(p)])'
        BY <1>1, <1>2, <3>1, <4>2, <4>3
      <4> QED
        BY <1>3, <4>4, <4>5 DEF NewContext
    <3>2. CASE ~wants[p][n]
      BY <1>1, <1>3, <1>7, <1>14, <2>1, <3>2 DEF NewContext
    <3> QED
      BY <3>1, <3>2
  <2>4. Known(p)'
    BY <1>1, OwnKnown
  <2> QED
    BY <2>3, <2>4
<1>18. \A a \in Peers : a # p => Place(a)' /\ NewContext(a)' /\ Known(a)'
  BY <1>1, <1>3, <1>14, OthersCalling
<1>19. WhiteLists' /\ Names'
  BY <1>1, <1>3, MasterCalling, Constants
<1>20. FirstContext'
  BY <1>1 DEF Inv, Calling, FirstContext, Lists, Injective, VAddrs
<1> QED
  BY <1>12, <1>15, <1>16, <1>17, <1>18, <1>19, <1>20 DEF Inv, Calling

LEMMA ChosenIn ==
  ASSUME Inv, NEW n, NEW q \in Chosen(n)
  PROVE  /\ q \in Peers /\ n \in 1 .. round(q) /\ round(q) \in Nat /\ n \in Nat \ {0}
         /\ wants[q][n] /\ q \in Group(n)
<1>1. q \in Peers /\ n \in DOMAIN wants[q] /\ wants[q][n]
  BY DEF Chosen
<1>2. DOMAIN wants[q] = 1 .. round(q) /\ round(q) \in Nat
  BY <1>1 DEF Inv, Shape, round
<1>3. n \in 1 .. round(q)
  BY <1>1, <1>2
<1> QED
  BY <1>1, <1>2, <1>3, InGroups

LEMMA ThreeMessages ==
  ASSUME NEW a \in Messages, NEW b \in Messages, NEW c \in Messages,
         RankOf(a) \in Nat, RankOf(b) = RankOf(a) + 1, RankOf(c) = RankOf(a) + 2
  PROVE  /\ <<a, b, c>> \in Seq(Messages)
         /\ VAddrs(<<a, b, c>>) = {a, b, c}
         /\ Ascends(<<a, b, c>>)
<1> DEFINE s == <<a, b, c>>
<1>1. s \in Seq(Messages) /\ Len(s) = 3 /\ s[1] = a /\ s[2] = b /\ s[3] = c
  OBVIOUS
<1>2. DOMAIN s = {1, 2, 3}
  BY <1>1
<1> HIDE DEF s
<1>3. VAddrs(s) = {a, b, c}
  BY <1>1, <1>2 DEF VAddrs
<1>4. Ascends(s)
  <2>1. SUFFICES ASSUME NEW x \in {1, 2, 3}, NEW y \in {1, 2, 3}, x < y
                 PROVE  RankOf(s[x]) < RankOf(s[y])
    BY <1>2 DEF Ascends
  <2>2. (x = 1 /\ y = 2) \/ (x = 1 /\ y = 3) \/ (x = 2 /\ y = 3)
    BY <2>1
  <2>3. PICK z \in Nat : z = RankOf(a) /\ RankOf(b) = z + 1 /\ RankOf(c) = z + 2
    OBVIOUS
  <2>4. z < z + 1 /\ z < z + 2 /\ z + 1 < z + 2
    OBVIOUS
  <2> QED
    BY <1>1, <2>2, <2>3, <2>4
<1> QED
  BY <1>1, <1>3, <1>4 DEF s

\* The id of the name that the master has drawn.
LEMMA Registers ==
  ASSUME Inv, pc[master] = "collect", contextIds' = Registered(master)
  PROVE  /\ getContextID(master) \in IDs \ {0}
         /\ IsFiniteSet(DOMAIN contextIds')
         /\ DOMAIN contextIds' = DOMAIN contextIds \cup {plan.names[round(master)]}
         /\ contextIds'[plan.names[round(master)]] = getContextID(master)
         /\ \A n \in DOMAIN contextIds : contextIds'[n] = contextIds[n]
         /\ \A n \in DOMAIN contextIds' : contextIds'[n] \in 1 .. Cardinality(DOMAIN contextIds')
<1>1. master \in Peers
  BY Constants
<1>2. PICK d, g, D, k :
        /\ d = plan.names[round(master)] /\ g = getContextID(master)
        /\ D = DOMAIN contextIds /\ k = Cardinality(D) /\ k \in 0 .. round(master) - 1
  BY IdsTyped
<1>3. IsFiniteSet(D)
  BY <1>2 DEF Inv, Shape
<1>4. /\ round(master) \in Nat /\ round(master) # 0 /\ round(master) <= rounds /\ rounds \in 0 .. MaxRounds
      /\ MaxRounds \in Nat
  BY <1>1, Constants, Bounds, PlanType DEF Inv, Shape, Calling, Place
<1>5. k + 1 \in 1 .. MaxRounds
  BY <1>2, <1>4
<1>6. g = IF d \in D THEN contextIds[d] ELSE k + 1
  BY <1>2 DEF getContextID, drawn
<1>7. /\ contextIds' = [n \in D \cup {d} |-> IF n = d THEN g ELSE contextIds[n]]
      /\ DOMAIN contextIds' = D \cup {d} /\ contextIds'[d] = g
      /\ \A n \in D : n # d => contextIds'[n] = contextIds[n]
  BY <1>2 DEF Registered, drawn
<1>8. \A n \in D : contextIds'[n] = contextIds[n]
  BY <1>6, <1>7
<1>9. g \in IDs \ {0}
  <2>1. CASE d \in D
    BY <1>2, <1>6, <2>1, IdsTyped
  <2>2. CASE d \notin D
    <3>1. g \in 1 .. MaxRounds
      BY <1>5, <1>6, <2>2
    <3> QED
      BY <1>4, <3>1, Constants
  <2> QED
    BY <2>1, <2>2
<1>10. /\ IsFiniteSet(D \cup {d})
       /\ Cardinality(D \cup {d}) = IF d \in D THEN k ELSE k + 1
  BY <1>2, <1>3, FS_AddElement
<1>11. \A n \in D : contextIds[n] \in 1 .. k
  BY <1>2 DEF Inv, Calling, Names
<1>12. \A n \in D \cup {d} : contextIds'[n] \in 1 .. Cardinality(D \cup {d})
  <2>1. CASE d \in D
    <3>1. D \cup {d} = D
      BY <2>1
    <3> QED
      BY <1>2, <1>8, <1>11, <3>1
  <2>2. CASE d \notin D
    BY <1>2, <1>6, <1>7, <1>8, <1>10, <1>11, <2>2
  <2> QED
    BY <2>1, <2>2
<1> QED
  BY <1>2, <1>7, <1>8, <1>9, <1>10, <1>12

LEMMA DistributeStep ==
  ASSUME Inv, NEW p \in Peers, Distribute(p)
  PROVE  Inv'
<1>1. /\ pc[p] = "collect" /\ i[p] > Len(oldPeers(p))
      /\ SendTo(p, VAddrs(whiteList[p]),
                <<Msg("id", old[p].id, getContextID(p), round(p)),
                  Msg("size", old[p].id, Len(whiteList[p]), round(p)),
                  Msg("list", old[p].id, whiteList[p], round(p))>>)
      /\ contextIds' = Registered(p)
      /\ pc' = [pc EXCEPT ![p] = IF isMember(p) THEN "recvID" ELSE "barrier"]
      /\ UNCHANGED <<plan, inBox, thrown, contexts, wants, result, old, i, whiteList, newID, newSize>>
  BY DEF Distribute, answers, Goto
<1>2. p = master
  BY <1>1 DEF Inv, Calling, Place
<1>3. PICK n \in Nat \ {0}, c \in IDs :
        /\ n = round(p) /\ c = old[p].id /\ c = Ctx(n) /\ n \in 1 .. round(p)
        /\ {p, master} \subseteq Group(n) /\ isMember(p) = wants[p][n]
  BY <1>1, AtWork
<1>4. PICK wl, g, d :
        /\ wl = whiteList[p] /\ g = getContextID(p) /\ d = plan.names[n]
        /\ wl \in Seq(Peers) /\ g \in IDs \ {0}
        /\ DOMAIN contextIds' = DOMAIN contextIds \cup {d} /\ contextIds'[d] = g
  <2>1. whiteList[p] \in Seq(Peers)
    BY DEF Inv, Shape
  <2> QED
    BY <1>1, <1>2, <1>3, <2>1, Registers
<1>5. /\ IsFiniteSet(DOMAIN contextIds')
      /\ \A x \in DOMAIN contextIds : contextIds'[x] = contextIds[x]
      /\ \A x \in DOMAIN contextIds' : contextIds'[x] \in 1 .. Cardinality(DOMAIN contextIds')
  BY <1>1, <1>2, Registers
<1>6. /\ pc'[p] = IF wants[p][n] THEN "recvID" ELSE "barrier"
      /\ \A a \in Peers : a # p => pc'[a] = pc[a]
      /\ pc' \in [Peers -> {"idle", "collect", "recvID", "recvSize", "recvList", "barrier",
                            "await", "thrown"}]
  BY <1>1, <1>3 DEF Inv, Shape
\* Everyone has been heard, so the list is complete.
<1>7. Lists(wl, Chosen(n))
  <2>1. Lists(wl, Heard(p) \cap Chosen(n))
    BY <1>1, <1>2, <1>3, <1>4 DEF Inv, Calling, WhiteLists
  <2>2. Heard(p) = Group(n)
    BY <1>1, <1>3, HeardAll
  <2>3. Chosen(n) \subseteq Group(n)
    BY ChosenIn
  <2>4. Heard(p) \cap Chosen(n) = Chosen(n)
    BY <2>2, <2>3
  <2> QED
    BY <2>1, <2>4
<1>8. PICK m1 \in Messages, m2 \in Messages, m3 \in Messages :
        /\ m1 = Msg("id", c, g, n) /\ m2 = Msg("size", c, Len(wl), n) /\ m3 = Msg("list", c, wl, n)
        /\ m1.kind = "id" /\ m1.context = c /\ m1.value = g /\ m1.call = n
        /\ m2.kind = "size" /\ m2.context = c /\ m2.value = Len(wl) /\ m2.call = n
        /\ m3.kind = "list" /\ m3.context = c /\ m3.value = wl /\ m3.call = n
  <2>1. g \in Values /\ Len(wl) \in Values /\ wl \in Values
    BY <1>4, Constants DEF Values
  <2>2. "id" \in Kinds /\ "size" \in Kinds /\ "list" \in Kinds
    BY DEF Kinds
  <2>3. Msg("id", c, g, n) \in Messages
    BY <2>1, <2>2 DEF Msg, Messages
  <2>4. Msg("size", c, Len(wl), n) \in Messages
    BY <2>1, <2>2 DEF Msg, Messages
  <2>5. Msg("list", c, wl, n) \in Messages
    BY <2>1, <2>2 DEF Msg, Messages
  <2> QED
    BY <2>3, <2>4, <2>5 DEF Msg
<1>9. /\ RankOf(m1) = 6 * n + 2 /\ RankOf(m2) = 6 * n + 3 /\ RankOf(m3) = 6 * n + 4
      /\ Rank(n, "id") = 6 * n + 2 /\ Rank(n, "size") = 6 * n + 3 /\ Rank(n, "list") = 6 * n + 4
  BY <1>8, Ranks DEF RankOf
<1> DEFINE ms == <<m1, m2, m3>>
<1>10. ms \in Seq(Messages) /\ VAddrs(ms) = {m1, m2, m3} /\ Ascends(ms)
  BY <1>9, ThreeMessages
<1>11. SendTo(p, Chosen(n), ms)
  <2>1. VAddrs(wl) = Chosen(n)
    BY <1>7 DEF Lists
  <2> QED
    BY <1>1, <1>3, <1>4, <1>8, <2>1
<1> HIDE DEF ms
<1>12. /\ Reached(p) = 6 * n + 1 /\ Reached(p)' = 6 * n + 4
       /\ \A b \in Peers : Got(p, b) = IF b \in Group(n) THEN 6 * n + 1 ELSE 6 * n
       /\ \A b \in Peers : Got(p, b)' = IF wants[p][n] THEN 6 * n + 1 ELSE 6 * n + 4
  <2>1. wants'[p] \in Seq(BOOLEAN) /\ round(p)' = n
    BY <1>1, <1>3 DEF Inv, Shape, round
  <2>2. Heard(p) = Group(n)
    BY <1>1, <1>3, HeardAll
  <2>3. Reached(p)' = 6 * n + 4
    BY <1>6, <2>1, LevelsAfter
  <2>4. \A b \in Peers : Got(p, b)' = IF wants[p][n] THEN 6 * n + 1 ELSE 6 * n + 4
    <3>1. CASE wants[p][n]
      BY <1>6, <2>1, <3>1, LevelsAfter
    <3>2. CASE ~wants[p][n]
      BY <1>6, <2>1, <3>2, LevelsAfter
    <3> QED
      BY <3>1, <3>2
  <2> QED
    BY <1>1, <1>3, <2>2, <2>3, <2>4, Levels DEF Inv
<1>13. \A a \in Peers : a # p => Reached(a)' = Reached(a) /\ \A b : Got(a, b)' = Got(a, b)
  BY <1>1, <1>6, OthersStay
<1>14. \A a, b, s, l : Owes(a, b, s, l)' <=> Owes(a, b, s, l)
  BY <1>1, SameOwes
\* A master that is no member has nothing to get from itself.
<1>15. ASSUME NEW b \in Peers, NEW s \in Nat \ {0}, NEW l \in SplitKinds, Owes(b, p, s, l),
              Rank(s, l) <= Got(p, b)'
       PROVE  Rank(s, l) <= Got(p, b)
  <2>1. Rank(s, l) \in Nat /\ l \in Kinds
    BY Slots, Ranks
  <2>2. SUFFICES ASSUME ~(Rank(s, l) <= Got(p, b)) PROVE FALSE
    OBVIOUS
  <2>3. 6 * n < Rank(s, l) /\ Rank(s, l) <= 6 * n + 4
    BY <1>12, <1>15, <2>1, <2>2
  <2>4. s = n /\ l \in {"member", "id", "size", "list"}
    <3>1. Rank(n, "member") = 6 * n + 1
      BY Ranks
    <3>2. Rank(s, l) = Rank(n, "member") \/ Rank(s, l) = Rank(n, "id") \/ Rank(s, l) = Rank(n, "size")
          \/ Rank(s, l) = Rank(n, "list")
      BY <1>9, <2>1, <2>3, <3>1
    <3>3. {"member", "id", "size", "list"} \subseteq Kinds
      BY DEF Kinds
    <3> QED
      BY <2>1, <3>2, <3>3, SameRank
  <2>5. CASE l = "member"
    <3>1. b \in Group(n) /\ Rank(s, l) = 6 * n + 1
      BY <1>15, <2>4, <2>5, Ranks DEF Owes
    <3> QED
      BY <1>12, <2>2, <3>1
  <2>6. CASE l \in {"id", "size", "list"}
    <3>1. p \in Chosen(n) /\ b = master
      BY <1>15, <2>4, <2>6 DEF Owes
    <3>2. wants[p][n]
      BY <3>1 DEF Chosen
    <3>3. Got(p, b)' = 6 * n + 1 /\ Got(p, b) = 6 * n + 1
      BY <1>2, <1>3, <1>12, <3>1, <3>2
    <3> QED
      BY <1>15, <2>2, <3>3
  <2> QED
    BY <2>4, <2>5, <2>6
<1>16. ASSUME NEW q \in Peers, q \in Chosen(n), NEW m \in {m1, m2, m3}
       PROVE  SplitMessage(p, q, m)'
  <2>1. PICK k \in {"id", "size", "list"} : m.kind = k /\ m.call = n /\ RankOf(m) = Rank(n, k)
    BY <1>8, <1>9
  <2>2. q \in Group(n)
    BY <1>16, ChosenIn
  <2>3. Owes(p, q, n, k)
    BY <1>2, <1>3, <1>16, <2>2 DEF Owes
  <2>4. Rank(n, k) \in 6 * n + 2 .. 6 * n + 4
    BY <1>9, <2>1
  <2>5. Got(q, p)' < Rank(n, k)
    <3>1. CASE q = p
      <4>1. wants[p][n]
        BY <1>16, <3>1 DEF Chosen
      <4> QED
        BY <1>12, <2>4, <3>1, <4>1
    <3>2. CASE q # p
      <4>1. Got(q, p) < Rank(n, k)
        BY <1>12, <2>3, <2>4, NotYet, Slots
      <4> QED
        BY <1>13, <3>2, <4>1
    <3> QED
      BY <3>1, <3>2
  <2>6. Ctx(n)' = Ctx(n)
    BY <1>1, <1>3, <1>5, CtxStays
  <2>7. Content(p, q, m)'
    <3>1. m.context = Ctx(n)'
      BY <1>3, <1>8, <2>6
    <3>2. /\ k = "id" => m.value = contextIds'[plan'.names[n]]
          /\ k = "size" => m.value = Len(whiteList'[master])
          /\ k = "list" => m.value = whiteList'[master]
      <4>1. k = "id" => m = m1
        BY <1>8, <2>1
      <4>2. k = "size" => m = m2
        BY <1>8, <2>1
      <4>3. k = "list" => m = m3
        BY <1>8, <2>1
      <4> QED
        BY <1>1, <1>2, <1>4, <1>8, <4>1, <4>2, <4>3
    <3> QED
      BY <2>1, <3>1, <3>2 DEF Content, master
  <2>8. Owes(p, q, n, k)'
    BY <1>14, <2>3
  <2>9. RankOf(m)' = RankOf(m)
    BY DEF RankOf, Rank, Slot
  <2>10. (Got(q, p) < RankOf(m) /\ RankOf(m) <= Reached(p))'
    BY <1>12, <2>1, <2>4, <2>5, <2>9
  <2> QED
    BY <2>1, <2>7, <2>8, <2>10, Slots DEF SplitMessage, SplitKinds, Kinds
<1>17. ASSUME NEW b \in Peers, NEW s \in Nat \ {0}, NEW l \in SplitKinds,
              Owes(p, b, s, l), Reached(p) < Rank(s, l), Rank(s, l) <= Reached(p)'
       PROVE  b \in Chosen(n) /\ \E m \in {m1, m2, m3} : m.call = s /\ m.kind = l
  <2>1. l \in Kinds /\ {"id", "size", "list"} \subseteq Kinds /\ Rank(s, l) \in Nat
    BY Slots, Ranks DEF Kinds
  <2>2. Rank(s, l) = Rank(n, "id") \/ Rank(s, l) = Rank(n, "size") \/ Rank(s, l) = Rank(n, "list")
    BY <1>9, <1>12, <1>17, <2>1
  <2>3. s = n /\ l \in {"id", "size", "list"}
    BY <2>1, <2>2, SameRank
  <2> QED
    BY <1>8, <1>17, <2>3 DEF Owes
<1>18. Advances(p, Chosen(n), ms)
  <2>1. UNCHANGED <<plan, inBox, contexts, wants, whiteList>>
    BY <1>1
  <2>2. Reached(p)' \in Nat /\ Reached(p) <= Reached(p)'
        /\ \A b \in Peers : Got(p, b)' \in Nat /\ Got(p, b) <= Got(p, b)'
    BY <1>12
  <2>3. \A x \in VAddrs(ms) : Reached(p) < RankOf(x)
    BY <1>9, <1>10, <1>12
  <2>4. \A q \in Peers : q \in Chosen(n) =>
          \A x \in VAddrs(ms) : SplitMessage(p, q, x)' \/ PeerMessage(p, q, x)'
    BY <1>10, <1>16
  <2>5. \A b \in Peers, s \in Nat \ {0}, l \in SplitKinds :
          Owes(p, b, s, l) /\ Reached(p) < Rank(s, l) /\ Rank(s, l) <= Reached(p)'
            => b \in Chosen(n) /\ \E m \in VAddrs(ms) : m.call = s /\ m.kind = l
    BY <1>10, <1>17
  <2> QED
    BY <1>5, <1>10, <1>11, <1>13, <1>15, <2>1, <2>2, <2>3, <2>4, <2>5 DEF Advances
<1>19. Streams'
  BY <1>10, <1>18, AdvanceStreams
<1>20. Shape'
  <2>1. wire' \in [Peers -> [Peers -> Seq(Messages)]]
    BY <1>10, <1>11, SendToMeans DEF Inv
  <2> QED
    BY <1>1, <1>5, <1>6, <2>1 DEF Inv, Shape, Messages, Values
<1>21. Place(p)'
  <2>1. i'[p] \in 1 .. Len(oldPeers(p)) + 1
    BY <1>1 DEF Inv, Calling, Place
  <2>2. pc'[p] \in {"recvID", "barrier"} /\ (pc'[p] = "recvID" => wants[p][round(p)])
    BY <1>3, <1>6
  <2> QED
    BY <1>1, <1>5, <2>1, <2>2, OwnPlace
<1>22. NewContext(p)' /\ Known(p)'
  <2>1. round(p)' = n
    BY <1>1, <1>3 DEF round
  <2>2. pc'[p] = "recvID" \/ (pc'[p] = "barrier" /\ ~wants[p][n])
    BY <1>6
  <2>3. NewContext(p)'
    BY <1>1, <2>1, <2>2 DEF NewContext
  <2>4. Known(p)'
    BY <1>1, <1>3, <1>5, <2>2, OwnKnown
  <2> QED
    BY <2>3, <2>4
<1>23. \A a \in Peers : a # p => Place(a)' /\ NewContext(a)' /\ Known(a)'
  BY <1>1, <1>5, <1>6, OthersCalling
<1>24. WhiteLists'
  <2>1. round(p)' = round(p) /\ Chosen(round(p))' = Chosen(round(p))
    BY <1>1 DEF Chosen, round
  <2>2. pc'[p] # "collect"
    BY <1>6
  <2>3. Lists(whiteList'[p], Chosen(round(p)))
    BY <1>1, <1>3, <1>4, <1>7
  <2>4. (Lists(whiteList[p], Chosen(round(p))))'
    <3>1. PICK s, S : /\ s = whiteList'[p] /\ S = Chosen(round(p)) /\ S = Chosen(round(p))'
      BY <2>1
    <3> QED
      BY <2>3, <3>1 DEF Lists, Injective, VAddrs
  <2> QED
    BY <1>2, <2>2, <2>4 DEF WhiteLists, Lists, Injective, VAddrs, master
<1>25. Names'
  <2>1. round(p)' = n /\ pc'[p] \notin {"collect", "thrown"}
    BY <1>1, <1>3, <1>6 DEF round
  <2>2. DOMAIN contextIds \subseteq {plan.names[r] : r \in 1 .. n - 1}
    BY <1>1, <1>2, <1>3 DEF Inv, Calling, Names
  <2>3. DOMAIN contextIds' \subseteq {plan.names[r] : r \in 1 .. n}
    <3>1. d \in {plan.names[r] : r \in 1 .. n}
      BY <1>4
    <3>2. {plan.names[r] : r \in 1 .. n - 1} \subseteq {plan.names[r] : r \in 1 .. n}
      OBVIOUS
    <3> QED
      BY <1>4, <2>2, <3>1, <3>2
  <2>4. ASSUME NEW r \in 1 .. n PROVE plan.names[r] \in DOMAIN contextIds'
    <3>1. CASE r = n
      BY <1>4, <3>1
    <3>2. CASE r < n
      <4>1. Rank(r, "id") = 6 * r + 2
        BY Ranks
      <4>2. Rank(r, "id") <= Reached(master)
        BY <1>2, <1>12, <3>2, <4>1
      <4>3. r \in 1 .. round(master)
        BY <1>2, <1>3
      <4>4. plan.names[r] \in DOMAIN contextIds
        BY <4>2, <4>3 DEF Inv, Calling, Names
      <4> QED
        BY <1>4, <4>4
    <3> QED
      BY <3>1, <3>2
  <2> QED
    BY <1>1, <1>2, <1>5, <2>1, <2>3, <2>4 DEF Names, master
<1>26. FirstContext'
  BY <1>1 DEF Inv, Calling, FirstContext, Lists, Injective, VAddrs
<1> QED
  BY <1>19, <1>20, <1>21, <1>22, <1>23, <1>24, <1>25, <1>26 DEF Inv, Calling

-----------------------------------------------------------------------------
(* A call                                                                  *)

\* Nobody is ahead of a peer that has not begun its next call n.
LEMMA NotAhead ==
  ASSUME Inv, NEW p \in Peers, NEW n \in Nat \ {0}, n = round(p) + 1, p \in Group(n)
  PROVE  /\ \A q \in Peers : round(q) <= n
         /\ Reached(master) < 6 * n + 2
         /\ round(master) = n /\ pc[master] # "thrown" => pc[master] = "collect" /\ p \notin Heard(master)
         /\ \A q \in Peers : round(q) = n /\ wants[q][n] => pc[q] \notin {"barrier", "await", "idle"}
<1>1. \A q \in Peers : round(q) \in Nat /\ Reached(q) \in Nat /\ Reached(q) <= 6 * round(q) + 6
  BY Bounds DEF Inv
<1>2. ASSUME NEW q \in Peers PROVE round(q) <= n
  <2>1. SUFFICES ASSUME n < round(q) PROVE FALSE
    BY <1>1
  <2>2. n <= round(p)
    BY <2>1, Settled
  <2> QED
    BY <1>1, <2>2
<1>3. round(master) = n /\ pc[master] # "thrown" => pc[master] = "collect" /\ p \notin Heard(master)
  <2>1. SUFFICES ASSUME round(master) = n, pc[master] # "thrown",
                        pc[master] # "collect" \/ p \in Heard(master)
                 PROVE  FALSE
    OBVIOUS
  <2>2. pc[master] \in {"idle", "collect", "recvID", "recvSize", "recvList", "barrier", "await", "thrown"}
        /\ master \in Peers
    BY Constants DEF Inv, Shape
  <2>3. 6 * n + 1 <= Got(master, p)
    BY <2>1, <2>2, Levels DEF Inv
  <2>4. master \in Group(n)
    BY <2>1, <2>2, InGroups
  <2>5. Owes(p, master, n, "member") /\ Rank(n, "member") = 6 * n + 1 /\ "member" \in SplitKinds
    BY <2>4, Ranks, Slots DEF Owes
  <2>6. n <= round(p)
    BY <2>2, <2>3, <2>5, Heard1
  <2> QED
    BY <1>1, <2>6
<1>4. Reached(master) < 6 * n + 2
  <2>1. master \in Peers
    BY Constants
  <2>2. CASE round(master) < n
    <3>1. round(master) + 1 <= n
      BY <1>1, <2>1, <2>2
    <3> QED
      BY <1>1, <2>1, <3>1
  <2>3. CASE round(master) = n
    <3>1. Reached(master) = 6 * n \/ Reached(master) = 6 * n + 1
      BY <1>3, <2>1, <2>3, Levels DEF Inv
    <3> QED
      BY <3>1
  <2> QED
    BY <1>1, <1>2, <2>1, <2>2, <2>3
<1>5. ASSUME NEW q \in Peers, round(q) = n, wants[q][n], pc[q] \in {"barrier", "await", "idle"}
      PROVE  FALSE
  <2>1. n \in 1 .. round(q) /\ q \in Chosen(n)
    <3>1. DOMAIN wants[q] = 1 .. round(q)
      BY DEF Inv, Shape, round
    <3> QED
      BY <1>5, <3>1 DEF Chosen
  <2>2. Rank(n, "list") = 6 * n + 4 /\ 6 * n + 4 <= Got(q, master)
    <3>1. Rank(n, "list") = 6 * n + 4
      BY Ranks
    <3>2. /\ pc[q] = "barrier" => Got(q, master) = 6 * n + 4
          /\ pc[q] = "await" => \/ Got(q, master) = 6 * n + 5
                               \/ Got(q, master) = 6 * n + 4
          /\ pc[q] = "idle" => Got(q, master) = 6 * n + 5
      BY <1>5, Levels DEF Inv
    <3>3. 6 * n + 4 <= Got(q, master)
      <4>1. n \in Nat
        OBVIOUS
      <4> QED
        BY <1>5, <3>2, <4>1
    <3> QED
      BY <3>1, <3>3
  <2>3. Rank(n, "list") <= Reached(master)
    BY <1>5, <2>1, <2>2, FromMaster
  <2> QED
    BY <1>1, <1>4, <2>2, <2>3, Constants
<1> QED
  BY <1>2, <1>3, <1>4, <1>5

\* The context that a call is on.
LEMMA CalledOn ==
  ASSUME Inv, NEW p \in Peers, pc[p] = "idle", p < plan.peers, Len(result[p]) < rounds,
         Splits(p) # -1
  PROVE  /\ Len(result[p]) = round(p) /\ round(p) \in Nat /\ round(p) + 1 <= rounds
         /\ Splits(p) = Ctx(round(p) + 1) /\ Splits(p) \in IDs
         /\ Lists(contexts[p][Splits(p)], Group(round(p) + 1))
         /\ p \in Group(round(p) + 1)
         /\ \A r \in 1 .. round(p) : master \in Group(r) /\ (plan.nested => wants[p][r])
<1>1. /\ round(p) \in Nat /\ Len(result[p]) = round(p)
      /\ \A r \in 1 .. round(p) - 1 : master \in Group(r) /\ (plan.nested => wants[p][r])
      /\ round(p) # 0 => master \in Group(round(p))
      /\ rounds \in Nat
  BY Bounds, PlanType DEF Inv, Calling, Place, Shape
<1>2. PICK n \in Nat \ {0} : n = round(p) + 1 /\ n - 1 = round(p) /\ (n > 1 <=> round(p) # 0)
  BY <1>1
<1>3. n <= rounds
  BY <1>1, <1>2
<1>4. result[p] \in Seq(IDs \cup {-1}) /\ DOMAIN wants[p] = 1 .. round(p)
  BY DEF Inv, Shape, round
<1>5. CASE plan.nested /\ n > 1
  <2>1. result[p] # <<>> /\ Splits(p) = result[p][round(p)]
    BY <1>1, <1>2, <1>4, <1>5 DEF Splits
  <2>2. wants[p][round(p)]
    BY <1>2, <1>5, <2>1 DEF Inv, Calling, NewContext
  <2>3. PICK id : /\ id = contextIds[plan.names[round(p)]] /\ result[p][round(p)] = id
                  /\ Lists(contexts[p][id], Chosen(round(p)))
    BY <1>2, <1>5, <2>2 DEF Inv, Calling, NewContext
  <2>4. id = Ctx(n) /\ id \in IDs
    <3>1. plan.names[round(p)] \in DOMAIN contextIds
      BY <1>1, <1>2, <1>5, <2>2, KnownName
    <3> QED
      BY <1>2, <1>5, <2>3, <3>1, IdsTyped DEF Ctx
  <2>5. Group(n) = Chosen(round(p))
    <3>1. Group(n) = {q \in Peers : q < plan.peers /\ q \in Chosen(round(p))}
      BY <1>2, <1>5 DEF Group, Chosen
    <3>2. \A q \in Chosen(round(p)) : q \in Peers /\ q < plan.peers
      <4>1. SUFFICES ASSUME NEW q \in Chosen(round(p)) PROVE q \in Peers /\ q < plan.peers
        OBVIOUS
      <4>2. q \in Peers /\ round(q) # 0
        BY ChosenIn
      <4> QED
        BY <4>2 DEF Inv, Calling, Place
    <3> QED
      BY <3>1, <3>2
  <2>6. p \in Group(n)
    <3>1. round(p) \in DOMAIN wants[p]
      BY <1>1, <1>2, <1>4, <1>5
    <3> QED
      BY <2>2, <2>5, <3>1 DEF Chosen
  <2>7. ASSUME NEW r \in 1 .. round(p) PROVE master \in Group(r) /\ wants[p][r]
    <3>1. r \in 1 .. round(p) - 1 \/ r = round(p)
      BY <1>1
    <3> QED
      BY <1>1, <1>2, <1>5, <2>2, <3>1
  <2> QED
    BY <1>1, <1>2, <1>3, <2>1, <2>3, <2>4, <2>5, <2>6, <2>7
<1>6. CASE ~(plan.nested /\ n > 1)
  <2>1. Splits(p) = 0 /\ Ctx(n) = 0
    <3>1. round(p) = 0 => result[p] = <<>>
      BY <1>1, <1>4
    <3> QED
      BY <1>2, <1>6, <3>1 DEF Splits, Ctx
  <2>2. Group(n) = {q \in Peers : q < plan.peers}
    BY <1>6 DEF Group
  <2>3. Lists(contexts[p][0], Group(n))
    BY <2>2 DEF Inv, Calling, FirstContext
  <2>4. ASSUME NEW r \in 1 .. round(p) PROVE master \in Group(r) /\ (plan.nested => wants[p][r])
    <3>1. r \in 1 .. round(p) - 1 \/ r = round(p)
      BY <1>1
    <3> QED
      BY <1>1, <1>2, <1>6, <3>1
  <2> QED
    BY <1>1, <1>2, <1>3, <2>1, <2>2, <2>3, <2>4, Constants
<1> QED
  BY <1>5, <1>6

\* What is wanted in one call does not change who is chosen in another.
LEMMA ChosenStays ==
  ASSUME Inv, NEW p \in Peers, NEW n \in Nat \ {0}, n = round(p) + 1, NEW member \in BOOLEAN,
         wants' = [wants EXCEPT ![p] = Append(@, member)], NEW r, r # n
  PROVE  Chosen(r)' = Chosen(r)
<1>1. PICK ws \in Seq(BOOLEAN) : ws = wants[p] /\ Len(ws) = round(p) /\ DOMAIN ws = 1 .. round(p)
  BY DEF Inv, Shape, round
<1>2. round(p) \in Nat /\ 1 .. n = 1 .. round(p) \cup {n}
  BY <1>1
<1>3. /\ Append(ws, member) \in Seq(BOOLEAN) /\ DOMAIN Append(ws, member) = 1 .. n
      /\ \A k \in 1 .. round(p) : Append(ws, member)[k] = ws[k]
  BY <1>1, <1>2, AppendProperties
<1>4. wants \in [Peers -> Seq(BOOLEAN)] /\ wants' = [wants EXCEPT ![p] = Append(ws, member)]
  BY <1>1 DEF Inv, Shape
<1>5. wants'[p] = Append(ws, member) /\ \A a \in Peers : a # p => wants'[a] = wants[a]
  BY <1>3, <1>4
<1>6. \A q \in Peers : (r \in DOMAIN wants'[q] /\ wants'[q][r]) <=> (r \in DOMAIN wants[q] /\ wants[q][r])
  BY <1>1, <1>2, <1>3, <1>5
<1> QED
  BY <1>6 DEF Chosen

\* The groups after a call.
LEMMA CallGroups ==
  ASSUME Inv, NEW p \in Peers, NEW n \in Nat \ {0}, n = round(p) + 1, NEW member \in BOOLEAN,
         wants' = [wants EXCEPT ![p] = Append(@, member)], UNCHANGED plan
  PROVE  /\ wants' \in [Peers -> Seq(BOOLEAN)]
         /\ DOMAIN wants'[p] = 1 .. n /\ Len(wants'[p]) = n /\ wants'[p][n] = member
         /\ \A r \in 1 .. round(p) : wants'[p][r] = wants[p][r]
         /\ \A a \in Peers : a # p => wants'[a] = wants[a]
         /\ \A r \in 1 .. n : Group(r)' = Group(r)
         /\ Chosen(n)' = IF member THEN Chosen(n) \cup {p} ELSE Chosen(n)
         /\ p \notin Chosen(n)
<1>1. PICK ws \in Seq(BOOLEAN) : ws = wants[p] /\ Len(ws) = round(p) /\ DOMAIN ws = 1 .. round(p)
  BY DEF Inv, Shape, round
<1>2. round(p) \in Nat /\ n \notin 1 .. round(p) /\ 1 .. n = 1 .. round(p) \cup {n}
  BY <1>1
<1>3. /\ Append(ws, member) \in Seq(BOOLEAN) /\ DOMAIN Append(ws, member) = 1 .. n
      /\ Len(Append(ws, member)) = n /\ Append(ws, member)[n] = member
      /\ \A r \in 1 .. round(p) : Append(ws, member)[r] = ws[r]
  BY <1>1, <1>2, AppendProperties
<1>4. wants \in [Peers -> Seq(BOOLEAN)] /\ wants' = [wants EXCEPT ![p] = Append(ws, member)]
  BY <1>1 DEF Inv, Shape
<1>5. /\ wants' \in [Peers -> Seq(BOOLEAN)] /\ wants'[p] = Append(ws, member)
      /\ \A a \in Peers : a # p => wants'[a] = wants[a]
  BY <1>3, <1>4
<1>6. \A r : r # n => (r \in DOMAIN wants'[p] <=> r \in DOMAIN wants[p])
                      /\ (r \in DOMAIN wants[p] => wants'[p][r] = wants[p][r])
  BY <1>1, <1>2, <1>3, <1>5
<1>7. ASSUME NEW r \in 1 .. n PROVE Group(r)' = Group(r)
  <2>1. r - 1 # n
    OBVIOUS
  <2>2. \A q \in Peers : (r - 1 \in DOMAIN wants'[q] /\ wants'[q][r - 1])
                           <=> (r - 1 \in DOMAIN wants[q] /\ wants[q][r - 1])
    BY <1>5, <1>6, <2>1
  <2> QED
    BY <2>2 DEF Group
<1>8. p \notin Chosen(n)
  BY <1>1, <1>2 DEF Chosen
<1>9. Chosen(n)' = IF member THEN Chosen(n) \cup {p} ELSE Chosen(n)
  <2>1. \A q \in Peers : q # p => (q \in Chosen(n)' <=> q \in Chosen(n))
    BY <1>5 DEF Chosen
  <2>2. n \in DOMAIN wants'[p] /\ wants'[p][n] = member
    BY <1>2, <1>3, <1>5
  <2>3. p \in Chosen(n)' <=> member
    BY <2>2 DEF Chosen
  <2>4. Chosen(n) \subseteq Peers /\ Chosen(n)' \subseteq Peers
    BY DEF Chosen
  <2>5. CASE member
    BY <2>1, <2>3, <2>4, <2>5
  <2>6. CASE ~member
    BY <1>8, <2>1, <2>3, <2>4, <2>6
  <2> QED
    BY <2>5, <2>6
<1> QED
  BY <1>1, <1>3, <1>5, <1>7, <1>8, <1>9

\* The peer that calls, before and after.
LEMMA CallFacts ==
  ASSUME Inv, NEW p \in Peers, NEW member \in BOOLEAN, Call(p, member),
         NEW n \in Nat \ {0}, n = round(p) + 1
  PROVE  /\ UNCHANGED <<plan, contextIds, inBox, thrown, contexts, result, newID, newSize>>
         /\ \A a \in Peers : a # p => /\ pc'[a] = pc[a] /\ old'[a] = old[a] /\ i'[a] = i[a]
                                      /\ whiteList'[a] = whiteList[a]
         /\ pc[p] = "idle" /\ round(p)' = n
         /\ old'[p] = [id |-> Ctx(n), peers |-> contexts[p][Ctx(n)]] /\ Ctx(n) \in IDs
         /\ i'[p] = 1 /\ whiteList'[p] = <<>> /\ Heard(p)' = {}
         /\ master \notin Group(n) => pc'[p] = "thrown" /\ UNCHANGED wire
         /\ master \in Group(n) => SendTo(p, {master}, <<Msg("member", Ctx(n), member, n)>>)
         /\ master \in Group(n) /\ p = master => pc'[p] = "collect"
         /\ master \in Group(n) /\ p # master /\ member => pc'[p] = "recvID"
         /\ master \in Group(n) /\ p # master /\ ~member => pc'[p] = "barrier"
<1>1. /\ Splits(p) = Ctx(n) /\ Ctx(n) \in IDs /\ Lists(contexts[p][Ctx(n)], Group(n)) /\ pc[p] = "idle"
  BY CalledOn DEF Call
<1>2. UNCHANGED <<plan, contextIds, inBox, thrown, contexts, result, newID, newSize>>
  BY DEF Call
<1>3. /\ old' = [old EXCEPT ![p] = [id |-> Ctx(n), peers |-> contexts[p][Ctx(n)]]]
      /\ i' = [i EXCEPT ![p] = 1] /\ whiteList' = [whiteList EXCEPT ![p] = <<>>]
      /\ wants' = [wants EXCEPT ![p] = Append(@, member)]
  BY <1>1 DEF Call
<1>4. /\ i \in [Peers -> Nat \ {0}] /\ whiteList \in [Peers -> Seq(Peers)]
      /\ old \in [Peers -> [id : IDs, peers : Seq(Peers)]]
      /\ pc \in [Peers -> {"idle", "collect", "recvID", "recvSize", "recvList", "barrier",
                           "await", "thrown"}]
  BY DEF Inv, Shape
<1>5. i'[p] = 1 /\ whiteList'[p] = <<>> /\ old'[p] = [id |-> Ctx(n), peers |-> contexts[p][Ctx(n)]]
  BY <1>3, <1>4
<1>6. \A a \in Peers : a # p => old'[a] = old[a] /\ i'[a] = i[a] /\ whiteList'[a] = whiteList[a]
  BY <1>3, <1>4
<1>7. Heard(p)' = {}
  BY <1>5 DEF Heard
<1>8. round(p)' = n
  BY <1>2, <1>3, CallGroups DEF round
<1>9. master \in VAddrs(contexts[p][Splits(p)]) <=> master \in Group(n)
  BY <1>1 DEF Lists
<1>10. \/ /\ master \notin Group(n) /\ UNCHANGED wire
          /\ pc' = [pc EXCEPT ![p] = "thrown"]
       \/ /\ master \in Group(n)
          /\ SendTo(p, {master}, <<Msg("member", Ctx(n), member, n)>>)
          /\ pc' = [pc EXCEPT ![p] = IF p = master THEN "collect"
                                     ELSE IF member THEN "recvID" ELSE "barrier"]
  BY <1>1, <1>9 DEF Call, Goto
<1>11. \A a \in Peers : a # p => pc'[a] = pc[a]
  BY <1>4, <1>10
<1>12. CASE master \notin Group(n)
  <2>1. pc'[p] = "thrown" /\ UNCHANGED wire
    BY <1>4, <1>10, <1>12
  <2> QED
    BY <1>1, <1>2, <1>5, <1>6, <1>7, <1>8, <1>11, <1>12, <2>1
<1>13. CASE master \in Group(n)
  <2>1. SendTo(p, {master}, <<Msg("member", Ctx(n), member, n)>>)
    BY <1>10, <1>13
  <2>2. pc' = [pc EXCEPT ![p] = IF p = master THEN "collect"
                                ELSE IF member THEN "recvID" ELSE "barrier"]
    BY <1>10, <1>13
  <2>3. /\ p = master => pc'[p] = "collect"
        /\ p # master /\ member => pc'[p] = "recvID"
        /\ p # master /\ ~member => pc'[p] = "barrier"
    BY <1>4, <2>2
  <2> QED
    BY <1>1, <1>2, <1>5, <1>6, <1>7, <1>8, <1>11, <1>13, <2>1, <2>3
<1> QED
  BY <1>12, <1>13

\* How far it is then.
LEMMA CallLevels ==
  ASSUME Inv, NEW p \in Peers, NEW member \in BOOLEAN, Call(p, member),
         NEW n \in Nat \ {0}, n = round(p) + 1
  PROVE  /\ Reached(p) = 6 * n /\ \A b : Got(p, b) = 6 * n - 1
         /\ \A a \in Peers : a # p => Reached(a)' = Reached(a) /\ \A b : Got(a, b)' = Got(a, b)
         /\ master \notin Group(n) => Reached(p)' = 6 * n /\ \A b : Got(p, b)' = 6 * n
         /\ master \in Group(n) /\ p = master => Reached(p)' = 6 * n + 1 /\ \A b : Got(p, b)' = 6 * n
         /\ master \in Group(n) /\ p # master => Reached(p)' = 6 * n + 4
         /\ master \in Group(n) /\ p # master /\ member => \A b : Got(p, b)' = 6 * n + 1
         /\ master \in Group(n) /\ p # master /\ ~member => \A b : Got(p, b)' = 6 * n + 4
<1>1. pc[p] = "idle" /\ round(p)' = n /\ Heard(p)' = {}
  BY CallFacts
<1>2. wants' = [wants EXCEPT ![p] = Append(@, member)] /\ UNCHANGED plan
  BY DEF Call
<1>3. wants'[p] \in Seq(BOOLEAN) /\ \A a \in Peers : a # p => wants'[a] = wants[a]
  BY <1>2, CallGroups
<1>4. round(p) \in Nat /\ n - 1 = round(p)
  BY Bounds DEF Inv
<1>5. \A a \in Peers : a # p => /\ pc'[a] = pc[a] /\ old'[a] = old[a] /\ i'[a] = i[a]
                               /\ whiteList'[a] = whiteList[a]
  BY CallFacts, Zenon
<1>6. Reached(p) = 6 * n /\ \A b : Got(p, b) = 6 * n - 1
  <2>1. Reached(p) = 6 * round(p) + 6 /\ \A b : Got(p, b) = 6 * round(p) + 5
    BY <1>1, Levels DEF Inv
  <2> QED
    BY <1>4, <2>1
<1>7. ASSUME NEW a \in Peers, a # p
      PROVE  Reached(a)' = Reached(a) /\ \A b : Got(a, b)' = Got(a, b)
  <2>1. pc'[a] = pc[a] /\ old'[a] = old[a] /\ i'[a] = i[a] /\ wants'[a] = wants[a]
    BY <1>3, <1>7, <1>5
  <2> QED
    BY <2>1, OthersStay
<1>8. master \notin Group(n) => Reached(p)' = 6 * n /\ \A b : Got(p, b)' = 6 * n
  <2>1. master \notin Group(n) => pc'[p] = "thrown"
    BY CallFacts
  <2> QED
    BY <1>1, <1>3, <2>1, LevelsAfter
<1>9. master \in Group(n) /\ p = master => Reached(p)' = 6 * n + 1 /\ \A b : Got(p, b)' = 6 * n
  <2>1. master \in Group(n) /\ p = master => pc'[p] = "collect"
    BY CallFacts
  <2> QED
    BY <1>1, <1>3, <2>1, LevelsAfter
<1>10. master \in Group(n) /\ p # master /\ member =>
         Reached(p)' = 6 * n + 4 /\ \A b : Got(p, b)' = 6 * n + 1
  <2>1. master \in Group(n) /\ p # master /\ member => pc'[p] = "recvID"
    BY CallFacts
  <2> QED
    BY <1>1, <1>3, <2>1, LevelsAfter
<1>11. master \in Group(n) /\ p # master /\ ~member =>
         Reached(p)' = 6 * n + 4 /\ \A b : Got(p, b)' = 6 * n + 4
  <2>1. master \in Group(n) /\ p # master /\ ~member => pc'[p] = "barrier"
    BY CallFacts
  <2> QED
    BY <1>1, <1>3, <2>1, LevelsAfter
<1> QED
  BY <1>6, <1>7, <1>8, <1>9, <1>10, <1>11

\* Nobody has waited for what a call sends, and nothing that was sent before
\* is out of place.
LEMMA CallKeeps ==
  ASSUME Inv, NEW p \in Peers, NEW member \in BOOLEAN, Call(p, member),
         NEW n \in Nat \ {0}, n = round(p) + 1,
         NEW a \in Peers, NEW b \in Peers, NEW s \in Nat \ {0}, NEW l \in SplitKinds
  PROVE  /\ Owes(a, b, s, l) /\ Got(b, a) < Rank(s, l) /\ Rank(s, l) <= Reached(a)
              => Owes(a, b, s, l)' /\ Got(b, a)' < Rank(s, l) /\ Rank(s, l) <= Reached(a)'
         /\ Owes(a, b, s, l)' /\ Rank(s, l) <= Got(b, a)'
              => Owes(a, b, s, l) /\ Rank(s, l) <= Got(b, a) /\ Reached(a) <= Reached(a)'
         /\ Owes(a, b, s, l)' /\ Got(b, a)' < Rank(s, l) /\ Rank(s, l) <= Reached(a)'
              => \/ Owes(a, b, s, l) /\ Got(b, a) < Rank(s, l) /\ Rank(s, l) <= Reached(a)
                 \/ a = p /\ b = master /\ s = n /\ l = "member" /\ master \in Group(n)
<1>1. /\ \A r \in 1 .. n : Group(r)' = Group(r)
      /\ \A r \in Nat : r = n \/ Chosen(r)' = Chosen(r)
      /\ Chosen(n)' = IF member THEN Chosen(n) \cup {p} ELSE Chosen(n)
      /\ p \notin Chosen(n)
  <2>1. wants' = [wants EXCEPT ![p] = Append(@, member)] /\ UNCHANGED plan
    BY DEF Call
  <2>2. \A r \in 1 .. n : Group(r)' = Group(r)
    BY <2>1, CallGroups
  <2>3. ASSUME NEW r \in Nat, r # n PROVE Chosen(r)' = Chosen(r)
    BY <2>1, <2>3, ChosenStays
  <2>4. Chosen(n)' = IF member THEN Chosen(n) \cup {p} ELSE Chosen(n)
    BY <2>1, CallGroups
  <2>5. p \notin Chosen(n)
    BY <2>1, CallGroups
  <2> QED
    BY <2>2, <2>3, <2>4, <2>5
<1>2. p \in Group(n)
  BY CalledOn DEF Call
<1>3. /\ \A q \in Peers : round(q) \in Nat /\ round(q) <= n
      /\ Reached(master) < 6 * n + 2
  BY <1>2, NotAhead, Bounds DEF Inv
<1>4. /\ Rank(s, l) \in Nat /\ 6 * s + 1 <= Rank(s, l) /\ Rank(s, l) <= 6 * s + 5
      /\ l = "member" <=> Rank(s, l) = 6 * s + 1
      /\ l \in {"id", "size", "list"} <=> Rank(s, l) \in {6 * s + 2, 6 * s + 3, 6 * s + 4}
  <2>1. /\ Rank(s, "member") = 6 * s + 1 /\ Rank(s, "id") = 6 * s + 2
        /\ Rank(s, "size") = 6 * s + 3 /\ Rank(s, "list") = 6 * s + 4
        /\ Rank(s, "null") = 6 * s + 5
    BY Ranks
  <2>2. l \in {"member", "id", "size", "list", "null"}
    BY Slots
  <2> QED
    BY <2>1, <2>2
<1>5. /\ \A q \in Peers : Reached(q) \in Nat /\ Reached(q) <= 6 * round(q) + 6
      /\ \A q \in Peers, r \in Peers : Got(q, r) \in Nat /\ Got(q, r) <= 6 * round(q) + 5
  BY Bounds DEF Inv
<1>6. /\ Reached(p) = 6 * n /\ \A r \in Peers : Got(p, r) = 6 * n - 1
      /\ \A q \in Peers : q # p => Reached(q)' = Reached(q) /\ \A r \in Peers : Got(q, r)' = Got(q, r)
  BY CallLevels
<1>7. \/ Reached(p)' = 6 * n /\ \A r \in Peers : Got(p, r)' = 6 * n
      \/ /\ p = master /\ master \in Group(n)
         /\ Reached(p)' = 6 * n + 1 /\ \A r \in Peers : Got(p, r)' = 6 * n
      \/ /\ p # master /\ master \in Group(n)
         /\ Reached(p)' = 6 * n + 4
         /\ \/ \A r \in Peers : Got(p, r)' = 6 * n + 1
            \/ ~member /\ \A r \in Peers : Got(p, r)' = 6 * n + 4
  BY CallLevels
<1>8. /\ Reached(a)' \in Nat /\ Reached(a) <= Reached(a)' /\ Reached(a)' <= 6 * n + 6
      /\ Got(b, a)' \in Nat /\ Got(b, a) <= Got(b, a)' /\ Got(b, a)' <= 6 * n + 5
      /\ Reached(a) \in Nat /\ Got(b, a) \in Nat
  <2>1. /\ Reached(a)' \in Nat /\ Reached(a) <= Reached(a)' /\ Reached(a)' <= 6 * n + 6
        /\ Reached(a) \in Nat
    <3>1. CASE a = p
      BY <1>6, <1>7, <3>1
    <3>2. CASE a # p
      BY <1>3, <1>5, <1>6, <3>2
    <3> QED
      BY <3>1, <3>2
  <2>2. /\ Got(b, a)' \in Nat /\ Got(b, a) <= Got(b, a)' /\ Got(b, a)' <= 6 * n + 5
        /\ Got(b, a) \in Nat
    <3>1. CASE b = p
      BY <1>6, <1>7, <3>1
    <3>2. CASE b # p
      BY <1>3, <1>5, <1>6, <3>2
    <3> QED
      BY <3>1, <3>2
  <2> QED
    BY <2>1, <2>2
\* What the call passes, the peer does not wait for.
<1>9. ASSUME b = p, Owes(a, b, s, l) \/ Owes(a, b, s, l)', 6 * n <= Rank(s, l), s <= n
      PROVE  Got(p, a)' < Rank(s, l)
  <2>1. s = n
    BY <1>4, <1>9
  <2>2. l = "member" => p = master
    BY <1>9 DEF Owes, master
  <2>3. CASE Got(p, a)' = 6 * n
    BY <1>4, <2>1, <2>3
  <2>4. CASE p # master /\ Got(p, a)' = 6 * n + 1
    BY <1>4, <2>1, <2>2, <2>4
  <2>5. CASE p # master /\ ~member /\ Got(p, a)' = 6 * n + 4
    <3>1. p \notin Chosen(n) /\ p \notin Chosen(n)'
      BY <1>1, <2>5
    <3>2. l \notin {"id", "size", "list"}
      BY <1>9, <2>1, <3>1 DEF Owes
    <3> QED
      BY <1>4, <2>1, <2>2, <2>5, <3>2
  <2> QED
    BY <1>7, <2>3, <2>4, <2>5
<1>10. ASSUME Owes(a, b, s, l), s <= n PROVE Owes(a, b, s, l)'
  <2>1. Group(s)' = Group(s)
    BY <1>1, <1>10
  <2>2. Chosen(s) \subseteq Chosen(s)'
    BY <1>1
  <2> QED
    BY <1>10, <2>1, <2>2 DEF Owes, master
<1>11. ASSUME Owes(a, b, s, l)', s <= n, ~(b = p /\ s = n /\ l \in {"id", "size", "list"})
       PROVE  Owes(a, b, s, l)
  <2>1. Group(s)' = Group(s)
    BY <1>1, <1>11
  <2>2. l \in {"id", "size", "list"} /\ b \in Chosen(s)' => b \in Chosen(s)
    BY <1>1, <1>11
  <2> QED
    BY <1>11, <2>1, <2>2 DEF Owes, master
<1>12. Owes(a, b, s, l) /\ Got(b, a) < Rank(s, l) /\ Rank(s, l) <= Reached(a)
         => Owes(a, b, s, l)' /\ Got(b, a)' < Rank(s, l) /\ Rank(s, l) <= Reached(a)'
  <2>1. SUFFICES ASSUME Owes(a, b, s, l), Got(b, a) < Rank(s, l), Rank(s, l) <= Reached(a)
                 PROVE  Owes(a, b, s, l)' /\ Got(b, a)' < Rank(s, l) /\ Rank(s, l) <= Reached(a)'
    OBVIOUS
  <2>2. s <= n
    BY <1>3, <1>4, <1>5, <2>1
  <2>3. Rank(s, l) <= Reached(a)'
    BY <1>4, <1>8, <2>1
  <2>4. CASE b = p
    <3>1. 6 * n <= Rank(s, l)
      BY <1>4, <1>6, <2>1, <2>4
    <3>2. Got(p, a)' < Rank(s, l)
      BY <1>9, <2>1, <2>2, <2>4, <3>1
    <3> QED
      BY <1>10, <2>1, <2>2, <2>3, <2>4, <3>2
  <2>5. CASE b # p
    BY <1>6, <1>10, <2>1, <2>2, <2>3, <2>5
  <2> QED
    BY <2>4, <2>5
<1>13. Owes(a, b, s, l)' /\ Rank(s, l) <= Got(b, a)'
         => Owes(a, b, s, l) /\ Rank(s, l) <= Got(b, a) /\ Reached(a) <= Reached(a)'
  <2>1. SUFFICES ASSUME Owes(a, b, s, l)', Rank(s, l) <= Got(b, a)'
                 PROVE  Owes(a, b, s, l) /\ Rank(s, l) <= Got(b, a)
    BY <1>8
  <2>2. s <= n
    BY <1>4, <1>8, <2>1
  <2>3. CASE b = p
    <3>1. Rank(s, l) < 6 * n
      <4>1. SUFFICES ASSUME 6 * n <= Rank(s, l) PROVE FALSE
        BY <1>4
      <4>2. Got(p, a)' < Rank(s, l)
        BY <1>9, <2>1, <2>2, <2>3, <4>1
      <4> QED
        BY <1>4, <1>8, <2>1, <2>3, <4>2
    <3>2. s # n
      BY <1>4, <3>1
    <3> QED
      BY <1>4, <1>6, <1>11, <2>1, <2>2, <2>3, <3>1, <3>2
  <2>4. CASE b # p
    BY <1>6, <1>11, <2>1, <2>2, <2>4
  <2> QED
    BY <2>3, <2>4
<1>14. Owes(a, b, s, l)' /\ Got(b, a)' < Rank(s, l) /\ Rank(s, l) <= Reached(a)'
         => \/ Owes(a, b, s, l) /\ Got(b, a) < Rank(s, l) /\ Rank(s, l) <= Reached(a)
            \/ a = p /\ b = master /\ s = n /\ l = "member" /\ master \in Group(n)
  <2>1. SUFFICES ASSUME Owes(a, b, s, l)', Got(b, a)' < Rank(s, l), Rank(s, l) <= Reached(a)',
                        ~(a = p /\ b = master /\ s = n /\ l = "member" /\ master \in Group(n))
                 PROVE  Owes(a, b, s, l) /\ Got(b, a) < Rank(s, l) /\ Rank(s, l) <= Reached(a)
    OBVIOUS
  <2>2. s <= n
    BY <1>4, <1>8, <2>1
  <2>3. l \in {"id", "size", "list"} => a = master
    BY <2>1 DEF Owes, master
  <2>4. l = "member" => b = master
    BY <2>1 DEF Owes, master
  <2>5. a = p => Rank(s, l) <= 6 * n
    <3>1. SUFFICES ASSUME a = p, 6 * n < Rank(s, l) PROVE FALSE
      BY <1>4
    <3>2. s = n
      BY <1>4, <2>2, <3>1
    <3>3. l # "member" \/ master \notin Group(n)
      BY <2>1, <2>4, <3>1, <3>2
    <3>4. CASE Reached(p)' = 6 * n
      BY <2>1, <3>1, <3>4, <1>4
    <3>5. CASE p = master /\ master \in Group(n) /\ Reached(p)' = 6 * n + 1
      BY <1>4, <2>1, <3>1, <3>2, <3>3, <3>5
    <3>6. CASE p # master /\ master \in Group(n) /\ Reached(p)' = 6 * n + 4
      BY <1>4, <2>1, <2>3, <3>1, <3>2, <3>3, <3>6
    <3> QED
      BY <1>7, <3>4, <3>5, <3>6
  <2>6. Rank(s, l) <= Reached(a)
    BY <1>6, <2>1, <2>5
  <2>7. ~(b = p /\ s = n /\ l \in {"id", "size", "list"})
    BY <1>3, <1>4, <1>5, <2>3, <2>6
  <2>8. Owes(a, b, s, l)
    BY <1>11, <2>1, <2>2, <2>7
  <2>9. Got(b, a) < Rank(s, l)
    BY <1>4, <1>8, <2>1
  <2> QED
    BY <2>6, <2>8, <2>9
<1> QED
  BY <1>12, <1>13, <1>14

LEMMA CallStreams ==
  ASSUME Inv, NEW p \in Peers, NEW member \in BOOLEAN, Call(p, member)
  PROVE  Streams'
<1>1. PICK n \in Nat \ {0} : n = round(p) + 1
  BY Bounds DEF Inv
<1>2. /\ UNCHANGED <<plan, contextIds, inBox, contexts>>
      /\ pc[p] = "idle" /\ Ctx(n) \in IDs
      /\ master \notin Group(n) => UNCHANGED wire
      /\ master \in Group(n) => SendTo(p, {master}, <<Msg("member", Ctx(n), member, n)>>)
  BY <1>1, CallFacts
<1>3. /\ p \in Group(n)
      /\ \A r \in 1 .. round(p) : wants'[p][r] = wants[p][r]
      /\ \A a \in Peers : a # p => wants'[a] = wants[a]
      /\ wants'[p][n] = member /\ \A r \in 1 .. n : Group(r)' = Group(r)
  <2>1. wants' = [wants EXCEPT ![p] = Append(@, member)] /\ UNCHANGED plan /\ p \in Group(n)
    BY <1>1, CalledOn DEF Call
  <2>2. \A r \in 1 .. n : Group(r)' = Group(r)
    BY <1>1, <2>1, CallGroups
  <2>3. \A r \in 1 .. round(p) : wants'[p][r] = wants[p][r]
    BY <1>1, <2>1, CallGroups
  <2>4. \A a \in Peers : a # p => wants'[a] = wants[a]
    BY <1>1, <2>1, CallGroups
  <2>5. wants'[p][n] = member
    BY <1>1, <2>1, CallGroups
  <2> QED
    BY <2>1, <2>2, <2>3, <2>4, <2>5
<1>4. \A r : Ctx(r)' = Ctx(r)
  BY <1>2 DEF Ctx
<1>5. \A m : RankOf(m)' = RankOf(m)
  BY DEF RankOf, Rank, Slot
<1>6. /\ \A a \in Peers : Reached(a) \in Nat /\ Reached(a)' \in Nat /\ Reached(a) <= Reached(a)'
      /\ Reached(p) = 6 * n /\ \A b : Got(p, b) = 6 * n - 1
      /\ \A a \in Peers : a # p => \A b : Got(a, b)' = Got(a, b)
      /\ master \in Group(n) => 6 * n + 1 <= Reached(p)'
      /\ master \in Group(n) /\ p = master => \A b : Got(p, b)' = 6 * n
  <2>1. /\ Reached(p) = 6 * n /\ \A b : Got(p, b) = 6 * n - 1
        /\ \A a \in Peers : a # p => Reached(a)' = Reached(a) /\ \A b : Got(a, b)' = Got(a, b)
        /\ Reached(p)' = 6 * n \/ Reached(p)' = 6 * n + 1 \/ Reached(p)' = 6 * n + 4
        /\ master \in Group(n) => Reached(p)' = 6 * n + 1 \/ Reached(p)' = 6 * n + 4
        /\ master \in Group(n) /\ p = master => \A b : Got(p, b)' = 6 * n
    BY <1>1, CallLevels
  <2>2. \A a \in Peers : Reached(a) \in Nat
    BY Bounds DEF Inv
  <2>3. \A a \in Peers : Reached(a)' \in Nat /\ Reached(a) <= Reached(a)'
    BY <2>1, <2>2
  <2> QED
    BY <2>1, <2>2, <2>3
\* What was on its way, is.
<1>7. ASSUME NEW a \in Peers, NEW b \in Peers, NEW m \in Messages, SplitMessage(a, b, m)
      PROVE  SplitMessage(a, b, m)'
  <2>1. PICK s \in Nat \ {0}, l \in SplitKinds : s = m.call /\ l = m.kind /\ RankOf(m) = Rank(s, l)
    BY <1>7 DEF SplitMessage, RankOf
  <2>2. /\ Owes(a, b, s, l) /\ Got(b, a) < Rank(s, l) /\ Rank(s, l) <= Reached(a)
        /\ Content(a, b, m)
    BY <1>7, <2>1 DEF SplitMessage
  <2>3. Owes(a, b, s, l)' /\ Got(b, a)' < Rank(s, l) /\ Rank(s, l) <= Reached(a)'
    BY <1>1, <2>2, CallKeeps
  <2>4. wants'[a][s] = wants[a][s]
    <3>1. s \in 1 .. round(a)
      BY <2>1, <2>2, InCall, Slots
    <3>2. CASE a = p
      BY <1>3, <3>1, <3>2
    <3>3. CASE a # p
      <4>1. wants'[a] = wants[a]
        BY <1>3, <3>3
      <4> QED
        BY <4>1
    <3> QED
      BY <3>2, <3>3
  <2>5. l \in {"size", "list"} => whiteList'[master] = whiteList[master]
    <3>0. \A c \in Peers : c # p => /\ pc'[c] = pc[c] /\ old'[c] = old[c] /\ i'[c] = i[c]
                                 /\ whiteList'[c] = whiteList[c]
      BY <1>1, CallFacts, Zenon
    <3>1. SUFFICES ASSUME l \in {"size", "list"}, p = master PROVE FALSE
      BY <3>0, Constants
    <3>2. a = master
      BY <2>2, <3>1 DEF Owes, master
    <3> QED
      BY <1>2, <1>7, <2>1, <3>1, <3>2, NoLists
  <2>6. Content(a, b, m)'
    BY <1>2, <1>4, <2>1, <2>2, <2>4, <2>5 DEF Content
  <2>7. RankOf(m)' = Rank(s, l)
    BY <1>5, <2>1
  <2> QED
    BY <2>1, <2>3, <2>6, <2>7 DEF SplitMessage
<1>8. ASSUME NEW a \in Peers, NEW b \in Peers, NEW m \in Messages, PeerMessage(a, b, m)
      PROVE  PeerMessage(a, b, m)'
  <2>1. RankOf(m) <= Reached(a)'
    <3>1. RankOf(m) \in Nat /\ RankOf(m) <= Reached(a)
      BY <1>8, Ranks DEF PeerMessage, RankOf, Messages
    <3> QED
      BY <1>6, <3>1
  <2> QED
    BY <1>2, <1>5, <1>8, <2>1 DEF PeerMessage
<1>9. ASSUME NEW a \in Peers, NEW b \in Peers, NEW s \in Nat \ {0}, NEW l \in SplitKinds,
             Owes(a, b, s, l)', Got(b, a)' < Rank(s, l), Rank(s, l) <= Reached(a)'
      PROVE  \/ Owes(a, b, s, l) /\ Got(b, a) < Rank(s, l) /\ Rank(s, l) <= Reached(a)
             \/ a = p /\ b = master /\ s = n /\ l = "member" /\ master \in Group(n)
  BY <1>1, <1>9, CallKeeps
<1>10. Passed'
  <2>1. ASSUME NEW b \in Peers, NEW a \in Peers, NEW s \in Nat \ {0}, NEW l \in SplitKinds,
               Owes(a, b, s, l)', Rank(s, l) <= Got(b, a)'
        PROVE  Rank(s, l) <= Reached(a)'
    <3>1. Owes(a, b, s, l) /\ Rank(s, l) <= Got(b, a)
      BY <1>1, <2>1, CallKeeps
    <3>2. Rank(s, l) <= Reached(a)
      BY <3>1 DEF Inv, Streams, Passed
    <3>3. Rank(s, l) \in Nat
      BY Ranks, Slots
    <3> QED
      BY <1>6, <3>2, <3>3
  <2>2. \A s, l : Rank(s, l)' = Rank(s, l)
    BY DEF Rank, Slot
  <2> QED
    BY <2>1, <2>2 DEF Passed
<1>11. CASE master \notin Group(n)
  <2>1. SendTo(p, {}, <<>>)
    BY <1>2, <1>11, NoSend DEF Inv
  <2>2. <<>> \in Seq(Messages) /\ VAddrs(<<>>) = {} /\ Ascends(<<>>)
    BY DEF VAddrs, Ascends
  <2>3. Sends(p, {}, <<>>)
    BY <1>2, <1>4, <1>7, <1>8, <1>9, <1>10, <1>11, <2>1, <2>2 DEF Sends
  <2> QED
    BY <2>2, <2>3, SendStreams
<1>12. CASE master \in Group(n)
  <2>1. PICK m \in Messages : /\ m = Msg("member", Ctx(n), member, n) /\ m.kind = "member"
                              /\ m.context = Ctx(n) /\ m.value = member /\ m.call = n
    <3>1. member \in Values /\ "member" \in Kinds
      BY DEF Values, Kinds
    <3> QED
      BY <1>2, <3>1 DEF Msg, Messages
  <2>2. RankOf(m) = 6 * n + 1 /\ Rank(n, "member") = 6 * n + 1 /\ "member" \in SplitKinds
    BY <2>1, Ranks, Slots DEF RankOf
  <2>3. <<m>> \in Seq(Messages) /\ VAddrs(<<m>>) = {m} /\ Ascends(<<m>>)
    BY OneMessage
  <2>4. SendTo(p, {master}, <<m>>)
    BY <1>2, <1>12, <2>1
  <2>5. Owes(p, master, n, "member") /\ Owes(p, master, n, "member")'
    <3>1. {p, master} \subseteq Group(n) /\ n \in 1 .. n
      BY <1>3, <1>12
    <3>2. Group(n)' = Group(n)
      BY <1>3, <3>1
    <3> QED
      BY <3>1, <3>2 DEF Owes, master
  <2>6. Got(master, p)' < 6 * n + 1
    <3>1. CASE p = master
      BY <1>6, <1>12, <3>1
    <3>2. CASE p # master
      <4>1. Reached(p) < Rank(n, "member")
        BY <1>6, <2>2
      <4>2. Got(master, p) < Rank(n, "member")
        BY <2>2, <2>5, <4>1, NotYet, Constants
      <4> QED
        BY <1>6, <2>2, <3>2, <4>2, Constants
    <3> QED
      BY <3>1, <3>2
  <2>7. SplitMessage(p, master, m)'
    <3>1. Content(p, master, m)'
      <4>1. wants'[p][n] = member /\ Ctx(n)' = Ctx(n)
        BY <1>3, <1>4
      <4> QED
        BY <2>1, <4>1 DEF Content
    <3>2. (Got(master, p) < RankOf(m) /\ RankOf(m) <= Reached(p))'
      BY <1>5, <1>6, <1>12, <2>2, <2>6
    <3> QED
      BY <2>1, <2>2, <2>5, <3>1, <3>2 DEF SplitMessage
  <2>8. \A x \in VAddrs(<<m>>) : Reached(p) < RankOf(x)
    BY <1>6, <2>2, <2>3
  <2>9. \A q \in Peers : q \in {master} =>
          \A x \in VAddrs(<<m>>) : SplitMessage(p, q, x)' \/ PeerMessage(p, q, x)'
    BY <2>3, <2>7
  <2>10. ASSUME NEW a \in Peers, NEW b \in Peers, NEW s \in Nat \ {0}, NEW l \in SplitKinds,
                Owes(a, b, s, l)', Got(b, a)' < Rank(s, l), Rank(s, l) <= Reached(a)'
         PROVE  \/ /\ Owes(a, b, s, l) /\ Got(b, a) < Rank(s, l) /\ Rank(s, l) <= Reached(a)
                   /\ Ctx(s)' = Ctx(s)
                \/ a = p /\ b \in {master} /\ \E x \in VAddrs(<<m>>) : x.call = s /\ x.kind = l
    BY <1>4, <1>9, <2>1, <2>3, <2>10
  <2>11. Sends(p, {master}, <<m>>)
    BY <1>2, <1>7, <1>8, <1>10, <2>3, <2>4, <2>8, <2>9, <2>10 DEF Sends
  <2> QED
    BY <2>3, <2>11, SendStreams
<1> QED
  BY <1>11, <1>12

\* The peer that calls.
LEMMA CallOwn ==
  ASSUME Inv, NEW p \in Peers, NEW member \in BOOLEAN, Call(p, member)
  PROVE  Place(p)' /\ NewContext(p)' /\ Known(p)'
<1>1. PICK n \in Nat \ {0} : n = round(p) + 1 /\ n - 1 = round(p) /\ 1 .. n - 1 = 1 .. round(p)
  <2>1. round(p) \in Nat
    BY Bounds DEF Inv
  <2>2. round(p) + 1 \in Nat \ {0} /\ (round(p) + 1) - 1 = round(p)
    BY <2>1
  <2> QED
    BY <2>2
<1>2. /\ UNCHANGED <<plan, contextIds, contexts, result>>
      /\ pc[p] = "idle" /\ round(p)' = n
      /\ old'[p] = [id |-> Ctx(n), peers |-> contexts[p][Ctx(n)]]
      /\ i'[p] = 1
  BY <1>1, CallFacts
<1>3. /\ Len(result[p]) = n - 1 /\ n <= rounds /\ p < plan.peers
      /\ Lists(contexts[p][Ctx(n)], Group(n)) /\ Ctx(n) \in IDs
      /\ \A r \in 1 .. n - 1 : master \in Group(r) /\ (plan.nested => wants[p][r])
  BY <1>1, CalledOn DEF Call
<1>4. wants' = [wants EXCEPT ![p] = Append(@, member)] /\ UNCHANGED plan
  BY DEF Call
<1>5. \A r \in 1 .. n : Group(r)' = Group(r)
  BY <1>1, <1>4, CallGroups
<1>6. \A r \in 1 .. n - 1 : wants'[p][r] = wants[p][r]
  BY <1>1, <1>4, CallGroups
<1>7. wants'[p][n] = member
  BY <1>1, <1>4, CallGroups
<1>8. /\ master \notin Group(n) => pc'[p] = "thrown"
      /\ master \in Group(n) /\ p = master => pc'[p] = "collect"
      /\ master \in Group(n) /\ p # master /\ member => pc'[p] = "recvID"
      /\ master \in Group(n) /\ p # master /\ ~member => pc'[p] = "barrier"
  BY <1>1, CallFacts
<1>9. Ctx(n)' = Ctx(n) /\ n \in 1 .. n
  BY <1>2 DEF Ctx
<1>10. Place(p)'
  <2>1. oldPeers(p)' = contexts[p][Ctx(n)] /\ (old[p].id)' = Ctx(n)
    BY <1>2 DEF oldPeers
  <2>2. Lists(oldPeers(p), Group(n))'
    <3>1. PICK s, S : /\ s = oldPeers(p)' /\ s = contexts[p][Ctx(n)]
                      /\ S = Group(n) /\ S = Group(n)'
      BY <1>5, <1>9, <2>1
    <3> QED
      BY <1>3, <3>1 DEF Lists, Injective, VAddrs
  <2>3. (i[p] \in 1 .. Len(oldPeers(p)) + 1)'
    <3>1. contexts[p][Ctx(n)] \in Seq(Peers)
      BY <1>3 DEF Inv, Shape
    <3> QED
      BY <1>2, <2>1, <3>1
  <2>4. pc'[p] # "idle"
    BY <1>8
  <2>5. (pc[p] # "thrown")' <=> master \in Group(n)'
    <3>1. Group(n)' = Group(n)
      BY <1>5, <1>9
    <3> QED
      BY <1>8, <3>1
  <2>6. \A r \in 1 .. n - 1 : master \in Group(r)' /\ (plan'.nested => wants'[p][r])
    <3>1. SUFFICES ASSUME NEW r \in 1 .. n - 1
                   PROVE  master \in Group(r)' /\ (plan'.nested => wants'[p][r])
      OBVIOUS
    <3>2. r \in 1 .. n
      OBVIOUS
    <3>3. Group(r)' = Group(r) /\ wants'[p][r] = wants[p][r]
      BY <1>5, <1>6, <3>2
    <3> QED
      BY <1>2, <1>3, <3>3
  <2>7. pc'[p] = "collect" => p = master
    BY <1>8
  <2>8. pc'[p] \in {"recvID", "recvSize", "recvList"} => wants'[p][n]
    BY <1>7, <1>8
  <2>9. Len(result'[p]) = n - 1 /\ n <= rounds' /\ p < plan'.peers /\ n # 0
    BY <1>2, <1>3 DEF rounds
  <2> QED
    BY <1>2, <1>9, <2>1, <2>2, <2>3, <2>4, <2>5, <2>6, <2>7, <2>8, <2>9 DEF Place, master
<1>11. pc'[p] \notin {"recvSize", "recvList", "await", "idle"} /\ (pc'[p] = "barrier" => ~wants'[p][n])
  BY <1>7, <1>8
<1>12. NewContext(p)'
  BY <1>2, <1>11 DEF NewContext
<1>13. Known(p)'
  <2>1. SUFFICES ASSUME NEW r \in 1 .. n, wants'[p][r],
                        r < n \/ pc'[p] \in {"barrier", "await", "idle"}
                 PROVE  contexts'[p][contextIds'[plan'.names[r]]] # <<>>
    BY <1>2 DEF Known
  <2>2. r < n
    BY <1>11, <2>1
  <2>3. r \in 1 .. round(p)
    BY <1>1, <2>2
  <2>4. wants[p][r]
    BY <1>1, <1>6, <2>1, <2>3
  <2> QED
    BY <1>2, <2>3, <2>4 DEF Inv, Calling, Known
<1> QED
  BY <1>10, <1>12, <1>13

\* The others.
LEMMA CallOthers ==
  ASSUME Inv, NEW p \in Peers, NEW member \in BOOLEAN, Call(p, member), NEW a \in Peers, a # p
  PROVE  Place(a)' /\ NewContext(a)' /\ Known(a)'
<1>1. PICK n \in Nat \ {0} : n = round(p) + 1
  BY Bounds DEF Inv
<1>2. UNCHANGED <<plan, contextIds, contexts, result, newID, newSize>> /\ pc[p] = "idle"
  BY <1>1, CallFacts
<1>3. \A c \in Peers : c # p => /\ pc'[c] = pc[c] /\ old'[c] = old[c] /\ i'[c] = i[c]
                               /\ whiteList'[c] = whiteList[c]
  BY <1>1, CallFacts, Zenon
<1>4. wants' = [wants EXCEPT ![p] = Append(@, member)] /\ p \in Group(n)
  BY <1>1, CalledOn DEF Call
<1>5. wants'[a] = wants[a]
  BY <1>1, <1>2, <1>4, CallGroups
<1>6. round(a)' = round(a) /\ oldPeers(a)' = oldPeers(a)
  BY <1>3, <1>5 DEF round, oldPeers
<1>7. \A r \in 1 .. round(a) : Group(r)' = Group(r) /\ Ctx(r)' = Ctx(r)
  <2>1. SUFFICES ASSUME NEW r \in 1 .. round(a) PROVE Group(r)' = Group(r) /\ Ctx(r)' = Ctx(r)
    OBVIOUS
  <2>2. round(a) <= n /\ round(a) \in Nat
    BY <1>1, <1>4, NotAhead, Bounds DEF Inv
  <2>3. r \in 1 .. n
    BY <2>2
  <2>4. Group(r)' = Group(r)
    BY <1>1, <1>2, <1>4, <2>3, CallGroups
  <2>5. Ctx(r)' = Ctx(r)
    BY <1>2 DEF Ctx
  <2> QED
    BY <2>4, <2>5
<1>8. round(a) \in Nat
  BY Bounds DEF Inv
<1>9. Place(a)'
  <2>1. Place(a)
    BY DEF Inv, Calling
  <2>2. ASSUME NEW r \in 1 .. round(a) - 1 PROVE Group(r)' = Group(r)
    <3>1. r \in 1 .. round(a)
      BY <1>8
    <3> QED
      BY <1>7, <3>1
  <2>3. round(a) # 0 => Group(round(a))' = Group(round(a)) /\ Ctx(round(a))' = Ctx(round(a))
    <3>1. SUFFICES ASSUME round(a) # 0
                   PROVE  Group(round(a))' = Group(round(a)) /\ Ctx(round(a))' = Ctx(round(a))
      OBVIOUS
    <3>2. PICK r : r = round(a) /\ r = round(a)' /\ r \in 1 .. round(a)
      BY <1>6, <1>8, <3>1
    <3>3. Group(r)' = Group(r) /\ Ctx(r)' = Ctx(r)
      BY <1>7, <3>2
    <3> QED
      BY <3>2, <3>3
  <2>4. round(a) # 0 => Lists(oldPeers(a), Group(round(a)))'
    <3>1. SUFFICES ASSUME round(a) # 0 PROVE Lists(oldPeers(a), Group(round(a)))'
      OBVIOUS
    <3>2. PICK s, S : /\ s = oldPeers(a)' /\ s = oldPeers(a)
                      /\ S = Group(round(a)) /\ S = Group(round(a))'
      BY <1>6, <2>3, <3>1
    <3> QED
      BY <2>1, <3>1, <3>2 DEF Place, Lists, Injective, VAddrs
  <2>5. round(a) # 0 => (old[a].id)' = Ctx(round(a))'
    BY <1>3, <2>1, <2>3 DEF Place
  <2>6. round(a) # 0 => (pc'[a] # "thrown" <=> master \in Group(round(a))')
    BY <1>3, <2>1, <2>3 DEF Place
  <2>7. \A r \in 1 .. round(a) - 1 : master \in Group(r)' /\ (plan'.nested => wants'[a][r])
    BY <1>2, <1>5, <2>1, <2>2 DEF Place
  <2>8. /\ pc'[a] # "idle" => round(a) # 0
        /\ Len(result'[a]) = IF pc'[a] = "idle" THEN round(a) ELSE round(a) - 1
        /\ round(a) # 0 => a < plan'.peers
        /\ round(a) <= rounds'
        /\ pc'[a] = "collect" => a = master
        /\ pc'[a] \in {"recvID", "recvSize", "recvList"} => wants'[a][round(a)]
        /\ (i[a] \in 1 .. Len(oldPeers(a)) + 1)'
    BY <1>2, <1>3, <1>5, <1>6, <2>1 DEF Place, rounds
  <2> QED
    BY <1>6, <2>3, <2>4, <2>5, <2>6, <2>7, <2>8 DEF Place, master
<1>10. NewContext(a)'
  <2>1. NewContext(a)
    BY DEF Inv, Calling
  <2>2. pc'[a] = "recvList" => whiteList'[master] = whiteList[master]
    <3>1. p = master => pc[a] # "recvList"
      BY <1>2, NoLists
    <3>2. p # master => whiteList'[master] = whiteList[master]
      BY <1>3, Constants
    <3> QED
      BY <1>3, <3>1, <3>2
  <2>3. round(a) # 0 /\ wants[a][round(a)] /\ pc[a] \in {"barrier", "await", "idle"}
          => Chosen(round(a))' = Chosen(round(a))
    <3>1. SUFFICES ASSUME round(a) # 0, wants[a][round(a)], pc[a] \in {"barrier", "await", "idle"}
                   PROVE  Chosen(round(a))' = Chosen(round(a))
      OBVIOUS
    <3>2. PICK r : r = round(a) /\ r = round(a)' /\ r # n
      BY <1>1, <1>4, <1>6, <3>1, NotAhead
    <3>3. Chosen(r)' = Chosen(r)
      BY <1>1, <1>4, <3>2, ChosenStays
    <3> QED
      BY <3>2, <3>3
  <2>4. round(a) # 0 /\ wants[a][round(a)] /\ pc[a] \in {"barrier", "await", "idle"}
          => Lists(contexts[a][contextIds[plan.names[round(a)]]], Chosen(round(a)))'
    <3>1. SUFFICES ASSUME round(a) # 0, wants[a][round(a)], pc[a] \in {"barrier", "await", "idle"}
                   PROVE  Lists(contexts[a][contextIds[plan.names[round(a)]]], Chosen(round(a)))'
      OBVIOUS
    <3>2. PICK s, S : /\ s = contexts'[a][contextIds'[plan'.names[round(a)']]]
                      /\ s = contexts[a][contextIds[plan.names[round(a)]]]
                      /\ S = Chosen(round(a)) /\ S = Chosen(round(a))'
      BY <1>2, <1>6, <2>3, <3>1
    <3>3. Lists(s, S)
      BY <2>1, <3>1, <3>2 DEF NewContext
    <3> QED
      BY <3>2, <3>3 DEF Lists, Injective, VAddrs
  <2> QED
    BY <1>2, <1>3, <1>5, <1>6, <2>1, <2>2, <2>4 DEF NewContext, master
<1>11. Known(a)'
  <2>1. Known(a)
    BY DEF Inv, Calling
  <2> QED
    BY <1>2, <1>3, <1>5, <1>6, <2>1 DEF Known
<1> QED
  BY <1>9, <1>10, <1>11

\* What the master and the server know.
LEMMA CallMaster ==
  ASSUME Inv, NEW p \in Peers, NEW member \in BOOLEAN, Call(p, member)
  PROVE  WhiteLists' /\ Names'
<1>1. PICK n \in Nat \ {0} : n = round(p) + 1
  BY Bounds DEF Inv
<1>2. /\ UNCHANGED <<plan, contextIds>> /\ pc[p] = "idle" /\ round(p)' = n
      /\ Heard(p)' = {} /\ whiteList'[p] = <<>>
      /\ master \notin Group(n) => pc'[p] = "thrown"
      /\ master \in Group(n) /\ p = master => pc'[p] = "collect"
  BY <1>1, CallFacts
<1>3. \A c \in Peers : c # p => /\ pc'[c] = pc[c] /\ old'[c] = old[c] /\ i'[c] = i[c]
                               /\ whiteList'[c] = whiteList[c]
  BY <1>1, CallFacts, Zenon
<1>4. wants' = [wants EXCEPT ![p] = Append(@, member)] /\ p \in Group(n)
  BY <1>1, CalledOn DEF Call
<1>5. CASE p = master
  <2>1. pc'[master] \in {"thrown", "collect"} /\ round(master)' = n /\ n \in Nat
    BY <1>2, <1>5
  <2>2. WhiteLists'
    <3>1. (Heard(master) \cap Chosen(round(master)))' = {}
      BY <1>2, <1>5
    <3>2. Lists(<<>>, {})
      BY DEF Lists, Injective, VAddrs
    <3>3. Lists(whiteList[master], Heard(master) \cap Chosen(round(master)))'
      <4>1. PICK s, S : /\ s = whiteList'[master] /\ s = <<>>
                        /\ S = (Heard(master) \cap Chosen(round(master)))' /\ S = {}
        BY <1>2, <1>5, <3>1
      <4> QED
        BY <3>2, <4>1 DEF Lists, Injective, VAddrs
    <3> QED
      BY <2>1, <3>3 DEF WhiteLists
  <2>3. Names'
    <3>1. round(master) = n - 1 /\ Reached(master) = 6 * n
      BY <1>1, <1>5, Bounds, CallLevels DEF Inv
    <3>2. DOMAIN contextIds' \subseteq {plan'.names[r] : r \in 1 .. n - 1}
      BY <1>2, <1>5, <3>1 DEF Inv, Calling, Names
    <3>3. ASSUME NEW r \in 1 .. n, Rank(r, "id") <= Reached(master)'
          PROVE  plan'.names[r] \in DOMAIN contextIds'
      <4>1. Reached(master)' = 6 * n \/ Reached(master)' = 6 * n + 1
        BY <1>1, <1>5, CallLevels
      <4>2. Rank(r, "id") = 6 * r + 2
        BY Ranks
      <4>3. r \in 1 .. n - 1 /\ Rank(r, "id") <= Reached(master)
        BY <3>1, <3>3, <4>1, <4>2
      <4> QED
        BY <1>2, <3>1, <4>3 DEF Inv, Calling, Names
    <3>4. \A r : Rank(r, "id")' = Rank(r, "id")
      BY DEF Rank, Slot
    <3>5. \A d \in DOMAIN contextIds' : contextIds'[d] \in 1 .. Cardinality(DOMAIN contextIds')
      BY <1>2 DEF Inv, Calling, Names
    <3> QED
      BY <2>1, <3>2, <3>3, <3>4, <3>5 DEF Names, master
  <2> QED
    BY <2>2, <2>3
<1>6. CASE p # master
  <2>1. pc'[master] = pc[master] /\ i'[master] = i[master] /\ old'[master] = old[master]
        /\ whiteList'[master] = whiteList[master] /\ wants'[master] = wants[master]
    <3>1. wants'[master] = wants[master]
      BY <1>1, <1>2, <1>4, <1>6, CallGroups, Constants
    <3> QED
      BY <1>3, <1>6, <3>1, Constants
  <2>2. /\ round(master)' = round(master) /\ Heard(master)' = Heard(master)
        /\ Reached(master)' = Reached(master)
    BY <2>1, Constants, OthersStay
  <2>3. Names'
    <3>1. Names
      BY DEF Inv, Calling
    <3>2. \A r : Rank(r, "id")' = Rank(r, "id")
      BY DEF Rank, Slot
    <3> QED
      BY <1>2, <2>1, <2>2, <3>1, <3>2 DEF Names, master
  <2>4. WhiteLists'
    <3>1. SUFFICES ASSUME round(master) # 0, pc[master] # "thrown"
                   PROVE  Lists(whiteList[master],
                                IF pc[master] = "collect" THEN Heard(master) \cap Chosen(round(master))
                                ELSE Chosen(round(master)))'
      BY <2>1, <2>2 DEF WhiteLists, master
    <3>2. PICK r : r = round(master) /\ r = round(master)'
      BY <2>2
    <3>3. r = n => pc[master] = "collect" /\ Chosen(r)' \subseteq Chosen(r) \cup {p}
                   /\ Chosen(r) \subseteq Chosen(r)' /\ p \notin Heard(master)
      <4>1. Chosen(n)' = IF member THEN Chosen(n) \cup {p} ELSE Chosen(n)
        BY <1>1, <1>2, <1>4, CallGroups
      <4>2. round(master) = n => pc[master] = "collect" /\ p \notin Heard(master)
        BY <1>1, <1>4, <3>1, NotAhead
      <4> QED
        BY <3>2, <4>1, <4>2
    <3>4. r # n => Chosen(r)' = Chosen(r)
      BY <1>1, <1>4, ChosenStays
    <3>5. Lists(whiteList[master],
                IF pc[master] = "collect" THEN Heard(master) \cap Chosen(round(master))
                ELSE Chosen(round(master)))
      BY <3>1 DEF Inv, Calling, WhiteLists
    <3>6. CASE pc[master] = "collect"
      <4>1. (Heard(master) \cap Chosen(round(master)))' = Heard(master) \cap Chosen(round(master))
        <5>1. Heard(master) \cap Chosen(r)' = Heard(master) \cap Chosen(r)
          BY <3>3, <3>4
        <5> QED
          BY <2>2, <3>2, <5>1
      <4>2. Lists(whiteList[master], Heard(master) \cap Chosen(round(master)))'
        <5>1. PICK s, S : /\ s = whiteList'[master] /\ s = whiteList[master]
                          /\ S = (Heard(master) \cap Chosen(round(master)))'
                          /\ S = Heard(master) \cap Chosen(round(master))
          BY <2>1, <4>1
        <5>2. Lists(s, S)
          BY <3>5, <3>6, <5>1
        <5> QED
          BY <5>1, <5>2 DEF Lists, Injective, VAddrs
      <4> QED
        BY <2>1, <3>6, <4>2 DEF master
    <3>7. CASE pc[master] # "collect"
      <4>1. Chosen(round(master))' = Chosen(round(master))
        BY <3>2, <3>3, <3>4, <3>7
      <4>2. Lists(whiteList[master], Chosen(round(master)))'
        <5>1. PICK s, S : /\ s = whiteList'[master] /\ s = whiteList[master]
                          /\ S = Chosen(round(master))' /\ S = Chosen(round(master))
          BY <2>1, <4>1
        <5>2. Lists(s, S)
          BY <3>5, <3>7, <5>1
        <5> QED
          BY <5>1, <5>2 DEF Lists, Injective, VAddrs
      <4> QED
        BY <2>1, <3>7, <4>2 DEF master
    <3> QED
      BY <3>6, <3>7
  <2> QED
    BY <2>3, <2>4
<1> QED
  BY <1>5, <1>6

LEMMA CallStep ==
  ASSUME Inv, NEW p \in Peers, NEW member \in BOOLEAN, Call(p, member)
  PROVE  Inv'
<1>1. PICK n \in Nat \ {0} : n = round(p) + 1
  BY Bounds DEF Inv
<1>2. /\ UNCHANGED <<plan, contextIds, inBox, thrown, contexts, result, newID, newSize>>
      /\ Ctx(n) \in IDs
      /\ master \notin Group(n) => UNCHANGED wire
      /\ master \in Group(n) => SendTo(p, {master}, <<Msg("member", Ctx(n), member, n)>>)
  BY <1>1, CallFacts
<1>3. Shape'
  <2>1. /\ Splits(p) = Ctx(n)
        /\ old' = [old EXCEPT ![p] = [id |-> Splits(p), peers |-> contexts[p][Splits(p)]]]
        /\ wants' = [wants EXCEPT ![p] = Append(@, member)]
        /\ i' = [i EXCEPT ![p] = 1]
        /\ whiteList' = [whiteList EXCEPT ![p] = <<>>]
    BY <1>1, CalledOn DEF Call
  <2>2. PICK label \in {"thrown", "collect", "recvID", "barrier"} : pc' = [pc EXCEPT ![p] = label]
    BY DEF Call, Goto
  <2>3. wire' \in [Peers -> [Peers -> Seq(Messages)]]
    <3>1. CASE master \notin Group(n)
      BY <1>2, <3>1 DEF Inv, Shape
    <3>2. CASE master \in Group(n)
      <4>1. PICK m \in Messages : m = Msg("member", Ctx(n), member, n)
        <5>1. member \in Values /\ "member" \in Kinds
          BY DEF Values, Kinds
        <5> QED
          BY <1>2, <5>1 DEF Msg, Messages
      <4>2. <<m>> \in Seq(Messages)
        OBVIOUS
      <4> QED
        BY <1>2, <3>2, <4>1, <4>2, SendToMeans DEF Inv
    <3> QED
      BY <3>1, <3>2
  <2>4. old' \in [Peers -> [id : IDs, peers : Seq(Peers)]]
    <3>1. contexts[p][Ctx(n)] \in Seq(Peers)
      BY <1>2 DEF Inv, Shape
    <3> QED
      BY <1>2, <2>1, <3>1 DEF Inv, Shape
  <2>5. wants' \in [Peers -> Seq(BOOLEAN)]
    BY <1>1, <1>2, <2>1, CallGroups
  <2>6. i' \in [Peers -> Nat \ {0}] /\ whiteList' \in [Peers -> Seq(Peers)]
    BY <2>1 DEF Inv, Shape
  <2>7. pc' \in [Peers -> {"idle", "collect", "recvID", "recvSize", "recvList", "barrier",
                           "await", "thrown"}]
    BY <2>2 DEF Inv, Shape
  <2> QED
    BY <1>2, <2>3, <2>4, <2>5, <2>6, <2>7 DEF Inv, Shape, Messages, Values
<1>4. FirstContext'
  BY <1>2 DEF Inv, Calling, FirstContext, Lists, Injective, VAddrs
<1>5. \A a \in Peers : Place(a)' /\ NewContext(a)' /\ Known(a)'
  BY CallOwn, CallOthers
<1> QED
  BY <1>3, <1>4, <1>5, CallMaster, CallStreams DEF Inv, Calling

-----------------------------------------------------------------------------
(* The invariant                                                           *)

LEMMA InvInit ==
  ASSUME Init
  PROVE  Inv /\ HandlersSurvive
<1>1. plan \in Plans /\ plan.peers \in 1 .. MaxPeers
  BY PlanType DEF Init
<1>2. PICK s : s = [j \in 1 .. plan.peers |-> j - 1]
  OBVIOUS
<1>3. s \in Seq(Peers) /\ Lists(s, {q \in Peers : q < plan.peers})
  <2>1. PICK k \in Nat, N \in Nat : k = plan.peers /\ N = MaxPeers /\ k <= N
    BY <1>1, SplitAssumption
  <2>2. /\ s = [j \in 1 .. k |-> j - 1] /\ Peers = 0 .. N - 1
        /\ {q \in Peers : q < plan.peers} = {q \in 0 .. N - 1 : q < k}
    BY <1>2, <2>1 DEF Peers
  <2>3. s \in Seq(Peers)
    BY <2>1, <2>2
  <2>4. DOMAIN s = 1 .. k /\ \A j \in 1 .. k : s[j] = j - 1
    BY <2>2
  <2>5. Injective(s)
    BY <2>4 DEF Injective
  <2>6. ASSUME NEW q \in {q \in 0 .. N - 1 : q < k} PROVE q \in VAddrs(s)
    <3>1. q + 1 \in 1 .. k /\ s[q + 1] = q
      BY <2>4
    <3> QED
      BY <2>4, <3>1 DEF VAddrs
  <2>7. ASSUME NEW q \in VAddrs(s) PROVE q \in {r \in 0 .. N - 1 : r < k}
    <3>1. PICK j \in 1 .. k : q = j - 1
      BY <2>4 DEF VAddrs
    <3> QED
      BY <2>1, <3>1
  <2> QED
    BY <2>2, <2>3, <2>5, <2>6, <2>7 DEF Lists
<1>4. contexts = [p \in Peers |-> [c \in IDs |-> IF c = 0 THEN s ELSE <<>>]]
  BY <1>2 DEF Init
<1>5. contexts \in [Peers -> [IDs -> Seq(Peers)]] /\ \A p \in Peers : contexts[p][0] = s
  <2>1. <<>> \in Seq(Peers)
    OBVIOUS
  <2>2. [c \in IDs |-> IF c = 0 THEN s ELSE <<>>] \in [IDs -> Seq(Peers)]
    BY <1>3, <2>1
  <2> QED
    BY <1>4, <2>2, Constants
<1>6. Shape
  <2>1. wire \in [Peers -> [Peers -> Seq(Messages)]]
    BY DEF Init
  <2>2. inBox \in [Peers -> [IDs \X Peers -> Seq(Messages)]]
    BY DEF Init
  <2>3. old \in [Peers -> [id : IDs, peers : Seq(Peers)]]
    BY Constants DEF Init
  <2>4. IsFiniteSet(DOMAIN contextIds)
    <3>1. DOMAIN contextIds = {}
      BY DEF Init
    <3> QED
      BY <3>1, FS_EmptySet
  <2>5. wants \in [Peers -> Seq(BOOLEAN)] /\ result \in [Peers -> Seq(IDs \cup {-1})]
        /\ whiteList \in [Peers -> Seq(Peers)]
    BY DEF Init
  <2> QED
    BY <1>1, <1>5, <2>1, <2>2, <2>3, <2>4, <2>5 DEF Init, Shape
<1>7. ASSUME NEW p \in Peers
      PROVE  /\ round(p) = 0 /\ Reached(p) = 6 /\ \A q : Got(p, q) = 5
             /\ pc[p] = "idle" /\ result[p] = <<>> /\ i[p] = 1 /\ oldPeers(p) = <<>>
  <2>1. round(p) = 0 /\ pc[p] = "idle" /\ result[p] = <<>> /\ i[p] = 1 /\ oldPeers(p) = <<>>
    BY DEF Init, round, oldPeers
  <2> QED
    BY <1>6, <2>1, Levels
<1>8. ASSUME NEW p \in Peers, NEW q \in Peers
      PROVE  wire[q][p] = <<>> /\ \A c \in IDs : Box(p, c, q) = <<>>
  BY DEF Init, Box
<1>9. InOrder
  BY <1>8 DEF InOrder, Ascends, VAddrs
<1>10. Sound
  BY <1>8 DEF Sound, VAddrs
<1>11. Complete /\ Passed
  <2>1. ASSUME NEW r \in Nat \ {0}, NEW k \in SplitKinds
        PROVE  ~(Rank(r, k) <= 6) /\ ~(Rank(r, k) <= 5)
    <3>1. Rank(r, k) \in Nat /\ 6 * r + 1 <= Rank(r, k)
      BY Ranks
    <3> QED
      BY <3>1
  <2>2. Complete
    BY <1>7, <2>1 DEF Complete
  <2>3. Passed
    BY <1>7, <2>1 DEF Passed
  <2> QED
    BY <2>2, <2>3
<1>12. \A p \in Peers : Place(p) /\ NewContext(p) /\ Known(p)
  <2>1. SUFFICES ASSUME NEW p \in Peers PROVE Place(p) /\ NewContext(p) /\ Known(p)
    OBVIOUS
  <2>2. rounds \in Nat /\ Len(result[p]) = 0 /\ Len(oldPeers(p)) = 0 /\ 1 .. 0 = {}
    BY <1>1, <1>7, PlanType
  <2>3. Place(p)
    BY <1>7, <2>2 DEF Place
  <2>4. NewContext(p) /\ Known(p)
    BY <1>7 DEF NewContext, Known
  <2> QED
    BY <2>3, <2>4
<1>13. WhiteLists
  BY <1>7, Constants DEF WhiteLists
<1>14. FirstContext
  BY <1>3, <1>5 DEF FirstContext
<1>15. Names
  BY <1>7, Constants DEF Names, Init
<1>16. HandlersSurvive
  BY DEF Init, HandlersSurvive
<1> QED
  BY <1>6, <1>9, <1>10, <1>11, <1>12, <1>13, <1>14, <1>15, <1>16 DEF Inv, Streams, Calling

\* A user thread does not stop a handler.
LEMMA UserKeepsHandlers ==
  ASSUME HandlersSurvive, NEW p \in Peers, Calls(p) \/ UserStep(p)
  PROVE  HandlersSurvive'
<1>1. UNCHANGED thrown
  BY DEF Calls, UserStep, Call, Collect, Distribute, RecvID, RecvSize, RecvList, Barrier, Await, Return
<1> QED
  BY <1>1 DEF HandlersSurvive

LEMMA InvNext ==
  ASSUME Inv, HandlersSurvive, [Next]_vars
  PROVE  Inv' /\ HandlersSurvive'
<1>1. CASE UNCHANGED vars
  <2>1. UNCHANGED <<plan, contextIds, wire, inBox, thrown, contexts, wants, result, pc, old, i,
                    whiteList, newID, newSize>>
    BY <1>1 DEF vars, answers, local
  <2>2. Shape' /\ Calling'
    BY <2>1, SameCalling DEF Inv, Shape, Messages, Values
  <2>3. \A a \in Peers : Reached(a)' = Reached(a) /\ \A b : Got(a, b)' = Got(a, b)
    BY <2>1, OthersStay
  <2>4. Advances(master, {}, <<>>)
    <3>1. SendTo(master, {}, <<>>) /\ master \in Peers
      BY <2>1, NoSend, Constants DEF Inv
    <3>2. \A a \in Peers : Reached(a) \in Nat /\ \A b : Got(a, b) \in Nat
      BY Bounds DEF Inv
    <3>3. VAddrs(<<>>) = {} /\ Ascends(<<>>)
      BY DEF VAddrs, Ascends
    <3>4. \A s \in Nat \ {0}, l \in SplitKinds : Rank(s, l) \in Nat
      BY Ranks
    <3> QED
      BY <2>1, <2>3, <3>1, <3>2, <3>3, <3>4 DEF Advances
  <2>5. Streams'
    <3>1. <<>> \in Seq(Messages)
      OBVIOUS
    <3> QED
      BY <2>4, <3>1, AdvanceStreams, Constants
  <2> QED
    BY <2>1, <2>2, <2>5 DEF Inv, HandlersSurvive
<1>2. ASSUME NEW p \in Peers, NEW member \in BOOLEAN, Call(p, member)
      PROVE  Inv' /\ HandlersSurvive'
  BY <1>2, CallStep, UserKeepsHandlers DEF Calls
<1>3. ASSUME NEW p \in Peers, UserStep(p)
      PROVE  Inv' /\ HandlersSurvive'
  <2>1. Inv'
    <3>1. CASE Collect(p)
      BY <3>1, CollectStep
    <3>2. CASE Distribute(p)
      BY <3>2, DistributeStep
    <3>3. CASE RecvID(p)
      BY <3>3, RecvIDStep
    <3>4. CASE RecvSize(p)
      BY <3>4, RecvSizeStep
    <3>5. CASE RecvList(p)
      BY <3>5, RecvListStep
    <3>6. CASE Barrier(p)
      BY <3>6, BarrierStep
    <3>7. CASE Await(p)
      BY <3>7, AwaitStep
    <3>8. CASE Return(p)
      BY <3>8, ReturnStep
    <3> QED
      BY <1>3, <3>1, <3>2, <3>3, <3>4, <3>5, <3>6, <3>7, <3>8 DEF UserStep
  <2> QED
    BY <1>3, <2>1, UserKeepsHandlers
<1>4. ASSUME NEW p \in Peers, NEW q \in Peers, HandleRecv(p, q)
      PROVE  Inv' /\ HandlersSurvive'
  <2>1. Streams' /\ HandlersSurvive' /\ Shape'
    BY <1>4, MoveStreams
  <2>2. UNCHANGED <<plan, contextIds, contexts, wants, result, pc, old, i, whiteList,
                    newID, newSize>>
    BY <1>4 DEF HandleRecv, answers, local
  <2>3. Calling'
    BY <2>2, SameCalling DEF Inv
  <2> QED
    BY <2>1, <2>3 DEF Inv
<1> QED
  BY <1>1, <1>2, <1>3, <1>4 DEF Next, Calls

-----------------------------------------------------------------------------
(* The theorems                                                            *)

\* In every execution the messages of a peer to another are read in the order
\* in which they were sent, each by the receive of splitContext that its sender
\* meant it for, and no receive handler meets a context it does not know.  The
\* two depend on each other: a PEER message overtakes nothing as it is sent
\* after the barrier, and the barrier is one of messages of the same streams.
THEOREM SplitInvariant == Spec => [](Inv /\ HandlersSurvive)
<1>1. Init => Inv /\ HandlersSurvive
  BY InvInit
<1>2. (Inv /\ HandlersSurvive) /\ [Next]_vars => (Inv /\ HandlersSurvive)'
  BY InvNext
<1> QED
  BY <1>1, <1>2, PTL DEF Spec

LEMMA InvType ==
  ASSUME Inv
  PROVE  TypeOK
<1>1. Shape
  BY DEF Inv
<1>2. \A n \in DOMAIN contextIds : contextIds[n] \in IDs \ {0}
  BY IdsTyped
<1>3. ASSUME NEW p \in Peers, NEW q \in Peers, NEW j \in DOMAIN wire[p][q]
      PROVE  wire[p][q][j].kind \in Kinds
  <2>1. wire[p][q] \in Seq(Messages)
    BY <1>1 DEF Shape
  <2>2. wire[p][q][j] \in Messages
    BY <1>3, <2>1
  <2> QED
    BY <2>2 DEF Messages
<1> QED
  BY <1>1, <1>2, <1>3 DEF Shape, TypeOK

\* The state of splitContext has its types: the ids the server gives and those
\* a peer enters in its table of contexts stay within one per call, and a
\* context is a list of peers.
THEOREM TypeCorrect == Spec => []TypeOK
<1>1. Inv /\ HandlersSurvive => TypeOK
  BY InvType
<1> QED
  BY <1>1, SplitInvariant, PTL

\* All messages of one sender in a context share a key, whatever they say and
\* in whichever call.  Still every receive of splitContext gets the message it
\* is meant to get: the one of the kind it expects, of this very call.
THEOREM ReceivesWhatIsMeant == Spec => []NeverMisread
<1>1. Inv /\ HandlersSurvive => NeverMisread
  BY InvRead
<1> QED
  BY <1>1, SplitInvariant, PTL

\* No receive handler ends by an exception: a message in a new context reaches
\* no peer that has not entered that context, as the barrier promises.
THEOREM HandlersGoOn == Spec => []HandlersSurvive
BY SplitInvariant, PTL

-----------------------------------------------------------------------------
(* Agreement                                                               *)

Id(r) == contextIds[plan.names[r]]

\* p knows the context of its r-th call, by the name it has since then.
Entered(p, r) ==
    /\ r \in 1 .. round(p) /\ wants[p][r]
    /\ r < round(p) \/ pc[p] \in {"barrier", "await", "idle"}
Holds(p, r) == Entered(p, r) /\ Current(p, r)

DistinctIds == \A m, n \in DOMAIN contextIds : contextIds[m] = contextIds[n] => m = n

Results ==
    \A p \in Peers : \A r \in 1 .. Len(result[p]) :
      result[p][r] = IF wants[p][r] THEN Id(r) ELSE -1

Members ==
    \A p \in Peers, r \in Nat \ {0} : Holds(p, r) => Lists(contexts[p][Id(r)], Chosen(r))

OneList ==
    \A p, q \in Peers, r \in Nat \ {0} :
      Holds(p, r) /\ Holds(q, r) => contexts[p][Id(r)] = contexts[q][Id(r)]

\* The list that is on its way is the one that others have entered.
ThisList ==
    round(master) # 0 /\ pc[master] \notin {"collect", "thrown"} =>
      \A q \in Peers : Holds(q, round(master)) =>
        contexts[q][Id(round(master))] = whiteList[master]

Agreement == DistinctIds /\ Results /\ Members /\ OneList /\ ThisList

LEMMA HeldName ==
  ASSUME Inv, NEW p \in Peers, NEW r, Entered(p, r)
  PROVE  /\ r \in 1 .. round(p) /\ r \in Nat \ {0} /\ p \in Chosen(r)
         /\ plan.names[r] \in DOMAIN contextIds /\ Id(r) \in IDs \ {0}
<1>1. /\ r \in 1 .. round(p) /\ wants[p][r]
      /\ r < round(p) \/ pc[p] \in {"barrier", "await", "idle"}
  BY DEF Entered
<1>2. DOMAIN wants[p] = 1 .. round(p) /\ round(p) \in Nat
  BY DEF Inv, Shape, round
<1>3. plan.names[r] \in DOMAIN contextIds
  BY <1>1, KnownName
<1>4. Id(r) \in IDs \ {0}
  BY <1>3, IdsTyped DEF Id
<1> QED
  BY <1>1, <1>2, <1>3, <1>4 DEF Chosen

\* What peer p got in its r-th call, and what others did: the claim of the
\* property, from what the peers hold.
LEMMA AgreementMeans ==
  ASSUME Inv, Agreement
  PROVE  SplitAgrees
<1>1. SUFFICES ASSUME NEW p \in Peers, NEW q \in Peers, NEW r \in DOMAIN result[p] \cap DOMAIN wants[q],
                      NEW c, c = result[p][r], c # -1, Current(p, r), Current(q, r)
               PROVE  /\ wants[p][r] /\ p \in VAddrs(contexts[p][c])
                      /\ \A n \in 1 .. r - 1 : result[p][n] = c => plan.names[n] = plan.names[r]
                      /\ ~plan.nested => (q \in VAddrs(contexts[p][c]) <=> wants[q][r])
                      /\ (q \in VAddrs(contexts[p][c]) /\ r \in DOMAIN result[q]) =>
                           result[q][r] = c /\ contexts[q][c] = contexts[p][c]
  BY DEF SplitAgrees
<1>2. \A a \in Peers :
        /\ DOMAIN result[a] = 1 .. Len(result[a]) /\ Len(result[a]) \in Nat
        /\ round(a) \in Nat /\ DOMAIN wants[a] = 1 .. round(a)
        /\ Len(result[a]) = IF pc[a] = "idle" THEN round(a) ELSE round(a) - 1
  <2>1. SUFFICES ASSUME NEW a \in Peers
                 PROVE  /\ DOMAIN result[a] = 1 .. Len(result[a]) /\ Len(result[a]) \in Nat
                        /\ round(a) \in Nat /\ DOMAIN wants[a] = 1 .. round(a)
                        /\ Len(result[a]) = IF pc[a] = "idle" THEN round(a) ELSE round(a) - 1
    OBVIOUS
  <2>2. result[a] \in Seq(IDs \cup {-1}) /\ wants[a] \in Seq(BOOLEAN)
    BY DEF Inv, Shape
  <2>3. round(a) \in Nat /\ DOMAIN wants[a] = 1 .. round(a)
    BY <2>2 DEF round
  <2>4. Len(result[a]) = IF pc[a] = "idle" THEN round(a) ELSE round(a) - 1
    BY DEF Inv, Calling, Place
  <2>5. DOMAIN result[a] = 1 .. Len(result[a]) /\ Len(result[a]) \in Nat
    BY <2>2
  <2> QED
    BY <2>3, <2>4, <2>5
<1>3. ASSUME NEW a \in Peers, NEW n \in 1 .. Len(result[a]), wants[a][n]
      PROVE  Entered(a, n) /\ result[a][n] = Id(n)
  <2>1. Entered(a, n)
    BY <1>2, <1>3 DEF Entered
  <2> QED
    BY <1>3, <2>1 DEF Agreement, Results
<1>4. ASSUME NEW a \in Peers, NEW n \in 1 .. Len(result[a]), ~wants[a][n]
      PROVE  result[a][n] = -1
  BY <1>4 DEF Agreement, Results
<1>5. r \in 1 .. Len(result[p]) /\ r \in 1 .. round(q)
  BY <1>2
<1>6. wants[p][r] /\ Entered(p, r) /\ c = Id(r) /\ Holds(p, r)
  BY <1>1, <1>3, <1>4, <1>5 DEF Holds
<1>7. r \in Nat \ {0} /\ p \in Chosen(r) /\ plan.names[r] \in DOMAIN contextIds
  BY <1>6, HeldName
<1>8. VAddrs(contexts[p][c]) = Chosen(r)
  BY <1>6, <1>7 DEF Agreement, Members, Lists
<1>9. ASSUME NEW n \in 1 .. r - 1, result[p][n] = c
      PROVE  plan.names[n] = plan.names[r]
  <2>1. n \in 1 .. Len(result[p])
    BY <1>2, <1>5
  <2>2. Entered(p, n) /\ c = Id(n)
    BY <1>1, <1>3, <1>4, <1>9, <2>1
  <2>3. plan.names[n] \in DOMAIN contextIds
    BY <2>2, HeldName
  <2> QED
    BY <1>6, <1>7, <2>2, <2>3 DEF Agreement, DistinctIds, Id
<1>10. q \in Chosen(r) <=> wants[q][r]
  BY <1>2, <1>5 DEF Chosen
<1>11. ASSUME q \in Chosen(r), r \in DOMAIN result[q]
       PROVE  result[q][r] = c /\ contexts[q][c] = contexts[p][c]
  <2>1. Entered(q, r) /\ result[q][r] = Id(r)
    BY <1>2, <1>3, <1>10, <1>11
  <2>2. Holds(q, r)
    BY <1>1, <2>1 DEF Holds
  <2> QED
    BY <1>6, <1>7, <2>1, <2>2 DEF Agreement, OneList
<1> QED
  BY <1>6, <1>7, <1>8, <1>9, <1>10, <1>11

\* A step in which nobody enters a context.
LEMMA KeepsMembers ==
  ASSUME Inv, Agreement, UNCHANGED <<plan, contexts>>,
         \A n \in DOMAIN contextIds : contextIds'[n] = contextIds[n],
         \A a \in Peers, r \in Nat \ {0} : Holds(a, r)' => Holds(a, r) /\ Chosen(r)' = Chosen(r)
  PROVE  Members' /\ OneList'
<1>1. ASSUME NEW a \in Peers, NEW r \in Nat \ {0}, Holds(a, r)'
      PROVE  /\ Holds(a, r) /\ Chosen(r)' = Chosen(r)
             /\ contexts'[a][Id(r)'] = contexts[a][Id(r)]
  <2>1. Holds(a, r) /\ Chosen(r)' = Chosen(r)
    BY <1>1
  <2>2. plan.names[r] \in DOMAIN contextIds
    BY <2>1, HeldName DEF Holds
  <2>3. Id(r)' = Id(r)
    BY <2>2 DEF Id
  <2> QED
    BY <2>1, <2>3
<1>2. ASSUME NEW a \in Peers, NEW r \in Nat \ {0}, Holds(a, r)'
      PROVE  Lists(contexts[a][Id(r)], Chosen(r))'
  <2>1. PICK s, S : /\ s = contexts'[a][Id(r)'] /\ s = contexts[a][Id(r)]
                    /\ S = Chosen(r)' /\ S = Chosen(r)
    BY <1>1, <1>2
  <2>2. Lists(s, S)
    BY <1>1, <1>2, <2>1 DEF Agreement, Members
  <2> QED
    BY <2>1, <2>2 DEF Lists, Injective, VAddrs
<1>3. ASSUME NEW a \in Peers, NEW b \in Peers, NEW r \in Nat \ {0}, Holds(a, r)', Holds(b, r)'
      PROVE  contexts'[a][Id(r)'] = contexts'[b][Id(r)']
  BY <1>1, <1>3 DEF Agreement, OneList
<1> QED
  BY <1>2, <1>3 DEF Members, OneList

\* Who holds what, when only places change.
LEMMA SameHolds ==
  ASSUME Inv, UNCHANGED <<plan, wants>>,
         \A a \in Peers : pc'[a] \in {"barrier", "await", "idle"} =>
           pc[a] \in {"barrier", "await", "idle"} \/ ~wants[a][round(a)]
  PROVE  /\ \A a \in Peers : \A r : Holds(a, r)' => Holds(a, r)
         /\ \A r : Chosen(r)' = Chosen(r)
<1>1. \A r : Chosen(r)' = Chosen(r)
  BY DEF Chosen
<1>2. ASSUME NEW a \in Peers, NEW r, Holds(a, r)' PROVE Holds(a, r)
  <2>1. round(a)' = round(a) /\ round(a) \in Nat
    BY Bounds DEF Inv, round
  <2>2. Current(a, r)
    BY <1>2 DEF Holds, Current
  <2>3. Entered(a, r)
    BY <1>2, <2>1 DEF Holds, Entered
  <2> QED
    BY <2>2, <2>3 DEF Holds
<1> QED
  BY <1>1, <1>2

\* A step that neither enters a context, nor registers or returns one.
LEMMA KeepsAgreement ==
  ASSUME Inv, Agreement, UNCHANGED <<plan, contexts, wants, contextIds, result>>,
         \A a \in Peers : pc'[a] \in {"barrier", "await", "idle"} =>
           pc[a] \in {"barrier", "await", "idle"} \/ ~wants[a][round(a)],
         \/ pc'[master] \in {"collect", "thrown"}
         \/ pc[master] \notin {"collect", "thrown"} /\ whiteList'[master] = whiteList[master]
  PROVE  Agreement'
<1>1. /\ \A a \in Peers : \A r : Holds(a, r)' => Holds(a, r)
      /\ \A r : Chosen(r)' = Chosen(r)
  BY SameHolds
<1>2. Members' /\ OneList'
  BY <1>1, KeepsMembers
<1>3. DistinctIds' /\ Results'
  BY DEF Agreement, DistinctIds, Results, Id
<1>4. ThisList'
  <2>1. round(master)' = round(master)
    BY DEF round
  <2>2. SUFFICES ASSUME round(master) # 0, pc'[master] \notin {"collect", "thrown"},
                        NEW q \in Peers, Holds(q, round(master))'
                 PROVE  (contexts[q][Id(round(master))] = whiteList[master])'
    BY <2>1 DEF ThisList, master
  <2>3. PICK r : r = round(master) /\ r = round(master)'
    BY <2>1
  <2>4. Holds(q, r)
    BY <1>1, <2>2, <2>3
  <2>5. contexts[q][Id(r)] = whiteList[master]
    BY <2>2, <2>3, <2>4 DEF Agreement, ThisList
  <2>6. Id(r)' = Id(r)
    BY DEF Id
  <2> QED
    BY <2>2, <2>3, <2>5, <2>6
<1> QED
  BY <1>2, <1>3, <1>4 DEF Agreement

LEMMA AgreementReceive ==
  ASSUME Inv, Agreement, NEW p \in Peers,
         Collect(p) \/ RecvID(p) \/ RecvSize(p) \/ Barrier(p) \/ Await(p)
  PROVE  Agreement'
<1>1. UNCHANGED <<plan, contexts, wants, contextIds, result>>
  BY DEF Collect, RecvID, RecvSize, Barrier, Await, answers
<1>2. pc \in [Peers -> {"idle", "collect", "recvID", "recvSize", "recvList", "barrier",
                        "await", "thrown"}]
      /\ whiteList \in [Peers -> Seq(Peers)]
  BY DEF Inv, Shape
<1>3. \A a \in Peers : a # p => pc'[a] = pc[a] /\ whiteList'[a] = whiteList[a]
  BY <1>2 DEF Collect, RecvID, RecvSize, Barrier, Await, Goto
<1>4. \/ pc'[p] = pc[p] /\ pc[p] \in {"collect", "await"}
      \/ pc[p] = "recvID" /\ pc'[p] = "recvSize"
      \/ pc[p] = "recvSize" /\ pc'[p] = "recvList"
      \/ pc[p] = "barrier" /\ pc'[p] = "await"
  BY <1>2 DEF Collect, RecvID, RecvSize, Barrier, Await, Goto
<1>5. pc[p] = "collect" \/ UNCHANGED whiteList
  BY DEF Collect, RecvID, RecvSize, Barrier, Await
<1>6. \A a \in Peers : pc'[a] \in {"barrier", "await", "idle"} => pc[a] \in {"barrier", "await", "idle"}
  BY <1>3, <1>4
<1>7. \/ pc'[master] \in {"collect", "thrown"}
      \/ pc[master] \notin {"collect", "thrown"} /\ whiteList'[master] = whiteList[master]
  <2>1. CASE p = master
    BY <1>4, <1>5, <2>1
  <2>2. CASE p # master
    BY <1>3, <2>2, Constants
  <2> QED
    BY <2>1, <2>2
<1> QED
  BY <1>1, <1>6, <1>7, KeepsAgreement

LEMMA AgreementSkip ==
  ASSUME Inv, Agreement, UNCHANGED <<plan, contexts, wants, contextIds, result, pc, whiteList>>
  PROVE  Agreement'
BY KeepsAgreement

LEMMA AgreementReturn ==
  ASSUME Inv, Agreement, NEW p \in Peers, Return(p)
  PROVE  Agreement'
<1>1. /\ UNCHANGED <<plan, contexts, wants, contextIds, whiteList, newID>>
      /\ pc[p] = "await" /\ pc' = [pc EXCEPT ![p] = "idle"]
  BY DEF Return, Goto
<1>2. pc'[p] = "idle" /\ \A a \in Peers : a # p => pc'[a] = pc[a]
  BY <1>1 DEF Inv, Shape
<1>3. /\ \A a \in Peers : \A r : Holds(a, r)' => Holds(a, r)
      /\ \A r : Chosen(r)' = Chosen(r)
  BY <1>1, <1>2, SameHolds
<1>4. Members' /\ OneList'
  BY <1>1, <1>3, KeepsMembers
<1>5. DistinctIds'
  BY <1>1 DEF Agreement, DistinctIds
<1>6. ThisList'
  <2>1. round(master)' = round(master)
    BY <1>1 DEF round
  <2>2. SUFFICES ASSUME round(master) # 0, pc'[master] \notin {"collect", "thrown"},
                        NEW q \in Peers, Holds(q, round(master))'
                 PROVE  (contexts[q][Id(round(master))] = whiteList[master])'
    BY <2>1 DEF ThisList, master
  <2>3. PICK r : r = round(master) /\ r = round(master)'
    BY <2>1
  <2>4. Holds(q, r) /\ pc[master] \notin {"collect", "thrown"}
    BY <1>1, <1>2, <1>3, <2>2, <2>3, Constants
  <2>5. contexts[q][Id(r)] = whiteList[master]
    BY <2>2, <2>3, <2>4 DEF Agreement, ThisList
  <2>6. Id(r)' = Id(r)
    BY <1>1 DEF Id
  <2> QED
    BY <1>1, <2>3, <2>5, <2>6
<1>7. PICK n \in Nat \ {0} : n = round(p) /\ Len(result[p]) = n - 1 /\ n \in 1 .. round(p)
  <2>1. round(p) # 0 /\ Len(result[p]) = round(p) - 1 /\ round(p) \in Nat
    BY <1>1, Bounds DEF Inv, Calling, Place
  <2> QED
    BY <2>1
<1>8. PICK x \in IDs \cup {-1} : /\ result' = [result EXCEPT ![p] = Append(@, x)]
                                 /\ x = IF wants[p][n] THEN Id(n) ELSE -1
  <2>1. newID[p] \in IDs \cup {-1} /\ (wants[p][n] => newID[p] = Id(n))
    <3>1. NewContext(p)
      BY DEF Inv, Calling
    <3>2. wants[p][n] => newID[p] = Id(n)
      BY <1>1, <1>7, <3>1 DEF NewContext, Id
    <3> QED
      BY <3>2 DEF Inv, Shape
  <2>2. CASE wants[p][n]
    BY <1>7, <2>1, <2>2 DEF Return, isMember
  <2>3. CASE ~wants[p][n]
    BY <1>7, <2>1, <2>3 DEF Return, isMember
  <2> QED
    BY <2>2, <2>3
<1>9. Results'
  <2>1. PICK s \in Seq(IDs \cup {-1}) : s = result[p] /\ Len(s) = n - 1
    BY <1>7 DEF Inv, Shape
  <2>2. /\ Append(s, x) \in Seq(IDs \cup {-1}) /\ Len(Append(s, x)) = n
        /\ \A r \in 1 .. n - 1 : Append(s, x)[r] = s[r]
        /\ Append(s, x)[n] = x
    BY <2>1, AppendProperties
  <2>3. result'[p] = Append(s, x) /\ \A a \in Peers : a # p => result'[a] = result[a]
    BY <1>8, <2>1 DEF Inv, Shape
  <2>4. \A r : Id(r)' = Id(r)
    BY <1>1 DEF Id
  <2>5. ASSUME NEW a \in Peers, NEW r \in 1 .. Len(result'[a])
        PROVE  result'[a][r] = IF wants'[a][r] THEN Id(r)' ELSE -1
    <3>1. CASE a # p
      BY <1>1, <2>3, <2>4, <2>5, <3>1 DEF Agreement, Results
    <3>2. CASE a = p /\ r = n
      BY <1>1, <1>8, <2>2, <2>3, <2>4, <3>2
    <3>3. CASE a = p /\ r # n
      <4>1. r \in 1 .. n - 1
        BY <2>2, <2>3, <2>5, <3>3
      <4>2. r \in 1 .. Len(result[p]) /\ result'[p][r] = result[p][r]
        BY <2>1, <2>2, <2>3, <4>1
      <4> QED
        BY <1>1, <2>4, <3>3, <4>2 DEF Agreement, Results
    <3> QED
      BY <3>1, <3>2, <3>3
  <2> QED
    BY <2>5 DEF Results
<1> QED
  BY <1>4, <1>5, <1>6, <1>9 DEF Agreement

\* The master distributes a context: nobody has entered it yet, and the id of a
\* new name is new.
LEMMA AgreementDistribute ==
  ASSUME Inv, Agreement, NEW p \in Peers, Distribute(p)
  PROVE  Agreement'
<1>1. /\ UNCHANGED <<plan, contexts, wants, result, whiteList>> /\ contextIds' = Registered(p)
      /\ pc[p] = "collect" /\ pc' = [pc EXCEPT ![p] = IF isMember(p) THEN "recvID" ELSE "barrier"]
  BY DEF Distribute, Goto, answers
<1>2. p = master
  BY <1>1 DEF Inv, Calling, Place
<1>3. PICK n \in Nat \ {0} : n = round(p) /\ n \in 1 .. round(p) /\ isMember(p) = wants[p][n]
  BY <1>1, AtWork
<1>4. /\ getContextID(p) \in IDs \ {0}
      /\ DOMAIN contextIds' = DOMAIN contextIds \cup {plan.names[n]}
      /\ contextIds'[plan.names[n]] = getContextID(p)
      /\ \A d \in DOMAIN contextIds : contextIds'[d] = contextIds[d]
  BY <1>1, <1>2, <1>3, Registers
<1>5. /\ pc'[p] = "recvID" \/ (pc'[p] = "barrier" /\ ~wants[p][n])
      /\ \A a \in Peers : a # p => pc'[a] = pc[a]
  BY <1>1, <1>3 DEF Inv, Shape
<1>6. /\ \A a \in Peers : \A r : Holds(a, r)' => Holds(a, r)
      /\ \A r : Chosen(r)' = Chosen(r)
  <2>1. \A a \in Peers : pc'[a] \in {"barrier", "await", "idle"} =>
          pc[a] \in {"barrier", "await", "idle"} \/ ~wants[a][round(a)]
    BY <1>3, <1>5
  <2> QED
    BY <1>1, <2>1, SameHolds
<1>7. Members' /\ OneList'
  BY <1>1, <1>4, <1>6, KeepsMembers
<1>8. DistinctIds'
  <2>1. CASE plan.names[n] \in DOMAIN contextIds
    <3>1. DOMAIN contextIds' = DOMAIN contextIds
      BY <1>4, <2>1
    <3> QED
      BY <1>4, <3>1 DEF Agreement, DistinctIds
  <2>2. CASE plan.names[n] \notin DOMAIN contextIds
    <3>1. getContextID(p) = Cardinality(DOMAIN contextIds) + 1
      BY <1>3, <2>2 DEF getContextID, drawn
    <3>2. \A d \in DOMAIN contextIds : contextIds[d] \in 1 .. Cardinality(DOMAIN contextIds)
      BY DEF Inv, Calling, Names
    <3>3. Cardinality(DOMAIN contextIds) \in Nat
      BY FS_CardinalityType DEF Inv, Shape
    <3>4. \A d \in DOMAIN contextIds : contextIds[d] # getContextID(p)
      BY <3>1, <3>2, <3>3
    <3> QED
      BY <1>4, <3>4 DEF Agreement, DistinctIds
  <2> QED
    BY <2>1, <2>2
<1>9. Results'
  <2>1. ASSUME NEW a \in Peers, NEW r \in 1 .. Len(result'[a])
        PROVE  result'[a][r] = IF wants'[a][r] THEN Id(r)' ELSE -1
    <3>1. result[a][r] = IF wants[a][r] THEN Id(r) ELSE -1
      BY <1>1, <2>1 DEF Agreement, Results
    <3>2. CASE wants[a][r]
      <4>1. r \in 1 .. round(a) /\ (r < round(a) \/ pc[a] = "idle")
        <5>1. Len(result[a]) = IF pc[a] = "idle" THEN round(a) ELSE round(a) - 1
          BY DEF Inv, Calling, Place
        <5>2. round(a) \in Nat
          BY Bounds DEF Inv
        <5> QED
          BY <1>1, <2>1, <5>1, <5>2
      <4>2. plan.names[r] \in DOMAIN contextIds
        BY <3>2, <4>1, KnownName
      <4>3. Id(r)' = Id(r)
        BY <1>1, <1>4, <4>2 DEF Id
      <4> QED
        BY <1>1, <3>1, <3>2, <4>3
    <3>3. CASE ~wants[a][r]
      BY <1>1, <3>1, <3>3
    <3> QED
      BY <3>2, <3>3
  <2> QED
    BY <2>1 DEF Results
<1>10. ASSUME NEW q \in Peers, Holds(q, n) PROVE FALSE
  <2>1. Entered(q, n)
    BY <1>10 DEF Holds
  <2>2. n \in 1 .. round(q) /\ q \in Chosen(n)
    BY <2>1, HeldName
  <2>3. /\ Rank(n, "list") = 6 * n + 4 /\ round(q) \in Nat
        /\ Got(q, master) \in Nat /\ 6 * round(q) <= Got(q, master)
    BY Ranks, Bounds DEF Inv
  <2>4. 6 * n + 4 <= Got(q, master) /\ (n < round(q) \/ pc[q] # "thrown")
    <3>1. CASE n < round(q)
      BY <2>2, <2>3, <3>1
    <3>2. CASE n = round(q) /\ pc[q] \in {"barrier", "await", "idle"}
      <4>1. /\ pc[q] = "barrier" => Got(q, master) = 6 * n + 4
            /\ pc[q] = "await" => Got(q, master) = 6 * n + 5 \/ Got(q, master) = 6 * n + 4
            /\ pc[q] = "idle" => Got(q, master) = 6 * n + 5
        BY <3>2, Levels DEF Inv
      <4> QED
        BY <3>2, <4>1
    <3>3. n < round(q) \/ pc[q] \in {"barrier", "await", "idle"}
      BY <2>1 DEF Entered
    <3>4. n < round(q) \/ n = round(q)
      BY <2>2, <2>3
    <3> QED
      BY <3>1, <3>2, <3>3, <3>4
  <2>5. Rank(n, "list") <= Reached(master)
    BY <2>2, <2>3, <2>4, FromMaster
  <2>6. Reached(master) = 6 * n + 1
    BY <1>1, <1>2, <1>3, Levels DEF Inv
  <2> QED
    BY <2>3, <2>5, <2>6
<1>11. ThisList'
  <2>1. round(master)' = n
    BY <1>1, <1>2, <1>3 DEF round
  <2>2. \A q \in Peers : ~Holds(q, n)'
    BY <1>6, <1>10
  <2> QED
    BY <2>1, <2>2 DEF ThisList, master
<1> QED
  BY <1>7, <1>8, <1>9, <1>11 DEF Agreement

\* A member enters the context: it is the list that the others have.
LEMMA AgreementEnters ==
  ASSUME Inv, Agreement, NEW p \in Peers, RecvList(p)
  PROVE  Agreement'
<1>1. /\ pc[p] = "recvList" /\ pc' = [pc EXCEPT ![p] = "barrier"]
      /\ UNCHANGED <<plan, contextIds, wants, result, whiteList>>
  BY DEF RecvList, answers, Goto
<1>2. PICK id \in IDs \ {0}, list \in Seq(Peers) :
        /\ id = contextIds[plan.names[round(p)]] /\ newID[p] = id /\ list = whiteList[master]
        /\ Lists(list, Chosen(round(p))) /\ list # <<>>
        /\ contexts' = [contexts EXCEPT ![p][id] = list]
  BY EntersList
<1>3. PICK n \in Nat \ {0} : n = round(p) /\ n \in 1 .. round(p) /\ p \in Chosen(n) /\ wants[p][n]
  <2>1. wants[p][round(p)]
    BY <1>1 DEF Inv, Calling, Place
  <2>2. round(p) \in Nat \ {0} /\ round(p) \in 1 .. round(p) /\ isMember(p) = wants[p][round(p)]
        /\ (isMember(p) => p \in Chosen(round(p)))
    BY <1>1, AtWork
  <2> QED
    BY <2>1, <2>2
<1>4. /\ contexts'[p][id] = list
      /\ \A d \in IDs : d # id => contexts'[p][d] = contexts[p][d]
      /\ \A a \in Peers : a # p => contexts'[a] = contexts[a]
  BY <1>2 DEF Inv, Shape
<1>5. pc'[p] = "barrier" /\ \A a \in Peers : a # p => pc'[a] = pc[a]
  BY <1>1 DEF Inv, Shape
<1>6. round(master) = n /\ pc[master] \notin {"collect", "thrown"} /\ id = Id(n)
  BY <1>1, <1>2, <1>3, TheList DEF Id
<1>7. \A r : Id(r)' = Id(r) /\ Chosen(r)' = Chosen(r)
  BY <1>1 DEF Id, Chosen
<1>8. \A a \in Peers : round(a)' = round(a) /\ round(a) \in Nat
  BY <1>1, Bounds DEF Inv, round
<1>9. plan.names[n] \in DOMAIN contextIds
  BY <1>1, <1>3, KnownName
<1>10. ASSUME NEW a \in Peers, NEW r \in Nat \ {0}, Holds(a, r)', ~(a = p /\ r = n)
       PROVE  Holds(a, r) /\ contexts'[a][Id(r)] = contexts[a][Id(r)]
  <2>1. Current(a, r)
    BY <1>1, <1>10 DEF Holds, Current
  <2>2. CASE a # p
    <3>1. Entered(a, r)
      BY <1>1, <1>5, <1>8, <1>10, <2>2 DEF Holds, Entered
    <3> QED
      BY <1>4, <2>1, <2>2, <3>1 DEF Holds
  <2>3. CASE a = p
    <3>1. Entered(a, r) /\ r < n
      BY <1>1, <1>3, <1>8, <1>10, <2>3 DEF Holds, Entered
    <3>2. plan.names[r] \in DOMAIN contextIds /\ Id(r) \in IDs
      BY <3>1, HeldName
    <3>3. plan.names[n] # plan.names[r]
      <4>1. DOMAIN wants[p] = 1 .. round(p)
        BY DEF Inv, Shape, round
      <4> QED
        BY <1>3, <2>1, <2>3, <3>1, <4>1 DEF Current
    <3>4. Id(r) # id
      BY <1>6, <1>9, <3>2, <3>3 DEF Agreement, DistinctIds, Id
    <3> QED
      BY <1>4, <2>1, <2>3, <3>1, <3>2, <3>4 DEF Holds
  <2> QED
    BY <2>2, <2>3
<1>11. ASSUME NEW a \in Peers, Holds(a, n)'
       PROVE  contexts'[a][Id(n)] = list
  <2>1. CASE a = p
    BY <1>4, <1>6, <2>1
  <2>2. CASE a # p
    <3>1. Holds(a, n) /\ contexts'[a][Id(n)] = contexts[a][Id(n)]
      BY <1>10, <1>11, <2>2
    <3>2. contexts[a][Id(n)] = whiteList[master]
      BY <1>6, <3>1 DEF Agreement, ThisList
    <3> QED
      BY <1>2, <3>1, <3>2
  <2> QED
    BY <2>1, <2>2
<1>12. Members'
  <2>1. ASSUME NEW a \in Peers, NEW r \in Nat \ {0}, Holds(a, r)'
        PROVE  Lists(contexts[a][Id(r)], Chosen(r))'
    <3>1. PICK s, S : /\ s = contexts'[a][Id(r)'] /\ s = contexts'[a][Id(r)]
                      /\ S = Chosen(r)' /\ S = Chosen(r)
      BY <1>7
    <3>2. Lists(s, S)
      <4>1. CASE r = n
        BY <1>2, <1>3, <1>11, <2>1, <3>1, <4>1
      <4>2. CASE r # n
        BY <1>10, <2>1, <3>1, <4>2 DEF Agreement, Members
      <4> QED
        BY <4>1, <4>2
    <3> QED
      BY <3>1, <3>2 DEF Lists, Injective, VAddrs
  <2> QED
    BY <2>1 DEF Members
<1>13. OneList'
  <2>1. ASSUME NEW a \in Peers, NEW b \in Peers, NEW r \in Nat \ {0}, Holds(a, r)', Holds(b, r)'
        PROVE  contexts'[a][Id(r)'] = contexts'[b][Id(r)']
    <3>1. CASE r = n
      BY <1>7, <1>11, <2>1, <3>1
    <3>2. CASE r # n
      BY <1>7, <1>10, <2>1, <3>2 DEF Agreement, OneList
    <3> QED
      BY <3>1, <3>2
  <2> QED
    BY <2>1 DEF OneList
<1>14. ThisList'
  <2>1. round(master)' = n /\ whiteList'[master] = list
    BY <1>1, <1>2, <1>6, <1>8, Constants
  <2>2. ASSUME NEW q \in Peers, Holds(q, n)'
        PROVE  contexts'[q][Id(n)'] = list
    BY <1>7, <1>11, <2>2
  <2> QED
    BY <2>1, <2>2 DEF ThisList, master
<1>15. DistinctIds' /\ Results'
  BY <1>1 DEF Agreement, DistinctIds, Results, Id
<1> QED
  BY <1>12, <1>13, <1>14, <1>15 DEF Agreement

\* A call: it may take the name of a context, and nobody has entered the one
\* that is to come.
LEMMA AgreementCall ==
  ASSUME Inv, Agreement, NEW p \in Peers, NEW member \in BOOLEAN, Call(p, member)
  PROVE  Agreement'
<1>1. PICK n \in Nat \ {0} : n = round(p) + 1
  BY Bounds DEF Inv
<1>2. /\ UNCHANGED <<plan, contextIds, contexts, result>>
      /\ pc[p] = "idle" /\ round(p)' = n
      /\ master \notin Group(n) => pc'[p] = "thrown"
      /\ master \in Group(n) /\ p = master => pc'[p] = "collect"
      /\ master \in Group(n) /\ p # master /\ member => pc'[p] = "recvID"
      /\ master \in Group(n) /\ p # master /\ ~member => pc'[p] = "barrier"
  BY <1>1, CallFacts
<1>3. \A c \in Peers : c # p => /\ pc'[c] = pc[c] /\ old'[c] = old[c] /\ i'[c] = i[c]
                               /\ whiteList'[c] = whiteList[c]
  BY <1>1, CallFacts, Zenon
<1>4. wants' = [wants EXCEPT ![p] = Append(@, member)] /\ p \in Group(n)
  BY <1>1, CalledOn DEF Call
<1>5. wants'[p][n] = member /\ DOMAIN wants'[p] = 1 .. n
  BY <1>1, <1>2, <1>4, CallGroups
<1>6. \A r \in 1 .. round(p) : wants'[p][r] = wants[p][r]
  BY <1>1, <1>2, <1>4, CallGroups
<1>7. \A a \in Peers : a # p => wants'[a] = wants[a]
  BY <1>1, <1>2, <1>4, CallGroups
<1>8. \A a \in Peers : a # p => round(a)' = round(a)
  BY <1>7 DEF round
<1>9. \A a \in Peers : round(a) \in Nat /\ DOMAIN wants[a] = 1 .. round(a)
  BY DEF Inv, Shape, round
<1>10. ASSUME NEW a \in Peers, NEW r \in Nat \ {0}, Holds(a, r)'
       PROVE  Holds(a, r) /\ Chosen(r)' = Chosen(r)
  <2>1. Current(a, r)
    <3>1. CASE a # p
      BY <1>2, <1>7, <1>10, <3>1 DEF Holds, Current
    <3>2. CASE a = p
      <4>1. DOMAIN wants[p] \subseteq DOMAIN wants'[p]
        BY <1>1, <1>5, <1>9
      <4> QED
        BY <1>2, <1>10, <3>2, <4>1 DEF Holds, Current
    <3> QED
      BY <3>1, <3>2
  <2>2. Entered(a, r)
    <3>1. CASE a # p
      BY <1>3, <1>7, <1>8, <1>10, <3>1 DEF Holds, Entered
    <3>2. CASE a = p
      <4>1. r \in 1 .. n /\ wants'[p][r] /\ (r < n \/ pc'[p] \in {"barrier", "await", "idle"})
        BY <1>2, <1>10, <3>2 DEF Holds, Entered
      <4>2. r # n
        <5>1. SUFFICES ASSUME r = n PROVE FALSE
          OBVIOUS
        <5>2. member /\ pc'[p] \in {"barrier", "await", "idle"}
          BY <1>5, <4>1, <5>1
        <5> QED
          BY <1>2, <5>2
      <4>3. r \in 1 .. round(p)
        BY <1>1, <1>9, <4>1, <4>2
      <4>4. wants[p][r]
        BY <1>6, <4>1, <4>3
      <4> QED
        BY <1>2, <3>2, <4>3, <4>4 DEF Entered
    <3> QED
      BY <3>1, <3>2
  <2>3. r # n
    <3>1. SUFFICES ASSUME r = n PROVE FALSE
      OBVIOUS
    <3>2. round(a) <= n /\ ~(round(a) = n /\ wants[a][n] /\ pc[a] \in {"barrier", "await", "idle"})
      BY <1>1, <1>4, NotAhead
    <3>3. /\ n \in 1 .. round(a) /\ wants[a][n]
          /\ n < round(a) \/ pc[a] \in {"barrier", "await", "idle"}
      BY <2>2, <3>1 DEF Entered
    <3> QED
      BY <1>9, <3>2, <3>3
  <2>4. Chosen(r)' = Chosen(r)
    BY <1>1, <1>4, <2>3, ChosenStays
  <2> QED
    BY <2>1, <2>2, <2>4 DEF Holds
<1>11. Members' /\ OneList'
  BY <1>2, <1>10, KeepsMembers
<1>12. DistinctIds'
  BY <1>2 DEF Agreement, DistinctIds
<1>13. \A r : Id(r)' = Id(r)
  BY <1>2 DEF Id
<1>14. Results'
  <2>1. ASSUME NEW a \in Peers, NEW r \in 1 .. Len(result'[a])
        PROVE  result'[a][r] = IF wants'[a][r] THEN Id(r)' ELSE -1
    <3>1. result[a][r] = IF wants[a][r] THEN Id(r) ELSE -1
      BY <1>2, <2>1 DEF Agreement, Results
    <3>2. wants'[a][r] = wants[a][r]
      <4>1. CASE a # p
        BY <1>7, <4>1
      <4>2. CASE a = p
        <5>1. Len(result[p]) = round(p)
          BY <1>2 DEF Inv, Calling, Place
        <5>2. r \in 1 .. round(p)
          BY <1>2, <2>1, <4>2, <5>1
        <5> QED
          BY <1>6, <4>2, <5>2
      <4> QED
        BY <4>1, <4>2
    <3> QED
      BY <1>2, <1>13, <3>1, <3>2
  <2> QED
    BY <2>1 DEF Results
<1>15. ThisList'
  <2>1. CASE p = master
    <3>1. pc'[master] \in {"collect", "thrown"}
      BY <1>2, <2>1
    <3> QED
      BY <3>1 DEF ThisList, master
  <2>2. CASE p # master
    <3>1. pc'[master] = pc[master] /\ whiteList'[master] = whiteList[master]
          /\ round(master)' = round(master)
      BY <1>3, <1>8, <2>2, Constants
    <3>2. SUFFICES ASSUME round(master) # 0, pc[master] \notin {"collect", "thrown"},
                          NEW q \in Peers, Holds(q, round(master))'
                   PROVE  (contexts[q][Id(round(master))] = whiteList[master])'
      BY <3>1 DEF ThisList, master
    <3>3. PICK r \in Nat \ {0} : r = round(master) /\ r = round(master)'
      BY <1>9, <3>1, <3>2, Constants
    <3>4. Holds(q, r)
      BY <1>10, <3>2, <3>3
    <3>5. contexts[q][Id(r)] = whiteList[master]
      BY <3>2, <3>3, <3>4 DEF Agreement, ThisList
    <3> QED
      BY <1>2, <1>13, <3>1, <3>3, <3>5
  <2> QED
    BY <2>1, <2>2
<1> QED
  BY <1>11, <1>12, <1>14, <1>15 DEF Agreement

LEMMA AgreementInit ==
  ASSUME Init, Inv
  PROVE  Agreement
<1>1. \A a \in Peers : round(a) = 0 /\ Len(result[a]) = 0 /\ DOMAIN contextIds = {}
  BY DEF Init, round
<1>2. \A a \in Peers : \A r : ~Holds(a, r)
  BY <1>1 DEF Holds, Entered
<1>3. DistinctIds /\ Results
  BY <1>1, Constants DEF DistinctIds, Results
<1> QED
  BY <1>2, <1>3 DEF Agreement, Members, OneList, ThisList

LEMMA AgreementNext ==
  ASSUME Inv, Agreement, [Next]_vars
  PROVE  Agreement'
<1>1. CASE UNCHANGED vars
  BY <1>1, AgreementSkip DEF vars, answers, local
<1>2. ASSUME NEW p \in Peers, NEW member \in BOOLEAN, Call(p, member)
      PROVE  Agreement'
  BY <1>2, AgreementCall
<1>3. ASSUME NEW p \in Peers, UserStep(p)
      PROVE  Agreement'
  <2>1. CASE Distribute(p)
    BY <2>1, AgreementDistribute
  <2>2. CASE RecvList(p)
    BY <2>2, AgreementEnters
  <2>3. CASE Return(p)
    BY <2>3, AgreementReturn
  <2>4. CASE Collect(p) \/ RecvID(p) \/ RecvSize(p) \/ Barrier(p) \/ Await(p)
    BY <2>4, AgreementReceive
  <2> QED
    BY <1>3, <2>1, <2>2, <2>3, <2>4 DEF UserStep
<1>4. ASSUME NEW p \in Peers, NEW q \in Peers, HandleRecv(p, q)
      PROVE  Agreement'
  <2>1. UNCHANGED <<plan, contexts, wants, contextIds, result, pc, whiteList>>
    BY <1>4 DEF HandleRecv, answers, local
  <2> QED
    BY <2>1, AgreementSkip
<1> QED
  BY <1>1, <1>2, <1>3, <1>4 DEF Next, Calls

\* The members of a new context agree on it: they get the same id, enter the
\* same list of peers, which are those that wanted to be in it, and no other
\* context takes its place until its name is drawn again.
THEOREM MembersAgree == Spec => []SplitAgrees
<1>1. Init => Agreement
  BY InvInit, AgreementInit
<1>2. (Inv /\ HandlersSurvive) /\ Agreement /\ [Next]_vars => Agreement'
  BY AgreementNext
<1>3. (Inv /\ HandlersSurvive) /\ Agreement => SplitAgrees
  BY AgreementMeans
<1> QED
  BY <1>1, <1>2, <1>3, SplitInvariant, PTL DEF Spec
==============================================================================
