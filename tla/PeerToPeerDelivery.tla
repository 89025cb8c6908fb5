------------------------- MODULE PeerToPeerDelivery -------------------------
(***************************************************************************)
(* Theorems about PeerToPeer, continued: every message, and what confirms  *)
(* it, is at exactly one place.                                            *)
(***************************************************************************)
EXTENDS PeerToPeerProofs

(* The places of a message and of its confirmation.                        *)

TypedIds(s, type) == {s[i].id : i \in {j \in DOMAIN s : s[j].type = type}}
TypedDistinct(s, type) ==
    \A i, j \in DOMAIN s :
      s[i].type = type /\ s[j].type = type /\ s[i].id = s[j].id => i = j

OnData(p, q) == TypedIds(data[p][q], "PEER")
InHandler(p, q) ==
    IF recvPC[q] \in {"lock", "confirm"} /\ recvMsg[q].src = p THEN {recvMsg[q].id} ELSE {}
Filing(p, q) == IF recvPC[q] = "enqueue" /\ recvMsg[q].src = p THEN {recvMsg[q].id} ELSE {}
Filed(p, q, g) == TypedIds(inBox[q][<<p, g>>], "PEER")
OnCtrl(p, q) == TypedIds(ctrl[q][p], "CONFIRM")
HandOf(m, q) == IF m # Nothing /\ m.type = "CONFIRM" /\ m.src = q THEN {m.id} ELSE {}
Answered(p, q, g) == TypedIds(ctrlBox[p][<<q, g>>], "CONFIRM")
Finished(p, q) == completed[p] \cap SentIds(p, q)

MessagePlaces == ({"data", "recvHandler", "enqueue", "taken"} \X {0}) \cup ({"inBox"} \X Tags)
ConfirmationPlaces ==
    ({"data", "recvHandler", "ctrl", "ctrlHandler", "user", "completed"} \X {0})
      \cup ({"ctrlBox"} \X Tags)
Places == MessagePlaces \cup ConfirmationPlaces

\* The ids of the messages of p to q that are, or whose confirmation is, at l.
At(p, q, l) ==
    CASE l[1] = "data" -> OnData(p, q)
      [] l[1] = "recvHandler" -> InHandler(p, q)
      [] l[1] = "enqueue" -> Filing(p, q)
      [] l[1] = "inBox" -> Filed(p, q, l[2])
      [] l[1] = "taken" -> taken[q][p]
      [] l[1] = "ctrl" -> OnCtrl(p, q)
      [] l[1] = "ctrlHandler" -> HandOf(ctrlMsg[p], q)
      [] l[1] = "ctrlBox" -> Answered(p, q, l[2])
      [] l[1] = "user" -> HandOf(out[p], q)
      [] l[1] = "completed" -> Finished(p, q)

Parts(p, q, L) ==
    /\ \A l, m \in L : l # m => At(p, q, l) \cap At(p, q, m) = {}
    /\ SentIds(p, q) = UNION {At(p, q, l) : l \in L}

Partition == \A p, q \in Peers : Parts(p, q, MessagePlaces) /\ Parts(p, q, ConfirmationPlaces)

\* No connection or queue holds an id twice.
WireDistinct(wire, type) == \A p, q \in Peers : TypedDistinct(wire[p][q], type)
BoxDistinct(box, type) == \A p, q \in Peers : \A g \in Tags : TypedDistinct(box[p][<<q, g>>], type)
Distinct ==
    /\ WireDistinct(data, "PEER") /\ WireDistinct(ctrl, "CONFIRM")
    /\ BoxDistinct(inBox, "PEER") /\ BoxDistinct(ctrlBox, "CONFIRM")

\* Only a send that was made finishes.
CompletedSent == \A p \in Peers : \A n \in completed[p] : \E q \in Peers : n \in SentIds(p, q)

Placed == Partition /\ Distinct /\ CompletedSent

-----------------------------------------------------------------------------
(* The ids in a queue.                                                     *)

LEMMA AppendTyped ==
    ASSUME NEW S, NEW s \in Seq(S), NEW m \in S, NEW type,
           TypedDistinct(s, type), m.type # type \/ m.id \notin TypedIds(s, type)
    PROVE  /\ m.type = type => TypedIds(Append(s, m), type) = TypedIds(s, type) \cup {m.id}
           /\ m.type # type => TypedIds(Append(s, m), type) = TypedIds(s, type)
           /\ TypedDistinct(Append(s, m), type)
  <1>1. PICK n, t : n = Len(s) + 1 /\ t = Append(s, m)
    OBVIOUS
  <1>2. /\ n \notin DOMAIN s /\ DOMAIN t = DOMAIN s \cup {n} /\ t[n] = m
        /\ \A i \in DOMAIN s : t[i] = s[i]
    <2>1. /\ Len(s) + 1 \notin DOMAIN s /\ DOMAIN Append(s, m) = DOMAIN s \cup {Len(s) + 1}
          /\ Append(s, m)[Len(s) + 1] = m /\ \A i \in DOMAIN s : Append(s, m)[i] = s[i]
      BY AppendFacts
    <2>2. QED BY <1>1, <2>1
  <1>3. /\ m.type = type => TypedIds(t, type) = TypedIds(s, type) \cup {m.id}
        /\ m.type # type => TypedIds(t, type) = TypedIds(s, type)
    BY <1>2 DEF TypedIds
  <1>4. TypedDistinct(t, type)
    BY <1>2 DEF TypedDistinct, TypedIds
  <1>5. QED BY <1>1, <1>3, <1>4

LEMMA TailTyped ==
    ASSUME NEW S, NEW s \in Seq(S), s # <<>>, NEW type, TypedDistinct(s, type),
           NEW t, t = Tail(s), NEW m, m = Head(s)
    PROVE  /\ TypedDistinct(t, type)
           /\ TypedIds(t, type) =
                IF m.type = type THEN TypedIds(s, type) \ {m.id} ELSE TypedIds(s, type)
           /\ m.type = type => m.id \in TypedIds(s, type)
  <1>1. PICK n : n = Len(s)
    OBVIOUS
  <1>2. /\ n \in Nat /\ n >= 1 /\ DOMAIN s = 1 .. n /\ DOMAIN t = 1 .. n - 1 /\ m = s[1]
        /\ \A i \in 1 .. n - 1 : t[i] = s[i + 1]
    <2>1. /\ Len(s) \in Nat /\ DOMAIN s = 1 .. Len(s) /\ Len(s) # 0 /\ Head(s) = s[1]
          /\ Len(Tail(s)) = Len(s) - 1 /\ \A i \in 1 .. Len(Tail(s)) : Tail(s)[i] = s[i + 1]
          /\ Tail(s) \in Seq(S)
      BY HeadTailProperties, LenProperties, EmptySeq
    <2>2. DOMAIN Tail(s) = 1 .. Len(Tail(s))
      BY <2>1, LenProperties
    <2>3. QED BY <1>1, <2>1, <2>2
  <1>3. TypedDistinct(t, type)
    <2>1. SUFFICES ASSUME NEW i \in 1 .. n - 1, NEW j \in 1 .. n - 1,
                          t[i].type = type, t[j].type = type, t[i].id = t[j].id
                   PROVE  i = j
      BY <1>2 DEF TypedDistinct
    <2>2. i + 1 \in DOMAIN s /\ j + 1 \in DOMAIN s /\ t[i] = s[i + 1] /\ t[j] = s[j + 1]
      BY <1>2
    <2>3. i + 1 = j + 1
      BY <2>1, <2>2 DEF TypedDistinct
    <2>4. QED BY <2>3
  <1>4. m.type = type => m.id \in TypedIds(s, type)
    BY <1>2 DEF TypedIds
  <1>5. ASSUME NEW x PROVE x \in TypedIds(t, type) <=>
                             x \in TypedIds(s, type) /\ ~(m.type = type /\ x = m.id)
    <2>1. ASSUME NEW i \in 1 .. n - 1, t[i].type = type, x = t[i].id
          PROVE  x \in TypedIds(s, type) /\ ~(m.type = type /\ x = m.id)
      <3>1. i + 1 \in DOMAIN s /\ t[i] = s[i + 1] /\ 1 \in DOMAIN s /\ i + 1 # 1
        BY <1>2
      <3>2. QED BY <1>2, <2>1, <3>1 DEF TypedIds, TypedDistinct
    <2>2. ASSUME NEW j \in 1 .. n, s[j].type = type, x = s[j].id, ~(m.type = type /\ x = m.id)
          PROVE  x \in TypedIds(t, type)
      <3>1. j # 1
        BY <1>2, <2>2
      <3>2. j - 1 \in 1 .. n - 1 /\ t[j - 1] = s[j]
        BY <1>2, <3>1
      <3>3. QED BY <1>2, <2>2, <3>2 DEF TypedIds
    <2>3. QED BY <1>2, <2>1, <2>2 DEF TypedIds
  <1>6. TypedIds(t, type) = IF m.type = type THEN TypedIds(s, type) \ {m.id} ELSE TypedIds(s, type)
    BY <1>5
  <1>7. QED BY <1>3, <1>4, <1>6

-----------------------------------------------------------------------------
(* What the operations on connections and boxes do to the ids in them.     *)

Pushed(w, p, q, m) == [w EXCEPT ![p][q] = Append(@, m)]
Shifted(w, p, q) == [w EXCEPT ![p][q] = Tail(@)]

\* Only the connection of p and q changes: it holds the id n more.
Gains(w, v, type, p, q, n) ==
    /\ WireDistinct(v, type) /\ TypedIds(v[p][q], type) = TypedIds(w[p][q], type) \cup {n}
    /\ \A x, y \in Peers : x # p \/ y # q => v[x][y] = w[x][y]

LEMMA PushIds ==
    ASSUME NEW w, NEW type \in {"PEER", "CONFIRM"}, WireHolds(w, type), WireDistinct(w, type),
           NEW p \in Peers, NEW q \in Peers, NEW m \in Content(type, p),
           m.type = type, m.id \notin TypedIds(w[p][q], type), NEW v, v = Pushed(w, p, q, m)
    PROVE  Gains(w, v, type, p, q, m.id)
  <1>1. /\ v[p][q] = Append(w[p][q], m)
        /\ \A x, y \in Peers : x # p \/ y # q => v[x][y] = w[x][y]
    BY PushIs DEF Pushed
  <1>2. PICK S, s, t : S = Content(type, p) /\ s = w[p][q] /\ t = v[p][q]
    OBVIOUS
  <1>3. s \in Seq(S) /\ m \in S /\ t = Append(s, m) /\ TypedDistinct(s, type)
    BY <1>1, <1>2 DEF WireHolds, WireDistinct
  <1>4. m.type # type \/ m.id \notin TypedIds(s, type)
    BY <1>2
  <1>5. TypedDistinct(t, type) /\ TypedIds(t, type) = TypedIds(s, type) \cup {m.id}
    <2>1. TypedDistinct(Append(s, m), type)
      BY <1>3, <1>4, AppendTyped
    <2>2. TypedIds(Append(s, m), type) = TypedIds(s, type) \cup {m.id}
      BY <1>3, <1>4, AppendTyped
    <2>3. QED BY <1>3, <2>1, <2>2
  <1>6. WireDistinct(v, type)
    BY <1>1, <1>2, <1>5 DEF WireDistinct
  <1>7. QED BY <1>1, <1>2, <1>5, <1>6 DEF Gains

LEMMA PushOther ==
    ASSUME NEW w, NEW type \in {"PEER", "CONFIRM"}, WireHolds(w, type), WireDistinct(w, type),
           NEW p \in Peers, NEW q \in Peers, NEW m \in Content(type, p),
           m.type # type, NEW v, v = Pushed(w, p, q, m)
    PROVE  /\ WireDistinct(v, type) /\ TypedIds(v[p][q], type) = TypedIds(w[p][q], type)
           /\ \A x, y \in Peers : x # p \/ y # q => v[x][y] = w[x][y]
  <1>1. /\ v[p][q] = Append(w[p][q], m)
        /\ \A x, y \in Peers : x # p \/ y # q => v[x][y] = w[x][y]
    BY PushIs DEF Pushed
  <1>2. PICK S, s, t : S = Content(type, p) /\ s = w[p][q] /\ t = v[p][q]
    OBVIOUS
  <1>3. s \in Seq(S) /\ m \in S /\ t = Append(s, m) /\ TypedDistinct(s, type)
    BY <1>1, <1>2 DEF WireHolds, WireDistinct
  <1>4. m.type # type \/ m.id \notin TypedIds(s, type)
    BY <1>2
  <1>5. TypedDistinct(t, type) /\ TypedIds(t, type) = TypedIds(s, type)
    <2>1. TypedDistinct(Append(s, m), type)
      BY <1>3, <1>4, AppendTyped
    <2>2. TypedIds(Append(s, m), type) = TypedIds(s, type)
      BY <1>3, <1>4, AppendTyped
    <2>3. QED BY <1>3, <2>1, <2>2
  <1>6. WireDistinct(v, type)
    BY <1>1, <1>2, <1>5 DEF WireDistinct
  <1>7. QED BY <1>1, <1>2, <1>5, <1>6

\* Only the connection of p and q changes: it loses the id of m, if m is of the type.
Loses(w, v, type, p, q, m) ==
    /\ WireDistinct(v, type)
    /\ m.type = type => /\ TypedIds(v[p][q], type) = TypedIds(w[p][q], type) \ {m.id}
                        /\ m.id \in TypedIds(w[p][q], type)
    /\ m.type # type => TypedIds(v[p][q], type) = TypedIds(w[p][q], type)
    /\ \A x, y \in Peers : x # p \/ y # q => v[x][y] = w[x][y]

LEMMA ShiftIds ==
    ASSUME NEW w, NEW type, WireHolds(w, type), WireDistinct(w, type),
           NEW p \in Peers, NEW q \in Peers, w[p][q] # <<>>,
           NEW v, v = Shifted(w, p, q), NEW m, m = Head(w[p][q])
    PROVE  Loses(w, v, type, p, q, m)
  <1>1. /\ v[p][q] = Tail(w[p][q])
        /\ \A x, y \in Peers : x # p \/ y # q => v[x][y] = w[x][y]
    BY DEF WireHolds, Shifted
  <1>2. PICK S, s, t : S = Content(type, p) /\ s = w[p][q] /\ t = v[p][q]
    OBVIOUS
  <1>3. s \in Seq(S) /\ s # <<>> /\ t = Tail(s) /\ TypedDistinct(s, type) /\ m = Head(s)
    BY <1>1, <1>2 DEF WireHolds, WireDistinct
  <1>4. /\ TypedDistinct(t, type)
        /\ TypedIds(t, type) = IF m.type = type THEN TypedIds(s, type) \ {m.id} ELSE TypedIds(s, type)
        /\ m.type = type => m.id \in TypedIds(s, type)
    BY <1>3, TailTyped
  <1>5. WireDistinct(v, type)
    BY <1>1, <1>2, <1>4 DEF WireDistinct
  <1>6. QED BY <1>1, <1>2, <1>4, <1>5 DEF Loses

BoxGains(b, v, type, p, k, n) ==
    /\ BoxDistinct(v, type) /\ TypedIds(v[p][k], type) = TypedIds(b[p][k], type) \cup {n}
    /\ \A x \in Peers : \A l \in Keys : x # p \/ l # k => v[x][l] = b[x][l]

LEMMA PutIds ==
    ASSUME NEW b, NEW type \in {"PEER", "CONFIRM"}, BoxHolds(b, type), BoxDistinct(b, type),
           NEW p \in Peers, NEW m \in Mail(type, Peers, Tags), NEW k, k = <<m.src, m.tag>>,
           m.id \notin TypedIds(b[p][k], type), NEW v, v = Put(b, p, m)
    PROVE  BoxGains(b, v, type, p, k, m.id)
  <1>1. /\ m.src \in Peers /\ m.tag \in Tags /\ m.type = type /\ m \in Mail(type, {m.src}, {m.tag})
    BY DEF Mail
  <1>2. /\ v[p][k] = Append(b[p][k], m)
        /\ \A x \in Peers : \A l \in Keys : x # p \/ l # k => v[x][l] = b[x][l]
    <2>1. k \in Keys /\ Key(m) = k
      BY <1>1 DEF Key, Keys
    <2>2. v = [b EXCEPT ![p] = [b[p] EXCEPT ![k] = Append(b[p][k], m)]]
      BY <2>1 DEF Put
    <2>3. QED BY <2>1, <2>2 DEF BoxHolds
  <1>3. PICK S, s, t : S = Mail(type, {m.src}, {m.tag}) /\ s = b[p][k] /\ t = v[p][k]
    OBVIOUS
  <1>4. s \in Seq(S) /\ m \in S /\ t = Append(s, m) /\ TypedDistinct(s, type)
    BY <1>1, <1>2, <1>3 DEF BoxHolds, BoxDistinct
  <1>5. TypedDistinct(t, type) /\ TypedIds(t, type) = TypedIds(s, type) \cup {m.id}
    <2>1. m.type = type /\ m.id \notin TypedIds(s, type)
      BY <1>1, <1>3
    <2>2. TypedDistinct(Append(s, m), type)
      BY <1>4, <2>1, AppendTyped
    <2>3. TypedIds(Append(s, m), type) = TypedIds(s, type) \cup {m.id}
      BY <1>4, <2>1, AppendTyped
    <2>4. QED BY <1>4, <2>2, <2>3
  <1>6. BoxDistinct(v, type)
    <2>1. SUFFICES ASSUME NEW x \in Peers, NEW y \in Peers, NEW g \in Tags
                   PROVE  TypedDistinct(v[x][<<y, g>>], type)
      BY DEF BoxDistinct
    <2>2. CASE x = p /\ <<y, g>> = k
      BY <1>3, <1>5, <2>2
    <2>3. CASE x # p \/ <<y, g>> # k
      BY <1>2, <2>3 DEF BoxDistinct, Keys
    <2>4. QED BY <2>2, <2>3
  <1>7. QED BY <1>2, <1>3, <1>5, <1>6 DEF BoxGains

LEMMA PopIds ==
    ASSUME NEW b, NEW type, BoxHolds(b, type), BoxDistinct(b, type), NEW p \in Peers,
           NEW k \in Keys, b[p][k] # <<>>, NEW v, v = Pop(b, p, k), NEW m, m = Head(b[p][k])
    PROVE  /\ BoxDistinct(v, type)
           /\ TypedIds(v[p][k], type) = TypedIds(b[p][k], type) \ {m.id}
           /\ m.id \in TypedIds(b[p][k], type)
           /\ \A x \in Peers : \A l \in Keys : x # p \/ l # k => v[x][l] = b[x][l]
  <1>0. PICK r \in Peers, h \in Tags : k = <<r, h>>
    BY DEF Keys
  <1>1. /\ m \in Mail(type, {r}, {h}) /\ v[p][k] = Tail(b[p][k])
        /\ \A x \in Peers : \A l \in Keys : x # p \/ l # k => v[x][l] = b[x][l]
    <2>1. PICK t : t = Tail(b[p][k])
      OBVIOUS
    <2>2. v = [b EXCEPT ![p] = [b[p] EXCEPT ![k] = t]]
      BY <2>1 DEF Pop
    <2>3. v[p][k] = t
      BY <2>2 DEF BoxHolds
    <2>4. \A x \in Peers : \A l \in Keys : x # p \/ l # k => v[x][l] = b[x][l]
      BY <2>2 DEF BoxHolds
    <2>5. m \in Mail(type, {r}, {h})
      BY <1>0, HeadTailProperties DEF BoxHolds
    <2>6. QED BY <2>1, <2>3, <2>4, <2>5
  <1>2. m.type = type
    BY <1>1 DEF Mail
  <1>3. PICK S, s, t : S = Mail(type, {r}, {h}) /\ s = b[p][k] /\ t = v[p][k]
    OBVIOUS
  <1>4. s \in Seq(S) /\ s # <<>> /\ t = Tail(s) /\ TypedDistinct(s, type) /\ m = Head(s)
    BY <1>0, <1>1, <1>3 DEF BoxHolds, BoxDistinct
  <1>5. /\ TypedDistinct(t, type) /\ TypedIds(t, type) = TypedIds(s, type) \ {m.id}
        /\ m.id \in TypedIds(s, type)
    BY <1>2, <1>4, TailTyped
  <1>6. BoxDistinct(v, type)
    <2>1. SUFFICES ASSUME NEW x \in Peers, NEW y \in Peers, NEW g \in Tags
                   PROVE  TypedDistinct(v[x][<<y, g>>], type)
      BY DEF BoxDistinct
    <2>2. CASE x = p /\ <<y, g>> = k
      BY <1>3, <1>5, <2>2
    <2>3. CASE x # p \/ <<y, g>> # k
      BY <1>1, <2>3 DEF BoxDistinct, Keys
    <2>4. QED BY <2>2, <2>3
  <1>7. QED BY <1>1, <1>3, <1>5, <1>6

-----------------------------------------------------------------------------
(* A message or a confirmation moves from one place to another.            *)

LEMMA PartsMean ==
    \A p, q, L :
      /\ Parts(p, q, L) <=>
           /\ \A l, m \in L : \A n : n \in At(p, q, l) /\ n \in At(p, q, m) => l = m
           /\ \A n : n \in SentIds(p, q) <=> \E l \in L : n \in At(p, q, l)
      /\ Parts(p, q, L)' <=>
           /\ \A l, m \in L : \A n : n \in At(p, q, l)' /\ n \in At(p, q, m)' => l = m
           /\ \A n : n \in SentIds(p, q)' <=> \E l \in L : n \in At(p, q, l)'
  <1>1. SUFFICES ASSUME NEW p, NEW q, NEW L
                 PROVE  /\ Parts(p, q, L) <=>
                             /\ \A l, m \in L : \A n : n \in At(p, q, l) /\ n \in At(p, q, m) => l = m
                             /\ \A n : n \in SentIds(p, q) <=> \E l \in L : n \in At(p, q, l)
                        /\ Parts(p, q, L)' <=>
                             /\ \A l, m \in L : \A n : n \in At(p, q, l)' /\ n \in At(p, q, m)' => l = m
                             /\ \A n : n \in SentIds(p, q)' <=> \E l \in L : n \in At(p, q, l)'
    OBVIOUS
  <1>2. /\ (SentIds(p, q) = UNION {At(p, q, l) : l \in L})
             <=> (\A n : n \in SentIds(p, q) <=> \E l \in L : n \in At(p, q, l))
        /\ (SentIds(p, q)' = UNION {At(p, q, l)' : l \in L})
             <=> (\A n : n \in SentIds(p, q)' <=> \E l \in L : n \in At(p, q, l)')
    OBVIOUS
  <1>3. /\ (\A l, m \in L : l # m => At(p, q, l) \cap At(p, q, m) = {})
             <=> (\A l, m \in L : \A n : n \in At(p, q, l) /\ n \in At(p, q, m) => l = m)
        /\ (\A l, m \in L : l # m => At(p, q, l)' \cap At(p, q, m)' = {})
             <=> (\A l, m \in L : \A n : n \in At(p, q, l)' /\ n \in At(p, q, m)' => l = m)
    OBVIOUS
  <1>4. QED BY <1>2, <1>3 DEF Parts

LEMMA PartsStay ==
    ASSUME NEW p, NEW q, NEW L, Parts(p, q, L), SentIds(p, q)' = SentIds(p, q),
           \A l \in L : At(p, q, l)' = At(p, q, l)
    PROVE  Parts(p, q, L)'
  <1>1. /\ \A l, m \in L : \A n : n \in At(p, q, l) /\ n \in At(p, q, m) => l = m
        /\ \A n : n \in SentIds(p, q) <=> \E l \in L : n \in At(p, q, l)
    BY PartsMean
  <1>2. /\ \A l, m \in L : \A n : n \in At(p, q, l)' /\ n \in At(p, q, m)' => l = m
        /\ \A n : n \in SentIds(p, q)' <=> \E l \in L : n \in At(p, q, l)'
    BY <1>1
  <1>3. QED BY <1>2, PartsMean

LEMMA PartsMove ==
    ASSUME NEW p, NEW q, NEW L, Parts(p, q, L), SentIds(p, q)' = SentIds(p, q),
           NEW a \in L, NEW b \in L, a # b, NEW n, n \in At(p, q, a),
           At(p, q, a)' = At(p, q, a) \ {n}, At(p, q, b)' = At(p, q, b) \cup {n},
           \A l \in L \ {a, b} : At(p, q, l)' = At(p, q, l)
    PROVE  Parts(p, q, L)'
  <1>1. /\ \A l, m \in L : \A x : x \in At(p, q, l) /\ x \in At(p, q, m) => l = m
        /\ \A x : x \in SentIds(p, q) <=> \E l \in L : x \in At(p, q, l)
    BY PartsMean
  <1>2. \A l \in L : \A x : x # n => (x \in At(p, q, l)' <=> x \in At(p, q, l))
    OBVIOUS
  <1>3. \A l \in L : n \in At(p, q, l)' <=> l = b
    BY <1>1
  <1>4. \A l, m \in L : \A x : x \in At(p, q, l)' /\ x \in At(p, q, m)' => l = m
    BY <1>1, <1>2, <1>3
  <1>5. \A x : x \in SentIds(p, q)' <=> \E l \in L : x \in At(p, q, l)'
    BY <1>1, <1>2, <1>3
  <1>6. QED BY <1>4, <1>5, PartsMean

LEMMA PartsAdd ==
    ASSUME NEW p, NEW q, NEW L, Parts(p, q, L), NEW a \in L, NEW n, n \notin SentIds(p, q),
           SentIds(p, q)' = SentIds(p, q) \cup {n}, At(p, q, a)' = At(p, q, a) \cup {n},
           \A l \in L \ {a} : At(p, q, l)' = At(p, q, l)
    PROVE  Parts(p, q, L)'
  <1>1. /\ \A l, m \in L : \A x : x \in At(p, q, l) /\ x \in At(p, q, m) => l = m
        /\ \A x : x \in SentIds(p, q) <=> \E l \in L : x \in At(p, q, l)
    BY PartsMean
  <1>2. \A l \in L : \A x : x # n => (x \in At(p, q, l)' <=> x \in At(p, q, l))
    OBVIOUS
  <1>3. \A l \in L : n \in At(p, q, l)' <=> l = a
    BY <1>1
  <1>4. \A l, m \in L : \A x : x \in At(p, q, l)' /\ x \in At(p, q, m)' => l = m
    BY <1>1, <1>2, <1>3
  <1>5. \A x : x \in SentIds(p, q)' <=> \E l \in L : x \in At(p, q, l)'
    BY <1>1, <1>2, <1>3
  <1>6. QED BY <1>4, <1>5, PartsMean

\* No other place of any message changes.
Only(p, q, A) ==
    \A x, y \in Peers : \A l \in Places :
      x # p \/ y # q \/ l \notin A => At(x, y, l)' = At(x, y, l)

MovedIn(p, q, L, a, b) ==
    \/ a \notin L /\ b \notin L
    \/ a \in L /\ b \in L /\ a # b

LEMMA StaysPut ==
    ASSUME Partition, UNCHANGED sent, Only(0, 0, {})
    PROVE  Partition'
  <1>1. \A x, y \in Peers : SentIds(x, y)' = SentIds(x, y)
    BY DEF SentIds
  <1>2. \A x, y \in Peers : \A l \in Places : At(x, y, l)' = At(x, y, l)
    BY DEF Only
  <1>3. \A x, y \in Peers : \A L \in {MessagePlaces, ConfirmationPlaces} : Parts(x, y, L)'
    BY <1>1, <1>2, PartsStay DEF Partition, Places
  <1>4. QED BY <1>3 DEF Partition

\* n moves from a to b among the places of messages, and to c among those of
\* confirmations.
LEMMA Moves ==
    ASSUME Partition, UNCHANGED sent, NEW p \in Peers, NEW q \in Peers, NEW a, NEW b, NEW c, NEW n,
           Only(p, q, {a, b, c}), MovedIn(p, q, MessagePlaces, a, b), MovedIn(p, q, ConfirmationPlaces, a, c),
           b = c \/ (b \notin ConfirmationPlaces /\ c \notin MessagePlaces),
           a \in Places, n \in At(p, q, a), At(p, q, a)' = At(p, q, a) \ {n},
           b \in MessagePlaces => At(p, q, b)' = At(p, q, b) \cup {n},
           c \in ConfirmationPlaces => At(p, q, c)' = At(p, q, c) \cup {n}
    PROVE  Partition'
  <1>1. \A x, y \in Peers : SentIds(x, y)' = SentIds(x, y)
    BY DEF SentIds
  <1>2. \A x, y \in Peers : x # p \/ y # q => Parts(x, y, MessagePlaces)' /\ Parts(x, y, ConfirmationPlaces)'
    <2>1. \A x, y \in Peers : \A l \in Places : x # p \/ y # q => At(x, y, l)' = At(x, y, l)
      BY DEF Only
    <2>2. QED BY <1>1, <2>1, PartsStay DEF Partition, Places
  <1>3. \A l \in Places \ {a, b, c} : At(p, q, l)' = At(p, q, l)
    BY DEF Only
  <1>4. Parts(p, q, MessagePlaces) /\ Parts(p, q, ConfirmationPlaces)
    BY DEF Partition
  <1>5. Parts(p, q, MessagePlaces)'
    <2>1. CASE a \notin MessagePlaces
      <3>1. \A l \in MessagePlaces : At(p, q, l)' = At(p, q, l)
        BY <1>3, <2>1 DEF Places, MovedIn
      <3>2. QED BY <1>1, <1>4, <3>1, PartsStay
    <2>2. CASE a \in MessagePlaces
      <3>1. b \in MessagePlaces /\ a # b /\ \A l \in MessagePlaces \ {a, b} : At(p, q, l)' = At(p, q, l)
        BY <1>3, <2>2 DEF Places, MovedIn
      <3>2. QED BY <1>1, <1>4, <2>2, <3>1, PartsMove
    <2>3. QED BY <2>1, <2>2
  <1>6. Parts(p, q, ConfirmationPlaces)'
    <2>1. CASE a \notin ConfirmationPlaces
      <3>1. \A l \in ConfirmationPlaces : At(p, q, l)' = At(p, q, l)
        BY <1>3, <2>1 DEF Places, MovedIn
      <3>2. QED BY <1>1, <1>4, <3>1, PartsStay
    <2>2. CASE a \in ConfirmationPlaces
      <3>1. c \in ConfirmationPlaces /\ a # c /\ \A l \in ConfirmationPlaces \ {a, c} : At(p, q, l)' = At(p, q, l)
        BY <1>3, <2>2 DEF Places, MovedIn
      <3>2. QED BY <1>1, <1>4, <2>2, <3>1, PartsMove
    <2>3. QED BY <2>1, <2>2
  <1>7. QED BY <1>2, <1>5, <1>6 DEF Partition

\* The same, place by place.
Keeps(p, q, A) ==
    \A x, y \in Peers :
      LET Same(l) == x # p \/ y # q \/ l \notin A IN
        /\ Same(<<"data", 0>>) => OnData(x, y)' = OnData(x, y)
        /\ Same(<<"recvHandler", 0>>) => InHandler(x, y)' = InHandler(x, y)
        /\ Same(<<"enqueue", 0>>) => Filing(x, y)' = Filing(x, y)
        /\ \A g \in Tags : Same(<<"inBox", g>>) => Filed(x, y, g)' = Filed(x, y, g)
        /\ Same(<<"taken", 0>>) => taken'[y][x] = taken[y][x]
        /\ Same(<<"ctrl", 0>>) => OnCtrl(x, y)' = OnCtrl(x, y)
        /\ Same(<<"ctrlHandler", 0>>) => HandOf(ctrlMsg'[x], y) = HandOf(ctrlMsg[x], y)
        /\ \A g \in Tags : Same(<<"ctrlBox", g>>) => Answered(x, y, g)' = Answered(x, y, g)
        /\ Same(<<"user", 0>>) => HandOf(out'[x], y) = HandOf(out[x], y)
        /\ Same(<<"completed", 0>>) => Finished(x, y)' = Finished(x, y)

LEMMA AtIs ==
    \A x, y :
      /\ At(x, y, <<"data", 0>>) = OnData(x, y) /\ At(x, y, <<"data", 0>>)' = OnData(x, y)'
      /\ At(x, y, <<"recvHandler", 0>>) = InHandler(x, y)
      /\ At(x, y, <<"recvHandler", 0>>)' = InHandler(x, y)'
      /\ At(x, y, <<"enqueue", 0>>) = Filing(x, y) /\ At(x, y, <<"enqueue", 0>>)' = Filing(x, y)'
      /\ \A g : At(x, y, <<"inBox", g>>) = Filed(x, y, g) /\ At(x, y, <<"inBox", g>>)' = Filed(x, y, g)'
      /\ At(x, y, <<"taken", 0>>) = taken[y][x] /\ At(x, y, <<"taken", 0>>)' = taken'[y][x]
      /\ At(x, y, <<"ctrl", 0>>) = OnCtrl(x, y) /\ At(x, y, <<"ctrl", 0>>)' = OnCtrl(x, y)'
      /\ At(x, y, <<"ctrlHandler", 0>>) = HandOf(ctrlMsg[x], y)
      /\ At(x, y, <<"ctrlHandler", 0>>)' = HandOf(ctrlMsg'[x], y)
      /\ \A g : At(x, y, <<"ctrlBox", g>>) = Answered(x, y, g) /\ At(x, y, <<"ctrlBox", g>>)' = Answered(x, y, g)'
      /\ At(x, y, <<"user", 0>>) = HandOf(out[x], y) /\ At(x, y, <<"user", 0>>)' = HandOf(out'[x], y)
      /\ At(x, y, <<"completed", 0>>) = Finished(x, y) /\ At(x, y, <<"completed", 0>>)' = Finished(x, y)'
  BY DEF At

LEMMA PlaceCases ==
    \A l : l \in Places <=>
      \/ l \in {<<"data", 0>>, <<"recvHandler", 0>>, <<"enqueue", 0>>, <<"taken", 0>>, <<"ctrl", 0>>,
                <<"ctrlHandler", 0>>, <<"user", 0>>, <<"completed", 0>>}
      \/ \E g \in Tags : l = <<"inBox", g>> \/ l = <<"ctrlBox", g>>
  BY DEF Places, MessagePlaces, ConfirmationPlaces

LEMMA KeepsOnly ==
    ASSUME NEW p, NEW q, NEW A, Keeps(p, q, A)
    PROVE  Only(p, q, A)
  <1>1. SUFFICES ASSUME NEW x \in Peers, NEW y \in Peers, NEW l \in Places, x # p \/ y # q \/ l \notin A
                 PROVE  At(x, y, l)' = At(x, y, l)
    BY DEF Only
  <1>2. CASE l = <<"data", 0>>
    BY <1>1, <1>2, AtIs DEF Keeps
  <1>3. CASE l = <<"recvHandler", 0>>
    BY <1>1, <1>3, AtIs DEF Keeps
  <1>4. CASE l = <<"enqueue", 0>>
    BY <1>1, <1>4, AtIs DEF Keeps
  <1>5. CASE l = <<"taken", 0>>
    BY <1>1, <1>5, AtIs DEF Keeps
  <1>6. CASE l = <<"ctrl", 0>>
    BY <1>1, <1>6, AtIs DEF Keeps
  <1>7. CASE l = <<"ctrlHandler", 0>>
    BY <1>1, <1>7, AtIs DEF Keeps
  <1>8. CASE l = <<"user", 0>>
    BY <1>1, <1>8, AtIs DEF Keeps
  <1>9. CASE l = <<"completed", 0>>
    BY <1>1, <1>9, AtIs DEF Keeps
  <1>10. ASSUME NEW g \in Tags, l = <<"inBox", g>> PROVE At(x, y, l)' = At(x, y, l)
    BY <1>1, <1>10, AtIs DEF Keeps
  <1>11. ASSUME NEW g \in Tags, l = <<"ctrlBox", g>> PROVE At(x, y, l)' = At(x, y, l)
    BY <1>1, <1>11, AtIs DEF Keeps
  <1>12. QED BY <1>2, <1>3, <1>4, <1>5, <1>6, <1>7, <1>8, <1>9, <1>10, <1>11, PlaceCases

LEMMA Untouched ==
    /\ UNCHANGED data => \A x, y : OnData(x, y)' = OnData(x, y)
    /\ UNCHANGED <<recvPC, recvMsg>> =>
         \A x, y : InHandler(x, y)' = InHandler(x, y) /\ Filing(x, y)' = Filing(x, y)
    /\ UNCHANGED inBox => \A x, y, g : Filed(x, y, g)' = Filed(x, y, g)
    /\ UNCHANGED ctrl => \A x, y : OnCtrl(x, y)' = OnCtrl(x, y)
    /\ UNCHANGED ctrlBox => \A x, y, g : Answered(x, y, g)' = Answered(x, y, g)
    /\ UNCHANGED <<completed, sent>> => \A x, y : Finished(x, y)' = Finished(x, y)
    /\ UNCHANGED sent => \A x, y : SentIds(x, y)' = SentIds(x, y)
    /\ UNCHANGED data /\ WireDistinct(data, "PEER") => WireDistinct(data, "PEER")'
    /\ UNCHANGED ctrl /\ WireDistinct(ctrl, "CONFIRM") => WireDistinct(ctrl, "CONFIRM")'
    /\ UNCHANGED inBox /\ BoxDistinct(inBox, "PEER") => BoxDistinct(inBox, "PEER")'
    /\ UNCHANGED ctrlBox /\ BoxDistinct(ctrlBox, "CONFIRM") => BoxDistinct(ctrlBox, "CONFIRM")'
    /\ UNCHANGED <<completed, sent>> /\ CompletedSent => CompletedSent'
  <1>1. UNCHANGED data => /\ \A x, y : OnData(x, y)' = OnData(x, y)
                          /\ WireDistinct(data, "PEER") => WireDistinct(data, "PEER")'
    BY DEF OnData, WireDistinct
  <1>2. UNCHANGED <<recvPC, recvMsg>> =>
         \A x, y : InHandler(x, y)' = InHandler(x, y) /\ Filing(x, y)' = Filing(x, y)
    BY DEF InHandler, Filing
  <1>3. UNCHANGED inBox => /\ \A x, y, g : Filed(x, y, g)' = Filed(x, y, g)
                           /\ BoxDistinct(inBox, "PEER") => BoxDistinct(inBox, "PEER")'
    BY DEF Filed, BoxDistinct
  <1>4. UNCHANGED ctrl => /\ \A x, y : OnCtrl(x, y)' = OnCtrl(x, y)
                          /\ WireDistinct(ctrl, "CONFIRM") => WireDistinct(ctrl, "CONFIRM")'
    BY DEF OnCtrl, WireDistinct
  <1>5. UNCHANGED ctrlBox => /\ \A x, y, g : Answered(x, y, g)' = Answered(x, y, g)
                             /\ BoxDistinct(ctrlBox, "CONFIRM") => BoxDistinct(ctrlBox, "CONFIRM")'
    BY DEF Answered, BoxDistinct
  <1>6. UNCHANGED sent => \A x, y : SentIds(x, y)' = SentIds(x, y)
    BY DEF SentIds
  <1>7. UNCHANGED <<completed, sent>> => /\ \A x, y : Finished(x, y)' = Finished(x, y)
                                         /\ CompletedSent => CompletedSent'
    BY <1>6 DEF Finished, CompletedSent
  <1>8. QED BY <1>1, <1>2, <1>3, <1>4, <1>5, <1>6, <1>7

LEMMA PlaceFacts ==
    /\ \A s \in {"data", "recvHandler"} : <<s, 0>> \in MessagePlaces /\ <<s, 0>> \in ConfirmationPlaces
    /\ \A s \in {"enqueue", "taken"} : <<s, 0>> \in MessagePlaces /\ <<s, 0>> \notin ConfirmationPlaces
    /\ \A s \in {"ctrl", "ctrlHandler", "user", "completed"} :
         <<s, 0>> \notin MessagePlaces /\ <<s, 0>> \in ConfirmationPlaces
    /\ \A g \in Tags : /\ <<"inBox", g>> \in MessagePlaces /\ <<"inBox", g>> \notin ConfirmationPlaces
                       /\ <<"ctrlBox", g>> \notin MessagePlaces /\ <<"ctrlBox", g>> \in ConfirmationPlaces
    /\ Places = MessagePlaces \cup ConfirmationPlaces
  BY DEF MessagePlaces, ConfirmationPlaces, Places

\* What is at a place was sent.
LEMMA AtIsSent ==
    ASSUME Partition, NEW p \in Peers, NEW q \in Peers, NEW l \in Places, NEW n \in At(p, q, l)
    PROVE  n \in SentIds(p, q)
  BY PartsMean DEF Partition, Places

\* What is at a place is at no other one of its kind.
LEMMA AtNoOther ==
    ASSUME Partition, NEW p \in Peers, NEW q \in Peers, NEW L \in {MessagePlaces, ConfirmationPlaces},
           NEW l \in L, NEW m \in L, l # m, NEW n \in At(p, q, l)
    PROVE  n \notin At(p, q, m)
  BY PartsMean DEF Partition

-----------------------------------------------------------------------------
(* Every step keeps everything at one place.                               *)

\* Transmit adds an id to the data socket.
LEMMA TransmitMoves ==
    ASSUME Shape, MessageIDs, Placed, NEW p \in Peers, Transmit(p),
           NEW r, r = event[p].peer, NEW n, n = out[p].id
    PROVE  /\ \A q \in Peers : n \notin SentIds(p, q)
           /\ SentIds(p, r)' = SentIds(p, r) \cup {n}
           /\ \A x, y \in Peers : x # p \/ y # r => SentIds(x, y)' = SentIds(x, y)
           /\ n \notin OnData(p, r) /\ n \notin completed[p]
           /\ OnData(p, r)' = OnData(p, r) \cup {n} /\ WireDistinct(data', "PEER")
           /\ \A x, y \in Peers : x # p \/ y # r => OnData(x, y)' = OnData(x, y)
  <1>1. /\ r \in Peers /\ out[p] \in Content("PEER", p) /\ out[p].type = "PEER" /\ WireHolds(data, "PEER")
        /\ data' = Pushed(data, p, r, out[p]) /\ UNCHANGED completed
    <2>1. data' = Pushed(data, p, r, out[p]) /\ UNCHANGED completed
      BY DEF Transmit, Push, Pushed
    <2>2. r \in Peers /\ out[p] \in Content("PEER", p) /\ out[p].type = "PEER"
      BY TransmitFacts DEF Content, Mail
    <2>3. QED BY <2>1, <2>2 DEF Shape, Wires
  <1>2. /\ \A q \in Peers : n \notin SentIds(p, q)
        /\ SentIds(p, r)' = SentIds(p, r) \cup {n}
        /\ \A x, y \in Peers : x # p \/ y # r => SentIds(x, y)' = SentIds(x, y)
    <2>1. IdsOK(p)
      BY DEF MessageIDs
    <2>2. /\ \A q \in Peers : n \notin SentIds(p, q)
          /\ \A q \in Peers : SentIds(p, q)' = IF q = r THEN SentIds(p, q) \cup {n} ELSE SentIds(p, q)
      BY <2>1, TransmitIds
    <2>3. \A x \in Peers \ {p} : sent'[x] = sent[x]
      BY DEF Transmit, Shape, Others
    <2>4. \A x \in Peers \ {p} : \A y \in Peers : SentIds(x, y)' = SentIds(x, y)
      BY <2>3 DEF SentIds
    <2>5. QED BY <1>1, <2>2, <2>4
  <1>3. Partition /\ WireDistinct(data, "PEER") /\ CompletedSent
    BY DEF Placed, Distinct
  <1>4. n \notin OnData(p, r) /\ n \notin completed[p]
    BY <1>1, <1>2, <1>3, AtIsSent, AtIs, PlaceFacts DEF CompletedSent
  <1>5. /\ OnData(p, r)' = OnData(p, r) \cup {n} /\ WireDistinct(data', "PEER")
        /\ \A x, y \in Peers : x # p \/ y # r => OnData(x, y)' = OnData(x, y)
    <2>1. out[p].id \notin TypedIds(data[p][r], "PEER")
      BY <1>4 DEF OnData
    <2>2. Gains(data, data', "PEER", p, r, n)
      BY <1>1, <1>3, <2>1, PushIds
    <2>3. QED BY <1>1, <2>2 DEF Gains, OnData
  <1>6. QED BY <1>2, <1>4, <1>5

LEMMA TransmitPlaced ==
    ASSUME Shape, MessageIDs, Placed, NEW p \in Peers, Transmit(p), UNCHANGED handlers
    PROVE  Placed'
  <1>0. PICK r, n : r = event[p].peer /\ n = out[p].id
    OBVIOUS
  <1>1. /\ r \in Peers /\ out[p] \in Content("PEER", p) /\ out[p].type = "PEER" /\ WireHolds(data, "PEER")
        /\ data' = Pushed(data, p, r, out[p]) /\ out' = [out EXCEPT ![p] = Nothing]
        /\ UNCHANGED <<ctrl, inBox, ctrlBox, taken, completed, recvPC, recvMsg, ctrlMsg>>
    <2>1. /\ data' = Pushed(data, p, r, out[p]) /\ out' = [out EXCEPT ![p] = Nothing]
          /\ UNCHANGED <<ctrl, inBox, ctrlBox, taken, completed, recvPC, recvMsg, ctrlMsg>>
      BY <1>0 DEF Transmit, Push, Pushed, boxes, handlers
    <2>2. r \in Peers /\ out[p] \in Content("PEER", p) /\ out[p].type = "PEER"
      BY <1>0, TransmitFacts DEF Content, Mail
    <2>3. QED BY <2>1, <2>2 DEF Shape, Wires
  <1>2. /\ \A q \in Peers : n \notin SentIds(p, q)
        /\ SentIds(p, r)' = SentIds(p, r) \cup {n}
        /\ \A x, y \in Peers : x # p \/ y # r => SentIds(x, y)' = SentIds(x, y)
        /\ n \notin OnData(p, r) /\ n \notin completed[p]
        /\ OnData(p, r)' = OnData(p, r) \cup {n} /\ WireDistinct(data', "PEER")
        /\ \A x, y \in Peers : x # p \/ y # r => OnData(x, y)' = OnData(x, y)
    BY <1>0, TransmitMoves
  <1>3. Partition /\ WireDistinct(data, "PEER") /\ CompletedSent
    BY DEF Placed, Distinct
  <1>6. \A x, y \in Peers : Finished(x, y)' = Finished(x, y)
    BY <1>1, <1>2 DEF Finished
  <1>7. \A x, y \in Peers : HandOf(out'[x], y) = HandOf(out[x], y)
    BY <1>1 DEF HandOf, Shape, UserTypes
  <1>8. Only(p, r, {<<"data", 0>>})
    BY <1>1, <1>2, <1>6, <1>7, Untouched, KeepsOnly DEF Keeps
  <1>9. ASSUME NEW x \in Peers, NEW y \in Peers, NEW L \in {MessagePlaces, ConfirmationPlaces}
        PROVE  Parts(x, y, L)'
    <2>0. Parts(x, y, L) /\ L \subseteq Places
      BY <1>3 DEF Partition, Places
    <2>1. CASE x = p /\ y = r
      <3>1. /\ <<"data", 0>> \in L /\ At(p, r, <<"data", 0>>)' = At(p, r, <<"data", 0>>) \cup {n}
            /\ \A l \in L \ {<<"data", 0>>} : At(p, r, l)' = At(p, r, l)
        BY <1>1, <1>2, <1>8, <2>0, AtIs, PlaceFacts DEF Only
      <3>2. QED BY <1>1, <1>2, <2>0, <2>1, <3>1, PartsAdd
    <2>2. CASE x # p \/ y # r
      <3>1. SentIds(x, y)' = SentIds(x, y) /\ \A l \in L : At(x, y, l)' = At(x, y, l)
        BY <1>2, <1>8, <2>0, <2>2 DEF Only
      <3>2. QED BY <2>0, <3>1, PartsStay
    <2>3. QED BY <2>1, <2>2
  <1>10. Distinct'
    BY <1>1, <1>2, Untouched DEF Placed, Distinct
  <1>11. CompletedSent'
    BY <1>1, <1>2, <1>3 DEF CompletedSent
  <1>12. QED BY <1>9, <1>10, <1>11 DEF Placed, Partition

\* The DESTRUCT message is none of those counted.
LEMMA DestructPlaced ==
    ASSUME Shape, Placed, NEW p \in Peers, TransmitDestruct(p) \/ TransmitDestructCtrl(p), UNCHANGED handlers
    PROVE  Placed'
  <1>1. /\ out[p] = DestructOf(p) /\ out[p].type = "DESTRUCT" /\ out[p] \in Content("PEER", p)
        /\ out[p] \in Content("CONFIRM", p) /\ out \in [Peers -> Messages \cup {Nothing}]
        /\ WireHolds(data, "PEER") /\ WireHolds(ctrl, "CONFIRM")
    BY DestructFacts, MailIsMessage DEF Content, Shape, UserTypes, Wires
  <1>2. Partition /\ Distinct /\ CompletedSent
    BY DEF Placed
  <1>3. CASE TransmitDestruct(p)
    <2>1. /\ data' = Pushed(data, p, p, out[p])
          /\ UNCHANGED <<out, ctrl, inBox, ctrlBox, sent, taken, completed, recvPC, recvMsg, ctrlMsg>>
      BY <1>3 DEF TransmitDestruct, Push, Pushed, boxes, handlers, history
    <2>2. /\ WireDistinct(data', "PEER") /\ TypedIds(data'[p][p], "PEER") = TypedIds(data[p][p], "PEER")
          /\ \A x, y \in Peers : x # p \/ y # p => data'[x][y] = data[x][y]
      BY <1>1, <1>2, <2>1, PushOther DEF Distinct
    <2>3. \A x, y \in Peers : OnData(x, y)' = OnData(x, y)
      BY <2>2 DEF OnData
    <2>4. Only(0, 0, {})
      BY <2>1, <2>3, Untouched, KeepsOnly DEF Keeps
    <2>5. Distinct'
      BY <1>2, <2>1, <2>2, Untouched DEF Distinct
    <2>6. QED BY <1>2, <2>1, <2>4, <2>5, StaysPut, Untouched DEF Placed
  <1>4. CASE TransmitDestructCtrl(p)
    <2>1. /\ ctrl' = Pushed(ctrl, p, p, out[p]) /\ out' = [out EXCEPT ![p] = Nothing]
          /\ UNCHANGED <<data, inBox, ctrlBox, sent, taken, completed, recvPC, recvMsg, ctrlMsg>>
      BY <1>4 DEF TransmitDestructCtrl, Push, Pushed, boxes, handlers, history
    <2>2. /\ WireDistinct(ctrl', "CONFIRM") /\ TypedIds(ctrl'[p][p], "CONFIRM") = TypedIds(ctrl[p][p], "CONFIRM")
          /\ \A x, y \in Peers : x # p \/ y # p => ctrl'[x][y] = ctrl[x][y]
      BY <1>1, <1>2, <2>1, PushOther DEF Distinct
    <2>3. \A x, y \in Peers : OnCtrl(x, y)' = OnCtrl(x, y)
      BY <2>2 DEF OnCtrl
    <2>4. \A x, y \in Peers : HandOf(out'[x], y) = HandOf(out[x], y)
      BY <1>1, <2>1 DEF HandOf
    <2>5. Only(0, 0, {})
      BY <2>1, <2>3, <2>4, Untouched, KeepsOnly DEF Keeps
    <2>6. Distinct'
      BY <1>2, <2>1, <2>2, Untouched DEF Distinct
    <2>7. QED BY <1>2, <2>1, <2>5, <2>6, StaysPut, Untouched DEF Placed
  <1>5. QED BY <1>3, <1>4

\* A receive moves an id from a queue of inBox.
LEMMA TakeMoves ==
    ASSUME Shape, Placed, NEW p \in Peers, NEW r \in Peers, NEW h \in Tags, TakeMessage(p, <<r, h>>),
           NEW m, m = Head(inBox[p][<<r, h>>])
    PROVE  /\ BoxDistinct(inBox', "PEER") /\ m.id \in Filed(r, p, h)
           /\ Filed(r, p, h)' = Filed(r, p, h) \ {m.id}
           /\ \A x, y \in Peers : \A g \in Tags : x # r \/ y # p \/ g # h => Filed(x, y, g)' = Filed(x, y, g)
  <1>1. /\ inBox[p][<<r, h>>] # <<>> /\ inBox' = Pop(inBox, p, <<r, h>>)
        /\ BoxHolds(inBox, "PEER") /\ BoxDistinct(inBox, "PEER")
    BY DEF TakeMessage, Shape, Boxes, Placed, Distinct
  <1>2. PICK k \in Keys : k = <<r, h>>
    BY DEF Keys
  <1>3. /\ BoxHolds(inBox, "PEER") /\ inBox[p][k] # <<>> /\ BoxDistinct(inBox, "PEER")
        /\ inBox' = Pop(inBox, p, k) /\ m = Head(inBox[p][k])
    BY <1>1, <1>2
  <1>4. /\ BoxDistinct(inBox', "PEER")
        /\ TypedIds(inBox'[p][k], "PEER") = TypedIds(inBox[p][k], "PEER") \ {m.id}
        /\ m.id \in TypedIds(inBox[p][k], "PEER")
        /\ \A x \in Peers : \A l \in Keys : x # p \/ l # k => inBox'[x][l] = inBox[x][l]
    BY <1>3, PopIds
  <1>5. \A x, y \in Peers : \A g \in Tags : x # r \/ y # p \/ g # h => Filed(x, y, g)' = Filed(x, y, g)
    BY <1>2, <1>4 DEF Filed, Keys
  <1>6. QED BY <1>2, <1>4, <1>5 DEF Filed

LEMMA TakePlaced ==
    ASSUME Shape, Placed, NEW p \in Peers, NEW r \in Peers, NEW h \in Tags, TakeMessage(p, <<r, h>>),
           UNCHANGED <<data, ctrl, out, handlers>>
    PROVE  Placed'
  <1>0. PICK m : m = Head(inBox[p][<<r, h>>])
    OBVIOUS
  <1>1. /\ inBox[p][<<r, h>>] # <<>> /\ inBox' = Pop(inBox, p, <<r, h>>)
        /\ taken' = [taken EXCEPT ![p][r] = @ \cup {m.id}]
        /\ UNCHANGED <<ctrlBox, sent, completed, recvPC, recvMsg, ctrlMsg, data, ctrl, out>>
    BY <1>0 DEF TakeMessage, handlers
  <1>2. Partition /\ Distinct /\ CompletedSent /\ BoxHolds(inBox, "PEER")
    BY DEF Placed, Shape, Boxes
  <1>3. /\ BoxDistinct(inBox', "PEER") /\ m.id \in Filed(r, p, h)
        /\ Filed(r, p, h)' = Filed(r, p, h) \ {m.id}
        /\ \A x, y \in Peers : \A g \in Tags : x # r \/ y # p \/ g # h => Filed(x, y, g)' = Filed(x, y, g)
    BY <1>0, TakeMoves
  <1>4. /\ taken'[p][r] = taken[p][r] \cup {m.id}
        /\ \A x, y \in Peers : x # p \/ y # r => taken'[x][y] = taken[x][y]
    BY <1>1 DEF Shape, Others
  <1>5. Only(r, p, {<<"inBox", h>>, <<"taken", 0>>, <<"taken", 0>>})
    BY <1>1, <1>3, <1>4, Untouched, KeepsOnly DEF Keeps
  <1>6. Partition'
    <2>1. /\ m.id \in At(r, p, <<"inBox", h>>)
          /\ At(r, p, <<"inBox", h>>)' = At(r, p, <<"inBox", h>>) \ {m.id}
          /\ At(r, p, <<"taken", 0>>)' = At(r, p, <<"taken", 0>>) \cup {m.id}
      BY <1>3, <1>4, AtIs
    <2>2. /\ MovedIn(r, p, MessagePlaces, <<"inBox", h>>, <<"taken", 0>>)
          /\ MovedIn(r, p, ConfirmationPlaces, <<"inBox", h>>, <<"taken", 0>>)
          /\ <<"inBox", h>> \in Places
      BY PlaceFacts DEF MovedIn
    <2>3. QED BY <1>1, <1>2, <1>5, <2>1, <2>2, Moves
  <1>7. Distinct'
    BY <1>1, <1>2, <1>3, Untouched DEF Distinct
  <1>8. QED BY <1>1, <1>2, <1>6, <1>7, Untouched DEF Placed

LEMMA DequeuePlaced ==
    ASSUME Shape, MessageIDs, Placed, NEW p \in Peers, DequeueConfirm(p), UNCHANGED handlers
    PROVE  Placed'
  <1>0. PICK q, g, m : q = event[p].peer /\ g = event[p].tag /\ m = Head(ctrlBox[p][<<q, g>>])
    OBVIOUS
  <1>1. /\ q \in Peers /\ g \in Tags /\ ctrlBox[p][<<q, g>>] # <<>> /\ out[p] = Nothing
        /\ m # Nothing /\ m.type = "CONFIRM" /\ m.src = q
        /\ ctrlBox' = Pop(ctrlBox, p, <<q, g>>)
        /\ UNCHANGED <<data, ctrl, inBox, sent, taken, recvPC, recvMsg, ctrlMsg>>
        /\ \/ /\ completed' = [completed EXCEPT ![p] = @ \cup {m.id}] /\ UNCHANGED out
           \/ out' = [out EXCEPT ![p] = m] /\ UNCHANGED completed
    <2>1. /\ q \in Peers /\ g \in Tags /\ ctrlBox[p][<<q, g>>] # <<>> /\ out[p] = Nothing
          /\ m \in Mail("CONFIRM", {q}, {g})
      BY <1>0, DequeueFacts
    <2>2. m # Nothing /\ m.type = "CONFIRM" /\ m.src = q
      BY <2>1, MailIsMessage
    <2>3. /\ ctrlBox' = Pop(ctrlBox, p, <<q, g>>)
          /\ UNCHANGED <<data, ctrl, inBox, sent, taken, recvPC, recvMsg, ctrlMsg>>
          /\ \/ /\ completed' = [completed EXCEPT ![p] = @ \cup {m.id}] /\ UNCHANGED out
             \/ out' = [out EXCEPT ![p] = m] /\ UNCHANGED completed
      BY <1>0 DEF DequeueConfirm, wires, handlers
    <2>4. QED BY <2>1, <2>2, <2>3
  <1>2. Partition /\ Distinct /\ CompletedSent /\ BoxHolds(ctrlBox, "CONFIRM")
    BY DEF Placed, Shape, Boxes
  <1>3. /\ BoxDistinct(ctrlBox', "CONFIRM") /\ m.id \in Answered(p, q, g)
        /\ Answered(p, q, g)' = Answered(p, q, g) \ {m.id}
        /\ \A x, y \in Peers : \A h \in Tags : x # p \/ y # q \/ h # g => Answered(x, y, h)' = Answered(x, y, h)
    <2>1. PICK k \in Keys : k = <<q, g>>
      BY <1>1 DEF Keys
    <2>2. /\ BoxHolds(ctrlBox, "CONFIRM") /\ ctrlBox[p][k] # <<>> /\ BoxDistinct(ctrlBox, "CONFIRM")
          /\ ctrlBox' = Pop(ctrlBox, p, k) /\ m = Head(ctrlBox[p][k])
      BY <1>0, <1>1, <1>2, <2>1 DEF Distinct
    <2>3. /\ BoxDistinct(ctrlBox', "CONFIRM")
          /\ TypedIds(ctrlBox'[p][k], "CONFIRM") = TypedIds(ctrlBox[p][k], "CONFIRM") \ {m.id}
          /\ m.id \in TypedIds(ctrlBox[p][k], "CONFIRM")
          /\ \A x \in Peers : \A l \in Keys : x # p \/ l # k => ctrlBox'[x][l] = ctrlBox[x][l]
      BY <2>2, PopIds
    <2>4. \A x, y \in Peers : \A h \in Tags :
            x # p \/ y # q \/ h # g => Answered(x, y, h)' = Answered(x, y, h)
      BY <2>1, <2>3 DEF Answered, Keys
    <2>5. QED BY <2>1, <2>3, <2>4 DEF Answered
  <1>4. /\ m.id \in At(p, q, <<"ctrlBox", g>>)
        /\ At(p, q, <<"ctrlBox", g>>)' = At(p, q, <<"ctrlBox", g>>) \ {m.id}
        /\ <<"ctrlBox", g>> \in Places /\ m.id \in SentIds(p, q)
    <2>1. <<"ctrlBox", g>> \in Places
      BY <1>1, PlaceFacts
    <2>2. m.id \in At(p, q, <<"ctrlBox", g>>)
      BY <1>3, AtIs
    <2>3. QED BY <1>1, <1>2, <1>3, <2>1, <2>2, AtIs, AtIsSent
  <1>5. \A s \in {"completed", "user"} :
          /\ MovedIn(p, q, MessagePlaces, <<"ctrlBox", g>>, <<s, 0>>)
          /\ MovedIn(p, q, ConfirmationPlaces, <<"ctrlBox", g>>, <<s, 0>>)
    BY <1>1, PlaceFacts DEF MovedIn
  <1>6. Distinct'
    BY <1>1, <1>2, <1>3, Untouched DEF Distinct
  <1>7. CASE completed' = [completed EXCEPT ![p] = @ \cup {m.id}] /\ UNCHANGED out
    <2>1. /\ completed'[p] = completed[p] \cup {m.id} /\ \A x \in Peers \ {p} : completed'[x] = completed[x]
          /\ \A x, y \in Peers : SentIds(x, y)' = SentIds(x, y)
      BY <1>1, <1>7, Untouched DEF Shape, Others
    <2>2. /\ Finished(p, q)' = Finished(p, q) \cup {m.id}
          /\ \A x, y \in Peers : x # p \/ y # q => Finished(x, y)' = Finished(x, y)
      <3>1. \A y \in Peers \ {q} : m.id \notin SentIds(p, y)
        BY <1>1, <1>4 DEF MessageIDs, IdsOK
      <3>2. \A x, y \in Peers : Finished(x, y)' = completed'[x] \cap SentIds(x, y)
        BY <2>1 DEF Finished
      <3>3. Finished(p, q)' = Finished(p, q) \cup {m.id}
        BY <1>1, <1>4, <2>1, <3>2 DEF Finished
      <3>4. ASSUME NEW x \in Peers, NEW y \in Peers, x # p \/ y # q
            PROVE  Finished(x, y)' = Finished(x, y)
        <4>1. CASE x # p
          BY <2>1, <3>2, <4>1 DEF Finished
        <4>2. CASE x = p /\ y # q
          BY <2>1, <3>1, <3>2, <4>2 DEF Finished
        <4>3. QED BY <3>4, <4>1, <4>2
      <3>5. QED BY <3>3, <3>4
    <2>3. Only(p, q, {<<"ctrlBox", g>>, <<"completed", 0>>, <<"completed", 0>>})
      BY <1>1, <1>3, <1>7, <2>2, Untouched, KeepsOnly DEF Keeps
    <2>4. At(p, q, <<"completed", 0>>)' = At(p, q, <<"completed", 0>>) \cup {m.id}
      BY <2>2, AtIs
    <2>5. Partition'
      BY <1>1, <1>2, <1>4, <1>5, <2>3, <2>4, Moves
    <2>6. CompletedSent'
      BY <1>1, <1>2, <1>4, <2>1 DEF CompletedSent
    <2>7. QED BY <1>6, <2>5, <2>6 DEF Placed
  <1>8. CASE out' = [out EXCEPT ![p] = m] /\ UNCHANGED completed
    <2>1. /\ HandOf(out'[p], q) = HandOf(out[p], q) \cup {m.id}
          /\ \A x, y \in Peers : x # p \/ y # q => HandOf(out'[x], y) = HandOf(out[x], y)
      BY <1>1, <1>8 DEF HandOf, Shape, UserTypes
    <2>2. Only(p, q, {<<"ctrlBox", g>>, <<"user", 0>>, <<"user", 0>>})
      BY <1>1, <1>3, <1>8, <2>1, Untouched, KeepsOnly DEF Keeps
    <2>3. At(p, q, <<"user", 0>>)' = At(p, q, <<"user", 0>>) \cup {m.id}
      BY <2>1, AtIs
    <2>4. Partition'
      BY <1>1, <1>2, <1>4, <1>5, <2>2, <2>3, Moves
    <2>5. QED BY <1>1, <1>2, <1>6, <1>8, <2>4, Untouched DEF Placed
  <1>9. QED BY <1>1, <1>7, <1>8

\* What files a confirmation in ctrlBox, from the user's or ctrlHandler's hand.
LEMMA FiledAnswer ==
    ASSUME Shape, Placed, NEW p \in Peers, NEW m \in Mail("CONFIRM", Peers, Tags),
           ctrlBox' = Put(ctrlBox, p, m), m.id \notin Answered(p, m.src, m.tag)
    PROVE  /\ BoxDistinct(ctrlBox', "CONFIRM")
           /\ Answered(p, m.src, m.tag)' = Answered(p, m.src, m.tag) \cup {m.id}
           /\ \A x, y \in Peers : \A h \in Tags :
                x # p \/ y # m.src \/ h # m.tag => Answered(x, y, h)' = Answered(x, y, h)
  <1>1. PICK k : k = <<m.src, m.tag>>
    OBVIOUS
  <1>2. k \in Keys
    BY <1>1 DEF Mail, Keys
  <1>3. BoxGains(ctrlBox, ctrlBox', "CONFIRM", p, k, m.id)
    <2>1. BoxHolds(ctrlBox, "CONFIRM") /\ BoxDistinct(ctrlBox, "CONFIRM")
          /\ m.id \notin TypedIds(ctrlBox[p][k], "CONFIRM")
      BY <1>1 DEF Shape, Boxes, Placed, Distinct, Answered
    <2>2. QED BY <1>1, <2>1, PutIds
  <1>4. QED BY <1>1, <1>2, <1>3 DEF BoxGains, Answered, Keys

LEMMA PutBackPlaced ==
    ASSUME Shape, Placed, NEW p \in Peers, PutBack(p), UNCHANGED handlers
    PROVE  Placed'
  <1>0. PICK m, q, g : m = out[p] /\ q = m.src /\ g = m.tag
    OBVIOUS
  <1>1. /\ m \in Mail("CONFIRM", Peers, Tags) /\ m # Nothing /\ q \in Peers /\ g \in Tags /\ m.type = "CONFIRM"
        /\ ctrlBox' = Put(ctrlBox, p, m) /\ out' = [out EXCEPT ![p] = Nothing]
        /\ out \in [Peers -> Messages \cup {Nothing}]
        /\ UNCHANGED <<data, ctrl, inBox, sent, taken, completed, recvPC, recvMsg, ctrlMsg>>
    <2>1. /\ m \in Mail("CONFIRM", Peers, Tags) /\ m # Nothing /\ q \in Peers /\ g \in Tags /\ m.type = "CONFIRM"
      BY <1>0, PutBackFacts
    <2>2. /\ ctrlBox' = Put(ctrlBox, p, m) /\ out' = [out EXCEPT ![p] = Nothing]
          /\ UNCHANGED <<data, ctrl, inBox, sent, taken, completed, recvPC, recvMsg, ctrlMsg>>
      BY <1>0 DEF PutBack, wires, handlers, history
    <2>3. QED BY <2>1, <2>2 DEF Shape, UserTypes
  <1>2. Partition /\ Distinct /\ CompletedSent
    BY DEF Placed
  <1>3. /\ HandOf(out'[p], q) = HandOf(out[p], q) \ {m.id} /\ m.id \in HandOf(out[p], q)
        /\ \A x, y \in Peers : x # p \/ y # q => HandOf(out'[x], y) = HandOf(out[x], y)
    BY <1>0, <1>1 DEF HandOf
  <1>4. /\ m.id \in At(p, q, <<"user", 0>>) /\ <<"user", 0>> \in Places
        /\ At(p, q, <<"user", 0>>)' = At(p, q, <<"user", 0>>) \ {m.id}
    BY <1>3, AtIs, PlaceFacts
  <1>5. m.id \notin Answered(p, q, g)
    <2>1. <<"user", 0>> \in ConfirmationPlaces /\ <<"ctrlBox", g>> \in ConfirmationPlaces
      BY <1>1, PlaceFacts
    <2>2. m.id \notin At(p, q, <<"ctrlBox", g>>)
      BY <1>1, <1>2, <1>4, <2>1, AtNoOther
    <2>3. QED BY <2>2, AtIs
  <1>6. /\ BoxDistinct(ctrlBox', "CONFIRM") /\ Answered(p, q, g)' = Answered(p, q, g) \cup {m.id}
        /\ \A x, y \in Peers : \A h \in Tags : x # p \/ y # q \/ h # g => Answered(x, y, h)' = Answered(x, y, h)
    BY <1>0, <1>1, <1>5, FiledAnswer
  <1>7. Only(p, q, {<<"user", 0>>, <<"ctrlBox", g>>, <<"ctrlBox", g>>})
    BY <1>1, <1>3, <1>6, Untouched, KeepsOnly DEF Keeps
  <1>8. Partition'
    <2>1. At(p, q, <<"ctrlBox", g>>)' = At(p, q, <<"ctrlBox", g>>) \cup {m.id}
      BY <1>6, AtIs
    <2>2. /\ MovedIn(p, q, MessagePlaces, <<"user", 0>>, <<"ctrlBox", g>>)
          /\ MovedIn(p, q, ConfirmationPlaces, <<"user", 0>>, <<"ctrlBox", g>>)
      BY <1>1, PlaceFacts DEF MovedIn
    <2>3. QED BY <1>1, <1>2, <1>4, <1>7, <2>1, <2>2, Moves
  <1>9. Distinct'
    BY <1>1, <1>2, <1>6, Untouched DEF Distinct
  <1>10. QED BY <1>1, <1>2, <1>8, <1>9, Untouched DEF Placed

\* recvHandler takes an id from a data socket into its hand.
LEMMA SocketMoves ==
    ASSUME Shape, Placed, NEW p \in Peers, NEW q \in Peers, RecvFromSocket(p, q), NEW m, m = Head(data[q][p])
    PROVE  /\ WireDistinct(data', "PEER")
           /\ m.type = "PEER" => OnData(q, p)' = OnData(q, p) \ {m.id} /\ m.id \in OnData(q, p)
           /\ m.type # "PEER" => OnData(q, p)' = OnData(q, p)
           /\ \A x, y \in Peers : x # q \/ y # p => OnData(x, y)' = OnData(x, y)
           /\ InHandler(q, p) = {} /\ Filing(q, p) = {}
           /\ m.type = "PEER" => InHandler(q, p)' = {m.id}
           /\ m.type # "PEER" => InHandler(q, p)' = {}
           /\ \A x, y \in Peers : x # q \/ y # p => InHandler(x, y)' = InHandler(x, y)
           /\ \A x, y \in Peers : Filing(x, y)' = Filing(x, y)
  <1>1. /\ recvPC[p] = "recv" /\ data[q][p] # <<>> /\ data' = Shifted(data, q, p)
        /\ \/ /\ m.type = "DESTRUCT" /\ recvPC' = [recvPC EXCEPT ![p] = "stopped"] /\ UNCHANGED recvMsg
           \/ /\ m.type = "PEER" /\ recvPC' = [recvPC EXCEPT ![p] = "lock"]
              /\ recvMsg' = [recvMsg EXCEPT ![p] = m]
    BY DEF RecvFromSocket, GotoRecv, Shifted
  <1>2. /\ WireHolds(data, "PEER") /\ WireDistinct(data, "PEER")
        /\ recvPC \in [Peers -> {"recv", "lock", "confirm", "enqueue", "stopped"}]
        /\ recvMsg \in [Peers -> Messages \cup {Nothing}]
    BY DEF Placed, Distinct, Shape, Wires, Others
  <1>3. /\ WireDistinct(data', "PEER")
        /\ m.type = "PEER" => OnData(q, p)' = OnData(q, p) \ {m.id} /\ m.id \in OnData(q, p)
        /\ m.type # "PEER" => OnData(q, p)' = OnData(q, p)
        /\ \A x, y \in Peers : x # q \/ y # p => OnData(x, y)' = OnData(x, y)
    <2>1. Loses(data, data', "PEER", q, p, m)
      BY <1>1, <1>2, ShiftIds
    <2>2. QED BY <2>1 DEF Loses, OnData
  <1>4. /\ \A x \in Peers : InHandler(x, p) = {} /\ Filing(x, p) = {}
        /\ \A x \in Peers : \A y \in Peers \ {p} :
             InHandler(x, y)' = InHandler(x, y) /\ Filing(x, y)' = Filing(x, y)
    BY <1>1, <1>2 DEF InHandler, Filing
  <1>5. CASE m.type = "DESTRUCT"
    <2>1. \A x \in Peers : InHandler(x, p)' = {} /\ Filing(x, p)' = {}
      BY <1>1, <1>2, <1>5 DEF InHandler, Filing
    <2>2. QED BY <1>3, <1>4, <1>5, <2>1
  <1>6. CASE m.type = "PEER"
    <2>1. m.src = q
      BY <1>1, <1>6, SocketFacts DEF Mail
    <2>2. recvPC'[p] = "lock" /\ recvMsg'[p] = m
      BY <1>1, <1>2, <1>6
    <2>3. /\ InHandler(q, p)' = {m.id} /\ \A x \in Peers \ {q} : InHandler(x, p)' = {}
          /\ \A x \in Peers : Filing(x, p)' = {}
      BY <2>1, <2>2 DEF InHandler, Filing
    <2>4. \A x, y \in Peers : /\ x # q \/ y # p => InHandler(x, y)' = InHandler(x, y)
                               /\ Filing(x, y)' = Filing(x, y)
      BY <1>4, <2>3
    <2>5. QED BY <1>3, <1>4, <1>6, <2>3, <2>4
  <1>7. QED BY <1>1, <1>5, <1>6

LEMMA RecvFromSocketPlaced ==
    ASSUME Shape, Placed, NEW p \in Peers, NEW q \in Peers, RecvFromSocket(p, q)
    PROVE  Placed'
  <1>0. PICK m : m = Head(data[q][p])
    OBVIOUS
  <1>1. /\ recvPC[p] = "recv" /\ data[q][p] # <<>> /\ data' = Shifted(data, q, p)
        /\ UNCHANGED <<ctrlMsg, ctrl, inBox, ctrlBox, sent, taken, completed, out>>
        /\ \/ /\ m.type = "DESTRUCT" /\ recvPC' = [recvPC EXCEPT ![p] = "stopped"] /\ UNCHANGED recvMsg
           \/ /\ m.type = "PEER" /\ recvPC' = [recvPC EXCEPT ![p] = "lock"]
              /\ recvMsg' = [recvMsg EXCEPT ![p] = m]
    BY <1>0 DEF RecvFromSocket, GotoRecv, Shifted, boxes, history, userVars
  <1>2. /\ Partition /\ Distinct /\ CompletedSent /\ WireHolds(data, "PEER") /\ WireDistinct(data, "PEER")
        /\ recvPC \in [Peers -> {"recv", "lock", "confirm", "enqueue", "stopped"}]
        /\ recvMsg \in [Peers -> Messages \cup {Nothing}]
    BY DEF Placed, Distinct, Shape, Wires, Others
  <1>3. /\ WireDistinct(data', "PEER")
        /\ m.type = "PEER" => OnData(q, p)' = OnData(q, p) \ {m.id} /\ m.id \in OnData(q, p)
        /\ m.type # "PEER" => OnData(q, p)' = OnData(q, p)
        /\ \A x, y \in Peers : x # q \/ y # p => OnData(x, y)' = OnData(x, y)
        /\ InHandler(q, p) = {}
        /\ m.type = "PEER" => InHandler(q, p)' = {m.id}
        /\ m.type # "PEER" => InHandler(q, p)' = {}
        /\ \A x, y \in Peers : x # q \/ y # p => InHandler(x, y)' = InHandler(x, y)
        /\ \A x, y \in Peers : Filing(x, y)' = Filing(x, y)
    BY <1>0, SocketMoves
  <1>4. Distinct'
    BY <1>1, <1>2, <1>3, Untouched DEF Distinct
  <1>5. CASE m.type = "DESTRUCT"
    <2>1. \A x, y \in Peers : OnData(x, y)' = OnData(x, y) /\ InHandler(x, y)' = InHandler(x, y)
      BY <1>3, <1>5
    <2>2. Only(0, 0, {})
      BY <1>1, <1>3, <2>1, Untouched, KeepsOnly DEF Keeps
    <2>3. QED BY <1>1, <1>2, <1>4, <2>2, StaysPut, Untouched DEF Placed
  <1>6. CASE m.type = "PEER"
    <2>1. Only(q, p, {<<"data", 0>>, <<"recvHandler", 0>>, <<"recvHandler", 0>>})
      BY <1>1, <1>3, <1>6, Untouched, KeepsOnly DEF Keeps
    <2>2. Partition'
      <3>1. /\ m.id \in At(q, p, <<"data", 0>>) /\ <<"data", 0>> \in Places
            /\ At(q, p, <<"data", 0>>)' = At(q, p, <<"data", 0>>) \ {m.id}
            /\ At(q, p, <<"recvHandler", 0>>)' = At(q, p, <<"recvHandler", 0>>) \cup {m.id}
        BY <1>3, <1>6, AtIs, PlaceFacts
      <3>2. /\ MovedIn(q, p, MessagePlaces, <<"data", 0>>, <<"recvHandler", 0>>)
            /\ MovedIn(q, p, ConfirmationPlaces, <<"data", 0>>, <<"recvHandler", 0>>)
        BY PlaceFacts DEF MovedIn
      <3>3. QED BY <1>1, <1>2, <2>1, <3>1, <3>2, Moves
    <2>3. QED BY <1>1, <1>2, <1>4, <2>2, Untouched DEF Placed
  <1>7. QED BY <1>1, <1>5, <1>6

\* recvHandler confirms the message in its hand.
LEMMA ConfirmMoves ==
    ASSUME Shape, NEW p \in Peers, Confirm(p), NEW q, q = recvMsg[p].src, NEW n, n = recvMsg[p].id
    PROVE  /\ q \in Peers
           /\ InHandler(q, p) = {n} /\ InHandler(q, p)' = {} /\ Filing(q, p) = {} /\ Filing(q, p)' = {n}
           /\ \A x, y \in Peers : x # q \/ y # p =>
                InHandler(x, y)' = InHandler(x, y) /\ Filing(x, y)' = Filing(x, y)
  <1>1. recvPC[p] = "confirm" /\ recvPC' = [recvPC EXCEPT ![p] = "enqueue"] /\ UNCHANGED recvMsg
    BY DEF Confirm, GotoRecv
  <1>2. q \in Peers
    BY <1>1, HandlerFacts
  <1>3. recvPC'[p] = "enqueue" /\ recvMsg'[p] = recvMsg[p]
        /\ \A y \in Peers \ {p} : recvPC'[y] = recvPC[y] /\ recvMsg'[y] = recvMsg[y]
    BY <1>1 DEF Shape, Others
  <1>4. QED BY <1>1, <1>2, <1>3 DEF InHandler, Filing

LEMMA ConfirmPlaced ==
    ASSUME Shape, Placed, NEW p \in Peers, Confirm(p)
    PROVE  Placed'
  <1>0. PICK q, n, m : /\ q = recvMsg[p].src /\ n = recvMsg[p].id
                       /\ m = Message("CONFIRM", n, p, recvMsg[p].tag)
    OBVIOUS
  <1>1. /\ q \in Peers /\ recvPC[p] = "confirm" /\ recvPC' = [recvPC EXCEPT ![p] = "enqueue"]
        /\ ctrl' = Pushed(ctrl, p, q, m) /\ m \in Content("CONFIRM", p) /\ m.type = "CONFIRM" /\ m.id = n
        /\ UNCHANGED <<recvMsg, ctrlMsg, data, inBox, ctrlBox, sent, taken, completed, out>>
    <2>1. /\ recvPC[p] = "confirm" /\ recvPC' = [recvPC EXCEPT ![p] = "enqueue"] /\ ctrl' = Pushed(ctrl, p, q, m)
          /\ UNCHANGED <<recvMsg, ctrlMsg, data, inBox, ctrlBox, sent, taken, completed, out>>
      BY <1>0 DEF Confirm, Push, Pushed, GotoRecv, boxes, history, userVars
    <2>2. q \in Peers /\ m \in Mail("CONFIRM", {p}, Tags)
      BY <1>0, <2>1, HandlerFacts
    <2>3. m.type = "CONFIRM" /\ m.id = n /\ m \in Content("CONFIRM", p)
      BY <1>0, <2>2 DEF Message, Content
    <2>4. QED BY <2>1, <2>2, <2>3
  <1>2. /\ Partition /\ Distinct /\ CompletedSent /\ WireHolds(ctrl, "CONFIRM") /\ WireDistinct(ctrl, "CONFIRM")
        /\ recvPC \in [Peers -> {"recv", "lock", "confirm", "enqueue", "stopped"}]
    BY DEF Placed, Distinct, Shape, Wires, Others
  <1>3. /\ InHandler(q, p) = {n} /\ InHandler(q, p)' = {} /\ Filing(q, p) = {} /\ Filing(q, p)' = {n}
        /\ \A x, y \in Peers : x # q \/ y # p =>
             InHandler(x, y)' = InHandler(x, y) /\ Filing(x, y)' = Filing(x, y)
    BY <1>0, ConfirmMoves
  <1>4. n \in At(q, p, <<"recvHandler", 0>>) /\ n \notin OnCtrl(q, p)
    <2>1. n \in At(q, p, <<"recvHandler", 0>>)
      BY <1>3, AtIs
    <2>2. <<"recvHandler", 0>> \in ConfirmationPlaces /\ <<"ctrl", 0>> \in ConfirmationPlaces
      BY PlaceFacts
    <2>3. n \notin At(q, p, <<"ctrl", 0>>)
      BY <1>1, <1>2, <2>1, <2>2, AtNoOther
    <2>4. QED BY <2>1, <2>3, AtIs
  <1>5. /\ WireDistinct(ctrl', "CONFIRM") /\ OnCtrl(q, p)' = OnCtrl(q, p) \cup {n}
        /\ \A x, y \in Peers : x # q \/ y # p => OnCtrl(x, y)' = OnCtrl(x, y)
    <2>1. m.id \notin TypedIds(ctrl[p][q], "CONFIRM")
      BY <1>1, <1>4 DEF OnCtrl
    <2>2. Gains(ctrl, ctrl', "CONFIRM", p, q, n)
      BY <1>1, <1>2, <2>1, PushIds
    <2>3. QED BY <1>1, <2>2 DEF Gains, OnCtrl
  <1>6. Only(q, p, {<<"recvHandler", 0>>, <<"enqueue", 0>>, <<"ctrl", 0>>})
    BY <1>1, <1>3, <1>5, Untouched, KeepsOnly DEF Keeps
  <1>7. Partition'
    <2>1. /\ At(q, p, <<"recvHandler", 0>>)' = At(q, p, <<"recvHandler", 0>>) \ {n}
          /\ At(q, p, <<"enqueue", 0>>)' = At(q, p, <<"enqueue", 0>>) \cup {n}
          /\ At(q, p, <<"ctrl", 0>>)' = At(q, p, <<"ctrl", 0>>) \cup {n}
      BY <1>3, <1>5, AtIs
    <2>2. /\ MovedIn(q, p, MessagePlaces, <<"recvHandler", 0>>, <<"enqueue", 0>>)
          /\ MovedIn(q, p, ConfirmationPlaces, <<"recvHandler", 0>>, <<"ctrl", 0>>)
          /\ <<"recvHandler", 0>> \in Places
          /\ <<"enqueue", 0>> \notin ConfirmationPlaces /\ <<"ctrl", 0>> \notin MessagePlaces
      BY PlaceFacts DEF MovedIn
    <2>3. QED BY <1>1, <1>2, <1>4, <1>6, <2>1, <2>2, Moves
  <1>8. Distinct'
    BY <1>1, <1>2, <1>5, Untouched DEF Distinct
  <1>9. QED BY <1>1, <1>2, <1>7, <1>8, Untouched DEF Placed

\* recvHandler files the message in its hand.
LEMMA EnqueueMoves ==
    ASSUME Shape, Placed, NEW p \in Peers, Enqueue(p),
           NEW q, q = recvMsg[p].src, NEW g, g = recvMsg[p].tag, NEW n, n = recvMsg[p].id
    PROVE  /\ q \in Peers /\ g \in Tags /\ Filing(q, p) = {n} /\ Filing(q, p)' = {}
           /\ \A x, y \in Peers : InHandler(x, y)' = InHandler(x, y)
           /\ \A x, y \in Peers : x # q \/ y # p => Filing(x, y)' = Filing(x, y)
           /\ n \notin Filed(q, p, g)
           /\ BoxDistinct(inBox', "PEER") /\ Filed(q, p, g)' = Filed(q, p, g) \cup {n}
           /\ \A x, y \in Peers : \A h \in Tags : x # q \/ y # p \/ h # g => Filed(x, y, h)' = Filed(x, y, h)
  <1>0. PICK m : m = recvMsg[p]
    OBVIOUS
  <1>1. /\ recvPC[p] = "enqueue" /\ recvPC' = [recvPC EXCEPT ![p] = "recv"]
        /\ m \in Mail("PEER", Peers, Tags) /\ q \in Peers /\ g \in Tags /\ inBox' = Put(inBox, p, m)
        /\ recvMsg' = [recvMsg EXCEPT ![p] = Nothing]
    <2>1. /\ recvPC[p] = "enqueue" /\ recvPC' = [recvPC EXCEPT ![p] = "recv"]
          /\ inBox' = Put(inBox, p, m) /\ recvMsg' = [recvMsg EXCEPT ![p] = Nothing]
      BY <1>0 DEF Enqueue, GotoRecv
    <2>2. m \in Mail("PEER", Peers, Tags) /\ q \in Peers /\ g \in Tags
      BY <1>0, <2>1, HandlerFacts
    <2>3. QED BY <2>1, <2>2
  <1>2. /\ Partition /\ BoxHolds(inBox, "PEER") /\ BoxDistinct(inBox, "PEER")
        /\ recvPC \in [Peers -> {"recv", "lock", "confirm", "enqueue", "stopped"}]
        /\ recvMsg \in [Peers -> Messages \cup {Nothing}]
    BY DEF Placed, Distinct, Shape, Boxes, Others
  <1>3. /\ Filing(q, p) = {n} /\ Filing(q, p)' = {}
        /\ \A x, y \in Peers : InHandler(x, y)' = InHandler(x, y)
        /\ \A x, y \in Peers : x # q \/ y # p => Filing(x, y)' = Filing(x, y)
    <2>1. recvPC'[p] = "recv" /\ \A y \in Peers \ {p} : recvPC'[y] = recvPC[y] /\ recvMsg'[y] = recvMsg[y]
      BY <1>1, <1>2
    <2>2. QED BY <1>0, <1>1, <2>1 DEF InHandler, Filing
  <1>4. n \in At(q, p, <<"enqueue", 0>>) /\ n \notin Filed(q, p, g)
    <2>1. n \in At(q, p, <<"enqueue", 0>>)
      BY <1>3, AtIs
    <2>2. <<"enqueue", 0>> \in MessagePlaces /\ <<"inBox", g>> \in MessagePlaces
      BY <1>1, PlaceFacts
    <2>3. n \notin At(q, p, <<"inBox", g>>)
      BY <1>1, <1>2, <2>1, <2>2, AtNoOther
    <2>4. QED BY <2>1, <2>3, AtIs
  <1>5. /\ BoxDistinct(inBox', "PEER") /\ Filed(q, p, g)' = Filed(q, p, g) \cup {n}
        /\ \A x, y \in Peers : \A h \in Tags : x # q \/ y # p \/ h # g => Filed(x, y, h)' = Filed(x, y, h)
    <2>1. PICK k \in Keys : k = <<m.src, m.tag>>
      BY <1>0, <1>1 DEF Keys
    <2>2. n \notin TypedIds(inBox[p][k], "PEER")
      BY <1>0, <1>4, <2>1 DEF Filed
    <2>3. BoxGains(inBox, inBox', "PEER", p, k, n)
      BY <1>0, <1>1, <1>2, <2>1, <2>2, PutIds
    <2>4. QED BY <1>0, <1>1, <2>1, <2>3 DEF BoxGains, Filed, Keys
  <1>6. QED BY <1>1, <1>3, <1>4, <1>5

LEMMA EnqueuePlaced ==
    ASSUME Shape, Placed, NEW p \in Peers, Enqueue(p)
    PROVE  Placed'
  <1>0. PICK m, q, g, n : m = recvMsg[p] /\ q = m.src /\ g = m.tag /\ n = m.id
    OBVIOUS
  <1>1. /\ recvPC[p] = "enqueue" /\ recvPC' = [recvPC EXCEPT ![p] = "recv"]
        /\ m \in Mail("PEER", Peers, Tags) /\ q \in Peers /\ g \in Tags /\ inBox' = Put(inBox, p, m)
        /\ recvMsg' = [recvMsg EXCEPT ![p] = Nothing]
        /\ UNCHANGED <<ctrlMsg, data, ctrl, ctrlBox, sent, taken, completed, out>>
    <2>1. /\ recvPC[p] = "enqueue" /\ recvPC' = [recvPC EXCEPT ![p] = "recv"]
          /\ inBox' = Put(inBox, p, m) /\ recvMsg' = [recvMsg EXCEPT ![p] = Nothing]
          /\ UNCHANGED <<ctrlMsg, data, ctrl, ctrlBox, sent, taken, completed, out>>
      BY <1>0 DEF Enqueue, GotoRecv, wires, history, userVars
    <2>2. m \in Mail("PEER", Peers, Tags) /\ q \in Peers /\ g \in Tags
      BY <1>0, <2>1, HandlerFacts
    <2>3. QED BY <2>1, <2>2
  <1>2. /\ Partition /\ Distinct /\ CompletedSent /\ BoxHolds(inBox, "PEER") /\ BoxDistinct(inBox, "PEER")
        /\ recvPC \in [Peers -> {"recv", "lock", "confirm", "enqueue", "stopped"}]
        /\ recvMsg \in [Peers -> Messages \cup {Nothing}]
    BY DEF Placed, Distinct, Shape, Boxes, Others
  <1>3. /\ Filing(q, p) = {n} /\ Filing(q, p)' = {}
        /\ \A x, y \in Peers : InHandler(x, y)' = InHandler(x, y)
        /\ \A x, y \in Peers : x # q \/ y # p => Filing(x, y)' = Filing(x, y)
        /\ n \notin Filed(q, p, g)
        /\ BoxDistinct(inBox', "PEER") /\ Filed(q, p, g)' = Filed(q, p, g) \cup {n}
        /\ \A x, y \in Peers : \A h \in Tags : x # q \/ y # p \/ h # g => Filed(x, y, h)' = Filed(x, y, h)
    BY <1>0, EnqueueMoves
  <1>4. n \in At(q, p, <<"enqueue", 0>>)
    BY <1>3, AtIs
  <1>5. Only(q, p, {<<"enqueue", 0>>, <<"inBox", g>>, <<"inBox", g>>})
    BY <1>1, <1>3, Untouched, KeepsOnly DEF Keeps
  <1>6. Partition'
    <2>1. /\ At(q, p, <<"enqueue", 0>>)' = At(q, p, <<"enqueue", 0>>) \ {n}
          /\ At(q, p, <<"inBox", g>>)' = At(q, p, <<"inBox", g>>) \cup {n}
      BY <1>3, AtIs
    <2>2. /\ MovedIn(q, p, MessagePlaces, <<"enqueue", 0>>, <<"inBox", g>>)
          /\ MovedIn(q, p, ConfirmationPlaces, <<"enqueue", 0>>, <<"inBox", g>>)
          /\ <<"enqueue", 0>> \in Places
      BY <1>1, PlaceFacts DEF MovedIn
    <2>3. QED BY <1>1, <1>2, <1>4, <1>5, <2>1, <2>2, Moves
  <1>7. Distinct'
    BY <1>1, <1>2, <1>3, Untouched DEF Distinct
  <1>8. QED BY <1>1, <1>2, <1>6, <1>7, Untouched DEF Placed

LEMMA CtrlFromSocketPlaced ==
    ASSUME Shape, Placed, NEW p \in Peers, NEW q \in Peers, CtrlFromSocket(p, q)
    PROVE  Placed'
  <1>0. PICK m : m = Head(ctrl[q][p])
    OBVIOUS
  <1>1. /\ ctrlPC[p] = "recv" /\ ctrl[q][p] # <<>> /\ ctrl' = Shifted(ctrl, q, p)
        /\ UNCHANGED <<recvPC, recvMsg, data, inBox, ctrlBox, sent, taken, completed, out>>
        /\ \/ m.type = "DESTRUCT" /\ UNCHANGED ctrlMsg
           \/ m.type = "CONFIRM" /\ ctrlMsg' = [ctrlMsg EXCEPT ![p] = m]
    BY <1>0 DEF CtrlFromSocket, Shifted, boxes, history, userVars
  <1>2. /\ Partition /\ Distinct /\ CompletedSent /\ WireHolds(ctrl, "CONFIRM") /\ WireDistinct(ctrl, "CONFIRM")
        /\ ctrlMsg \in [Peers -> Messages \cup {Nothing}]
    BY DEF Placed, Distinct, Shape, Wires, Others
  <1>3. /\ WireDistinct(ctrl', "CONFIRM")
        /\ m.type = "CONFIRM" => OnCtrl(p, q)' = OnCtrl(p, q) \ {m.id} /\ m.id \in OnCtrl(p, q)
        /\ m.type # "CONFIRM" => OnCtrl(p, q)' = OnCtrl(p, q)
        /\ \A x, y \in Peers : x # p \/ y # q => OnCtrl(x, y)' = OnCtrl(x, y)
    <2>1. Loses(ctrl, ctrl', "CONFIRM", q, p, m)
      BY <1>0, <1>1, <1>2, ShiftIds
    <2>2. QED BY <2>1 DEF Loses, OnCtrl
  <1>4. Distinct'
    BY <1>1, <1>2, <1>3, Untouched DEF Distinct
  <1>5. CASE m.type = "DESTRUCT"
    <2>1. Only(0, 0, {})
      BY <1>1, <1>3, <1>5, Untouched, KeepsOnly DEF Keeps
    <2>2. QED BY <1>1, <1>2, <1>4, <2>1, StaysPut, Untouched DEF Placed
  <1>6. CASE m.type = "CONFIRM"
    <2>1. m.src = q /\ m # Nothing /\ ctrlMsg[p] = Nothing
      <3>1. m \in Mail("CONFIRM", {q}, Tags)
        BY <1>0, <1>1, <1>6, SocketFacts
      <3>2. m.src = q
        BY <3>1 DEF Mail
      <3>3. m # Nothing
        BY <3>1, MailIsMessage
      <3>4. ctrlMsg[p] = Nothing
        BY <1>1, HandlerFacts
      <3>5. QED BY <3>2, <3>3, <3>4
    <2>2. /\ HandOf(ctrlMsg'[p], q) = HandOf(ctrlMsg[p], q) \cup {m.id}
          /\ \A x, y \in Peers : x # p \/ y # q => HandOf(ctrlMsg'[x], y) = HandOf(ctrlMsg[x], y)
      <3>1. ctrlMsg'[p] = m /\ \A x \in Peers \ {p} : ctrlMsg'[x] = ctrlMsg[x]
        BY <1>1, <1>2, <1>6
      <3>2. QED BY <1>6, <2>1, <3>1 DEF HandOf
    <2>3. Only(p, q, {<<"ctrl", 0>>, <<"ctrlHandler", 0>>, <<"ctrlHandler", 0>>})
      BY <1>1, <1>3, <2>2, Untouched, KeepsOnly DEF Keeps
    <2>4. Partition'
      <3>1. /\ m.id \in At(p, q, <<"ctrl", 0>>) /\ <<"ctrl", 0>> \in Places
            /\ At(p, q, <<"ctrl", 0>>)' = At(p, q, <<"ctrl", 0>>) \ {m.id}
            /\ At(p, q, <<"ctrlHandler", 0>>)' = At(p, q, <<"ctrlHandler", 0>>) \cup {m.id}
        BY <1>3, <1>6, <2>2, AtIs, PlaceFacts
      <3>2. /\ MovedIn(p, q, MessagePlaces, <<"ctrl", 0>>, <<"ctrlHandler", 0>>)
            /\ MovedIn(p, q, ConfirmationPlaces, <<"ctrl", 0>>, <<"ctrlHandler", 0>>)
        BY PlaceFacts DEF MovedIn
      <3>3. QED BY <1>1, <1>2, <2>3, <3>1, <3>2, Moves
    <2>5. QED BY <1>1, <1>2, <1>4, <2>4, Untouched DEF Placed
  <1>7. QED BY <1>1, <1>5, <1>6

LEMMA CtrlEnqueuePlaced ==
    ASSUME Shape, Placed, NEW p \in Peers, CtrlEnqueue(p)
    PROVE  Placed'
  <1>0. PICK m, q, g : m = ctrlMsg[p] /\ q = m.src /\ g = m.tag
    OBVIOUS
  <1>1. /\ m \in Mail("CONFIRM", Peers, Tags) /\ m # Nothing /\ q \in Peers /\ g \in Tags /\ m.type = "CONFIRM"
        /\ ctrlBox' = Put(ctrlBox, p, m) /\ ctrlMsg' = [ctrlMsg EXCEPT ![p] = Nothing]
        /\ ctrlMsg \in [Peers -> Messages \cup {Nothing}]
        /\ UNCHANGED <<data, ctrl, inBox, sent, taken, completed, recvPC, recvMsg, out>>
    <2>1. /\ ctrlPC[p] = "enqueue" /\ ctrlBox' = Put(ctrlBox, p, m) /\ ctrlMsg' = [ctrlMsg EXCEPT ![p] = Nothing]
          /\ UNCHANGED <<data, ctrl, inBox, sent, taken, completed, recvPC, recvMsg, out>>
      BY <1>0 DEF CtrlEnqueue, wires, history, userVars
    <2>2. m \in Mail("CONFIRM", Peers, Tags) /\ m # Nothing /\ q \in Peers /\ g \in Tags /\ m.type = "CONFIRM"
      BY <1>0, <2>1, HandlerFacts
    <2>3. QED BY <2>1, <2>2 DEF Shape, Others
  <1>2. Partition /\ Distinct /\ CompletedSent
    BY DEF Placed
  <1>3. /\ HandOf(ctrlMsg'[p], q) = HandOf(ctrlMsg[p], q) \ {m.id} /\ m.id \in HandOf(ctrlMsg[p], q)
        /\ \A x, y \in Peers : x # p \/ y # q => HandOf(ctrlMsg'[x], y) = HandOf(ctrlMsg[x], y)
    BY <1>0, <1>1 DEF HandOf
  <1>4. /\ m.id \in At(p, q, <<"ctrlHandler", 0>>) /\ <<"ctrlHandler", 0>> \in Places
        /\ At(p, q, <<"ctrlHandler", 0>>)' = At(p, q, <<"ctrlHandler", 0>>) \ {m.id}
    BY <1>3, AtIs, PlaceFacts
  <1>5. m.id \notin Answered(p, q, g)
    <2>1. <<"ctrlHandler", 0>> \in ConfirmationPlaces /\ <<"ctrlBox", g>> \in ConfirmationPlaces
      BY <1>1, PlaceFacts
    <2>2. m.id \notin At(p, q, <<"ctrlBox", g>>)
      BY <1>1, <1>2, <1>4, <2>1, AtNoOther
    <2>3. QED BY <2>2, AtIs
  <1>6. /\ BoxDistinct(ctrlBox', "CONFIRM") /\ Answered(p, q, g)' = Answered(p, q, g) \cup {m.id}
        /\ \A x, y \in Peers : \A h \in Tags : x # p \/ y # q \/ h # g => Answered(x, y, h)' = Answered(x, y, h)
    BY <1>0, <1>1, <1>5, FiledAnswer
  <1>7. Only(p, q, {<<"ctrlHandler", 0>>, <<"ctrlBox", g>>, <<"ctrlBox", g>>})
    BY <1>1, <1>3, <1>6, Untouched, KeepsOnly DEF Keeps
  <1>8. Partition'
    <2>1. At(p, q, <<"ctrlBox", g>>)' = At(p, q, <<"ctrlBox", g>>) \cup {m.id}
      BY <1>6, AtIs
    <2>2. /\ MovedIn(p, q, MessagePlaces, <<"ctrlHandler", 0>>, <<"ctrlBox", g>>)
          /\ MovedIn(p, q, ConfirmationPlaces, <<"ctrlHandler", 0>>, <<"ctrlBox", g>>)
      BY <1>1, PlaceFacts DEF MovedIn
    <2>3. QED BY <1>1, <1>2, <1>4, <1>7, <2>1, <2>2, Moves
  <1>9. Distinct'
    BY <1>1, <1>2, <1>6, Untouched DEF Distinct
  <1>10. QED BY <1>1, <1>2, <1>8, <1>9, Untouched DEF Placed

\* Steps that move nothing.
LEMMA QuietPlaced ==
    ASSUME Shape, Placed, UNCHANGED <<data, ctrl, inBox, ctrlBox, sent, taken, completed, recvMsg, ctrlMsg>>,
           HandsStay,
           UNCHANGED recvPC \/ \E p \in Peers : recvPC[p] = "lock" /\ recvPC' = [recvPC EXCEPT ![p] = "confirm"]
    PROVE  Placed'
  <1>1. \A x, y \in Peers : InHandler(x, y)' = InHandler(x, y) /\ Filing(x, y)' = Filing(x, y)
    <2>1. /\ recvMsg' = recvMsg
          /\ \A y \in Peers : /\ recvPC'[y] \in {"lock", "confirm"} <=> recvPC[y] \in {"lock", "confirm"}
                              /\ recvPC'[y] = "enqueue" <=> recvPC[y] = "enqueue"
      BY DEF Shape, Others
    <2>2. QED BY <2>1 DEF InHandler, Filing
  <1>2. \A x, y \in Peers : HandOf(out'[x], y) = HandOf(out[x], y)
    BY DEF HandsStay, HandOf, NoConfirmation
  <1>3. Only(0, 0, {})
    BY <1>1, <1>2, Untouched, KeepsOnly DEF Keeps
  <1>4. Partition'
    BY <1>3, StaysPut DEF Placed
  <1>5. QED BY <1>4, Untouched DEF Placed, Distinct

LEMMA InitPlaced == Init => Placed
  <1> SUFFICES ASSUME Init PROVE Placed
    OBVIOUS
  <1>1. \A type : TypedIds(<<>>, type) = {} /\ TypedDistinct(<<>>, type)
    BY DEF TypedIds, TypedDistinct
  <1>2. /\ \A p, q \in Peers : data[p][q] = <<>> /\ ctrl[p][q] = <<>> /\ sent[p][q] = <<>> /\ taken[p][q] = {}
        /\ \A p, q \in Peers : \A g \in Tags : inBox[p][<<q, g>>] = <<>> /\ ctrlBox[p][<<q, g>>] = <<>>
        /\ \A p \in Peers : /\ recvPC[p] = "recv" /\ ctrlMsg[p] = Nothing /\ out[p] = Nothing
                            /\ completed[p] = {}
    BY DEF Init, Keys
  <1>3. ASSUME NEW p \in Peers, NEW q \in Peers
        PROVE  SentIds(p, q) = {} /\ \A l \in Places : At(p, q, l) = {}
    <2>1. SentIds(p, q) = {}
      BY <1>2 DEF SentIds
    <2>2. /\ OnData(p, q) = {} /\ InHandler(p, q) = {} /\ Filing(p, q) = {} /\ taken[q][p] = {}
          /\ OnCtrl(p, q) = {} /\ HandOf(ctrlMsg[p], q) = {} /\ HandOf(out[p], q) = {} /\ Finished(p, q) = {}
          /\ \A g \in Tags : Filed(p, q, g) = {} /\ Answered(p, q, g) = {}
      BY <1>1, <1>2 DEF OnData, InHandler, Filing, OnCtrl, HandOf, Finished, Filed, Answered
    <2>3. QED BY <2>1, <2>2, AtIs, PlaceCases
  <1>4. Partition
    BY <1>3, PartsMean DEF Partition, Places
  <1>5. QED BY <1>1, <1>2, <1>4 DEF Placed, Distinct, WireDistinct, BoxDistinct, CompletedSent

\* The inductive invariant of ExactlyOnce and OneConfirmation.
THEOREM PlacedInvariant == Spec => []Placed
  <1>1. Shape /\ MessageIDs /\ Placed /\ [Next]_vars => Placed'
    <2>1. SUFFICES ASSUME Shape, MessageIDs, Placed, [Next]_vars PROVE Placed'
      OBVIOUS
    <2>2. ASSUME NEW p \in Peers, UserStep(p) PROVE Placed'
      <3>1. UNCHANGED handlers
        BY <2>1, <2>2, UserEffects
      <3>2. CASE UNCHANGED <<wires, boxes, history>> /\ HandsStay
        BY <2>1, <3>1, <3>2, QuietPlaced DEF wires, boxes, history, handlers
      <3>3. ASSUME NEW r \in Peers, NEW h \in Tags, TakeMessage(p, <<r, h>>), UNCHANGED <<wires, out>>
            PROVE  Placed'
        BY <2>1, <3>1, <3>3, TakePlaced DEF wires
      <3>4. CASE Transmit(p)
        BY <2>1, <3>1, <3>4, TransmitPlaced
      <3>5. CASE TransmitDestruct(p) \/ TransmitDestructCtrl(p)
        BY <2>1, <3>1, <3>5, DestructPlaced
      <3>6. CASE DequeueConfirm(p)
        BY <2>1, <3>1, <3>6, DequeuePlaced
      <3>7. CASE PutBack(p)
        BY <2>1, <3>1, <3>7, PutBackPlaced
      <3>8. QED BY <2>1, <2>2, <3>2, <3>3, <3>4, <3>5, <3>6, <3>7, UserEffects
    <2>3. ASSUME NEW p \in Peers, HandleRecv(p) PROVE Placed'
      <3>1. CASE ConfirmLock(p)
        BY <2>1, <3>1, QuietPlaced
           DEF ConfirmLock, GotoRecv, wires, boxes, history, userVars, HandsStay
      <3>2. QED BY <2>1, <2>3, <3>1, RecvFromSocketPlaced, ConfirmPlaced, EnqueuePlaced DEF HandleRecv
    <2>4. ASSUME NEW p \in Peers, HandleCtrl(p) PROVE Placed'
      <3>1. CASE CtrlCheck(p)
        BY <2>1, <3>1, QuietPlaced DEF CtrlCheck, wires, boxes, history, userVars, HandsStay
      <3>2. QED BY <2>1, <2>4, <3>1, CtrlFromSocketPlaced, CtrlEnqueuePlaced DEF HandleCtrl
    <2>5. CASE UNCHANGED vars
      BY <2>1, <2>5, QuietPlaced DEF vars, wires, boxes, history, handlers, userVars, HandsStay
    <2>6. QED BY <2>1, <2>2, <2>3, <2>4, <2>5 DEF Next, Thread
  <1>2. QED BY <1>1, InitPlaced, ShapeInvariant, MessageIDsInvariant, PTL DEF Spec

-----------------------------------------------------------------------------
(* Counting the places instead of the ids.                                 *)

\* P are places that hold the ids I, no two the same id.
Holds(P, I) == IdOf(P) = I /\ \A x, y \in P : x[3] = y[3] => x = y

LEMMA IdsHold ==
    ASSUME NEW s, NEW type, NEW place, TypedDistinct(s, type)
    PROVE  Holds(Ids(s, type, place), TypedIds(s, type))
  <1>1. ASSUME NEW x
        PROVE  x \in Ids(s, type, place) <=>
                 \E i \in DOMAIN s : s[i].type = type /\ x = <<place, i, s[i].id>>
    BY DEF Ids
  <1>2. IdOf(Ids(s, type, place)) = TypedIds(s, type)
    <2>1. ASSUME NEW i \in DOMAIN s, s[i].type = type
          PROVE  \E x \in Ids(s, type, place) : x[3] = s[i].id
      <3>1. <<place, i, s[i].id>> \in Ids(s, type, place)
        BY <1>1, <2>1
      <3>2. <<place, i, s[i].id>>[3] = s[i].id
        OBVIOUS
      <3>3. QED BY <3>1, <3>2
    <2>2. ASSUME NEW x \in Ids(s, type, place)
          PROVE  \E i \in DOMAIN s : s[i].type = type /\ x[3] = s[i].id
      BY <1>1
    <2>3. QED BY <2>1, <2>2 DEF IdOf, TypedIds
  <1>3. ASSUME NEW x \in Ids(s, type, place), NEW y \in Ids(s, type, place), x[3] = y[3]
        PROVE  x = y
    <2>1. PICK i \in DOMAIN s : s[i].type = type /\ x = <<place, i, s[i].id>>
      BY <1>1
    <2>2. PICK j \in DOMAIN s : s[j].type = type /\ y = <<place, j, s[j].id>>
      BY <1>1
    <2>3. i = j
      BY <1>3, <2>1, <2>2 DEF TypedDistinct
    <2>4. QED BY <2>1, <2>2, <2>3
  <1>4. QED BY <1>2, <1>3 DEF Holds

LEMMA OneHolds ==
    ASSUME NEW place, NEW n
    PROVE  Holds({<<place, 0, n>>}, {n}) /\ Holds({}, {})
  BY DEF Holds, IdOf

LEMMA UnionHolds ==
    ASSUME NEW P, NEW I, NEW Q, NEW J, Holds(P, I), Holds(Q, J), I \cap J = {}
    PROVE  Holds(P \cup Q, I \cup J)
  <1>1. IdOf(P \cup Q) = I \cup J
    BY DEF Holds, IdOf
  <1>2. /\ \A x \in P : x[3] \in I
        /\ \A x \in Q : x[3] \in J
    BY DEF Holds, IdOf
  <1>3. ASSUME NEW x \in P \cup Q, NEW y \in P \cup Q, x[3] = y[3]
        PROVE  x = y
    BY <1>2, <1>3 DEF Holds
  <1>4. QED BY <1>1, <1>3 DEF Holds

Gathered(F) == UNION {F[g] : g \in Tags}

LEMMA FamilyHolds ==
    ASSUME NEW P, NEW I, \A g \in Tags : Holds(P[g], I[g]),
           \A g, h \in Tags : g # h => I[g] \cap I[h] = {}
    PROVE  Holds(Gathered(P), Gathered(I))
  <1>1. \A g \in Tags : \A x \in P[g] : x[3] \in I[g]
    BY DEF Holds, IdOf
  <1>2. \A g \in Tags : \A n \in I[g] : \E x \in P[g] : n = x[3]
    BY DEF Holds, IdOf
  <1>3. IdOf(Gathered(P)) = Gathered(I)
    BY <1>1, <1>2 DEF IdOf, Gathered
  <1>4. ASSUME NEW x \in Gathered(P), NEW y \in Gathered(P), x[3] = y[3]
        PROVE  x = y
    <2>1. PICK g \in Tags, h \in Tags : x \in P[g] /\ y \in P[h]
      BY DEF Gathered
    <2>2. g = h
      BY <1>1, <1>4, <2>1
    <2>3. QED BY <1>4, <2>1, <2>2 DEF Holds
  <1>5. QED BY <1>3, <1>4 DEF Holds

LEMMA HoldsCounts ==
    ASSUME NEW S, IsFiniteSet(S), NEW P, NEW I, Holds(P, I), I \subseteq S
    PROVE  /\ IsFiniteSet(P) /\ Cardinality(P) \in Nat
           /\ Cardinality(S) = Cardinality(P) + Cardinality(S \ I)
  <1>1. IsFiniteSet(I)
    BY FS_Subset
  <1>2. PICK f : f = [x \in P |-> x[3]]
    OBVIOUS
  <1>3. f \in Injection(P, I) /\ f \in Surjection(P, I)
    <2>1. f \in [P -> I] /\ IsInjective(f)
      BY <1>2 DEF Holds, IdOf, IsInjective
    <2>2. \A n \in I : \E x \in P : f[x] = n
      BY <1>2 DEF Holds, IdOf
    <2>3. QED BY <2>1, <2>2 DEF Injection, Surjection
  <1>4. IsFiniteSet(P) /\ Cardinality(P) = Cardinality(I)
    BY <1>1, <1>3, FS_Injection
  <1>5. Cardinality(S \ I) = Cardinality(S) - Cardinality(S \cap I)
    BY FS_Difference
  <1>6. Cardinality(S \cap I) = Cardinality(P)
    <2>1. S \cap I = I
      OBVIOUS
    <2>2. QED BY <1>4, <2>1
  <1>7. Cardinality(P) \in Nat /\ Cardinality(S) \in Nat
    BY <1>4, FS_CardinalityType
  <1>8. Cardinality(S) = Cardinality(P) + Cardinality(S \ I)
    BY <1>5, <1>6, <1>7
  <1>9. QED BY <1>4, <1>7, <1>8

LEMMA LengthCounts ==
    ASSUME NEW s, NEW n \in Nat, DOMAIN s = 1 .. n, \A i \in 1 .. n : s[i].id \in Nat, Ascending(s)
    PROVE  IsFiniteSet(IdsIn(s)) /\ Cardinality(IdsIn(s)) = n
  <1>1. PICK f : f = [i \in 1 .. n |-> s[i].id]
    OBVIOUS
  <1>2. IsInjective(f)
    <2>1. SUFFICES ASSUME NEW i \in 1 .. n, NEW j \in 1 .. n, s[i].id = s[j].id PROVE i = j
      BY <1>1 DEF IsInjective
    <2>2. ~ (i < j) /\ ~ (j < i)
      BY <2>1 DEF Ascending
    <2>3. QED BY <2>2
  <1>3. f \in Bijection(1 .. n, IdsIn(s))
    BY <1>1, <1>2 DEF Bijection, Injection, Surjection, IdsIn
  <1>4. IsFiniteSet(1 .. n) /\ ExistsBijection(1 .. n, IdsIn(s))
    BY <1>3, FS_Interval DEF ExistsBijection
  <1>5. QED BY <1>4, FS_Bijection, FS_CountingElements

\* Every id was sent once, so there are as many as messages.
LEMMA SentCounts ==
    ASSUME Shape, MessageIDs, NEW p \in Peers, NEW q \in Peers
    PROVE  /\ IsFiniteSet(SentIds(p, q)) /\ Len(sent[p][q]) \in Nat
           /\ Cardinality(SentIds(p, q)) = Len(sent[p][q])
  <1>1. PICK s, n : s = sent[p][q] /\ n = Len(s)
    OBVIOUS
  <1>2. s \in Seq(Items)
    BY <1>1 DEF Shape, Others, Items
  <1>3. n \in Nat /\ DOMAIN s = 1 .. n /\ \A i \in 1 .. n : s[i] \in Items
    BY <1>1, <1>2, LenProperties, ElementOfSeq
  <1>4. \A i \in 1 .. n : s[i].id \in Nat
    BY <1>3, PeersAssumption DEF Items
  <1>5. Ascending(s) /\ IdsIn(s) = SentIds(p, q)
    BY <1>1 DEF MessageIDs, IdsOK, Ascending, IdsIn, SentIds
  <1>6. IsFiniteSet(IdsIn(s)) /\ Cardinality(IdsIn(s)) = n
    BY <1>3, <1>4, <1>5, LengthCounts
  <1>7. QED BY <1>1, <1>3, <1>5, <1>6

\* The ids that are at some of the places L.
Among(p, q, L) == UNION {At(p, q, l) : l \in L}

UnconfirmedPlaces == {<<"data", 0>>, <<"recvHandler", 0>>}
ArrivedPlaces == {<<"enqueue", 0>>} \cup ({"inBox"} \X Tags)
ConfirmingPlaces == {<<"ctrl", 0>>, <<"ctrlHandler", 0>>, <<"user", 0>>} \cup ({"ctrlBox"} \X Tags)

\* Two ids at two places of a kind differ.
LEMMA AmongApart ==
    ASSUME Partition, NEW p \in Peers, NEW q \in Peers, NEW L \in {MessagePlaces, ConfirmationPlaces},
           NEW A, A \subseteq L, NEW B, B \subseteq L, A \cap B = {}
    PROVE  Among(p, q, A) \cap Among(p, q, B) = {}
  <1>1. SUFFICES ASSUME NEW l \in A, NEW m \in B, NEW n \in At(p, q, l), n \in At(p, q, m)
                 PROVE  FALSE
    BY DEF Among
  <1>2. l \in L /\ m \in L /\ l # m
    OBVIOUS
  <1>3. QED BY <1>1, <1>2, AtNoOther

LEMMA UnconfirmedHolds ==
    ASSUME Placed, NEW p \in Peers, NEW q \in Peers
    PROVE  Holds(Unconfirmed(p, q), Among(p, q, UnconfirmedPlaces))
  <1>1. PICK P : P = IF recvPC[q] \in {"lock", "confirm"} /\ recvMsg[q].src = p
                     THEN {<<<<"hand", 0>>, 0, recvMsg[q].id>>} ELSE {}
    OBVIOUS
  <1>2. Holds(P, InHandler(p, q))
    BY <1>1, OneHolds DEF InHandler
  <1>3. Holds(Ids(data[p][q], "PEER", <<"data", 0>>), OnData(p, q))
    BY IdsHold DEF Placed, Distinct, WireDistinct, OnData
  <1>4. OnData(p, q) \cap InHandler(p, q) = {}
    <2>1. \A n \in OnData(p, q) : n \notin InHandler(p, q)
      BY AtIs, AtNoOther, PlaceFacts DEF Placed
    <2>2. QED BY <2>1
  <1>5. Unconfirmed(p, q) = Ids(data[p][q], "PEER", <<"data", 0>>) \cup P
    BY <1>1 DEF Unconfirmed
  <1>6. Among(p, q, UnconfirmedPlaces) = OnData(p, q) \cup InHandler(p, q)
    BY AtIs DEF Among, UnconfirmedPlaces
  <1>7. QED BY <1>2, <1>3, <1>4, <1>5, <1>6, UnionHolds

LEMMA ArrivedHolds ==
    ASSUME Placed, NEW p \in Peers, NEW q \in Peers
    PROVE  Holds(Arrived(p, q), Among(p, q, ArrivedPlaces))
  <1>1. PICK P : P = IF recvPC[q] = "enqueue" /\ recvMsg[q].src = p
                     THEN {<<<<"hand", 0>>, 0, recvMsg[q].id>>} ELSE {}
    OBVIOUS
  <1>2. Holds(P, Filing(p, q))
    BY <1>1, OneHolds DEF Filing
  <1>3. PICK F, I : /\ F = [g \in Tags |-> Ids(inBox[q][<<p, g>>], "PEER", <<"inBox", g>>)]
                    /\ I = [g \in Tags |-> Filed(p, q, g)]
    OBVIOUS
  <1>4. \A g \in Tags : Holds(F[g], I[g])
    BY <1>3, IdsHold DEF Placed, Distinct, BoxDistinct, Filed
  <1>5. ASSUME NEW g \in Tags
        PROVE  /\ <<"inBox", g>> \in MessagePlaces /\ At(p, q, <<"inBox", g>>) = I[g]
               /\ <<"inBox", g>> # <<"enqueue", 0>>
    BY <1>3, AtIs, PlaceFacts
  <1>6. ASSUME NEW g \in Tags, NEW h \in Tags, g # h PROVE I[g] \cap I[h] = {}
    <2>1. \A n \in At(p, q, <<"inBox", g>>) : n \notin At(p, q, <<"inBox", h>>)
      BY <1>5, <1>6, AtNoOther DEF Placed
    <2>2. QED BY <1>5, <2>1
  <1>7. Holds(Gathered(F), Gathered(I))
    BY <1>4, <1>6, FamilyHolds
  <1>8. Gathered(I) \cap Filing(p, q) = {}
    <2>1. ASSUME NEW g \in Tags, NEW n \in I[g] PROVE n \notin Filing(p, q)
      <3>1. n \notin At(p, q, <<"enqueue", 0>>)
        BY <1>5, <2>1, AtNoOther, PlaceFacts DEF Placed
      <3>2. QED BY <3>1, AtIs
    <2>2. QED BY <2>1 DEF Gathered
  <1>9. Arrived(p, q) = Gathered(F) \cup P
    <2> DEFINE X == UNION {Ids(inBox[q][<<p, g>>], "PEER", <<"inBox", g>>) : g \in Tags}
    <2>1. Gathered(F) = X
      BY <1>3 DEF Gathered
    <2>2. Arrived(p, q) = X \cup P
      BY <1>1 DEF Arrived
    <2> HIDE DEF X
    <2>3. QED BY <2>1, <2>2
  <1>10. Among(p, q, ArrivedPlaces) = Gathered(I) \cup Filing(p, q)
    <2>1. \A l : l \in ArrivedPlaces <=> l = <<"enqueue", 0>> \/ \E g \in Tags : l = <<"inBox", g>>
      BY DEF ArrivedPlaces
    <2>2. At(p, q, <<"enqueue", 0>>) = Filing(p, q)
      BY AtIs
    <2>3. ASSUME NEW n PROVE n \in Among(p, q, ArrivedPlaces) <=> n \in Gathered(I) \cup Filing(p, q)
      <3>1. n \in Among(p, q, ArrivedPlaces) <=> \E l \in ArrivedPlaces : n \in At(p, q, l)
        BY DEF Among
      <3>2. n \in Gathered(I) <=> \E g \in Tags : n \in At(p, q, <<"inBox", g>>)
        BY <1>5 DEF Gathered
      <3>3. QED BY <2>1, <2>2, <3>1, <3>2
    <2>4. QED BY <2>3
  <1>11. QED BY <1>2, <1>7, <1>8, <1>9, <1>10, UnionHolds

LEMMA ConfirmingHolds ==
    ASSUME Placed, NEW p \in Peers, NEW q \in Peers
    PROVE  Holds(Confirming(p, q), Among(p, q, ConfirmingPlaces))
  <1>1. PICK C, D, E : /\ C = Ids(ctrl[q][p], "CONFIRM", <<"ctrl", 0>>)
                       /\ D = {x \in Hand(ctrlMsg[p], "CONFIRM", <<"ctrlHandler", 0>>) : ctrlMsg[p].src = q}
                       /\ E = {x \in Hand(out[p], "CONFIRM", <<"user", 0>>) : out[p].src = q}
    OBVIOUS
  <1>2. Holds(C, OnCtrl(p, q))
    BY <1>1, IdsHold DEF Placed, Distinct, WireDistinct, OnCtrl
  <1>3. ASSUME NEW m, NEW place
        PROVE  Holds({x \in Hand(m, "CONFIRM", place) : m.src = q}, HandOf(m, q))
    <2>1. CASE m # Nothing /\ m.type = "CONFIRM" /\ m.src = q
      <3>1. {x \in Hand(m, "CONFIRM", place) : m.src = q} = {<<place, 0, m.id>>} /\ HandOf(m, q) = {m.id}
        BY <2>1 DEF Hand, HandOf
      <3>2. QED BY <3>1, OneHolds
    <2>2. CASE ~ (m # Nothing /\ m.type = "CONFIRM" /\ m.src = q)
      <3>1. {x \in Hand(m, "CONFIRM", place) : m.src = q} = {} /\ HandOf(m, q) = {}
        BY <2>2 DEF Hand, HandOf
      <3>2. QED BY <3>1, OneHolds
    <2>3. QED BY <2>1, <2>2
  <1>4. Holds(D, HandOf(ctrlMsg[p], q)) /\ Holds(E, HandOf(out[p], q))
    BY <1>1, <1>3
  <1>5. PICK F, I : /\ F = [g \in Tags |-> Ids(ctrlBox[p][<<q, g>>], "CONFIRM", <<"ctrlBox", g>>)]
                    /\ I = [g \in Tags |-> Answered(p, q, g)]
    OBVIOUS
  <1>6. \A g \in Tags : Holds(F[g], I[g])
    BY <1>5, IdsHold DEF Placed, Distinct, BoxDistinct, Answered
  <1>7. ASSUME NEW g \in Tags
        PROVE  <<"ctrlBox", g>> \in ConfirmationPlaces /\ At(p, q, <<"ctrlBox", g>>) = I[g]
    <2>1. <<"ctrlBox", g>> \in ConfirmationPlaces
      BY PlaceFacts
    <2>2. At(p, q, <<"ctrlBox", g>>) = Answered(p, q, g)
      BY AtIs
    <2>3. QED BY <1>5, <2>1, <2>2
  <1>8. ASSUME NEW g \in Tags, NEW h \in Tags, g # h PROVE I[g] \cap I[h] = {}
    <2>1. \A n \in At(p, q, <<"ctrlBox", g>>) : n \notin At(p, q, <<"ctrlBox", h>>)
      BY <1>7, <1>8, AtNoOther DEF Placed
    <2>2. QED BY <1>7, <2>1
  <1>9. Holds(Gathered(F), Gathered(I))
    BY <1>6, <1>8, FamilyHolds
  <1>10. /\ OnCtrl(p, q) \cap Gathered(I) = {}
         /\ (OnCtrl(p, q) \cup Gathered(I)) \cap HandOf(ctrlMsg[p], q) = {}
         /\ ((OnCtrl(p, q) \cup Gathered(I)) \cup HandOf(ctrlMsg[p], q)) \cap HandOf(out[p], q) = {}
    <2>1. \A s \in {"ctrl", "ctrlHandler", "user"} : \A g \in Tags :
            <<s, 0>> \in ConfirmationPlaces /\ <<s, 0>> # <<"ctrlBox", g>>
      BY PlaceFacts
    <2>2. ASSUME NEW s \in {"ctrl", "ctrlHandler", "user"}, NEW n \in At(p, q, <<s, 0>>)
          PROVE  n \notin Gathered(I)
      <3>1. ASSUME NEW g \in Tags PROVE n \notin I[g]
        BY <1>7, <2>1, <2>2, AtNoOther DEF Placed
      <3>2. QED BY <3>1 DEF Gathered
    <2>3. \A n \in At(p, q, <<"ctrl", 0>>) : n \notin At(p, q, <<"ctrlHandler", 0>>) /\ n \notin At(p, q, <<"user", 0>>)
      BY AtNoOther, PlaceFacts DEF Placed
    <2>4. \A n \in At(p, q, <<"ctrlHandler", 0>>) : n \notin At(p, q, <<"user", 0>>)
      BY AtNoOther, PlaceFacts DEF Placed
    <2>5. /\ At(p, q, <<"ctrl", 0>>) = OnCtrl(p, q) /\ At(p, q, <<"user", 0>>) = HandOf(out[p], q)
          /\ At(p, q, <<"ctrlHandler", 0>>) = HandOf(ctrlMsg[p], q)
      BY AtIs
    <2>6. /\ \A n \in OnCtrl(p, q) : n \notin Gathered(I)
          /\ \A n \in HandOf(ctrlMsg[p], q) : n \notin Gathered(I)
          /\ \A n \in HandOf(out[p], q) : n \notin Gathered(I)
      BY <2>2, <2>5
    <2>7. QED BY <2>3, <2>4, <2>5, <2>6
  <1>11. Holds(((C \cup Gathered(F)) \cup D) \cup E,
               ((OnCtrl(p, q) \cup Gathered(I)) \cup HandOf(ctrlMsg[p], q)) \cup HandOf(out[p], q))
    BY <1>2, <1>4, <1>9, <1>10, UnionHolds
  <1>12. Confirming(p, q) = ((C \cup Gathered(F)) \cup D) \cup E
    <2> DEFINE X == UNION {Ids(ctrlBox[p][<<q, g>>], "CONFIRM", <<"ctrlBox", g>>) : g \in Tags}
    <2>1. Gathered(F) = X
      BY <1>5 DEF Gathered
    <2>2. Confirming(p, q) = ((C \cup X) \cup D) \cup E
      BY <1>1 DEF Confirming
    <2> HIDE DEF X
    <2>3. QED BY <2>1, <2>2
  <1>13. Among(p, q, ConfirmingPlaces) =
           ((OnCtrl(p, q) \cup Gathered(I)) \cup HandOf(ctrlMsg[p], q)) \cup HandOf(out[p], q)
    <2>1. \A l : l \in ConfirmingPlaces <=>
            \/ l \in {<<"ctrl", 0>>, <<"ctrlHandler", 0>>, <<"user", 0>>}
            \/ \E g \in Tags : l = <<"ctrlBox", g>>
      BY DEF ConfirmingPlaces
    <2>2. ASSUME NEW n
          PROVE  n \in Among(p, q, ConfirmingPlaces) <=>
                   n \in OnCtrl(p, q) \/ n \in Gathered(I) \/ n \in HandOf(ctrlMsg[p], q) \/ n \in HandOf(out[p], q)
      <3>1. n \in Among(p, q, ConfirmingPlaces) <=> \E l \in ConfirmingPlaces : n \in At(p, q, l)
        BY DEF Among
      <3>2. n \in Gathered(I) <=> \E g \in Tags : n \in At(p, q, <<"ctrlBox", g>>)
        BY <1>7 DEF Gathered
      <3>3. /\ At(p, q, <<"ctrl", 0>>) = OnCtrl(p, q) /\ At(p, q, <<"user", 0>>) = HandOf(out[p], q)
            /\ At(p, q, <<"ctrlHandler", 0>>) = HandOf(ctrlMsg[p], q)
        BY AtIs
      <3>4. QED BY <2>1, <3>1, <3>2, <3>3
    <2>3. QED BY <2>2
  <1>14. QED BY <1>11, <1>12, <1>13

-----------------------------------------------------------------------------
\* The ids of a kind of places P and Q together, and the rest of what was sent.
LEMMA PlacesCount ==
    ASSUME Shape, MessageIDs, Placed, NEW p \in Peers, NEW q \in Peers,
           NEW L \in {MessagePlaces, ConfirmationPlaces},
           NEW A, A \subseteq L, NEW B, B \subseteq L, A \cap B = {},
           NEW l \in L, L = (A \cup B) \cup {l}, l \notin A \cup B,
           NEW P, Holds(P, Among(p, q, A)), NEW Q, Holds(Q, Among(p, q, B))
    PROVE  /\ SentIds(p, q) = IdOf(P \cup Q) \cup At(p, q, l)
           /\ Len(sent[p][q]) = Cardinality(P \cup Q) + Cardinality(At(p, q, l))
  <1>1. Among(p, q, A) \cap Among(p, q, B) = {}
    BY AmongApart DEF Placed
  <1>2. PICK I : I = Among(p, q, A) \cup Among(p, q, B)
    OBVIOUS
  <1>3. Holds(P \cup Q, I)
    BY <1>1, <1>2, UnionHolds
  <1>4. I \cap At(p, q, l) = {}
    <2>1. ASSUME NEW m \in A \cup B, NEW n \in At(p, q, m) PROVE n \notin At(p, q, l)
      BY <2>1, AtNoOther DEF Placed
    <2>2. QED BY <1>2, <2>1 DEF Among
  <1>5. SentIds(p, q) = I \cup At(p, q, l)
    <2>1. \A n : n \in SentIds(p, q) <=> \E m \in L : n \in At(p, q, m)
      BY PartsMean DEF Placed, Partition
    <2>2. \A n : n \in I <=> \E m \in A \cup B : n \in At(p, q, m)
      BY <1>2 DEF Among
    <2>3. QED BY <2>1, <2>2
  <1>6. SentIds(p, q) \ I = At(p, q, l)
    BY <1>4, <1>5
  <1>7. Cardinality(SentIds(p, q)) = Cardinality(P \cup Q) + Cardinality(SentIds(p, q) \ I)
    BY <1>3, <1>5, SentCounts, HoldsCounts
  <1>8. QED BY <1>3, <1>5, <1>6, <1>7, SentCounts DEF Holds

\* Every message is at exactly one place between the socket of its sender and
\* the user thread that receives it, whatever blocks and however the threads
\* interleave: asyncSendImpl, handleRecv and recv neither lose a message nor
\* deliver one twice.
THEOREM EveryMessageOnce == Spec => []ExactlyOnce
  <1>1. Shape /\ MessageIDs /\ Placed => ExactlyOnce
    <2>1. SUFFICES ASSUME Shape, MessageIDs, Placed, NEW p \in Peers, NEW q \in Peers,
                          NEW P, P = Unconfirmed(p, q) \cup Arrived(p, q)
                   PROVE  /\ SentIds(p, q) = IdOf(P) \cup taken[q][p]
                          /\ Len(sent[p][q]) = Cardinality(P) + Cardinality(taken[q][p])
      BY DEF ExactlyOnce
    <2>2. PICK L, A, B, l : /\ L = MessagePlaces /\ A = UnconfirmedPlaces /\ B = ArrivedPlaces
                            /\ l = <<"taken", 0>>
      OBVIOUS
    <2>3. /\ L \in {MessagePlaces, ConfirmationPlaces} /\ l \in L /\ A \subseteq L /\ B \subseteq L
          /\ A \cap B = {} /\ l \notin A \cup B /\ L = (A \cup B) \cup {l}
      BY <2>2 DEF MessagePlaces, UnconfirmedPlaces, ArrivedPlaces
    <2>4. Holds(Unconfirmed(p, q), Among(p, q, A)) /\ Holds(Arrived(p, q), Among(p, q, B))
      BY <2>1, <2>2, UnconfirmedHolds, ArrivedHolds
    <2>5. At(p, q, l) = taken[q][p]
      BY <2>2, AtIs
    <2>6. /\ SentIds(p, q) = IdOf(Unconfirmed(p, q) \cup Arrived(p, q)) \cup At(p, q, l)
          /\ Len(sent[p][q]) = Cardinality(Unconfirmed(p, q) \cup Arrived(p, q)) + Cardinality(At(p, q, l))
      <3>1. Shape /\ MessageIDs /\ Placed
        BY <2>1
      <3>2. QED BY <2>3, <2>4, <3>1, PlacesCount
    <2>7. QED BY <2>1, <2>5, <2>6
  <1>2. QED BY <1>1, ShapeInvariant, MessageIDsInvariant, PlacedInvariant, PTL

\* Every message that was sent owes its sender one confirmation, which is at
\* exactly one place until the send has finished: none is lost when Base::ready
\* puts one back, and none is counted for two sends.
THEOREM OneConfirmationEach == Spec => []OneConfirmation
  <1>1. Shape /\ MessageIDs /\ Placed => OneConfirmation
    <2>1. SUFFICES ASSUME Shape, MessageIDs, Placed, NEW p \in Peers, NEW q \in Peers,
                          NEW P, P = Unconfirmed(p, q) \cup Confirming(p, q)
                   PROVE  /\ SentIds(p, q) = IdOf(P) \cup Finished(p, q)
                          /\ Len(sent[p][q]) = Cardinality(P) + Cardinality(Finished(p, q))
      BY DEF OneConfirmation, Finished
    <2>2. PICK L, A, B, l : /\ L = ConfirmationPlaces /\ A = UnconfirmedPlaces /\ B = ConfirmingPlaces
                            /\ l = <<"completed", 0>>
      OBVIOUS
    <2>3. /\ L \in {MessagePlaces, ConfirmationPlaces} /\ l \in L /\ A \subseteq L /\ B \subseteq L
          /\ A \cap B = {} /\ l \notin A \cup B /\ L = (A \cup B) \cup {l}
      BY <2>2 DEF ConfirmationPlaces, UnconfirmedPlaces, ConfirmingPlaces
    <2>4. Holds(Unconfirmed(p, q), Among(p, q, A)) /\ Holds(Confirming(p, q), Among(p, q, B))
      BY <2>1, <2>2, UnconfirmedHolds, ConfirmingHolds
    <2>5. At(p, q, l) = Finished(p, q)
      BY <2>2, AtIs
    <2>6. /\ SentIds(p, q) = IdOf(Unconfirmed(p, q) \cup Confirming(p, q)) \cup At(p, q, l)
          /\ Len(sent[p][q]) = Cardinality(Unconfirmed(p, q) \cup Confirming(p, q)) + Cardinality(At(p, q, l))
      <3>1. Shape /\ MessageIDs /\ Placed
        BY <2>1
      <3>2. QED BY <2>3, <2>4, <3>1, PlacesCount
    <2>7. QED BY <2>1, <2>5, <2>6
  <1>2. QED BY <1>1, ShapeInvariant, MessageIDsInvariant, PlacedInvariant, PTL
=============================================================================
