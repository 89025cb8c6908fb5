--------------------------- MODULE SignalingProofs ---------------------------
(***************************************************************************)
(* Theorems about Signaling, for every finite set of processes, every size *)
(* of a context and every order of launches.                               *)
(***************************************************************************)
EXTENDS Signaling, FiniteSetTheorems, SequenceTheorems, TLAPS

(* What the server has handed out: an id of a context and a place in its   *)
(* phone book, to a process that may not have read the reply yet.          *)

Told(p) == contextID[p] # -1 \/ (pc[p] = "context" /\ wire[p].type = "REPLY")
ToldID(p) == IF contextID[p] # -1 THEN contextID[p] ELSE wire[p].value
Placed(p) == vAddr[p] # -1 \/ (pc[p] = "vAddr" /\ wire[p].type = "REPLY")
Place(p) == IF vAddr[p] # -1 THEN vAddr[p] ELSE wire[p].value

Issued == 0 .. maxContextID - 1
PhoneBook(p) == phoneBook[contextID[p]]

\* The processes the server has told a context.
Asked == {p \in Processes : pc[p] # "off" /\ wire[p].type # "CONTEXT_REQUEST"}

(* The inductive invariant.  One disjunct of Phase for each value of pc.   *)

Shape ==
    /\ after \in [Processes -> SUBSET Processes] /\ after \in Launches
    /\ maxContextID \in Nat /\ maxContextID <= Cardinality(Asked)
    /\ contextIds \in [Names -> Issued \cup {-1}]
    /\ phoneBook \in [ContextIDs -> Seq(Uris)]
    /\ DOMAIN wire = Processes /\ wire = [p \in Processes |-> wire[p]]
    /\ pc \in [Processes -> {"off", "context", "vAddr", "lookup", "running", "gone"}]
    /\ uri \in [Processes -> Uris \cup {None}]
    /\ contextID \in [Processes -> Issued \cup {-1}]
    /\ vAddr \in [Processes -> Nat \cup {-1}]
    /\ book \in [Processes -> [VAddrs -> Uris \cup {None}]]

OffOrAsking(p) ==
    /\ contextID[p] = -1 /\ vAddr[p] = -1
    /\ \/ pc[p] = "off" /\ wire[p] = NoMessage
       \/ /\ pc[p] = "context" /\ uri[p] \in Uris
          /\ \/ wire[p] = Request("CONTEXT_REQUEST", NameOf[p])
             \/ \E c \in Issued : wire[p] = Reply(c)

Joining(p) ==
    /\ pc[p] = "vAddr" /\ vAddr[p] = -1 /\ contextID[p] \in Issued /\ uri[p] \in Uris
    /\ \/ wire[p] = Request("VADDR_REQUEST", [context |-> contextID[p], uri |-> uri[p]])
       \/ \E v \in 0 .. Len(PhoneBook(p)) - 1 : wire[p] = Reply(v)

\* A reply is the address at the place asked for, or none if it is not taken.
LookingUp(p) ==
    /\ pc[p] = "lookup" /\ vAddr[p] \in Nat /\ contextID[p] \in Issued
    /\ LET n == NextVAddr(p) IN
         \/ wire[p] = Request("VADDR_LOOKUP", [context |-> contextID[p], vAddr |-> n])
         \/ wire[p] = Reply(None)
         \/ n < Len(PhoneBook(p)) /\ wire[p] = Reply(PhoneBook(p)[n + 1])

Initialised(p) ==
    /\ vAddr[p] \in Nat /\ contextID[p] \in Issued
    /\ \/ pc[p] = "running" /\ wire[p] = NoMessage
       \/ pc[p] = "gone" /\ wire[p] \in {NoMessage, Request("DESTRUCT", NameOf[p])}

Phase(p) == OffOrAsking(p) \/ Joining(p) \/ LookingUp(p) \/ Initialised(p)

\* The phone book of p has the first n addresses of the server's.
HasBook(p, n) ==
    \A v \in VAddrs : IF v < n THEN v < Len(PhoneBook(p)) /\ book[p][v] = PhoneBook(p)[v + 1]
                      ELSE book[p][v] = None
BookSize(p) ==
    CASE pc[p] = "lookup" -> 0 .. ContextSize - 1
      [] pc[p] \in {"running", "gone"} -> {ContextSize}
      [] OTHER -> {0}
Books == \A p \in Processes : \E n \in BookSize(p) : HasBook(p, n)

\* Places in the phone books and processes correspond.
Places ==
    /\ \A p \in Processes : Placed(p) =>
         /\ Place(p) \in 0 .. Len(PhoneBook(p)) - 1
         /\ PhoneBook(p)[Place(p) + 1] = uri[p]
    /\ \A p, q \in Processes :
         Placed(p) /\ Placed(q) /\ contextID[p] = contextID[q] /\ Place(p) = Place(q) => p = q
    /\ \A c \in ContextIDs : \A v \in 0 .. Len(phoneBook[c]) - 1 :
         \E p \in Processes : Placed(p) /\ contextID[p] = c /\ Place(p) = v

Inv == Shape /\ (\A p \in Processes : Phase(p)) /\ Books /\ Places

\* A registered name stands for a context of processes of that name whose end
\* the server has not seen.
Owners ==
    /\ \A m, n \in Names : contextIds[m] = contextIds[n] /\ contextIds[n] # -1 => m = n
    /\ \A n \in Names : \A p \in Processes :
         Told(p) /\ contextIds[n] = ToldID(p) => NameOf[p] = n /\ ~Ended(p)
LaunchedInOrder == \A p \in Processes : pc[p] # "off" => \A q \in after[p] : Ended(q)
Generations ==
    Orderly => \A p, q \in Processes :
      Told(p) /\ Told(q) /\ ToldID(p) = ToldID(q) => q \in Generation(p)

GroupInv == Owners /\ LaunchedInOrder /\ Generations

-----------------------------------------------------------------------------
(* Facts about the invariant.                                              *)

LEMMA AskedFinite == IsFiniteSet(Asked) /\ Cardinality(Asked) <= Cardinality(Processes)
  BY SignalingAssumption, FS_Subset DEF Asked

\* The server has a phone book for every id it issues.
LEMMA IssuedHaveBooks ==
    ASSUME Shape
    PROVE  Issued \subseteq ContextIDs
  <1>1. Cardinality(Processes) \in Nat /\ Cardinality(Asked) \in Nat
    BY AskedFinite, SignalingAssumption, FS_CardinalityType
  <1>2. QED BY <1>1, AskedFinite DEF Shape, Issued, ContextIDs

\* The next address to ask for is that of the first place without one.
LEMMA NextVAddrIs ==
    ASSUME Shape, NEW p \in Processes, NEW n \in 0 .. ContextSize, HasBook(p, n),
           n > 0 => contextID[p] \in Issued
    PROVE  NextVAddr(p) = n
  <1>1. \A v \in VAddrs : v < n => book[p][v] \in Uris
    <2>1. SUFFICES ASSUME NEW v \in VAddrs, v < n PROVE book[p][v] \in Uris
      OBVIOUS
    <2>2. n > 0
      BY <2>1 DEF VAddrs
    <2>3. PhoneBook(p) \in Seq(Uris)
      BY <2>2, IssuedHaveBooks DEF Shape, PhoneBook
    <2>4. v + 1 \in 1 .. Len(PhoneBook(p)) /\ book[p][v] = PhoneBook(p)[v + 1]
      BY <2>1, <2>3 DEF HasBook, VAddrs
    <2>5. QED BY <2>3, <2>4, ElementOfSeq
  <1>2. {v \in VAddrs : book[p][v] # None} = 0 .. n - 1
    BY <1>1, SignalingAssumption DEF HasBook, VAddrs
  <1>3. n \in Nat /\ n - 1 \in Int
    BY SignalingAssumption
  <1>4. Cardinality(0 .. n - 1) = n
    BY <1>3, FS_Interval
  <1>5. QED BY <1>2, <1>4 DEF NextVAddr

\* What the server entered stays entered.
Grows == \A c \in ContextIDs :
    /\ Len(phoneBook'[c]) >= Len(phoneBook[c])
    /\ \A j \in 1 .. Len(phoneBook[c]) : phoneBook'[c][j] = phoneBook[c][j]

Same(q) == /\ pc'[q] = pc[q] /\ wire'[q] = wire[q] /\ uri'[q] = uri[q]
           /\ contextID'[q] = contextID[q] /\ vAddr'[q] = vAddr[q] /\ book'[q] = book[q]

LEMMA HasBookStays ==
    ASSUME Shape, Grows, NEW q \in Processes, NEW n \in Nat, HasBook(q, n),
           n > 0 => contextID[q] \in Issued,
           n > 0 => contextID'[q] = contextID[q],
           book'[q] = book[q], phoneBook' \in [ContextIDs -> Seq(Uris)]
    PROVE  HasBook(q, n)'
  <1>1. SUFFICES ASSUME NEW v \in VAddrs, v < n
                 PROVE  v < Len(PhoneBook(q)') /\ book'[q][v] = PhoneBook(q)'[v + 1]
    BY DEF HasBook
  <1>2. n > 0 /\ v \in Nat
    BY <1>1 DEF VAddrs
  <1>3. contextID[q] \in ContextIDs /\ PhoneBook(q) \in Seq(Uris)
    BY <1>2, IssuedHaveBooks DEF Shape, PhoneBook
  <1>4. v < Len(PhoneBook(q)) /\ book[q][v] = PhoneBook(q)[v + 1]
    BY <1>1 DEF HasBook
  <1>5. PhoneBook(q)' = phoneBook'[contextID[q]] /\ phoneBook'[contextID[q]] \in Seq(Uris)
    BY <1>2, <1>3 DEF PhoneBook
  <1>6. Len(PhoneBook(q)) \in Nat /\ Len(PhoneBook(q)') \in Nat /\ v + 1 \in 1 .. Len(PhoneBook(q))
    BY <1>2, <1>3, <1>4, <1>5
  <1>7. /\ Len(PhoneBook(q)') >= Len(PhoneBook(q))
        /\ PhoneBook(q)'[v + 1] = PhoneBook(q)[v + 1]
    BY <1>3, <1>5, <1>6 DEF Grows, PhoneBook
  <1>8. QED BY <1>2, <1>4, <1>6, <1>7

LEMMA BookSizeIs ==
    ASSUME NEW q \in Processes, NEW n \in BookSize(q), Phase(q)
    PROVE  n \in 0 .. ContextSize /\ (n > 0 => contextID[q] \in Issued)
  <1>1. CASE OffOrAsking(q) \/ Joining(q)
    <2>1. n = 0
      BY <1>1 DEF OffOrAsking, Joining, BookSize
    <2>2. QED BY <2>1, SignalingAssumption
  <1>2. CASE LookingUp(q)
    BY <1>2, SignalingAssumption DEF LookingUp, BookSize
  <1>3. CASE Initialised(q)
    BY <1>3, SignalingAssumption DEF Initialised, BookSize
  <1>4. QED BY <1>1, <1>2, <1>3 DEF Phase

LEMMA ProcessStays ==
    ASSUME Inv, Grows, maxContextID' \in Nat, maxContextID' >= maxContextID,
           phoneBook' \in [ContextIDs -> Seq(Uris)],
           NEW q \in Processes, Same(q)
    PROVE  Phase(q)' /\ \E n \in BookSize(q)' : HasBook(q, n)'
  <1>1. Issued \subseteq Issued' /\ BookSize(q)' = BookSize(q) /\ NextVAddr(q)' = NextVAddr(q)
    BY DEF Inv, Shape, Issued, Same, BookSize, NextVAddr
  <1>2. PICK n \in BookSize(q) : HasBook(q, n)
    BY DEF Inv, Books
  <1>3. n \in 0 .. ContextSize /\ (n > 0 => contextID[q] \in Issued)
    BY <1>2, BookSizeIs DEF Inv
  <1>4. HasBook(q, n)'
    BY <1>2, <1>3, HasBookStays DEF Inv, Same
  <1>5. NextVAddr(q) = n
    BY <1>2, <1>3, NextVAddrIs DEF Inv
  <1>6. Phase(q)'
    <2>1. CASE OffOrAsking(q)
      BY <2>1, <1>1 DEF Phase, OffOrAsking, Same
    <2>2. CASE Joining(q)
      <3>1. contextID[q] \in ContextIDs /\ phoneBook[contextID[q]] \in Seq(Uris)
            /\ phoneBook'[contextID[q]] \in Seq(Uris)
        BY <2>2, IssuedHaveBooks DEF Joining, Inv, Shape
      <3>2. 0 .. Len(PhoneBook(q)) - 1 \subseteq 0 .. Len(PhoneBook(q)') - 1
        BY <3>1 DEF Grows, PhoneBook, Same
      <3>3. Joining(q)'
        BY <2>2, <1>1, <3>2 DEF Joining, Same
      <3>4. QED BY <3>3 DEF Phase
    <2>3. CASE LookingUp(q)
      <3>1. contextID[q] \in ContextIDs /\ phoneBook[contextID[q]] \in Seq(Uris)
            /\ phoneBook'[contextID[q]] \in Seq(Uris)
        BY <2>3, IssuedHaveBooks DEF LookingUp, Inv, Shape
      <3>2. n < Len(PhoneBook(q)) => n < Len(PhoneBook(q)') /\ PhoneBook(q)'[n + 1] = PhoneBook(q)[n + 1]
        <4>1. SUFFICES ASSUME n < Len(phoneBook[contextID[q]])
                       PROVE  /\ n < Len(phoneBook'[contextID[q]])
                              /\ phoneBook'[contextID[q]][n + 1] = phoneBook[contextID[q]][n + 1]
          BY DEF PhoneBook, Same
        <4>2. n + 1 \in 1 .. Len(phoneBook[contextID[q]])
          BY <3>1, <1>3, <4>1
        <4>3. QED BY <3>1, <1>3, <4>1, <4>2 DEF Grows
      <3>3. LookingUp(q)'
        BY <2>3, <1>1, <1>5, <3>2 DEF LookingUp, Same
      <3>4. QED BY <3>3 DEF Phase
    <2>4. CASE Initialised(q)
      BY <2>4, <1>1 DEF Phase, Initialised, Same
    <2>5. QED BY <2>1, <2>2, <2>3, <2>4 DEF Inv, Phase
  <1>7. QED BY <1>1, <1>2, <1>4, <1>6

\* Places stay as long as nobody enters the phone book.
LEMMA PlacesStay ==
    ASSUME Places, UNCHANGED phoneBook,
           \A q \in Processes :
             /\ Placed(q)' <=> Placed(q)
             /\ Placed(q) => /\ Place(q)' = Place(q) /\ contextID'[q] = contextID[q]
                             /\ uri'[q] = uri[q]
    PROVE  Places'
  <1>1. \A q \in Processes : Placed(q)' => PhoneBook(q)' = PhoneBook(q)
    BY DEF PhoneBook
  <1>2. \A q \in Processes : Placed(q)' =>
          /\ Place(q)' \in 0 .. Len(PhoneBook(q)') - 1
          /\ PhoneBook(q)'[Place(q)' + 1] = uri'[q]
    BY <1>1 DEF Places
  <1>3. \A p, q \in Processes :
          Placed(p)' /\ Placed(q)' /\ contextID'[p] = contextID'[q] /\ Place(p)' = Place(q)' => p = q
    BY DEF Places
  <1>4. \A c \in ContextIDs : \A v \in 0 .. Len(phoneBook'[c]) - 1 :
          \E p \in Processes : Placed(p)' /\ contextID'[p] = c /\ Place(p)' = v
    <2>1. SUFFICES ASSUME NEW c \in ContextIDs, NEW v \in 0 .. Len(phoneBook[c]) - 1
                   PROVE  \E p \in Processes : Placed(p)' /\ contextID'[p] = c /\ Place(p)' = v
      OBVIOUS
    <2>2. PICK p \in Processes : Placed(p) /\ contextID[p] = c /\ Place(p) = v
      BY DEF Places
    <2>3. QED BY <2>2
  <1>5. QED BY <1>2, <1>3, <1>4 DEF Places

LEMMA AskedStays ==
    ASSUME Shape, Asked \subseteq Asked', UNCHANGED maxContextID
    PROVE  maxContextID' <= Cardinality(Asked)'
  <1>1. IsFiniteSet(Asked')
    BY SignalingAssumption, FS_Subset DEF Asked
  <1>2. Cardinality(Asked) <= Cardinality(Asked') /\ Cardinality(Asked) \in Nat /\ Cardinality(Asked') \in Nat
    BY <1>1, FS_Subset, FS_CardinalityType, AskedFinite
  <1>3. QED BY <1>2 DEF Shape

-----------------------------------------------------------------------------
(* What the requests and replies on a wire say about their process.        *)

LEMMA WireFacts ==
    ASSUME NEW p \in Processes, Phase(p)
    PROVE  /\ wire[p].type = "CONTEXT_REQUEST" =>
                OffOrAsking(p) /\ pc[p] = "context" /\ wire[p].arg = NameOf[p]
           /\ wire[p].type = "VADDR_REQUEST" =>
                Joining(p) /\ wire[p].arg.context = contextID[p] /\ wire[p].arg.uri = uri[p]
           /\ wire[p].type = "VADDR_LOOKUP" =>
                LookingUp(p) /\ wire[p].arg.context = contextID[p] /\ wire[p].arg.vAddr = NextVAddr(p)
           /\ wire[p].type = "DESTRUCT" =>
                Initialised(p) /\ pc[p] = "gone" /\ wire[p].arg = NameOf[p]
           /\ wire[p].type = "REPLY" => pc[p] \in {"context", "vAddr", "lookup"}
           /\ wire[p].type = "REPLY" /\ pc[p] = "context" =>
                OffOrAsking(p) /\ wire[p].value \in Issued
           /\ wire[p].type = "REPLY" /\ pc[p] = "vAddr" =>
                Joining(p) /\ wire[p].value \in 0 .. Len(PhoneBook(p)) - 1
           /\ wire[p].type = "REPLY" /\ pc[p] = "lookup" =>
                /\ LookingUp(p)
                /\ wire[p].value # None =>
                     /\ NextVAddr(p) < Len(PhoneBook(p))
                     /\ wire[p].value = PhoneBook(p)[NextVAddr(p) + 1]
           /\ pc[p] = "running" => Initialised(p)
           /\ pc[p] = "off" => OffOrAsking(p)
  <1> USE DEF Request, Reply, NoMessage
  <1>1. CASE OffOrAsking(p)
    <2>1. CASE pc[p] = "off" /\ wire[p] = NoMessage
      BY <1>1, <2>1
    <2>2. CASE pc[p] = "context" /\ wire[p] = Request("CONTEXT_REQUEST", NameOf[p])
      BY <1>1, <2>2
    <2>3. CASE pc[p] = "context" /\ \E c \in Issued : wire[p] = Reply(c)
      BY <1>1, <2>3
    <2>4. QED BY <1>1, <2>1, <2>2, <2>3 DEF OffOrAsking
  <1>2. CASE Joining(p)
    <2>1. CASE wire[p] = Request("VADDR_REQUEST", [context |-> contextID[p], uri |-> uri[p]])
      BY <1>2, <2>1 DEF Joining
    <2>2. CASE \E v \in 0 .. Len(PhoneBook(p)) - 1 : wire[p] = Reply(v)
      BY <1>2, <2>2 DEF Joining
    <2>3. QED BY <1>2, <2>1, <2>2 DEF Joining
  <1>3. CASE LookingUp(p)
    BY <1>3 DEF LookingUp
  <1>4. CASE Initialised(p)
    BY <1>4 DEF Initialised
  <1>5. QED BY <1>1, <1>2, <1>3, <1>4 DEF Phase

\* A step of one process, or of the server for it.
LEMMA StepOfOne ==
    ASSUME Inv, Shape', Grows, maxContextID' >= maxContextID,
           NEW p \in Processes, \A q \in Processes \ {p} : Same(q),
           Phase(p)', \E n \in BookSize(p)' : HasBook(p, n)', Places'
    PROVE  Inv'
  <1>1. maxContextID' \in Nat /\ phoneBook' \in [ContextIDs -> Seq(Uris)]
    BY DEF Shape
  <1>2. \A q \in Processes : Phase(q)' /\ \E n \in BookSize(q)' : HasBook(q, n)'
    <2>1. SUFFICES ASSUME NEW q \in Processes
                   PROVE  Phase(q)' /\ \E n \in BookSize(q)' : HasBook(q, n)'
      OBVIOUS
    <2>2. CASE q = p
      BY <2>2
    <2>3. CASE q # p
      BY <2>3, <1>1, ProcessStays
    <2>4. QED BY <2>2, <2>3
  <1>3. QED BY <1>2 DEF Inv, Books

LEMMA GrowsIfUnchanged ==
    ASSUME Shape, UNCHANGED phoneBook
    PROVE  Grows
  <1>1. \A c \in ContextIDs : Len(phoneBook[c]) \in Nat
    BY DEF Shape
  <1>2. QED BY <1>1 DEF Grows

\* A process without a phone book.
LEMMA EmptyBookStays ==
    ASSUME Inv, NEW p \in Processes, BookSize(p) = {0}, BookSize(p)' = {0}, book'[p] = book[p]
    PROVE  \E n \in BookSize(p)' : HasBook(p, n)'
  <1>1. HasBook(p, 0)
    BY DEF Inv, Books
  <1>2. \A v \in VAddrs : book[p][v] = None
    BY <1>1 DEF HasBook, VAddrs
  <1>3. HasBook(p, 0)'
    BY <1>2 DEF HasBook, VAddrs
  <1>4. QED BY <1>3

-----------------------------------------------------------------------------
(* The server.                                                             *)

LEMMA ContextRequestKeeps ==
    ASSUME Inv, NEW p \in Processes, ContextRequest(p)
    PROVE  Inv'
  <1> USE DEF Reply
  <1>1. /\ OffOrAsking(p) /\ pc[p] = "context" /\ wire[p].arg = NameOf[p] /\ NameOf[p] \in Names
        /\ wire[p].type = "CONTEXT_REQUEST" /\ UNCHANGED <<phoneBook, process>>
        /\ contextIds[NameOf[p]] \in Issued \cup {-1}
    BY WireFacts, SignalingAssumption DEF ContextRequest, Inv, Shape, server
  <1>2. PICK c : /\ wire' = [wire EXCEPT ![p] = Reply(c)]
                 /\ \/ c = contextIds[NameOf[p]] /\ c # -1 /\ UNCHANGED <<contextIds, maxContextID>>
                    \/ /\ c = maxContextID /\ contextIds' = [contextIds EXCEPT ![NameOf[p]] = maxContextID]
                       /\ maxContextID' = maxContextID + 1
    BY <1>1 DEF ContextRequest, Answer, server
  <1>3. maxContextID' \in Nat /\ maxContextID' >= maxContextID /\ c \in Issued' /\ Issued \subseteq Issued'
    BY <1>1, <1>2 DEF Inv, Shape, Issued
  <1>4. wire'[p] = Reply(c) /\ \A q \in Processes \ {p} : Same(q)
    BY <1>1, <1>2 DEF Same, process, Inv, Shape
  <1>5. Asked' = Asked \cup {p} /\ p \notin Asked
    BY <1>1, <1>2 DEF Asked, process, Inv, Shape
  <1>6. maxContextID' <= Cardinality(Asked)'
    <2>1. Cardinality(Asked') = Cardinality(Asked) + 1 /\ Cardinality(Asked) \in Nat
      BY <1>5, AskedFinite, FS_AddElement, FS_CardinalityType
    <2>2. QED BY <1>2, <2>1 DEF Inv, Shape
  <1>7. Shape'
    <2>1. contextIds' \in [Names -> Issued' \cup {-1}]
      <3>1. contextIds \in [Names -> Issued' \cup {-1}]
        BY <1>3 DEF Inv, Shape
      <3>2. \/ contextIds' = contextIds
            \/ contextIds' = [contextIds EXCEPT ![NameOf[p]] = c]
        BY <1>2
      <3>3. QED BY <1>3, <3>1, <3>2
    <2>2. wire' = [q \in Processes |-> wire'[q]] /\ DOMAIN wire' = Processes
      BY <1>2 DEF Inv, Shape
    <2>3. contextID' \in [Processes -> Issued' \cup {-1}]
      BY <1>1, <1>3 DEF Inv, Shape, process
    <2>4. QED BY <1>1, <1>3, <1>6, <2>1, <2>2, <2>3 DEF Inv, Shape, process
  <1>8. Phase(p)'
    BY <1>1, <1>3, <1>4 DEF Phase, OffOrAsking, process
  <1>9. BookSize(p) = {0} /\ BookSize(p)' = {0} /\ book'[p] = book[p]
    BY <1>1 DEF BookSize, process
  <1>10. Places'
    <2>1. \A q \in Processes : /\ Placed(q)' <=> Placed(q)
                               /\ Placed(q) => Place(q)' = Place(q)
      BY <1>1, <1>2 DEF Placed, Place, process, Inv, Shape
    <2>2. QED BY <1>1, <2>1, PlacesStay DEF Inv, process
  <1>11. Grows
    BY <1>1, GrowsIfUnchanged DEF Inv
  <1>12. QED BY <1>3, <1>4, <1>7, <1>8, <1>9, <1>10, <1>11, EmptyBookStays, StepOfOne

LEMMA VAddrLookupKeeps ==
    ASSUME Inv, NEW p \in Processes, VAddrLookup(p)
    PROVE  Inv'
  <1> USE DEF Reply
  <1>1. /\ LookingUp(p) /\ wire[p].type = "VADDR_LOOKUP" /\ pc[p] = "lookup"
        /\ wire[p].arg.context = contextID[p] /\ wire[p].arg.vAddr = NextVAddr(p)
        /\ UNCHANGED <<server, process>>
    BY WireFacts DEF VAddrLookup, Inv, LookingUp
  <1>2. PICK n \in 0 .. ContextSize - 1 : HasBook(p, n)
    BY <1>1 DEF Inv, Books, BookSize
  <1>3. NextVAddr(p) = n /\ contextID[p] \in ContextIDs /\ PhoneBook(p) \in Seq(Uris)
    BY <1>1, <1>2, NextVAddrIs, IssuedHaveBooks, SignalingAssumption
    DEF Inv, LookingUp, Shape, PhoneBook
  <1>4. PICK u : /\ wire' = [wire EXCEPT ![p] = Reply(u)]
                 /\ u = None \/ (n < Len(PhoneBook(p)) /\ u = PhoneBook(p)[n + 1])
    BY <1>1, <1>3 DEF VAddrLookup, Answer, PhoneBook
  <1>5. wire'[p] = Reply(u) /\ (\A q \in Processes \ {p} : Same(q)) /\ Grows
    BY <1>1, <1>4, GrowsIfUnchanged DEF Same, server, process, Inv, Shape
  <1>6. Asked \subseteq Asked'
    BY <1>1, <1>5 DEF Asked, process, Same
  <1>7. Shape'
    BY <1>1, <1>4, <1>6, AskedStays DEF Inv, Shape, server, process, Issued
  <1>8. NextVAddr(p)' = NextVAddr(p) /\ PhoneBook(p)' = PhoneBook(p)
    BY <1>1 DEF NextVAddr, PhoneBook, server, process
  <1>9. LookingUp(p)'
    BY <1>1, <1>3, <1>4, <1>5, <1>8 DEF LookingUp, server, process, Issued
  <1>10. n \in BookSize(p)' /\ HasBook(p, n)'
    BY <1>1, <1>2, <1>8 DEF BookSize, HasBook, process
  <1>11. Places'
    <2>1. \A q \in Processes : Placed(q)' = Placed(q) /\ (Placed(q) => Place(q)' = Place(q))
      BY <1>1, <1>5 DEF Placed, Place, process, Same, LookingUp
    <2>2. QED BY <1>1, <2>1, PlacesStay DEF Inv, server, process
  <1>12. Phase(p)' /\ maxContextID' >= maxContextID
    BY <1>1, <1>9 DEF Phase, server, Inv, Shape
  <1>13. QED BY <1>5, <1>7, <1>10, <1>11, <1>12, StepOfOne

LEMMA DestructKeeps ==
    ASSUME Inv, NEW p \in Processes, Destruct(p)
    PROVE  Inv'
  <1>1. /\ Initialised(p) /\ wire[p].type = "DESTRUCT" /\ pc[p] = "gone" /\ wire[p].arg \in Names
        /\ wire' = [wire EXCEPT ![p] = NoMessage]
        /\ contextIds' = [contextIds EXCEPT ![wire[p].arg] = -1]
        /\ UNCHANGED <<maxContextID, phoneBook, process>>
    BY WireFacts, SignalingAssumption DEF Destruct, Inv
  <1>2. wire'[p] = NoMessage /\ (\A q \in Processes \ {p} : Same(q)) /\ Grows
    BY <1>1, GrowsIfUnchanged DEF Same, process, Inv, Shape
  <1>3. Asked \subseteq Asked'
    BY <1>1, <1>2 DEF Asked, process, Same, NoMessage
  <1>4. Shape'
    BY <1>1, <1>3, AskedStays DEF Inv, Shape, process, Issued
  <1>5. Initialised(p)'
    BY <1>1, <1>2 DEF Initialised, process, Issued
  <1>6. \E n \in BookSize(p)' : HasBook(p, n)'
    BY <1>1 DEF BookSize, HasBook, PhoneBook, process, Inv, Books
  <1>7. Places'
    <2>1. \A q \in Processes : Placed(q)' = Placed(q) /\ (Placed(q) => Place(q)' = Place(q))
      BY <1>1, <1>2 DEF Placed, Place, process, Same, Initialised
    <2>2. QED BY <1>1, <2>1, PlacesStay DEF Inv, process
  <1>8. Phase(p)' /\ maxContextID' >= maxContextID
    BY <1>1, <1>5 DEF Phase, Inv, Shape
  <1>9. QED BY <1>2, <1>4, <1>6, <1>7, <1>8, StepOfOne

\* The process is entered at the end of the phone book, which is its place.
LEMMA VAddrRequestKeeps ==
    ASSUME Inv, NEW p \in Processes, VAddrRequest(p)
    PROVE  Inv'
  <1> USE DEF Reply
  <1> DEFINE c == contextID[p]
             len == Len(phoneBook[c])
  <1>1. /\ Joining(p) /\ wire[p].type = "VADDR_REQUEST" /\ pc[p] = "vAddr" /\ vAddr[p] = -1
        /\ c \in Issued /\ uri[p] \in Uris
        /\ phoneBook' = [phoneBook EXCEPT ![c] = Append(@, uri[p])]
        /\ wire' = [wire EXCEPT ![p] = Reply(len)]
        /\ UNCHANGED <<contextIds, maxContextID, process>>
    BY WireFacts DEF VAddrRequest, Answer, Inv, Joining
  <1>2. /\ c \in ContextIDs /\ phoneBook[c] \in Seq(Uris) /\ len \in Nat
    BY <1>1, IssuedHaveBooks DEF Inv, Shape
  <1>3. /\ phoneBook' \in [ContextIDs -> Seq(Uris)]
        /\ Len(phoneBook'[c]) = len + 1 /\ phoneBook'[c][len + 1] = uri[p]
        /\ \A j \in 1 .. len : phoneBook'[c][j] = phoneBook[c][j]
        /\ \A d \in ContextIDs \ {c} : phoneBook'[d] = phoneBook[d]
    BY <1>1, <1>2, AppendProperties DEF Inv, Shape
  <1>4. Grows
    <2>1. \A d \in ContextIDs : Len(phoneBook[d]) \in Nat
      BY DEF Inv, Shape
    <2>2. QED BY <1>2, <1>3, <2>1 DEF Grows
  <1>5. wire'[p] = Reply(len) /\ \A q \in Processes \ {p} : Same(q)
    BY <1>1 DEF Same, process, Inv, Shape
  <1>6. Asked \subseteq Asked'
    BY <1>1, <1>5 DEF Asked, process, Same
  <1>7. Shape'
    <2>1. wire' = [q \in Processes |-> wire'[q]] /\ DOMAIN wire' = Processes
      BY <1>1 DEF Inv, Shape
    <2>2. QED BY <1>1, <1>3, <1>6, <2>1, AskedStays DEF Inv, Shape, process, Issued
  <1>8. Joining(p)'
    <2>1. Len(PhoneBook(p)') = len + 1 /\ contextID'[p] = contextID[p]
      BY <1>1, <1>3 DEF PhoneBook, process
    <2>2. len \in 0 .. Len(PhoneBook(p)') - 1
      BY <1>2, <2>1
    <2>3. QED BY <1>1, <1>5, <2>1, <2>2 DEF Joining, process, Issued
  <1>9. BookSize(p) = {0} /\ BookSize(p)' = {0} /\ book'[p] = book[p]
    BY <1>1 DEF BookSize, process
  <1>10. /\ ~Placed(p) /\ Placed(p)' /\ Place(p)' = len
         /\ \A q \in Processes \ {p} :
              Placed(q)' = Placed(q) /\ (Placed(q) => Place(q)' = Place(q))
    BY <1>1, <1>5 DEF Placed, Place, process, Same
  <1>11. \A q \in Processes \ {p} : Placed(q) =>
           /\ contextID[q] \in ContextIDs /\ Place(q) \in 0 .. Len(phoneBook[contextID[q]]) - 1
           /\ phoneBook[contextID[q]][Place(q) + 1] = uri[q]
    <2>1. SUFFICES ASSUME NEW q \in Processes \ {p}, Placed(q)
                   PROVE  contextID[q] \in ContextIDs
      BY DEF Inv, Places, PhoneBook
    <2>2. contextID[q] \in Issued
      BY <2>1 DEF Inv, Phase, OffOrAsking, Joining, LookingUp, Initialised, Placed
    <2>3. QED BY <2>2, IssuedHaveBooks DEF Inv
  <1>12. Places'
    <2>1. \A q \in Processes : Placed(q)' =>
            /\ Place(q)' \in 0 .. Len(PhoneBook(q)') - 1
            /\ PhoneBook(q)'[Place(q)' + 1] = uri'[q]
      <3>1. SUFFICES ASSUME NEW q \in Processes, Placed(q)'
                     PROVE  /\ Place(q)' \in 0 .. Len(phoneBook'[contextID[q]]) - 1
                            /\ phoneBook'[contextID[q]][Place(q)' + 1] = uri[q]
        BY <1>1 DEF PhoneBook, process
      <3>2. CASE q = p
        BY <3>2, <1>2, <1>3, <1>10
      <3>3. CASE q # p
        <4>1. /\ contextID[q] \in ContextIDs /\ Place(q)' \in 0 .. Len(phoneBook[contextID[q]]) - 1
              /\ phoneBook[contextID[q]][Place(q)' + 1] = uri[q]
          BY <3>1, <3>3, <1>10, <1>11
        <4>2. Len(phoneBook[contextID[q]]) \in Nat /\ Len(phoneBook'[contextID[q]]) \in Nat
          BY <4>1, <1>3 DEF Inv, Shape
        <4>3. Place(q)' + 1 \in 1 .. Len(phoneBook[contextID[q]])
          BY <4>1, <4>2
        <4>4. QED BY <4>1, <4>2, <4>3, <1>4 DEF Grows
      <3>4. QED BY <3>2, <3>3
    <2>2. \A q, r \in Processes :
            Placed(q)' /\ Placed(r)' /\ contextID'[q] = contextID'[r] /\ Place(q)' = Place(r)' => q = r
      <3>1. \A q \in Processes \ {p} : Placed(q) /\ contextID[q] = c => Place(q) # len
        BY <1>2, <1>11
      <3>2. \A q, r \in Processes \ {p} :
              Placed(q) /\ Placed(r) /\ contextID[q] = contextID[r] /\ Place(q) = Place(r) => q = r
        BY DEF Inv, Places
      <3>3. QED BY <1>1, <1>10, <3>1, <3>2 DEF process
    <2>3. \A d \in ContextIDs : \A v \in 0 .. Len(phoneBook'[d]) - 1 :
            \E q \in Processes : Placed(q)' /\ contextID'[q] = d /\ Place(q)' = v
      <3>1. SUFFICES ASSUME NEW d \in ContextIDs, NEW v \in 0 .. Len(phoneBook'[d]) - 1
                     PROVE  \E q \in Processes : Placed(q)' /\ contextID[q] = d /\ Place(q)' = v
        BY <1>1 DEF process
      <3>2. CASE d = c /\ v = len
        BY <3>2, <1>10
      <3>3. CASE ~(d = c /\ v = len)
        <4>1. v \in 0 .. Len(phoneBook[d]) - 1
          BY <3>3, <1>2, <1>3
        <4>2. PICK q \in Processes : Placed(q) /\ contextID[q] = d /\ Place(q) = v
          BY <4>1 DEF Inv, Places
        <4>3. QED BY <4>2, <1>10
      <3>4. QED BY <3>2, <3>3
    <2>4. QED BY <2>1, <2>2, <2>3 DEF Places
  <1>13. Phase(p)' /\ maxContextID' >= maxContextID
    BY <1>1, <1>8 DEF Phase, Inv, Shape
  <1>14. QED BY <1>4, <1>5, <1>7, <1>9, <1>12, <1>13, EmptyBookStays, StepOfOne

-----------------------------------------------------------------------------
(* A process.                                                              *)

LEMMA LaunchKeeps ==
    ASSUME Inv, NEW p \in Processes, Launch(p)
    PROVE  Inv'
  <1> USE DEF Request
  <1>1. /\ OffOrAsking(p) /\ pc[p] = "off" /\ wire[p].type # "REPLY"
        /\ pc' = [pc EXCEPT ![p] = "context"]
        /\ wire' = [wire EXCEPT ![p] = Request("CONTEXT_REQUEST", NameOf[p])]
        /\ UNCHANGED <<server, after, contextID, vAddr, book>>
    BY WireFacts DEF Launch, Inv, OffOrAsking, NoMessage
  <1>2. PICK u \in Uris : uri' = [uri EXCEPT ![p] = u]
    BY DEF Launch
  <1>3. /\ wire'[p] = Request("CONTEXT_REQUEST", NameOf[p]) /\ pc'[p] = "context" /\ uri'[p] \in Uris
        /\ \A q \in Processes \ {p} : Same(q)
    BY <1>1, <1>2 DEF Same, server, Inv, Shape
  <1>4. Asked \subseteq Asked'
    BY <1>1, <1>3 DEF Asked, Same
  <1>5. Shape'
    BY <1>1, <1>2, <1>4, AskedStays DEF Inv, Shape, server, Issued
  <1>6. Phase(p)'
    BY <1>1, <1>3 DEF OffOrAsking, Phase, Issued, server
  <1>7. BookSize(p) = {0} /\ BookSize(p)' = {0} /\ book'[p] = book[p]
    BY <1>1, <1>3 DEF BookSize
  <1>8. Places'
    <2>1. ~Placed(p) /\ ~Placed(p)'
      BY <1>1, <1>3 DEF Placed, OffOrAsking
    <2>2. \A q \in Processes \ {p} : /\ Placed(q)' = Placed(q) /\ Place(q)' = Place(q)
                                      /\ contextID'[q] = contextID[q] /\ uri'[q] = uri[q]
      BY <1>3 DEF Placed, Place, Same
    <2>3. \A q \in Processes : /\ Placed(q)' <=> Placed(q)
                               /\ Placed(q) => /\ Place(q)' = Place(q) /\ contextID'[q] = contextID[q]
                                               /\ uri'[q] = uri[q]
      BY <2>1, <2>2
    <2>4. QED BY <1>1, <2>3, PlacesStay DEF Inv, server
  <1>9. Grows /\ maxContextID' >= maxContextID
    BY <1>1, GrowsIfUnchanged DEF server, Inv, Shape
  <1>10. QED BY <1>3, <1>5, <1>6, <1>7, <1>8, <1>9, EmptyBookStays, StepOfOne

LEMMA GotContextKeeps ==
    ASSUME Inv, NEW p \in Processes, GotContext(p)
    PROVE  Inv'
  <1> USE DEF Request
  <1> DEFINE c == wire[p].value
             m == Request("VADDR_REQUEST", [context |-> c, uri |-> uri[p]])
  <1>1. /\ OffOrAsking(p) /\ pc[p] = "context" /\ wire[p].type = "REPLY" /\ c \in Issued
        /\ uri[p] \in Uris /\ vAddr[p] = -1
        /\ pc' = [pc EXCEPT ![p] = "vAddr"]
        /\ wire' = [wire EXCEPT ![p] = m]
        /\ contextID' = [contextID EXCEPT ![p] = c]
        /\ UNCHANGED <<server, after, uri, vAddr, book>>
    BY WireFacts DEF GotContext, Inv, OffOrAsking
  <1>2. /\ wire'[p] = m /\ pc'[p] = "vAddr" /\ contextID'[p] = c
        /\ \A q \in Processes \ {p} : Same(q)
    BY <1>1 DEF Same, server, Inv, Shape
  <1>3. Asked \subseteq Asked'
    BY <1>1, <1>2 DEF Asked, Same
  <1>4. Shape'
    BY <1>1, <1>3, AskedStays DEF Inv, Shape, server, Issued
  <1>5. Phase(p)'
    BY <1>1, <1>2 DEF Joining, Phase, Issued, server
  <1>6. BookSize(p) = {0} /\ BookSize(p)' = {0} /\ book'[p] = book[p]
    BY <1>1, <1>2 DEF BookSize
  <1>7. Places'
    <2>1. ~Placed(p) /\ ~Placed(p)'
      BY <1>1, <1>2 DEF Placed
    <2>2. \A q \in Processes \ {p} : /\ Placed(q)' = Placed(q) /\ Place(q)' = Place(q)
                                      /\ contextID'[q] = contextID[q] /\ uri'[q] = uri[q]
      BY <1>2 DEF Placed, Place, Same
    <2>3. \A q \in Processes : /\ Placed(q)' <=> Placed(q)
                               /\ Placed(q) => /\ Place(q)' = Place(q) /\ contextID'[q] = contextID[q]
                                               /\ uri'[q] = uri[q]
      BY <2>1, <2>2
    <2>4. QED BY <1>1, <2>3, PlacesStay DEF Inv, server
  <1>8. Grows /\ maxContextID' >= maxContextID
    BY <1>1, GrowsIfUnchanged DEF server, Inv, Shape
  <1>9. QED BY <1>2, <1>4, <1>5, <1>6, <1>7, <1>8, EmptyBookStays, StepOfOne

LEMMA GotVAddrKeeps ==
    ASSUME Inv, NEW p \in Processes, GotVAddr(p)
    PROVE  Inv'
  <1> USE DEF Request
  <1> DEFINE v == wire[p].value
             m == Request("VADDR_LOOKUP", [context |-> contextID[p], vAddr |-> 0])
  <1>1. /\ Joining(p) /\ pc[p] = "vAddr" /\ wire[p].type = "REPLY"
        /\ v \in 0 .. Len(PhoneBook(p)) - 1 /\ vAddr[p] = -1 /\ contextID[p] \in Issued
        /\ pc' = [pc EXCEPT ![p] = "lookup"]
        /\ wire' = [wire EXCEPT ![p] = m]
        /\ vAddr' = [vAddr EXCEPT ![p] = v]
        /\ UNCHANGED <<server, after, uri, contextID, book>>
    BY WireFacts DEF GotVAddr, Ask, Inv, Joining
  <1>2. /\ wire'[p] = m /\ pc'[p] = "lookup" /\ vAddr'[p] = v /\ v \in Nat
        /\ \A q \in Processes \ {p} : Same(q)
    BY <1>1 DEF Same, server, Inv, Shape
  <1>3. Asked \subseteq Asked'
    BY <1>1, <1>2 DEF Asked, Same
  <1>4. Shape'
    BY <1>1, <1>2, <1>3, AskedStays DEF Inv, Shape, server, Issued
  <1>5. HasBook(p, 0) /\ HasBook(p, 0)' /\ 0 \in BookSize(p)'
    <2>1. BookSize(p) = {0} /\ BookSize(p)' = 0 .. ContextSize - 1
      BY <1>1, <1>2 DEF BookSize
    <2>2. HasBook(p, 0)
      BY <2>1 DEF Inv, Books
    <2>3. HasBook(p, 0)'
      BY <1>1, <2>2 DEF HasBook, VAddrs
    <2>4. QED BY <2>1, <2>2, <2>3, SignalingAssumption
  <1>6. NextVAddr(p)' = 0
    <2>1. NextVAddr(p) = 0
      BY <1>1, <1>5, NextVAddrIs, SignalingAssumption DEF Inv
    <2>2. QED BY <1>1, <2>1 DEF NextVAddr
  <1>7. Phase(p)'
    BY <1>1, <1>2, <1>6 DEF LookingUp, Phase, Issued, server
  <1>8. Places'
    <2>1. Placed(p) /\ Placed(p)' /\ Place(p) = v /\ Place(p)' = v
      BY <1>1, <1>2 DEF Placed, Place
    <2>2. \A q \in Processes \ {p} : /\ Placed(q)' = Placed(q) /\ Place(q)' = Place(q)
                                      /\ contextID'[q] = contextID[q] /\ uri'[q] = uri[q]
      BY <1>2 DEF Placed, Place, Same
    <2>3. \A q \in Processes : /\ Placed(q)' <=> Placed(q)
                               /\ Placed(q) => /\ Place(q)' = Place(q) /\ contextID'[q] = contextID[q]
                                               /\ uri'[q] = uri[q]
      BY <1>1, <2>1, <2>2
    <2>4. QED BY <1>1, <2>3, PlacesStay DEF Inv, server
  <1>9. Grows /\ maxContextID' >= maxContextID
    BY <1>1, GrowsIfUnchanged DEF server, Inv, Shape
  <1>10. QED BY <1>2, <1>4, <1>5, <1>7, <1>8, <1>9, StepOfOne

LEMMA FirstFree ==
    ASSUME NEW b, NEW n \in 0 .. ContextSize, \A v \in VAddrs : b[v] # None <=> v < n
    PROVE  Cardinality({v \in VAddrs : b[v] # None}) = n
  <1>1. {v \in VAddrs : b[v] # None} = 0 .. n - 1 /\ n \in Nat /\ n - 1 \in Int
    BY SignalingAssumption DEF VAddrs
  <1>2. Cardinality(0 .. n - 1) = n
    BY <1>1, FS_Interval
  <1>3. QED BY <1>1, <1>2

\* The address found is entered, and the next one asked for if there is one.
LEMMA GotUriKeeps ==
    ASSUME Inv, NEW p \in Processes, GotUri(p)
    PROVE  Inv'
  <1> USE DEF Request
  <1> DEFINE Lookup(v) == Request("VADDR_LOOKUP", [context |-> contextID[p], vAddr |-> v])
  <1>0. PICK n, u : n \in 0 .. ContextSize - 1 /\ n = NextVAddr(p) /\ HasBook(p, n) /\ u = wire[p].value
    <2>1. LookingUp(p) /\ pc[p] = "lookup" /\ contextID[p] \in Issued
      BY WireFacts DEF GotUri, Inv, LookingUp
    <2>2. PICK k \in 0 .. ContextSize - 1 : HasBook(p, k)
      BY <2>1 DEF Inv, Books, BookSize
    <2>3. k \in 0 .. ContextSize
      BY SignalingAssumption
    <2>4. QED BY <2>1, <2>2, <2>3, NextVAddrIs DEF Inv
  <1>1. /\ LookingUp(p) /\ pc[p] = "lookup" /\ wire[p].type = "REPLY"
        /\ vAddr[p] \in Nat /\ contextID[p] \in Issued
        /\ u # None => n < Len(PhoneBook(p)) /\ u = PhoneBook(p)[n + 1]
        /\ UNCHANGED <<server, after, uri, contextID, vAddr>>
    BY <1>0, WireFacts DEF GotUri, Inv, LookingUp
  <1>2. n \in 0 .. ContextSize - 1 /\ n \in Nat /\ n \in VAddrs /\ n + 1 \in 0 .. ContextSize
    BY <1>0, SignalingAssumption DEF VAddrs
  <1>3. /\ PhoneBook(p) \in Seq(Uris) /\ PhoneBook(p)' = PhoneBook(p)
        /\ u # None => u \in Uris
    <2>1. contextID[p] \in ContextIDs /\ PhoneBook(p) \in Seq(Uris)
      BY <1>1, IssuedHaveBooks DEF Inv, Shape, PhoneBook
    <2>2. u # None => n + 1 \in 1 .. Len(PhoneBook(p))
      BY <1>1, <1>2, <2>1
    <2>3. QED BY <1>1, <2>1, <2>2, ElementOfSeq DEF PhoneBook, server
  <1>4. \/ /\ u = None /\ wire' = [wire EXCEPT ![p] = Lookup(n)] /\ UNCHANGED <<pc, book>>
        \/ /\ u # None /\ book' = [book EXCEPT ![p][n] = u]
           /\ \/ /\ n + 1 < ContextSize /\ wire' = [wire EXCEPT ![p] = Lookup(n + 1)] /\ UNCHANGED pc
              \/ /\ n + 1 = ContextSize /\ wire' = [wire EXCEPT ![p] = NoMessage]
                 /\ pc' = [pc EXCEPT ![p] = "running"]
    BY <1>0, <1>1 DEF GotUri, Ask
  <1>5. /\ \A q \in Processes \ {p} : Same(q)
        /\ Asked \subseteq Asked' /\ Grows /\ maxContextID' >= maxContextID
    <2>1. /\ \A q \in Processes \ {p} : Same(q)
          /\ pc'[p] # "off" /\ wire'[p].type # "CONTEXT_REQUEST"
      BY <1>1, <1>4 DEF Same, server, Inv, Shape, NoMessage
    <2>2. Asked \subseteq Asked'
      BY <2>1 DEF Asked, Same
    <2>3. Grows /\ maxContextID' >= maxContextID
      BY <1>1, GrowsIfUnchanged DEF server, Inv, Shape
    <2>4. QED BY <2>1, <2>2, <2>3
  <1>6. Shape'
    <2>1. book' \in [Processes -> [VAddrs -> Uris \cup {None}]]
      <3>1. book \in [Processes -> [VAddrs -> Uris \cup {None}]]
        BY DEF Inv, Shape
      <3>2. CASE UNCHANGED book
        BY <3>1, <3>2
      <3>3. CASE u \in Uris /\ book' = [book EXCEPT ![p][n] = u]
        BY <1>2, <3>1, <3>3
      <3>4. QED BY <1>3, <1>4, <3>2, <3>3
    <2>2. /\ wire' = [q \in Processes |-> wire'[q]] /\ DOMAIN wire' = Processes
          /\ pc' \in [Processes -> {"off", "context", "vAddr", "lookup", "running", "gone"}]
      BY <1>4 DEF Inv, Shape
    <2>3. QED BY <1>1, <1>5, <2>1, <2>2, AskedStays DEF Inv, Shape, server, Issued
  <1>7. u # None => /\ HasBook(p, n + 1)'
                    /\ \A v \in VAddrs : book'[p][v] # None <=> v < n + 1
    <2>1. SUFFICES ASSUME u # None
                   PROVE  /\ HasBook(p, n + 1)'
                          /\ \A v \in VAddrs : book'[p][v] # None <=> v < n + 1
      OBVIOUS
    <2>2. book'[p][n] = u /\ \A v \in VAddrs \ {n} : book'[p][v] = book[p][v]
      BY <1>2, <1>4, <2>1 DEF Inv, Shape
    <2>3. \A v \in VAddrs : IF v < n + 1 THEN v < Len(PhoneBook(p)) /\ book'[p][v] = PhoneBook(p)[v + 1]
                            ELSE book'[p][v] = None
      <3>1. TAKE v \in VAddrs
      <3>2. v \in Nat /\ (v < n + 1 <=> v < n \/ v = n)
        BY <1>2 DEF VAddrs
      <3>3. CASE v = n
        BY <1>1, <2>1, <2>2, <3>2, <3>3
      <3>4. CASE v # n
        BY <1>0, <2>2, <3>2, <3>4 DEF HasBook
      <3>5. QED BY <3>3, <3>4
    <2>4. HasBook(p, n + 1)'
      BY <1>3, <2>3 DEF HasBook
    <2>5. ASSUME NEW v \in VAddrs, v < n + 1 PROVE book'[p][v] # None
      <3>1. v + 1 \in 1 .. Len(PhoneBook(p)) /\ book'[p][v] = PhoneBook(p)[v + 1]
        BY <1>3, <2>3, <2>5 DEF VAddrs
      <3>2. QED BY <1>3, <3>1, ElementOfSeq, SignalingAssumption
    <2>6. QED BY <2>3, <2>4, <2>5
  <1>8. u = None => HasBook(p, n)'
    BY <1>0, <1>3, <1>4 DEF HasBook
  <1>9. Phase(p)' /\ \E k \in BookSize(p)' : HasBook(p, k)'
    <2>1. CASE u = None
      <3>1. wire'[p] = Lookup(n) /\ pc'[p] = "lookup" /\ NextVAddr(p)' = n
        BY <1>0, <1>1, <1>4, <2>1 DEF NextVAddr, Inv, Shape
      <3>2. LookingUp(p)'
        BY <1>1, <3>1 DEF LookingUp, Issued, server
      <3>3. QED BY <1>2, <1>8, <2>1, <3>1, <3>2 DEF Phase, BookSize
    <2>2. CASE u # None /\ n + 1 < ContextSize
      <3>1. wire'[p] = Lookup(n + 1) /\ pc'[p] = "lookup"
        <4>1. ~(n + 1 = ContextSize)
          BY <1>2, <2>2, SignalingAssumption
        <4>2. QED BY <1>1, <1>4, <2>2, <4>1 DEF Inv, Shape
      <3>2. n + 1 \in BookSize(p)'
        <4>1. n + 1 \in 0 .. ContextSize - 1
          BY <1>2, <2>2, SignalingAssumption
        <4>2. QED BY <3>1, <4>1 DEF BookSize
      <3>3. NextVAddr(p)' = n + 1
        BY <1>2, <1>7, <2>2, FirstFree DEF NextVAddr
      <3>4. LookingUp(p)'
        BY <1>1, <3>1, <3>3 DEF LookingUp, Issued, server
      <3>5. QED BY <1>7, <2>2, <3>2, <3>4 DEF Phase
    <2>3. CASE u # None /\ n + 1 = ContextSize
      <3>1. wire'[p] = NoMessage /\ pc'[p] = "running"
        BY <1>1, <1>2, <1>4, <2>3, SignalingAssumption DEF Inv, Shape
      <3>2. Initialised(p)' /\ n + 1 \in BookSize(p)'
        BY <1>1, <2>3, <3>1 DEF Initialised, BookSize, Issued, server
      <3>3. QED BY <1>7, <2>3, <3>2 DEF Phase
    <2>4. QED BY <1>4, <2>1, <2>2, <2>3
  <1>10. Places'
    <2>1. \A q \in Processes : /\ Placed(q)' <=> Placed(q)
                               /\ Placed(q) => Place(q)' = Place(q)
      <3>1. Placed(p) /\ Placed(p)' /\ Place(p)' = Place(p)
        BY <1>1 DEF Placed, Place
      <3>2. QED BY <1>5, <3>1 DEF Placed, Place, Same
    <2>2. QED BY <1>1, <2>1, PlacesStay DEF Inv, server
  <1>11. QED BY <1>5, <1>6, <1>9, <1>10, StepOfOne

LEMMA DeinitKeeps ==
    ASSUME Inv, NEW p \in Processes, Deinit(p)
    PROVE  Inv'
  <1> USE DEF Request
  <1>1. /\ Initialised(p) /\ pc[p] = "running"
        /\ pc' = [pc EXCEPT ![p] = "gone"]
        /\ wire' = [wire EXCEPT ![p] = Request("DESTRUCT", NameOf[p])]
        /\ UNCHANGED <<server, after, uri, contextID, vAddr, book>>
    BY WireFacts DEF Deinit, Inv
  <1>2. /\ wire'[p] = Request("DESTRUCT", NameOf[p]) /\ pc'[p] = "gone"
        /\ \A q \in Processes \ {p} : Same(q)
    BY <1>1 DEF Same, server, Inv, Shape
  <1>3. Asked \subseteq Asked'
    BY <1>1, <1>2 DEF Asked, Same
  <1>4. Shape'
    BY <1>1, <1>3, AskedStays DEF Inv, Shape, server, Issued
  <1>5. Phase(p)'
    BY <1>1, <1>2 DEF Initialised, Phase, Issued, server
  <1>6. \E n \in BookSize(p)' : HasBook(p, n)'
    <2>1. BookSize(p)' = BookSize(p)
      BY <1>1, <1>2 DEF BookSize
    <2>2. PICK n \in BookSize(p) : HasBook(p, n)
      BY DEF Inv, Books
    <2>3. HasBook(p, n)'
      BY <1>1, <2>2 DEF HasBook, PhoneBook, server
    <2>4. QED BY <2>1, <2>2, <2>3
  <1>7. Places'
    <2>1. \A q \in Processes : /\ Placed(q)' <=> Placed(q)
                               /\ Placed(q) => Place(q)' = Place(q)
      <3>1. Placed(p) /\ Placed(p)' /\ Place(p)' = Place(p)
        BY <1>1 DEF Placed, Place, Initialised
      <3>2. QED BY <1>2, <3>1 DEF Placed, Place, Same
    <2>2. QED BY <1>1, <2>1, PlacesStay DEF Inv, server
  <1>8. Grows /\ maxContextID' >= maxContextID
    BY <1>1, GrowsIfUnchanged DEF server, Inv, Shape
  <1>9. QED BY <1>2, <1>4, <1>5, <1>6, <1>7, <1>8, StepOfOne

-----------------------------------------------------------------------------
(* The invariant, and what it says.                                        *)

LEMMA InitInv == Init => Inv
  <1> SUFFICES ASSUME Init PROVE Inv
    OBVIOUS
  <1>1. Cardinality(Asked) \in Nat /\ Issued = {}
    BY AskedFinite, FS_CardinalityType DEF Init, Issued
  <1>2. Shape
    BY <1>1, SignalingAssumption DEF Init, Shape
  <1>3. \A p \in Processes : Phase(p)
    BY DEF Init, Phase, OffOrAsking
  <1>4. Books
    BY DEF Init, Books, BookSize, HasBook, VAddrs
  <1>5. Places
    BY DEF Init, Places, Placed, ContextIDs, NoMessage
  <1>6. QED BY <1>2, <1>3, <1>4, <1>5 DEF Inv

LEMMA StutterInv == Inv /\ UNCHANGED vars => Inv'
  <1> SUFFICES ASSUME Inv, UNCHANGED vars PROVE Inv'
    OBVIOUS
  <1> USE DEF vars, server, process
  <1>1. Shape'
    BY DEF Inv, Shape, Asked, Issued
  <1>2. Grows /\ maxContextID' \in Nat /\ maxContextID' >= maxContextID /\ \A q \in Processes : Same(q)
    BY GrowsIfUnchanged DEF Inv, Shape, Same
  <1>3. \A q \in Processes : Phase(q)' /\ \E n \in BookSize(q)' : HasBook(q, n)'
    BY <1>1, <1>2, ProcessStays DEF Shape
  <1>4. Places'
    BY PlacesStay DEF Inv, Placed, Place
  <1>5. QED BY <1>1, <1>3, <1>4 DEF Inv, Books

\* Whatever the order of launches, requests and replies: at most one question
\* is on the wire of a process, and it is the one its place in init calls for;
\* its phone book has the first addresses of the server's, and places in the
\* phone books and processes correspond.
THEOREM InvInvariant == Spec => []Inv
  <1>1. Init => Inv
    BY InitInv
  <1>2. Inv /\ [Next]_vars => Inv'
    <2> SUFFICES ASSUME Inv, [Next]_vars PROVE Inv'
      OBVIOUS
    <2>1. CASE UNCHANGED vars
      BY <2>1, StutterInv
    <2>2. ASSUME NEW p \in Processes, Launch(p) PROVE Inv'
      BY <2>2, LaunchKeeps
    <2>3. ASSUME NEW p \in Processes, Serve(p) PROVE Inv'
      BY <2>3, ContextRequestKeeps, VAddrRequestKeeps, VAddrLookupKeeps, DestructKeeps DEF Serve
    <2>4. ASSUME NEW p \in Processes, Continue(p) PROVE Inv'
      BY <2>4, GotContextKeeps, GotVAddrKeeps, GotUriKeeps DEF Continue
    <2>5. ASSUME NEW p \in Processes, Deinit(p) PROVE Inv'
      BY <2>5, DeinitKeeps
    <2>6. QED BY <2>1, <2>2, <2>3, <2>4, <2>5 DEF Next
  <1>3. QED BY <1>1, <1>2, PTL DEF Spec

\* The types of the state: in particular, an id the server registers has a
\* phone book, and a vAddr is a position in the phone book of its context.
THEOREM TypeCorrect == Spec => []TypeOK
  <1>1. Inv => TypeOK
    <2> SUFFICES ASSUME Inv PROVE TypeOK
      OBVIOUS
    <2>1. Issued \subseteq ContextIDs
      BY IssuedHaveBooks DEF Inv
    <2>2. maxContextID \in 0 .. Cardinality(Processes)
      <3>1. Cardinality(Processes) \in Nat /\ Cardinality(Asked) \in Nat
        BY AskedFinite, SignalingAssumption, FS_CardinalityType
      <3>2. QED BY <3>1, AskedFinite DEF Inv, Shape
    <2>3. ASSUME NEW p \in Processes, vAddr[p] # -1
          PROVE  vAddr[p] \in 0 .. Len(phoneBook[contextID[p]]) - 1
      BY <2>3 DEF Inv, Places, Placed, Place, PhoneBook
    <2>4. QED BY <2>1, <2>2, <2>3 DEF Inv, Shape, TypeOK
  <1>2. QED BY <1>1, InvInvariant, PTL

\* Two processes that the server told the same context have different vAddrs,
\* however their requests interleave.
THEOREM UniqueVAddrs == Spec => []VAddrsUnique
  <1>1. Inv => VAddrsUnique
    BY DEF Inv, Places, Placed, Place, VAddrsUnique, Members
  <1>2. QED BY <1>1, InvInvariant, PTL

\* What a process looks up is the address of the process with that vAddr in its
\* own context, although names and addresses are used again.
THEOREM RightBooks == Spec => []BooksAreRight
  <1>1. Inv => BooksAreRight
    <2> SUFFICES ASSUME Inv, NEW p \in Processes, NEW v \in VAddrs, book[p][v] # None
                 PROVE  \E q \in Processes : /\ contextID[q] = contextID[p]
                                             /\ phoneBook[contextID[p]][v + 1] = uri[q]
                                             /\ book[p][v] = uri[q]
                                             /\ vAddr[q] \in {v, -1}
      BY DEF BooksAreRight
    <2>1. PICK n \in BookSize(p) : HasBook(p, n)
      BY DEF Inv, Books
    <2>2. n \in Nat /\ v \in Nat /\ v < n /\ contextID[p] \in ContextIDs
      <3>1. n \in 0 .. ContextSize /\ (n > 0 => contextID[p] \in Issued)
        BY <2>1, BookSizeIs DEF Inv
      <3>2. v \in Nat /\ v < n
        BY <2>1 DEF HasBook, VAddrs
      <3>3. QED BY <3>1, <3>2, IssuedHaveBooks DEF Inv
    <2>3. v < Len(PhoneBook(p)) /\ book[p][v] = PhoneBook(p)[v + 1]
      BY <2>1, <2>2 DEF HasBook
    <2>4. Len(phoneBook[contextID[p]]) \in Nat /\ v \in 0 .. Len(phoneBook[contextID[p]]) - 1
      BY <2>2, <2>3 DEF PhoneBook, Inv, Shape
    <2>5. PICK q \in Processes : Placed(q) /\ contextID[q] = contextID[p] /\ Place(q) = v
      BY <2>2, <2>4 DEF Inv, Places
    <2>6. PhoneBook(q)[v + 1] = uri[q] /\ PhoneBook(q) = PhoneBook(p)
      BY <2>5 DEF Inv, Places, PhoneBook
    <2>7. vAddr[q] \in {v, -1}
      BY <2>5 DEF Place
    <2>8. QED BY <2>3, <2>5, <2>6, <2>7 DEF PhoneBook
  <1>2. QED BY <1>1, InvInvariant, PTL

-----------------------------------------------------------------------------
(* One generation of processes after the other.                            *)

\* What a step does not change for a process.
Unaffected(q) ==
    /\ Told(q)' <=> Told(q)
    /\ Told(q) => ToldID(q)' = ToldID(q)
    /\ Ended(q)' <=> Ended(q)

LEMMA UnaffectedIs ==
    ASSUME NEW q \in Processes, Same(q)
    PROVE  Unaffected(q) /\ pc'[q] = pc[q]
  BY DEF Same, Unaffected, Told, ToldID, Ended

\* A step by which the server tells nothing, and sees no process end.
LEMMA GroupsStay ==
    ASSUME Shape, GroupInv, UNCHANGED <<contextIds, after>>, \A q \in Processes : Unaffected(q),
           \A q \in Processes : pc'[q] # "off" =>
             pc[q] # "off" \/ \A r \in after[q] : Ended(r)'
    PROVE  GroupInv'
  <1>1. Owners'
    BY DEF GroupInv, Owners, Unaffected
  <1>2. LaunchedInOrder'
    <2>1. SUFFICES ASSUME NEW q \in Processes, pc'[q] # "off", NEW r \in after[q]
                   PROVE  Ended(r)'
      BY DEF LaunchedInOrder
    <2>2. CASE pc[q] # "off" /\ r \in Processes
      BY <2>1, <2>2 DEF GroupInv, LaunchedInOrder, Unaffected
    <2>3. CASE \A x \in after[q] : Ended(x)'
      BY <2>1, <2>3
    <2>4. QED BY <2>1, <2>2, <2>3 DEF Shape
  <1>3. Generations'
    BY DEF GroupInv, Generations, Orderly, Generation, Unaffected
  <1>4. QED BY <1>1, <1>2, <1>3 DEF GroupInv

\* Processes of one name that neither ended were launched together.
LEMMA OneGeneration ==
    ASSUME Shape, LaunchedInOrder, Orderly, NEW p \in Processes, NEW q \in Processes,
           NameOf[p] = NameOf[q], pc[p] # "off", pc[q] # "off", ~Ended(p), ~Ended(q)
    PROVE  q \in Generation(p) /\ p \in Generation(q)
  <1>1. SUFFICES q \in Generation(p)
    BY DEF Generation
  <1>2. SUFFICES ASSUME q \notin Generation(p) PROVE FALSE
    OBVIOUS
  <1>3. Generation(p) \subseteq after[q] \/ Generation(q) \subseteq after[p]
    BY <1>2 DEF Orderly
  <1>4. p \in Generation(p) /\ q \in Generation(q)
    BY DEF Generation
  <1>5. QED BY <1>3, <1>4 DEF LaunchedInOrder

LEMMA ContextRequestGroups ==
    ASSUME Inv, Inv', GroupInv, NEW p \in Processes, ContextRequest(p)
    PROVE  GroupInv'
  <1> DEFINE name == NameOf[p]
  <1>1. /\ pc[p] = "context" /\ contextID[p] = -1 /\ wire[p].type = "CONTEXT_REQUEST"
        /\ wire[p].arg = name /\ UNCHANGED process /\ name \in Names
        /\ ~Told(p) /\ ~Ended(p)
    BY WireFacts, SignalingAssumption DEF ContextRequest, Inv, OffOrAsking, Told, Ended
  <1>2. PICK c : /\ wire' = [wire EXCEPT ![p] = Reply(c)]
                 /\ \/ c = contextIds[name] /\ c # -1 /\ UNCHANGED contextIds
                    \/ /\ c = maxContextID /\ contextIds[name] = -1
                       /\ contextIds' = [contextIds EXCEPT ![name] = c]
    BY <1>1 DEF ContextRequest, Answer, server
  <1>3. /\ wire'[p] = Reply(c) /\ c \in Nat
        /\ \A q \in Processes \ {p} : Unaffected(q)
    <2>1. wire'[p] = Reply(c) /\ \A q \in Processes \ {p} : Same(q)
      BY <1>1, <1>2 DEF Inv, Shape, Same, process
    <2>2. c \in Nat
      BY <1>1, <1>2 DEF Inv, Shape, Issued
    <2>3. QED BY <2>1, <2>2, UnaffectedIs
  <1>4. Told(p)' /\ ToldID(p)' = c /\ ~Ended(p)'
    BY <1>1, <1>3 DEF Told, ToldID, Ended, Reply, process
  <1>5. \A q \in Processes : Told(q) => ToldID(q) \in Issued /\ pc[q] # "off"
    <2>1. SUFFICES ASSUME NEW q \in Processes, Told(q) PROVE ToldID(q) \in Issued /\ pc[q] # "off"
      OBVIOUS
    <2>2. CASE contextID[q] # -1
      BY <2>2 DEF ToldID, Inv, Shape, Phase, OffOrAsking, Joining, LookingUp, Initialised
    <2>3. CASE contextID[q] = -1
      BY <2>1, <2>3, WireFacts DEF Told, ToldID, Inv
    <2>4. QED BY <2>2, <2>3
  <1>6. CASE c = contextIds[name] /\ c # -1 /\ UNCHANGED contextIds
    <2>1. Owners'
      BY <1>1, <1>3, <1>4, <1>6 DEF GroupInv, Owners, Unaffected
    <2>2. \A q \in Processes : Orderly /\ Told(q) /\ ToldID(q) = c =>
            q \in Generation(p) /\ p \in Generation(q)
      BY <1>1, <1>5, <1>6, OneGeneration DEF GroupInv, Owners, Inv
    <2>3. Generations'
      <3>1. SUFFICES ASSUME Orderly, NEW q \in Processes, NEW r \in Processes,
                            Told(q)', Told(r)', ToldID(q)' = ToldID(r)'
                     PROVE  r \in Generation(q)
        BY <1>1 DEF Generations, Orderly, Generation, process
      <3>2. CASE q = p /\ r = p
        BY <3>2 DEF Generation
      <3>3. CASE q = p /\ r # p
        BY <1>3, <1>4, <2>2, <3>1, <3>3 DEF Unaffected
      <3>4. CASE q # p /\ r = p
        BY <1>3, <1>4, <2>2, <3>1, <3>4 DEF Unaffected
      <3>5. CASE q # p /\ r # p
        BY <1>3, <3>1, <3>5 DEF Unaffected, GroupInv, Generations
      <3>6. QED BY <3>2, <3>3, <3>4, <3>5
    <2>4. LaunchedInOrder'
      BY <1>1, <1>3, <1>4 DEF GroupInv, LaunchedInOrder, Unaffected, process, Inv, Shape
    <2>5. QED BY <2>1, <2>3, <2>4 DEF GroupInv
  <1>7. CASE /\ c = maxContextID /\ contextIds[name] = -1
             /\ contextIds' = [contextIds EXCEPT ![name] = c]
    <2>1. /\ \A q \in Processes : Told(q) => ToldID(q) # c
          /\ \A n \in Names : contextIds[n] # c
      <3>1. /\ maxContextID \in Nat /\ maxContextID \notin Issued \cup {-1}
            /\ contextIds \in [Names -> Issued \cup {-1}]
        BY DEF Inv, Shape, Issued
      <3>2. QED BY <1>5, <1>7, <3>1
    <2>2. \A n \in Names : contextIds'[n] = IF n = name THEN c ELSE contextIds[n]
      BY <1>1, <1>7 DEF Inv, Shape
    <2>3. Owners'
      <3>1. \A m, n \in Names : contextIds'[m] = contextIds'[n] /\ contextIds'[n] # -1 => m = n
        BY <2>1, <2>2 DEF GroupInv, Owners
      <3>2. ASSUME NEW n \in Names, NEW q \in Processes, Told(q)', contextIds'[n] = ToldID(q)'
            PROVE  NameOf[q] = n /\ ~Ended(q)'
        <4>1. CASE q = p
          BY <1>4, <2>1, <2>2, <3>2, <4>1
        <4>2. CASE q # p
          BY <1>3, <2>1, <2>2, <3>2, <4>2 DEF Unaffected, GroupInv, Owners
        <4>3. QED BY <4>1, <4>2
      <3>3. QED BY <3>1, <3>2 DEF Owners
    <2>4. Generations'
      <3>1. SUFFICES ASSUME Orderly, NEW q \in Processes, NEW r \in Processes,
                            Told(q)', Told(r)', ToldID(q)' = ToldID(r)'
                     PROVE  r \in Generation(q)
        BY <1>1 DEF Generations, Orderly, Generation, process
      <3>2. (q = p <=> r = p)
        BY <1>3, <1>4, <2>1, <3>1 DEF Unaffected
      <3>3. CASE q = p /\ r = p
        BY <3>3 DEF Generation
      <3>4. CASE q # p /\ r # p
        BY <1>3, <3>1, <3>4 DEF Unaffected, GroupInv, Generations
      <3>5. QED BY <3>2, <3>3, <3>4
    <2>5. LaunchedInOrder'
      BY <1>1, <1>3, <1>4 DEF GroupInv, LaunchedInOrder, Unaffected, process, Inv, Shape
    <2>6. QED BY <2>3, <2>4, <2>5 DEF GroupInv
  <1>8. QED BY <1>2, <1>6, <1>7

LEMMA DestructGroups ==
    ASSUME Inv, GroupInv, NEW p \in Processes, Destruct(p)
    PROVE  GroupInv'
  <1>1. /\ pc[p] = "gone" /\ wire[p].arg = NameOf[p] /\ contextID[p] \in Issued /\ contextID[p] # -1
        /\ UNCHANGED process /\ NameOf[p] \in Names
        /\ wire' = [wire EXCEPT ![p] = NoMessage]
        /\ contextIds' = [contextIds EXCEPT ![NameOf[p]] = -1]
    <2>1. /\ pc[p] = "gone" /\ wire[p].arg = NameOf[p] /\ contextID[p] \in Issued
          /\ UNCHANGED process
      BY WireFacts DEF Destruct, Inv, Initialised
    <2>2. NameOf[p] \in Names /\ contextID[p] # -1
      BY <2>1, SignalingAssumption DEF Inv, Shape, Issued
    <2>3. QED BY <2>1, <2>2 DEF Destruct
  <1>2. /\ wire'[p] = NoMessage
        /\ \A q \in Processes \ {p} : Unaffected(q)
    <2>1. wire'[p] = NoMessage /\ \A q \in Processes \ {p} : Same(q)
      BY <1>1 DEF Inv, Shape, Same, process
    <2>2. QED BY <2>1, UnaffectedIs
  <1>3. /\ Told(p) /\ Told(p)' /\ ToldID(p) = contextID[p] /\ ToldID(p)' = contextID[p]
        /\ Ended(p)'
    BY <1>1, <1>2 DEF Told, ToldID, Ended, process
  <1>4. \A n \in Names : contextIds'[n] = IF n = NameOf[p] THEN -1 ELSE contextIds[n]
    BY <1>1 DEF Inv, Shape
  <1>5. Owners'
    <2>1. \A m, n \in Names : contextIds'[m] = contextIds'[n] /\ contextIds'[n] # -1 => m = n
      BY <1>4 DEF GroupInv, Owners
    <2>2. ASSUME NEW n \in Names, NEW q \in Processes, Told(q)', contextIds'[n] = ToldID(q)'
          PROVE  NameOf[q] = n /\ ~Ended(q)'
      <3>1. CASE q = p
        BY <1>1, <1>3, <1>4, <2>2, <3>1 DEF GroupInv, Owners
      <3>2. CASE q # p
        <4>1. Told(q) /\ ToldID(q)' = ToldID(q) /\ (Ended(q)' <=> Ended(q))
          BY <1>2, <2>2, <3>2 DEF Unaffected
        <4>2. ToldID(q) # -1
          BY <4>1, WireFacts DEF Told, ToldID, Inv, Issued
        <4>3. QED BY <1>4, <2>2, <4>1, <4>2 DEF GroupInv, Owners
      <3>3. QED BY <3>1, <3>2
    <2>3. QED BY <2>1, <2>2 DEF Owners
  <1>6. LaunchedInOrder'
    <2>1. \A q \in Processes : after[q] \subseteq Processes
      BY DEF Inv, Shape
    <2>2. QED BY <1>1, <1>2, <1>3, <2>1 DEF GroupInv, LaunchedInOrder, Unaffected, process
  <1>7. Generations'
    <2>1. \A q \in Processes : (Told(q)' <=> Told(q)) /\ (Told(q) => ToldID(q)' = ToldID(q))
      BY <1>2, <1>3 DEF Unaffected
    <2>2. QED BY <1>1, <2>1 DEF GroupInv, Generations, Orderly, Generation, process
  <1>8. QED BY <1>5, <1>6, <1>7 DEF GroupInv

\* Every other step leaves what the server told, and whose end it saw.
LEMMA OtherGroups ==
    ASSUME Inv, GroupInv, NEW p \in Processes,
           \/ VAddrRequest(p) \/ VAddrLookup(p) \/ Launch(p) \/ Continue(p) \/ Deinit(p)
    PROVE  GroupInv'
  <1> USE DEF Request, Reply, NoMessage, server, process
  <1>1. UNCHANGED <<contextIds, after>>
    BY DEF VAddrRequest, VAddrLookup, Launch, Continue, GotContext, GotVAddr, GotUri, Deinit
  <1>2. \A q \in Processes \ {p} : Unaffected(q) /\ pc'[q] = pc[q]
    <2>1. \A q \in Processes \ {p} : Same(q)
      BY DEF VAddrRequest, VAddrLookup, Answer, Launch, Continue, GotContext, GotVAddr, GotUri, Ask,
             Deinit, Same, Inv, Shape
    <2>2. QED BY <2>1, UnaffectedIs
  <1>3. /\ Unaffected(p)
        /\ pc'[p] # "off" => pc[p] # "off" \/ \A r \in after[p] : Ended(r)
    <2> USE DEF Unaffected, Told, ToldID, Ended
    <2>1. CASE VAddrRequest(p)
      <3>1. pc[p] = "vAddr" /\ contextID[p] \in Issued /\ contextID[p] # -1
        BY <2>1, WireFacts DEF VAddrRequest, Inv, Shape, Joining, Issued
      <3>2. QED BY <2>1, <3>1 DEF VAddrRequest
    <2>2. CASE VAddrLookup(p)
      <3>1. pc[p] = "lookup" /\ contextID[p] \in Issued /\ contextID[p] # -1
        BY <2>2, WireFacts DEF VAddrLookup, Inv, Shape, LookingUp, Issued
      <3>2. QED BY <2>2, <3>1 DEF VAddrLookup
    <2>3. CASE Launch(p)
      <3>1. contextID[p] = -1 /\ pc'[p] = "context" /\ wire'[p].type = "CONTEXT_REQUEST"
        BY <2>3, WireFacts DEF Launch, Inv, Shape, OffOrAsking
      <3>2. QED BY <2>3, <3>1 DEF Launch
    <2>4. CASE GotContext(p)
      <3>1. /\ contextID[p] = -1 /\ wire[p].value \in Issued /\ wire[p].value # -1
            /\ contextID'[p] = wire[p].value /\ pc'[p] = "vAddr"
        BY <2>4, WireFacts DEF GotContext, Inv, Shape, OffOrAsking, Issued
      <3>2. QED BY <2>4, <3>1 DEF GotContext
    <2>5. CASE GotVAddr(p)
      <3>1. /\ contextID[p] \in Issued /\ contextID[p] # -1 /\ pc'[p] = "lookup"
        BY <2>5, WireFacts DEF GotVAddr, Inv, Shape, Joining, Issued
      <3>2. QED BY <2>5, <3>1 DEF GotVAddr
    <2>6. CASE GotUri(p)
      <3>1. /\ contextID[p] \in Issued /\ contextID[p] # -1 /\ pc'[p] \in {"lookup", "running"}
        BY <2>6, WireFacts DEF GotUri, Inv, Shape, LookingUp, Issued
      <3>2. QED BY <2>6, <3>1 DEF GotUri
    <2>7. CASE Deinit(p)
      <3>1. /\ contextID[p] \in Issued /\ contextID[p] # -1 /\ wire'[p].type = "DESTRUCT"
            /\ pc'[p] = "gone"
        BY <2>7, WireFacts DEF Deinit, Inv, Shape, Initialised, Issued
      <3>2. wire'[p] # NoMessage
        BY <3>1
      <3>3. QED BY <2>7, <3>1, <3>2 DEF Deinit
    <2>8. QED BY <2>1, <2>2, <2>3, <2>4, <2>5, <2>6, <2>7 DEF Continue
  <1>4. \A q \in Processes : \A r \in after[q] : Ended(r) => Ended(r)'
    <2>1. \A q \in Processes : after[q] \subseteq Processes
      BY DEF Inv, Shape
    <2>2. QED BY <2>1, <1>2, <1>3 DEF Unaffected
  <1>5. QED BY <1>1, <1>2, <1>3, <1>4, GroupsStay DEF Inv

\* A registered name stands for a context of live processes; processes are
\* launched in their order; and a context is given to one generation only.
THEOREM GroupInvariant == Spec => []GroupInv
  <1>1. Init => GroupInv
    BY DEF Init, GroupInv, Owners, LaunchedInOrder, Generations, Told
  <1>2. Inv /\ Inv' /\ GroupInv /\ [Next]_vars => GroupInv'
    <2> SUFFICES ASSUME Inv, Inv', GroupInv, [Next]_vars PROVE GroupInv'
      OBVIOUS
    <2>1. CASE UNCHANGED vars
      <3>1. UNCHANGED <<contextIds, after>> /\ \A q \in Processes : Unaffected(q) /\ pc'[q] = pc[q]
        BY <2>1 DEF vars, server, process, Unaffected, Told, ToldID, Ended
      <3>2. QED BY <3>1, GroupsStay DEF Inv
    <2>2. ASSUME NEW p \in Processes, ContextRequest(p) PROVE GroupInv'
      BY <2>2, ContextRequestGroups
    <2>3. ASSUME NEW p \in Processes, Destruct(p) PROVE GroupInv'
      BY <2>3, DestructGroups
    <2>4. ASSUME NEW p \in Processes,
                 \/ VAddrRequest(p) \/ VAddrLookup(p) \/ Launch(p) \/ Continue(p) \/ Deinit(p)
          PROVE  GroupInv'
      BY <2>4, OtherGroups
    <2>5. QED BY <2>1, <2>2, <2>3, <2>4 DEF Next, Serve
  <1>3. QED BY <1>1, <1>2, InvInvariant, PTL DEF Spec

\* A generation of the right size fills its phone book and nobody else does.
LEMMA OnlyMembers ==
    ASSUME Inv, GroupInv, Orderly, NEW p \in Processes, contextID[p] \in ContextIDs
    PROVE  Len(PhoneBook(p)) <= ContextSize
  <1> DEFINE len == Len(PhoneBook(p))
             member == [v \in 0 .. len - 1 |->
                          CHOOSE q \in Processes :
                            Placed(q) /\ contextID[q] = contextID[p] /\ Place(q) = v]
  <1>1. len \in Nat
    BY DEF Inv, Shape, PhoneBook
  <1>2. \A v \in 0 .. len - 1 :
          /\ member[v] \in Processes /\ contextID[member[v]] = contextID[p]
          /\ Place(member[v]) = v
    BY DEF Inv, Places, PhoneBook
  <1>3. \A v \in 0 .. len - 1 : member[v] \in Generation(p)
    <2>1. contextID[p] # -1
      BY DEF ContextIDs
    <2>2. QED BY <1>2, <2>1 DEF GroupInv, Generations, Told, ToldID
  <1>4. member \in Injection(0 .. len - 1, Generation(p))
    BY <1>2, <1>3 DEF Injection, IsInjective
  <1>5. IsFiniteSet(Generation(p)) /\ Cardinality(Generation(p)) = ContextSize
    BY SignalingAssumption, FS_Subset DEF Generation, Orderly
  <1>6. Cardinality(0 .. len - 1) <= ContextSize
    BY <1>4, <1>5, FS_Injection
  <1>7. Cardinality(0 .. len - 1) = len
    <2>1. \A k \in Nat : Cardinality(0 .. k - 1) = k
      <3>1. TAKE k \in Nat
      <3>2. 0 \in Int /\ k - 1 \in Int
        OBVIOUS
      <3>3. Cardinality(0 .. k - 1) = IF 0 > k - 1 THEN 0 ELSE (k - 1) - 0 + 1
        BY <3>2, FS_Interval
      <3>4. QED BY <3>3
    <2>2. QED BY <1>1, <2>1
  <1>8. QED BY <1>6, <1>7

\* If every name is used by one full generation after the other, a process that
\* completed its initialisation has a place among the peers it looked up, under
\* its own address.
THEOREM ProcessFindsItself == Spec => []FindsItself
  <1>1. Inv /\ GroupInv => FindsItself
    <2> SUFFICES ASSUME Inv, GroupInv, Orderly, NEW p \in Processes, pc[p] = "running"
                 PROVE  vAddr[p] \in VAddrs /\ book[p][vAddr[p]] = uri[p]
      BY DEF FindsItself
    <2>1. Initialised(p) /\ vAddr[p] \in Nat /\ contextID[p] \in ContextIDs /\ vAddr[p] # -1
      BY WireFacts, IssuedHaveBooks DEF Inv, Initialised
    <2>2. /\ vAddr[p] \in 0 .. Len(PhoneBook(p)) - 1
          /\ PhoneBook(p)[vAddr[p] + 1] = uri[p]
      BY <2>1 DEF Inv, Places, Placed, Place
    <2>3. Len(PhoneBook(p)) \in Nat /\ Len(PhoneBook(p)) <= ContextSize
      BY <2>1, OnlyMembers DEF Inv, Shape, PhoneBook
    <2>4. vAddr[p] \in VAddrs /\ vAddr[p] < ContextSize
      BY <2>2, <2>3, SignalingAssumption DEF VAddrs
    <2>5. HasBook(p, ContextSize)
      BY DEF Inv, Books, BookSize
    <2>6. QED BY <2>2, <2>4, <2>5 DEF HasBook
  <1>2. QED BY <1>1, InvInvariant, GroupInvariant, PTL
=============================================================================
