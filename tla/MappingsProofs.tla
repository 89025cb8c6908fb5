---------------------------- MODULE MappingsProofs ----------------------------
(***************************************************************************)
(* The mappings partition the vertices for every number of peers and       *)
(* vertices: Consecutive and Roundrobin, by which no peer gets more than   *)
(* the quotient rounded up, always; Random and GraphPartition where the    *)
(* number of their parts fits the number of peers.                         *)
(***************************************************************************)
EXTENDS Mappings, Functions, WellFoundedInduction, TLAPS

\* share[p] has the vertices 0 .. c - 1 that p hosts: each vertex is in one
\* share, and once.
Partitioned(share, c) ==
    /\ \A v \in 0 .. c - 1 : \E p \in DOMAIN share :
         /\ v \in Range(share[p])
         /\ \A q \in DOMAIN share : v \in Range(share[q]) => q = p
    /\ \A p \in DOMAIN share : Range(share[p]) \subseteq 0 .. c - 1 /\ IsInjective(share[p])

\* No share is longer than bound.
Bounded(share, bound) == \A p \in DOMAIN share : Len(share[p]) <= bound

\* GraphPartition with one part makes each peer host all vertices.
PartsFit(n, nParts) == nParts # 1 \/ n = 1

Ascending(s) == \A a, b \in DOMAIN s : a < b => s[a] < s[b]

-----------------------------------------------------------------------------
(* Arithmetic                                                              *)

LEMMA Quotient ==
  ASSUME NEW a \in Nat, NEW b \in Nat \ {0}
  PROVE  /\ a \div b \in Nat
         /\ (a \div b) * b <= a
         /\ a < (a \div b) * b + b
OBVIOUS

\* The quotient rounded up is the least whose multiple reaches a.
LEMMA QuotientUp ==
  ASSUME NEW a \in Nat, NEW b \in Nat \ {0}
  PROVE  /\ CeilDiv(a, b) \in Nat
         /\ a <= CeilDiv(a, b) * b
         /\ CeilDiv(a, b) * b < a + b
         /\ a # 0 => CeilDiv(a, b) # 0
<1>1. a + b - 1 \in Nat
  OBVIOUS
<1>2. PICK q \in Nat : q = (a + b - 1) \div b /\ q * b <= a + b - 1 /\ a + b - 1 < q * b + b
  BY <1>1, Quotient
<1>3. CeilDiv(a, b) = q
  BY <1>2 DEF CeilDiv
<1>4. PICK m \in Nat : m = q * b
  OBVIOUS
<1>5. a <= m /\ m < a + b
  BY <1>2, <1>4
<1>6. a # 0 => q # 0
  BY <1>4, <1>5
<1> QED
  BY <1>3, <1>4, <1>5, <1>6

LEMMA Multiples ==
  ASSUME NEW i \in Nat, NEW j \in Nat, NEW b \in Nat, i < j
  PROVE  i * b + b <= j * b
<1>1. PICK d \in Nat : j = i + 1 + d
  <2>1. j - i - 1 \in Nat /\ j = i + 1 + (j - i - 1)
    OBVIOUS
  <2> QED
    BY <2>1
<1>2. j * b = i * b + b + d * b
  BY <1>1
<1>3. d * b \in Nat /\ i * b \in Nat
  OBVIOUS
<1> QED
  BY <1>2, <1>3

-----------------------------------------------------------------------------
(* Vertices(first, last, step)                                             *)

\* Which vertices it has, each once, and how many at most.
LEMMA VerticesElements ==
  ASSUME NEW first \in Nat, NEW last \in Nat, NEW step \in Nat \ {0}
  PROVE  /\ \A v : v \in Range(Vertices(first, last, step)) <=>
                     \E i \in Nat : v = first + i * step /\ v < last
         /\ IsInjective(Vertices(first, last, step))
<1> DEFINE n == IF first < last THEN CeilDiv(last - first, step) ELSE 0
           s == Vertices(first, last, step)
<1>1. n \in Nat /\ (first < last => last - first <= n * step /\ n * step < last - first + step)
  <2>1. CASE first < last
    <3>1. last - first \in Nat
      BY <2>1
    <3> QED
      BY <2>1, <3>1, QuotientUp
  <2>2. CASE ~(first < last)
    BY <2>2
  <2> QED
    BY <2>1, <2>2
<1>2. s = [j \in 1 .. n |-> first + (j - 1) * step]
  BY DEF Vertices
<1> HIDE DEF n, s
<1>3. DOMAIN s = 1 .. n /\ \A j \in 1 .. n : s[j] = first + (j - 1) * step
  BY <1>2
<1>4. ASSUME NEW v, v \in Range(s)
      PROVE  \E i \in Nat : v = first + i * step /\ v < last
  <2>1. PICK j \in 1 .. n : v = s[j]
    BY <1>4, <1>3 DEF Range
  <2>2. PICK i \in Nat : i = j - 1 /\ i < n
    BY <1>1, <2>1
  <2>3. v = first + i * step
    BY <1>3, <2>1, <2>2
  <2>4. first < last
    BY <1>1, <2>2 DEF n
  <2>5. i * step + step <= n * step
    BY <1>1, <2>2, Multiples
  <2>6. i * step \in Nat /\ n * step \in Nat
    BY <1>1
  <2>7. v < last
    BY <1>1, <2>3, <2>4, <2>5, <2>6
  <2> QED
    BY <2>3, <2>7
<1>5. ASSUME NEW v, NEW i \in Nat, v = first + i * step, v < last
      PROVE  v \in Range(s)
  <2>1. i * step \in Nat
    OBVIOUS
  <2>2. first < last
    BY <1>5, <2>1
  <2>3. i < n
    <3>1. SUFFICES ASSUME n <= i PROVE FALSE
      BY <1>1
    <3>2. n * step <= i * step
      BY <1>1, <3>1, Multiples
    <3>3. n * step \in Nat
      BY <1>1
    <3> QED
      BY <1>1, <1>5, <2>1, <2>2, <3>2, <3>3
  <2>4. i + 1 \in 1 .. n /\ (i + 1) - 1 = i
    BY <1>1, <2>3
  <2>5. s[i + 1] = v
    BY <1>3, <1>5, <2>4
  <2> QED
    BY <1>3, <2>4, <2>5 DEF Range
<1>6. IsInjective(s)
  <2>1. SUFFICES ASSUME NEW a \in 1 .. n, NEW b \in 1 .. n, a < b
                 PROVE  s[a] # s[b]
    BY <1>1, <1>3 DEF IsInjective
  <2>2. PICK i \in Nat, j \in Nat : i = a - 1 /\ j = b - 1 /\ i < j
    BY <1>1, <2>1
  <2>3. i * step + step <= j * step
    BY <2>2, Multiples
  <2>4. s[a] = first + i * step /\ s[b] = first + j * step
    BY <1>3, <2>2
  <2>5. i * step \in Nat /\ j * step \in Nat
    OBVIOUS
  <2> QED
    BY <2>3, <2>4, <2>5
<1> QED
  BY <1>4, <1>5, <1>6 DEF s

LEMMA VerticesLength ==
  ASSUME NEW first \in Nat, NEW last \in Nat, NEW step \in Nat \ {0}, NEW k \in Nat,
         last - first <= k * step
  PROVE  Len(Vertices(first, last, step)) <= k
<1>1. CASE first < last
  <2>1. PICK n \in Nat : n = CeilDiv(last - first, step) /\ n * step < last - first + step
    <3>1. last - first \in Nat
      BY <1>1
    <3> QED
      BY <3>1, QuotientUp
  <2>2. Vertices(first, last, step) = [j \in 1 .. n |-> first + (j - 1) * step]
    BY <1>1, <2>1 DEF Vertices
  <2>3. Len(Vertices(first, last, step)) = n
    BY <2>2
  <2>4. n <= k
    <3>1. SUFFICES ASSUME k < n PROVE FALSE
      BY <2>1
    <3>2. k * step + step <= n * step
      BY <2>1, <3>1, Multiples
    <3>3. k * step \in Nat /\ n * step \in Nat
      BY <2>1
    <3> QED
      BY <2>1, <3>2, <3>3
  <2> QED
    BY <2>3, <2>4
<1>2. CASE ~(first < last)
  <2>1. Vertices(first, last, step) = [j \in 1 .. 0 |-> first + (j - 1) * step]
    BY <1>2 DEF Vertices
  <2>2. Len(Vertices(first, last, step)) = 0
    BY <2>1
  <2> QED
    BY <2>2
<1> QED
  BY <1>1, <1>2

-----------------------------------------------------------------------------
(* Consecutive                                                             *)

\* Process p has the p-th block of k vertices, cut off at the last vertex.
LEMMA ConsecutiveShare ==
  ASSUME NEW n \in Nat \ {0}, NEW c \in Nat, NEW p \in 0 .. n - 1,
         NEW k \in Nat, k = CeilDiv(c, n)
  PROVE  /\ Range(Consecutive(p, n, c)) \subseteq 0 .. c - 1
         /\ \A v \in 0 .. c - 1 : v \in Range(Consecutive(p, n, c)) <=>
                                   p * k <= v /\ v < p * k + k
         /\ IsInjective(Consecutive(p, n, c))
         /\ Len(Consecutive(p, n, c)) <= k
<1>1. PICK m \in Nat : m = p * k
  OBVIOUS
<1> 1 \in Nat \ {0}
  OBVIOUS
<1>2. PICK l \in Nat : l = Lesser(m + k, c) /\ l <= m + k /\ l <= c /\ (l = m + k \/ l = c)
  BY DEF Lesser
<1>3. Consecutive(p, n, c) = IF (c # 0 /\ p > c - 1) \/ m > c THEN <<>> ELSE Vertices(m, l, 1)
  BY <1>1, <1>2 DEF Consecutive
<1>4. CASE (c # 0 /\ p > c - 1) \/ m > c
  <2>1. Consecutive(p, n, c) = <<>>
    BY <1>3, <1>4
  <2>2. c <= m
    <3>1. CASE c # 0 /\ p > c - 1
      <4>1. k \in Nat \ {0}
        BY <3>1, QuotientUp
      <4>2. p <= p * k
        <5>1. PICK d \in Nat : k = d + 1
          <6>1. k - 1 \in Nat /\ k = (k - 1) + 1
            BY <4>1
          <6> QED
            BY <6>1
        <5>2. p * k = p * d + p /\ p * d \in Nat
          BY <5>1
        <5> QED
          BY <5>2
      <4> QED
        BY <1>1, <3>1, <4>2
    <3>2. CASE m > c
      BY <3>2
    <3> QED
      BY <1>4, <3>1, <3>2
  <2>3. Range(Consecutive(p, n, c)) = {}
    BY <2>1 DEF Range
  <2>4. IsInjective(Consecutive(p, n, c)) /\ Len(Consecutive(p, n, c)) = 0
    BY <2>1 DEF IsInjective
  <2>5. \A v \in 0 .. c - 1 : ~(p * k <= v /\ v < p * k + k)
    BY <1>1, <2>2
  <2> QED
    BY <2>3, <2>4, <2>5
<1>5. CASE ~((c # 0 /\ p > c - 1) \/ m > c)
  <2>1. Consecutive(p, n, c) = Vertices(m, l, 1)
    BY <1>3, <1>5
  <2>2. /\ \A v : v \in Range(Vertices(m, l, 1)) <=> \E i \in Nat : v = m + i * 1 /\ v < l
        /\ IsInjective(Vertices(m, l, 1))
    BY VerticesElements
  <2>3. \A v : (\E i \in Nat : v = m + i * 1 /\ v < l) <=>
                 (v \in 0 .. c - 1 /\ p * k <= v /\ v < p * k + k)
    <3>1. ASSUME NEW v, NEW i \in Nat, v = m + i * 1, v < l
          PROVE  v \in 0 .. c - 1 /\ p * k <= v /\ v < p * k + k
      BY <1>1, <1>2, <3>1
    <3>2. ASSUME NEW v \in 0 .. c - 1, p * k <= v, v < p * k + k
          PROVE  \E i \in Nat : v = m + i * 1 /\ v < l
      <4>1. v - m \in Nat /\ v = m + (v - m) * 1 /\ v < l
        BY <1>1, <1>2, <3>2
      <4> QED
        BY <4>1
    <3> QED
      BY <3>1, <3>2
  <2>4. Len(Vertices(m, l, 1)) <= k
    <3>1. l - m <= k * 1
      BY <1>2
    <3> QED
      BY <3>1, VerticesLength
  <2> QED
    BY <2>1, <2>2, <2>3, <2>4
<1> QED
  BY <1>4, <1>5

\* Consecutive gives every vertex to exactly one peer, once, whatever the
\* numbers of peers and vertices are: the unsigned tests for more processes than
\* vertices and the cut at the last vertex leave out no vertex and repeat none.
\* No peer has more than its share rounded up.
THEOREM ConsecutivePartitions ==
  ASSUME NEW n \in Nat \ {0}, NEW c \in Nat
  PROVE  /\ Partitioned([p \in 0 .. n - 1 |-> Consecutive(p, n, c)], c)
         /\ Bounded([p \in 0 .. n - 1 |-> Consecutive(p, n, c)], CeilDiv(c, n))
<1> DEFINE share == [p \in 0 .. n - 1 |-> Consecutive(p, n, c)]
<1>1. PICK k \in Nat : k = CeilDiv(c, n) /\ c <= k * n /\ (c # 0 => k # 0)
  BY QuotientUp
<1>2. DOMAIN share = 0 .. n - 1
  OBVIOUS
<1>3. \A p \in 0 .. n - 1 :
        /\ Range(share[p]) \subseteq 0 .. c - 1
        /\ \A v \in 0 .. c - 1 : v \in Range(share[p]) <=> p * k <= v /\ v < p * k + k
        /\ IsInjective(share[p])
        /\ Len(share[p]) <= k
  BY <1>1, ConsecutiveShare
<1> HIDE DEF share
<1>4. ASSUME NEW v \in 0 .. c - 1
      PROVE  \E p \in DOMAIN share :
               /\ v \in Range(share[p])
               /\ \A q \in DOMAIN share : v \in Range(share[q]) => q = p
  <2>1. k \in Nat \ {0} /\ v \in Nat
    BY <1>1
  <2>2. PICK p \in Nat : p * k <= v /\ v < p * k + k
    BY <2>1, Quotient
  <2>3. p < n
    <3>1. SUFFICES ASSUME n <= p PROVE FALSE
      BY <2>2
    <3>2. n = p \/ n * k + k <= p * k
      BY <3>1, Multiples
    <3>3. n * k = k * n /\ n * k \in Nat /\ p * k \in Nat
      BY <2>1
    <3> QED
      BY <1>1, <2>2, <3>2, <3>3
  <2>4. v \in Range(share[p])
    BY <1>3, <2>2, <2>3
  <2>5. ASSUME NEW q \in 0 .. n - 1, v \in Range(share[q])
        PROVE  q = p
    <3>1. q * k <= v /\ v < q * k + k
      BY <1>3, <2>5
    <3>2. q < p => q * k + k <= p * k
      BY <2>1, Multiples
    <3>3. p < q => p * k + k <= q * k
      BY <2>1, Multiples
    <3>4. p * k \in Nat /\ q * k \in Nat
      BY <2>1
    <3> QED
      BY <2>2, <3>1, <3>2, <3>3, <3>4
  <2> QED
    BY <1>2, <2>3, <2>4, <2>5
<1>5. Partitioned(share, c)
  BY <1>2, <1>3, <1>4 DEF Partitioned
<1>6. Bounded(share, CeilDiv(c, n))
  BY <1>1, <1>2, <1>3 DEF Bounded
<1> QED
  BY <1>5, <1>6 DEF share

-----------------------------------------------------------------------------
(* Roundrobin                                                              *)

\* Process p has the vertices p, p + n, p + 2n, ...
LEMMA RoundrobinShare ==
  ASSUME NEW n \in Nat \ {0}, NEW c \in Nat, NEW p \in 0 .. n - 1
  PROVE  /\ Range(Roundrobin(p, n, c)) \subseteq 0 .. c - 1
         /\ \A v \in 0 .. c - 1 : v \in Range(Roundrobin(p, n, c)) <=>
                                   \E i \in Nat : v = p + i * n
         /\ IsInjective(Roundrobin(p, n, c))
         /\ Len(Roundrobin(p, n, c)) <= CeilDiv(c, n)
<1>1. PICK k \in Nat : k = CeilDiv(c, n) /\ c <= k * n
  BY QuotientUp
<1>2. PICK l \in Nat : l = Lesser(p + k * n, c) /\ l = c
  BY <1>1 DEF Lesser
<1>3. Roundrobin(p, n, c) = IF p <= c THEN Vertices(p, l, n) ELSE <<>>
  BY <1>1, <1>2 DEF Roundrobin
<1>4. CASE p <= c
  <2>1. Roundrobin(p, n, c) = Vertices(p, c, n)
    BY <1>2, <1>3, <1>4
  <2>2. p \in Nat
    OBVIOUS
  <2>5. /\ \A v : v \in Range(Vertices(p, c, n)) <=> \E i \in Nat : v = p + i * n /\ v < c
        /\ IsInjective(Vertices(p, c, n))
    BY <2>2, VerticesElements
  <2>3. Len(Vertices(p, c, n)) <= k
    <3>1. c - p <= k * n
      BY <1>1
    <3> QED
      BY <1>1, <3>1, VerticesLength
  <2>4. ASSUME NEW v \in 0 .. c - 1
        PROVE  v \in Range(Vertices(p, c, n)) <=> \E i \in Nat : v = p + i * n
    <3>1. v < c
      OBVIOUS
    <3> QED
      BY <2>5, <3>1, Zenon
  <2>6. Range(Vertices(p, c, n)) \subseteq 0 .. c - 1
    <3>1. ASSUME NEW v, NEW i \in Nat, v = p + i * n, v < c
          PROVE  v \in 0 .. c - 1
      <4>1. i * n \in Nat
        OBVIOUS
      <4> QED
        BY <3>1, <4>1
    <3> QED
      BY <2>5, <3>1
  <2> QED
    BY <1>1, <2>1, <2>3, <2>4, <2>5, <2>6
<1>5. CASE c < p
  <2>1. Roundrobin(p, n, c) = <<>>
    BY <1>3, <1>5
  <2>2. Range(Roundrobin(p, n, c)) = {} /\ IsInjective(Roundrobin(p, n, c))
        /\ Len(Roundrobin(p, n, c)) = 0
    BY <2>1 DEF Range, IsInjective
  <2>3. \A i \in Nat : i * n \in Nat
    OBVIOUS
  <2>4. \A v \in 0 .. c - 1 : ~ \E i \in Nat : v = p + i * n
    BY <1>5, <2>3
  <2> QED
    BY <1>1, <2>2, <2>4
<1>6. p <= c \/ c < p
  OBVIOUS
<1> QED
  BY <1>4, <1>5, <1>6, Zenon

\* Roundrobin gives every vertex to exactly one peer, once, whatever the numbers
\* of peers and vertices are, and no peer more than its share rounded up: the
\* bound of its loop never cuts off a vertex.
THEOREM RoundrobinPartitions ==
  ASSUME NEW n \in Nat \ {0}, NEW c \in Nat
  PROVE  /\ Partitioned([p \in 0 .. n - 1 |-> Roundrobin(p, n, c)], c)
         /\ Bounded([p \in 0 .. n - 1 |-> Roundrobin(p, n, c)], CeilDiv(c, n))
<1> DEFINE share == [p \in 0 .. n - 1 |-> Roundrobin(p, n, c)]
<1>1. DOMAIN share = 0 .. n - 1
  OBVIOUS
<1>2. \A p \in 0 .. n - 1 :
        /\ Range(share[p]) \subseteq 0 .. c - 1
        /\ \A v \in 0 .. c - 1 : v \in Range(share[p]) <=> \E i \in Nat : v = p + i * n
        /\ IsInjective(share[p])
        /\ Len(share[p]) <= CeilDiv(c, n)
  <2>1. TAKE p \in 0 .. n - 1
  <2>2. share[p] = Roundrobin(p, n, c)
    OBVIOUS
  <2> HIDE DEF share
  <2> QED
    BY <2>2, RoundrobinShare
<1> HIDE DEF share
<1>3. ASSUME NEW v \in 0 .. c - 1
      PROVE  \E p \in DOMAIN share :
               /\ v \in Range(share[p])
               /\ \A q \in DOMAIN share : v \in Range(share[q]) => q = p
  <2>1. PICK i \in Nat : i * n <= v /\ v < i * n + n
    <3>1. v \in Nat
      OBVIOUS
    <3> QED
      BY <3>1, Quotient
  <2>2. PICK p \in 0 .. n - 1 : v = p + i * n
    <3>1. v - i * n \in 0 .. n - 1 /\ v = (v - i * n) + i * n
      BY <2>1
    <3> QED
      BY <3>1
  <2>3. v \in Range(share[p])
    BY <1>2, <2>2
  <2>4. ASSUME NEW q \in 0 .. n - 1, v \in Range(share[q])
        PROVE  q = p
    <3>1. PICK j \in Nat : v = q + j * n
      BY <1>2, <2>4
    <3>2. i < j => i * n + n <= j * n
      BY Multiples
    <3>3. j < i => j * n + n <= i * n
      BY Multiples
    <3>4. i * n \in Nat /\ j * n \in Nat
      OBVIOUS
    <3>5. ~(i < j) /\ ~(j < i)
      BY <2>2, <3>1, <3>2, <3>3, <3>4
    <3>6. i = j
      BY <3>5
    <3> QED
      BY <2>2, <3>1, <3>4, <3>6
  <2> QED
    BY <1>1, <2>3, <2>4
<1>4. Partitioned(share, c)
  BY <1>1, <1>2, <1>3 DEF Partitioned
<1>5. Bounded(share, CeilDiv(c, n))
  BY <1>1, <1>2 DEF Bounded
<1> QED
  BY <1>4, <1>5 DEF share

-----------------------------------------------------------------------------
(* Kept(s, T)                                                              *)

LEMMA LeastNumber ==
  ASSUME NEW T, T \subseteq Nat, T # {}
  PROVE  \E m \in T : \A y \in T : m <= y
<1>1. PICK m \in T : \A y \in T : ~(<<y, m>> \in OpToRel(<, Nat))
  BY WFMin, NatLessThanWellFounded
<1>2. \A y \in T : ~(y < m)
  BY <1>1 DEF OpToRel
<1> QED
  BY <1>2

\* Induction over the natural numbers, for a set of them.
LEMMA SetInduction ==
  ASSUME NEW S, 0 \in S, \A n \in Nat : n \in S => n + 1 \in S
  PROVE  Nat \subseteq S
<1>1. SUFFICES ASSUME Nat \ S # {} PROVE FALSE
  OBVIOUS
<1>2. PICK x \in Nat \ S : \A y \in Nat \ S : x <= y
  BY <1>1, LeastNumber
<1>3. x # 0 /\ x - 1 \in Nat
  OBVIOUS
<1>4. x - 1 \in S
  BY <1>2, <1>3
<1> QED
  BY <1>3, <1>4

\* The n-th step of Kept.
Keep(s, T, k, n) ==
    IF n = 0 THEN <<>> ELSE IF s[n] \in T THEN Append(k[n - 1], s[n]) ELSE k[n - 1]

\* Kept is defined by recursion: there is a function of just these steps.
LEMMA KeptExists ==
  ASSUME NEW s, NEW T
  PROVE  \A m \in Nat : \E k : k = [n \in 0 .. m |-> Keep(s, T, k, n)]
<1> DEFINE S == {m \in Nat : \E k : k = [n \in 0 .. m |-> Keep(s, T, k, n)]}
<1>1. 0 \in S
  <2> DEFINE k == [n \in 0 .. 0 |-> <<>>]
  <2>1. k = [n \in 0 .. 0 |-> Keep(s, T, k, n)]
    BY DEF Keep
  <2> QED
    BY <2>1
<1>2. ASSUME NEW m \in Nat, m \in S PROVE m + 1 \in S
  <2>1. PICK k : k = [n \in 0 .. m |-> Keep(s, T, k, n)]
    BY <1>2
  <2> DEFINE g == [n \in 0 .. m + 1 |-> IF n <= m THEN k[n] ELSE Keep(s, T, k, m + 1)]
  <2>2. \A n \in 0 .. m + 1 : n <= m => Keep(s, T, g, n) = Keep(s, T, k, n)
    BY DEF Keep
  <2>3. Keep(s, T, g, m + 1) = Keep(s, T, k, m + 1)
    BY DEF Keep
  <2>4. \A n \in 0 .. m : k[n] = Keep(s, T, k, n)
    BY <2>1
  <2>5. ASSUME NEW n \in 0 .. m + 1 PROVE g[n] = Keep(s, T, g, n)
    <3>1. CASE n <= m
      BY <3>1, <2>2, <2>4
    <3>2. CASE n = m + 1
      BY <3>2, <2>3
    <3> QED
      BY <3>1, <3>2
  <2>6. g = [n \in 0 .. m + 1 |-> Keep(s, T, g, n)]
    BY <2>5
  <2>7. \E h : h = [n \in 0 .. m + 1 |-> Keep(s, T, h, n)]
    <3> HIDE DEF g
    <3> QED BY <2>6, Zenon
  <2> QED
    BY <2>7
<1>3. Nat \subseteq S
  <2> HIDE DEF S
  <2> QED BY <1>1, <1>2, SetInduction
<1> QED
  BY <1>3

\* What Kept computes, step by step.
LEMMA KeptSteps ==
  ASSUME NEW s, Len(s) \in Nat, NEW T
  PROVE  \E k : k = [n \in 0 .. Len(s) |-> Keep(s, T, k, n)] /\ Kept(s, T) = k[Len(s)]
<1> DEFINE k == CHOOSE k : k = [n \in 0 .. Len(s) |-> Keep(s, T, k, n)]
<1>1. k = [n \in 0 .. Len(s) |-> Keep(s, T, k, n)]
  BY KeptExists
<1>2. Kept(s, T) = k[Len(s)]
  BY Zenon DEF Kept, Keep
<1> QED
  BY <1>1, <1>2

\* Induction up to a bound.
LEMMA BoundedInduction ==
  ASSUME NEW N \in Nat, NEW S, 0 \in S, \A m \in 0 .. N - 1 : m \in S => m + 1 \in S
  PROVE  N \in S
<1> DEFINE Q == {n \in Nat : n <= N => n \in S}
<1>1. 0 \in Q
  OBVIOUS
<1>2. \A m \in Nat : m \in Q => m + 1 \in Q
  OBVIOUS
<1>3. Nat \subseteq Q
  <2> HIDE DEF Q
  <2> QED BY <1>1, <1>2, SetInduction
<1> QED
  BY <1>3

LEMMA KeptChain ==
  ASSUME NEW S, NEW s \in Seq(S), NEW T
  PROVE  \E k : /\ k[0] = <<>> /\ Kept(s, T) = k[Len(s)]
                /\ \A m \in 0 .. Len(s) - 1 :
                     k[m + 1] = IF s[m + 1] \in T THEN Append(k[m], s[m + 1]) ELSE k[m]
<1>1. Len(s) \in Nat
  OBVIOUS
<1>2. PICK k : k = [n \in 0 .. Len(s) |-> Keep(s, T, k, n)] /\ Kept(s, T) = k[Len(s)]
  BY <1>1, KeptSteps
<1>3. \A n \in 0 .. Len(s) : k[n] = Keep(s, T, k, n)
  BY <1>2
<1>4. k[0] = <<>>
  BY <1>1, <1>3 DEF Keep
<1>5. ASSUME NEW m \in 0 .. Len(s) - 1
      PROVE  k[m + 1] = IF s[m + 1] \in T THEN Append(k[m], s[m + 1]) ELSE k[m]
  <2>1. m + 1 \in 0 .. Len(s) /\ m + 1 # 0 /\ (m + 1) - 1 = m
    BY <1>1
  <2>2. k[m + 1] = Keep(s, T, k, m + 1)
    BY <1>3, <2>1
  <2> QED
    BY <2>1, <2>2 DEF Keep
<1> QED
  BY <1>2, <1>4, <1>5

\* One more element.
LEMMA AppendFacts ==
  ASSUME NEW S, NEW a \in Seq(S), NEW e \in S
  PROVE  /\ Append(a, e) \in Seq(S)
         /\ Range(Append(a, e)) = Range(a) \cup {e}
         /\ IsInjective(a) /\ e \notin Range(a) => IsInjective(Append(a, e))
<1> DEFINE b == Append(a, e)
<1>1. b \in Seq(S) /\ DOMAIN b = 1 .. Len(a) + 1 /\ DOMAIN a = 1 .. Len(a) /\ Len(a) \in Nat
      /\ b[Len(a) + 1] = e /\ \A j \in 1 .. Len(a) : b[j] = a[j]
  OBVIOUS
<1>2. 1 .. Len(a) + 1 = 1 .. Len(a) \cup {Len(a) + 1}
  BY <1>1
<1> HIDE DEF b
<1>3. Range(b) = Range(a) \cup {e}
  BY <1>1, <1>2 DEF Range
<1>4. ASSUME IsInjective(a), e \notin Range(a) PROVE IsInjective(b)
  <2>1. \A i, j \in 1 .. Len(a) : a[i] = a[j] => i = j
    BY <1>1, <1>4 DEF IsInjective
  <2>2. \A i \in 1 .. Len(a) : a[i] # e
    BY <1>1, <1>4 DEF Range
  <2>3. \A i, j \in 1 .. Len(a) + 1 : b[i] = b[j] => i = j
    BY <1>1, <2>1, <2>2
  <2> QED
    BY <1>1, <2>3 DEF IsInjective
<1> QED
  BY <1>1, <1>3, <1>4 DEF b

\* Kept has the elements of s in T, and none twice that s does not have twice.
LEMMA KeptFacts ==
  ASSUME NEW S, NEW s \in Seq(S), NEW T
  PROVE  /\ Kept(s, T) \in Seq(S)
         /\ Range(Kept(s, T)) = Range(s) \cap T
         /\ IsInjective(s) => IsInjective(Kept(s, T))
<1>1. PICK N \in Nat : N = Len(s) /\ DOMAIN s = 1 .. N /\ \A n \in 1 .. N : s[n] \in S
  OBVIOUS
<1>2. PICK k : /\ k[0] = <<>> /\ Kept(s, T) = k[N]
               /\ \A m \in 0 .. N - 1 :
                    k[m + 1] = IF s[m + 1] \in T THEN Append(k[m], s[m + 1]) ELSE k[m]
  BY <1>1, KeptChain
<1> DEFINE Upto(n) == {s[j] : j \in 1 .. n}
           P(n) == /\ k[n] \in Seq(S) /\ Range(k[n]) = Upto(n) \cap T
                   /\ IsInjective(s) => IsInjective(k[n])
           Q == {n \in 0 .. N : P(n)}
<1>3. P(0)
  <2>1. Range(<<>>) = {} /\ IsInjective(<<>>) /\ Upto(0) = {} /\ <<>> \in Seq(S)
    BY DEF Range, IsInjective
  <2> HIDE DEF Upto
  <2> QED
    BY <1>2, <2>1
<1>4. ASSUME NEW m \in 0 .. N - 1, P(m) PROVE P(m + 1)
  <2>1. m + 1 \in 1 .. N /\ s[m + 1] \in S /\ m \in Nat
    BY <1>1
  <2>2. k[m + 1] = IF s[m + 1] \in T THEN Append(k[m], s[m + 1]) ELSE k[m]
    BY <1>2
  <2>3. Upto(m + 1) = Upto(m) \cup {s[m + 1]}
    <3>1. 1 .. m + 1 = 1 .. m \cup {m + 1}
      BY <2>1
    <3> QED BY <3>1
  <2>4. IsInjective(s) => s[m + 1] \notin Upto(m)
    BY <1>1, <2>1 DEF IsInjective
  <2> HIDE DEF Upto
  <2>5. CASE s[m + 1] \notin T
    BY <1>4, <2>2, <2>3, <2>5
  <2>6. CASE s[m + 1] \in T
    BY <1>4, <2>1, <2>2, <2>3, <2>4, <2>6, AppendFacts
  <2> QED
    BY <2>5, <2>6
<1>5. N \in Q
  <2>1. 0 \in Q /\ \A m \in 0 .. N - 1 : m \in Q => m + 1 \in Q
    <3> HIDE DEF P
    <3> QED BY <1>3, <1>4
  <2> HIDE DEF Q
  <2> QED BY <2>1, BoundedInduction
<1>6. Upto(N) = Range(s)
  BY <1>1 DEF Range
<1> QED
  <2> HIDE DEF Upto
  <2> QED BY <1>2, <1>5, <1>6

LEMMA AppendAscends ==
  ASSUME NEW a \in Seq(Nat), NEW e \in Nat, Ascending(a), \A x \in Range(a) : x < e
  PROVE  Ascending(Append(a, e))
<1> DEFINE b == Append(a, e)
<1>1. DOMAIN b = 1 .. Len(a) + 1 /\ DOMAIN a = 1 .. Len(a) /\ Len(a) \in Nat
      /\ b[Len(a) + 1] = e /\ \A j \in 1 .. Len(a) : b[j] = a[j]
  OBVIOUS
<1>2. \A i, j \in 1 .. Len(a) : i < j => a[i] < a[j]
  BY <1>1 DEF Ascending
<1>3. \A i \in 1 .. Len(a) : a[i] < e
  BY <1>1 DEF Range
<1> HIDE DEF b
<1>4. \A i, j \in 1 .. Len(a) + 1 : i < j => b[i] < b[j]
  BY <1>1, <1>2, <1>3
<1> QED
  BY <1>1, <1>4 DEF Ascending, b

\* Numbers in ascending order stay in it.
LEMMA KeptAscends ==
  ASSUME NEW s \in Seq(Nat), NEW T, Ascending(s)
  PROVE  Ascending(Kept(s, T))
<1>1. PICK N \in Nat : N = Len(s) /\ DOMAIN s = 1 .. N /\ \A n \in 1 .. N : s[n] \in Nat
  OBVIOUS
<1>2. PICK k : /\ k[0] = <<>> /\ Kept(s, T) = k[N]
               /\ \A m \in 0 .. N - 1 :
                    k[m + 1] = IF s[m + 1] \in T THEN Append(k[m], s[m + 1]) ELSE k[m]
  BY <1>1, KeptChain
<1> DEFINE P(n) == /\ k[n] \in Seq(Nat) /\ Ascending(k[n])
                   /\ \A x \in Range(k[n]) : \E j \in 1 .. n : x = s[j]
           Q == {n \in 0 .. N : P(n)}
<1>3. P(0)
  <2>1. Range(<<>>) = {} /\ Ascending(<<>>) /\ <<>> \in Seq(Nat)
    BY DEF Range, Ascending
  <2> QED
    BY <1>2, <2>1
<1>4. ASSUME NEW m \in 0 .. N - 1, P(m) PROVE P(m + 1)
  <2>1. m + 1 \in 1 .. N /\ s[m + 1] \in Nat /\ m \in Nat
    BY <1>1
  <2>2. k[m + 1] = IF s[m + 1] \in T THEN Append(k[m], s[m + 1]) ELSE k[m]
    BY <1>2
  <2>3. \A j \in 1 .. m : s[j] < s[m + 1] /\ j \in 1 .. m + 1
    BY <1>1, <2>1 DEF Ascending
  <2>4. CASE s[m + 1] \notin T
    BY <1>4, <2>2, <2>3, <2>4
  <2>5. CASE s[m + 1] \in T
    <3>1. \A x \in Range(k[m]) : x < s[m + 1] /\ \E j \in 1 .. m + 1 : x = s[j]
      BY <1>4, <2>3
    <3>2. k[m + 1] = Append(k[m], s[m + 1])
      BY <2>2, <2>5
    <3>3. k[m] \in Seq(Nat) /\ Ascending(k[m])
      BY <1>4
    <3>4. k[m + 1] \in Seq(Nat) /\ Range(k[m + 1]) = Range(k[m]) \cup {s[m + 1]}
      BY <2>1, <3>2, <3>3, AppendFacts
    <3>5. Ascending(k[m + 1])
      BY <2>1, <3>1, <3>2, <3>3, AppendAscends
    <3> QED
      BY <2>1, <3>1, <3>4, <3>5
  <2> QED
    BY <2>4, <2>5
<1>5. N \in Q
  <2>1. 0 \in Q /\ \A m \in 0 .. N - 1 : m \in Q => m + 1 \in Q
    <3> HIDE DEF P
    <3> QED BY <1>3, <1>4
  <2> HIDE DEF Q
  <2> QED BY <2>1, BoundedInduction
<1> QED
  BY <1>2, <1>5

-----------------------------------------------------------------------------
(* Random and GraphPartition                                               *)

\* The vertices 0 .. c - 1, each once.
LEMMA AllVertices ==
  ASSUME NEW c \in Nat
  PROVE  /\ Vertices(0, c, 1) \in Seq(0 .. c - 1)
         /\ Range(Vertices(0, c, 1)) = 0 .. c - 1
         /\ IsInjective(Vertices(0, c, 1))
<1>1. 1 \in Nat \ {0} /\ 0 \in Nat
  OBVIOUS
<1> DEFINE s == Vertices(0, c, 1)
<1>2. /\ \A v : v \in Range(s) <=> \E i \in Nat : v = 0 + i * 1 /\ v < c
      /\ IsInjective(s)
  BY <1>1, VerticesElements
<1>3. \A v : (\E i \in Nat : v = 0 + i * 1 /\ v < c) <=> v \in 0 .. c - 1
  OBVIOUS
<1>4. Range(s) = 0 .. c - 1
  <2> HIDE DEF s
  <2> QED BY <1>2, <1>3
<1>5. PICK n \in Nat : s = [j \in 1 .. n |-> 0 + (j - 1) * 1]
  <2>1. (IF 0 < c THEN CeilDiv(c - 0, 1) ELSE 0) \in Nat
    <3>1. c - 0 = c
      OBVIOUS
    <3>2. CeilDiv(c, 1) \in Nat
      BY <1>1, QuotientUp
    <3> QED
      BY <3>1, <3>2
  <2> QED
    BY <2>1 DEF Vertices
<1> HIDE DEF s
<1>6. \A j \in 1 .. n : s[j] \in 0 .. c - 1
  BY <1>4, <1>5 DEF Range
<1>7. s \in Seq(0 .. c - 1)
  BY <1>5, <1>6
<1> QED
  BY <1>2, <1>4, <1>7 DEF s

\* The loops over all vertices collect just those f gives p, each once.
LEMMA AssignedShare ==
  ASSUME NEW c \in Nat, NEW p, NEW f
  PROVE  /\ AssignedTo(p, c, f) \in Seq(0 .. c - 1)
         /\ Range(AssignedTo(p, c, f)) = {v \in 0 .. c - 1 : f[v] = p}
         /\ IsInjective(AssignedTo(p, c, f))
<1>1. PICK T : T = {v \in 0 .. c - 1 : f[v] = p}
  OBVIOUS
<1>2. AssignedTo(p, c, f) = Kept(Vertices(0, c, 1), T)
  BY <1>1 DEF AssignedTo
<1>3. (0 .. c - 1) \cap T = T
  BY <1>1
<1>4. PICK s \in Seq(0 .. c - 1) :
        s = Vertices(0, c, 1) /\ Range(s) = 0 .. c - 1 /\ IsInjective(s)
  BY AllVertices
<1>5. /\ Kept(s, T) \in Seq(0 .. c - 1)
      /\ Range(Kept(s, T)) = (0 .. c - 1) \cap T
      /\ IsInjective(Kept(s, T))
  BY <1>4, KeptFacts
<1> QED
  BY <1>1, <1>2, <1>3, <1>4, <1>5

\* Random gives every vertex to exactly one peer, once, as long as no vertex is
\* drawn for a peer beyond the number of vertices, which takes none.
THEOREM RandomPartitions ==
  ASSUME NEW n \in Nat \ {0}, NEW c \in Nat, NEW draw \in [0 .. c - 1 -> 0 .. n - 1],
         \A v \in 0 .. c - 1 : draw[v] <= c
  PROVE  Partitioned([p \in 0 .. n - 1 |-> Random(p, c, draw)], c)
<1> DEFINE share == [p \in 0 .. n - 1 |-> Random(p, c, draw)]
<1>1. DOMAIN share = 0 .. n - 1
  OBVIOUS
<1>2. ASSUME NEW p \in 0 .. n - 1
      PROVE  Range(share[p]) = {v \in 0 .. c - 1 : draw[v] = p} /\ IsInjective(share[p])
  <2>1. CASE p <= c
    <3>1. share[p] = AssignedTo(p, c, draw)
      BY <2>1 DEF Random
    <3> HIDE DEF share
    <3> QED
      BY <3>1, AssignedShare
  <2>2. CASE ~(p <= c)
    <3>1. share[p] = <<>>
      BY <2>2 DEF Random
    <3> HIDE DEF share
    <3>2. Range(share[p]) = {} /\ IsInjective(share[p])
      BY <3>1 DEF Range, IsInjective
    <3> QED
      BY <2>2, <3>2
  <2> QED
    BY <2>1, <2>2
<1> HIDE DEF share
<1>3. ASSUME NEW v \in 0 .. c - 1
      PROVE  \E p \in DOMAIN share :
               /\ v \in Range(share[p])
               /\ \A q \in DOMAIN share : v \in Range(share[q]) => q = p
  BY <1>1, <1>2
<1>4. Partitioned(share, c)
  BY <1>1, <1>2, <1>3 DEF Partitioned
<1> QED
  BY <1>4 DEF share

\* GraphPartition gives every vertex to exactly one peer, once, if there are as
\* many parts as peers: with one part every peer takes all vertices.
THEOREM GraphPartitionPartitions ==
  ASSUME NEW n \in Nat \ {0}, NEW c \in Nat, NEW nParts, NEW part,
         PartsFit(n, nParts), \A v \in 0 .. c - 1 : part[v] \in 0 .. n - 1
  PROVE  Partitioned([p \in 0 .. n - 1 |-> GraphPartition(p, n, c, nParts, part)], c)
<1> DEFINE share == [p \in 0 .. n - 1 |-> GraphPartition(p, n, c, nParts, part)]
           one == nParts = 1 \/ (nParts = 0 /\ n = 1)
<1>1. DOMAIN share = 0 .. n - 1
  OBVIOUS
<1>2. \A p \in 0 .. n - 1 : share[p] = IF one THEN Vertices(0, c, 1) ELSE AssignedTo(p, c, part)
  BY DEF GraphPartition
<1>3. one => n = 1
  BY DEF PartsFit
<1> HIDE DEF share, one
<1>4. ASSUME NEW p \in 0 .. n - 1
      PROVE  /\ Range(share[p]) = {v \in 0 .. c - 1 : one \/ part[v] = p}
             /\ IsInjective(share[p])
  <2>1. CASE one
    BY <1>2, <2>1, AllVertices
  <2>2. CASE ~one
    BY <1>2, <2>2, AssignedShare
  <2> QED
    BY <2>1, <2>2
<1>5. ASSUME NEW v \in 0 .. c - 1
      PROVE  \E p \in DOMAIN share :
               /\ v \in Range(share[p])
               /\ \A q \in DOMAIN share : v \in Range(share[q]) => q = p
  <2>1. part[v] \in 0 .. n - 1
    OBVIOUS
  <2>2. CASE one
    <3>1. 0 .. n - 1 = {part[v]}
      BY <1>3, <2>1, <2>2
    <3> QED
      BY <1>1, <1>4, <2>1, <2>2, <3>1
  <2>3. CASE ~one
    BY <1>1, <1>4, <2>1, <2>3
  <2> QED
    BY <2>2, <2>3
<1>6. Partitioned(share, c)
  BY <1>1, <1>4, <1>5 DEF Partitioned
<1> QED
  BY <1>6 DEF share
===============================================================================
