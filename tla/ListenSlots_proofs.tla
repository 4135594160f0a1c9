-------------------------- MODULE ListenSlots_proofs --------------------------
(***************************************************************************)
(* Theorems about the preview server, for any number of slots and          *)
(* connections: the list of sockets ends, a connection has one socket,     *)
(* what it is sent is a stretch of the reply to it, unless a reset came,   *)
(* and the whole implements Replies.                                       *)
(***************************************************************************)
EXTENDS ListenSlots, FiniteSetTheorems, TLAPS

-----------------------------------------------------------------------------
(* Induction over the numbers up to n, from the fact that no finite set    *)
(* has an injection into a smaller one.                                    *)
LEMMA UpTo ==
    ASSUME NEW n \in Nat, NEW S, 0 \in S, \A i \in 0 .. n : i < n /\ i \in S => i + 1 \in S
    PROVE  0 .. n \subseteq S
<1> SUFFICES ASSUME NEW b \in 0 .. n, b \notin S PROVE FALSE
  OBVIOUS
<1> DEFINE Bad == {i \in 0 .. n : i \notin S}
           U == {j \in 0 .. n : \E i \in Bad : i <= j}
           f == [j \in U |-> j - 1]
<1>1. \A i \in Bad : i # 0 /\ i - 1 \in Bad
  OBVIOUS
<1>2. \A j \in U : j # 0 /\ j - 1 \in U /\ j - 1 # n
  <2>1. TAKE j \in U
  <2>2. PICK i \in Bad : i <= j
    OBVIOUS
  <2>3. i - 1 \in Bad /\ i - 1 <= j - 1 /\ i \in 0 .. n /\ i # 0
    BY <1>1, <2>2
  <2> QED
    BY <2>2, <2>3
<1>3. n \in U
  OBVIOUS
<1>4. IsFiniteSet(U)
  <2>1. IsFiniteSet(0 .. n)
    BY FS_Interval
  <2> QED
    BY <2>1, FS_Subset
<1>5. IsFiniteSet(U \ {n}) /\ Cardinality(U \ {n}) = Cardinality(U) - 1 /\ Cardinality(U) \in Nat
  BY <1>3, <1>4, FS_RemoveElement, FS_CardinalityType
<1>6. f \in Injection(U, U \ {n})
  <2>1. f \in [U -> U \ {n}]
    BY <1>2
  <2>2. \A j, k \in U : f[j] = f[k] => j = k
    OBVIOUS
  <2> QED
    BY <2>1, <2>2 DEF Injection, IsInjective
<1>7. Cardinality(U) <= Cardinality(U \ {n})
  <2> HIDE DEF f, U
  <2> QED BY <1>5, <1>6, FS_Injection
<1> QED
  BY <1>5, <1>7

Ends == Slots \cup {Nil}

(* What Link is defined by. *)
Hops(h, i) == IF i = 0 THEN head ELSE IF h[i - 1] = Nil THEN Nil ELSE next[h[i - 1]]

LinksTyped == head \in Ends /\ next \in [Slots -> Ends]

LEMMA LinkIs ==
    LinksTyped => Link \in [0 .. NumSlots -> Ends]
                  /\ \A i \in 0 .. NumSlots : Link[i] = Hops(Link, i)
<1> SUFFICES ASSUME LinksTyped
             PROVE  Link \in [0 .. NumSlots -> Ends]
                    /\ \A i \in 0 .. NumSlots : Link[i] = Hops(Link, i)
  OBVIOUS
<1> DEFINE P(n) == \E h \in [0 .. n -> Ends] : \A i \in 0 .. n : h[i] = Hops(h, i)
           S == {n \in 0 .. NumSlots : P(n)}
<1>1. 0 \in S
  <2> DEFINE g == [i \in 0 .. 0 |-> head]
  <2>1. g \in [0 .. 0 -> Ends] /\ \A i \in 0 .. 0 : g[i] = Hops(g, i)
    BY DEF LinksTyped, Hops
  <2>2. P(0)
    <3> HIDE DEF g
    <3> QED BY <2>1
  <2> QED
    BY <2>2, NumSlotsAssumption
<1>2. \A n \in 0 .. NumSlots : n < NumSlots /\ n \in S => n + 1 \in S
  <2> SUFFICES ASSUME NEW n \in 0 .. NumSlots, n < NumSlots, n \in S PROVE P(n + 1)
    BY NumSlotsAssumption
  <2>1. PICK h \in [0 .. n -> Ends] : \A i \in 0 .. n : h[i] = Hops(h, i)
    OBVIOUS
  <2> DEFINE g == [i \in 0 .. n + 1 |-> IF i <= n THEN h[i]
                                        ELSE IF h[n] = Nil THEN Nil ELSE next[h[n]]]
  <2>2. n \in Nat /\ h[n] \in Ends
    BY NumSlotsAssumption
  <2>3. g \in [0 .. n + 1 -> Ends]
    BY <2>2 DEF LinksTyped, Ends
  <2>4. \A i \in 0 .. n + 1 : g[i] = Hops(g, i)
    <3>1. TAKE i \in 0 .. n + 1
    <3>2. CASE i <= n
      BY <2>1, <2>2, <3>2 DEF Hops
    <3>3. CASE ~(i <= n)
      BY <2>2, <3>3 DEF Hops
    <3> QED BY <3>2, <3>3
  <2> HIDE DEF g
  <2> QED
    BY <2>3, <2>4
<1>3. NumSlots \in S
  <2> HIDE DEF S
  <2> QED BY <1>1, <1>2, NumSlotsAssumption, UpTo
<1>4. PICK h \in [0 .. NumSlots -> Ends] : \A i \in 0 .. NumSlots : h[i] = Hops(h, i)
  BY <1>3
<1>5. h = [i \in 0 .. NumSlots |-> IF i = 0 THEN head
                                    ELSE IF h[i - 1] = Nil THEN Nil ELSE next[h[i - 1]]]
  BY <1>4, SMTT(30) DEF Hops
<1>6. Link = [i \in 0 .. NumSlots |-> IF i = 0 THEN head
                                    ELSE IF Link[i - 1] = Nil THEN Nil ELSE next[Link[i - 1]]]
  BY <1>5 DEF Link
<1>7. \A i \in 0 .. NumSlots : Link[i] = Hops(Link, i)
  BY <1>6 DEF Hops
<1>8. \A i \in 0 .. NumSlots : Link[i] \in Ends
  <2> DEFINE T == {i \in 0 .. NumSlots : Link[i] \in Ends}
  <2>1. 0 \in T
    BY <1>7, NumSlotsAssumption DEF Hops, LinksTyped
  <2>2. \A i \in 0 .. NumSlots : i < NumSlots /\ i \in T => i + 1 \in T
    BY <1>7, NumSlotsAssumption DEF Hops, LinksTyped, Ends
  <2> HIDE DEF T
  <2>3. 0 .. NumSlots \subseteq T
    BY <2>1, <2>2, NumSlotsAssumption, UpTo
  <2> QED
    BY <2>3 DEF T
<1> QED
  BY <1>6, <1>7, <1>8
-----------------------------------------------------------------------------
(* The sockets of the list in their order: q is the chain from h on.       *)
Chain(q, h, n) ==
    /\ q \in Seq(Slots)
    /\ \A i, j \in DOMAIN q : q[i] = q[j] => i = j
    /\ h = IF q = <<>> THEN Nil ELSE q[1]
    /\ \A i \in DOMAIN q : n[q[i]] = IF i < Len(q) THEN q[i + 1] ELSE Nil

Members(q) == {q[i] : i \in DOMAIN q}

ListInv == LinksTyped /\ \E q : Chain(q, head, next)

LEMMA HowMany == \A n \in Nat : IsFiniteSet(1 .. n) /\ Cardinality(1 .. n) = n
BY FS_Interval

(* A chain has no more sockets than there are slots. *)
LEMMA ChainIsShort ==
    ASSUME NEW q \in Seq(Slots), \A i, j \in DOMAIN q : q[i] = q[j] => i = j
    PROVE  Len(q) <= NumSlots
<1>1. IsFiniteSet(Slots) /\ Cardinality(Slots) = NumSlots
  BY FS_Interval, NumSlotsAssumption DEF Slots
<1>2. q \in Injection(1 .. Len(q), Slots)
  BY DEF Injection, IsInjective
<1>3. Len(q) \in Nat /\ Cardinality(1 .. Len(q)) = Len(q)
  <2>1. Len(q) \in Nat
    OBVIOUS
  <2> QED
    BY <2>1, HowMany
<1> QED
  BY <1>1, <1>2, <1>3, FS_Injection

(* Following the links from the head visits the chain, and then ends. *)
ChainsThread ==
    \A q : LinksTyped /\ Chain(q, head, next) =>
        Threaded = Members(q) /\ Threaded \subseteq Slots /\ ListEnds

LEMMA ChainIsThreaded == ChainsThread
<1> SUFFICES ASSUME NEW q, LinksTyped, Chain(q, head, next)
             PROVE  Threaded = Members(q) /\ Threaded \subseteq Slots /\ ListEnds
  BY DEF ChainsThread
<1>0. q \in Seq(Slots) /\ Len(q) \in Nat /\ Len(q) <= NumSlots /\ NumSlots \in Nat
  BY ChainIsShort, NumSlotsAssumption DEF Chain
<1>a. \A i \in DOMAIN q : q[i] \in Slots /\ q[i] # Nil
  BY <1>0 DEF Slots, Nil
<1>1. \A i \in 0 .. NumSlots : Link[i] = IF i < Len(q) THEN q[i + 1] ELSE Nil
  <2> DEFINE E(i) == IF i < Len(q) THEN q[i + 1] ELSE Nil
             T == {i \in 0 .. NumSlots : Link[i] = E(i)}
  <2>1. 0 \in T
    BY <1>0, LinkIs DEF Hops, Chain
  <2>2. \A i \in 0 .. NumSlots : i < NumSlots /\ i \in T => i + 1 \in T
    <3> SUFFICES ASSUME NEW i \in 0 .. NumSlots, i < NumSlots, Link[i] = E(i)
                 PROVE  Link[i + 1] = E(i + 1)
      BY <1>0
    <3>1. Link[i + 1] = IF Link[i] = Nil THEN Nil ELSE next[Link[i]]
      <4>1. i + 1 \in 0 .. NumSlots /\ i + 1 # 0 /\ (i + 1) - 1 = i
        BY <1>0
      <4>2. Link[i + 1] = Hops(Link, i + 1)
        BY <4>1, LinkIs
      <4> QED
        BY <4>1, <4>2 DEF Hops
    <3>2. CASE i < Len(q)
      <4>1. Link[i] = q[i + 1] /\ i + 1 \in DOMAIN q
        BY <1>0, <3>2
      <4>2. next[q[i + 1]] = IF i + 1 < Len(q) THEN q[i + 1 + 1] ELSE Nil
        BY <4>1 DEF Chain
      <4> QED
        BY <1>a, <3>1, <4>1, <4>2
    <3>3. CASE ~(i < Len(q))
      BY <1>0, <3>1, <3>3
    <3> QED
      BY <3>2, <3>3
  <2> HIDE DEF T
  <2>3. 0 .. NumSlots \subseteq T
    BY <2>1, <2>2, <1>0, UpTo
  <2> QED
    BY <2>3 DEF T
<1>2. Threaded = Members(q)
  <2>1. ASSUME NEW i \in DOMAIN q PROVE q[i] \in Threaded
    <3>1. i - 1 \in 0 .. NumSlots /\ Link[i - 1] = q[i]
      BY <1>0, <1>1
    <3> QED
      BY <1>a, <3>1 DEF Threaded
  <2>2. ASSUME NEW s \in Threaded PROVE s \in Members(q)
    <3>1. PICK i \in 0 .. NumSlots : s = Link[i] /\ s # Nil
      BY DEF Threaded
    <3>2. i < Len(q) /\ s = q[i + 1] /\ i + 1 \in DOMAIN q
      BY <1>0, <1>1, <3>1
    <3> QED
      BY <3>2 DEF Members
  <2> QED
    BY <2>1, <2>2 DEF Members
<1>3. ListEnds
  BY <1>0, <1>1 DEF ListEnds
<1> QED
  BY <1>2, <1>3, <1>a DEF Members

LEMMA ChainIsThreadedNext == ChainsThread'
BY ChainIsThreaded, PTL

(* _tcp_unthread, for a socket that is in the chain and for one that isn't. *)
LEMMA UnlinkOther ==
    ASSUME LinksTyped, NEW q, Chain(q, head, next), NEW n, NEW s \in Slots, s \notin Members(q)
    PROVE  Unlink(head, n, s) = <<head, n>>
<1>0. q \in Seq(Slots) /\ Threaded = Members(q) /\ s # Nil
  BY ChainIsThreaded DEF ChainsThread, Chain, Slots, Nil
<1>1. s # head /\ s \notin Threaded
  BY <1>0 DEF Chain, Members
<1> QED
  BY <1>1 DEF Unlink

LEMMA UnlinkMember ==
    ASSUME LinksTyped, NEW q, Chain(q, head, next), NEW n, NEW s \in Slots,
           NEW k \in DOMAIN q, q[k] = s
    PROVE  /\ k = 1 => Unlink(head, n, s) = <<n[s], n>>
           /\ k # 1 => Unlink(head, n, s) = <<head, [n EXCEPT ![q[k - 1]] = n[s]]>>
<1>0. q \in Seq(Slots) /\ Threaded = Members(q) /\ s # Nil
  BY ChainIsThreaded DEF ChainsThread, Chain, Slots, Nil
<1>1. CASE k = 1
  <2>1. s = head
    BY <1>0, <1>1 DEF Chain
  <2> QED
    BY <1>1, <2>1 DEF Unlink
<1>2. CASE k # 1
  <2>1. 1 \in DOMAIN q /\ k - 1 \in DOMAIN q /\ k - 1 < Len(q) /\ k - 1 + 1 = k
    BY <1>0, <1>2
  <2>2. head = q[1] /\ s # head
    BY <1>0, <1>2, <2>1 DEF Chain
  <2>3. next[q[k - 1]] = s /\ q[k - 1] \in Threaded /\ s \in Threaded
    BY <1>0, <2>1 DEF Chain, Members
  <2>4. ASSUME NEW p \in Threaded, next[p] = s PROVE p = q[k - 1]
    <3>1. PICK j \in DOMAIN q : p = q[j]
      BY <1>0 DEF Members
    <3>2. j < Len(q) /\ q[j + 1] = s /\ j + 1 \in DOMAIN q
      BY <1>0, <2>4, <3>1 DEF Chain
    <3>3. j + 1 = k
      BY <3>2 DEF Chain
    <3> QED
      BY <3>1, <3>3, <1>0
  <2>5. (CHOOSE p \in Threaded : next[p] = s) = q[k - 1]
    BY <2>3, <2>4
  <2> QED
    BY <1>2, <2>2, <2>3, <2>5 DEF Unlink
<1> QED
  BY <1>1, <1>2

(* A socket that is made to listen again is first in the list, and no      *)
(* socket comes in besides.                                                *)
LEMMA RelistChain ==
    ASSUME ListInv, NEW s \in Slots, Relist(s)
    PROVE  ListInv' /\ ListEnds' /\ Threaded' \subseteq Threaded \cup {s}
<1>1. PICK q : Chain(q, head, next)
  BY DEF ListInv
<1>2. /\ LinksTyped /\ q \in Seq(Slots) /\ Len(q) \in Nat /\ Threaded = Members(q)
      /\ s # Nil /\ Nil \in Ends /\ s \in Ends /\ Slots \subseteq Ends
  BY <1>1, ChainIsThreaded DEF ChainsThread, ListInv, Chain, Slots, Nil, Ends
<1> DEFINE n == [next EXCEPT ![s] = Nil]
<1>3. n \in [Slots -> Ends] /\ n[s] = Nil
  BY <1>2 DEF LinksTyped
<1>4. head' = s /\ next' = [Unlink(head, n, s)[2] EXCEPT ![s] = Unlink(head, n, s)[1]]
  BY DEF Relist
<1>5. PICK k \in 1 .. Len(q) + 1 : /\ k <= Len(q) => q[k] = s
                                   /\ k = Len(q) + 1 => s \notin Members(q)
  <2>1. CASE s \in Members(q)
    BY <1>2, <2>1 DEF Members
  <2>2. CASE s \notin Members(q)
    BY <1>2, <2>2
  <2> QED
    BY <2>1, <2>2
<1> DEFINE r == [i \in 1 .. k |-> IF i = 1 THEN s ELSE q[i - 1]]
<1>6. r \in Seq(Slots) /\ Len(r) = k /\ DOMAIN r = 1 .. k
  BY <1>2, <1>5
<1>7. ASSUME NEW i \in 2 .. k
      PROVE  q[i - 1] # s /\ q[i - 1] \in Slots /\ i - 1 \in DOMAIN q
  <2>1. i - 1 \in DOMAIN q /\ i - 1 # k /\ q[i - 1] \in Slots
    BY <1>2
  <2>2. CASE k <= Len(q)
    BY <1>1, <1>2, <1>5, <2>1, <2>2 DEF Chain
  <2>3. CASE ~(k <= Len(q))
    BY <1>2, <1>5, <2>1, <2>3 DEF Members
  <2> QED
    BY <2>1, <2>2, <2>3
<1>8. /\ next' \in [Slots -> Ends]
      /\ next'[s] = IF k = 1 THEN Nil ELSE q[1]
      /\ \A i \in 2 .. k : next'[q[i - 1]] = IF i < k THEN q[i] ELSE Nil
  <2>1. CASE k <= Len(q) /\ k = 1
    <3>0. k \in DOMAIN q /\ q[k] = s
      BY <1>2, <1>5, <2>1
    <3> HIDE DEF n
    <3>1. Unlink(head, n, s) = <<Nil, n>>
      BY <1>1, <1>2, <1>3, <2>1, <3>0, UnlinkMember
    <3> QED
      BY <1>2, <1>3, <1>4, <2>1, <3>1
  <2>2. CASE k <= Len(q) /\ k # 1
    <3>0. k \in DOMAIN q /\ q[k] = s
      BY <1>2, <1>5, <2>2
    <3> HIDE DEF n
    <3>1. Unlink(head, n, s) = <<head, [n EXCEPT ![q[k - 1]] = Nil]>>
      BY <1>1, <1>2, <1>3, <2>2, <3>0, UnlinkMember
    <3>2. head = q[1] /\ head \in Ends /\ q[k - 1] \in Slots /\ q[k - 1] # s
      BY <1>1, <1>2, <1>7, <2>2 DEF Chain, LinksTyped
    <3>3. next' = [x \in Slots |-> IF x = s THEN q[1]
                                   ELSE IF x = q[k - 1] THEN Nil ELSE next[x]]
      <4>1. next' = [[n EXCEPT ![q[k - 1]] = Nil] EXCEPT ![s] = q[1]]
        BY <1>4, <3>1, <3>2
      <4> QED
        BY <1>2, <1>3, <3>2, <4>1 DEF LinksTyped, n
    <3>4. ASSUME NEW i \in 2 .. k PROVE next'[q[i - 1]] = IF i < k THEN q[i] ELSE Nil
      <4>1. CASE i = k
        BY <1>2, <1>7, <3>2, <3>3, <4>1 DEF LinksTyped
      <4>2. CASE i < k
        <5>1. q[i - 1] # q[k - 1] /\ next[q[i - 1]] = q[i]
          BY <1>1, <1>2, <1>7, <2>2, <4>2 DEF Chain
        <5> QED
          BY <1>2, <1>7, <3>2, <3>3, <4>2, <5>1 DEF LinksTyped
      <4> QED
        BY <4>1, <4>2
    <3> QED
      BY <1>2, <2>2, <3>2, <3>3, <3>4 DEF LinksTyped
  <2>3. CASE k = Len(q) + 1
    <3> HIDE DEF n
    <3>1. Unlink(head, n, s) = <<head, n>>
      BY <1>1, <1>2, <1>3, <1>5, <2>3, UnlinkOther
    <3>2. /\ next' = [x \in Slots |-> IF x = s THEN head ELSE next[x]]
          /\ head \in Ends
      <4>1. next' = [n EXCEPT ![s] = head]
        BY <1>4, <3>1
      <4> QED
        BY <1>2, <1>3, <4>1 DEF LinksTyped, n
    <3>3. ASSUME NEW i \in 2 .. k PROVE next'[q[i - 1]] = IF i < k THEN q[i] ELSE Nil
      <4>1. next[q[i - 1]] = IF i - 1 < Len(q) THEN q[i - 1 + 1] ELSE Nil
        BY <1>1, <1>7 DEF Chain
      <4> QED
        BY <1>2, <1>7, <2>3, <3>2, <4>1 DEF LinksTyped
    <3>4. head = IF k = 1 THEN Nil ELSE q[1]
      BY <1>1, <1>2, <2>3 DEF Chain
    <3> QED
      BY <1>2, <3>2, <3>3, <3>4 DEF LinksTyped
  <2> QED
    BY <1>2, <1>5, <2>1, <2>2, <2>3
<1>9. Chain(r, head', next')
  <2>1. \A i, j \in DOMAIN r : r[i] = r[j] => i = j
    BY <1>1, <1>2, <1>6, <1>7 DEF Chain
  <2>2. r # <<>> /\ r[1] = s
    BY <1>5, <1>6
  <2>3. ASSUME NEW i \in DOMAIN r
        PROVE  next'[r[i]] = IF i < Len(r) THEN r[i + 1] ELSE Nil
    <3>1. CASE i = 1
      BY <1>5, <1>6, <1>8, <2>2, <3>1
    <3>2. CASE i # 1
      <4>1. i \in 2 .. k /\ r[i] = q[i - 1] /\ (i < k => r[i + 1] = q[i])
        BY <1>2, <1>6, <3>2
      <4> QED
        BY <1>6, <1>8, <4>1
    <3> QED
      BY <3>1, <3>2
  <2> QED
    BY <1>4, <1>6, <2>1, <2>2, <2>3 DEF Chain
<1>10. LinksTyped'
  BY <1>2, <1>4, <1>8 DEF LinksTyped
<1> HIDE DEF r
<1>11. Threaded' = Members(r) /\ ListEnds'
  BY <1>9, <1>10, ChainIsThreadedNext DEF ChainsThread
<1>12. Members(r) \subseteq Members(q) \cup {s}
  BY <1>2, <1>6, <1>7 DEF Members, r
<1> QED
  BY <1>2, <1>9, <1>10, <1>11, <1>12 DEF ListInv

LEMMA MoreThanOne == \A n \in Nat : \A k \in 1 .. n : n # 1 => n > 1
OBVIOUS

(* A socket that is dropped leaves the list, and the others stay.          *)
LEMMA DropChain ==
    ASSUME ListInv, NEW s \in Slots, Drop(s)
    PROVE  ListInv' /\ ListEnds' /\ Threaded' = Threaded \ {s}
<1>1. PICK q : Chain(q, head, next)
  BY DEF ListInv
<1>2. /\ LinksTyped /\ q \in Seq(Slots) /\ Len(q) \in Nat /\ Threaded = Members(q)
      /\ s # Nil /\ Nil \in Ends /\ s \in Ends /\ Slots \subseteq Ends
  BY <1>1, ChainIsThreaded DEF ChainsThread, ListInv, Chain, Slots, Nil, Ends
<1>3. head' = Unlink(head, next, s)[1] /\ next' = Unlink(head, next, s)[2]
  BY DEF Drop
<1>4. CASE s \notin Members(q)
  <2>1. head' = head /\ next' = next
    BY <1>1, <1>2, <1>3, <1>4, UnlinkOther DEF LinksTyped
  <2>2. Chain(q, head', next') /\ LinksTyped'
    BY <1>1, <1>2, <2>1 DEF LinksTyped
  <2> QED
    BY <1>2, <1>4, <2>2, ChainIsThreadedNext DEF ChainsThread, ListInv
<1>5. CASE s \in Members(q)
  <2>1. PICK k \in DOMAIN q : q[k] = s
    BY <1>5 DEF Members
  <2> DEFINE r == [i \in 1 .. Len(q) - 1 |-> IF i < k THEN q[i] ELSE q[i + 1]]
  <2>2. k \in 1 .. Len(q) /\ r \in Seq(Slots) /\ Len(r) = Len(q) - 1
        /\ DOMAIN r = 1 .. Len(q) - 1
    BY <1>2
  <2>3. next[s] = (IF k < Len(q) THEN q[k + 1] ELSE Nil) /\ next[s] \in Ends
    BY <1>1, <1>2, <2>1 DEF Chain, LinksTyped
  <2>4. /\ LinksTyped'
        /\ head' = IF k = 1 THEN next[s] ELSE q[1]
        /\ \A i \in DOMAIN q \ {k} : next'[q[i]] = IF i = k - 1 THEN next[s] ELSE next[q[i]]
    <3>1. CASE k = 1
      <4>0. Unlink(head, next, s) = <<next[s], next>>
        BY <1>1, <1>2, <2>1, <3>1, UnlinkMember
      <4>1. head' = next[s] /\ next' = next
        BY <1>3, <4>0
      <4> QED
        BY <1>2, <2>2, <2>3, <3>1, <4>1 DEF LinksTyped
    <3>2. CASE k # 1
      <4>1. Unlink(head, next, s) = <<head, [next EXCEPT ![q[k - 1]] = next[s]]>>
        BY <1>1, <1>2, <2>1, <3>2, UnlinkMember DEF LinksTyped
      <4>2. head' = head /\ next' = [next EXCEPT ![q[k - 1]] = next[s]]
        BY <1>3, <4>1
      <4>3. head = q[1] /\ k - 1 \in DOMAIN q /\ q[k - 1] \in Slots
        BY <1>1, <1>2, <2>2, <3>2 DEF Chain
      <4>4. \A i \in DOMAIN q : q[i] \in Slots /\ (q[i] = q[k - 1] => i = k - 1)
        BY <1>1, <1>2, <4>3 DEF Chain
      <4> QED
        BY <1>2, <2>3, <3>2, <4>2, <4>3, <4>4 DEF LinksTyped
    <3> QED
      BY <3>1, <3>2
  <2>5. Chain(r, head', next')
    <3>1. \A i, j \in DOMAIN r : r[i] = r[j] => i = j
      BY <1>1, <1>2, <2>2 DEF Chain
    <3>2. head' = IF r = <<>> THEN Nil ELSE r[1]
      <4>1. CASE Len(q) = 1
        <5>1. k = 1 /\ r = <<>>
          BY <1>2, <2>2, <4>1
        <5> QED
          BY <2>3, <2>4, <4>1, <5>1
      <4>2. CASE Len(q) # 1
        <5>1. r # <<>> /\ r[1] = (IF k = 1 THEN q[2] ELSE q[1]) /\ Len(q) > 1
          <6>1. Len(q) > 1
            BY <1>2, <2>2, <4>2, MoreThanOne
          <6>2. 1 \in 1 .. Len(q) - 1 /\ 1 + 1 = 2
            BY <1>2, <6>1
          <6>3. r[1] = IF 1 < k THEN q[1] ELSE q[2]
            BY <6>2
          <6>4. Len(q) - 1 # 0 /\ Len(r) = Len(q) - 1
            BY <1>2, <2>2, <6>1
          <6>5. r # <<>>
            <7> HIDE DEF r
            <7> QED BY <2>2, <6>4
          <6>6. 1 < k <=> k # 1
            BY <2>2
          <6> QED
            BY <6>1, <6>3, <6>5, <6>6
        <5> QED
          BY <2>2, <2>3, <2>4, <5>1
      <4> QED BY <4>1, <4>2
    <3>3. ASSUME NEW i \in DOMAIN r
          PROVE  next'[r[i]] = IF i < Len(r) THEN r[i + 1] ELSE Nil
      <4>0. \A j \in DOMAIN q : next[q[j]] = IF j < Len(q) THEN q[j + 1] ELSE Nil
        BY <1>1 DEF Chain
      <4>1. CASE i < k
        <5>1. r[i] = q[i] /\ i \in DOMAIN q \ {k}
          BY <1>2, <2>2, <4>1
        <5>2. CASE i = k - 1
          <6>1. next'[r[i]] = IF k < Len(q) THEN q[k + 1] ELSE Nil
            BY <2>3, <2>4, <5>1, <5>2
          <6>2. i < Len(r) <=> k < Len(q)
            BY <1>2, <2>2, <5>2
          <6>3. i < Len(r) => r[i + 1] = q[k + 1]
            BY <1>2, <2>2, <5>2
          <6> QED
            BY <6>1, <6>2, <6>3
        <5>3. CASE i # k - 1
          <6>1. next'[r[i]] = IF i < Len(q) THEN q[i + 1] ELSE Nil
            BY <2>4, <4>0, <5>1, <5>3
          <6>2. i < Len(q) /\ i < Len(r) /\ i + 1 \in DOMAIN r /\ i + 1 < k
            BY <1>2, <2>2, <4>1, <5>3
          <6>3. r[i + 1] = q[i + 1]
            BY <6>2
          <6> QED
            BY <6>1, <6>2, <6>3
        <5> QED
          BY <5>2, <5>3
      <4>2. CASE ~(i < k)
        <5>1. r[i] = q[i + 1] /\ i + 1 \in DOMAIN q \ {k} /\ i + 1 # k - 1
          BY <1>2, <2>2, <4>2
        <5>2. next'[r[i]] = IF i + 1 < Len(q) THEN q[i + 1 + 1] ELSE Nil
          BY <2>4, <4>0, <5>1
        <5> QED
          BY <1>2, <2>2, <4>2, <5>2
      <4> QED
        BY <4>1, <4>2
    <3> QED
      BY <2>2, <3>1, <3>2, <3>3 DEF Chain
  <2> HIDE DEF r
  <2>6. Threaded' = Members(r) /\ ListEnds'
    BY <2>4, <2>5, ChainIsThreadedNext DEF ChainsThread
  <2>7. Members(r) = Members(q) \ {s}
    <3> USE DEF r
    <3>1. Members(r) \subseteq Members(q) \ {s}
      BY <1>1, <1>2, <2>1, <2>2 DEF Members, Chain
    <3>2. ASSUME NEW i \in DOMAIN q, q[i] # s PROVE q[i] \in Members(r)
      <4>1. CASE i < k
        <5>1. i \in DOMAIN r /\ r[i] = q[i]
          BY <1>2, <2>2, <4>1
        <5> QED BY <5>1 DEF Members
      <4>2. CASE ~(i < k)
        <5>1. i - 1 \in DOMAIN r /\ r[i - 1] = q[i]
          BY <1>2, <2>1, <2>2, <3>2, <4>2
        <5> QED BY <5>1 DEF Members
      <4> QED BY <4>1, <4>2
    <3> QED
      BY <3>1, <3>2 DEF Members
  <2> QED
    BY <1>2, <2>4, <2>5, <2>6, <2>7 DEF ListInv
<1> QED
  BY <1>4, <1>5

-----------------------------------------------------------------------------
(* The inductive invariant.                                                *)
Socket == [state : States, peer : Conns \cup {None}, live : BOOLEAN,
           rx : Conns \cup {None}, got : BOOLEAN, acked : Nat, own : BOOLEAN]

Segments == Conns \X (1 .. Units)

CoreTypes ==
    /\ tcb \in [Slots -> Socket] /\ lost \in Nat
    /\ client \in Ends
    /\ pc \in {"poll", "accept", "recv", "send", "close", "ending", "stopped"}
    /\ job \in Conns \cup {None} /\ left \in 0 .. Units
    /\ said \in [Conns -> SUBSET {"syn", "ack", "req", "fin", "rst"}]
    /\ stream \in [Conns -> Seq(Segments)]

Owners == {s \in Slots : tcb[s].own}
BuffersInv == lost + Cardinality(Owners) <= Buffers

WasReset(c) == "rst" \in said[c]

(* A connection was once through its handshake. *)
Active(s) == tcb[s].state = "ESTAB"
Started(c) == stream[c] # <<>> \/ \E s \in Slots : tcb[s].peer = c /\ Active(s)

SocketInv == \A s \in Slots :
    /\ tcb[s].peer = None <=> tcb[s].state = "LISTEN"
    /\ ~tcb[s].live => tcb[s].state = "CLOSED" /\ s \notin Threaded
    /\ tcb[s].rx # None => tcb[s].rx = tcb[s].peer \/ WasReset(tcb[s].rx)

(* Who is served, and for whom. *)
ClientInv ==
    /\ pc \in {"recv", "send", "close"} <=> client # Nil
    /\ pc \notin {"send", "close"} => job = None
    /\ pc = "send" => job # None
    /\ job # None => tcb[client].peer = job \/ WasReset(job)

(* A connection that has once started never again begins a handshake on a  *)
(* socket of the list, and has one established socket at most.             *)
OnceInv ==
    /\ \A c \in Conns : Started(c) =>
          /\ "ack" \in said[c]
          /\ \A s \in Threaded : tcb[s].peer = c => tcb[s].state # "SYNREC"
    /\ \A s, t \in Slots : Active(s) /\ Active(t) /\ tcb[s].peer = tcb[t].peer => s = t

(* Only the client's socket can be written to once something was written,  *)
(* and what follows is the segment after the last one.                     *)
WriteInv == \A c \in Conns : \A s \in Slots :
    stream[c] # <<>> /\ tcb[s].peer = c /\ tcb[s].state = "ESTAB" =>
        /\ s = client /\ pc \in {"send", "close"}
        /\ stream[c][Len(stream[c])] = <<job, left + 1>>

Core == /\ CoreTypes /\ ListInv /\ BuffersInv /\ SocketInv /\ ClientInv /\ OnceInv /\ WriteInv
        /\ OneSocketPerPeer /\ StretchOfOneReply /\ MixedOnlyAfterReset

(* What does not change with the list. *)
LEMMA SameList ==
    ASSUME UNCHANGED <<head, next>>
    PROVE  Threaded' = Threaded /\ Link' = Link /\ (ListInv => ListInv')
BY DEF Threaded, Link, ListInv, LinksTyped

LEMMA InSlots == ListInv => Threaded \subseteq Slots
BY ChainIsThreaded DEF ChainsThread, ListInv

LEMMA SlotsFinite == IsFiniteSet(Slots)
BY FS_Interval, NumSlotsAssumption DEF Slots

LEMMA OwnersCount ==
    ASSUME NEW S \in SUBSET Slots
    PROVE  /\ IsFiniteSet(S) /\ Cardinality(S) \in Nat
           /\ \A s : Cardinality(S \cup {s}) = IF s \in S THEN Cardinality(S) ELSE Cardinality(S) + 1
           /\ \A s : Cardinality(S \ {s}) = IF s \in S THEN Cardinality(S) - 1 ELSE Cardinality(S)
           /\ \A T \in SUBSET S : Cardinality(T) <= Cardinality(S)
BY SlotsFinite, FS_Subset, FS_CardinalityType, FS_AddElement, FS_RemoveElement

(* One socket changes, and no other gets into the list. *)
LEMMA SetCore ==
    ASSUME Core, NEW s \in Slots, NEW b \in Socket, tcb' = [tcb EXCEPT ![s] = b],
           ListInv', Threaded' \subseteq Threaded,
           UNCHANGED <<lost, client, pc, job, left, said, stream>>,
           b.peer = None <=> b.state = "LISTEN",
           ~b.live => b.state = "CLOSED" /\ s \notin Threaded',
           b.rx # None => b.rx = b.peer \/ WasReset(b.rx),
           b.peer = tcb[s].peer \/ (b.peer = None /\ WasReset(tcb[s].peer)),
           b.state = "ESTAB" => \/ tcb[s].state = "ESTAB"
                                \/ s \in Threaded /\ "ack" \in said[b.peer] /\ ~Started(b.peer),
           b.state = "SYNREC" => tcb[s].state = "SYNREC",
           b.own => tcb[s].own \/ Allocated < Buffers
    PROVE  Core'
<1>1. /\ tcb' \in [Slots -> Socket] /\ tcb'[s] = b /\ \A t \in Slots \ {s} : tcb'[t] = tcb[t]
      /\ tcb \in [Slots -> Socket] /\ b.peer \in Conns \cup {None}
      /\ Threaded \subseteq Slots
  BY InSlots DEF Core, CoreTypes, Socket
<1>2. CoreTypes'
  BY <1>1 DEF Core, CoreTypes
<1>3. BuffersInv'
  <2>1. Owners \in SUBSET Slots /\ Owners' \in SUBSET Slots /\ Owners' \subseteq Owners \cup {s}
        /\ (s \in Owners' => b.own) /\ (s \in Owners <=> tcb[s].own)
    BY <1>1 DEF Owners
  <2>2. Cardinality(Owners) \in Nat /\ Cardinality(Owners') \in Nat /\ lost \in Nat /\ Buffers \in Nat
    BY <2>1, OwnersCount, SizesAssumption DEF Core, CoreTypes
  <2>3. CASE s \in Owners' /\ s \notin Owners
    <3>1. lost + Cardinality(Owners) < Buffers
      BY <2>1, <2>3 DEF Allocated, Owners
    <3>2. Cardinality(Owners \cup {s}) = Cardinality(Owners) + 1
      BY <2>1, <2>3, OwnersCount
    <3>3. Cardinality(Owners') <= Cardinality(Owners \cup {s})
      BY <2>1, OwnersCount
    <3> QED
      BY <2>2, <3>1, <3>2, <3>3 DEF BuffersInv
  <2>4. CASE ~(s \in Owners' /\ s \notin Owners)
    <3>1. Owners' \subseteq Owners
      BY <2>1, <2>4
    <3>2. Cardinality(Owners') <= Cardinality(Owners)
      BY <2>1, <3>1, OwnersCount
    <3> QED
      BY <2>2, <3>2 DEF BuffersInv, Core
  <2> QED
    BY <2>3, <2>4
<1>4. SocketInv'
  BY <1>1 DEF Core, SocketInv, WasReset
<1>5. ClientInv'
  <2>1. ASSUME job # None PROVE tcb'[client].peer = job \/ WasReset(job)
    <3>1. client \in Slots
      BY <2>1 DEF Core, CoreTypes, ClientInv, Ends
    <3> QED
      BY <1>1, <2>1, <3>1 DEF Core, ClientInv
  <2> QED
    BY <2>1 DEF Core, ClientInv, WasReset
<1>6. \A t \in Slots, c \in Conns : tcb'[t].peer = c /\ Active(t)' =>
          \/ tcb[t].peer = c /\ Active(t)
          \/ t = s /\ s \in Threaded /\ "ack" \in said[c] /\ ~Started(c) /\ tcb[s].peer = c
  BY <1>1, NoneAssumption DEF Active
<1>7. OnceInv'
  <2>1. ASSUME NEW c \in Conns, Started(c)'
        PROVE  /\ "ack" \in said[c]
               /\ \A t \in Threaded' : tcb'[t].peer = c => tcb'[t].state # "SYNREC"
    <3>1. ASSUME NEW t \in Threaded', tcb'[t].peer = c, tcb'[t].state = "SYNREC"
          PROVE  t \in Threaded /\ t \in Slots /\ tcb[t].peer = c /\ tcb[t].state = "SYNREC"
      BY <1>1, <3>1, NoneAssumption
    <3>2. CASE Started(c)
      BY <3>1, <3>2 DEF Core, OnceInv
    <3>3. CASE ~Started(c)
      <4>1. stream[c] = <<>>
        BY <3>3 DEF Started
      <4>2. PICK t \in Slots : tcb'[t].peer = c /\ Active(t)'
        BY <2>1, <4>1 DEF Started
      <4>3. t = s /\ s \in Threaded /\ "ack" \in said[c] /\ tcb[s].peer = c
        BY <1>6, <3>3, <4>2 DEF Started
      <4>4. ASSUME NEW x \in Threaded', tcb'[x].peer = c, tcb'[x].state = "SYNREC" PROVE FALSE
        <5>1. x = s
          BY <3>1, <4>3, <4>4, NoneAssumption DEF Core, OneSocketPerPeer
        <5> QED
          BY <4>2, <4>3, <4>4, <5>1 DEF Active
      <4> QED
        BY <4>3, <4>4
    <3> QED
      BY <3>2, <3>3
  <2>2. ASSUME NEW t \in Slots, NEW u \in Slots, Active(t)', Active(u)', tcb'[t].peer = tcb'[u].peer
        PROVE  t = u
    <3>1. tcb'[t].peer \in Conns
      <4>1. tcb'[t] \in Socket /\ tcb'[t].peer # None
        BY <1>1, <1>4, <2>2 DEF Active, SocketInv
      <4> QED
        BY <4>1 DEF Socket
    <3>2. (tcb[t].peer = tcb'[t].peer /\ Active(t)) \/ (t = s /\ ~Started(tcb'[t].peer))
      BY <1>6, <2>2, <3>1
    <3>3. (tcb[u].peer = tcb'[t].peer /\ Active(u)) \/ (u = s /\ ~Started(tcb'[t].peer))
      BY <1>6, <2>2, <3>1
    <3> QED
      BY <3>1, <3>2, <3>3 DEF Core, OnceInv, Started
  <2> QED
    BY <2>1, <2>2 DEF OnceInv
<1>8. WriteInv'
  <2> SUFFICES ASSUME NEW c \in Conns, NEW t \in Slots,
                      stream[c] # <<>>, tcb'[t].peer = c, tcb'[t].state = "ESTAB"
               PROVE  /\ t = client /\ pc \in {"send", "close"}
                      /\ stream[c][Len(stream[c])] = <<job, left + 1>>
    BY DEF WriteInv
  <2>1. tcb[t].peer = c /\ Active(t)
    BY <1>6 DEF Active, Started
  <2> QED
    BY <2>1 DEF Core, WriteInv, Active
<1>9. OneSocketPerPeer'
  BY <1>1 DEF Core, OneSocketPerPeer
<1>10. StretchOfOneReply' /\ MixedOnlyAfterReset'
  BY DEF Core, StretchOfOneReply, MixedOnlyAfterReset
<1> QED
  BY <1>2, <1>3, <1>4, <1>5, <1>7, <1>8, <1>9, <1>10 DEF Core

(* A socket that is over or given up is dropped. *)
LEMMA DropCore ==
    ASSUME Core, NEW s \in Slots, Drop(s), tcb[s].state # "LISTEN",
           UNCHANGED <<client, pc, job, left, said, stream>>
    PROVE  Core'
<1> DEFINE b == [tcb[s] EXCEPT !.state = "CLOSED", !.live = FALSE, !.own = FALSE]
<1>1. tcb \in [Slots -> Socket] /\ tcb[s] \in Socket
  BY DEF Core, CoreTypes
<1>2. /\ b \in Socket /\ b.state = "CLOSED" /\ ~b.live /\ ~b.own
      /\ b.peer = tcb[s].peer /\ b.rx = tcb[s].rx
  BY <1>1 DEF Socket, States
<1>3. tcb' = [tcb EXCEPT ![s] = b] /\ lost' = lost
  BY <1>1 DEF Drop
<1>4. ListInv' /\ Threaded' = Threaded \ {s}
  BY DropChain DEF Core
<1>5. b.peer # None /\ (b.rx # None => b.rx = b.peer \/ WasReset(b.rx))
  BY <1>2 DEF Core, SocketInv
<1> HIDE DEF b
<1> QED
  BY <1>2, <1>3, <1>4, <1>5, SetCore

(* A socket of the list that nobody had takes the peer of a SYN. *)
LEMMA FirstFreeIs ==
    ASSUME ListInv, Free # {}
    PROVE  FirstFree \in Threaded /\ tcb[FirstFree].peer = None
<1>1. \A i \in Free : i \in 0 .. NumSlots /\ Link[i] \in Threaded /\ tcb[Link[i]].peer = None
  BY DEF Free, Threaded
<1>2. \E i \in Free : \A j \in Free : i <= j
  <2> SUFFICES ASSUME \A i \in Free : \E j \in Free : j < i PROVE FALSE
    BY <1>1
  <2> DEFINE S == {n \in 0 .. NumSlots : \A i \in Free : n < i}
  <2>1. 0 \in S
    BY <1>1, NumSlotsAssumption
  <2>2. \A n \in 0 .. NumSlots : n < NumSlots /\ n \in S => n + 1 \in S
    BY <1>1, NumSlotsAssumption
  <2> HIDE DEF S
  <2>3. 0 .. NumSlots \subseteq S
    BY <2>1, <2>2, NumSlotsAssumption, UpTo
  <2>4. PICK i \in Free : TRUE
    OBVIOUS
  <2> QED
    BY <1>1, <2>3, <2>4 DEF S
<1>3. (CHOOSE i \in Free : \A j \in Free : i <= j) \in Free
  BY <1>2
<1> QED
  BY <1>1, <1>3 DEF FirstFree

LEMMA TakesPeer ==
    ASSUME Core, NEW c \in Conns, NEW s \in Threaded, NEW b \in Socket,
           tcb[s].peer = None, Match(c) = {}, tcb' = [tcb EXCEPT ![s] = b],
           UNCHANGED <<head, next, lost, client, pc, job, left, said, stream>>,
           b.peer = c, b.live, b.rx = tcb[s].rx, b.own = tcb[s].own,
           b.state = "SYNOLD" \/ (b.state = "SYNREC" /\ "ack" \notin said[c])
    PROVE  Core'
<1>1. UNCHANGED <<head, next, lost, client, pc, job, left, said, stream>>
  OBVIOUS
<1>2. s \in Threaded /\ Threaded \subseteq Slots /\ tcb[s].peer = None
  BY InSlots DEF Core
<1>3. tcb \in [Slots -> Socket] /\ tcb[s] \in Socket /\ tcb[s].state = "LISTEN" /\ tcb[s].live
  BY <1>2 DEF Core, CoreTypes, SocketInv
<1>4. /\ b \in Socket /\ b.peer = c /\ b.state \in {"SYNREC", "SYNOLD"} /\ b.live
      /\ b.rx = tcb[s].rx /\ b.own = tcb[s].own
  OBVIOUS
<1>5. /\ tcb' \in [Slots -> Socket] /\ tcb'[s] = b /\ \A t \in Slots \ {s} : tcb'[t] = tcb[t]
  BY <1>1, <1>2, <1>3, <1>4
<1>6. Threaded' = Threaded /\ ListInv'
  BY <1>1, SameList DEF Core
<1>7. b.state = "SYNREC" => ~Started(c)
  BY DEF Core, OnceInv
<1>8. CoreTypes'
  BY <1>1, <1>5 DEF Core, CoreTypes
<1>9. BuffersInv'
  <2>1. Owners' = Owners
    BY <1>3, <1>4, <1>5 DEF Owners
  <2> QED
    BY <1>1, <2>1 DEF Core, BuffersInv
<1>10. SocketInv'
  <2>1. ASSUME b.rx # None PROVE WasReset(b.rx)
    BY <1>2, <1>4, <2>1 DEF Core, SocketInv
  <2> QED
    BY <1>1, <1>2, <1>4, <1>5, <1>6, <2>1, NoneAssumption DEF Core, SocketInv, WasReset
<1>11. ClientInv'
  <2>1. ASSUME job # None PROVE tcb'[client].peer = job \/ WasReset(job)
    <3>1. client \in Slots
      BY <2>1 DEF Core, CoreTypes, ClientInv, Ends
    <3> QED
      BY <1>2, <1>5, <2>1, <3>1 DEF Core, ClientInv
  <2> QED
    BY <1>1, <2>1 DEF Core, ClientInv, WasReset
<1>12. \A t \in Slots : Active(t)' <=> Active(t)
  BY <1>3, <1>4, <1>5 DEF Active
<1>13. \A t \in Slots : Active(t) => tcb'[t] = tcb[t]
  BY <1>3, <1>5 DEF Active
<1>14. \A d \in Conns : Started(d)' => Started(d)
  BY <1>1, <1>12, <1>13 DEF Started
<1>15. OnceInv'
  BY <1>1, <1>2, <1>4, <1>5, <1>6, <1>7, <1>12, <1>13, <1>14 DEF Core, OnceInv
<1>16. WriteInv'
  BY <1>1, <1>12, <1>13 DEF Core, WriteInv, Active
<1>17. OneSocketPerPeer'
  BY <1>1, <1>2, <1>4, <1>5, <1>6 DEF Core, OneSocketPerPeer, Match
<1>18. StretchOfOneReply' /\ MixedOnlyAfterReset'
  BY <1>1 DEF Core, StretchOfOneReply, MixedOnlyAfterReset
<1> QED
  BY <1>6, <1>8, <1>9, <1>10, <1>11, <1>15, <1>16, <1>17, <1>18 DEF Core

LEMMA NewPeerCore ==
    ASSUME Core, NEW c \in Conns, NewPeer(c) \/ NewPeerLate(c)
    PROVE  Core'
<1> DEFINE s == FirstFree
           new == [tcb[s] EXCEPT !.peer = c, !.state = "SYNREC"]
           old == [tcb[s] EXCEPT !.peer = c, !.state = "SYNOLD", !.got = TRUE,
                                 !.acked = Len(stream[c])]
<1>1. /\ Match(c) = {} /\ Free # {}
      /\ UNCHANGED <<head, next, lost, client, pc, job, left, said, stream>>
      /\ \/ "ack" \notin said[c] /\ tcb' = [tcb EXCEPT ![s] = new]
         \/ tcb' = [tcb EXCEPT ![s] = old]
  BY DEF NewPeer, NewPeerLate, Set, Answer, server
<1>2. s \in Threaded /\ s \in Slots /\ tcb[s].peer = None
  BY <1>1, FirstFreeIs, InSlots DEF Core
<1> HIDE DEF s
<1>3. tcb[s] \in Socket /\ tcb[s].live /\ Len(stream[c]) \in Nat
  <2>1. tcb[s] \in Socket /\ tcb[s].live /\ stream[c] \in Seq(Segments)
    BY <1>2 DEF Core, CoreTypes, SocketInv
  <2> QED
    BY <2>1
<1>4. /\ new \in Socket /\ new.peer = c /\ new.state = "SYNREC" /\ new.live
      /\ new.rx = tcb[s].rx /\ new.own = tcb[s].own
  BY <1>3 DEF Socket, States
<1>5. /\ old \in Socket /\ old.peer = c /\ old.state = "SYNOLD" /\ old.live
      /\ old.rx = tcb[s].rx /\ old.own = tcb[s].own
  BY <1>3 DEF Socket, States
<1> HIDE DEF new, old
<1> QED
  BY <1>1, <1>2, <1>4, <1>5, TakesPeer

(* A slot is made to listen again: the client's, or one that is looked at  *)
(* while there is no client.                                               *)
LEMMA RelistCore ==
    ASSUME Core, NEW s \in Slots, Relist(s), UNCHANGED <<said, stream>>,
           s = client \/ client = Nil,
           client' = Nil, job' = None, left' \in 0 .. Units,
           pc' \in {"poll", "accept", "ending"}
    PROVE  Core'
<1>1. /\ tcb \in [Slots -> Socket] /\ Fresh \in Socket
      /\ tcb' = [tcb EXCEPT ![s] = Fresh] /\ lost' = IF tcb[s].own THEN lost + 1 ELSE lost
  BY DEF Core, CoreTypes, Relist, Lose, Fresh, Socket, States
<1>2. /\ tcb' \in [Slots -> Socket] /\ tcb'[s] = Fresh /\ \A t \in Slots \ {s} : tcb'[t] = tcb[t]
      /\ Fresh.state = "LISTEN" /\ Fresh.peer = None /\ Fresh.rx = None /\ Fresh.live /\ ~Fresh.own
  BY <1>1 DEF Fresh
<1>3. ListInv' /\ Threaded' \subseteq Threaded \cup {s} /\ Threaded \subseteq Slots
  BY RelistChain, InSlots DEF Core
<1>4. CoreTypes'
  BY <1>1, <1>2 DEF Core, CoreTypes, Ends
<1>5. BuffersInv'
  <2>1. Owners \in SUBSET Slots /\ Owners' = Owners \ {s} /\ (s \in Owners <=> tcb[s].own)
    BY <1>2 DEF Owners
  <2>2. Cardinality(Owners) \in Nat /\ lost \in Nat /\ Buffers \in Nat
        /\ Cardinality(Owners \ {s}) = IF s \in Owners THEN Cardinality(Owners) - 1
                                       ELSE Cardinality(Owners)
    BY <2>1, OwnersCount, SizesAssumption DEF Core, CoreTypes
  <2> QED
    BY <1>1, <2>1, <2>2 DEF Core, BuffersInv
<1>6. SocketInv'
  BY <1>2, <1>3 DEF Core, SocketInv, WasReset
<1>7. ClientInv'
  BY DEF ClientInv
<1>8. \A t \in Slots : Active(t)' => Active(t) /\ tcb'[t] = tcb[t]
  BY <1>2 DEF Active
<1>9. \A d \in Conns : Started(d)' => Started(d)
  BY <1>8 DEF Started
<1>10. OnceInv'
  BY <1>2, <1>3, <1>8, <1>9 DEF Core, OnceInv
<1>11. WriteInv'
  <2> SUFFICES ASSUME NEW c \in Conns, NEW t \in Slots,
                      stream[c] # <<>>, tcb'[t].peer = c, Active(t)'
               PROVE  FALSE
    BY DEF WriteInv, Active
  <2>1. t # s /\ t = client
    BY <1>2, <1>8 DEF Core, WriteInv, Active
  <2> QED
    BY <2>1 DEF Slots, Nil
<1>12. OneSocketPerPeer'
  BY <1>2, <1>3 DEF Core, OneSocketPerPeer
<1>13. StretchOfOneReply' /\ MixedOnlyAfterReset'
  BY DEF Core, StretchOfOneReply, MixedOnlyAfterReset
<1> QED
  BY <1>3, <1>4, <1>5, <1>6, <1>7, <1>10, <1>11, <1>12, <1>13 DEF Core

(* The server goes on from one place to another.                           *)
LEMMA MoveCore ==
    ASSUME Core, UNCHANGED <<stack, said, stream, job, left>>,
           client' \in Ends,
           pc' \in {"poll", "accept", "recv", "send", "close", "ending", "stopped"},
           ClientInv',
           pc \in {"send", "close"} => pc' \in {"send", "close"} /\ client' = client
    PROVE  Core'
<1>1. UNCHANGED <<tcb, head, next, lost>>
  BY DEF stack
<1>2. ListInv' /\ Threaded' = Threaded
  BY <1>1, SameList DEF Core
<1>3. CoreTypes' /\ BuffersInv' /\ SocketInv'
  BY <1>1, <1>2 DEF Core, CoreTypes, BuffersInv, Owners, SocketInv, WasReset
<1>4. OnceInv' /\ OneSocketPerPeer'
  BY <1>1, <1>2 DEF Core, OnceInv, OneSocketPerPeer, Active, Started
<1>5. WriteInv'
  BY <1>1 DEF Core, WriteInv
<1>6. StretchOfOneReply' /\ MixedOnlyAfterReset'
  BY DEF Core, StretchOfOneReply, MixedOnlyAfterReset
<1> QED
  BY <1>2, <1>3, <1>4, <1>5, <1>6 DEF Core

(* The browser says something more. *)
LEMMA BrowserCore ==
    ASSUME Core, UNCHANGED <<stack, stream, client, pc, job, left>>,
           said' \in [Conns -> SUBSET {"syn", "ack", "req", "fin", "rst"}],
           \A c \in Conns : said[c] \subseteq said'[c]
    PROVE  Core'
<1>1. UNCHANGED <<tcb, head, next, lost>>
  BY DEF stack
<1>2. ListInv' /\ Threaded' = Threaded /\ Threaded \subseteq Slots
  BY <1>1, SameList, InSlots DEF Core
<1>3. \A c \in Conns : WasReset(c) => WasReset(c)'
  BY DEF WasReset
<1>4. CoreTypes' /\ BuffersInv'
  BY <1>1 DEF Core, CoreTypes, BuffersInv, Owners
<1>5. SocketInv' /\ ClientInv'
  <2>1. \A s \in Slots : tcb[s].rx \in Conns \cup {None}
    BY DEF Core, CoreTypes, Socket
  <2> QED
    BY <1>1, <1>2, <1>3, <2>1 DEF Core, CoreTypes, SocketInv, ClientInv
<1>6. OnceInv' /\ OneSocketPerPeer' /\ WriteInv'
  BY <1>1, <1>2 DEF Core, OnceInv, OneSocketPerPeer, WriteInv, Active, Started
<1>7. StretchOfOneReply'
  BY DEF Core, StretchOfOneReply
<1>8. MixedOnlyAfterReset'
  <2> SUFFICES ASSUME NEW c \in Conns, NEW i \in 1 .. Len(stream[c]), stream[c][i][1] # c
               PROVE  WasReset(stream[c][i][1])'
    BY DEF MixedOnlyAfterReset, WasReset
  <2>1. stream[c] \in Seq(Segments) /\ stream[c][i] \in Segments
    BY DEF Core, CoreTypes
  <2> QED
    BY <1>3, <2>1 DEF Core, MixedOnlyAfterReset, WasReset, Segments
<1> QED
  BY <1>2, <1>4, <1>5, <1>6, <1>7, <1>8 DEF Core

(* The request is taken from the buffer; whose it is, is what the reply is *)
(* for.                                                                    *)
LEMMA RecvRequestCore ==
    ASSUME Core, RecvRequest
    PROVE  Core'
<1> DEFINE s == client
           b == [tcb[s] EXCEPT !.rx = None]
<1>1. /\ pc = "recv" /\ tcb[s].rx # None /\ tcb' = [tcb EXCEPT ![s].rx = None]
      /\ job' = tcb[s].rx /\ left' \in 0 .. Units /\ pc' \in {"send", "close"}
      /\ UNCHANGED <<head, next, lost, client, said, stream>>
  BY DEF RecvRequest, Go, network
<1>2. s \in Slots /\ tcb \in [Slots -> Socket] /\ tcb[s] \in Socket
  BY <1>1 DEF Core, CoreTypes, ClientInv, Ends
<1>3. /\ b \in Socket /\ b.rx = None /\ b.peer = tcb[s].peer /\ b.state = tcb[s].state
      /\ b.live = tcb[s].live /\ b.own = tcb[s].own
  BY <1>2 DEF Socket
<1>4. tcb' = [tcb EXCEPT ![s] = b]
  BY <1>1, <1>2
<1> HIDE DEF b, s
<1>5. /\ tcb' \in [Slots -> Socket] /\ tcb'[s] = b /\ \A t \in Slots \ {s} : tcb'[t] = tcb[t]
  BY <1>2, <1>3, <1>4
<1>6. \A t \in Slots : /\ tcb'[t].peer = tcb[t].peer /\ tcb'[t].state = tcb[t].state
                       /\ tcb'[t].live = tcb[t].live /\ tcb'[t].own = tcb[t].own
                       /\ tcb'[t].rx \in {None, tcb[t].rx}
  BY <1>2, <1>3, <1>5
<1>7. Threaded' = Threaded /\ ListInv' /\ Threaded \subseteq Slots
  BY <1>1, SameList, InSlots DEF Core
<1>8. CoreTypes'
  BY <1>1, <1>2, <1>5 DEF Core, CoreTypes, Socket
<1>9. BuffersInv'
  <2>1. Owners' = Owners
    BY <1>6 DEF Owners
  <2> QED
    BY <1>1, <2>1 DEF Core, BuffersInv
<1>10. SocketInv'
  BY <1>1, <1>6, <1>7 DEF Core, SocketInv, WasReset
<1>11. ClientInv'
  <2>1. tcb[s].rx = tcb[s].peer \/ WasReset(tcb[s].rx)
    BY <1>1, <1>2 DEF Core, SocketInv
  <2>2. tcb'[client'].peer = job' \/ "rst" \in said'[job']
    BY <1>1, <1>2, <1>6, <2>1 DEF WasReset, s
  <2>3. client' # Nil /\ pc' \in {"send", "close"} /\ job' # None
    BY <1>1, <1>2 DEF s, Slots, Nil
  <2> QED
    BY <2>2, <2>3 DEF ClientInv, WasReset
<1>12. OnceInv' /\ OneSocketPerPeer'
  BY <1>1, <1>6, <1>7 DEF Core, OnceInv, OneSocketPerPeer, Active, Started
<1>13. WriteInv'
  BY <1>1, <1>6 DEF Core, WriteInv
<1>14. StretchOfOneReply' /\ MixedOnlyAfterReset'
  BY <1>1 DEF Core, StretchOfOneReply, MixedOnlyAfterReset
<1> QED
  BY <1>7, <1>8, <1>9, <1>10, <1>11, <1>12, <1>13, <1>14 DEF Core

(* A segment is written to the client's socket. *)
LEMMA SendWriteCore ==
    ASSUME Core, SendWrite
    PROVE  Core'
<1> DEFINE c == tcb[client].peer
           r == Append(stream[c], <<job, left>>)
<1>1. /\ pc = "send" /\ left > 0 /\ tcb[client].state = "ESTAB"
      /\ stream' = [stream EXCEPT ![c] = r] /\ left' = left - 1
      /\ UNCHANGED <<tcb, head, next, lost, client, pc, job, said>>
  BY DEF SendWrite, CanWrite, BeginTick, Over, stack
<1>2. client \in Slots /\ tcb[client] \in Socket /\ c # None /\ job \in Conns
  BY <1>1 DEF Core, CoreTypes, ClientInv, SocketInv, Ends
<1>3. c \in Conns /\ left \in 1 .. Units /\ stream \in [Conns -> Seq(Segments)]
      /\ stream[c] \in Seq(Segments) /\ Units \in Nat /\ <<job, left>> \in Segments
  BY <1>1, <1>2, SizesAssumption DEF Core, CoreTypes, Socket, Segments
<1> HIDE DEF c
<1>4. /\ r \in Seq(Segments) /\ Len(r) = Len(stream[c]) + 1 /\ r[Len(r)] = <<job, left>>
      /\ \A i \in 1 .. Len(stream[c]) : r[i] = stream[c][i]
      /\ Len(stream[c]) \in Nat /\ r # <<>>
  BY <1>3
<1> HIDE DEF r
<1>5. stream' \in [Conns -> Seq(Segments)] /\ stream'[c] = r
      /\ \A d \in Conns \ {c} : stream'[d] = stream[d]
  BY <1>1, <1>3, <1>4
<1>6. Active(client) /\ tcb[client].peer = c /\ Started(c)
  BY <1>1, <1>2 DEF Active, Started, c
<1>7. Threaded' = Threaded /\ ListInv' /\ Threaded \subseteq Slots
  BY <1>1, SameList, InSlots DEF Core
<1>8. CoreTypes' /\ BuffersInv' /\ SocketInv' /\ ClientInv' /\ OneSocketPerPeer'
  BY <1>1, <1>3, <1>5, <1>7
     DEF Core, CoreTypes, BuffersInv, Owners, SocketInv, ClientInv, OneSocketPerPeer, WasReset
<1>9. OnceInv'
  <2>1. \A d \in Conns : Started(d)' => Started(d)
    BY <1>1, <1>5, <1>6 DEF Started, Active
  <2> QED
    BY <1>1, <1>7, <2>1 DEF Core, OnceInv, Active
<1>10. WriteInv'
  <2> SUFFICES ASSUME NEW d \in Conns, NEW s \in Slots,
                      stream'[d] # <<>>, tcb[s].peer = d, Active(s)
               PROVE  /\ s = client
                      /\ stream'[d][Len(stream'[d])] = <<job, left' + 1>>
    BY <1>1 DEF WriteInv, Active
  <2>1. CASE d = c
    <3>1. s = client
      BY <1>2, <1>6, <2>1 DEF Core, OnceInv
    <3>2. left' + 1 = left
      BY <1>1, <1>3
    <3> QED
      BY <1>4, <1>5, <2>1, <3>1, <3>2
  <2>2. CASE d # c
    <3>1. stream[d] # <<>>
      BY <1>5, <2>2
    <3>2. s = client
      BY <3>1 DEF Core, WriteInv, Active
    <3> QED
      BY <1>6, <2>2, <3>2
  <2> QED
    BY <2>1, <2>2
<1>11. StretchOfOneReply'
  <2> SUFFICES ASSUME NEW d \in Conns, NEW i \in 1 .. Len(stream'[d]) - 1
               PROVE  stream'[d][i + 1] = <<stream'[d][i][1], stream'[d][i][2] - 1>>
    BY DEF StretchOfOneReply
  <2>1. CASE d # c
    BY <1>5, <2>1 DEF Core, StretchOfOneReply
  <2>2. CASE d = c /\ i < Len(stream[c])
    <3>1. i \in 1 .. Len(stream[c]) - 1 /\ i + 1 \in 1 .. Len(stream[c]) /\ i \in 1 .. Len(stream[c])
      BY <1>4, <1>5, <2>2
    <3>2. stream[c][i + 1] = <<stream[c][i][1], stream[c][i][2] - 1>>
      BY <1>3, <3>1 DEF Core, StretchOfOneReply
    <3> QED
      BY <1>4, <1>5, <2>2, <3>1, <3>2
  <2>3. CASE d = c /\ i = Len(stream[c])
    <3>1. i \in 1 .. Len(stream[c]) /\ i + 1 = Len(r) /\ stream[c] # <<>>
      BY <1>3, <1>4, <1>5, <2>3
    <3>2. stream[c][i] = <<job, left + 1>>
      BY <1>2, <1>3, <1>6, <2>3, <3>1 DEF Core, WriteInv, Active
    <3>3. left + 1 - 1 = left
      BY <1>3
    <3>4. r[i] = <<job, left + 1>> /\ r[i + 1] = <<job, left>>
      BY <1>4, <3>1, <3>2
    <3>5. stream'[d] = r
      BY <1>5, <2>3
    <3>6. stream'[d][i][1] = job /\ stream'[d][i][2] = left + 1
      BY <3>4, <3>5
    <3>7. stream'[d][i + 1] = <<job, left>>
      BY <3>4, <3>5
    <3>8. stream'[d][i][2] - 1 = left
      <4>1. left \in Nat /\ stream'[d][i][2] = left + 1
        BY <1>3, <3>6
      <4> QED
        BY <4>1
    <3> QED
      BY <3>6, <3>7, <3>8
  <2> QED
    BY <1>4, <1>5, <2>1, <2>2, <2>3
<1>12. MixedOnlyAfterReset'
  <2> SUFFICES ASSUME NEW d \in Conns, NEW i \in 1 .. Len(stream'[d]), stream'[d][i][1] # d
               PROVE  WasReset(stream'[d][i][1])
    BY <1>1 DEF MixedOnlyAfterReset, WasReset
  <2>1. CASE d # c
    BY <1>5, <2>1 DEF Core, MixedOnlyAfterReset, WasReset
  <2>2. CASE d = c /\ i <= Len(stream[c])
    <3>1. i \in 1 .. Len(stream[c]) /\ stream'[d][i] = stream[c][i]
      BY <1>4, <1>5, <2>2
    <3> QED
      BY <1>3, <2>2, <3>1 DEF Core, MixedOnlyAfterReset, WasReset
  <2>3. CASE d = c /\ i = Len(r)
    <3>1. stream'[d][i] = <<job, left>>
      BY <1>4, <1>5, <2>3
    <3>2. job = c \/ WasReset(job)
      BY <1>2, <1>6, NoneAssumption DEF Core, ClientInv
    <3> QED
      BY <2>3, <3>1, <3>2
  <2> QED
    BY <1>4, <1>5, <2>1, <2>2, <2>3
<1> QED
  BY <1>7, <1>8, <1>9, <1>10, <1>11, <1>12 DEF Core

(* _tcp_close, on one socket or on all that listen. *)
LEMMA ClosingIs ==
    ASSUME NEW b \in Socket
    PROVE  /\ Closing(b) \in Socket
           /\ Closing(b).peer = b.peer /\ Closing(b).rx = b.rx
           /\ Closing(b).live = b.live /\ Closing(b).own = b.own
           /\ Closing(b).state \notin {"ESTAB", "SYNREC"}
           /\ Closing(b).state = "LISTEN" <=> b.state = "LISTEN"
           /\ b.state = "CLOSED" <=> Closing(b).state = "CLOSED"
BY DEF Closing, Socket, States

LEMMA EndCore ==
    ASSUME Core, End
    PROVE  Core'
<1>1. /\ pc = "ending" /\ pc' = "stopped"
      /\ tcb' = [s \in Slots |-> IF listening[s] /\ tcb[s].live THEN Closing(tcb[s]) ELSE tcb[s]]
      /\ UNCHANGED <<head, next, lost, client, job, left, said, stream>>
  BY DEF End, Go, network
<1>2. client = Nil /\ job = None
  BY <1>1 DEF Core, ClientInv
<1>3. tcb \in [Slots -> Socket]
  BY DEF Core, CoreTypes
<1>4. \A s \in Slots : /\ tcb'[s] \in Socket
                       /\ tcb'[s].peer = tcb[s].peer /\ tcb'[s].rx = tcb[s].rx
                       /\ tcb'[s].live = tcb[s].live /\ tcb'[s].own = tcb[s].own
                       /\ tcb'[s].state = "LISTEN" <=> tcb[s].state = "LISTEN"
                       /\ tcb'[s].state \in {"ESTAB", "SYNREC"} => tcb'[s] = tcb[s]
                       /\ tcb[s].state = "CLOSED" => tcb'[s].state = "CLOSED"
  BY <1>1, <1>3, ClosingIs
<1>5. Threaded' = Threaded /\ ListInv' /\ Threaded \subseteq Slots
  BY <1>1, SameList, InSlots DEF Core
<1>6. CoreTypes'
  <2>1. tcb' \in [Slots -> Socket]
    BY <1>1, <1>4
  <2> QED
    BY <1>1, <2>1 DEF Core, CoreTypes
<1>7. BuffersInv'
  <2>1. Owners' = Owners
    BY <1>4 DEF Owners
  <2> QED
    BY <1>1, <2>1 DEF Core, BuffersInv
<1>8. SocketInv'
  BY <1>1, <1>4, <1>5 DEF Core, SocketInv, WasReset
<1>9. ClientInv'
  BY <1>1, <1>2 DEF Core, ClientInv
<1>10. OnceInv' /\ OneSocketPerPeer'
  BY <1>1, <1>4, <1>5 DEF Core, OnceInv, OneSocketPerPeer, Active, Started
<1>11. WriteInv'
  BY <1>1, <1>4 DEF Core, WriteInv
<1>12. StretchOfOneReply' /\ MixedOnlyAfterReset'
  BY <1>1 DEF Core, StretchOfOneReply, MixedOnlyAfterReset
<1> QED
  BY <1>5, <1>6, <1>7, <1>8, <1>9, <1>10, <1>11, <1>12 DEF Core

-----------------------------------------------------------------------------
(* The steps. *)

(* What a packet or a timer makes of a socket. *)
LEMMA ArrivalCore ==
    ASSUME Core, NEW c \in Conns, NEW s \in Slots, Arrival(s, c), taken[c] \in Nat,
           UNCHANGED <<client, pc, job, left>>
    PROVE  Core'
<1>1. s \in Threaded /\ tcb[s].peer = c /\ tcb \in [Slots -> Socket] /\ tcb[s] \in Socket
  BY DEF Arrival, Match, Core, CoreTypes
<1>2. tcb[s].live
  BY <1>1 DEF Core, SocketInv
<1>3. ASSUME NEW b \in Socket, Set(s, b), UNCHANGED <<said, stream>>,
             b.peer = None <=> b.state = "LISTEN", b.live = tcb[s].live,
             b.rx # None => b.rx = c \/ WasReset(b.rx),
             b.peer = c \/ (b.peer = None /\ WasReset(c)),
             b.state = "ESTAB" => \/ tcb[s].state = "ESTAB"
                                  \/ "ack" \in said[c] /\ ~Started(c),
             b.state = "SYNREC" => tcb[s].state = "SYNREC",
             b.own => tcb[s].own \/ Allocated < Buffers
      PROVE  Core'
  <2>1. tcb' = [tcb EXCEPT ![s] = b] /\ UNCHANGED <<head, next, lost>>
    BY <1>3 DEF Set
  <2>2. Threaded' = Threaded /\ ListInv'
    BY <2>1, SameList DEF Core
  <2>3. b.rx # None => b.rx = b.peer \/ WasReset(b.rx)
    BY <1>3
  <2>4. b.state = "ESTAB" => b.peer = c
    BY <1>3
  <2> QED
    BY <1>1, <1>2, <1>3, <2>1, <2>2, <2>3, <2>4, SetCore
<1>4. ASSUME NEW b \in Windowed(tcb[s])
      PROVE  /\ b \in Socket /\ b.peer = c /\ b.state = tcb[s].state /\ b.live = tcb[s].live
             /\ b.rx = tcb[s].rx /\ (b.own => tcb[s].own \/ Allocated < Buffers)
             /\ b.acked = tcb[s].acked
  BY <1>1 DEF Windowed, Socket
<1>5. tcb[s].state # "LISTEN" /\ (tcb[s].rx # None => tcb[s].rx = c \/ WasReset(tcb[s].rx)) /\ c # None
  BY <1>1, NoneAssumption DEF Core, SocketInv
<1>6. CASE Establish(s, c)
  <2>1. "ack" \in said[c] /\ UNCHANGED <<said, stream>> /\ tcb[s].state = "SYNREC"
    BY <1>6 DEF Establish, network
  <2>2. ~Started(c)
    BY <1>1, <2>1 DEF Core, OnceInv
  <2>3. PICK w \in Windowed(tcb[s]) : Set(s, [w EXCEPT !.state = "ESTAB"])
    BY <1>6 DEF Establish
  <2> DEFINE b == [w EXCEPT !.state = "ESTAB"]
  <2>4. /\ b \in Socket /\ b.peer = w.peer /\ b.live = w.live /\ b.rx = w.rx /\ b.own = w.own
        /\ b.state = "ESTAB"
    BY <1>4 DEF Socket, States
  <2>5. Set(s, b)
    BY <2>3
  <2> HIDE DEF b
  <2>6. /\ b.peer = c /\ b.live = tcb[s].live /\ (b.own => tcb[s].own \/ Allocated < Buffers)
        /\ (b.rx # None => b.rx = c \/ WasReset(b.rx))
    BY <1>4, <1>5, <2>4
  <2>7. (b.peer = None <=> b.state = "LISTEN") /\ b.state # "SYNREC"
    BY <1>5, <2>4, <2>6
  <2> QED
    BY <1>3, <2>1, <2>2, <2>4, <2>5, <2>6, <2>7
<1>7. CASE Receive(s, c)
  <2>1. UNCHANGED <<said, stream>>
    BY <1>7 DEF Receive, network
  <2>2. PICK w \in Windowed(tcb[s]) :
            Set(s, [w EXCEPT !.got = TRUE, !.rx = IF @ = None THEN c ELSE @])
    BY <1>7 DEF Receive
  <2> DEFINE b == [w EXCEPT !.got = TRUE, !.rx = IF @ = None THEN c ELSE @]
  <2>3. /\ b \in Socket /\ b.peer = w.peer /\ b.live = w.live /\ b.rx \in {w.rx, c}
        /\ b.own = w.own /\ b.state = w.state
    BY <1>4 DEF Socket
  <2>4. Set(s, b)
    BY <2>2
  <2> HIDE DEF b
  <2>5. /\ b.peer = c /\ b.live = tcb[s].live /\ (b.own => tcb[s].own \/ Allocated < Buffers)
        /\ (b.rx # None => b.rx = c \/ WasReset(b.rx)) /\ b.state = tcb[s].state
    BY <1>4, <1>5, <2>3
  <2>6. b.peer = None <=> b.state = "LISTEN"
    BY <1>5, <2>5
  <2> QED
    BY <1>3, <2>1, <2>3, <2>4, <2>5, <2>6
<1>8. CASE Acknowledge(s, c)
  <2>1. UNCHANGED <<said, stream>> /\ taken[c] > tcb[s].acked
    BY <1>8 DEF Acknowledge, network, Answer
  <2>2. PICK w \in Windowed(tcb[s]) :
            \/ Set(s, [w EXCEPT !.acked = taken[c]])
            \/ Set(s, [[w EXCEPT !.acked = taken[c]] EXCEPT !.state = "FINWT"])
    BY <1>8 DEF Acknowledge
  <2> DEFINE b == [w EXCEPT !.acked = taken[c]]
             f == [b EXCEPT !.state = "FINWT"]
  <2>3. /\ b \in Socket /\ b.peer = w.peer /\ b.live = w.live /\ b.rx = w.rx
        /\ b.own = w.own /\ b.state = w.state
    BY <1>4 DEF Socket
  <2>4. /\ f \in Socket /\ f.peer = w.peer /\ f.live = w.live /\ f.rx = w.rx
        /\ f.own = w.own /\ f.state = "FINWT"
    BY <1>4 DEF Socket, States
  <2>5. Set(s, b) \/ Set(s, f)
    BY <2>2
  <2> HIDE DEF b, f
  <2>6. CASE Set(s, b)
    BY <1>3, <1>4, <1>5, <2>1, <2>3, <2>6
  <2>7. CASE Set(s, f)
    BY <1>3, <1>4, <1>5, <2>1, <2>4, <2>7
  <2> QED
    BY <2>5, <2>6, <2>7
<1>9. ASSUME NEW st \in {"LASTACK", "TIMEWT", "CLOSED"},
             Set(s, [tcb[s] EXCEPT !.state = st]), UNCHANGED <<said, stream>>
      PROVE  Core'
  <2> DEFINE b == [tcb[s] EXCEPT !.state = st]
  <2>1. /\ b \in Socket /\ b.peer = c /\ b.live = tcb[s].live /\ b.rx = tcb[s].rx
        /\ b.own = tcb[s].own /\ b.state = st
    BY <1>1 DEF Socket, States
  <2> HIDE DEF b
  <2> QED
    BY <1>3, <1>5, <1>9, <2>1 DEF b
<1>10. CASE PeerFin(s, c) \/ LastAck(s, c)
  BY <1>9, <1>10 DEF PeerFin, LastAck, network, Answer
<1>11. CASE PeerReset(s, c)
  <2> DEFINE rx == IF tcb[s].state \in {"LASTACK", "CLOSED"} THEN tcb[s].rx ELSE None
             b == [Fresh EXCEPT !.live = tcb[s].live, !.own = tcb[s].own, !.rx = rx]
  <2>1. WasReset(c) /\ Set(s, b) /\ UNCHANGED <<said, stream>>
    BY <1>11 DEF PeerReset, WasReset, network
  <2>2. rx \in Conns \cup {None} /\ (rx # None => rx = tcb[s].rx)
    BY <1>1 DEF Socket
  <2> HIDE DEF rx
  <2>3. /\ b \in Socket /\ b.peer = None /\ b.live = tcb[s].live /\ b.rx = rx
        /\ b.own = tcb[s].own /\ b.state = "LISTEN"
    BY <1>1, <2>2 DEF Socket, States, Fresh
  <2> HIDE DEF b
  <2> QED
    BY <1>3, <1>5, <2>1, <2>2, <2>3
<1>12. CASE Resend(s, c)
  <2>1. UNCHANGED <<stack, stream, said, client, pc, job, left>>
    BY <1>12 DEF Resend
  <2>2. said \in [Conns -> SUBSET {"syn", "ack", "req", "fin", "rst"}]
    BY DEF Core, CoreTypes
  <2> QED
    BY <2>1, <2>2, BrowserCore
<1> QED
  BY <1>6, <1>7, <1>8, <1>10, <1>11, <1>12 DEF Arrival

LEMMA TickCore ==
    ASSUME Core, Tick, taken \in [Conns -> Nat]
    PROVE  Core'
<1>1. ASSUME NEW c \in Conns, NewPeer(c) \/ NewPeerLate(c) PROVE Core'
  BY <1>1, NewPeerCore
<1>2. ASSUME NEW c \in Conns, Refuse(c) PROVE Core'
  <2>1. UNCHANGED <<stack, stream, said, client, pc, job, left>>
    BY <1>2 DEF Refuse, Answer, server
  <2>2. said \in [Conns -> SUBSET {"syn", "ack", "req", "fin", "rst"}]
    BY DEF Core, CoreTypes
  <2> QED
    BY <2>1, <2>2, BrowserCore
<1>3. ASSUME NEW c \in Conns, NEW s \in Slots, Arrival(s, c) PROVE Core'
  <2>1. UNCHANGED <<client, pc, job, left>>
    BY <1>3 DEF Arrival, Establish, Receive, Acknowledge, PeerFin, LastAck, PeerReset, Resend,
                Set, server
  <2>2. taken[c] \in Nat
    OBVIOUS
  <2> QED
    BY <1>3, <2>1, <2>2, ArrivalCore, SMTT(30)
<1>4. ASSUME NEW s \in Slots, Expire(s) PROVE Core'
  <2>1. Drop(s) /\ tcb[s].state # "LISTEN" /\ UNCHANGED <<client, pc, job, left, said, stream>>
    BY <1>4 DEF Expire, Answer, server
  <2> QED
    BY <2>1, DropCore
<1>5. ASSUME NEW s \in Slots, Reap(s) PROVE Core'
  <2>1. Drop(s) /\ tcb[s].state # "LISTEN" /\ UNCHANGED <<client, pc, job, left, said, stream>>
    BY <1>5 DEF Reap, Over, server, network
  <2> QED
    BY <2>1, DropCore
<1> QED
  BY <1>1, <1>2, <1>3, <1>4, <1>5 DEF Tick

(* Where tcp_tick begins with a socket that is over. *)
LEMMA BeginTickCore ==
    ASSUME Core, NEW s \in Slots, BeginTick(s), UNCHANGED <<client, pc, job, left, said, stream>>
    PROVE  Core'
<1>1. CASE Over(s)
  <2>1. Drop(s) /\ tcb[s].state # "LISTEN"
    BY <1>1 DEF BeginTick, Over
  <2> QED
    BY <2>1, DropCore
<1>2. CASE ~Over(s)
  <2>1. UNCHANGED stack /\ said \in [Conns -> SUBSET {"syn", "ack", "req", "fin", "rst"}]
    BY <1>2 DEF BeginTick, Core, CoreTypes
  <2> QED
    BY <2>1, BrowserCore
<1> QED
  BY <1>1, <1>2

LEMMA CloseCore ==
    ASSUME Core, Close
    PROVE  Core'
<1>1. pc = "close" /\ UNCHANGED <<client, pc, job, left, said, stream>>
  BY DEF Close
<1>2. client \in Slots /\ tcb \in [Slots -> Socket] /\ tcb[client] \in Socket
  BY <1>1 DEF Core, CoreTypes, ClientInv, Ends
<1>3. CASE Over(client)
  <2>1. Drop(client) /\ tcb[client].state # "LISTEN"
    BY <1>3 DEF Close, Over
  <2> QED
    BY <1>1, <1>2, <2>1, DropCore
<1>4. CASE ~Over(client)
  <2> DEFINE b == IF tcb[client].live THEN Closing(tcb[client]) ELSE tcb[client]
  <2>1. tcb' = [tcb EXCEPT ![client] = b] /\ UNCHANGED <<head, next, lost>>
    BY <1>2, <1>4 DEF Close
  <2>2. /\ b \in Socket /\ b.peer = tcb[client].peer /\ b.live = tcb[client].live
        /\ b.rx = tcb[client].rx /\ b.own = tcb[client].own
        /\ b.state = "LISTEN" <=> tcb[client].state = "LISTEN"
        /\ b.state \in {"ESTAB", "SYNREC"} => b.state = tcb[client].state
        /\ tcb[client].state = "CLOSED" => b.state = "CLOSED"
    BY <1>2, ClosingIs
  <2> HIDE DEF b
  <2>3. Threaded' = Threaded /\ ListInv'
    BY <2>1, SameList DEF Core
  <2>4. /\ b.peer = None <=> b.state = "LISTEN"
        /\ ~b.live => b.state = "CLOSED" /\ client \notin Threaded
        /\ b.rx # None => b.rx = b.peer \/ WasReset(b.rx)
    BY <1>2, <2>2 DEF Core, SocketInv
  <2> QED
    BY <1>1, <1>2, <2>1, <2>2, <2>3, <2>4, SetCore
<1> QED
  BY <1>3, <1>4

LEMMA ServerCore ==
    ASSUME Core, Server, at \in Slots
    PROVE  Core'
<1>0. client \in Ends /\ (pc \in {"recv", "send", "close"} => client \in Slots)
  BY DEF Core, CoreTypes, ClientInv, Ends
<1>1. CASE Poll \/ AcceptNone
  <2>1. /\ UNCHANGED <<stack, said, stream, job, left, client>>
        /\ pc \in {"poll", "accept"} /\ pc' \in {"poll", "accept", "ending"}
    BY <1>1 DEF Poll, AcceptNone, NextSlot, Go, network
  <2>2. ClientInv'
    BY <2>1 DEF Core, ClientInv
  <2> QED
    BY <1>0, <2>1, <2>2, MoveCore
<1>2. CASE AcceptTick
  <2>1. BeginTick(at) /\ UNCHANGED <<client, pc, job, left, said, stream>>
    BY <1>2 DEF AcceptTick, network
  <2> QED
    BY <2>1, BeginTickCore
<1>3. CASE AcceptRestart
  <2>1. /\ Relist(at) /\ UNCHANGED <<said, stream, client, job, left>>
        /\ pc = "accept" /\ pc' \in {"poll", "accept"}
    BY <1>3 DEF AcceptRestart, NextSlot, Go, network
  <2>2. client = Nil /\ job = None /\ left \in 0 .. Units
    BY <2>1 DEF Core, CoreTypes, ClientInv
  <2> QED
    BY <2>1, <2>2, RelistCore
<1>4. CASE Accept
  <2>1. /\ UNCHANGED <<stack, said, stream, job, left>>
        /\ pc = "accept" /\ pc' = "recv" /\ client' = at
    BY <1>4 DEF Accept, Go, network
  <2>2. ClientInv' /\ client' \in Ends
    BY <2>1 DEF Core, ClientInv, Ends, Slots, Nil
  <2> QED
    BY <2>1, <2>2, MoveCore
<1>5. CASE RecvRequest
  BY <1>5, RecvRequestCore
<1>6. CASE RecvWait
  <2>1. CASE StopSeen
    <3>1. /\ UNCHANGED <<stack, said, stream, job, left, client>>
          /\ pc = "recv" /\ pc' = "close"
      BY <1>6, <2>1 DEF RecvWait, Go, network
    <3>2. ClientInv'
      BY <3>1 DEF Core, ClientInv, WasReset, stack
    <3> QED
      BY <1>0, <3>1, <3>2, MoveCore
  <2>2. CASE ~StopSeen
    <3>1. pc = "recv" /\ BeginTick(client) /\ UNCHANGED <<client, pc, job, left, said, stream>>
      BY <1>6, <2>2 DEF RecvWait, network
    <3> QED
      BY <1>0, <3>1, BeginTickCore
  <2> QED
    BY <2>1, <2>2
<1>7. CASE RecvAgain \/ RecvGone \/ RecvTimeout
  <2>1. /\ UNCHANGED <<stack, said, stream, job, left, client>>
        /\ pc = "recv" /\ pc' \in {"recv", "close"}
    BY <1>7 DEF RecvAgain, RecvGone, RecvTimeout, Go, network
  <2>2. ClientInv'
    BY <2>1 DEF Core, ClientInv, WasReset, stack
  <2> QED
    BY <1>0, <2>1, <2>2, MoveCore
<1>8. CASE SendStopped \/ SendAgain \/ SendDone \/ SendGone \/ SendTimeout
  <2>1. /\ UNCHANGED <<stack, said, stream, job, left, client>>
        /\ pc = "send" /\ pc' \in {"send", "close"}
    BY <1>8 DEF SendStopped, SendAgain, SendDone, SendGone, SendTimeout, Go, network
  <2>2. ClientInv'
    BY <2>1 DEF Core, ClientInv, WasReset, stack
  <2> QED
    BY <1>0, <2>1, <2>2, MoveCore
<1>9. CASE SendWrite
  BY <1>9, SendWriteCore
<1>10. CASE SendBlocked
  <2>1. pc = "send" /\ BeginTick(client) /\ UNCHANGED <<client, pc, job, left, said, stream>>
    BY <1>10 DEF SendBlocked, network
  <2> QED
    BY <1>0, <2>1, BeginTickCore
<1>11. CASE Close
  BY <1>11, CloseCore
<1>12. CASE Closed
  <2>1. /\ pc = "close" /\ Relist(client) /\ UNCHANGED <<said, stream>>
        /\ client' = Nil /\ job' = None /\ left' = 0 /\ pc' \in {"poll", "ending"}
    BY <1>12 DEF Closed, Go, network
  <2>2. left' \in 0 .. Units
    BY <2>1, SizesAssumption
  <2> QED
    BY <1>0, <2>1, <2>2, RelistCore
<1>13. CASE End
  BY <1>13, EndCore
<1> QED
  BY <1>1, <1>2, <1>3, <1>4, <1>5, <1>6, <1>7, <1>8, <1>9, <1>10, <1>11, <1>12, <1>13 DEF Server


-----------------------------------------------------------------------------
(* The types of what Core says nothing of.                                 *)
ServerTypes == listening \in [Slots -> BOOLEAN] /\ at \in Slots /\ ticking \in BOOLEAN
KeyTypes    == kbd \in Seq({"stop", "other"}) /\ stop \in BOOLEAN
PeerTypes   == /\ heard \in [Conns -> SUBSET {"synack", "fin", "rst"}]
               /\ sent \in [Conns -> Nat] /\ taken \in [Conns -> Nat]
               /\ served \subseteq Conns
OtherTypes  == ServerTypes /\ KeyTypes /\ PeerTypes

IInv == Core /\ OtherTypes

LEMMA InitInv == Init => IInv
<1> SUFFICES ASSUME Init PROVE IInv
  OBVIOUS
<1> USE NumSlotsAssumption, NoneAssumption, SizesAssumption
<1>1. LinksTyped
  BY DEF Init, LinksTyped, Ends, Slots, Nil
<1>2. \E q : Chain(q, head, next)
  <2> DEFINE q == [i \in 1 .. NumSlots |-> NumSlots + 1 - i]
  <2>1. q \in Seq(Slots) /\ Len(q) = NumSlots /\ DOMAIN q = 1 .. NumSlots
    BY DEF Slots
  <2>2. \A i, j \in DOMAIN q : q[i] = q[j] => i = j
    OBVIOUS
  <2>3. head = (IF q = <<>> THEN Nil ELSE q[1])
    <3>1. q[1] = NumSlots
      OBVIOUS
    <3> HIDE DEF q
    <3>2. q # <<>>
      BY <2>1
    <3> QED
      BY <3>1, <3>2 DEF Init
  <2>4. \A i \in DOMAIN q : next[q[i]] = IF i < Len(q) THEN q[i + 1] ELSE Nil
    BY <2>1 DEF Init, Slots, Nil
  <2> HIDE DEF q
  <2>5. Chain(q, head, next)
    BY <2>1, <2>2, <2>3, <2>4 DEF Chain
  <2> QED
    BY <2>5
<1>3. CoreTypes
  BY DEF Init, CoreTypes, Fresh, Socket, States, Ends
<1>4. BuffersInv
  <2>1. Owners = {}
    BY DEF Init, Owners, Fresh
  <2> QED
    BY <2>1, FS_EmptySet DEF Init, BuffersInv
<1>5. \A s \in Slots : tcb[s] = Fresh
  BY DEF Init
<1>6. Threaded \subseteq Slots
  BY <1>1, <1>2, InSlots DEF ListInv
<1>7. SocketInv /\ ClientInv /\ OneSocketPerPeer
  BY <1>5, <1>6 DEF Init, SocketInv, ClientInv, OneSocketPerPeer, Fresh, Nil
<1>8. OnceInv /\ WriteInv
  BY <1>5, <1>6 DEF Init, OnceInv, WriteInv, Active, Started, Fresh
<1>9. StretchOfOneReply /\ MixedOnlyAfterReset
  BY DEF Init, StretchOfOneReply, MixedOnlyAfterReset
<1>10. OtherTypes
  <2>1. ServerTypes
    <3>1. listening = [s \in Slots |-> TRUE] /\ at = 1 /\ ticking = FALSE
      BY Zenon DEF Init
    <3>2. 1 \in Slots
      BY DEF Slots
    <3>3. ticking \in BOOLEAN
      BY <3>1, Zenon
    <3>4. listening \in [Slots -> BOOLEAN]
      BY <3>1, Zenon
    <3> QED
      BY <3>1, <3>2, <3>3, <3>4 DEF ServerTypes
  <2>2. KeyTypes
    <3>1. kbd = <<>> /\ stop = FALSE
      BY Zenon DEF Init
    <3>2. kbd \in Seq({"stop", "other"})
      BY <3>1
    <3>3. stop \in BOOLEAN
      BY <3>1, Zenon
    <3> QED
      BY <3>2, <3>3 DEF KeyTypes
  <2>3. PeerTypes
    BY DEF Init, PeerTypes
  <2> QED
    BY <2>1, <2>2, <2>3 DEF OtherTypes
<1> QED
  BY <1>1, <1>2, <1>3, <1>4, <1>7, <1>8, <1>9, <1>10 DEF IInv, Core, ListInv

LEMMA StopSeenType == StopSeen \in BOOLEAN
BY DEF StopSeen

LEMMA ReadKeyTypes ==
    ASSUME KeyTypes, ReadKey
    PROVE  KeyTypes'
<1>1. kbd # <<>> => Tail(kbd) \in Seq({"stop", "other"})
  BY DEF KeyTypes
<1>2. kbd' \in Seq({"stop", "other"})
  BY <1>1 DEF KeyTypes, ReadKey
<1>3. stop' \in BOOLEAN
  BY StopSeenType DEF ReadKey
<1> QED
  BY <1>2, <1>3 DEF KeyTypes

LEMMA ServerKeys ==
    ASSUME KeyTypes, Server
    PROVE  KeyTypes'
<1>1. CASE UNCHANGED keys
  BY <1>1 DEF KeyTypes, keys
<1>2. CASE ReadKey
  BY <1>2, ReadKeyTypes
<1>3. CASE Poll
  <2>1. CASE ReadKey
    BY <2>1, ReadKeyTypes
  <2>2. CASE Len(kbd) > 1 /\ kbd' = Tail(Tail(kbd)) /\ UNCHANGED stop
    <3>1. kbd \in Seq({"stop", "other"}) /\ kbd # <<>>
      BY <2>2 DEF KeyTypes
    <3>2. Tail(kbd) \in Seq({"stop", "other"}) /\ Tail(kbd) # <<>>
      <4>1. Tail(kbd) \in Seq({"stop", "other"}) /\ Len(Tail(kbd)) = Len(kbd) - 1
        BY <3>1
      <4>2. Len(kbd) \in Nat /\ Len(kbd) - 1 # 0
        BY <2>2, <3>1
      <4> QED
        BY <4>1, <4>2
    <3> HIDE <2>2
    <3>3. Tail(Tail(kbd)) \in Seq({"stop", "other"})
      BY <3>2
    <3> QED
      BY <2>2, <3>3 DEF KeyTypes
  <2> QED
    BY <1>3, <2>1, <2>2 DEF Poll
<1> QED
  BY <1>1, <1>2, <1>3
     DEF Server, AcceptTick, AcceptRestart, AcceptNone, Accept, RecvRequest, RecvWait, RecvAgain,
         RecvGone, RecvTimeout, SendStopped, SendWrite, SendBlocked, SendAgain, SendDone, SendGone,
         SendTimeout, Close, Closed, End, keys

LEMMA ServerServer ==
    ASSUME ServerTypes, Server, client \in Ends, pc = "close" => client \in Slots
    PROVE  ServerTypes'
<1>1. listening' \in [Slots -> BOOLEAN]
  BY DEF ServerTypes, Server, Poll, AcceptTick, AcceptRestart, AcceptNone, Accept, RecvRequest,
         RecvWait, RecvAgain, RecvGone, RecvTimeout, SendStopped, SendWrite, SendBlocked,
         SendAgain, SendDone, SendGone, SendTimeout, Close, Closed, End
<1>2. at' \in Slots
  <2>1. at \in Slots /\ 1 \in Slots /\ (at # NumSlots => at + 1 \in Slots)
    BY NumSlotsAssumption DEF ServerTypes, Slots
  <2> QED
    BY <2>1 DEF Server, Poll, AcceptTick, AcceptRestart, AcceptNone, Accept, RecvRequest,
         RecvWait, RecvAgain, RecvGone, RecvTimeout, SendStopped, SendWrite, SendBlocked,
         SendAgain, SendDone, SendGone, SendTimeout, Close, Closed, End, NextSlot
<1>3. ticking' \in BOOLEAN
  BY DEF Server, Poll, AcceptTick, AcceptRestart, AcceptNone, Accept, RecvRequest,
         RecvWait, RecvAgain, RecvGone, RecvTimeout, SendStopped, SendWrite, SendBlocked,
         SendAgain, SendDone, SendGone, SendTimeout, Close, Closed, End, NextSlot, Go, BeginTick
<1> QED
  BY <1>1, <1>2, <1>3 DEF ServerTypes

LEMMA AnswerTypes ==
    ASSUME PeerTypes, NEW c, NEW what \in {"synack", "fin", "rst"}, Answer(c, what)
    PROVE  PeerTypes'
BY DEF Answer, PeerTypes

LEMMA ServerPeers ==
    ASSUME Core, PeerTypes, Server
    PROVE  PeerTypes'
<1>1. CASE UNCHANGED network
  BY <1>1 DEF PeerTypes, network
<1>2. CASE SendWrite
  <2>1. /\ UNCHANGED <<heard, taken, served>>
        /\ \E n \in sent[tcb[client].peer] .. Len(stream'[tcb[client].peer]) :
              sent' = [sent EXCEPT ![tcb[client].peer] = n]
        /\ pc = "send" /\ tcb[client].state = "ESTAB"
    BY <1>2 DEF SendWrite, CanWrite
  <2>2. client \in Slots /\ tcb[client] \in Socket
    BY <2>1 DEF Core, CoreTypes, ClientInv, Ends
  <2>3. tcb[client].peer \in Conns
    BY <2>1, <2>2 DEF Core, SocketInv, Socket
  <2>4. sent[tcb[client].peer] \in Nat
    BY <2>3 DEF PeerTypes
  <2>5. \A n \in sent[tcb[client].peer] .. Len(stream'[tcb[client].peer]) : n \in Nat
    BY <2>4
  <2> QED
    BY <2>1, <2>5 DEF PeerTypes
<1>3. CASE Close
  <2>1. /\ UNCHANGED <<sent, taken, served>>
        /\ \/ heard' = heard
           \/ heard' = [heard EXCEPT ![tcb[client].peer] = @ \cup {"fin"}]
    BY <1>3 DEF Close
  <2> QED
    BY <2>1 DEF PeerTypes
<1>4. CASE RecvRequest
  <2>1. /\ UNCHANGED <<heard, sent, taken>> /\ served' = served \cup {tcb[client].rx}
        /\ pc = "recv" /\ tcb[client].rx # None
    BY <1>4 DEF RecvRequest
  <2>2. client \in Slots /\ tcb[client] \in Socket
    BY <2>1 DEF Core, CoreTypes, ClientInv, Ends
  <2>3. tcb[client].rx \in Conns
    BY <2>1, <2>2 DEF Socket
  <2> QED
    BY <2>1, <2>3 DEF PeerTypes
<1> QED
  BY <1>1, <1>2, <1>3, <1>4
     DEF Server, Poll, AcceptTick, AcceptRestart, AcceptNone, Accept, RecvWait, RecvAgain,
         RecvGone, RecvTimeout, SendStopped, SendBlocked, SendAgain, SendDone, SendGone,
         SendTimeout, Closed, End

LEMMA TickOther ==
    ASSUME Core, OtherTypes, Tick
    PROVE  OtherTypes'
<1>1. UNCHANGED <<listening, at, ticking, kbd, stop>>
  <2>1. ASSUME NEW c \in Conns, NEW s \in Slots, Arrival(s, c)
        PROVE  UNCHANGED <<listening, at, ticking, kbd, stop>>
    BY <2>1 DEF Arrival, Establish, Receive, Acknowledge, PeerFin, LastAck, PeerReset, Resend,
                Set, server, keys
  <2>2. ASSUME NEW c \in Conns, NewPeer(c) \/ NewPeerLate(c) \/ Refuse(c)
        PROVE  UNCHANGED <<listening, at, ticking, kbd, stop>>
    BY <2>2 DEF NewPeer, NewPeerLate, Refuse, Set, server, keys
  <2>3. ASSUME NEW s \in Slots, Expire(s) \/ Reap(s)
        PROVE  UNCHANGED <<listening, at, ticking, kbd, stop>>
    BY <2>3 DEF Expire, Reap, server, keys
  <2> QED
    BY <2>1, <2>2, <2>3, SMTT(30) DEF Tick
<1>2. ASSUME NEW c \in Conns, NEW s \in Slots, Resend(s, c) PROVE PeerTypes'
  <2>1. sent[c] \in Nat
    BY DEF OtherTypes, PeerTypes
  <2>2. \A n \in sent[c] + 1 .. Len(stream[c]) : n \in Nat
    BY <2>1
  <2>3. UNCHANGED <<heard, taken, served>> /\ \E n \in Nat : sent' = [sent EXCEPT ![c] = n]
    BY <1>2, <2>2 DEF Resend
  <2> QED
    BY <2>3 DEF OtherTypes, PeerTypes
<1>3. ASSUME UNCHANGED network PROVE PeerTypes'
  BY <1>3 DEF OtherTypes, PeerTypes, network
<1>4. ASSUME NEW c, NEW what \in {"synack", "fin", "rst"}, Answer(c, what) PROVE PeerTypes'
  BY <1>4, AnswerTypes DEF OtherTypes
<1>5. ASSUME NEW c \in Conns, NEW s \in Slots, Arrival(s, c) PROVE PeerTypes'
  BY <1>2, <1>3, <1>4, <1>5
     DEF Arrival, Establish, Receive, Acknowledge, PeerFin, LastAck, PeerReset
<1>6. PeerTypes'
  BY <1>3, <1>4, <1>5 DEF Tick, NewPeer, NewPeerLate, Refuse, Expire, Reap
<1> QED
  BY <1>1, <1>6 DEF OtherTypes, ServerTypes, KeyTypes

(* The browser only ever says more. *)
LEMMA BrowserInv ==
    ASSUME IInv, Browser
    PROVE  IInv'
<1>1. ASSUME NEW c \in Conns, NEW what \in {"syn", "ack", "req", "fin", "rst"}, Say(c, what)
      PROVE  IInv'
  <2>1. /\ UNCHANGED <<stack, server, keys, heard, stream, sent, taken, served>>
        /\ said' = [said EXCEPT ![c] = @ \cup {what}]
        /\ said \in [Conns -> SUBSET {"syn", "ack", "req", "fin", "rst"}]
    BY <1>1 DEF Say, IInv, Core, CoreTypes
  <2>2. /\ said' \in [Conns -> SUBSET {"syn", "ack", "req", "fin", "rst"}]
        /\ \A d \in Conns : said[d] \subseteq said'[d]
    BY <2>1
  <2>3. Core'
    BY <2>1, <2>2, BrowserCore DEF IInv, server
  <2> QED
    BY <2>1, <2>3 DEF IInv, OtherTypes, ServerTypes, KeyTypes, PeerTypes, server, keys
<1>2. ASSUME NEW c \in Conns, Take(c)
      PROVE  IInv'
  <2>1. /\ UNCHANGED <<stack, server, keys, said, heard, stream, sent, served>>
        /\ taken' = [taken EXCEPT ![c] = @ + 1] /\ taken \in [Conns -> Nat]
        /\ said \in [Conns -> SUBSET {"syn", "ack", "req", "fin", "rst"}]
    BY <1>2 DEF Take, IInv, OtherTypes, PeerTypes, Core, CoreTypes
  <2>2. Core'
    BY <2>1, BrowserCore DEF IInv, server
  <2>3. taken' \in [Conns -> Nat]
    BY <2>1
  <2> QED
    BY <2>1, <2>2, <2>3 DEF IInv, OtherTypes, ServerTypes, KeyTypes, PeerTypes, server, keys
<1> QED
  BY <1>1, <1>2 DEF Browser, Connect, Handshake, Request, Finish, Reset

LEMMA NextInv == IInv /\ [Next]_vars => IInv'
<1> SUFFICES ASSUME IInv, [Next]_vars PROVE IInv'
  OBVIOUS
<1>0. Core /\ OtherTypes /\ at \in Slots /\ taken \in [Conns -> Nat] /\ client \in Ends
      /\ said \in [Conns -> SUBSET {"syn", "ack", "req", "fin", "rst"}]
  BY DEF IInv, OtherTypes, ServerTypes, PeerTypes, Core, CoreTypes
<1>1. CASE Server
  <2>1. pc = "close" => client \in Slots
    BY <1>0 DEF Core, ClientInv, Ends
  <2>2. Core'
    BY <1>0, <1>1, ServerCore
  <2>3. ServerTypes' /\ KeyTypes' /\ PeerTypes'
    BY <1>0, <1>1, <2>1, ServerServer, ServerKeys, ServerPeers DEF OtherTypes
  <2> QED
    BY <2>2, <2>3 DEF IInv, OtherTypes
<1>2. CASE Tick
  BY <1>0, <1>2, TickCore, TickOther DEF IInv
<1>3. CASE Browser
  BY <1>3, BrowserInv
<1>4. ASSUME NEW k \in {"stop", "other"}, Press(k)
      PROVE  IInv'
  <2>1. UNCHANGED <<stack, server, stop, network>> /\ kbd' = Append(kbd, k)
    BY <1>4 DEF Press
  <2>2. Core'
    BY <1>0, <2>1, BrowserCore DEF server, network
  <2>3. KeyTypes'
    BY <1>0, <2>1 DEF OtherTypes, KeyTypes
  <2> QED
    BY <1>0, <2>1, <2>2, <2>3 DEF IInv, OtherTypes, ServerTypes, PeerTypes, server, network
<1>5. CASE UNCHANGED vars
  <2>1. UNCHANGED <<stack, server, keys, network>>
    BY <1>5 DEF vars
  <2>2. Core'
    BY <1>0, <2>1, BrowserCore DEF server, network
  <2> QED
    BY <1>0, <2>1, <2>2 DEF IInv, OtherTypes, ServerTypes, KeyTypes, PeerTypes, server, keys, network
<1> QED
  BY <1>1, <1>2, <1>3, <1>4, <1>5 DEF Next

LEMMA Inductive == Spec => []IInv
BY InitInv, NextInv, PTL DEF Spec

LEMMA IInvImplies ==
    IInv => TypeOK /\ ListEnds /\ OneSocketPerPeer /\ StretchOfOneReply /\ MixedOnlyAfterReset
<1> SUFFICES ASSUME IInv
             PROVE  TypeOK /\ ListEnds /\ OneSocketPerPeer /\ StretchOfOneReply /\ MixedOnlyAfterReset
  OBVIOUS
<1>1. lost \in 0 .. Buffers
  <2>1. Cardinality(Owners) \in Nat /\ lost \in Nat /\ lost + Cardinality(Owners) <= Buffers
    BY OwnersCount DEF IInv, Core, CoreTypes, BuffersInv, Owners
  <2> QED
    BY <2>1, SizesAssumption
<1>2. TypeOK
  BY <1>1 DEF IInv, Core, CoreTypes, ListInv, LinksTyped, OtherTypes, ServerTypes, KeyTypes,
              PeerTypes, TypeOK, Socket, Segments, Ends
<1>3. ListEnds
  BY ChainIsThreaded DEF ChainsThread, IInv, Core, ListInv
<1> QED
  BY <1>2, <1>3 DEF IInv, Core

-----------------------------------------------------------------------------
(* Every variable of the server keeps its type; no more send buffers are   *)
(* lost than the far heap holds (tcp_set_window, listen_again).            *)
THEOREM SlotTypes == Spec => []TypeOK
BY Inductive, IInvImplies, PTL

(* The walks of _tcp_handler and tcp_Retransmitter along _tcp_allsocs end, *)
(* for any number of slots, although listen_again wipes linked sockets.    *)
THEOREM TheListEnds == Spec => []ListEnds
BY Inductive, IInvImplies, PTL

(* tcp_listen and _tcp_handler never give a connection two sockets.        *)
THEOREM OneSocket == Spec => []OneSocketPerPeer
BY Inductive, IInvImplies, PTL

(* znet_send writes to a connection one stretch of one reply, in order,    *)
(* whatever the network does.                                              *)
THEOREM OneReply == Spec => []StretchOfOneReply
BY Inductive, IInvImplies, PTL

(* A reply meant for another connection is only written after the other    *)
(* one's reset, which tcp_sockreset turns into a socket that listens.      *)
THEOREM OwnReplyUnlessReset == Spec => []MixedOnlyAfterReset
BY Inductive, IInvImplies, PTL

-----------------------------------------------------------------------------
(* ListenSlots implements Replies.  What Core lacks for it is where a      *)
(* request is: in no socket and never read, then in the receive buffer of  *)
(* one socket, then read, once and for all.                                *)
Unread(c) == c \notin served /\ \A s \in Slots : tcb[s].rx # c

AskedInv == \A c \in Conns :
    /\ "req" \in said[c] => "ack" \in said[c]
    /\ "req" \in said[c] \/ Unread(c)
HolderInv == \A s \in Slots : tcb[s].rx # None =>
    /\ tcb[s].rx \notin served
    /\ \A t \in Slots : tcb[t].rx = tcb[s].rx => t = s
WaitingInv == \A s \in Threaded : tcb[s].peer # None /\ ~tcb[s].got => Unread(tcb[s].peer)
JobInv == /\ job = None => left = 0
          /\ job # None => job \in served

(* Segments belong to requests that were read; while a reply goes to the   *)
(* connection that asked, no other connection has any of it.  (That may    *)
(* have ended when a late SYN gives the client's socket its peer again;    *)
(* nothing can be written to the socket then.)                             *)
TagInv == \A c \in Conns : \A i \in 1 .. Len(stream[c]) : stream[c][i][1] \in served
NotIn(j, d) == \A i \in 1 .. Len(stream[d]) : stream[d][i][1] # j
Mute(s) == tcb[s].state \in {"SYNOLD", "CLOSED"}
WholeInv == pc = "send" /\ tcb[client].peer = job /\ ~Mute(client) =>
                \A d \in Conns \ {job} : NotIn(job, d)

Requests == AskedInv /\ HolderInv /\ WaitingInv /\ JobInv /\ TagInv /\ WholeInv

LEMMA InitRequests == Init => Requests
<1> SUFFICES ASSUME Init PROVE Requests
  OBVIOUS
<1>1. IInv
  BY InitInv
<1>2. \A s \in Slots : tcb[s] = Fresh
  BY DEF Init
<1>3. Fresh.rx = None /\ Fresh.peer = None
  BY DEF Fresh
<1>4. \A c \in Conns : Unread(c) /\ said[c] = {}
  BY <1>2, <1>3, NoneAssumption DEF Init, Unread
<1>5. AskedInv /\ HolderInv
  BY <1>2, <1>3, <1>4 DEF AskedInv, HolderInv
<1>6. WaitingInv
  BY <1>1, <1>2, <1>3, InSlots DEF WaitingInv, IInv, Core
<1>7. JobInv /\ TagInv /\ WholeInv
  BY DEF Init, JobInv, TagInv, WholeInv
<1> QED
  BY <1>5, <1>6, <1>7 DEF Requests

(* No socket gets a peer, a request, or a place in the list from which it  *)
(* waits for one.                                                          *)
NothingNew ==
    /\ \A s \in Slots : tcb'[s].rx \in {None, tcb[s].rx} /\ tcb'[s].peer \in {None, tcb[s].peer}
    /\ \A s \in Threaded' : tcb'[s].peer # None /\ ~tcb'[s].got => s \in Threaded /\ ~tcb[s].got
    /\ pc' = "send" => \A s \in Slots : tcb'[s].peer # None /\ Mute(s) => Mute(s)'

SaysMore == \A c \in Conns : /\ said[c] \subseteq said'[c]
                             /\ "req" \in said'[c] => "ack" \in said'[c]

LEMMA QuietRequests ==
    ASSUME Core, Core', Requests, NothingNew, SaysMore, UNCHANGED <<served, stream>>,
           UNCHANGED <<job, left>> \/ (job' = None /\ left' = 0),
           pc' = "send" => pc = "send" /\ UNCHANGED <<client, job>>
    PROVE  Requests'
<1>1. Threaded' \subseteq Slots
  <2>1. (ListInv => Threaded \subseteq Slots)'
    BY InSlots, PTL
  <2> QED
    BY <2>1 DEF Core
<1>2. \A c \in Conns : Unread(c) => Unread(c)'
  BY NoneAssumption DEF Unread, NothingNew
<1>3. AskedInv'
  BY <1>2 DEF Requests, AskedInv, SaysMore
<1>4. HolderInv'
  BY DEF Requests, HolderInv, NothingNew
<1>5. WaitingInv'
  <2> SUFFICES ASSUME NEW s \in Threaded', tcb'[s].peer # None, ~tcb'[s].got
               PROVE  Unread(tcb[s].peer)' /\ tcb'[s].peer = tcb[s].peer
    BY DEF WaitingInv, Unread
  <2>1. s \in Threaded /\ s \in Slots /\ ~tcb[s].got /\ tcb'[s].peer = tcb[s].peer
    BY <1>1 DEF NothingNew
  <2>2. Unread(tcb[s].peer)
    BY <2>1 DEF Requests, WaitingInv
  <2>3. tcb[s].peer \in Conns
    BY <2>1 DEF Core, CoreTypes, Socket
  <2> QED
    BY <1>2, <2>1, <2>2, <2>3 DEF Unread
<1>6. JobInv' /\ TagInv'
  BY DEF Requests, JobInv, TagInv
<1>7. WholeInv'
  <2> SUFFICES ASSUME pc' = "send", tcb'[client'].peer = job', ~Mute(client)'
               PROVE  \A d \in Conns \ {job'} : NotIn(job, d)
    BY DEF WholeInv, NotIn
  <2>1. pc = "send" /\ client \in Slots /\ job # None
    BY DEF Core, CoreTypes, ClientInv, Ends
  <2>2. tcb[client].peer = job /\ ~Mute(client)
    BY <2>1 DEF NothingNew, Mute
  <2> QED
    BY <2>1, <2>2 DEF Requests, WholeInv
<1> QED
  BY <1>3, <1>4, <1>5, <1>6, <1>7 DEF Requests

LEMMA SameSays ==
    ASSUME Requests, UNCHANGED said
    PROVE  SaysMore
BY DEF Requests, AskedInv, SaysMore

(* What makes nothing new of the sockets. *)
LEMMA SameSockets ==
    ASSUME UNCHANGED stack
    PROVE  NothingNew
<1>1. UNCHANGED <<tcb, head, next>>
  BY DEF stack
<1>2. Threaded' = Threaded
  BY <1>1, SameList
<1> QED
  BY <1>1, <1>2 DEF NothingNew, Mute

LEMMA OneSocketChanges ==
    ASSUME Core, NEW s \in Slots, NEW b, tcb' = [tcb EXCEPT ![s] = b],
           Threaded' \subseteq Threaded \cup {s}, Threaded' \subseteq Slots,
           b.rx \in {None, tcb[s].rx}, b.peer \in {None, tcb[s].peer},
           b.peer # None /\ ~b.got => ~tcb[s].got /\ (s \in Threaded' => s \in Threaded),
           pc' = "send" /\ b.peer # None /\ Mute(s) => b.state \in {"SYNOLD", "CLOSED"}
    PROVE  NothingNew
<1>1. tcb'[s] = b /\ \A t \in Slots \ {s} : tcb'[t] = tcb[t]
  BY DEF Core, CoreTypes
<1> QED
  BY <1>1 DEF NothingNew, Mute

LEMMA DroppedSocket ==
    ASSUME Core, NEW s \in Slots, Drop(s)
    PROVE  NothingNew
<1> DEFINE b == [tcb[s] EXCEPT !.state = "CLOSED", !.live = FALSE, !.own = FALSE]
<1>1. tcb \in [Slots -> Socket] /\ tcb[s] \in Socket
  BY DEF Core, CoreTypes
<1>2. b.peer = tcb[s].peer /\ b.rx = tcb[s].rx /\ b.got = tcb[s].got /\ b.state = "CLOSED"
  BY <1>1 DEF Socket
<1>3. tcb' = [tcb EXCEPT ![s] = b]
  BY <1>1 DEF Drop
<1>4. Threaded' = Threaded \ {s} /\ Threaded \subseteq Slots
  BY DropChain, InSlots DEF Core
<1> HIDE DEF b
<1> QED
  BY <1>2, <1>3, <1>4, OneSocketChanges

LEMMA RelistedSocket ==
    ASSUME Core, NEW s \in Slots, Relist(s)
    PROVE  NothingNew
<1>1. tcb' = [tcb EXCEPT ![s] = Fresh] /\ Fresh.rx = None /\ Fresh.peer = None
  BY DEF Relist, Fresh
<1>2. Threaded' \subseteq Threaded \cup {s} /\ Threaded \subseteq Slots
  BY RelistChain, InSlots DEF Core
<1> QED
  BY <1>1, <1>2, OneSocketChanges

LEMMA TickedSocket ==
    ASSUME Core, NEW s \in Slots, BeginTick(s)
    PROVE  NothingNew
BY DroppedSocket, SameSockets DEF BeginTick

LEMMA ClosedSocket ==
    ASSUME Core, Close
    PROVE  NothingNew
<1>1. client \in Slots /\ tcb \in [Slots -> Socket] /\ tcb[client] \in Socket
  BY DEF Close, Core, CoreTypes, ClientInv, Ends
<1>2. CASE Over(client)
  BY <1>1, <1>2, DroppedSocket DEF Close
<1>3. CASE ~Over(client)
  <2> DEFINE b == IF tcb[client].live THEN Closing(tcb[client]) ELSE tcb[client]
  <2>1. tcb' = [tcb EXCEPT ![client] = b] /\ UNCHANGED <<head, next>>
    BY <1>1, <1>3 DEF Close
  <2>2. b.peer = tcb[client].peer /\ b.rx = tcb[client].rx /\ b.got = tcb[client].got
    BY <1>1 DEF Closing, Socket
  <2>3. Threaded' = Threaded /\ Threaded \subseteq Slots
    BY <2>1, SameList, InSlots DEF Core
  <2>4. pc' # "send"
    BY DEF Close
  <2> HIDE DEF b
  <2> QED
    BY <1>1, <2>1, <2>2, <2>3, <2>4, OneSocketChanges
<1> QED
  BY <1>2, <1>3

LEMMA EndedSockets ==
    ASSUME Core, End
    PROVE  NothingNew
<1>1. tcb \in [Slots -> Socket] /\ UNCHANGED <<head, next>>
      /\ tcb' = [s \in Slots |-> IF listening[s] /\ tcb[s].live THEN Closing(tcb[s]) ELSE tcb[s]]
  BY DEF End, Core, CoreTypes
<1>2. \A s \in Slots : tcb'[s].peer = tcb[s].peer /\ tcb'[s].rx = tcb[s].rx /\ tcb'[s].got = tcb[s].got
  <2>1. ASSUME NEW b \in Socket PROVE Closing(b).peer = b.peer /\ Closing(b).rx = b.rx /\ Closing(b).got = b.got
    BY DEF Closing, Socket
  <2> QED
    BY <1>1, <2>1
<1>3. Threaded' = Threaded /\ Threaded \subseteq Slots
  BY <1>1, SameList, InSlots DEF Core
<1>4. pc' # "send"
  BY DEF End, Go
<1> QED
  BY <1>2, <1>3, <1>4 DEF NothingNew

LEMMA SocketIsSet ==
    ASSUME Core, NEW s \in Slots, NEW b, Set(s, b),
           b.rx \in {None, tcb[s].rx}, b.peer \in {None, tcb[s].peer},
           b.peer # None => b.got = tcb[s].got,
           b.peer # None /\ Mute(s) => b.state \in {"SYNOLD", "CLOSED"}
    PROVE  NothingNew
<1>1. tcb' = [tcb EXCEPT ![s] = b] /\ Threaded' = Threaded /\ Threaded \subseteq Slots
  BY SameList, InSlots DEF Set, Core
<1> QED
  BY <1>1, OneSocketChanges

LEMMA QuietArrival ==
    ASSUME Core, NEW c \in Conns, NEW s \in Slots, Arrival(s, c), ~Receive(s, c)
    PROVE  NothingNew
<1>1. tcb \in [Slots -> Socket] /\ tcb[s] \in Socket
  BY DEF Core, CoreTypes
<1>2. \A b \in Windowed(tcb[s]) : /\ b.rx = tcb[s].rx /\ b.peer = tcb[s].peer /\ b.got = tcb[s].got
                                  /\ b \in Socket
  BY <1>1 DEF Windowed, Socket
<1>3. ASSUME NEW b \in Socket, NEW what, b.rx = tcb[s].rx, b.peer = tcb[s].peer, b.got = tcb[s].got,
             Set(s, [b EXCEPT !.state = what]), ~Mute(s)
      PROVE  NothingNew
  BY <1>3, SocketIsSet DEF Socket
<1>4. CASE Establish(s, c)
  BY <1>2, <1>3, <1>4 DEF Establish, Mute
<1>5. CASE Acknowledge(s, c)
  <2>1. PICK w \in Windowed(tcb[s]) :
           \/ Set(s, [[w EXCEPT !.acked = taken[c]] EXCEPT !.state = "FINWT"])
           \/ Set(s, [w EXCEPT !.acked = taken[c]])
    BY <1>5 DEF Acknowledge
  <2>2. w \in Socket /\ w.rx = tcb[s].rx /\ w.peer = tcb[s].peer /\ w.got = tcb[s].got
    BY <1>2
  <2> DEFINE v == [w EXCEPT !.acked = taken[c]]
             u == [v EXCEPT !.state = "FINWT"]
  <2>3. v.rx = tcb[s].rx /\ v.peer = tcb[s].peer /\ v.got = tcb[s].got
        /\ u.rx = tcb[s].rx /\ u.peer = tcb[s].peer /\ u.got = tcb[s].got
    BY <2>2 DEF Socket
  <2>4. (Set(s, u) \/ Set(s, v)) /\ ~Mute(s)
    BY <1>5, <2>1 DEF Acknowledge, Mute
  <2> HIDE DEF u, v
  <2> QED
    BY <2>3, <2>4, SocketIsSet
<1>6. CASE PeerFin(s, c) \/ LastAck(s, c)
  BY <1>1, <1>3, <1>6 DEF PeerFin, LastAck, Mute
<1>7. CASE PeerReset(s, c)
  <2> DEFINE b == [Fresh EXCEPT !.live = tcb[s].live, !.own = tcb[s].own,
                            !.rx = IF tcb[s].state \in {"LASTACK", "CLOSED"}
                                   THEN tcb[s].rx ELSE None]
  <2>1. Set(s, b) /\ b.peer = None /\ b.rx \in {None, tcb[s].rx}
    BY <1>7 DEF PeerReset, Fresh
  <2> HIDE DEF b
  <2> QED
    BY <2>1, SocketIsSet
<1>8. CASE Resend(s, c)
  BY <1>8, SameSockets DEF Resend
<1> QED
  BY <1>4, <1>5, <1>6, <1>7, <1>8 DEF Arrival

-----------------------------------------------------------------------------
(* The three steps of a request, and a new connection.                     *)
LEMMA TakesPeerRequests ==
    ASSUME Core, Core', Requests, NEW c \in Conns, NEW s \in Threaded, NEW b,
           tcb[s].peer = None, tcb' = [tcb EXCEPT ![s] = b],
           UNCHANGED <<head, next, client, pc, job, left, said, stream, served>>,
           b.peer = c, b.rx = tcb[s].rx,
           "ack" \notin said[c] \/ (b.got /\ b.state = "SYNOLD")
    PROVE  Requests'
<1>1. UNCHANGED <<head, next, client, pc, job, left, said, stream, served>>
  OBVIOUS
<1>2. Threaded \subseteq Slots /\ tcb \in [Slots -> Socket]
  BY InSlots DEF Core, CoreTypes
<1>4. tcb'[s] = b /\ \A t \in Slots \ {s} : tcb'[t] = tcb[t]
  BY <1>2
<1>5. Threaded' = Threaded /\ \A t \in Slots : tcb'[t].rx = tcb[t].rx
  BY <1>1, <1>4, SameList
<1>6. \A d : Unread(d) => Unread(d)'
  BY <1>1, <1>5 DEF Unread
<1>7. Unread(c) \/ (b.got /\ b.state = "SYNOLD")
  BY DEF Requests, AskedInv
<1>8. AskedInv' /\ HolderInv' /\ JobInv' /\ TagInv'
  BY <1>1, <1>5, <1>6 DEF Requests, AskedInv, HolderInv, JobInv, TagInv
<1>9. WaitingInv'
  <2> SUFFICES ASSUME NEW t \in Threaded, tcb'[t].peer # None, ~tcb'[t].got
               PROVE  Unread(tcb'[t].peer)
    BY <1>1, <1>5 DEF WaitingInv, Unread
  <2>1. CASE t = s
    BY <1>4, <1>7, <2>1
  <2>2. CASE t # s
    BY <1>2, <1>4, <2>2 DEF Requests, WaitingInv
  <2> QED
    BY <2>1, <2>2
<1>10. WholeInv'
  <2> SUFFICES ASSUME pc = "send", tcb'[client].peer = job, ~Mute(client)'
               PROVE  \A d \in Conns \ {job} : NotIn(job, d)
    BY <1>1 DEF WholeInv, NotIn
  <2>1. client \in Slots /\ job # None /\ job \in served
    BY DEF Core, CoreTypes, ClientInv, Ends, Requests, JobInv
  <2>2. client # s
    <3> SUFFICES ASSUME client = s PROVE FALSE
      OBVIOUS
    <3>1. c = job /\ b.state # "SYNOLD"
      BY <1>1, <1>4 DEF Mute
    <3> QED
      BY <1>7, <2>1, <3>1 DEF Unread
  <2>3. tcb[client].peer = job /\ ~Mute(client)
    BY <1>1, <1>4, <2>1, <2>2 DEF Mute
  <2> QED
    BY <2>3 DEF Requests, WholeInv
<1> QED
  BY <1>8, <1>9, <1>10 DEF Requests

LEMMA NewPeerRequests ==
    ASSUME Core, Core', Requests, NEW c \in Conns, NewPeer(c) \/ NewPeerLate(c)
    PROVE  Requests'
<1> DEFINE s == FirstFree
           new == [tcb[s] EXCEPT !.peer = c, !.state = "SYNREC"]
           old == [tcb[s] EXCEPT !.peer = c, !.state = "SYNOLD", !.got = TRUE,
                                 !.acked = Len(stream[c])]
<1>1. /\ Free # {}
      /\ UNCHANGED <<head, next, client, pc, job, left, said, stream, served>>
      /\ \/ "ack" \notin said[c] /\ tcb' = [tcb EXCEPT ![s] = new]
         \/ tcb' = [tcb EXCEPT ![s] = old]
  BY DEF NewPeer, NewPeerLate, Set, Answer, server
<1>2. s \in Threaded /\ s \in Slots /\ tcb[s].peer = None
  BY <1>1, FirstFreeIs, InSlots DEF Core
<1> HIDE DEF s
<1>3. tcb[s] \in Socket
  BY <1>2 DEF Core, CoreTypes
<1>4. new.peer = c /\ new.rx = tcb[s].rx
  BY <1>3 DEF Socket
<1>5. old.peer = c /\ old.rx = tcb[s].rx /\ old.got /\ old.state = "SYNOLD"
  BY <1>3 DEF Socket
<1> HIDE DEF new, old
<1> QED
  BY <1>1, <1>2, <1>4, <1>5, TakesPeerRequests

LEMMA ReceiveRequests ==
    ASSUME Core, Core', Requests, NEW c \in Conns, NEW s \in Slots, s \in Match(c), Receive(s, c)
    PROVE  Requests'
<1>1. PICK w \in Windowed(tcb[s]) :
         tcb' = [tcb EXCEPT ![s] = [w EXCEPT !.got = TRUE, !.rx = IF @ = None THEN c ELSE @]]
  BY DEF Receive, Set
<1>2. /\ "req" \in said[c] /\ ~tcb[s].got
      /\ UNCHANGED <<head, next, client, pc, job, left, said, stream, served>>
  BY DEF Receive, Set, server, network
<1> DEFINE b == [w EXCEPT !.got = TRUE, !.rx = IF @ = None THEN c ELSE @]
<1>3. tcb \in [Slots -> Socket] /\ tcb[s] \in Socket /\ s \in Threaded /\ tcb[s].peer = c
      /\ Threaded \subseteq Slots /\ c # None
  BY InSlots, NoneAssumption DEF Core, CoreTypes, Match
<1>4. w \in Socket /\ w.rx = tcb[s].rx /\ w.peer = c /\ w.state = tcb[s].state
  BY <1>3 DEF Windowed, Socket
<1>5. b.peer = c /\ b.got /\ b.state = tcb[s].state /\ b.rx = IF tcb[s].rx = None THEN c ELSE tcb[s].rx
  BY <1>4 DEF Socket
<1>6. tcb'[s] = b /\ \A t \in Slots \ {s} : tcb'[t] = tcb[t]
  BY <1>1, <1>3
<1> HIDE DEF b
<1>7. Threaded' = Threaded
  BY <1>2, SameList
<1>8. Unread(c)
  BY <1>2, <1>3 DEF Requests, WaitingInv
<1>9. \A d \in Conns \ {c} : Unread(d) => Unread(d)'
  BY <1>2, <1>5, <1>6 DEF Unread
<1>10. AskedInv'
  BY <1>2, <1>9 DEF Requests, AskedInv
<1>11. HolderInv'
  BY <1>2, <1>3, <1>5, <1>6, <1>8 DEF Requests, HolderInv, Unread
<1>12. WaitingInv'
  <2> SUFFICES ASSUME NEW t \in Threaded, tcb'[t].peer # None, ~tcb'[t].got
               PROVE  Unread(tcb[t].peer)' /\ tcb'[t].peer = tcb[t].peer
    BY <1>7 DEF WaitingInv, Unread
  <2>1. t # s /\ t \in Slots /\ tcb'[t] = tcb[t]
    BY <1>3, <1>5, <1>6
  <2>2. tcb[t].peer # c /\ tcb[t].peer \in Conns
    BY <1>3, <2>1 DEF Core, CoreTypes, Socket, OneSocketPerPeer
  <2>3. Unread(tcb[t].peer)
    BY <2>1 DEF Requests, WaitingInv
  <2> QED
    BY <1>9, <2>1, <2>2, <2>3 DEF Unread
<1>13. JobInv' /\ TagInv'
  BY <1>2 DEF Requests, JobInv, TagInv
<1>14. WholeInv'
  <2> SUFFICES ASSUME pc = "send", tcb'[client].peer = job, ~Mute(client)'
               PROVE  \A d \in Conns \ {job} : NotIn(job, d)
    BY <1>2 DEF WholeInv, NotIn
  <2>1. client \in Slots
    BY DEF Core, CoreTypes, ClientInv, Ends
  <2>2. tcb[client].peer = job /\ ~Mute(client)
    BY <1>2, <1>3, <1>5, <1>6, <2>1 DEF Mute
  <2> QED
    BY <2>2 DEF Requests, WholeInv
<1> QED
  BY <1>10, <1>11, <1>12, <1>13, <1>14 DEF Requests

LEMMA RecvRequestRequests ==
    ASSUME Core, Core', Requests, RecvRequest
    PROVE  Requests'
<1> DEFINE r == tcb[client].rx
<1>1. /\ pc = "recv" /\ r # None /\ tcb' = [tcb EXCEPT ![client].rx = None]
      /\ job' = r /\ served' = served \cup {r}
      /\ UNCHANGED <<head, next, client, said, stream>>
  BY DEF RecvRequest
<1>2. client \in Slots /\ tcb \in [Slots -> Socket] /\ tcb[client] \in Socket
  BY <1>1 DEF Core, CoreTypes, ClientInv, Ends
<1>3. /\ tcb'[client].rx = None
      /\ \A t \in Slots : tcb'[t].peer = tcb[t].peer /\ tcb'[t].got = tcb[t].got
      /\ \A t \in Slots \ {client} : tcb'[t].rx = tcb[t].rx
  BY <1>1, <1>2 DEF Socket
<1>4. Threaded' = Threaded /\ Threaded \subseteq Slots
  BY <1>1, SameList, InSlots DEF Core
<1>5. r \in Conns /\ r \notin served /\ ~Unread(r) /\ \A t \in Slots : tcb[t].rx = r => t = client
  BY <1>1, <1>2 DEF Requests, HolderInv, Unread, Socket
<1> HIDE DEF r
<1>6. \A d : Unread(d) => d # r
  BY <1>5
<1>7. \A d \in Conns : Unread(d) => Unread(d)'
  BY <1>1, <1>3, <1>6, NoneAssumption DEF Unread
<1>8. AskedInv'
  BY <1>1, <1>7 DEF Requests, AskedInv
<1>9. HolderInv'
  BY <1>1, <1>3, <1>5 DEF Requests, HolderInv
<1>10. WaitingInv'
  <2> SUFFICES ASSUME NEW t \in Threaded, tcb[t].peer # None, ~tcb[t].got
               PROVE  Unread(tcb[t].peer)' /\ tcb'[t].peer = tcb[t].peer
    BY <1>3, <1>4 DEF WaitingInv, Unread
  <2>1. Unread(tcb[t].peer) /\ tcb[t].peer \in Conns /\ tcb'[t].peer = tcb[t].peer
    BY <1>3, <1>4 DEF Requests, WaitingInv, Core, CoreTypes, Socket
  <2> QED
    BY <1>7, <2>1 DEF Unread
<1>11. JobInv' /\ TagInv'
  BY <1>1 DEF Requests, JobInv, TagInv
<1>12. WholeInv'
  <2>1. \A d \in Conns : NotIn(r, d)
    BY <1>5 DEF Requests, TagInv, NotIn
  <2> QED
    BY <1>1, <2>1 DEF WholeInv, NotIn
<1> QED
  BY <1>8, <1>9, <1>10, <1>11, <1>12 DEF Requests

LEMMA SendWriteRequests ==
    ASSUME Core, Core', Requests, SendWrite
    PROVE  Requests'
<1> DEFINE c == tcb[client].peer
<1>1. /\ pc = "send" /\ pc' = "send" /\ left > 0 /\ left' = left - 1 /\ CanWrite
      /\ stream' = [stream EXCEPT ![c] = Append(@, <<job, left>>)]
      /\ BeginTick(client) /\ UNCHANGED <<client, job, said, served>>
  BY DEF SendWrite
<1>2. /\ client \in Slots /\ tcb \in [Slots -> Socket] /\ tcb[client] \in Socket /\ job # None
      /\ stream \in [Conns -> Seq(Segments)] /\ left \in Nat /\ job \in served
  BY <1>1, SizesAssumption
     DEF Core, CoreTypes, ClientInv, Ends, Requests, JobInv
<1>3. c \in Conns /\ ~Over(client)
  BY <1>1, <1>2 DEF CanWrite, Over, Core, SocketInv, Socket
<1>4. UNCHANGED stack
  BY <1>1, <1>3 DEF BeginTick
<1> HIDE DEF c
<1>5. tcb' = tcb /\ Threaded' = Threaded
  BY <1>4, SameList DEF stack
<1>6. AskedInv' /\ HolderInv' /\ WaitingInv' /\ JobInv'
  BY <1>1, <1>2, <1>5 DEF Requests, AskedInv, HolderInv, WaitingInv, JobInv, Unread
<1>7. /\ \A d \in Conns \ {c} : stream'[d] = stream[d]
      /\ stream'[c] = Append(stream[c], <<job, left>>) /\ stream[c] \in Seq(Segments)
  BY <1>1, <1>2, <1>3
<1>8. /\ Len(stream'[c]) = Len(stream[c]) + 1 /\ Len(stream[c]) \in Nat
      /\ stream'[c][Len(stream[c]) + 1] = <<job, left>>
      /\ \A i \in 1 .. Len(stream[c]) : stream'[c][i] = stream[c][i]
  BY <1>7
<1>9. TagInv'
  <2> SUFFICES ASSUME NEW d \in Conns, NEW i \in 1 .. Len(stream'[d])
               PROVE  stream'[d][i][1] \in served
    BY <1>1 DEF TagInv
  <2>1. CASE d # c
    BY <1>7, <2>1 DEF Requests, TagInv
  <2>2. CASE d = c /\ i \in 1 .. Len(stream[c])
    BY <1>3, <1>8, <2>2 DEF Requests, TagInv
  <2>3. CASE d = c /\ i \notin 1 .. Len(stream[c])
    <3>1. i = Len(stream[c]) + 1
      BY <1>8, <2>3
    <3> QED
      BY <1>2, <1>8, <2>3, <3>1
  <2> QED
    BY <2>1, <2>2, <2>3
<1>10. WholeInv'
  <2> SUFFICES ASSUME c = job, NEW d \in Conns \ {job} PROVE stream'[d] = stream[d] /\ NotIn(job, d)
    BY <1>1, <1>5 DEF WholeInv, NotIn, c
  <2>1. ~Mute(client)
    BY <1>1 DEF CanWrite, Mute
  <2> QED
    BY <1>1, <1>7, <2>1 DEF Requests, WholeInv, c
<1> QED
  BY <1>6, <1>9, <1>10 DEF Requests

-----------------------------------------------------------------------------
LEMMA ServerRequests ==
    ASSUME IInv, Core', Requests, Server
    PROVE  Requests'
<1>0. Core /\ at \in Slots
  BY DEF IInv, OtherTypes, ServerTypes
<1>1. client \in Ends /\ (pc \in {"recv", "send", "close"} => client \in Slots)
  BY <1>0 DEF Core, CoreTypes, ClientInv, Ends
<1>2. ASSUME NothingNew, UNCHANGED <<served, stream, said>>,
             UNCHANGED <<job, left>> \/ (job' = None /\ left' = 0),
             pc' = "send" => pc = "send" /\ UNCHANGED <<client, job>>
      PROVE  Requests'
  BY <1>0, <1>2, SameSays, QuietRequests
<1>3. CASE Poll \/ AcceptNone \/ Accept
  BY <1>2, <1>3, SameSockets DEF Poll, AcceptNone, Accept, NextSlot, Go, network
<1>4. CASE AcceptTick
  BY <1>0, <1>2, <1>4, TickedSocket DEF AcceptTick, network
<1>5. CASE AcceptRestart
  BY <1>0, <1>2, <1>5, RelistedSocket DEF AcceptRestart, NextSlot, Go, network
<1>6. CASE RecvRequest
  BY <1>0, <1>6, RecvRequestRequests
<1>7. CASE RecvWait
  <2>1. CASE StopSeen
    BY <1>2, <1>7, <2>1, SameSockets DEF RecvWait, Go, network
  <2>2. CASE ~StopSeen
    BY <1>0, <1>1, <1>2, <1>7, <2>2, TickedSocket DEF RecvWait, network
  <2> QED
    BY <2>1, <2>2
<1>8. CASE RecvAgain \/ RecvGone \/ RecvTimeout
  BY <1>2, <1>8, SameSockets DEF RecvAgain, RecvGone, RecvTimeout, Go, network
<1>9. CASE SendStopped \/ SendAgain \/ SendDone \/ SendGone \/ SendTimeout
  BY <1>2, <1>9, SameSockets
     DEF SendStopped, SendAgain, SendDone, SendGone, SendTimeout, Go, network
<1>10. CASE SendWrite
  BY <1>0, <1>10, SendWriteRequests
<1>11. CASE SendBlocked
  BY <1>0, <1>1, <1>2, <1>11, TickedSocket DEF SendBlocked, network
<1>12. CASE Close
  BY <1>0, <1>2, <1>12, ClosedSocket DEF Close
<1>13. CASE Closed
  BY <1>0, <1>1, <1>2, <1>13, RelistedSocket DEF Closed, Go, network
<1>14. CASE End
  BY <1>0, <1>2, <1>14, EndedSockets DEF End, Go, network
<1> QED
  BY <1>3, <1>4, <1>5, <1>6, <1>7, <1>8, <1>9, <1>10, <1>11, <1>12, <1>13, <1>14 DEF Server

LEMMA TickRequests ==
    ASSUME Core, Core', Requests, Tick
    PROVE  Requests'
<1>1. ASSUME NothingNew, UNCHANGED <<server, said, stream, served>>
      PROVE  Requests'
  BY <1>1, SameSays, QuietRequests DEF server
<1>2. ASSUME NEW c \in Conns, NewPeer(c) \/ NewPeerLate(c) PROVE Requests'
  BY <1>2, NewPeerRequests
<1>3. ASSUME NEW c \in Conns, Refuse(c) PROVE Requests'
  BY <1>1, <1>3, SameSockets DEF Refuse, Answer
<1>4. ASSUME NEW c \in Conns, NEW s \in Slots, Arrival(s, c) PROVE Requests'
  <2>1. CASE Receive(s, c)
    BY <1>4, <2>1, ReceiveRequests DEF Arrival
  <2>2. CASE ~Receive(s, c)
    <3>1. UNCHANGED <<server, said, stream, served>>
      BY <1>4 DEF Arrival, Establish, Receive, Acknowledge, PeerFin, LastAck, PeerReset, Resend,
                  Set, Answer, network
    <3> QED
      BY <1>1, <1>4, <2>2, <3>1, QuietArrival, SMTT(30)
  <2> QED
    BY <2>1, <2>2
<1>5. ASSUME NEW s \in Slots, Expire(s) \/ Reap(s) PROVE Requests'
  BY <1>1, <1>5, DroppedSocket DEF Expire, Reap, Answer, network
<1> QED
  BY <1>2, <1>3, <1>4, <1>5 DEF Tick

LEMMA BrowserRequests ==
    ASSUME Core, Core', Requests, Browser
    PROVE  Requests'
<1>1. ASSUME UNCHANGED <<stack, server, stream, served>>, SaysMore PROVE Requests'
  BY <1>1, SameSockets, QuietRequests DEF server
<1>2. ASSUME NEW c \in Conns, NEW what, Say(c, what), what = "req" => "ack" \in said[c]
      PROVE  Requests'
  <2>1. said' = [said EXCEPT ![c] = @ \cup {what}] /\ said \in [Conns -> SUBSET {"syn", "ack", "req", "fin", "rst"}]
    BY <1>2 DEF Say, Core, CoreTypes
  <2>2. SaysMore
    BY <1>2, <2>1 DEF SaysMore, Requests, AskedInv
  <2> QED
    BY <1>1, <1>2, <2>2 DEF Say
<1>3. ASSUME NEW c \in Conns, Take(c) PROVE Requests'
  BY <1>1, <1>3, SameSays DEF Take
<1> QED
  BY <1>2, <1>3 DEF Browser, Connect, Handshake, Request, Finish, Reset

LEMMA NextRequests == IInv /\ IInv' /\ Requests /\ [Next]_vars => Requests'
<1> SUFFICES ASSUME IInv, IInv', Requests, [Next]_vars PROVE Requests'
  OBVIOUS
<1>0. Core /\ Core'
  BY DEF IInv
<1>1. ASSUME UNCHANGED <<stack, server, network>> PROVE Requests'
  BY <1>0, <1>1, SameSockets, SameSays, QuietRequests DEF server, network
<1>2. ASSUME NEW k, Press(k) PROVE Requests'
  BY <1>1, <1>2 DEF Press
<1>3. CASE UNCHANGED vars
  BY <1>1, <1>3 DEF vars
<1> QED
  BY <1>0, <1>2, <1>3, ServerRequests, TickRequests, BrowserRequests DEF Next

LEMMA AlwaysRequests == Spec => [](IInv /\ Requests)
<1>1. Init => IInv /\ Requests
  BY InitInv, InitRequests
<1>2. (IInv /\ Requests) /\ [Next]_vars => (IInv /\ Requests)'
  BY NextInv, NextRequests
<1> QED
  BY <1>1, <1>2, PTL DEF Spec

-----------------------------------------------------------------------------
(* The steps as the promise sees them.                                     *)
Gone == {c \in Conns : "rst" \in said[c]}

LEMMA QuietStep ==
    ASSUME UNCHANGED <<job, left, served, stream, said>>
    PROVE  UNCHANGED Promise!vars
BY DEF Promise!vars

LEMMA RecvRequestReads ==
    ASSUME Core, Requests, RecvRequest
    PROVE  Promise!Next
<1> DEFINE r == tcb[client].rx
<1>1. /\ pc = "recv" /\ r # None /\ job' = r /\ served' = served \cup {r}
      /\ left' \in 0 .. Units /\ UNCHANGED <<said, stream>>
  BY DEF RecvRequest
<1>2. client \in Slots /\ tcb[client] \in Socket /\ job = None
  BY <1>1 DEF Core, CoreTypes, ClientInv, Ends
<1>3. r \in Conns /\ r \notin served
  BY <1>1, <1>2 DEF Requests, HolderInv, Socket
<1>4. Promise!ReadRequest(r)
  BY <1>1, <1>2, <1>3 DEF Promise!ReadRequest
<1> QED
  BY <1>3, <1>4 DEF Promise!Next

LEMMA SendWriteWrites ==
    ASSUME Core, Requests, SendWrite
    PROVE  Promise!Next
<1> DEFINE c == tcb[client].peer
<1>1. /\ pc = "send" /\ left > 0 /\ left' = left - 1 /\ tcb[client].state = "ESTAB"
      /\ stream' = [stream EXCEPT ![c] = Append(@, <<job, left>>)]
      /\ UNCHANGED <<job, said, served>>
  BY DEF SendWrite, CanWrite
<1>2. client \in Slots /\ tcb[client] \in Socket /\ job # None
  BY <1>1 DEF Core, CoreTypes, ClientInv, Ends
<1>3. c \in Conns
  BY <1>1, <1>2 DEF Core, SocketInv, Socket
<1>4. Promise!Continues(c)
  BY <1>1, <1>2, <1>3 DEF Core, WriteInv, Promise!Continues
<1>5. IF c = job THEN Promise!Undivided ELSE job \in Gone
  <2>1. CASE c = job
    BY <1>1, <2>1 DEF Requests, WholeInv, Mute, NotIn, Promise!Undivided
  <2>2. CASE c # job
    BY <1>2, <2>2 DEF Core, CoreTypes, ClientInv, WasReset, Gone
  <2> QED
    BY <2>1, <2>2
<1>6. Promise!Write(c)
  BY <1>1, <1>2, <1>4, <1>5 DEF Promise!Write, Gone
<1> QED
  BY <1>3, <1>6 DEF Promise!Next

LEMMA ClosedEnds ==
    ASSUME Requests, Closed
    PROVE  [Promise!Next]_Promise!vars
<1>1. job' = None /\ left' = 0 /\ UNCHANGED <<served, stream, said>>
  BY DEF Closed, network
<1>2. CASE job = None
  BY <1>1, <1>2, QuietStep DEF Requests, JobInv
<1>3. CASE job # None
  <2>1. Promise!EndReply
    BY <1>1, <1>3 DEF Promise!EndReply
  <2> QED
    BY <2>1 DEF Promise!Next
<1> QED
  BY <1>2, <1>3

LEMMA SayResets ==
    ASSUME Core, NEW c \in Conns, NEW what, Say(c, what)
    PROVE  [Promise!Next]_Promise!vars
<1>1. /\ said' = [said EXCEPT ![c] = @ \cup {what}]
      /\ said \in [Conns -> SUBSET {"syn", "ack", "req", "fin", "rst"}]
      /\ UNCHANGED <<job, left, served, stream>>
  BY DEF Say, server, Core, CoreTypes
<1>2. CASE what = "rst"
  <2>1. Gone' = Gone \cup {c}
    BY <1>1, <1>2 DEF Gone
  <2>2. Promise!Reset(c)
    BY <1>1, <2>1 DEF Promise!Reset, Gone
  <2> QED
    BY <2>2 DEF Promise!Next
<1>3. CASE what # "rst"
  <2>1. Gone' = Gone
    BY <1>1, <1>3 DEF Gone
  <2> QED
    BY <1>1, <2>1 DEF Promise!vars, Gone
<1> QED
  BY <1>2, <1>3

LEMMA NextAnswers ==
    ASSUME Core, Requests, [Next]_vars
    PROVE  [Promise!Next]_Promise!vars
<1>1. CASE Server
  <2>1. CASE RecvRequest
    BY <2>1, RecvRequestReads
  <2>2. CASE SendWrite
    BY <2>2, SendWriteWrites
  <2>3. CASE Closed
    BY <2>3, ClosedEnds
  <2>4. CASE ~RecvRequest /\ ~SendWrite /\ ~Closed
    <3>1. UNCHANGED <<job, left, served, stream, said>>
      BY <1>1, <2>4, SMTT(30)
         DEF Server, Poll, AcceptTick, AcceptRestart, AcceptNone, Accept, RecvWait, RecvAgain,
             RecvGone, RecvTimeout, SendStopped, SendBlocked, SendAgain, SendDone, SendGone,
             SendTimeout, Close, End, network
    <3> QED
      BY <3>1, QuietStep
  <2> QED
    BY <2>1, <2>2, <2>3, <2>4
<1>2. CASE Tick
  <2>1. ASSUME NEW c \in Conns, NEW s \in Slots, Arrival(s, c)
        PROVE  UNCHANGED <<job, left, served, stream, said>>
    BY <2>1 DEF Arrival, Establish, Receive, Acknowledge, PeerFin, LastAck, PeerReset, Resend,
                Set, Answer, server, network
  <2>2. ASSUME NEW c \in Conns, NewPeer(c) \/ NewPeerLate(c) \/ Refuse(c)
        PROVE  UNCHANGED <<job, left, served, stream, said>>
    BY <2>2 DEF NewPeer, NewPeerLate, Refuse, Set, Answer, server
  <2>3. ASSUME NEW s \in Slots, Expire(s) \/ Reap(s)
        PROVE  UNCHANGED <<job, left, served, stream, said>>
    BY <2>3 DEF Expire, Reap, Answer, server, network
  <2>4. UNCHANGED <<job, left, served, stream, said>>
    BY <1>2, <2>1, <2>2, <2>3 DEF Tick
  <2> QED
    BY <2>4, QuietStep
<1>3. CASE Browser
  <2>1. ASSUME NEW c \in Conns, Take(c) PROVE UNCHANGED Promise!vars
    BY <2>1, QuietStep DEF Take, server
  <2> QED
    BY <1>3, <2>1, SayResets DEF Browser, Connect, Handshake, Request, Finish, Reset
<1>4. ASSUME NEW k, Press(k) PROVE UNCHANGED Promise!vars
  BY <1>4, QuietStep DEF Press, server, network
<1>5. CASE UNCHANGED vars
  BY <1>5, QuietStep DEF vars, server, network
<1> QED
  BY <1>1, <1>2, <1>3, <1>4, <1>5 DEF Next

(* The server with its slots, list, sockets and packets keeps the promise  *)
(* of Replies: each request is read once and answered to the connection    *)
(* that asked, from its first segment on and without a gap, unless the     *)
(* browser resets that connection (main.c:71-143, net_watt32.c:230-382).   *)
THEOREM TheServerAnswersInTurn == Spec => AnswersInTurn
<1>1. Init => Promise!Init
  BY DEF Init, Promise!Init
<1>2. Core /\ Requests /\ [Next]_vars => [Promise!Next]_Promise!vars
  BY NextAnswers
<1>3. IInv => Core
  BY DEF IInv
<1> QED
  BY <1>1, <1>2, <1>3, AlwaysRequests, PTL DEF Spec, AnswersInTurn, Promise!Spec

=============================================================================
