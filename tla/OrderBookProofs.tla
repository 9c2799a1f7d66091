-------------------------- MODULE OrderBookProofs --------------------------
(***************************************************************************)
(* The order book keeps its invariant: the doubly-linked queues, the sorted *)
(* price slices, the map of levels and the index of IDs stay in agreement   *)
(* through AddOrder and CancelOrder, for every number of orders and every   *)
(* set of prices.  BookInv is the invariant; the lemmas before it are about *)
(* the price slice and the links of one level, which know nothing of the    *)
(* rest of the book.                                                        *)
(***************************************************************************)
EXTENDS OrderBook, SumProofs, SequenceTheorems

\* The prices of a ladder, best first, none of them twice.
SortedLadder(s, l) == \A i, j \in 1 .. Len(l) : i < j => Ahead(s, l[i], l[j])

(* Appending a new price to a sorted ladder and sorting the result, as      *)
(* AddOrder does for the first order at a price, inserts it at its place.   *)
LEMMA SortSliceInserts ==
  ASSUME NEW s \in Sides, NEW l \in Seq(Prices), SortedLadder(s, l),
         NEW p \in Prices, p \notin ToSet(l)
  PROVE  LET r == SortSlice(s, Append(l, p))
         IN  r \in Seq(Prices) /\ SortedLadder(s, r) /\ ToSet(r) = ToSet(l) \cup {p}
<1> DEFINE a == Append(l, p)
           n == Len(l) + 1
           D == 1 .. n
           r == SortSlice(s, a)
           B == {[i \in D |-> a[f[i]]] : f \in Bijection(D, D)}
           OK(q) == \A i, j \in D : i < j => ~Ahead(s, q[j], q[i])
<1>1. /\ a \in Seq(Prices) /\ DOMAIN a = D /\ Len(a) = n /\ a[n] = p /\ n \in Nat \ {0}
      /\ n - 1 = Len(l) /\ \A i \in 1 .. n - 1 : a[i] = l[i] /\ l[i] \in Prices
      /\ \A i \in D : a[i] \in Prices
  OBVIOUS
<1>2. /\ Prices \subseteq Int
      /\ \A x, y \in Int : Ahead(s, x, y) \/ x = y \/ Ahead(s, y, x)
      /\ \A x, y \in Int : ~(Ahead(s, x, y) /\ Ahead(s, y, x)) /\ ~Ahead(s, x, x)
      /\ \A x, y, z \in Int : Ahead(s, x, y) /\ Ahead(s, y, z) => Ahead(s, x, z)
  BY BookAssumption DEF Ahead, Sides
<1>3. PICK k \in D : /\ \A i \in 1 .. n - 1 : i < k => Ahead(s, l[i], p)
                     /\ \A i \in 1 .. n - 1 : k <= i => Ahead(s, p, l[i])
  <2> DEFINE T == {i \in 1 .. n - 1 : Ahead(s, p, l[i])}
  <2>1. \A i \in 1 .. n - 1 : l[i] \in Int /\ l[i] # p /\ p \in Int
    <3>1. \A i \in 1 .. n - 1 : l[i] # p
      BY <1>1 DEF ToSet
    <3>2. \A i \in 1 .. n - 1 : l[i] \in Prices
      BY <1>1
    <3> QED
      BY <3>1, <3>2, <1>2
  <2>2. CASE T = {}
    <3>1. \A i \in 1 .. n - 1 : Ahead(s, l[i], p)
      BY <2>1, <2>2, <1>2
    <3> QED
      BY <3>1, <1>1
  <2>3. CASE T # {}
    <3>0. T \subseteq Nat
      OBVIOUS
    <3>1. PICK k \in T : \A y \in T : k <= y
      <4> HIDE DEF T
      <4> QED
        BY <2>3, <3>0, LeastNatural
    <3>2. \A i \in 1 .. n - 1 : i < k => Ahead(s, l[i], p)
      BY <3>1, <2>1, <1>2
    <3>3. \A i \in 1 .. n - 1 : k <= i => Ahead(s, p, l[i])
      <4> SUFFICES ASSUME NEW i \in 1 .. n - 1, k < i PROVE Ahead(s, p, l[i])
        BY <3>1
      <4>1. Ahead(s, l[k], l[i])
        BY <1>1, <3>1 DEF SortedLadder
      <4> QED
        BY <4>1, <3>1, <2>1, <1>2
    <3> QED
      BY <3>1, <3>2, <3>3, <1>1
  <2> QED
    BY <2>2, <2>3
<1>4. \E q \in B : OK(q)
  <2> DEFINE f == [i \in D |-> IF i < k THEN i ELSE IF i = k THEN n ELSE i - 1]
             q == [i \in D |-> a[f[i]]]
  <2>1. f \in [D -> D]
    BY <1>1, <1>3
  <2>2. \A i, j \in D : f[i] = f[j] => i = j
    BY <1>1, <1>3
  <2>3. \A t \in D : \E i \in D : f[i] = t
    <3> SUFFICES ASSUME NEW t \in D PROVE \E i \in D : f[i] = t
      OBVIOUS
    <3>1. CASE t < k
      BY <3>1
    <3>2. CASE t = n
      BY <3>2, <1>3
    <3>3. CASE k <= t /\ t # n
      <4>1. t + 1 \in D /\ f[t + 1] = t
        BY <3>3, <1>3, <1>1
      <4> QED
        BY <4>1
    <3> QED
      BY <3>1, <3>2, <3>3, <1>3, <1>1
  <2>4. f \in Bijection(D, D)
    BY <2>1, <2>2, <2>3 DEF Bijection, Injection, Surjection, IsInjective
  <2>5. OK(q)
    <3> SUFFICES ASSUME NEW i \in D, NEW j \in D, i < j
                 PROVE  ~Ahead(s, q[j], q[i])
      OBVIOUS
    <3> HIDE DEF a, n
    <3>1. q[i] = IF i < k THEN l[i] ELSE IF i = k THEN p ELSE l[i - 1]
      BY <1>1, <1>3
    <3>2. q[j] = IF j < k THEN l[j] ELSE IF j = k THEN p ELSE l[j - 1]
      BY <1>1, <1>3
    <3>3. \A x, y \in 1 .. n - 1 : x < y => Ahead(s, l[x], l[y])
      BY <1>1 DEF SortedLadder, n
    <3>4. Ahead(s, q[i], q[j])
      <4>1. CASE j < k
        BY <4>1, <3>1, <3>2, <3>3, <1>1, <1>3
      <4>2. CASE j = k
        BY <4>2, <3>1, <3>2, <1>1, <1>3
      <4>3. CASE j > k /\ i < k
        <5>1. Ahead(s, l[i], p) /\ Ahead(s, p, l[j - 1])
          BY <4>3, <1>1, <1>3
        <5>2. i \in 1 .. n - 1 /\ j - 1 \in 1 .. n - 1 /\ (i < j - 1 \/ i = j - 1)
          BY <4>3, <1>1, <1>3
        <5>3. l[i] \in Int /\ l[j - 1] \in Int /\ p \in Int
          <6>1. i \in 1 .. n - 1 /\ j - 1 \in 1 .. n - 1
            BY <4>3, <1>1, <1>3
          <6>2. l[i] \in Prices /\ l[j - 1] \in Prices
            BY <6>1, <1>1
          <6> QED
            BY <6>2, <1>2
        <5> QED
          BY <5>1, <5>3, <3>1, <3>2, <4>3, <1>2
      <4>4. CASE j > k /\ i = k
        BY <4>4, <3>1, <3>2, <1>1, <1>3
      <4>5. CASE j > k /\ i > k
        BY <4>5, <3>1, <3>2, <3>3, <1>1, <1>3
      <4> QED
        BY <4>1, <4>2, <4>3, <4>4, <4>5, <1>1, <1>3
    <3>5. q[i] \in Int /\ q[j] \in Int
      <4>1. f[i] \in D /\ f[j] \in D
        BY <2>1
      <4>2. q[i] = a[f[i]] /\ q[j] = a[f[j]]
        OBVIOUS
      <4>3. a[f[i]] \in Prices /\ a[f[j]] \in Prices
        BY <4>1, <1>1
      <4> QED
        BY <4>2, <4>3, <1>2
    <3> QED
      BY <3>4, <3>5, <1>2
  <2>6. q \in B
    BY <2>4
  <2> QED
    BY <2>5, <2>6
<1>5. r \in B /\ OK(r)
  <2>1. r = CHOOSE q \in B : OK(q)
    BY <1>1 DEF SortSlice
  <2> HIDE DEF r, B, OK
  <2> QED
    BY <1>4, <2>1
<1>6. PICK f \in Bijection(D, D) : r = [i \in D |-> a[f[i]]]
  BY <1>5
<1>7. /\ f \in [D -> D]
      /\ \A i, j \in D : f[i] = f[j] => i = j
      /\ \A t \in D : \E i \in D : f[i] = t
  BY <1>6 DEF Bijection, Injection, Surjection, IsInjective
<1>8. r \in [D -> Prices] /\ r \in Seq(Prices) /\ Len(r) = n /\ DOMAIN r = D
  <2> HIDE DEF a, r, n
  <2>1. r \in [D -> Prices] /\ DOMAIN r = D
    BY <1>6, <1>7, <1>1
  <2> QED
    BY <2>1, <1>1, SeqDef
<1> HIDE DEF a, r, n
<1>9. SortedLadder(s, r)
  <2> SUFFICES ASSUME NEW i \in D, NEW j \in D, i < j PROVE Ahead(s, r[i], r[j])
    BY <1>8, <1>1 DEF SortedLadder
  <2>1. ~Ahead(s, r[j], r[i]) /\ r[i] \in Int /\ r[j] \in Int
    BY <1>5, <1>8, <1>2
  <2>2. f[i] # f[j] /\ f[i] \in D /\ f[j] \in D /\ r[i] = a[f[i]] /\ r[j] = a[f[j]]
    BY <1>6, <1>7, <1>1
  <2>3. \A x, y \in D : x < y => a[x] # a[y]
    <3> SUFFICES ASSUME NEW x \in D, NEW y \in D, x < y PROVE a[x] # a[y]
      OBVIOUS
    <3>1. CASE y = n
      BY <3>1, <1>1 DEF ToSet, n
    <3>2. CASE y < n
      <4>1. x \in 1 .. n - 1 /\ y \in 1 .. n - 1
        BY <3>2, <1>1
      <4>2. a[x] = l[x] /\ a[y] = l[y] /\ Ahead(s, l[x], l[y]) /\ l[x] \in Prices
        BY <4>1, <1>1 DEF SortedLadder
      <4> QED
        BY <4>2, <1>2
    <3> QED
      BY <3>1, <3>2, <1>1
  <2>4. r[i] # r[j]
    BY <2>2, <2>3, <1>1
  <2> QED
    BY <2>1, <2>4, <1>2
<1>10. ToSet(r) = ToSet(a)
  <2>1. ToSet(r) = {r[i] : i \in D} /\ ToSet(a) = {a[i] : i \in D}
    BY <1>8, <1>1 DEF ToSet
  <2>2. \A i \in D : r[i] = a[f[i]] /\ f[i] \in D
    BY <1>6, <1>7, <1>1
  <2>3. ASSUME NEW t \in D PROVE \E i \in D : r[i] = a[t]
    <3>1. PICK i \in D : f[i] = t
      BY <1>7
    <3> QED
      BY <2>2, <3>1
  <2>4. {r[i] : i \in D} \subseteq {a[i] : i \in D}
    BY <2>2
  <2>5. {a[i] : i \in D} \subseteq {r[i] : i \in D}
    BY <2>3
  <2> QED
    BY <2>1, <2>4, <2>5
<1>11. ToSet(a) = ToSet(l) \cup {p}
  BY <1>1 DEF ToSet, n
<1> QED
  BY <1>8, <1>9, <1>10, <1>11 DEF a, r

(* removeBidPrice and removeAskPrice cut out one price and leave the others *)
(* in their order.                                                          *)
LEMMA RemoveFirstRemoves ==
  ASSUME NEW s \in Sides, NEW l \in Seq(Prices), SortedLadder(s, l), NEW p \in ToSet(l)
  PROVE  LET r == RemoveFirst(l, p)
         IN  r \in Seq(Prices) /\ SortedLadder(s, r) /\ ToSet(r) = ToSet(l) \ {p}
<1> DEFINE r == RemoveFirst(l, p)
           n == Len(l)
<1>1. /\ n \in Nat /\ DOMAIN l = 1 .. n /\ l \in [1 .. n -> Prices]
      /\ \A i \in 1 .. n : l[i] \in Prices /\ l[i] \in Int
  BY BookAssumption, LenProperties
<1>2. PICK k \in 1 .. n : l[k] = p
  BY <1>1 DEF ToSet
<1>3. \A i, j \in 1 .. n : l[i] = l[j] => i = j
  <2>1. \A i, j \in 1 .. n : i < j => l[i] # l[j]
    BY <1>1 DEF SortedLadder, Ahead, Sides
  <2> QED
    BY <2>1, <1>1
<1>4. r = SubSeq(l, 1, k - 1) \o SubSeq(l, k + 1, n)
  <2>1. {i \in 1 .. Len(l) : l[i] = p} = {k}
    BY <1>1, <1>2, <1>3
  <2>2. Min({k}) = k
    BY DEF Min
  <2>3. SelectInSeq(l, LAMBDA v : v = p) = k
    BY <2>1, <2>2 DEF SelectInSeq
  <2> QED
    BY <1>2, <2>3 DEF RemoveFirst, RemoveAt
<1>5. /\ r \in Seq(Prices) /\ Len(r) = n - 1
      /\ \A i \in 1 .. n - 1 : r[i] = IF i < k THEN l[i] ELSE l[i + 1]
  <2> DEFINE u == SubSeq(l, 1, k - 1)
             v == SubSeq(l, k + 1, n)
  <2>1. k - 1 \in Int /\ k + 1 \in Int /\ n \in Int
    BY <1>1
  <2>2. u \in Seq(Prices) /\ Len(u) = k - 1 /\ \A i \in 1 .. k - 1 : u[i] = l[i]
    <3>1. \A i \in 1 .. k - 1 : l[i] \in Prices
      BY <1>1
    <3> QED
      BY <2>1, <3>1, SubSeqProperties
  <2>3. v \in Seq(Prices) /\ Len(v) = n - k /\ \A i \in 1 .. n - k : v[i] = l[k + i]
    <3>1. \A i \in k + 1 .. n : l[i] \in Prices
      BY <1>1
    <3>2. /\ v \in Seq(Prices) /\ Len(v) = IF k + 1 <= n THEN n - (k + 1) + 1 ELSE 0
          /\ \A i \in 1 .. n - (k + 1) + 1 : v[i] = l[k + 1 + i - 1]
      BY <2>1, <3>1, SubSeqProperties
    <3> QED
      BY <3>2, <1>1
  <2> HIDE DEF u, v
  <2>4. /\ u \o v \in Seq(Prices) /\ Len(u \o v) = Len(u) + Len(v)
        /\ \A i \in 1 .. Len(u) + Len(v) : (u \o v)[i] = IF i <= Len(u) THEN u[i] ELSE v[i - Len(u)]
    BY <2>2, <2>3, ConcatProperties
  <2>5. r = u \o v
    BY <1>4 DEF u, v
  <2> HIDE DEF r
  <2>6. \A i \in 1 .. n - 1 : r[i] = IF i < k THEN l[i] ELSE l[i + 1]
    <3> SUFFICES ASSUME NEW i \in 1 .. n - 1 PROVE r[i] = IF i < k THEN l[i] ELSE l[i + 1]
      OBVIOUS
    <3>1. CASE i < k
      BY <3>1, <2>2, <2>3, <2>4, <2>5, <1>1
    <3>2. CASE i >= k
      <4> DEFINE m == i - k + 1
      <4>1. m \in 1 .. n - k /\ k + m = i + 1 /\ i - Len(u) = m
        BY <3>2, <2>2, <1>1
      <4>2. v[m] = l[i + 1]
        BY <4>1, <2>3
      <4>3. i \in 1 .. Len(u) + Len(v) /\ ~(i <= Len(u)) /\ ~(i < k)
        BY <3>2, <2>2, <2>3, <1>1
      <4>4. (u \o v)[i] = v[i - Len(u)]
        BY <4>3, <2>4
      <4> QED
        BY <4>1, <4>2, <4>3, <4>4, <2>5
    <3> QED
      BY <3>1, <3>2, <1>1
  <2>7. r \in Seq(Prices) /\ Len(r) = n - 1
    <3>1. r \in Seq(Prices) /\ Len(r) = Len(u) + Len(v)
      BY <2>4, <2>5
    <3>2. Len(u) = k - 1 /\ Len(v) = n - k /\ n \in Nat
      BY <2>2, <2>3, <1>1
    <3> HIDE DEF n
    <3>3. k \in Int
      BY <3>2
    <3> QED
      BY <3>1, <3>2, <3>3
  <2> QED
    BY <2>6, <2>7
<1> HIDE DEF r, n
<1>6. SortedLadder(s, r)
  <2> SUFFICES ASSUME NEW i \in 1 .. n - 1, NEW j \in 1 .. n - 1, i < j
               PROVE  Ahead(s, r[i], r[j])
    BY <1>5 DEF SortedLadder
  <2>1. \A x, y \in 1 .. n : x < y => Ahead(s, l[x], l[y])
    BY DEF SortedLadder, n
  <2>2. i \in 1 .. n /\ j \in 1 .. n /\ i + 1 \in 1 .. n /\ j + 1 \in 1 .. n
    BY <1>1
  <2> QED
    BY <1>1, <1>2, <1>5, <2>1, <2>2
<1>7. ToSet(r) = ToSet(l) \ {p}
  <2>1. ToSet(r) = {r[i] : i \in 1 .. n - 1} /\ ToSet(l) = {l[i] : i \in 1 .. n}
    BY <1>1, <1>5 DEF ToSet
  <2>2. ASSUME NEW i \in 1 .. n - 1
        PROVE  r[i] \in {l[j] : j \in 1 .. n} \ {p}
    <3>1. i \in 1 .. n /\ i + 1 \in 1 .. n
      BY <1>1
    <3>2. PICK j \in 1 .. n : r[i] = l[j] /\ j # k
      BY <3>1, <1>1, <1>2, <1>5
    <3> QED
      BY <3>2, <1>2, <1>3
  <2>3. ASSUME NEW j \in 1 .. n, l[j] # p
        PROVE  \E i \in 1 .. n - 1 : r[i] = l[j]
    <3>1. CASE j < k
      BY <3>1, <1>1, <1>5
    <3>2. CASE j > k
      <4>1. j - 1 \in 1 .. n - 1 /\ r[j - 1] = l[j]
        BY <3>2, <1>1, <1>5
      <4> QED
        BY <4>1
    <3> QED
      BY <2>3, <3>1, <3>2, <1>1, <1>2
  <2>4. {r[i] : i \in 1 .. n - 1} \subseteq {l[j] : j \in 1 .. n} \ {p}
    BY <2>2
  <2>5. {l[j] : j \in 1 .. n} \ {p} \subseteq {r[i] : i \in 1 .. n - 1}
    BY <2>3
  <2> QED
    BY <2>1, <2>4, <2>5
<1> QED
  BY <1>5, <1>6, <1>7 DEF r
-----------------------------------------------------------------------------
(* The orders Q of one level, linked from h to t by nx and back by pv in    *)
(* the order of their arrival: one level's part of QueuesAreFIFO.           *)
Linked(h, t, nx, pv, Q) ==
  /\ IsOldest(h, Q)
  /\ IsNewest(t, Q)
  /\ \A o \in Q : /\ IsOldest(nx[o], {x \in Q : o < x})
                  /\ IsNewest(pv[o], {x \in Q : x < o})

(* Only the links of the orders of Q count.                                 *)
LEMMA LinkedCongruence ==
  ASSUME NEW h, NEW t, NEW nx, NEW pv, NEW nx2, NEW pv2, NEW Q,
         Linked(h, t, nx, pv, Q), \A x \in Q : nx2[x] = nx[x] /\ pv2[x] = pv[x]
  PROVE  Linked(h, t, nx2, pv2, Q)
<1>1. ASSUME NEW o \in Q
      PROVE  IsOldest(nx2[o], {x \in Q : o < x}) /\ IsNewest(pv2[o], {x \in Q : x < o})
  <2>1. nx2[o] = nx[o] /\ pv2[o] = pv[o]
    OBVIOUS
  <2>2. IsOldest(nx[o], {x \in Q : o < x}) /\ IsNewest(pv[o], {x \in Q : x < o})
    BY DEF Linked
  <2> QED
    BY <2>1, <2>2
<1> QED
  BY <1>1 DEF Linked

(* What LimitLevel.Append and Remove do to the links of the orders R.       *)
Appended(o, t, nx, pv, nx2, pv2, R) ==
  \A x \in R : /\ nx2[x] = IF x = o THEN Nil ELSE IF x = t THEN o ELSE nx[x]
               /\ pv2[x] = IF x = o THEN t ELSE pv[x]
Removed(o, nx, pv, nx2, pv2, R) ==
  \A x \in R : /\ nx2[x] = IF x = pv[o] THEN nx[o] ELSE nx[x]
               /\ pv2[x] = IF x = nx[o] THEN pv[o] ELSE pv[x]

(* LimitLevel.Append keeps the list of a level whole when the order it      *)
(* appends is younger than every order of the level.                        *)
LEMMA AppendKeepsLinked ==
  ASSUME NEW Q \in SUBSET Orders, NEW o \in Orders, \A x \in Q : x < o,
         NEW h, NEW t, NEW nx, NEW pv, Linked(h, t, nx, pv, Q),
         NEW h2, h2 = IF t = Nil THEN o ELSE h, NEW nx2, NEW pv2,
         Appended(o, t, nx, pv, nx2, pv2, Q \cup {o})
  PROVE  Linked(h2, o, nx2, pv2, Q \cup {o})
<1> USE DEF Appended
<1> DEFINE R == Q \cup {o}
<1>1. /\ \A x \in R : x \in Nat /\ x # Nil /\ x <= o
      /\ o \notin Q /\ o \in Nat
  BY DEF Orders, Nil
<1>2. IsOldest(IF t = Nil THEN o ELSE h, R) /\ IsNewest(o, R)
  <2>1. R # {} /\ o \in R /\ \A y \in R : y <= o
    BY <1>1
  <2>2. CASE t = Nil
    <3>1. Q = {}
      BY <2>2, <1>1 DEF Linked, IsNewest
    <3> QED
      BY <2>1, <2>2, <3>1, <1>1 DEF IsOldest, IsNewest
  <2>3. CASE t # Nil
    <3>1. Q # {} /\ h \in Q /\ \A y \in Q : h <= y
      BY <2>3 DEF Linked, IsOldest, IsNewest
    <3>2. \A y \in R : h <= y
      BY <3>1, <1>1
    <3> QED
      BY <2>1, <2>3, <3>1, <3>2 DEF IsOldest, IsNewest
  <2> QED
    BY <2>2, <2>3
<1>3. ASSUME NEW x \in R
      PROVE  IsOldest(nx2[x], {y \in R : x < y}) /\ IsNewest(pv2[x], {y \in R : y < x})
  <2>1. CASE x = o
    <3>0. \A y \in R : ~(x < y) /\ (y < x <=> y \in Q)
      BY <2>1, <1>1
    <3>1. {y \in R : x < y} = {} /\ {y \in R : y < x} = Q
      BY <3>0
    <3> QED
      BY <2>1, <3>1 DEF IsOldest, Linked
  <2>2. CASE x # o
    <3>0. x < o /\ ~(o < x) /\ x \in Q
      BY <2>2, <1>1
    <3>1. {y \in R : x < y} = {y \in Q : x < y} \cup {o} /\ {y \in R : y < x} = {y \in Q : y < x}
      BY <3>0
    <3>2. IsNewest(pv2[x], {y \in R : y < x})
      BY <2>2, <3>1 DEF Linked
    <3>3. CASE x = t
      <4>1. \A y \in Q : ~(x < y)
        <5>1. \A y \in Q : y <= t
          BY <3>0 DEF Linked, IsNewest
        <5> QED
          BY <5>1, <3>3, <3>0, <1>1
      <4>2. {y \in R : x < y} = {o} /\ nx2[x] = o
        BY <4>1, <3>1, <3>3, <2>2
      <4> QED
        BY <4>2, <3>2, <1>1 DEF IsOldest
    <3>4. CASE x # t
      <4>1. t \in Q /\ x < t
        <5>1. t \in Q /\ x <= t
          BY <3>0 DEF Linked, IsNewest
        <5> QED
          BY <5>1, <3>4, <3>0, <1>1
      <4>2. IsOldest(nx[x], {y \in Q : x < y}) /\ nx2[x] = nx[x]
        BY <3>4, <2>2 DEF Linked
      <4> QED
        BY <4>1, <4>2, <3>1, <3>2, <1>1 DEF IsOldest
    <3> QED
      BY <3>3, <3>4
  <2> QED
    BY <2>1, <2>2
<1> QED
  BY <1>2, <1>3 DEF Linked

(* LimitLevel.Remove keeps the list of a level whole, whichever of its      *)
(* orders it cuts out.                                                      *)
LEMMA RemoveKeepsLinked ==
  ASSUME NEW Q \in SUBSET Orders, NEW o \in Q,
         NEW h, NEW t, NEW nx, NEW pv, Linked(h, t, nx, pv, Q),
         NEW h2, h2 = IF pv[o] = Nil THEN nx[o] ELSE h,
         NEW t2, t2 = IF nx[o] = Nil THEN pv[o] ELSE t, NEW nx2, NEW pv2,
         Removed(o, nx, pv, nx2, pv2, Q \ {o})
  PROVE  Linked(h2, t2, nx2, pv2, Q \ {o})
<1> USE DEF Removed
<1> DEFINE R == Q \ {o}
<1>1. \A x \in Q : x \in Nat /\ x # Nil
  BY DEF Orders, Nil
<1>2. /\ IsOldest(nx[o], {y \in Q : o < y}) /\ IsNewest(pv[o], {y \in Q : y < o})
      /\ h \in Q /\ \A y \in Q : h <= y
      /\ t \in Q /\ \A y \in Q : y <= t
  BY DEF Linked, IsOldest, IsNewest
<1>3. IsOldest(IF pv[o] = Nil THEN nx[o] ELSE h, R)
  BY <1>1, <1>2 DEF IsOldest, IsNewest
<1>4. IsNewest(IF nx[o] = Nil THEN pv[o] ELSE t, R)
  BY <1>1, <1>2 DEF IsOldest, IsNewest
<1>5. ASSUME NEW x \in R
      PROVE  IsOldest(nx2[x], {y \in R : x < y}) /\ IsNewest(pv2[x], {y \in R : y < x})
  <2>1. IsOldest(nx[x], {y \in Q : x < y}) /\ IsNewest(pv[x], {y \in Q : y < x})
    BY DEF Linked
  <2>2. IsOldest(nx2[x], {y \in R : x < y})
    <3>1. CASE x = pv[o]
      <4>1. {y \in R : x < y} = {y \in Q : o < y}
        BY <3>1, <1>1, <1>2 DEF IsNewest
      <4> QED
        BY <3>1, <4>1, <1>2
    <3>2. CASE x # pv[o]
      <4>1. nx2[x] = nx[x]
        BY <3>2
      <4>2. CASE x < o
        <5>1. pv[o] \in Q /\ x < pv[o] /\ pv[o] < o
          BY <4>2, <3>2, <1>1, <1>2 DEF IsNewest
        <5> QED
          BY <4>1, <5>1, <2>1, <1>1 DEF IsOldest
      <4>3. CASE o < x
        <5>1. {y \in R : x < y} = {y \in Q : x < y}
          BY <4>3, <1>1
        <5> QED
          BY <4>1, <5>1, <2>1
      <4> QED
        BY <4>2, <4>3, <1>1
    <3> QED
      BY <3>1, <3>2
  <2>3. IsNewest(pv2[x], {y \in R : y < x})
    <3>1. CASE x = nx[o]
      <4>1. {y \in R : y < x} = {y \in Q : y < o}
        BY <3>1, <1>1, <1>2 DEF IsOldest
      <4> QED
        BY <3>1, <4>1, <1>2
    <3>2. CASE x # nx[o]
      <4>1. pv2[x] = pv[x]
        BY <3>2
      <4>2. CASE o < x
        <5>1. nx[o] \in Q /\ nx[o] < x /\ o < nx[o]
          BY <4>2, <3>2, <1>1, <1>2 DEF IsOldest
        <5> QED
          BY <4>1, <5>1, <2>1, <1>1 DEF IsNewest
      <4>3. CASE x < o
        <5>1. {y \in R : y < x} = {y \in Q : y < x}
          BY <4>3, <1>1
        <5> QED
          BY <4>1, <5>1, <2>1
      <4> QED
        BY <4>2, <4>3, <1>1
    <3> QED
      BY <3>1, <3>2
  <2> QED
    BY <2>2, <2>3
<1> QED
  BY <1>3, <1>4, <1>5 DEF Linked
-----------------------------------------------------------------------------
(* What every method of the book preserves.                                 *)
RestingOrdersOK == \A o \in resting : ord[o] \in Details /\ ord[o].price \in Prices

\* LimitLevel.Remove clears o.Next: an order that is in no level leads nowhere.
RemovedOrdersAreUnlinked == \A o \in Orders \ resting : next[o] = Nil

BookInv ==
  /\ BookTypeOK
  /\ RestingOrdersOK
  /\ RemovedOrdersAreUnlinked
  /\ QueuesAreFIFO
  /\ LaddersMatchQueues
  /\ IndexIsExact

(* NewOrderBook: an empty book.                                             *)
LEMMA BookInitInv == BookInit => BookInv
<1> SUFFICES ASSUME BookInit PROVE BookInv
  OBVIOUS
<1>1. \A s \in Sides, p \in Prices : Queue(s, p) = {}
  BY DEF BookInit, Queue
<1>2. NewLimitLevel \in [head : Orders \cup {Nil}, tail : Orders \cup {Nil}, volume : Int, count : Nat]
  BY DEF NewLimitLevel
<1>3. BookTypeOK
  BY <1>2 DEF BookInit, BookTypeOK, Ids
<1>4. QueuesAreFIFO
  BY <1>1 DEF BookInit, QueuesAreFIFO, IsOldest, IsNewest, NewLimitLevel
<1>5. LaddersMatchQueues
  BY <1>1 DEF BookInit, LaddersMatchQueues, ToSet
<1> QED
  BY <1>3, <1>4, <1>5
     DEF BookInv, RestingOrdersOK, RemovedOrdersAreUnlinked, IndexIsExact, BookInit

(* A step that leaves the lists alone keeps the book, whatever it adds to   *)
(* the Filled of an order.                                                  *)
LEMMA BookStutterInv ==
  ASSUME BookInv, UNCHANGED <<ord, listVars>>, filled' \in [Orders -> Nat]
  PROVE  BookInv'
<1>1. BookTypeOK'
  BY DEF BookInv, BookTypeOK, listVars
<1>2. RestingOrdersOK'
  BY DEF BookInv, RestingOrdersOK, listVars
<1>3. QueuesAreFIFO'
  BY DEF BookInv, QueuesAreFIFO, Queue, IsOldest, IsNewest, listVars
<1>4. LaddersMatchQueues'
  <2>1. \A s \in Sides, p \in Prices : Queue(s, p)' = Queue(s, p)
    BY DEF Queue, listVars
  <2>2. tiers' = tiers /\ ladder' = ladder /\ level' = level
    BY DEF listVars
  <2> QED
    BY <2>1, <2>2 DEF BookInv, LaddersMatchQueues
<1>5. IndexIsExact'
  BY DEF BookInv, IndexIsExact, listVars
<1>6. RemovedOrdersAreUnlinked'
  BY DEF BookInv, RemovedOrdersAreUnlinked, listVars
<1> QED
  BY <1>1, <1>2, <1>3, <1>4, <1>5, <1>6 DEF BookInv

(* The orders of one level are among the finitely many orders.              *)
LEMMA QueuesAreFinite ==
  ASSUME BookTypeOK
  PROVE  \A s, p : Queue(s, p) \subseteq Orders /\ IsFiniteSet(Queue(s, p))
<1>1. IsFiniteSet(Orders)
  BY BookAssumption, FS_Interval DEF Orders
<1>2. \A s, p : Queue(s, p) \subseteq Orders
  BY DEF BookTypeOK, Queue
<1> QED
  BY <1>1, <1>2, FS_Subset

(* A price is listed exactly when its level has a head, and the level of a  *)
(* price that is not listed is empty.                                       *)
LEMMA UnlistedLevelsAreEmpty ==
  ASSUME BookInv, NEW s \in Sides, NEW p \in Prices, p \notin tiers[s]
  PROVE  Queue(s, p) = {} /\ level[s][p].head = Nil /\ level[s][p].tail = Nil
<1>1. Queue(s, p) = {}
  BY DEF BookInv, LaddersMatchQueues
<1> QED
  BY <1>1 DEF BookInv, QueuesAreFIFO, IsOldest, IsNewest

(* OrderBook.AddOrder keeps the book, when the order is younger than every  *)
(* resting order and no resting order has its ID.                           *)
LEMMA AddOrderInv ==
  ASSUME BookInv, NEW o \in Orders, ord[o] \in Details, ord[o].price \in Prices,
         \A x \in resting : x < o /\ ord[x].id # ord[o].id,
         UNCHANGED <<ord, filled>>, AddOrder(o)
  PROVE  BookInv'
<1> DEFINE s == ord[o].side
           p == ord[o].price
           l == IF p \in tiers[s] THEN level[s][p] ELSE NewLimitLevel
           Q == Queue(s, p)
<1>1. /\ s \in Sides /\ p \in Prices /\ ord[o].id \in Ids
      /\ filled' \in [Orders -> Nat]
  BY DEF Details, BookInv, BookTypeOK
<1>2. CASE ~Accepts(o)
  <2>1. UNCHANGED listVars
    BY <1>2 DEF AddOrder
  <2> QED
    BY <2>1, <1>1, BookStutterInv
<1>3. CASE Accepts(o)
  <2>1. /\ index' = [index EXCEPT ![ord[o].id] = o]
        /\ resting' = resting \cup {o}
        /\ LevelAppend(l, o)
        /\ ord' = ord
    BY <1>3 DEF AddOrder
  <2>2. /\ p \in tiers[s] => tiers' = tiers /\ ladder' = ladder
        /\ p \notin tiers[s] => /\ tiers' = [tiers EXCEPT ![s] = @ \cup {p}]
                                /\ AddPrice(s, p)
    BY <1>3 DEF AddOrder
  <2>3. l.head = level[s][p].head /\ l.tail = level[s][p].tail
    BY <1>1, UnlistedLevelsAreEmpty DEF NewLimitLevel
  <2>4. /\ \A x \in Orders : next'[x] = IF x = o THEN Nil ELSE IF x = level[s][p].tail THEN o ELSE next[x]
        /\ \A x \in Orders : prev'[x] = IF x = o THEN level[s][p].tail ELSE prev[x]
        /\ level'[s][p] = [head   |-> IF level[s][p].tail = Nil THEN o ELSE level[s][p].head,
                           tail   |-> o,
                           volume |-> l.volume + Remaining(o),
                           count  |-> l.count + 1]
        /\ \A s2 \in Sides, p2 \in Prices : s2 # s \/ p2 # p => level'[s2][p2] = level[s2][p2]
    BY <2>1, <2>3, <1>1 DEF LevelAppend, BookInv, BookTypeOK
  <2>5. /\ Queue(s, p)' = Q \cup {o} /\ o \notin Q
        /\ \A s2 \in Sides, p2 \in Prices :
             s2 # s \/ p2 # p => Queue(s2, p2)' = Queue(s2, p2) /\ o \notin Queue(s2, p2)
    BY <2>1 DEF Queue, Orders
  <2>11. /\ ladder' \in [Sides -> Seq(Prices)]
         /\ SortedLadder(s, ladder'[s])
         /\ ToSet(ladder'[s]) = tiers[s] \cup {p}
         /\ \A s2 \in Sides : s2 # s => ladder'[s2] = ladder[s2] /\ tiers'[s2] = tiers[s2]
         /\ tiers'[s] = tiers[s] \cup {p}
    <3>1. /\ ladder[s] \in Seq(Prices) /\ SortedLadder(s, ladder[s]) /\ ToSet(ladder[s]) = tiers[s]
          /\ ladder \in [Sides -> Seq(Prices)] /\ tiers \in [Sides -> SUBSET Prices]
      BY <1>1 DEF BookInv, BookTypeOK, LaddersMatchQueues, SortedLadder
    <3>2. CASE p \in tiers[s]
      BY <3>1, <3>2, <2>2
    <3>3. CASE p \notin tiers[s]
      <4> DEFINE r == SortSlice(s, Append(ladder[s], p))
      <4>1. r \in Seq(Prices) /\ SortedLadder(s, r) /\ ToSet(r) = ToSet(ladder[s]) \cup {p}
        BY <3>1, <3>3, <1>1, SortSliceInserts
      <4>2. ladder' = [ladder EXCEPT ![s] = r] /\ tiers' = [tiers EXCEPT ![s] = @ \cup {p}]
        BY <3>3, <2>2 DEF AddPrice
      <4> HIDE DEF r
      <4> QED
        BY <3>1, <4>1, <4>2, <1>1
    <3> QED
      BY <3>2, <3>3
  <2>6. BookTypeOK'
    <3>1. l.volume \in Int /\ l.count \in Nat /\ level[s][p].head \in Orders \cup {Nil}
      BY <1>1 DEF BookInv, BookTypeOK, NewLimitLevel
    <3>2. level[s][p].tail \in Orders \cup {Nil}
      BY <1>1 DEF BookInv, BookTypeOK
    <3>3. Remaining(o) \in Nat
      <4>1. ord[o].amount \in Nat /\ filled[o] \in Nat
        BY BookAssumption DEF Details, BookInv, BookTypeOK
      <4> QED
        BY <4>1 DEF Remaining
    <3>4. level' \in [Sides -> [Prices -> [head : Orders \cup {Nil}, tail : Orders \cup {Nil},
                                            volume : Int, count : Nat]]]
      <4> DEFINE new == [head   |-> IF l.tail = Nil THEN o ELSE l.head,
                         tail   |-> o,
                         volume |-> l.volume + Remaining(o),
                         count  |-> l.count + 1]
      <4>1. new \in [head : Orders \cup {Nil}, tail : Orders \cup {Nil}, volume : Int, count : Nat]
        BY <2>3, <3>1, <3>2, <3>3
      <4>2. level' = [level EXCEPT ![s][p] = new]
        BY <2>1 DEF LevelAppend
      <4> HIDE DEF new
      <4> QED
        BY <4>1, <4>2, <1>1 DEF BookInv, BookTypeOK
    <3>5. next' \in [Orders -> Orders \cup {Nil}] /\ prev' \in [Orders -> Orders \cup {Nil}]
      <4>1. /\ next' = [x \in Orders |-> next'[x]]
            /\ prev' = [x \in Orders |-> prev'[x]]
        BY <2>1 DEF LevelAppend, BookInv, BookTypeOK
      <4>2. \A x \in Orders : next[x] \in Orders \cup {Nil} /\ prev[x] \in Orders \cup {Nil}
        BY DEF BookInv, BookTypeOK
      <4>3. \A x \in Orders : next'[x] \in Orders \cup {Nil} /\ prev'[x] \in Orders \cup {Nil}
        BY <2>4, <3>2, <4>2
      <4> QED
        BY <4>1, <4>3
    <3>6. tiers' \in [Sides -> SUBSET Prices]
      <4>1. tiers \in [Sides -> SUBSET Prices] /\ tiers[s] \cup {p} \in SUBSET Prices
        BY <1>1 DEF BookInv, BookTypeOK
      <4>2. tiers' = tiers \/ tiers' = [tiers EXCEPT ![s] = tiers[s] \cup {p}]
        BY <2>2
      <4> QED
        BY <4>1, <4>2
    <3>7. index' \in [Ids -> Orders \cup {Nil}] /\ resting' \subseteq Orders
      BY <2>1, <1>1 DEF BookInv, BookTypeOK
    <3> QED
      BY <2>1, <1>1, <3>4, <3>5, <3>6, <3>7, <2>11 DEF BookInv, BookTypeOK
  <2>7. RestingOrdersOK'
    BY <2>1 DEF RestingOrdersOK, BookInv
  <2>8. QueuesAreFIFO'
    <3> SUFFICES ASSUME NEW s2 \in Sides, NEW p2 \in Prices
                 PROVE  Linked(level'[s2][p2].head, level'[s2][p2].tail, next', prev', Queue(s2, p2)')
      BY DEF QueuesAreFIFO, Linked
    <3> DEFINE Q2 == Queue(s2, p2)
    <3>1. Linked(level[s2][p2].head, level[s2][p2].tail, next, prev, Q2) /\ Q2 \in SUBSET Orders
      BY QueuesAreFinite DEF BookInv, QueuesAreFIFO, Linked
    <3>2. CASE s2 = s /\ p2 = p
      <4>1. \A x \in Q2 : x < o
        BY DEF Queue
      <4> DEFINE h == level[s][p].head
                 t == level[s][p].tail
      <4>2. Linked(h, t, next, prev, Q2)
        BY <3>1, <3>2
      <4> DEFINE h2 == IF t = Nil THEN o ELSE h
      <4>3. Appended(o, t, next, prev, next', prev', Q2 \cup {o})
        BY <2>4, <3>1 DEF Appended
      <4>4. h2 = IF t = Nil THEN o ELSE h
        OBVIOUS
      <4> HIDE DEF h, t, Q2, h2
      <4>5. Linked(h2, o, next', prev', Q2 \cup {o})
        BY <3>1, <4>1, <4>2, <4>3, <4>4, AppendKeepsLinked
      <4>6. Q2 = Q
        BY <3>2 DEF Q2
      <4> QED
        <5>1. level'[s][p].head = h2 /\ level'[s][p].tail = o
          BY <2>4 DEF h, t, h2
        <5>2. Queue(s2, p2)' = Q2 \cup {o}
          BY <2>5, <3>2, <4>6
        <5> QED
          BY <5>1, <5>2, <4>5, <3>2
    <3>3. CASE s2 # s \/ p2 # p
      <4>1. o \notin Q2 /\ level[s][p].tail \notin Q2
        <5>1. level[s][p].tail = Nil \/ level[s][p].tail \in Q
          BY <1>1 DEF BookInv, QueuesAreFIFO, IsNewest
        <5>2. Nil \notin Q2 /\ (level[s][p].tail \in Q => level[s][p].tail \notin Q2)
          BY <3>1, <3>3 DEF Queue, Nil, Orders
        <5> QED
          BY <5>1, <5>2, <2>5, <3>3
      <4>2. \A x \in Q2 : next'[x] = next[x] /\ prev'[x] = prev[x]
        BY <4>1, <2>4, <3>1
      <4> HIDE DEF Q2
      <4>3. Linked(level[s2][p2].head, level[s2][p2].tail, next', prev', Q2)
        BY <4>2, <3>1, LinkedCongruence
      <4> QED
        BY <4>3, <2>4, <2>5, <3>3 DEF Q2
    <3> QED
      BY <3>2, <3>3
  <2>9. LaddersMatchQueues'
    <3>1. level'[s][p].count = Cardinality(Q \cup {o})
      <4>1. IsFiniteSet(Q)
        BY QueuesAreFinite DEF BookInv
      <4>2. Cardinality(Q \cup {o}) = Cardinality(Q) + 1
        BY <4>1, <2>5, FS_AddElement
      <4>3. l.count = Cardinality(Q)
        <5>1. CASE p \in tiers[s]
          BY <5>1, <1>1 DEF BookInv, LaddersMatchQueues
        <5>2. CASE p \notin tiers[s]
          BY <5>2, <1>1, UnlistedLevelsAreEmpty, FS_EmptySet DEF NewLimitLevel
        <5> QED
          BY <5>1, <5>2
      <4>4. level'[s][p].count = l.count + 1
        BY <2>4
      <4> HIDE DEF l, Q
      <4> QED
        BY <4>2, <4>3, <4>4
    <3> SUFFICES ASSUME NEW s2 \in Sides
                 PROVE  /\ tiers'[s2] = {p2 \in Prices : Queue(s2, p2)' # {}}
                        /\ ToSet(ladder'[s2]) = tiers'[s2]
                        /\ SortedLadder(s2, ladder'[s2])
                        /\ \A p2 \in tiers'[s2] : level'[s2][p2].count = Cardinality(Queue(s2, p2)')
      BY DEF LaddersMatchQueues, SortedLadder
    <3>2. /\ tiers[s2] = {p2 \in Prices : Queue(s2, p2) # {}}
          /\ ToSet(ladder[s2]) = tiers[s2]
          /\ SortedLadder(s2, ladder[s2])
          /\ \A p2 \in tiers[s2] : level[s2][p2].count = Cardinality(Queue(s2, p2))
      BY DEF BookInv, LaddersMatchQueues, SortedLadder
    <3>3. tiers'[s2] \subseteq Prices
      BY <2>6 DEF BookTypeOK
    <3>4. CASE s2 = s
      <4>1. tiers'[s2] = {p2 \in Prices : Queue(s2, p2)' # {}}
        <5>1. \A p2 \in Prices : Queue(s2, p2)' # {} <=> p2 \in tiers[s] \cup {p}
          BY <3>2, <3>4, <2>5
        <5> QED
          BY <5>1, <3>3, <3>4, <2>11
      <4>2. ASSUME NEW p2 \in tiers'[s2]
            PROVE  level'[s2][p2].count = Cardinality(Queue(s2, p2)')
        <5>1. CASE p2 = p
          BY <5>1, <3>1, <3>4, <2>5
        <5>2. CASE p2 # p
          <6>1. p2 \in tiers[s] /\ p2 \in Prices
            BY <5>2, <3>3, <3>4, <2>11
          <6>2. Queue(s, p2)' = Queue(s, p2) /\ level'[s][p2] = level[s][p2]
            BY <5>2, <6>1, <1>1, <2>4, <2>5
          <6> QED
            BY <6>1, <6>2, <3>2, <3>4
        <5> QED
          BY <5>1, <5>2
      <4> QED
        BY <4>1, <4>2, <3>4, <2>11
    <3>5. CASE s2 # s
      <4>1. \A p2 \in Prices : Queue(s2, p2)' = Queue(s2, p2) /\ level'[s2][p2] = level[s2][p2]
        BY <3>5, <2>4, <2>5
      <4>2. ladder'[s2] = ladder[s2] /\ tiers'[s2] = tiers[s2]
        BY <3>5, <2>11
      <4> QED
        BY <4>1, <4>2, <3>2, <3>3
    <3> QED
      BY <3>4, <3>5
  <2>10. IndexIsExact'
    BY <2>1, <1>1 DEF BookInv, BookTypeOK, IndexIsExact, RestingOrdersOK, Details, Nil, Orders
  <2>12. RemovedOrdersAreUnlinked'
    <3>1. level[s][p].tail \in resting \cup {Nil}
      BY <1>1 DEF BookInv, QueuesAreFIFO, IsNewest, Queue
    <3>2. Nil \notin Orders
      BY DEF Nil, Orders
    <3>3. ASSUME NEW x \in Orders \ resting' PROVE next'[x] = Nil
      <4>1. x \in Orders \ resting /\ x # o /\ x # level[s][p].tail
        BY <2>1, <3>1, <3>2, <3>3
      <4>2. next'[x] = next[x]
        BY <2>4, <4>1
      <4> QED
        BY <4>1, <4>2 DEF BookInv, RemovedOrdersAreUnlinked
    <3> QED
      BY <3>3 DEF RemovedOrdersAreUnlinked
  <2> QED
    BY <2>6, <2>7, <2>8, <2>9, <2>10, <2>12 DEF BookInv
<1> QED
  BY <1>2, <1>3

(* OrderBook.CancelOrder of an ID the index holds keeps the book.           *)
LEMMA CancelOrderInv ==
  ASSUME BookInv, NEW id \in Ids, index[id] # Nil, UNCHANGED <<ord, filled>>, CancelOrder(id)
  PROVE  BookInv'
<1> SUFFICES ASSUME NEW o, o = index[id], NEW s, s = ord[o].side, NEW p, p = ord[o].price
             PROVE  BookInv'
  OBVIOUS
<1> DEFINE l == level[s][p]
           Q == Queue(s, p)
           e == WithoutOrder(l, o)
<1>1. /\ o \in resting /\ o \in Orders /\ ord[o].id = id
      /\ ord[o] \in Details /\ s \in Sides /\ p \in Prices /\ o \in Q
  <2>1. o \in resting /\ ord[o].id = id
    BY DEF BookInv, IndexIsExact
  <2>2. ord[o] \in Details /\ p \in Prices /\ o \in Orders
    BY <2>1 DEF BookInv, RestingOrdersOK, BookTypeOK
  <2> QED
    BY <2>1, <2>2 DEF Details, Queue
<1>2. /\ index' = [index EXCEPT ![id] = Nil]
      /\ resting' = resting \ {o}
      /\ LevelRemove(l, o)
      /\ ord' = ord /\ filled' = filled
  BY DEF CancelOrder, Unindex
<1>3. \/ IsEmpty(e) /\ tiers' = [tiers EXCEPT ![s] = tiers[s] \ {p}] /\ RemovePrice(s, p)
      \/ ~IsEmpty(e) /\ tiers' = tiers /\ ladder' = ladder
  BY DEF CancelOrder
<1>4. /\ \A x \in Orders : next'[x] = IF x = o THEN Nil ELSE IF x = prev[o] THEN next[o] ELSE next[x]
      /\ \A x \in Orders : prev'[x] = IF x = o THEN Nil ELSE IF x = next[o] THEN prev[o] ELSE prev[x]
      /\ level' = [level EXCEPT ![s][p] = e]
      /\ level'[s][p] = e
      /\ \A s2 \in Sides, p2 \in Prices : s2 # s \/ p2 # p => level'[s2][p2] = level[s2][p2]
  <2>1. level' = [level EXCEPT ![s][p] = e]
    BY <1>2 DEF LevelRemove
  <2>2. /\ \A x \in Orders : next'[x] = IF x = o THEN Nil ELSE IF x = prev[o] THEN next[o] ELSE next[x]
        /\ \A x \in Orders : prev'[x] = IF x = o THEN Nil ELSE IF x = next[o] THEN prev[o] ELSE prev[x]
    BY <1>2 DEF LevelRemove
  <2>3. level \in [Sides -> [Prices -> [head : Orders \cup {Nil}, tail : Orders \cup {Nil},
                                         volume : Int, count : Nat]]]
    BY DEF BookInv, BookTypeOK
  <2> HIDE DEF e
  <2>4. level'[s][p] = e
    BY <1>1, <2>1, <2>3
  <2>5. ASSUME NEW s2 \in Sides, NEW p2 \in Prices, s2 # s \/ p2 # p
        PROVE  level'[s2][p2] = level[s2][p2]
    BY <1>1, <2>1, <2>3, <2>5
  <2> QED
    BY <2>1, <2>2, <2>4, <2>5
<1>5. /\ Queue(s, p)' = Q \ {o}
      /\ \A s2 \in Sides, p2 \in Prices :
           s2 # s \/ p2 # p => Queue(s2, p2)' = Queue(s2, p2) /\ o \notin Queue(s2, p2)
  BY <1>2 DEF Queue
<1>6. \A s2 \in Sides, p2 \in Prices :
        Linked(level[s2][p2].head, level[s2][p2].tail, next, prev, Queue(s2, p2))
  BY DEF BookInv, QueuesAreFIFO, Linked
<1>7. Q \in SUBSET Orders /\ IsFiniteSet(Q)
  BY QueuesAreFinite DEF BookInv
<1>8. Linked(e.head, e.tail, next', prev', Q \ {o})
  <2> DEFINE h == l.head
             t == l.tail
             h2 == IF prev[o] = Nil THEN next[o] ELSE h
             t2 == IF next[o] = Nil THEN prev[o] ELSE t
  <2>1. e.head = h2 /\ e.tail = t2
    BY DEF WithoutOrder
  <2>2. Linked(h, t, next, prev, Q)
    BY <1>1, <1>6
  <2>3. Removed(o, next, prev, next', prev', Q \ {o})
    BY <1>4, <1>7 DEF Removed
  <2>4. h2 = (IF prev[o] = Nil THEN next[o] ELSE h) /\ t2 = (IF next[o] = Nil THEN prev[o] ELSE t)
    OBVIOUS
  <2> HIDE DEF h, t, h2, t2, Q, e, l
  <2>5. Linked(h2, t2, next', prev', Q \ {o})
    BY <1>1, <1>7, <2>2, <2>3, <2>4, RemoveKeepsLinked
  <2> QED
    BY <2>1, <2>5
<1>9. QueuesAreFIFO'
  <2> SUFFICES ASSUME NEW s2 \in Sides, NEW p2 \in Prices
               PROVE  Linked(level'[s2][p2].head, level'[s2][p2].tail, next', prev', Queue(s2, p2)')
    BY DEF QueuesAreFIFO, Linked
  <2>1. CASE s2 = s /\ p2 = p
    <3> HIDE DEF e
    <3> QED
      BY <2>1, <1>4, <1>5, <1>8
  <2>2. CASE s2 # s \/ p2 # p
    <3> DEFINE Q2 == Queue(s2, p2)
    <3>1. Linked(level[s2][p2].head, level[s2][p2].tail, next, prev, Q2) /\ Q2 \subseteq Orders
      BY <1>6, QueuesAreFinite DEF BookInv
    <3>2. o \notin Q2 /\ prev[o] \notin Q2 /\ next[o] \notin Q2
      <4>1. prev[o] \in Q \cup {Nil} /\ next[o] \in Q \cup {Nil}
        BY <1>1, <1>6 DEF Linked, IsOldest, IsNewest
      <4>2. Nil \notin Q2 /\ \A x \in Q : x \notin Q2
        BY <2>2, <3>1 DEF Queue, Nil, Orders
      <4> QED
        BY <4>1, <4>2, <1>1
    <3>3. \A x \in Q2 : next'[x] = next[x] /\ prev'[x] = prev[x]
      BY <3>1, <3>2, <1>4
    <3>4. Linked(level[s2][p2].head, level[s2][p2].tail, next', prev', Q2)
      <4> HIDE DEF Q2
      <4> QED
        BY <3>1, <3>3, LinkedCongruence
    <3> QED
      BY <3>4, <2>2, <1>4, <1>5
  <2> QED
    BY <2>1, <2>2
<1>10. /\ e.count = l.count - 1 /\ l.count = Cardinality(Q)
       /\ Cardinality(Q \ {o}) = Cardinality(Q) - 1 /\ Cardinality(Q \ {o}) \in Nat
       /\ IsEmpty(e) <=> Q \ {o} = {}
  <2>1. l.count = Cardinality(Q)
    BY <1>1 DEF BookInv, LaddersMatchQueues
  <2>2. /\ Cardinality(Q \ {o}) = Cardinality(Q) - 1 /\ Cardinality(Q \ {o}) \in Nat
        /\ Cardinality(Q) \in Nat
        /\ Cardinality(Q \ {o}) = 0 <=> Q \ {o} = {}
    BY <1>1, <1>7, FS_RemoveElement, FS_CardinalityType, FS_EmptySet
  <2>3. e.count = l.count - 1
    BY DEF WithoutOrder
  <2>4. e.head = Nil <=> Q \ {o} = {}
    <3> HIDE DEF e
    <3>1. IsOldest(e.head, Q \ {o})
      BY <1>8 DEF Linked
    <3>2. Nil \notin Q
      BY <1>7 DEF Nil, Orders
    <3> QED
      BY <3>1, <3>2 DEF IsOldest
  <2> HIDE DEF e, Q, l
  <2> QED
    BY <2>1, <2>2, <2>3, <2>4 DEF IsEmpty
<1>11. /\ ladder' \in [Sides -> Seq(Prices)] /\ tiers' \in [Sides -> SUBSET Prices]
       /\ SortedLadder(s, ladder'[s]) /\ ToSet(ladder'[s]) = tiers'[s]
       /\ \A s2 \in Sides : s2 # s => ladder'[s2] = ladder[s2] /\ tiers'[s2] = tiers[s2]
       /\ tiers'[s] = IF Q \ {o} = {} THEN tiers[s] \ {p} ELSE tiers[s]
  <2>1. /\ ladder[s] \in Seq(Prices) /\ SortedLadder(s, ladder[s]) /\ ToSet(ladder[s]) = tiers[s]
        /\ ladder \in [Sides -> Seq(Prices)] /\ tiers \in [Sides -> SUBSET Prices]
        /\ p \in tiers[s]
    BY <1>1 DEF BookInv, BookTypeOK, LaddersMatchQueues, SortedLadder
  <2>2. CASE IsEmpty(e)
    <3> DEFINE r == RemoveFirst(ladder[s], p)
    <3>1. r \in Seq(Prices) /\ SortedLadder(s, r) /\ ToSet(r) = ToSet(ladder[s]) \ {p}
      BY <2>1, <1>1, RemoveFirstRemoves
    <3>2. ladder' = [ladder EXCEPT ![s] = r] /\ tiers' = [tiers EXCEPT ![s] = tiers[s] \ {p}]
      BY <2>2, <1>3 DEF RemovePrice
    <3>3. Q \ {o} = {}
      BY <2>2, <1>10
    <3> HIDE DEF r, e
    <3> QED
      BY <3>1, <3>2, <3>3, <2>1, <1>1
  <2>3. CASE ~IsEmpty(e)
    BY <2>1, <2>3, <1>3, <1>10
  <2> QED
    BY <2>2, <2>3
<1>12. LaddersMatchQueues'
  <2> SUFFICES ASSUME NEW s2 \in Sides
               PROVE  /\ tiers'[s2] = {p2 \in Prices : Queue(s2, p2)' # {}}
                      /\ ToSet(ladder'[s2]) = tiers'[s2]
                      /\ SortedLadder(s2, ladder'[s2])
                      /\ \A p2 \in tiers'[s2] : level'[s2][p2].count = Cardinality(Queue(s2, p2)')
    BY DEF LaddersMatchQueues, SortedLadder
  <2>1. /\ tiers[s2] = {p2 \in Prices : Queue(s2, p2) # {}}
        /\ ToSet(ladder[s2]) = tiers[s2]
        /\ SortedLadder(s2, ladder[s2])
        /\ \A p2 \in tiers[s2] : level[s2][p2].count = Cardinality(Queue(s2, p2))
    BY DEF BookInv, LaddersMatchQueues, SortedLadder
  <2>2. tiers'[s2] \subseteq Prices
    BY <1>11
  <2>3. CASE s2 = s
    <3>1. tiers'[s2] = {p2 \in Prices : Queue(s2, p2)' # {}}
      <4>1. ASSUME NEW p2 \in Prices PROVE Queue(s2, p2)' # {} <=> p2 \in tiers'[s]
        <5>1. CASE p2 = p
          <6>1. Q # {} /\ p \in tiers[s]
            BY <1>1, <2>1, <2>3
          <6> HIDE DEF Q
          <6> QED
            BY <5>1, <6>1, <2>3, <1>5, <1>11
        <5>2. CASE p2 # p
          <6>1. Queue(s, p2)' = Queue(s, p2)
            BY <5>2, <1>1, <1>5
          <6>2. p2 \in tiers'[s] <=> p2 \in tiers[s]
            BY <5>2, <1>11
          <6> QED
            BY <6>1, <6>2, <2>1, <2>3
        <5> QED
          BY <5>1, <5>2
      <4> QED
        BY <4>1, <2>2, <2>3
    <3>2. ASSUME NEW p2 \in tiers'[s2]
          PROVE  level'[s2][p2].count = Cardinality(Queue(s2, p2)')
      <4>1. CASE p2 = p
        <5> HIDE DEF e, Q
        <5> QED
          BY <4>1, <1>4, <1>5, <1>10, <2>3
      <4>2. CASE p2 # p
        <5>1. p2 \in tiers[s] /\ p2 \in Prices
          BY <4>2, <2>2, <2>3, <1>11
        <5>2. Queue(s, p2)' = Queue(s, p2)
          BY <4>2, <5>1, <1>1, <1>5
        <5>3. level'[s][p2] = level[s][p2]
          BY <4>2, <5>1, <1>1, <1>4
        <5> QED
          BY <5>1, <5>2, <5>3, <2>1, <2>3
      <4> QED
        BY <4>1, <4>2
    <3> QED
      BY <3>1, <3>2, <2>3, <1>11
  <2>4. CASE s2 # s
    <3>1. \A p2 \in Prices : Queue(s2, p2)' = Queue(s2, p2) /\ level'[s2][p2] = level[s2][p2]
      BY <2>4, <1>4, <1>5
    <3>2. ladder'[s2] = ladder[s2] /\ tiers'[s2] = tiers[s2]
      BY <2>4, <1>11
    <3> QED
      BY <3>1, <3>2, <2>1, <2>2
  <2> QED
    BY <2>3, <2>4
<1>13. IndexIsExact'
  BY <1>1, <1>2 DEF BookInv, BookTypeOK, IndexIsExact, RestingOrdersOK, Details
<1>14. BookTypeOK'
  <2>1. e \in [head : Orders \cup {Nil}, tail : Orders \cup {Nil}, volume : Int, count : Nat]
    <3>1. next[o] \in Orders \cup {Nil} /\ prev[o] \in Orders \cup {Nil}
      BY <1>1 DEF BookInv, BookTypeOK
    <3>2. l \in [head : Orders \cup {Nil}, tail : Orders \cup {Nil}, volume : Int, count : Nat]
      BY <1>1 DEF BookInv, BookTypeOK
    <3>3. Remaining(o) \in Nat
      <4>1. ord[o].amount \in Nat /\ filled[o] \in Nat
        BY <1>1, BookAssumption DEF Details, BookInv, BookTypeOK
      <4> QED
        BY <4>1 DEF Remaining
    <3>4. l.count - 1 \in Nat
      BY <1>10
    <3> HIDE DEF l
    <3> QED
      BY <3>1, <3>2, <3>3, <3>4 DEF WithoutOrder
  <2>2. level' \in [Sides -> [Prices -> [head : Orders \cup {Nil}, tail : Orders \cup {Nil},
                                          volume : Int, count : Nat]]]
    <3> HIDE DEF e
    <3> QED
      BY <2>1, <1>1, <1>4 DEF BookInv, BookTypeOK
  <2>3. next' \in [Orders -> Orders \cup {Nil}] /\ prev' \in [Orders -> Orders \cup {Nil}]
    <3>1. /\ next' = [x \in Orders |-> next'[x]]
          /\ prev' = [x \in Orders |-> prev'[x]]
      BY <1>2 DEF LevelRemove, BookInv, BookTypeOK
    <3>2. \A x \in Orders : next[x] \in Orders \cup {Nil} /\ prev[x] \in Orders \cup {Nil}
      BY DEF BookInv, BookTypeOK
    <3>3. \A x \in Orders : next'[x] \in Orders \cup {Nil} /\ prev'[x] \in Orders \cup {Nil}
      BY <1>1, <1>4, <3>2
    <3> QED
      BY <3>1, <3>3
  <2>4. index' \in [Ids -> Orders \cup {Nil}] /\ resting' \subseteq Orders
    BY <1>2 DEF BookInv, BookTypeOK
  <2> QED
    BY <1>2, <1>11, <2>2, <2>3, <2>4 DEF BookInv, BookTypeOK
<1>15. RestingOrdersOK'
  BY <1>2 DEF RestingOrdersOK, BookInv
<1>16. RemovedOrdersAreUnlinked'
  <2>1. prev[o] \in resting \cup {Nil}
    <3>1. IsNewest(prev[o], {x \in Q : x < o})
      BY <1>1, <1>6 DEF Linked
    <3>2. Q \subseteq resting
      BY DEF Queue
    <3> HIDE DEF Q
    <3> QED
      BY <3>1, <3>2 DEF IsNewest
  <2>2. Nil \notin Orders
    BY DEF Nil, Orders
  <2>3. ASSUME NEW x \in Orders, x \notin resting' PROVE next'[x] = Nil
    <3>1. CASE x = o
      BY <3>1, <1>4
    <3>2. CASE x # o
      <4>1. x \notin resting /\ x # prev[o]
        BY <3>2, <2>1, <2>2, <2>3, <1>2
      <4>2. next[x] = Nil
        BY <4>1 DEF BookInv, RemovedOrdersAreUnlinked
      <4> QED
        BY <3>2, <4>1, <4>2, <1>4
    <3> QED
      BY <3>1, <3>2
  <2> QED
    BY <2>3 DEF RemovedOrdersAreUnlinked
<1> QED
  BY <1>9, <1>12, <1>13, <1>14, <1>15, <1>16 DEF BookInv

(* A new order's details leave the book alone until the order is added.     *)
LEMMA SubmitBookInv ==
  ASSUME BookInv, NEW o \in Orders, NEW d \in Details, o \notin resting,
         ord' = [ord EXCEPT ![o] = d], UNCHANGED <<filled, listVars>>
  PROVE  BookInv'
<1>1. /\ ord' \in [Orders -> Details \cup {Blank}]
      /\ \A x \in resting : ord'[x] = ord[x]
  BY DEF BookInv, BookTypeOK
<1>2. BookTypeOK' /\ RestingOrdersOK' /\ RemovedOrdersAreUnlinked' /\ IndexIsExact'
  BY <1>1 DEF BookInv, BookTypeOK, RestingOrdersOK, RemovedOrdersAreUnlinked, IndexIsExact, listVars
<1>3. \A s \in Sides, p \in Prices : Queue(s, p)' = Queue(s, p)
  BY <1>1 DEF Queue, listVars
<1>4. UNCHANGED <<next, prev, level, tiers, ladder>>
  BY DEF listVars
<1>5. QueuesAreFIFO'
  BY <1>3, <1>4 DEF BookInv, QueuesAreFIFO, IsOldest, IsNewest
<1>6. LaddersMatchQueues'
  BY <1>3, <1>4 DEF BookInv, BookTypeOK, LaddersMatchQueues
<1> QED
  BY <1>2, <1>5, <1>6 DEF BookInv

(* The matching loop's own write of TotalVolume keeps the rest of the book. *)
LEMMA VolumeInv ==
  ASSUME BookInv, NEW s \in Sides, NEW p \in Prices, NEW v \in Int,
         level' = [level EXCEPT ![s][p].volume = v],
         UNCHANGED <<ord, filled, next, prev, tiers, ladder, index, resting>>
  PROVE  BookInv'
<1> DEFINE L == [head : Orders \cup {Nil}, tail : Orders \cup {Nil}, volume : Int, count : Nat]
           new == [level[s][p] EXCEPT !.volume = v]
<1>0. new \in L /\ level' = [level EXCEPT ![s][p] = new]
  <2>1. level[s][p] \in L
    BY DEF BookInv, BookTypeOK
  <2> QED
    BY <2>1
<1>1. level \in [Sides -> [Prices -> L]] /\ level' \in [Sides -> [Prices -> L]]
  <2>1. level \in [Sides -> [Prices -> L]]
    BY DEF BookInv, BookTypeOK
  <2> HIDE DEF L, new
  <2> QED
    BY <1>0, <2>1
<1>2. \A s2 \in Sides, p2 \in Prices : /\ level'[s2][p2].head = level[s2][p2].head
                                       /\ level'[s2][p2].tail = level[s2][p2].tail
                                       /\ level'[s2][p2].count = level[s2][p2].count
  BY <1>0, <1>1
<1>3. \A s2, p2 : Queue(s2, p2)' = Queue(s2, p2)
  BY DEF Queue
<1>4. BookTypeOK'
  BY <1>1 DEF BookInv, BookTypeOK
<1>5. QueuesAreFIFO'
  BY <1>2, <1>3 DEF BookInv, QueuesAreFIFO, IsOldest, IsNewest
<1>6. LaddersMatchQueues'
  <2>1. \A s2 \in Sides : tiers[s2] \subseteq Prices
    BY DEF BookInv, BookTypeOK
  <2> QED
    BY <1>2, <1>3, <2>1 DEF BookInv, LaddersMatchQueues
<1> QED
  BY <1>4, <1>5, <1>6 DEF BookInv, RestingOrdersOK, RemovedOrdersAreUnlinked, IndexIsExact

(* What the caller of AddOrder sees of the queues: the order is added at    *)
(* most, and only when something of it is left.                             *)
LEMMA AddOrderRests ==
  ASSUME NEW o \in Orders, AddOrder(o)
  PROVE  resting' = resting \/ (Remaining(o) > 0 /\ resting' = resting \cup {o})
  BY DEF AddOrder, Accepts, listVars

(* What the caller of CancelOrder sees: one order is gone.                  *)
LEMMA CancelOrderRemoves ==
  ASSUME NEW id \in Ids, CancelOrder(id)
  PROVE  resting' = resting \ {index[id]}
  BY DEF CancelOrder

(* BestBid and BestAsk: no order of the side rests ahead of the first price *)
(* of its ladder, and none rests at all when the ladder is empty.           *)
LEMMA BestPriceIsBest ==
  ASSUME BookInv, NEW s \in Sides
  PROVE  /\ ladder[s] = <<>> => \A r \in resting : ord[r].side # s
         /\ ladder[s] # <<>> =>
              /\ BestPrice(s) \in Prices
              /\ \A r \in resting : ord[r].side = s => ~Ahead(s, ord[r].price, BestPrice(s))
<1> DEFINE l == ladder[s]
<1>1. /\ l \in Seq(Prices) /\ SortedLadder(s, l)
      /\ ToSet(l) = {p \in Prices : Queue(s, p) # {}}
  BY DEF BookInv, BookTypeOK, LaddersMatchQueues, SortedLadder
<1>2. ASSUME NEW r \in resting, ord[r].side = s
      PROVE  \E i \in 1 .. Len(l) : l[i] = ord[r].price
  <2>1. ord[r].price \in Prices /\ r \in Queue(s, ord[r].price)
    BY <1>2 DEF BookInv, RestingOrdersOK, Queue
  <2>2. ord[r].price \in ToSet(l)
    BY <1>1, <2>1
  <2> HIDE DEF l
  <2> QED
    BY <1>1, <2>2 DEF ToSet
<1> HIDE DEF l
<1>3. l = <<>> => \A r \in resting : ord[r].side # s
  BY <1>2
<1>4. ASSUME l # <<>>
      PROVE  /\ l[1] \in Prices
             /\ \A r \in resting : ord[r].side = s => ~Ahead(s, ord[r].price, l[1])
  <2>1. 1 \in 1 .. Len(l) /\ l[1] \in Prices
    BY <1>1, <1>4
  <2>2. ASSUME NEW r \in resting, ord[r].side = s
        PROVE  ~Ahead(s, ord[r].price, l[1])
    <3>1. PICK i \in 1 .. Len(l) : l[i] = ord[r].price
      BY <1>2, <2>2
    <3>2. i = 1 \/ Ahead(s, l[1], l[i])
      BY <1>1, <2>1 DEF SortedLadder
    <3>3. l[i] \in Int /\ l[1] \in Int
      <4>1. l[i] \in Prices
        BY <1>1
      <4> QED
        BY <4>1, <2>1, BookAssumption
    <3> QED
      BY <3>1, <3>2, <3>3 DEF Ahead
  <2> QED
    BY <2>1, <2>2
<1> QED
  BY <1>3, <1>4 DEF l, BestPrice
-----------------------------------------------------------------------------
\* What is left of every order, and of all orders of one level together.
RemainingOf == [o \in Orders |-> Remaining(o)]
Owed(s, p) == SumFunctionOnSet(RemainingOf, Queue(s, p))

\* LimitLevel.TotalVolume of a level that nothing has put out of step.
VolumeIsOwed(s, p) == level[s][p].volume = Owed(s, p)

(* The amounts are natural numbers, and so are their sums.                  *)
LEMMA OwedFacts ==
  ASSUME BookTypeOK
  PROVE  /\ \A o \in Orders : RemainingOf[o] = Remaining(o) /\ RemainingOf[o] \in Nat /\ RemainingOf[o] \in Int
         /\ \A s, p : Owed(s, p) \in Nat
         /\ \A s \in Sides, p \in Prices : level[s][p].volume \in Int
<1>1. ASSUME NEW o \in Orders
      PROVE  RemainingOf[o] = Remaining(o) /\ Remaining(o) \in Nat
  <2>1. ord[o] \in Details \cup {Blank} /\ filled[o] \in Nat
    BY DEF BookTypeOK
  <2>2. ord[o].amount \in Nat
    <3>1. CASE ord[o] \in Details
      <4>1. ord[o].amount \in Amounts
        BY <3>1 DEF Details
      <4> QED
        BY <4>1, BookAssumption
    <3>2. CASE ord[o] = Blank
      BY <3>2 DEF Blank
    <3> QED
      BY <2>1, <3>1, <3>2
  <2> QED
    BY <2>1, <2>2 DEF RemainingOf, Remaining
<1>2. ASSUME NEW s, NEW p PROVE Owed(s, p) \in Nat
  <2>1. Queue(s, p) \subseteq Orders /\ IsFiniteSet(Queue(s, p))
    BY QueuesAreFinite
  <2>2. \A o \in Queue(s, p) : RemainingOf[o] \in Nat
    BY <1>1, <2>1
  <2> QED
    BY <2>1, <2>2, SumNat DEF Owed
<1>3. \A s \in Sides, p \in Prices : level[s][p].volume \in Int
  <2> DEFINE L == [head : Orders \cup {Nil}, tail : Orders \cup {Nil}, volume : Int, count : Nat]
  <2>1. \A s \in Sides, p \in Prices : level[s][p] \in L
    BY DEF BookTypeOK
  <2> QED
    BY <2>1
<1> QED
  BY <1>1, <1>2, <1>3

(* The sum over a level is the same when its orders and what is left of     *)
(* them are.                                                                *)
LEMMA OwedUnchanged ==
  ASSUME BookTypeOK, NEW s, NEW p, Queue(s, p)' = Queue(s, p),
         \A o \in Queue(s, p) : Remaining(o)' = Remaining(o)
  PROVE  Owed(s, p)' = Owed(s, p)
<1>1. Queue(s, p) \subseteq Orders /\ IsFiniteSet(Queue(s, p))
  BY QueuesAreFinite
<1>2. \A o \in Queue(s, p) : RemainingOf'[o] = RemainingOf[o]
  BY <1>1 DEF RemainingOf
<1> HIDE DEF RemainingOf
<1>3. SumFunctionOnSet(RemainingOf', Queue(s, p)) = SumFunctionOnSet(RemainingOf, Queue(s, p))
  BY <1>1, <1>2, SumCongruence
<1> QED
  BY <1>3 DEF Owed

(* LimitLevel.Append adds what is left of the order; the other levels stay  *)
(* as they are.                                                             *)
LEMMA AddOrderVolumes ==
  ASSUME BookInv, NEW o \in Orders, o \notin resting,
         ord[o] \in Details, ord[o].price \in Prices,
         UNCHANGED <<ord, filled>>, AddOrder(o),
         NEW s2 \in Sides, NEW p2 \in Prices, p2 \in tiers[s2] => VolumeIsOwed(s2, p2)
  PROVE  p2 \in tiers'[s2] => VolumeIsOwed(s2, p2)'
<1> DEFINE s == ord[o].side
           p == ord[o].price
           l == IF p \in tiers[s] THEN level[s][p] ELSE NewLimitLevel
<1>1. s \in Sides /\ p \in Prices /\ BookTypeOK
  BY DEF Details, BookInv
<1>2. CASE ~Accepts(o)
  <2>1. UNCHANGED listVars /\ RemainingOf' = RemainingOf
    BY <1>2 DEF AddOrder, RemainingOf, Remaining
  <2> QED
    BY <2>1 DEF VolumeIsOwed, Owed, Queue, listVars
<1>3. CASE Accepts(o)
  <2>1. resting' = resting \cup {o} /\ LevelAppend(l, o) /\ ord' = ord /\ filled' = filled
    BY <1>3 DEF AddOrder
  <2>2. /\ level'[s][p].volume = l.volume + Remaining(o)
        /\ s2 # s \/ p2 # p => level'[s2][p2] = level[s2][p2]
    BY <1>1, <2>1 DEF LevelAppend, BookTypeOK
  <2>3. s2 = s /\ p2 = p => l.volume = Owed(s, p)
    <3>1. CASE p \in tiers[s]
      BY <1>1, <3>1 DEF VolumeIsOwed
    <3>2. CASE p \notin tiers[s]
      <4>1. Queue(s, p) = {} /\ l.volume = 0
        BY <1>1, <3>2, UnlistedLevelsAreEmpty DEF NewLimitLevel
      <4> QED
        BY <4>1, SumEmpty DEF Owed
    <3> QED
      BY <3>1, <3>2
  <2> HIDE DEF l
  <2>4. /\ Queue(s, p)' = Queue(s, p) \cup {o} /\ o \notin Queue(s, p)
        /\ s2 # s \/ p2 # p => Queue(s2, p2)' = Queue(s2, p2)
    BY <2>1 DEF Queue
  <2>5. RemainingOf' = RemainingOf
    BY <2>1 DEF RemainingOf, Remaining
  <2>6. Owed(s, p)' = Owed(s, p) + Remaining(o)
    <3>1. Queue(s, p) \subseteq Orders /\ IsFiniteSet(Queue(s, p))
      BY <1>1, QueuesAreFinite
    <3>2. \A x \in Queue(s, p) \cup {o} : RemainingOf[x] \in Int
      BY <1>1, <3>1, OwedFacts
    <3>3. SumFunctionOnSet(RemainingOf, Queue(s, p) \cup {o}) = SumFunctionOnSet(RemainingOf, Queue(s, p)) + RemainingOf[o]
      BY <2>4, <3>1, <3>2, SumAdd
    <3>4. RemainingOf[o] = Remaining(o)
      BY <1>1, OwedFacts
    <3>5. Owed(s, p)' = SumFunctionOnSet(RemainingOf, Queue(s, p) \cup {o})
      BY <2>1, <2>4, <2>5 DEF Owed
    <3> QED
      BY <3>3, <3>4, <3>5 DEF Owed
  <2>7. CASE s2 = s /\ p2 = p
    BY <2>2, <2>3, <2>6, <2>7 DEF VolumeIsOwed
  <2>8. CASE s2 # s \/ p2 # p
    <3>1. Owed(s2, p2)' = Owed(s2, p2)
      BY <2>4, <2>5, <2>8 DEF Owed
    <3>2. p2 \in tiers'[s2] => p2 \in tiers[s2]
      BY <1>1, <1>3, <2>8 DEF AddOrder, BookTypeOK
    <3> QED
      BY <2>2, <2>8, <3>1, <3>2 DEF VolumeIsOwed
  <2> QED
    BY <2>7, <2>8
<1> QED
  BY <1>2, <1>3

(* LimitLevel.Remove takes off what is left of the order; its clamp at zero *)
(* is never reached.                                                        *)
LEMMA CancelOrderVolumes ==
  ASSUME BookInv, NEW id \in Ids, index[id] # Nil, UNCHANGED <<ord, filled>>, CancelOrder(id),
         NEW s2 \in Sides, NEW p2 \in Prices, VolumeIsOwed(s2, p2)
  PROVE  VolumeIsOwed(s2, p2)'
<1> SUFFICES ASSUME NEW o, o = index[id], NEW s, s = ord[o].side, NEW p, p = ord[o].price
             PROVE  VolumeIsOwed(s2, p2)'
  OBVIOUS
<1> DEFINE e == WithoutOrder(level[s][p], o)
<1>1. o \in resting /\ o \in Orders /\ s \in Sides /\ p \in Prices /\ o \in Queue(s, p) /\ BookTypeOK
  <2>1. o \in resting
    BY DEF BookInv, IndexIsExact
  <2>2. ord[o] \in Details /\ p \in Prices /\ o \in Orders
    BY <2>1 DEF BookInv, RestingOrdersOK, BookTypeOK
  <2> QED
    BY <2>1, <2>2 DEF Details, Queue, BookInv
<1>2. resting' = resting \ {o} /\ LevelRemove(level[s][p], o) /\ ord' = ord /\ filled' = filled
  BY DEF CancelOrder
<1>3. level' = [level EXCEPT ![s][p] = e]
  BY <1>2 DEF LevelRemove
<1>4. /\ level'[s][p] = e
      /\ s2 # s \/ p2 # p => level'[s2][p2] = level[s2][p2]
  <2>1. level \in [Sides -> [Prices -> [head : Orders \cup {Nil}, tail : Orders \cup {Nil},
                                         volume : Int, count : Nat]]]
    BY <1>1 DEF BookTypeOK
  <2> HIDE DEF e
  <2> QED
    BY <1>1, <1>3, <2>1
<1>5. /\ Queue(s, p)' = Queue(s, p) \ {o}
      /\ s2 # s \/ p2 # p => Queue(s2, p2)' = Queue(s2, p2)
  BY <1>2 DEF Queue
<1>6. RemainingOf' = RemainingOf
  BY <1>2 DEF RemainingOf, Remaining
<1>7. Owed(s, p) = Remaining(o) + Owed(s, p)'
  <2>1. Queue(s, p) \subseteq Orders /\ IsFiniteSet(Queue(s, p))
    BY <1>1, QueuesAreFinite
  <2>2. \A x \in Queue(s, p) : RemainingOf[x] \in Int
    BY <1>1, <2>1, OwedFacts
  <2>3. SumFunctionOnSet(RemainingOf, Queue(s, p)) = RemainingOf[o] + SumFunctionOnSet(RemainingOf, Queue(s, p) \ {o})
    BY <1>1, <2>1, <2>2, SumRemove
  <2>4. RemainingOf[o] = Remaining(o)
    BY <1>1, OwedFacts
  <2>5. Owed(s, p)' = SumFunctionOnSet(RemainingOf, Queue(s, p) \ {o})
    BY <1>5, <1>6 DEF Owed
  <2> QED
    BY <2>3, <2>4, <2>5 DEF Owed
<1>8. Owed(s, p)' \in Nat /\ Remaining(o) \in Nat
  <2>1. Queue(s, p) \subseteq Orders /\ IsFiniteSet(Queue(s, p) \ {o})
    BY <1>1, QueuesAreFinite, FS_RemoveElement
  <2>2. \A x \in Queue(s, p) \ {o} : RemainingOf[x] \in Nat
    BY <1>1, <2>1, OwedFacts
  <2>3. SumFunctionOnSet(RemainingOf, Queue(s, p) \ {o}) \in Nat
    BY <2>1, <2>2, SumNat
  <2>4. Owed(s, p)' = SumFunctionOnSet(RemainingOf, Queue(s, p) \ {o})
    BY <1>5, <1>6 DEF Owed
  <2> QED
    BY <1>1, <2>3, <2>4, OwedFacts
<1>9. CASE s2 = s /\ p2 = p
  <2>1. level[s][p].volume = Owed(s, p)
    BY <1>9 DEF VolumeIsOwed
  <2>2. e.volume = IF level[s][p].volume < Remaining(o) THEN 0 ELSE level[s][p].volume - Remaining(o)
    BY DEF WithoutOrder
  <2> HIDE DEF e
  <2> QED
    BY <1>4, <1>7, <1>8, <1>9, <2>1, <2>2 DEF VolumeIsOwed
<1>10. CASE s2 # s \/ p2 # p
  <2>1. Owed(s2, p2)' = Owed(s2, p2)
    BY <1>5, <1>6, <1>10 DEF Owed
  <2> QED
    BY <1>4, <1>10, <2>1 DEF VolumeIsOwed
<1> QED
  BY <1>9, <1>10
=============================================================================
