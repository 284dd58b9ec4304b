---------------------------- MODULE ListsProofs ----------------------------
(***************************************************************************)
(* What skip(), take() and meta.totalPages make of any finite set of rows: *)
(* their pages divide it, whatever the order and the length of a page.     *)
(*                                                                         *)
(* The rank of a row, by which PageOf chooses, numbers the rows from 0 on  *)
(* without a gap: it is an injection into an interval as large as the set, *)
(* so that it reaches all of it.  The rest is arithmetic.                  *)
(***************************************************************************)
EXTENDS Lists, FiniteSetTheorems, TLAPS

\* The rows that come before x.
Below(rows, sort, x) == {y \in rows : Before(sort, y, x)}

LEMMA BeforeOrders ==
    ASSUME NEW sort
    PROVE  /\ \A x \in Int : ~Before(sort, x, x)
           /\ \A x, y \in Int : x # y => Before(sort, x, y) \/ Before(sort, y, x)
           /\ \A x, y, z \in Int :
                 Before(sort, x, y) /\ Before(sort, y, z) => Before(sort, x, z)
BY DEF Before

\* A rank is less than the number of the rows.
LEMMA RankType ==
    ASSUME NEW rows \in SUBSET Int, IsFiniteSet(rows), NEW sort, NEW x \in rows
    PROVE  /\ IsFiniteSet(Below(rows, sort, x))
           /\ Rank(rows, sort, x) = Cardinality(Below(rows, sort, x))
           /\ Rank(rows, sort, x) \in 0..(Cardinality(rows) - 1)
<1> DEFINE below == Below(rows, sort, x)
<1>1. below \in SUBSET rows /\ x \notin below
  BY BeforeOrders DEF Below
<1>2. /\ IsFiniteSet(below)
      /\ Cardinality(below) <= Cardinality(rows)
      /\ Cardinality(below) # Cardinality(rows)
  BY <1>1, FS_Subset
<1>3. Cardinality(below) \in Nat /\ Cardinality(rows) \in Nat
  BY <1>2, FS_CardinalityType
<1>4. Rank(rows, sort, x) = Cardinality(below)
  BY DEF Rank, Below
<1> HIDE DEF below
<1>5. QED
  BY <1>2, <1>3, <1>4 DEF below

\* What comes before in a list has the smaller rank.
LEMMA RankMonotone ==
    ASSUME NEW rows \in SUBSET Int, IsFiniteSet(rows), NEW sort,
           NEW x \in rows, NEW y \in rows, Before(sort, x, y)
    PROVE  Rank(rows, sort, x) < Rank(rows, sort, y)
<1>1. /\ Below(rows, sort, x) \in SUBSET Below(rows, sort, y)
      /\ Below(rows, sort, x) # Below(rows, sort, y)
  <2>1. \A z \in Below(rows, sort, x) : z \in rows /\ Before(sort, z, x)
    BY DEF Below
  <2>2. \A z \in Below(rows, sort, x) : Before(sort, z, y)
    BY <2>1, BeforeOrders
  <2>3. x \in Below(rows, sort, y) /\ x \notin Below(rows, sort, x)
    BY BeforeOrders DEF Below
  <2>4. QED
    BY <2>1, <2>2, <2>3 DEF Below
<1>2. IsFiniteSet(Below(rows, sort, y))
  BY RankType
<1>3. /\ Cardinality(Below(rows, sort, x)) <= Cardinality(Below(rows, sort, y))
      /\ Cardinality(Below(rows, sort, x)) # Cardinality(Below(rows, sort, y))
  BY <1>1, <1>2, FS_Subset
<1>4. /\ Rank(rows, sort, x) = Cardinality(Below(rows, sort, x))
      /\ Rank(rows, sort, y) = Cardinality(Below(rows, sort, y))
      /\ Rank(rows, sort, x) \in Int /\ Rank(rows, sort, y) \in Int
  <2>1. Cardinality(rows) \in Nat
    BY FS_CardinalityType
  <2>2. QED
    BY <2>1, RankType
<1>5. QED
  BY <1>3, <1>4

\* Every number below that of the rows is the rank of a row.
LEMMA RankOnto ==
    ASSUME NEW rows \in SUBSET Int, IsFiniteSet(rows), NEW sort,
           NEW k \in 0..(Cardinality(rows) - 1)
    PROVE  \E x \in rows : Rank(rows, sort, x) = k
<1> DEFINE n == Cardinality(rows)
           ranks == [x \in rows |-> Rank(rows, sort, x)]
<1>1. n \in Nat
  BY FS_CardinalityType
<1>2. ranks \in [rows -> 0..(n - 1)]
  BY RankType
<1>3. \A x, y \in rows : x # y => Rank(rows, sort, x) # Rank(rows, sort, y)
  <2> SUFFICES ASSUME NEW x \in rows, NEW y \in rows, x # y
               PROVE  Rank(rows, sort, x) # Rank(rows, sort, y)
    OBVIOUS
  <2>1. Before(sort, x, y) \/ Before(sort, y, x)
    BY BeforeOrders
  <2>2. Rank(rows, sort, x) \in 0..(n - 1) /\ Rank(rows, sort, y) \in 0..(n - 1)
    BY RankType
  <2>3. Rank(rows, sort, x) < Rank(rows, sort, y)
        \/ Rank(rows, sort, y) < Rank(rows, sort, x)
    BY <2>1, RankMonotone
  <2>4. QED
    BY <1>1, <2>2, <2>3
<1>4. ranks \in Injection(rows, 0..(n - 1))
  BY <1>2, <1>3 DEF Injection, IsInjective
<1>5. IsFiniteSet(0..(n - 1)) /\ Cardinality(0..(n - 1)) = n
  <2>1. 0 \in Int /\ n - 1 \in Int
    BY <1>1
  <2> HIDE DEF n
  <2>2. /\ IsFiniteSet(0..(n - 1))
        /\ Cardinality(0..(n - 1)) = IF 0 > n - 1 THEN 0 ELSE n - 1 - 0 + 1
    BY <2>1, FS_Interval, Zenon
  <2>3. QED
    BY <1>1, <2>2
<1>6. ranks \in Surjection(rows, 0..(n - 1))
  BY <1>4, <1>5, FS_Injection
<1>7. \E x \in rows : ranks[x] = k
  BY <1>6 DEF Surjection
<1>8. QED
  BY <1>7

\* A page begins at or before the rank that it ends after.
LEMMA PageOfRank ==
    ASSUME NEW k \in Nat, NEW per \in Nat \ {0}
    PROVE  /\ k \div per \in Nat
           /\ (k \div per) * per <= k
           /\ k < (k \div per + 1) * per
OBVIOUS

LEMMA Products ==
    ASSUME NEW a \in Nat, NEW b \in Nat, NEW per \in Nat, a <= b
    PROVE  a * per <= b * per
OBVIOUS

\* The last page ends after the last row and begins before it.
LEMMA LastPage ==
    ASSUME NEW n \in Nat, NEW per \in Nat \ {0}
    PROVE  /\ TotalPages(n, per) \in Nat \ {0}
           /\ n <= TotalPages(n, per) * per
           /\ n > 0 => (TotalPages(n, per) - 1) * per < n
<1>1. CASE per > n
  BY <1>1 DEF TotalPages
<1>2. CASE per <= n
  <2> DEFINE q == (n + per - 1) \div per
  <2>1. TotalPages(n, per) = q
    BY <1>2 DEF TotalPages
  <2>2. q \in Nat /\ q * per <= n + per - 1 /\ n + per - 1 < (q + 1) * per
    BY PageOfRank
  <2> HIDE DEF q
  <2>3. (q + 1) * per = q * per + per /\ (q - 1) * per = q * per - per
    BY <2>2
  <2>4. q * per \in Int
    BY <2>2
  <2>5. n <= q * per /\ (q - 1) * per < n
    BY <2>2, <2>3, <2>4
  <2>6. q # 0
    BY <1>2, <2>5
  <2>7. QED
    BY <2>1, <2>2, <2>5, <2>6
<1>3. QED
  BY <1>1, <1>2

\* Whatever finite set of rows findAll() shows, in either order and with any
\* number of rows to a page: each row is on one of the pages 1..totalPages, no
\* page is empty unless there is nothing to show, none comes after the last.
THEOREM PagesDivideAnyRows ==
    ASSUME NEW rows \in SUBSET Int, IsFiniteSet(rows), NEW sort,
           NEW per \in Nat \ {0}
    PROVE  Divided(rows, sort, per)
<1> DEFINE n == Cardinality(rows)
           last == TotalPages(n, per)
           page(cur) == PageOf(rows, sort, cur, per)
           rank(x) == Rank(rows, sort, x)
<1>1. n \in Nat
  BY FS_CardinalityType
<1>2. last \in Nat \ {0} /\ n <= last * per /\ (n > 0 => (last - 1) * per < n)
  BY <1>1, LastPage
<1>3. \A x \in rows : rank(x) \in 0..(n - 1)
  BY RankType
<1>4. \A k \in 0..(n - 1) : \E x \in rows : rank(x) = k
  BY RankOnto
<1>5. \A cur, x : x \in page(cur) <=>
        x \in rows /\ (cur - 1) * per <= rank(x) /\ rank(x) < cur * per
  BY DEF PageOf
<1>6. n = 0 <=> rows = {}
  BY FS_EmptySet
<1> HIDE DEF n, last, page, rank
<1>7. ASSUME NEW x \in rows
      PROVE  \E cur \in 1..last :
                /\ x \in page(cur)
                /\ \A other \in (1..last) \ {cur} : x \notin page(other)
  <2> DEFINE q == rank(x) \div per
             cur == q + 1
  <2>1. rank(x) \in Nat /\ rank(x) < n
    BY <1>1, <1>3, <1>7
  <2>2. q \in Nat /\ q * per <= rank(x) /\ rank(x) < (q + 1) * per
    BY <2>1, PageOfRank
  <2> HIDE DEF q
  <2>3. q < last
    <3>1. CASE last <= q
      <4>1. last * per <= q * per
        BY <1>2, <2>2, <3>1, Products
      <4>2. last * per \in Nat /\ q * per \in Nat
        BY <1>2, <2>2
      <4>3. QED
        BY <1>1, <1>2, <2>1, <2>2, <4>1, <4>2
    <3>2. QED
      BY <1>2, <2>2, <3>1
  <2>4. cur \in 1..last /\ cur - 1 = q
    BY <1>2, <2>2, <2>3
  <2>5. x \in page(cur)
    BY <1>5, <1>7, <2>2, <2>4
  <2>6. ASSUME NEW other \in (1..last) \ {cur}, x \in page(other) PROVE FALSE
    <3>1. other \in Nat /\ other - 1 \in Nat
      BY <1>2, <2>6
    <3>2. (other - 1) * per <= rank(x) /\ rank(x) < other * per
      BY <1>5, <2>6
    <3>3. CASE other <= q
      <4>1. other * per <= q * per
        BY <2>2, <3>1, <3>3, Products
      <4>2. other * per \in Nat /\ q * per \in Nat
        BY <2>2, <3>1
      <4>3. QED
        BY <2>1, <2>2, <3>2, <4>1, <4>2
    <3>4. CASE q + 1 <= other - 1
      <4>1. (q + 1) * per <= (other - 1) * per
        BY <2>2, <3>1, <3>4, Products
      <4>2. (other - 1) * per \in Nat /\ (q + 1) * per \in Nat
        BY <2>2, <3>1
      <4>3. QED
        BY <2>1, <2>2, <3>2, <4>1, <4>2
    <3>5. QED
      BY <2>2, <2>6, <3>1, <3>3, <3>4
  <2>7. QED
    BY <2>4, <2>5, <2>6
<1>8. ASSUME rows # {}, NEW cur \in 1..last PROVE page(cur) # {}
  <2> DEFINE k == (cur - 1) * per
  <2>1. cur - 1 \in Nat /\ last - 1 \in Nat /\ cur - 1 <= last - 1
    BY <1>2
  <2>2. k <= (last - 1) * per
    BY <2>1, Products
  <2>3. k \in Nat /\ (last - 1) * per \in Nat /\ (last - 1) * per < n
    <3>1. n # 0
      BY <1>6, <1>8, Zenon
    <3>2. (last - 1) * per < n
      BY <1>1, <1>2, <3>1
    <3>3. k \in Nat /\ (last - 1) * per \in Nat
      BY <2>1
    <3>4. QED
      BY <3>2, <3>3
  <2>4. k < cur * per
    <3>1. cur * per = k + per
      BY <1>2
    <3>2. QED
      BY <2>3, <3>1
  <2> HIDE DEF k
  <2>5. PICK x \in rows : rank(x) = k
    BY <1>1, <1>4, <2>2, <2>3
  <2>6. k <= k
    BY <2>3
  <2>7. x \in page(cur)
    BY <1>5, <2>4, <2>5, <2>6 DEF k
  <2>8. QED
    BY <2>7
<1>9. page(last + 1) = {}
  <2> DEFINE next == last + 1
  <2>1. next \in Nat /\ next - 1 = last /\ last * per \in Nat
    BY <1>2
  <2> HIDE DEF next
  <2>2. ASSUME NEW x, x \in page(next) PROVE FALSE
    <3>1. x \in rows /\ (next - 1) * per <= rank(x)
      BY <1>5, <2>2
    <3>2. rank(x) \in Nat /\ rank(x) < n
      BY <1>1, <1>3, <3>1
    <3>3. QED
      BY <1>1, <1>2, <2>1, <3>1, <3>2
  <2>3. QED
    BY <2>2 DEF next
<1>10. QED
  BY <1>7, <1>8, <1>9 DEF Divided, n, last, page
=============================================================================
