------------------------- MODULE RenderSpansProofs --------------------------
(***************************************************************************)
(* Proofs about RenderSpans: the render takes a token set for a class when *)
(* it matches the same characters and at no other time, whatever ranges it *)
(* has and how many, and whatever bytes and highest code point there are.  *)
(***************************************************************************)
EXTENDS RenderSpans, FiniteSetTheorems, SequenceTheorems, TLAPS

-----------------------------------------------------------------------------
(* Code points: the bytes are compared from the highest, and NextOf carries. *)

Points == Nat \X (0..MaxByte) \X (0..MaxByte)

LEMMA PointIs ==
  ASSUME NEW a \in Points
  PROVE  /\ a = <<a[1], a[2], a[3]>>
         /\ a[1] \in Nat /\ a[2] \in 0..MaxByte /\ a[3] \in 0..MaxByte
         /\ a[2] \in Nat /\ a[3] \in Nat /\ MaxByte \in Nat
BY CodePointAssumption DEF Points

LEMMA BeforeIs ==
  ASSUME NEW a \in Points, NEW b \in Points
  PROVE  Before(a, b) <=> \/ a[1] < b[1]
                          \/ a[1] = b[1] /\ a[2] < b[2]
                          \/ a[1] = b[1] /\ a[2] = b[2] /\ a[3] < b[3]
<1>1. Before(a, b) <=> \/ a[1] < b[1] /\ \A j \in 1..0 : a[j] = b[j]
                       \/ a[2] < b[2] /\ \A j \in 1..1 : a[j] = b[j]
                       \/ a[3] < b[3] /\ \A j \in 1..2 : a[j] = b[j]
  <2>1. 1..3 = {1, 2, 3} /\ 1 - 1 = 0 /\ 2 - 1 = 1 /\ 3 - 1 = 2
    OBVIOUS
  <2>2. QED
    BY <2>1, Zenon DEF Before
<1>2. 1..0 = {} /\ 1..1 = {1} /\ 1..2 = {1, 2}
  OBVIOUS
<1>3. QED
  BY <1>1, <1>2, Zenon

LEMMA Irreflexive ==
  ASSUME NEW a \in Points PROVE ~Before(a, a)
BY PointIs, BeforeIs

LEMMA Transitive ==
  ASSUME NEW a \in Points, NEW b \in Points, NEW c \in Points, Before(a, b), Before(b, c)
  PROVE  Before(a, c)
BY PointIs, BeforeIs

LEMMA Total ==
  ASSUME NEW a \in Points, NEW b \in Points
  PROVE  Before(a, b) \/ a = b \/ Before(b, a)
<1>1. SUFFICES ASSUME ~Before(a, b), ~Before(b, a) PROVE a = b
  OBVIOUS
<1>2. a[1] = b[1] /\ a[2] = b[2] /\ a[3] = b[3]
  BY <1>1, PointIs, BeforeIs
<1>3. QED
  BY <1>2, PointIs, Zenon

LEMMA NextIs ==
  ASSUME NEW a \in Points
  PROVE  /\ NextOf(a) \in Points
         /\ a[3] # MaxByte => NextOf(a)[1] = a[1] /\ NextOf(a)[2] = a[2] /\ NextOf(a)[3] = a[3] + 1
         /\ a[3] = MaxByte /\ a[2] # MaxByte =>
              NextOf(a)[1] = a[1] /\ NextOf(a)[2] = a[2] + 1 /\ NextOf(a)[3] = 0
         /\ a[3] = MaxByte /\ a[2] = MaxByte =>
              NextOf(a)[1] = a[1] + 1 /\ NextOf(a)[2] = 0 /\ NextOf(a)[3] = 0
<1>1. /\ a[1] \in Nat /\ a[2] \in 0..MaxByte /\ a[3] \in 0..MaxByte /\ MaxByte \in Nat
  BY PointIs
<1>2. CASE a[3] # MaxByte
  <2>1. NextOf(a) = <<a[1], a[2], a[3] + 1>> /\ a[3] + 1 \in 0..MaxByte
    BY <1>1, <1>2 DEF NextOf
  <2>2. QED
    BY <2>1, <1>1, <1>2 DEF Points
<1>3. CASE a[3] = MaxByte /\ a[2] # MaxByte
  <2>1. NextOf(a) = <<a[1], a[2] + 1, 0>> /\ a[2] + 1 \in 0..MaxByte /\ 0 \in 0..MaxByte
    BY <1>1, <1>3 DEF NextOf
  <2>2. QED
    BY <2>1, <1>1, <1>3 DEF Points
<1>4. CASE a[3] = MaxByte /\ a[2] = MaxByte
  <2>1. NextOf(a) = <<a[1] + 1, 0, 0>> /\ a[1] + 1 \in Nat /\ 0 \in 0..MaxByte
    BY <1>1, <1>4 DEF NextOf
  <2>2. QED
    BY <2>1, <1>1, <1>4 DEF Points
<1>5. QED
  BY <1>2, <1>3, <1>4

\* NextOf(a) is the first point after a.
LEMMA Successor ==
  ASSUME NEW a \in Points, NEW b \in Points
  PROVE  NextOf(a) \in Points /\ (Before(a, b) <=> ~Before(b, NextOf(a)))
<1>1. NextOf(a) \in Points
  BY NextIs
<1>2. /\ a[1] \in Nat /\ a[2] \in 0..MaxByte /\ a[3] \in 0..MaxByte /\ MaxByte \in Nat
      /\ b[1] \in Nat /\ b[2] \in 0..MaxByte /\ b[3] \in 0..MaxByte
  BY PointIs
<1>3. Before(a, b) <=> \/ a[1] < b[1]
                       \/ a[1] = b[1] /\ a[2] < b[2]
                       \/ a[1] = b[1] /\ a[2] = b[2] /\ a[3] < b[3]
  BY BeforeIs
<1>4. Before(b, NextOf(a)) <=>
         \/ b[1] < NextOf(a)[1]
         \/ b[1] = NextOf(a)[1] /\ b[2] < NextOf(a)[2]
         \/ b[1] = NextOf(a)[1] /\ b[2] = NextOf(a)[2] /\ b[3] < NextOf(a)[3]
  BY <1>1, BeforeIs
<1>5. CASE a[3] # MaxByte
  BY <1>2, <1>3, <1>4, <1>5, NextIs, <1>1
<1>6. CASE a[3] = MaxByte /\ a[2] # MaxByte
  BY <1>2, <1>3, <1>4, <1>6, NextIs, <1>1
<1>7. CASE a[3] = MaxByte /\ a[2] = MaxByte
  BY <1>2, <1>3, <1>4, <1>7, NextIs, <1>1
<1>8. QED
  BY <1>5, <1>6, <1>7

LEMMA Predecessor ==
  ASSUME NEW a \in Points, a # Lowest
  PROVE  \E p \in Points : NextOf(p) = a
<1>1. /\ a = <<a[1], a[2], a[3]>> /\ a[1] \in Nat /\ a[2] \in 0..MaxByte /\ a[3] \in 0..MaxByte
      /\ MaxByte \in Nat
  BY PointIs
<1>2. CASE a[3] # 0
  <2> DEFINE p == <<a[1], a[2], a[3] - 1>>
  <2>1. a[3] - 1 \in 0..MaxByte /\ a[3] - 1 # MaxByte /\ (a[3] - 1) + 1 = a[3]
    BY <1>1, <1>2
  <2>2. p \in Points /\ NextOf(p) = <<a[1], a[2], a[3]>>
    BY <1>1, <2>1 DEF Points, NextOf
  <2>3. QED
    BY <2>2, <1>1
<1>3. CASE a[3] = 0 /\ a[2] # 0
  <2> DEFINE p == <<a[1], a[2] - 1, MaxByte>>
  <2>1. a[2] - 1 \in 0..MaxByte /\ a[2] - 1 # MaxByte /\ (a[2] - 1) + 1 = a[2]
        /\ MaxByte \in 0..MaxByte
    BY <1>1, <1>3
  <2>2. p \in Points /\ NextOf(p) = <<a[1], a[2], 0>>
    BY <1>1, <2>1 DEF Points, NextOf
  <2>3. QED
    BY <2>2, <1>1, <1>3
<1>4. CASE a[3] = 0 /\ a[2] = 0
  <2> DEFINE p == <<a[1] - 1, MaxByte, MaxByte>>
  <2>1. a[1] # 0
    BY <1>1, <1>4 DEF Lowest
  <2>2. a[1] - 1 \in Nat /\ (a[1] - 1) + 1 = a[1] /\ MaxByte \in 0..MaxByte
    BY <1>1, <2>1
  <2>3. p \in Points /\ NextOf(p) = <<a[1], 0, 0>>
    BY <2>2 DEF Points, NextOf
  <2>4. QED
    BY <2>3, <1>1, <1>4
<1>5. QED
  BY <1>2, <1>3, <1>4

LEMMA LowestIsFirst ==
  Lowest \in Points /\ \A a \in Points : ~Before(a, Lowest)
<1>1. Lowest \in Points /\ Lowest[1] = 0 /\ Lowest[2] = 0 /\ Lowest[3] = 0
  BY CodePointAssumption DEF Lowest, Points
<1>2. QED
  BY <1>1, BeforeIs, PointIs

\* All the order of the points is used for; below, Before and NextOf stay closed.
LEMMA Order ==
  /\ \A a \in Points : ~Before(a, a)
  /\ \A a, b, c \in Points : Before(a, b) /\ Before(b, c) => Before(a, c)
  /\ \A a, b \in Points : Before(a, b) \/ a = b \/ Before(b, a)
BY Irreflexive, Transitive, Total

LEMMA OrderWeak ==
  ASSUME NEW a \in Points, NEW b \in Points, NEW c \in Points
  PROVE  /\ ~Before(b, a) /\ ~Before(c, b) => ~Before(c, a)
         /\ Before(a, b) /\ ~Before(c, b) => Before(a, c)
         /\ ~Before(b, a) /\ Before(b, c) => Before(a, c)
         /\ Before(a, b) => ~Before(b, a)
         /\ ~Before(a, b) /\ ~Before(b, a) => a = b
BY Order, Zenon

-----------------------------------------------------------------------------
(* A finite set in an order that is total on it: every member once, each    *)
(* before those it precedes.                                                *)

IsOrder(S, R) ==
  /\ \A s \in S : <<s, s>> \notin R
  /\ \A r, s, t \in S : <<r, s>> \in R /\ <<s, t>> \in R => <<r, t>> \in R
  /\ \A r, s \in S : <<r, s>> \in R \/ r = s \/ <<s, r>> \in R

LEMMA Ranked ==
  ASSUME NEW S, IsFiniteSet(S), NEW R, IsOrder(S, R)
  PROVE  /\ Cardinality(S) \in Nat
         /\ InOrder(S, R) \in [1..Cardinality(S) -> S]
         /\ \A s \in S : \E k \in 1..Cardinality(S) : InOrder(S, R)[k] = s
         /\ \A k, l \in 1..Cardinality(S) : k < l => <<InOrder(S, R)[k], InOrder(S, R)[l]>> \in R
<1> DEFINE n == Cardinality(S)
           Below(s) == {r \in S : <<r, s>> \in R}
           rank == [s \in S |-> Cardinality(Below(s))]
           o == InOrder(S, R)
<1>1. n \in Nat
  BY FS_CardinalityType
<1>2. \A s \in S : IsFiniteSet(Below(s)) /\ Cardinality(Below(s)) \in 0 .. n - 1
  <2> SUFFICES ASSUME NEW s \in S PROVE IsFiniteSet(Below(s)) /\ Cardinality(Below(s)) \in 0 .. n - 1
    OBVIOUS
  <2>1. Below(s) \in SUBSET S /\ Below(s) # S
    BY DEF IsOrder
  <2>2. IsFiniteSet(Below(s)) /\ Cardinality(Below(s)) <= n /\ Cardinality(Below(s)) # n
    BY <2>1, FS_Subset
  <2>3. Cardinality(Below(s)) \in Nat
    BY <2>2, FS_CardinalityType
  <2>4. QED
    BY <2>2, <2>3, <1>1
<1>3. rank \in [S -> 0 .. n - 1]
  BY <1>2
<1>4. \A s, t \in S : <<s, t>> \in R => rank[s] < rank[t]
  <2> SUFFICES ASSUME NEW s \in S, NEW t \in S, <<s, t>> \in R PROVE rank[s] < rank[t]
    OBVIOUS
  <2>1. Below(s) \in SUBSET Below(t) /\ s \in Below(t) /\ s \notin Below(s)
    BY DEF IsOrder
  <2>2. IsFiniteSet(Below(t)) /\ Below(s) # Below(t)
    BY <2>1, <1>2
  <2>3. Cardinality(Below(s)) <= Cardinality(Below(t))
        /\ Cardinality(Below(s)) # Cardinality(Below(t))
    BY <2>1, <2>2, FS_Subset
  <2>4. Cardinality(Below(s)) \in 0 .. n - 1 /\ Cardinality(Below(t)) \in 0 .. n - 1
    BY <1>2
  <2>5. QED
    BY <2>3, <2>4, <1>1
<1> HIDE DEF rank
<1>5. \A s, t \in S : rank[s] = rank[t] => s = t
  <2> SUFFICES ASSUME NEW s \in S, NEW t \in S, rank[s] = rank[t], s # t PROVE FALSE
    OBVIOUS
  <2>1. <<s, t>> \in R \/ <<t, s>> \in R
    BY DEF IsOrder
  <2>2. rank[s] \in 0 .. n - 1 /\ rank[t] \in 0 .. n - 1
    BY <1>3
  <2>3. QED
    BY <2>1, <2>2, <1>4, <1>1
<1>6. \A k \in 1 .. n : \E s \in S : rank[s] = k - 1
  <2>1. rank \in Injection(S, 0 .. n - 1)
    BY <1>3, <1>5 DEF Injection, IsInjective
  <2>2. IsFiniteSet(0 .. n - 1) /\ Cardinality(0 .. n - 1) = n
    BY <1>1, FS_Interval
  <2>3. rank \in Surjection(S, 0 .. n - 1)
    BY <2>1, <2>2, FS_Injection
  <2>4. QED
    BY <2>3, <1>1 DEF Surjection
<1>7. \A k \in 1 .. n : o[k] \in S /\ rank[o[k]] = k - 1
  <2> SUFFICES ASSUME NEW k \in 1 .. n PROVE o[k] \in S /\ rank[o[k]] = k - 1
    OBVIOUS
  <2>1. o[k] = CHOOSE s \in S : Cardinality(Below(s)) = k - 1
    BY DEF InOrder
  <2>2. \E s \in S : Cardinality(Below(s)) = k - 1
    BY <1>6 DEF rank
  <2>3. o[k] \in S /\ Cardinality(Below(o[k])) = k - 1
    BY <2>1, <2>2
  <2>4. QED
    BY <2>3 DEF rank
<1>8. o \in [1 .. n -> S]
  BY <1>7 DEF InOrder
<1>9. \A s \in S : \E k \in 1 .. n : o[k] = s
  <2> SUFFICES ASSUME NEW s \in S PROVE \E k \in 1 .. n : o[k] = s
    OBVIOUS
  <2>1. rank[s] \in 0 .. n - 1
    BY <1>3
  <2>2. rank[s] + 1 \in 1 .. n /\ (rank[s] + 1) - 1 = rank[s]
    BY <2>1, <1>1
  <2>3. QED
    BY <2>2, <1>7, <1>5
<1>10. \A k, l \in 1 .. n : k < l => <<o[k], o[l]>> \in R
  <2> SUFFICES ASSUME NEW k \in 1 .. n, NEW l \in 1 .. n, k < l PROVE <<o[k], o[l]>> \in R
    OBVIOUS
  <2>1. o[k] \in S /\ o[l] \in S /\ rank[o[k]] = k - 1 /\ rank[o[l]] = l - 1
    BY <1>7
  <2>2. rank[o[k]] < rank[o[l]] /\ o[k] # o[l] /\ ~ rank[o[l]] < rank[o[k]]
    BY <2>1, <1>1
  <2>3. QED
    BY <2>1, <2>2, <1>4 DEF IsOrder
<1>11. QED
  BY <1>1, <1>8, <1>9, <1>10

LEMMA AscendingIs ==
  ASSUME NEW n \in Nat, NEW S \in SUBSET (1..n)
  PROVE  /\ Cardinality(S) \in Nat
         /\ Ascending(S) \in [1..Cardinality(S) -> S]
         /\ Ascending(S) \in Seq(S) /\ Len(Ascending(S)) = Cardinality(S)
         /\ \A s \in S : \E k \in 1..Cardinality(S) : Ascending(S)[k] = s
         /\ \A k, l \in 1..Cardinality(S) : k < l => Ascending(S)[k] < Ascending(S)[l]
<1> DEFINE R == {p \in S \X S : p[1] < p[2]}
<1>1. IsFiniteSet(S)
  <2>1. IsFiniteSet(1..n)
    BY FS_Interval
  <2>2. QED
    BY <2>1, FS_Subset
<1>2. \A r, s \in S : <<r, s>> \in R <=> r < s
  OBVIOUS
<1>3. IsOrder(S, R)
  <2> HIDE DEF R
  <2>1. \A s \in S : s \in Int
    OBVIOUS
  <2>2. QED
    BY <1>2, <2>1 DEF IsOrder
<1>4. Ascending(S) = InOrder(S, R)
  BY DEF Ascending
<1>5. /\ Cardinality(S) \in Nat
      /\ InOrder(S, R) \in [1..Cardinality(S) -> S]
      /\ \A s \in S : \E k \in 1..Cardinality(S) : InOrder(S, R)[k] = s
      /\ \A k, l \in 1..Cardinality(S) : k < l => <<InOrder(S, R)[k], InOrder(S, R)[l]>> \in R
  <2> HIDE DEF R
  <2>1. QED
    BY <1>1, <1>3, Ranked
<1> HIDE DEF R
<1>6. Ascending(S) \in Seq(S) /\ Len(Ascending(S)) = Cardinality(S)
  BY <1>4, <1>5
<1>7. QED
  BY <1>2, <1>4, <1>5, <1>6

LEMMA GreatestNumber ==
  ASSUME NEW n \in Nat, NEW S \in SUBSET (1..n), S # {}
  PROVE  \E m \in S : \A i \in S : i <= m
<1> DEFINE c == Cardinality(S)
           o == Ascending(S)
<1>1. /\ c \in Nat /\ o \in [1..c -> S]
      /\ \A s \in S : \E k \in 1..c : o[k] = s
      /\ \A k, l \in 1..c : k < l => o[k] < o[l]
  BY AscendingIs
<1> HIDE DEF c, o
<1>2. c \in 1..c
  <2>1. \E k \in 1..c : TRUE
    BY <1>1
  <2>2. QED
    BY <2>1, <1>1
<1>3. ASSUME NEW i \in S PROVE i <= o[c]
  <2>1. PICK k \in 1..c : o[k] = i
    BY <1>1
  <2>2. k = c \/ k < c
    BY <1>1
  <2>3. o[c] \in Int /\ i \in Int
    <3>1. o[c] \in S
      BY <1>1, <1>2
    <3>2. \A j \in S : j \in Int
      OBVIOUS
    <3>3. QED
      BY <3>1, <3>2
  <2>4. QED
    BY <2>1, <2>2, <2>3, <1>1, <1>2
<1>4. QED
  BY <1>1, <1>2, <1>3

\* The last of some points.
LEMMA MaxIs ==
  ASSUME NEW D \in SUBSET Points, IsFiniteSet(D), D # {}
  PROVE  MaxOf(D) \in D /\ \A d \in D : ~Before(MaxOf(D), d)
<1> DEFINE R == {p \in D \X D : Before(p[1], p[2])}
           n == Cardinality(D)
           o == InOrder(D, R)
<1>1. \A r, s \in D : <<r, s>> \in R <=> Before(r, s)
  OBVIOUS
<1>2. IsOrder(D, R)
  <2> HIDE DEF R
  <2>1. QED
    BY <1>1, Order DEF IsOrder
<1>3. /\ n \in Nat /\ o \in [1..n -> D]
      /\ \A d \in D : \E k \in 1..n : o[k] = d
      /\ \A k, l \in 1..n : k < l => <<o[k], o[l]>> \in R
  <2> HIDE DEF R
  <2>1. QED
    BY <1>2, Ranked
<1> HIDE DEF R, n, o
<1>4. n \in 1..n
  BY <1>3
<1>5. ASSUME NEW d \in D PROVE ~Before(o[n], d)
  <2>1. PICK k \in 1..n : o[k] = d
    BY <1>3
  <2>2. k = n \/ k < n
    BY <1>3
  <2>3. d = o[n] \/ Before(d, o[n])
    BY <2>1, <2>2, <1>1, <1>3, <1>4
  <2>4. d \in Points /\ o[n] \in Points
    BY <1>3, <1>4
  <2>5. QED
    BY <2>3, <2>4, Order
<1>6. o[n] \in D /\ ~\E d \in D : Before(o[n], d)
  BY <1>3, <1>4, <1>5
<1>7. QED
  BY <1>6 DEF MaxOf

-----------------------------------------------------------------------------
(* Lists of ranges, sorted.                                                  *)

PointRanges == {r \in [lo : Points, hi : Points] : ~Before(r.hi, r.lo)}
Lists == Seq(PointRanges)

LEMMA ListIs ==
  ASSUME NEW s \in Lists
  PROVE  /\ Len(s) \in Nat /\ DOMAIN s = 1..Len(s)
         /\ \A i \in 1..Len(s) : /\ s[i] \in PointRanges /\ s[i].lo \in Points /\ s[i].hi \in Points
                                 /\ ~Before(s[i].hi, s[i].lo)
<1>1. /\ Len(s) \in Nat /\ DOMAIN s = 1..Len(s)
      /\ \A i \in 1..Len(s) : s[i] \in PointRanges
  BY DEF Lists
<1>2. QED
  BY <1>1 DEF PointRanges

OrderOf(s) == InOrder(1..Len(s), ByLow(s))

\* Sorting only reorders, and leaves no range after one that begins later.
LEMMA SortedIs ==
  ASSUME NEW s \in Lists
  PROVE  /\ Sorted(s) \in Lists /\ Len(Sorted(s)) = Len(s)
         /\ OrderOf(s) \in [1..Len(s) -> 1..Len(s)]
         /\ \A k \in 1..Len(s) : Sorted(s)[k] = s[OrderOf(s)[k]]
         /\ \A i \in 1..Len(s) : \E k \in 1..Len(s) : OrderOf(s)[k] = i
         /\ \A k, l \in 1..Len(s) : k < l => OrderOf(s)[k] # OrderOf(s)[l]
         /\ \A k, l \in 1..Len(s) : k < l => ~Before(Sorted(s)[l].lo, Sorted(s)[k].lo)
<1> DEFINE n == Len(s)
           D == 1..n
           R == ByLow(s)
           o == OrderOf(s)
<1>1. /\ n \in Nat /\ DOMAIN s = D
      /\ \A i \in D : s[i] \in PointRanges /\ s[i].lo \in Points
  BY ListIs
<1>2. \A i, j \in D : <<i, j>> \in R <=> \/ Before(s[i].lo, s[j].lo)
                                         \/ s[i].lo = s[j].lo /\ i < j
  BY <1>1 DEF ByLow
<1>3. IsFiniteSet(D) /\ Cardinality(D) = n
  BY <1>1, FS_Interval
<1>4. IsOrder(D, R)
  <2> HIDE DEF R
  <2>1. \A i \in D : i \in Int /\ s[i].lo \in Points
    BY <1>1
  <2>2. \A i \in D : <<i, i>> \notin R
    BY <1>2, <2>1, Order
  <2>3. ASSUME NEW i \in D, NEW j \in D, NEW k \in D, <<i, j>> \in R, <<j, k>> \in R
        PROVE  <<i, k>> \in R
    <3>1. CASE s[i].lo = s[j].lo /\ s[j].lo = s[k].lo
      <4>1. i < j /\ j < k
        BY <3>1, <2>3, <1>2, <2>1, Order
      <4>2. i < k
        BY <4>1, <2>1
      <4>3. QED
        BY <3>1, <4>2, <1>2
    <3>2. CASE ~(s[i].lo = s[j].lo /\ s[j].lo = s[k].lo)
      <4>1. Before(s[i].lo, s[k].lo)
        <5>1. /\ Before(s[i].lo, s[j].lo) \/ s[i].lo = s[j].lo
              /\ Before(s[j].lo, s[k].lo) \/ s[j].lo = s[k].lo
          BY <2>3, <1>2
        <5>2. QED
          BY <5>1, <3>2, <2>1, Transitive
      <4>2. QED
        BY <4>1, <1>2
    <3>3. QED
      BY <3>1, <3>2
  <2>4. ASSUME NEW i \in D, NEW j \in D PROVE <<i, j>> \in R \/ i = j \/ <<j, i>> \in R
    <3>1. Before(s[i].lo, s[j].lo) \/ s[i].lo = s[j].lo \/ Before(s[j].lo, s[i].lo)
      BY <2>1, Order
    <3>2. i < j \/ i = j \/ j < i
      BY <2>1
    <3>3. QED
      BY <3>1, <3>2, <1>2
  <2>5. QED
    BY <2>2, <2>3, <2>4 DEF IsOrder
<1>5. /\ o \in [D -> D]
      /\ \A i \in D : \E k \in D : o[k] = i
      /\ \A k, l \in D : k < l => <<o[k], o[l]>> \in R
  <2> HIDE DEF R
  <2>1. /\ InOrder(D, R) \in [1..Cardinality(D) -> D]
        /\ \A i \in D : \E k \in 1..Cardinality(D) : InOrder(D, R)[k] = i
        /\ \A k, l \in 1..Cardinality(D) : k < l => <<InOrder(D, R)[k], InOrder(D, R)[l]>> \in R
    BY <1>3, <1>4, Ranked
  <2>2. o = InOrder(D, R)
    BY DEF OrderOf, R
  <2> HIDE DEF o
  <2>3. QED
    BY <2>1, <2>2, <1>3
<1>6. Sorted(s) = [k \in D |-> s[o[k]]]
  BY <1>1 DEF Sorted, OrderOf
<1> HIDE DEF R, o
<1>7. Sorted(s) \in Lists /\ Len(Sorted(s)) = n
  BY <1>1, <1>5, <1>6 DEF Lists
<1>8. \A k \in D : Sorted(s)[k] = s[o[k]] /\ o[k] \in D
  BY <1>5, <1>6
<1>9. \A k, l \in D : k < l => o[k] # o[l] /\ ~Before(Sorted(s)[l].lo, Sorted(s)[k].lo)
  <2> SUFFICES ASSUME NEW k \in D, NEW l \in D, k < l
               PROVE  o[k] # o[l] /\ ~Before(Sorted(s)[l].lo, Sorted(s)[k].lo)
    OBVIOUS
  <2>1. <<o[k], o[l]>> \in R /\ o[k] \in D /\ o[l] \in D
    BY <1>5
  <2>2. s[o[k]].lo \in Points /\ s[o[l]].lo \in Points
    BY <2>1, <1>1
  <2>3. o[k] # o[l]
    BY <2>1, <1>4 DEF IsOrder
  <2>4. Before(s[o[k]].lo, s[o[l]].lo) \/ s[o[k]].lo = s[o[l]].lo
    BY <2>1, <1>2
  <2>5. ~Before(s[o[l]].lo, s[o[k]].lo)
    BY <2>2, <2>4, Order
  <2>6. QED
    BY <2>3, <2>5, <1>8
<1>10. QED
  BY <1>5, <1>7, <1>8, <1>9 DEF o

LEMMA SortedHolds ==
  ASSUME NEW s \in Lists, NEW c
  PROVE  Holds(Sorted(s), c) <=> Holds(s, c)
<1>1. /\ DOMAIN s = 1..Len(s) /\ DOMAIN Sorted(s) = 1..Len(s)
      /\ \A k \in 1..Len(s) : Sorted(s)[k] = s[OrderOf(s)[k]] /\ OrderOf(s)[k] \in 1..Len(s)
      /\ \A i \in 1..Len(s) : \E k \in 1..Len(s) : OrderOf(s)[k] = i
  BY SortedIs, ListIs
<1> DEFINE in(r) == ~Before(c, r.lo) /\ ~Before(r.hi, c)
<1>2. /\ Holds(s, c) <=> \E i \in 1..Len(s) : in(s[i])
      /\ Holds(Sorted(s), c) <=> \E k \in 1..Len(s) : in(Sorted(s)[k])
  BY <1>1 DEF Holds
<1>3. ASSUME NEW k \in 1..Len(s), in(Sorted(s)[k]) PROVE \E i \in 1..Len(s) : in(s[i])
  BY <1>1, <1>3, Zenon
<1>4. ASSUME NEW i \in 1..Len(s), in(s[i]) PROVE \E k \in 1..Len(s) : in(Sorted(s)[k])
  <2>1. PICK k \in 1..Len(s) : OrderOf(s)[k] = i
    BY <1>1
  <2>2. Sorted(s)[k] = s[i]
    BY <1>1, <2>1, Zenon
  <2>3. QED
    BY <1>4, <2>2, Zenon
<1>5. QED
  BY <1>2, <1>3, <1>4, Zenon

-----------------------------------------------------------------------------
(* Lists of ranges, merged.                                                  *)

Apart(t, j, i) == Before(NextOf(t[j].hi), t[i].lo)
StartsOf(t) == {i \in DOMAIN t : \A j \in 1..(i - 1) : Apart(t, j, i)}
Starts(t) == Ascending(StartsOf(t))
LastOf(t, k) == IF k < Len(Starts(t)) THEN Starts(t)[k + 1] - 1 ELSE Len(t)
Ends(t, k) == {t[i].hi : i \in Starts(t)[k]..LastOf(t, k)}

LEMMA MergedUnfolds ==
  ASSUME NEW s
  PROVE  Merged(s) = [k \in DOMAIN Starts(Sorted(s)) |->
                        Span(Sorted(s)[Starts(Sorted(s))[k]].lo, MaxOf(Ends(Sorted(s), k)))]
BY Zenon DEF Merged, Apart, StartsOf, Starts, LastOf, Ends

\* The starts cut the list into blocks, and only a block's first range is one.
LEMMA Blocks ==
  ASSUME NEW t \in Lists
  PROVE  /\ Len(Starts(t)) \in Nat /\ DOMAIN Starts(t) = 1..Len(Starts(t))
         /\ \A k \in 1..Len(Starts(t)) :
              /\ Starts(t)[k] \in StartsOf(t) /\ Starts(t)[k] \in 1..Len(t)
              /\ LastOf(t, k) \in 1..Len(t) /\ Starts(t)[k] <= LastOf(t, k)
         /\ \A k, l \in 1..Len(Starts(t)) : k < l => LastOf(t, k) < Starts(t)[l]
         /\ \A i \in 1..Len(t) :
              \E k \in 1..Len(Starts(t)) : i \in Starts(t)[k]..LastOf(t, k)
         /\ \A k \in 1..Len(Starts(t)), i \in 1..Len(t) :
              i \in Starts(t)[k]..LastOf(t, k) /\ i # Starts(t)[k] => i \notin StartsOf(t)
<1> DEFINE n == Len(t)
           S == StartsOf(t)
           st == Starts(t)
           m == Len(st)
           last(k) == LastOf(t, k)
<1>1. n \in Nat /\ DOMAIN t = 1..n /\ S \in SUBSET (1..n)
  BY ListIs DEF StartsOf
<1>2. /\ m \in Nat /\ DOMAIN st = 1..m
      /\ \A k \in 1..m : st[k] \in S
      /\ \A s \in S : \E k \in 1..m : st[k] = s
      /\ \A k, l \in 1..m : k < l => st[k] < st[l]
  <2>1. /\ Cardinality(S) \in Nat /\ Ascending(S) \in [1..Cardinality(S) -> S]
        /\ Len(Ascending(S)) = Cardinality(S)
        /\ \A s \in S : \E k \in 1..Cardinality(S) : Ascending(S)[k] = s
        /\ \A k, l \in 1..Cardinality(S) : k < l => Ascending(S)[k] < Ascending(S)[l]
    BY <1>1, AscendingIs
  <2>2. st = Ascending(S)
    BY DEF Starts
  <2> HIDE DEF S, st
  <2>3. QED
    BY <2>1, <2>2
<1>3. \A k \in 1..m : st[k] \in 1..n
  BY <1>1, <1>2
<1>4. \A k \in 1..m : last(k) = IF k < m THEN st[k + 1] - 1 ELSE n
  BY DEF LastOf
<1> HIDE DEF n, S, st, m, last
<1>5. ASSUME NEW k \in 1..m PROVE last(k) \in 1..n /\ st[k] <= last(k)
  <2>1. CASE k < m
    <3>1. k + 1 \in 1..m /\ k < k + 1
      BY <2>1, <1>2
    <3>2. st[k] < st[k + 1] /\ st[k] \in 1..n /\ st[k + 1] \in 1..n /\ last(k) = st[k + 1] - 1
      BY <3>1, <2>1, <1>2, <1>3, <1>4
    <3>3. QED
      BY <3>2, <1>1
  <2>2. CASE ~ k < m
    BY <2>2, <1>1, <1>3, <1>4
  <2>3. QED
    BY <2>1, <2>2
<1>6. ASSUME NEW k \in 1..m, NEW l \in 1..m, k < l PROVE last(k) < st[l]
  <2>1. k < m /\ k + 1 \in 1..m /\ (k + 1 = l \/ k + 1 < l)
    BY <1>2, <1>6
  <2>2. st[k + 1] <= st[l] /\ st[k + 1] \in 1..n /\ st[l] \in 1..n
    <3>1. st[k + 1] \in 1..n /\ st[l] \in 1..n
      BY <2>1, <1>3
    <3>2. k + 1 < l => st[k + 1] < st[l]
      BY <2>1, <1>2
    <3>3. QED
      BY <2>1, <3>1, <3>2
  <2>3. last(k) = st[k + 1] - 1
    BY <2>1, <1>4
  <2>4. QED
    BY <2>2, <2>3
<1>7. ASSUME NEW i \in 1..n PROVE \E k \in 1..m : i \in st[k]..last(k)
  <2> DEFINE K == {k \in 1..m : st[k] <= i}
  <2>1. 1 \in S
    BY <1>1 DEF S, n, StartsOf
  <2>2. PICK k \in 1..m : st[k] = 1
    BY <2>1, <1>2
  <2>3. k \in K /\ K \in SUBSET (1..m)
    BY <2>2
  <2>4. PICK g \in K : \A j \in K : j <= g
    BY <2>3, <1>2, GreatestNumber
  <2>5. g \in 1..m /\ st[g] <= i
    BY <2>4
  <2>6. i <= last(g)
    <3>1. CASE g < m
      <4>1. g + 1 \in 1..m /\ g + 1 \notin K
        BY <3>1, <2>4, <2>5, <1>2
      <4>2. ~ (st[g + 1] <= i) /\ last(g) = st[g + 1] - 1 /\ st[g + 1] \in 1..n
        BY <4>1, <3>1, <2>5, <1>3, <1>4
      <4>3. QED
        BY <4>2, <1>1
    <3>2. CASE ~ g < m
      BY <3>2, <2>5, <1>4
    <3>3. QED
      BY <3>1, <3>2
  <2>7. last(g) \in 1..n /\ st[g] \in 1..n
    BY <2>5, <1>5, <1>3
  <2>8. QED
    BY <2>5, <2>6, <2>7
<1>8. ASSUME NEW k \in 1..m, NEW i \in 1..n, i \in st[k]..last(k), i # st[k] PROVE i \notin S
  <2>1. SUFFICES ASSUME i \in S PROVE FALSE
    OBVIOUS
  <2>2. PICK l \in 1..m : st[l] = i
    BY <2>1, <1>2
  <2>3. /\ st[k] \in 1..n /\ last(k) \in 1..n /\ st[k] < i /\ i <= last(k)
    BY <1>8, <1>3, <1>5
  <2>4. CASE l < k
    <3>1. st[l] < st[k]
      BY <2>4, <1>2
    <3>2. QED
      BY <3>1, <2>2, <2>3
  <2>5. CASE k < l
    <3>1. last(k) < st[l]
      BY <2>5, <1>6
    <3>2. QED
      BY <3>1, <2>2, <2>3
  <2>6. CASE k = l
    BY <2>6, <2>2, <2>3
  <2>7. QED
    BY <2>4, <2>5, <2>6, <1>2
<1>9. QED
  BY <1>2, <1>3, <1>5, <1>6, <1>7, <1>8 DEF n, S, st, m, last

LEMMA EndsIs ==
  ASSUME NEW t \in Lists, NEW k \in 1..Len(Starts(t))
  PROVE  /\ MaxOf(Ends(t, k)) \in Points
         /\ \E i \in Starts(t)[k]..LastOf(t, k) : t[i].hi = MaxOf(Ends(t, k))
         /\ \A i \in Starts(t)[k]..LastOf(t, k) : ~Before(MaxOf(Ends(t, k)), t[i].hi)
<1> DEFINE a == Starts(t)[k]
           b == LastOf(t, k)
           D == Ends(t, k)
           f == [i \in a..b |-> t[i].hi]
<1>1. a \in 1..Len(t) /\ b \in 1..Len(t) /\ a <= b /\ Len(t) \in Nat
  BY Blocks, ListIs
<1>2. D = {t[i].hi : i \in a..b}
  BY DEF Ends
<1> HIDE DEF a, b, D
<1>3. a \in a..b /\ \A i \in a..b : i \in 1..Len(t)
  BY <1>1
<1>4. D \in SUBSET Points /\ D # {}
  BY <1>2, <1>3, ListIs
<1>5. IsFiniteSet(D)
  <2>1. f \in Surjection(a..b, D)
    BY <1>2 DEF Surjection
  <2>2. IsFiniteSet(a..b)
    BY <1>1, FS_Interval
  <2>3. QED
    BY <2>1, <2>2, FS_Surjection
<1>6. MaxOf(D) \in D /\ \A d \in D : ~Before(MaxOf(D), d)
  BY <1>4, <1>5, MaxIs
<1>7. QED
  BY <1>2, <1>4, <1>6 DEF a, b, D

(* Ranges in order with a gap after each: of a set of characters there is    *)
(* only one such list.                                                       *)
Canonical(m) ==
  /\ m \in Lists
  /\ \A k, l \in 1..Len(m) : k < l => Before(NextOf(m[k].hi), m[l].lo)

LEMMA MergedIs ==
  ASSUME NEW s \in Lists
  PROVE  Canonical(Merged(s)) /\ \A c \in Points : Holds(Merged(s), c) <=> Holds(s, c)
<1> DEFINE t == Sorted(s)
           n == Len(t)
           st == Starts(t)
           m == Len(st)
           last(k) == LastOf(t, k)
           top(k) == MaxOf(Ends(t, k))
           M == Merged(s)
<1>1. /\ t \in Lists /\ n \in Nat /\ DOMAIN t = 1..n
      /\ \A k, l \in 1..n : k < l => ~Before(t[l].lo, t[k].lo)
  BY SortedIs, ListIs
<1>2. /\ m \in Nat /\ DOMAIN st = 1..m
      /\ \A k \in 1..m : /\ st[k] \in StartsOf(t) /\ st[k] \in 1..n
                         /\ last(k) \in 1..n /\ st[k] <= last(k)
      /\ \A k, l \in 1..m : k < l => last(k) < st[l]
      /\ \A i \in 1..n : \E k \in 1..m : i \in st[k]..last(k)
      /\ \A k \in 1..m, i \in 1..n : i \in st[k]..last(k) /\ i # st[k] => i \notin StartsOf(t)
  BY <1>1, Blocks
<1>3. M = [k \in 1..m |-> Span(t[st[k]].lo, top(k))]
  BY <1>2, MergedUnfolds, Zenon
<1>4. \A k \in 1..m : /\ top(k) \in Points
                      /\ \E i \in st[k]..last(k) : t[i].hi = top(k)
                      /\ \A i \in st[k]..last(k) : ~Before(top(k), t[i].hi)
  BY <1>1, EndsIs
<1>5. \A i \in 1..n : /\ t[i] \in PointRanges /\ t[i].lo \in Points /\ t[i].hi \in Points
                      /\ NextOf(t[i].hi) \in Points /\ ~Before(t[i].hi, t[i].lo)
  BY <1>1, ListIs, Successor
<1>6. \A i \in 1..n : i \in StartsOf(t) <=> \A j \in 1..(i - 1) : Before(NextOf(t[j].hi), t[i].lo)
  BY <1>1 DEF StartsOf, Apart
<1>7. \A c : Holds(t, c) <=> Holds(s, c)
  BY SortedHolds
<1>8. \A k \in 1..m : \A i \in st[k]..last(k) : i \in 1..n
  BY <1>2
<1> HIDE DEF t, n, st, m, last, top, M
<1>9. M \in Lists /\ Len(M) = m /\ \A k \in 1..m : M[k].lo = t[st[k]].lo /\ M[k].hi = top(k)
  <2>1. ASSUME NEW k \in 1..m PROVE ~Before(top(k), t[st[k]].lo)
    <3>1. st[k] \in st[k]..last(k) /\ st[k] \in 1..n
      BY <1>2
    <3>2. QED
      BY <3>1, <1>4, <1>5, OrderWeak
  <2>2. \A k \in 1..m : Span(t[st[k]].lo, top(k)) \in PointRanges
    BY <2>1, <1>2, <1>4, <1>5 DEF Span, PointRanges
  <2>3. M \in Lists /\ Len(M) = m
    BY <2>2, <1>2, <1>3 DEF Lists
  <2>4. QED
    BY <2>3, <1>3 DEF Span
<1>10. ASSUME NEW k \in 1..m, NEW l \in 1..m, k < l PROVE Before(NextOf(M[k].hi), M[l].lo)
  <2>1. PICK i \in st[k]..last(k) : t[i].hi = top(k)
    BY <1>4
  <2>2. i \in 1..n /\ i <= last(k) /\ last(k) < st[l] /\ st[l] \in StartsOf(t) /\ st[l] \in 1..n
    <3>1. i \in 1..n /\ last(k) < st[l] /\ st[l] \in StartsOf(t) /\ st[l] \in 1..n
      BY <1>10, <1>2, <1>8, <2>1
    <3>2. st[k] \in 1..n /\ last(k) \in 1..n
      BY <1>2
    <3>3. i <= last(k)
      BY <3>2, <1>1, <2>1
    <3>4. QED
      BY <3>1, <3>3
  <2>3. i \in 1..(st[l] - 1)
    BY <2>2, <1>2
  <2>4. Before(NextOf(t[i].hi), t[st[l]].lo)
    BY <2>2, <2>3, <1>6
  <2>5. QED
    BY <2>1, <2>4, <1>9
<1>11. ASSUME NEW c \in Points, Holds(t, c) PROVE Holds(M, c)
  <2>1. PICK i \in 1..n : ~Before(c, t[i].lo) /\ ~Before(t[i].hi, c)
    BY <1>11, <1>1 DEF Holds
  <2>2. PICK k \in 1..m : i \in st[k]..last(k)
    BY <1>2
  <2>3. st[k] \in 1..n /\ (st[k] = i \/ st[k] < i)
    BY <2>2, <1>2
  <2>4. ~Before(t[i].lo, t[st[k]].lo)
    BY <2>3, <1>1, <1>5, Order
  <2>5. ~Before(c, t[st[k]].lo)
    BY <2>1, <2>3, <2>4, <1>5, OrderWeak
  <2>6. ~Before(top(k), c)
    BY <2>1, <2>2, <1>4, <1>5, OrderWeak
  <2>7. DOMAIN M = 1..m
    BY <1>9, ListIs
  <2>8. ~Before(c, M[k].lo) /\ ~Before(M[k].hi, c)
    BY <2>5, <2>6, <1>9
  <2>9. QED
    BY <2>7, <2>8 DEF Holds
<1>12. ASSUME NEW c \in Points, Holds(M, c) PROVE Holds(t, c)
  <2>1. PICK k \in 1..m : ~Before(c, t[st[k]].lo) /\ ~Before(top(k), c)
    <3>1. DOMAIN M = 1..m
      BY <1>9, ListIs
    <3>2. QED
      BY <1>12, <3>1, <1>9 DEF Holds
  <2> DEFINE G == {i \in 1..n : i \in st[k]..last(k) /\ ~Before(c, t[i].lo)}
  <2>2. st[k] \in G /\ G \in SUBSET (1..n)
    BY <2>1, <1>2
  <2>3. PICK g \in G : \A i \in G : i <= g
    BY <2>2, <1>1, GreatestNumber
  <2>4. g \in 1..n /\ g \in st[k]..last(k) /\ ~Before(c, t[g].lo)
    BY <2>3
  <2>5. SUFFICES ASSUME ~Holds(t, c) PROVE FALSE
    OBVIOUS
  <2>6. \A i \in G : Before(t[i].hi, c)
    BY <2>5, <1>1 DEF Holds
  <2>7. PICK i \in st[k]..last(k) : t[i].hi = top(k)
    BY <1>4
  <2>8. i \in 1..n /\ i \notin G /\ Before(c, t[i].lo)
    BY <2>1, <2>6, <2>7, <1>8
  <2>9. g < i
    <3>1. g \in Int /\ i \in Int
      BY <2>4, <2>8
    <3>2. i < g => ~Before(t[g].lo, t[i].lo)
      BY <2>4, <2>8, <1>1
    <3>3. ~ i < g
      BY <3>2, <2>4, <2>8, <1>5, OrderWeak
    <3>4. i # g
      BY <2>3, <2>8
    <3>5. QED
      BY <3>1, <3>3, <3>4
  <2>10. /\ g + 1 \in 1..n /\ g + 1 \in st[k]..last(k) /\ g + 1 # st[k]
         /\ g + 1 \notin G /\ Before(c, t[g + 1].lo)
    <3>1. g + 1 \in 1..n /\ g + 1 \in st[k]..last(k) /\ g + 1 # st[k]
      <4>1. st[k] \in 1..n /\ last(k) \in 1..n
        BY <1>2
      <4>2. st[k] <= g /\ i <= last(k) /\ i \in 1..n
        BY <4>1, <1>1, <2>4, <2>7, <2>8
      <4>3. QED
        BY <4>1, <4>2, <1>1, <2>4, <2>9
    <3>2. g + 1 \notin G
      BY <2>3, <2>4
    <3>3. QED
      BY <3>1, <3>2
  <2>11. PICK j \in 1..g : ~Before(NextOf(t[j].hi), t[g + 1].lo)
    <3>1. g + 1 \notin StartsOf(t) /\ (g + 1) - 1 = g
      BY <2>4, <2>10, <1>2
    <3>2. QED
      BY <3>1, <2>10, <1>6
  <2>12. j \in 1..n /\ j <= g /\ st[k] \in 1..n
    <3>1. st[k] \in 1..n
      BY <1>2
    <3>2. QED
      BY <3>1, <2>4, <1>1
  <2>13. CASE j < st[k]
    <3>1. j \in 1..(st[k] - 1)
      BY <2>12, <2>13
    <3>2. Before(NextOf(t[j].hi), t[st[k]].lo)
      BY <3>1, <2>12, <1>2, <1>6
    <3>3. ~Before(t[g + 1].lo, t[st[k]].lo)
      BY <2>10, <2>12, <1>1
    <3>4. QED
      BY <3>2, <3>3, <2>10, <2>11, <2>12, <1>5, OrderWeak
  <2>14. CASE ~ j < st[k]
    <3>1. j \in st[k]..last(k)
      <4>1. st[k] \in 1..n /\ last(k) \in 1..n
        BY <1>2
      <4>2. g <= last(k)
        BY <4>1, <1>1, <2>4
      <4>3. QED
        BY <4>1, <4>2, <1>1, <2>12, <2>14
    <3>2. j = g \/ ~Before(t[g].lo, t[j].lo)
      BY <2>4, <2>12, <1>1
    <3>3. ~Before(c, t[j].lo)
      BY <3>2, <2>4, <2>12, <1>5, OrderWeak
    <3>4. Before(t[j].hi, c)
      BY <3>1, <3>3, <2>6, <2>12
    <3>5. ~Before(c, NextOf(t[j].hi))
      BY <3>4, <2>12, <1>5, Successor
    <3>6. QED
      BY <3>5, <2>10, <2>11, <2>12, <1>5, OrderWeak
  <2>15. QED
    BY <2>13, <2>14
<1>13. Canonical(M)
  BY <1>9, <1>10 DEF Canonical
<1>14. QED
  BY <1>7, <1>11, <1>12, <1>13 DEF M

LEMMA LeastOfThese ==
  ASSUME NEW n \in Nat, NEW S \in SUBSET (1..n), S # {}
  PROVE  \E m \in S : \A i \in S : m <= i
<1> DEFINE T == {(n + 1) - i : i \in S}
<1>1. T \in SUBSET (1..n) /\ T # {}
  <2>1. \A i \in S : i \in 1..n
    OBVIOUS
  <2>2. \A i \in 1..n : (n + 1) - i \in 1..n
    OBVIOUS
  <2>3. QED
    BY <2>1, <2>2
<1>2. PICK g \in T : \A j \in T : j <= g
  <2> HIDE DEF T
  <2>1. QED
    BY <1>1, GreatestNumber
<1>3. PICK m \in S : g = (n + 1) - m
  BY <1>2
<1>4. ASSUME NEW i \in S PROVE m <= i
  <2>1. (n + 1) - i <= (n + 1) - m
    BY <1>2, <1>3
  <2>2. i \in 1..n /\ m \in 1..n
    OBVIOUS
  <2>3. QED
    BY <2>1, <2>2
<1>5. QED
  BY <1>4

\* A strictly increasing function is nowhere below its argument.
LEMMA Climbs ==
  ASSUME NEW n \in Nat, NEW m \in Nat, NEW f \in [1..n -> 1..m],
         \A k, l \in 1..n : k < l => f[k] < f[l]
  PROVE  \A k \in 1..n : f[k] >= k
<1> DEFINE S == {k \in 1..n : f[k] < k}
<1>1. CASE S = {}
  <2>1. ASSUME NEW k \in 1..n PROVE f[k] >= k
    <3>1. k \notin S /\ f[k] \in 1..m
      BY <1>1
    <3>2. QED
      BY <3>1
  <2>2. QED
    BY <2>1
<1>2. CASE S # {}
  <2>1. S \in SUBSET (1..n)
    OBVIOUS
  <2>2. PICK k \in S : \A i \in S : k <= i
    <3> HIDE DEF S
    <3>1. QED
      BY <1>2, <2>1, LeastOfThese
  <2>3. k \in 1..n /\ f[k] < k /\ f[k] \in 1..m
    BY <2>2
  <2>4. k - 1 \in 1..n /\ k - 1 < k
    BY <2>3
  <2>5. k - 1 \notin S
    BY <2>2, <2>4
  <2>6. f[k - 1] \in 1..m /\ f[k - 1] >= k - 1 /\ f[k - 1] < f[k]
    BY <2>3, <2>4, <2>5
  <2>7. QED
    BY <2>3, <2>6
<1>3. QED
  BY <1>1, <1>2

LEMMA CanonicalIs ==
  ASSUME NEW A, Canonical(A)
  PROVE  /\ A \in Lists /\ Len(A) \in Nat /\ DOMAIN A = 1..Len(A)
         /\ \A k \in 1..Len(A) : /\ A[k] \in PointRanges
                                 /\ A[k].lo \in Points /\ A[k].hi \in Points
                                 /\ NextOf(A[k].hi) \in Points /\ ~Before(A[k].hi, A[k].lo)
         /\ \A k, l \in 1..Len(A) : k < l => /\ Before(NextOf(A[k].hi), A[l].lo)
                                             /\ Before(A[k].hi, A[l].lo)
                                             /\ Before(A[k].lo, A[l].lo)
<1>1. /\ A \in Lists /\ Len(A) \in Nat /\ DOMAIN A = 1..Len(A)
      /\ \A k \in 1..Len(A) : /\ A[k] \in PointRanges
                              /\ A[k].lo \in Points /\ A[k].hi \in Points
                              /\ NextOf(A[k].hi) \in Points /\ ~Before(A[k].hi, A[k].lo)
  BY ListIs, Successor DEF Canonical
<1>2. ASSUME NEW k \in 1..Len(A), NEW l \in 1..Len(A), k < l
      PROVE  /\ Before(NextOf(A[k].hi), A[l].lo)
             /\ Before(A[k].hi, A[l].lo) /\ Before(A[k].lo, A[l].lo)
  <2>1. Before(NextOf(A[k].hi), A[l].lo)
    BY <1>2 DEF Canonical
  <2>2. Before(A[k].hi, NextOf(A[k].hi))
    BY <1>1, Successor, Order
  <2>3. Before(A[k].hi, A[l].lo)
    BY <1>1, <2>1, <2>2, Transitive
  <2>4. Before(A[k].lo, A[l].lo)
    BY <1>1, <2>3, OrderWeak
  <2>5. QED
    BY <2>1, <2>3, <2>4
<1>3. QED
  BY <1>1, <1>2

LEMMA HoldsIs ==
  ASSUME NEW s \in Lists, NEW c
  PROVE  Holds(s, c) <=> \E i \in 1..Len(s) : ~Before(c, s[i].lo) /\ ~Before(s[i].hi, c)
BY ListIs DEF Holds

\* Of two such lists of the same characters: no range of one that begins like
\* a range of the other ends before it.
LEMMA NotShorter ==
  ASSUME NEW A, NEW B, Canonical(A), Canonical(B),
         \A c \in Points : Holds(A, c) <=> Holds(B, c),
         NEW k \in 1..Len(A), NEW l \in 1..Len(B), A[k].lo = B[l].lo
  PROVE  ~Before(A[k].hi, B[l].hi)
<1>1. SUFFICES ASSUME Before(A[k].hi, B[l].hi) PROVE FALSE
  OBVIOUS
<1> DEFINE q == NextOf(A[k].hi)
<1>2. q \in Points /\ Before(A[k].hi, q) /\ ~Before(B[l].hi, q)
  BY <1>1, CanonicalIs, Successor, Order
<1>3. ~Before(q, B[l].lo)
  <2>1. A[k].lo \in Points /\ A[k].hi \in Points /\ ~Before(A[k].hi, A[k].lo)
    BY CanonicalIs
  <2>2. ~Before(q, A[k].lo)
    BY <2>1, <1>2, OrderWeak
  <2>3. QED
    BY <2>2
<1>4. Holds(A, q)
  <2>1. Holds(B, q)
    BY <1>2, <1>3, CanonicalIs, HoldsIs
  <2>2. QED
    BY <2>1, <1>2
<1>5. PICK j \in 1..Len(A) : ~Before(q, A[j].lo) /\ ~Before(A[j].hi, q)
  BY <1>4, CanonicalIs, HoldsIs
<1>6. /\ A[j].lo \in Points /\ A[j].hi \in Points /\ A[k].lo \in Points /\ A[k].hi \in Points
      /\ ~Before(A[k].hi, A[k].lo) /\ k \in Int /\ j \in Int
  BY CanonicalIs
<1>7. CASE j = k
  BY <1>2, <1>5, <1>7
<1>8. CASE j < k
  <2>1. Before(A[j].hi, A[k].lo)
    BY <1>8, CanonicalIs
  <2>2. QED
    BY <2>1, <1>2, <1>5, <1>6, OrderWeak
<1>9. CASE k < j
  <2>1. Before(q, A[j].lo)
    BY <1>9, CanonicalIs
  <2>2. QED
    BY <2>1, <1>5
<1>10. QED
  BY <1>6, <1>7, <1>8, <1>9

\* The two lists hold the same code points.
HoldTheSame(A, B) == \A c \in Points : Holds(A, c) <=> Holds(B, c)

\* Every range of the one is a range of the other.
LEMMA RangeInBoth ==
  ASSUME NEW A, NEW B, Canonical(A), Canonical(B), HoldTheSame(A, B)
  PROVE  \A k \in 1..Len(A) : \E l \in 1..Len(B) : A[k] = B[l]
<1> SUFFICES ASSUME NEW k \in 1..Len(A) PROVE \E l \in 1..Len(B) : A[k] = B[l]
  OBVIOUS
<1>0. \A c \in Points : Holds(A, c) <=> Holds(B, c)
  BY DEF HoldTheSame
<1>1. /\ A[k].lo \in Points /\ A[k].hi \in Points /\ ~Before(A[k].hi, A[k].lo) /\ k \in Int
  BY CanonicalIs
<1>2. PICK l \in 1..Len(B) : ~Before(A[k].lo, B[l].lo) /\ ~Before(B[l].hi, A[k].lo)
  <2>1. Holds(A, A[k].lo)
    BY <1>1, Order, CanonicalIs, HoldsIs
  <2>2. Holds(B, A[k].lo)
    BY <1>0, <1>1, <2>1
  <2>3. QED
    BY <2>2, CanonicalIs, HoldsIs
<1>3. B[l].lo \in Points /\ B[l].hi \in Points /\ ~Before(B[l].hi, B[l].lo)
  BY CanonicalIs
<1>4. A[k].lo = B[l].lo
  <2>1. SUFFICES ASSUME Before(B[l].lo, A[k].lo) PROVE FALSE
    BY <1>1, <1>2, <1>3, Order
  <2>2. PICK p \in Points : NextOf(p) = A[k].lo
    BY <1>1, <1>3, <2>1, Predecessor, LowestIsFirst
  <2>3. Before(p, A[k].lo) /\ ~Before(p, B[l].lo)
    BY <1>1, <1>3, <2>1, <2>2, Successor, Order
  <2>4. ~Before(B[l].hi, p)
    BY <1>1, <1>2, <1>3, <2>3, OrderWeak
  <2>5. Holds(A, p)
    <3>1. Holds(B, p)
      BY <2>3, <2>4, CanonicalIs, HoldsIs
    <3>2. QED
      BY <1>0, <3>1
  <2>6. PICK j \in 1..Len(A) : ~Before(p, A[j].lo) /\ ~Before(A[j].hi, p)
    BY <2>5, CanonicalIs, HoldsIs
  <2>7. A[j].lo \in Points /\ A[j].hi \in Points /\ NextOf(A[j].hi) \in Points /\ j \in Int
    BY CanonicalIs
  <2>8. CASE j = k
    BY <2>3, <2>6, <2>8
  <2>9. CASE k < j
    <3>1. Before(A[k].lo, A[j].lo)
      BY <2>9, CanonicalIs
    <3>2. QED
      BY <3>1, <2>3, <2>6, <2>7, <1>1, Order
  <2>10. CASE j < k
    <3>1. Before(NextOf(A[j].hi), NextOf(p))
      BY <2>10, <2>2, CanonicalIs
    <3>2. ~Before(p, NextOf(A[j].hi))
      BY <3>1, <2>7, Successor
    <3>3. Before(A[j].hi, p)
      BY <3>2, <2>7, Successor
    <3>4. QED
      BY <3>3, <2>6
  <2>11. QED
    BY <1>1, <2>7, <2>8, <2>9, <2>10
<1>5. A[k].hi = B[l].hi
  <2>1. ~Before(A[k].hi, B[l].hi)
    BY <1>0, <1>4, NotShorter
  <2>2. ~Before(B[l].hi, A[k].hi)
    BY <1>0, <1>4, NotShorter
  <2>3. QED
    BY <1>1, <1>3, <2>1, <2>2, Order
<1>6. A[k] = B[l]
  <2>1. A[k] \in PointRanges /\ B[l] \in PointRanges
    BY CanonicalIs
  <2>2. QED
    BY <2>1, <1>4, <1>5 DEF PointRanges
<1>7. QED
  BY <1>6

LEMMA OnlyOne ==
  ASSUME NEW A, NEW B, Canonical(A), Canonical(B), HoldTheSame(A, B)
  PROVE  A = B
<1>a. \A k \in 1..Len(A) : \E l \in 1..Len(B) : A[k] = B[l]
  BY RangeInBoth
<1>b. \A l \in 1..Len(B) : \E k \in 1..Len(A) : B[l] = A[k]
  <2>1. HoldTheSame(B, A)
    BY DEF HoldTheSame
  <2>2. QED
    BY <2>1, RangeInBoth
<1> DEFINE n == Len(A)
           m == Len(B)
           f == [k \in 1..n |-> CHOOSE l \in 1..m : A[k] = B[l]]
           g == [l \in 1..m |-> CHOOSE k \in 1..n : B[l] = A[k]]
<1>1. n \in Nat /\ m \in Nat
  BY CanonicalIs
<1>2. \A k \in 1..n : f[k] \in 1..m /\ A[k] = B[f[k]]
  BY <1>a
<1>3. \A l \in 1..m : g[l] \in 1..n /\ B[l] = A[g[l]]
  BY <1>b
<1>4. f \in [1..n -> 1..m] /\ g \in [1..m -> 1..n]
  BY <1>2, <1>3
<1>5. \A k, l \in 1..n : k < l => Before(A[k].lo, A[l].lo)
  BY CanonicalIs
<1>6. \A k, l \in 1..m : k < l => Before(B[k].lo, B[l].lo)
  BY CanonicalIs
<1>7. (\A k \in 1..n : A[k].lo \in Points) /\ \A l \in 1..m : B[l].lo \in Points
  BY CanonicalIs
<1>8. A \in Lists /\ B \in Lists
  BY CanonicalIs
<1> HIDE DEF n, m, f, g
<1>9. \A k, l \in 1..n : k < l => f[k] < f[l]
  <2> SUFFICES ASSUME NEW k \in 1..n, NEW l \in 1..n, k < l PROVE f[k] < f[l]
    OBVIOUS
  <2>1. f[k] \in 1..m /\ f[l] \in 1..m /\ Before(B[f[k]].lo, B[f[l]].lo)
    BY <1>2, <1>5
  <2>2. f[k] # f[l] /\ ~ f[l] < f[k]
    BY <2>1, <1>6, <1>7, Order
  <2>3. QED
    BY <2>1, <2>2
<1>10. \A k, l \in 1..m : k < l => g[k] < g[l]
  <2> SUFFICES ASSUME NEW k \in 1..m, NEW l \in 1..m, k < l PROVE g[k] < g[l]
    OBVIOUS
  <2>1. g[k] \in 1..n /\ g[l] \in 1..n /\ Before(A[g[k]].lo, A[g[l]].lo)
    BY <1>3, <1>6
  <2>2. g[k] # g[l] /\ ~ g[l] < g[k]
    BY <2>1, <1>5, <1>7, Order
  <2>3. QED
    BY <2>1, <2>2
<1>11. (\A k \in 1..n : f[k] >= k) /\ \A l \in 1..m : g[l] >= l
  BY <1>1, <1>4, <1>9, <1>10, Climbs
<1>12. n = m
  <2>1. n <= m
    <3>1. n \in 1..n => f[n] >= n /\ f[n] \in 1..m
      BY <1>2, <1>11
    <3>2. QED
      BY <3>1, <1>1
  <2>2. m <= n
    <3>1. m \in 1..m => g[m] >= m /\ g[m] \in 1..n
      BY <1>3, <1>11
    <3>2. QED
      BY <3>1, <1>1
  <2>3. QED
    BY <2>1, <2>2, <1>1
<1>13. \A k \in 1..n : A[k] = B[k]
  <2> SUFFICES ASSUME NEW k \in 1..n PROVE A[k] = B[k]
    OBVIOUS
  <2>1. f[k] \in 1..m /\ A[k] = B[f[k]] /\ g[f[k]] \in 1..n /\ A[k] = A[g[f[k]]]
    BY <1>2, <1>3
  <2>2. g[f[k]] >= f[k] /\ f[k] >= k
    BY <2>1, <1>11
  <2>3. ~ k < g[f[k]]
    BY <2>1, <1>5, <1>7, Order
  <2>4. f[k] = k
    BY <2>1, <2>2, <2>3
  <2>5. QED
    BY <2>1, <2>4
<1>14. QED
  BY <1>8, <1>12, <1>13 DEF n, m, Lists

\* Two lists of ranges are taken for the same exactly when they hold the same
\* characters.
LEMMA SameIs ==
  ASSUME NEW a \in Lists, NEW b \in Lists
  PROVE  Same(a, b) <=> \A c \in Points : Holds(a, c) <=> Holds(b, c)
<1>1. /\ Canonical(Merged(a)) /\ Canonical(Merged(b))
      /\ \A c \in Points : Holds(Merged(a), c) <=> Holds(a, c)
      /\ \A c \in Points : Holds(Merged(b), c) <=> Holds(b, c)
  BY MergedIs
<1>2. CASE Same(a, b)
  BY <1>1, <1>2 DEF Same
<1>3. ASSUME \A c \in Points : Holds(a, c) <=> Holds(b, c) PROVE Same(a, b)
  <2>1. \A c \in Points : Holds(Merged(a), c) <=> Holds(Merged(b), c)
    BY <1>1, <1>3
  <2>2. QED
    BY <2>1, <1>1, OnlyOne DEF Same, HoldTheSame
<1>4. QED
  BY <1>2, <1>3

-----------------------------------------------------------------------------
(* Tiles.                                                                    *)

In(t, i, c) == ~Before(c, t[i].lo) /\ ~Before(t[i].hi, c)

\* Every code point is in exactly one range.
Partition(t) ==
  \A c \in CodePoints : /\ \E i \in 1..Len(t) : In(t, i, c)
                        /\ \A i, j \in 1..Len(t) : In(t, i, c) /\ In(t, j, c) => i = j

LEMMA CodePointIs ==
  /\ \A c : c \in CodePoints <=> c \in Points /\ ~Before(Highest, c)
  /\ Highest \in CodePoints /\ Lowest \in CodePoints
<1>1. Highest \in Points /\ Highest[1] \in Nat
  BY CodePointAssumption DEF Points
<1>2. ASSUME NEW c \in Points, ~Before(Highest, c) PROVE c \in CodePoints
  <2>1. c = <<c[1], c[2], c[3]>> /\ c[1] \in Nat /\ c[2] \in 0..MaxByte /\ c[3] \in 0..MaxByte
    BY PointIs
  <2>2. ~ (Highest[1] < c[1])
    BY <1>1, <1>2, BeforeIs
  <2>3. c[1] \in 0..Highest[1]
    BY <1>1, <2>1, <2>2
  <2>4. QED
    BY <1>2, <2>1, <2>3 DEF CodePoints
<1>3. ASSUME NEW c \in CodePoints PROVE c \in Points /\ ~Before(Highest, c)
  BY <1>1 DEF CodePoints, Points
<1>4. Highest \in CodePoints /\ Lowest \in CodePoints
  BY <1>1, <1>2, LowestIsFirst, Order
<1>5. QED
  BY <1>2, <1>3, <1>4

TilesAll(t) ==
  /\ t # <<>>
  /\ Head(t).lo = Lowest /\ Last(t).hi = Highest
  /\ \A i \in 1..(Len(t) - 1) : t[i + 1].lo = NextOf(t[i].hi)

Ordered(t) == \A k, l \in 1..Len(t) : k < l => ~Before(t[l].lo, t[k].lo)

\* Ranges each of which begins right after the one before leave no point out
\* and share none.
LEMMA TilesPartition ==
  ASSUME NEW t \in Lists, Ordered(t), TilesAll(t)
  PROVE  Partition(t)
<1> DEFINE n == Len(t)
<1>1. /\ n \in Nat
      /\ \A i \in 1..n : /\ t[i].lo \in Points /\ t[i].hi \in Points
                         /\ NextOf(t[i].hi) \in Points /\ ~Before(t[i].hi, t[i].lo)
  BY ListIs, Successor
<1>2. n \in 1..n /\ 1 \in 1..n /\ t[1].lo = Lowest /\ t[n].hi = Highest
  <2>1. n # 0
    BY DEF Lists, TilesAll
  <2>2. QED
    BY <2>1, <1>1 DEF TilesAll, Last, Lists
<1>3. \A i \in 1..(n - 1) : t[i + 1].lo = NextOf(t[i].hi)
  BY DEF TilesAll
<1>4. \A k, l \in 1..n : k < l => ~Before(t[l].lo, t[k].lo)
  BY DEF Ordered
<1> HIDE DEF n
<1>5. ASSUME NEW c \in CodePoints PROVE \E i \in 1..n : In(t, i, c)
  <2>1. c \in Points /\ ~Before(Highest, c)
    BY CodePointIs
  <2> DEFINE G == {i \in 1..n : ~Before(c, t[i].lo)}
  <2>2. 1 \in G /\ G \in SUBSET (1..n)
    BY <1>2, <2>1, LowestIsFirst
  <2>3. PICK g \in G : \A i \in G : i <= g
    <3> HIDE DEF G
    <3>1. QED
      BY <1>1, <2>2, GreatestNumber
  <2>4. g \in 1..n /\ ~Before(c, t[g].lo)
    BY <2>3
  <2>5. ~Before(t[g].hi, c)
    <3>1. CASE g = n
      BY <3>1, <1>2, <2>1
    <3>2. CASE g # n
      <4>1. g \in 1..(n - 1) /\ g + 1 \in 1..n
        BY <3>2, <2>4, <1>1
      <4>2. g + 1 \notin G
        BY <2>3, <2>4
      <4>3. Before(c, NextOf(t[g].hi))
        BY <4>1, <4>2, <1>3
      <4>4. QED
        BY <4>3, <2>1, <2>4, <1>1, Successor
    <3>3. QED
      BY <3>1, <3>2
  <2>6. QED
    BY <2>4, <2>5 DEF In
<1>6. ASSUME NEW i \in 1..n, NEW j \in 1..n, i < j PROVE Before(t[i].hi, t[j].lo)
  <2>1. i \in 1..(n - 1) /\ i + 1 \in 1..n /\ (i + 1 = j \/ i + 1 < j)
    BY <1>1, <1>6
  <2>2. Before(t[i].hi, t[i + 1].lo)
    BY <2>1, <1>1, <1>3, Successor, Order
  <2>3. ~Before(t[j].lo, t[i + 1].lo)
    BY <2>1, <1>1, <1>4, Order
  <2>4. QED
    BY <2>1, <2>2, <2>3, <1>1, OrderWeak
<1>7. ASSUME NEW c \in CodePoints, NEW i \in 1..n, NEW j \in 1..n, In(t, i, c), In(t, j, c)
      PROVE  i = j
  <2>1. c \in Points
    BY CodePointIs
  <2>2. ~ i < j
    BY <2>1, <1>1, <1>6, <1>7, OrderWeak DEF In
  <2>3. ~ j < i
    BY <2>1, <1>1, <1>6, <1>7, OrderWeak DEF In
  <2>4. QED
    BY <2>2, <2>3
<1>8. QED
  BY <1>5, <1>7 DEF Partition, n

LEMMA PartitionTiles ==
  ASSUME NEW t \in Lists, Ordered(t), Partition(t),
         \A i \in 1..Len(t) : t[i].hi \in CodePoints
  PROVE  TilesAll(t)
<1> DEFINE n == Len(t)
<1>1. /\ n \in Nat
      /\ \A i \in 1..n : /\ t[i].lo \in Points /\ t[i].hi \in Points
                         /\ NextOf(t[i].hi) \in Points /\ ~Before(t[i].hi, t[i].lo)
                         /\ ~Before(Highest, t[i].hi)
  BY ListIs, Successor, CodePointIs
<1>2. \A k, l \in 1..n : k < l => ~Before(t[l].lo, t[k].lo)
  BY DEF Ordered
<1>3. \A c \in CodePoints : /\ \E i \in 1..n : In(t, i, c)
                            /\ \A i, j \in 1..n : In(t, i, c) /\ In(t, j, c) => i = j
  BY DEF Partition
<1>4. Highest \in CodePoints /\ Highest \in Points /\ Lowest \in CodePoints /\ Lowest \in Points
  BY CodePointIs
<1>5. \A i \in 1..n : t[i].lo \in CodePoints
  BY <1>1, <1>4, OrderWeak, CodePointIs
<1> HIDE DEF n
<1>6. ASSUME NEW i \in 1..n, NEW j \in 1..n, i < j PROVE Before(t[i].hi, t[j].lo)
  <2>1. SUFFICES ASSUME ~Before(t[i].hi, t[j].lo) PROVE FALSE
    OBVIOUS
  <2>2. In(t, i, t[j].lo)
    BY <1>2, <1>6, <2>1 DEF In
  <2>3. In(t, j, t[j].lo)
    BY <1>1, Order DEF In
  <2>4. i = j
    BY <2>2, <2>3, <1>3, <1>5
  <2>5. QED
    BY <2>4, <1>6
<1>7. 1 \in 1..n /\ n \in 1..n
  <2>1. \E i \in 1..n : In(t, i, Lowest)
    BY <1>3, <1>4
  <2>2. QED
    BY <2>1, <1>1
<1>8. t[1].lo = Lowest
  <2>1. PICK i \in 1..n : In(t, i, Lowest)
    BY <1>3, <1>4
  <2>2. t[i].lo = Lowest
    BY <2>1, <1>1, <1>4, LowestIsFirst, Order DEF In
  <2>3. i = 1 \/ 1 < i
    BY <2>1
  <2>4. ~Before(t[i].lo, t[1].lo)
    BY <2>3, <1>1, <1>2, <1>7, Order
  <2>5. QED
    BY <2>2, <2>4, <1>1, <1>7, LowestIsFirst, Order
<1>9. t[n].hi = Highest
  <2>1. PICK i \in 1..n : In(t, i, Highest)
    BY <1>3, <1>4
  <2>2. t[i].hi = Highest
    BY <2>1, <1>1, <1>4, Order DEF In
  <2>3. CASE i = n
    BY <2>2, <2>3
  <2>4. CASE i < n
    <3>1. Before(Highest, t[n].lo)
      BY <2>2, <2>4, <1>6, <1>7
    <3>2. QED
      BY <3>1, <1>4, <1>5, <1>7, CodePointIs
  <2>5. QED
    BY <2>1, <2>3, <2>4, <1>1
<1>10. ASSUME NEW i \in 1..(n - 1) PROVE t[i + 1].lo = NextOf(t[i].hi)
  <2>1. i \in 1..n /\ i + 1 \in 1..n /\ i < i + 1
    BY <1>1
  <2> DEFINE p == NextOf(t[i].hi)
  <2>2. Before(t[i].hi, t[i + 1].lo) /\ ~Before(t[i + 1].lo, p) /\ p \in Points /\ Before(t[i].hi, p)
    BY <2>1, <1>1, <1>6, Successor, Order
  <2>3. SUFFICES ASSUME Before(p, t[i + 1].lo) PROVE FALSE
    BY <2>1, <2>2, <1>1, Order
  <2>4. p \in CodePoints
    <3>1. ~Before(Highest, t[i + 1].lo) /\ t[i + 1].lo \in Points
      BY <2>1, <1>5, CodePointIs
    <3>2. ~Before(Highest, p)
      BY <3>1, <2>2, <2>3, <1>4, Order
    <3>3. QED
      BY <3>2, <2>2, CodePointIs
  <2>5. PICK j \in 1..n : In(t, j, p)
    BY <2>4, <1>3
  <2>6. ~Before(p, t[j].lo) /\ ~Before(t[j].hi, p)
    BY <2>5 DEF In
  <2> HIDE DEF p
  <2>7. j # i
    BY <2>2, <2>6
  <2>8. ~ j < i
    <3>1. SUFFICES ASSUME j < i PROVE FALSE
      OBVIOUS
    <3>2. Before(t[j].hi, t[i].lo)
      BY <3>1, <2>1, <1>6
    <3>3. ~Before(t[i].hi, t[i].lo)
      BY <2>1, <1>1
    <3>4. Before(t[j].hi, t[i].hi)
      BY <3>2, <3>3, <2>1, <1>1, OrderWeak
    <3>5. QED
      BY <3>4, <2>1, <2>2, <2>6, <1>1, Order
  <2>9. j = i + 1 \/ i + 1 < j
    BY <2>1, <2>7, <2>8, <1>1
  <2>10. ~Before(t[j].lo, t[i + 1].lo)
    BY <2>9, <2>1, <1>1, <1>2, Order
  <2>11. QED
    BY <2>1, <2>2, <2>3, <2>6, <2>10, <1>1, OrderWeak
<1>11. Head(t) = t[1] /\ t # <<>> /\ Last(t) = t[n]
  <2>1. t # <<>>
    BY <1>7 DEF n
  <2>2. QED
    BY <2>1, HeadTailProperties DEF Last, n, Lists
<1>12. QED
  BY <1>8, <1>9, <1>10, <1>11 DEF TilesAll, n

LEMMA SortedPartition ==
  ASSUME NEW s \in Lists
  PROVE  Partition(Sorted(s)) <=> Partition(s)
<1> DEFINE n == Len(s)
           o == OrderOf(s)
           t == Sorted(s)
<1>1. /\ n \in Nat /\ Len(t) = n /\ o \in [1..n -> 1..n]
      /\ \A i \in 1..n : \E k \in 1..n : o[k] = i
      /\ \A k, l \in 1..n : k < l => o[k] # o[l]
  BY SortedIs, ListIs
<1>2. \A k \in 1..n : t[k] = s[o[k]]
  BY SortedIs
<1>3. \A k \in 1..n, c \in CodePoints : In(t, k, c) <=> In(s, o[k], c)
  BY <1>2 DEF In
<1>4. \A k, l \in 1..n : o[k] = o[l] => k = l
  <2> SUFFICES ASSUME NEW k \in 1..n, NEW l \in 1..n, k # l PROVE o[k] # o[l]
    OBVIOUS
  <2>1. k < l \/ l < k
    OBVIOUS
  <2>2. QED
    BY <2>1, <1>1
<1> HIDE DEF n, o, t
<1>5. ASSUME NEW c \in CodePoints
      PROVE  (\E k \in 1..n : In(t, k, c)) <=> \E i \in 1..n : In(s, i, c)
  <2>1. ASSUME NEW k \in 1..n, In(t, k, c) PROVE \E i \in 1..n : In(s, i, c)
    BY <2>1, <1>1, <1>3
  <2>2. ASSUME NEW i \in 1..n, In(s, i, c) PROVE \E k \in 1..n : In(t, k, c)
    BY <2>2, <1>1, <1>3
  <2>3. QED
    BY <2>1, <2>2
<1>6. ASSUME NEW c \in CodePoints
      PROVE  (\A k, l \in 1..n : In(t, k, c) /\ In(t, l, c) => k = l)
               <=> \A i, j \in 1..n : In(s, i, c) /\ In(s, j, c) => i = j
  <2>1. ASSUME \A k, l \in 1..n : In(t, k, c) /\ In(t, l, c) => k = l,
               NEW i \in 1..n, NEW j \in 1..n, In(s, i, c), In(s, j, c)
        PROVE  i = j
    <3>1. PICK k \in 1..n : o[k] = i
      BY <1>1
    <3>2. PICK l \in 1..n : o[l] = j
      BY <1>1
    <3>3. In(t, k, c) /\ In(t, l, c)
      BY <2>1, <3>1, <3>2, <1>3
    <3>4. QED
      BY <2>1, <3>1, <3>2, <3>3
  <2>2. ASSUME \A i, j \in 1..n : In(s, i, c) /\ In(s, j, c) => i = j,
               NEW k \in 1..n, NEW l \in 1..n, In(t, k, c), In(t, l, c)
        PROVE  k = l
    <3>1. In(s, o[k], c) /\ In(s, o[l], c) /\ o[k] \in 1..n /\ o[l] \in 1..n
      BY <2>2, <1>1, <1>3
    <3>2. QED
      BY <3>1, <2>2, <1>4
  <2>3. QED
    BY <2>1, <2>2
<1>7. /\ Partition(t) <=> \A c \in CodePoints :
                            /\ \E k \in 1..n : In(t, k, c)
                            /\ \A k, l \in 1..n : In(t, k, c) /\ In(t, l, c) => k = l
      /\ Partition(s) <=> \A c \in CodePoints :
                            /\ \E k \in 1..n : In(s, k, c)
                            /\ \A k, l \in 1..n : In(s, k, c) /\ In(s, l, c) => k = l
  BY <1>1, Zenon DEF Partition, n
<1>8. QED
  BY <1>5, <1>6, <1>7, Zenon DEF t

LEMMA CanonicalOnce ==
  ASSUME NEW A, Canonical(A), NEW c \in Points, NEW i \in 1..Len(A), NEW j \in 1..Len(A),
         In(A, i, c), In(A, j, c)
  PROVE  i = j
<1>1. /\ A[i].lo \in Points /\ A[i].hi \in Points /\ A[j].lo \in Points /\ A[j].hi \in Points
      /\ i < j => Before(A[i].hi, A[j].lo)
      /\ j < i => Before(A[j].hi, A[i].lo)
  BY CanonicalIs
<1>2. ~ i < j /\ ~ j < i
  BY <1>1, OrderWeak DEF In
<1>3. QED
  BY <1>2

\* Two such lists are a partition when one holds what the other does not.
LEMMA JoinedPartition ==
  ASSUME NEW A, NEW B, Canonical(A), Canonical(B)
  PROVE  /\ A \o B \in Lists
         /\ \A i \in 1..Len(A \o B) : \/ \E k \in 1..Len(A) : (A \o B)[i] = A[k]
                                      \/ \E l \in 1..Len(B) : (A \o B)[i] = B[l]
         /\ Partition(A \o B) <=> \A c \in CodePoints : Holds(A, c) <=> ~Holds(B, c)
<1> DEFINE n == Len(A)
           m == Len(B)
           C == A \o B
<1>1. A \in Lists /\ B \in Lists /\ n \in Nat /\ m \in Nat
  BY CanonicalIs
<1>2. /\ C \in Lists /\ Len(C) = n + m
      /\ \A i \in 1..(n + m) : C[i] = IF i <= n THEN A[i] ELSE B[i - n]
  BY <1>1, ConcatProperties DEF Lists
<1>3. /\ \A c : Holds(A, c) <=> \E i \in 1..n : In(A, i, c)
      /\ \A c : Holds(B, c) <=> \E j \in 1..m : In(B, j, c)
  BY <1>1, HoldsIs DEF In
<1> HIDE DEF n, m, C
<1>4. \A i \in 1..n : i \in 1..(n + m) /\ C[i] = A[i]
  BY <1>1, <1>2
<1>5. \A j \in 1..m : n + j \in 1..(n + m) /\ ~ (n + j \in 1..n) /\ C[n + j] = B[j]
  <2> SUFFICES ASSUME NEW j \in 1..m
               PROVE  n + j \in 1..(n + m) /\ ~ (n + j \in 1..n) /\ C[n + j] = B[j]
    OBVIOUS
  <2>1. n + j \in 1..(n + m) /\ ~ (n + j <= n) /\ (n + j) - n = j
    BY <1>1
  <2>2. QED
    BY <2>1, <1>1, <1>2
<1>6. \A i \in 1..(n + m) : i \in 1..n \/ \E j \in 1..m : i = n + j
  <2> SUFFICES ASSUME NEW i \in 1..(n + m), i \notin 1..n PROVE \E j \in 1..m : i = n + j
    OBVIOUS
  <2>1. i - n \in 1..m /\ i = n + (i - n)
    BY <1>1
  <2>2. QED
    BY <2>1
<1>7. \A c : (\A i \in 1..n : In(C, i, c) <=> In(A, i, c))
             /\ \A j \in 1..m : In(C, n + j, c) <=> In(B, j, c)
  BY <1>4, <1>5 DEF In
<1>8. \A i \in 1..(n + m) : (\E k \in 1..n : C[i] = A[k]) \/ \E l \in 1..m : C[i] = B[l]
  BY <1>4, <1>5, <1>6
<1>9. ASSUME Partition(C), NEW c \in CodePoints PROVE Holds(A, c) <=> ~Holds(B, c)
  <2>1. PICK i \in 1..(n + m) : In(C, i, c)
    BY <1>2, <1>9 DEF Partition
  <2>2. Holds(A, c) \/ Holds(B, c)
    BY <2>1, <1>3, <1>6, <1>7
  <2>3. ASSUME Holds(A, c), Holds(B, c) PROVE FALSE
    <3>1. PICK k \in 1..n : In(A, k, c)
      BY <2>3, <1>3
    <3>2. PICK l \in 1..m : In(B, l, c)
      BY <2>3, <1>3
    <3>3. In(C, k, c) /\ In(C, n + l, c) /\ k \in 1..(n + m) /\ n + l \in 1..(n + m)
      BY <3>1, <3>2, <1>4, <1>5, <1>7
    <3>4. k = n + l
      BY <3>3, <1>2, <1>9 DEF Partition
    <3>5. QED
      BY <3>4, <1>5
  <2>4. QED
    BY <2>2, <2>3
<1>10. ASSUME \A c \in CodePoints : Holds(A, c) <=> ~Holds(B, c) PROVE Partition(C)
  <2>1. ASSUME NEW c \in CodePoints PROVE \E i \in 1..(n + m) : In(C, i, c)
    <3>1. CASE Holds(A, c)
      BY <3>1, <1>3, <1>4, <1>7
    <3>2. CASE Holds(B, c)
      BY <3>2, <1>3, <1>5, <1>7
    <3>3. QED
      BY <3>1, <3>2, <1>10
  <2>2. ASSUME NEW c \in CodePoints, NEW i \in 1..(n + m), NEW j \in 1..(n + m),
               In(C, i, c), In(C, j, c)
        PROVE  i = j
    <3>1. c \in Points
      BY CodePointIs
    <3>2. CASE i \in 1..n /\ j \in 1..n
      BY <3>1, <3>2, <2>2, <1>7, CanonicalOnce DEF n
    <3>3. CASE i \in 1..n /\ j \notin 1..n
      <4>1. Holds(A, c) /\ Holds(B, c)
        BY <3>3, <2>2, <1>3, <1>6, <1>7
      <4>2. QED
        BY <4>1, <1>10
    <3>4. CASE i \notin 1..n /\ j \in 1..n
      <4>1. Holds(A, c) /\ Holds(B, c)
        BY <3>4, <2>2, <1>3, <1>6, <1>7
      <4>2. QED
        BY <4>1, <1>10
    <3>5. CASE i \notin 1..n /\ j \notin 1..n
      <4>1. PICK k \in 1..m : i = n + k
        BY <3>5, <1>6
      <4>2. PICK l \in 1..m : j = n + l
        BY <3>5, <1>6
      <4>3. In(B, k, c) /\ In(B, l, c)
        BY <4>1, <4>2, <2>2, <1>7
      <4>4. k = l
        BY <4>3, <3>1, CanonicalOnce DEF m
      <4>5. QED
        BY <4>1, <4>2, <4>4
    <3>6. QED
      BY <3>2, <3>3, <3>4, <3>5
  <2>3. QED
    BY <2>1, <2>2, <1>2 DEF Partition
<1>11. QED
  BY <1>2, <1>8, <1>9, <1>10 DEF C, n, m

\* Two lists of ranges tile the code points exactly when each holds what the
\* other does not.
LEMMA TileIs ==
  ASSUME NEW a \in Lists, NEW b \in Lists,
         \A i \in 1..Len(a) : a[i].hi \in CodePoints,
         \A i \in 1..Len(b) : b[i].hi \in CodePoints
  PROVE  Tile(a, b) <=> \A c \in CodePoints : Holds(a, c) <=> ~Holds(b, c)
<1> DEFINE A == Merged(a)
           B == Merged(b)
           t == Sorted(A \o B)
<1>1. /\ Canonical(A) /\ \A c \in Points : Holds(A, c) <=> Holds(a, c)
      /\ Canonical(B) /\ \A c \in Points : Holds(B, c) <=> Holds(b, c)
  BY MergedIs
<1>2. ASSUME NEW s \in Lists, \A i \in 1..Len(s) : s[i].hi \in CodePoints,
             NEW M, Canonical(M), \A c \in Points : Holds(M, c) <=> Holds(s, c)
      PROVE  \A k \in 1..Len(M) : M[k].hi \in CodePoints
  <2> SUFFICES ASSUME NEW k \in 1..Len(M) PROVE M[k].hi \in CodePoints
    OBVIOUS
  <2>1. M[k].lo \in Points /\ M[k].hi \in Points /\ ~Before(M[k].hi, M[k].lo)
    BY <1>2, CanonicalIs
  <2>2. Holds(M, M[k].hi)
    BY <1>2, <2>1, Order, CanonicalIs, HoldsIs
  <2>3. PICK i \in 1..Len(s) : ~Before(s[i].hi, M[k].hi)
    BY <1>2, <2>1, <2>2, HoldsIs
  <2>4. s[i].hi \in Points /\ ~Before(Highest, s[i].hi) /\ Highest \in Points
    BY <1>2, CodePointIs
  <2>5. ~Before(Highest, M[k].hi)
    BY <2>1, <2>3, <2>4, OrderWeak
  <2>6. QED
    BY <2>1, <2>5, CodePointIs
<1>3. /\ \A k \in 1..Len(A) : A[k].hi \in CodePoints
      /\ \A k \in 1..Len(B) : B[k].hi \in CodePoints
  BY <1>1, <1>2
<1> HIDE DEF A, B
<1>4. /\ A \o B \in Lists
      /\ \A i \in 1..Len(A \o B) : (A \o B)[i].hi \in CodePoints
      /\ Partition(A \o B) <=> \A c \in CodePoints : Holds(A, c) <=> ~Holds(B, c)
  BY <1>1, <1>3, JoinedPartition
<1>5. /\ t \in Lists /\ Ordered(t)
      /\ \A k \in 1..Len(t) : t[k].hi \in CodePoints
      /\ Partition(t) <=> Partition(A \o B)
  <2>1. /\ t \in Lists /\ Len(t) = Len(A \o B)
        /\ \A k \in 1..Len(A \o B) : /\ t[k] = (A \o B)[OrderOf(A \o B)[k]]
                                     /\ OrderOf(A \o B)[k] \in 1..Len(A \o B)
        /\ \A k, l \in 1..Len(A \o B) : k < l => ~Before(t[l].lo, t[k].lo)
    BY <1>4, SortedIs
  <2>2. QED
    BY <2>1, <1>4, SortedPartition DEF Ordered
<1>6. Tile(a, b) <=> TilesAll(t)
  BY DEF Tile, TilesAll, A, B
<1> HIDE DEF t
<1>7. TilesAll(t) <=> Partition(t)
  BY <1>5, TilesPartition, PartitionTiles
<1>8. \A c \in CodePoints : c \in Points
  BY CodePointIs
<1>9. QED
  BY <1>1, <1>4, <1>5, <1>6, <1>7, <1>8

-----------------------------------------------------------------------------
(* The check.                                                                *)

Pieces == [cp : CodePoints, dash : BOOLEAN]

\* A dash has a high end after it.
Closed(s) ==
  \A i \in 1..Len(s) : s[i].dash => i + 1 \in 1..Len(s) /\ ~Before(s[i + 1].cp, s[i].cp)

\* A class is made of whole ranges; the verdict stands for what the check says.
WellFormed ==
  /\ negated \in BOOLEAN
  /\ class \in Seq(Pieces) /\ Closed(class)
  /\ tokens \in Seq(Ranges)
  /\ verdict \in {"", "fits", "refused"}
  /\ verdict # "" => (verdict = "fits" <=> Fits)

LEMMA RangeIs ==
  /\ \A r \in Ranges : /\ r \in PointRanges /\ r.lo \in CodePoints /\ r.hi \in CodePoints
                       /\ ~Before(r.hi, r.lo)
  /\ \A a, b \in CodePoints : ~Before(b, a) => Span(a, b) \in PointRanges
<1>1. \A c \in CodePoints : c \in Points
  BY CodePointIs
<1>2. ASSUME NEW r \in Ranges
      PROVE  /\ r \in PointRanges /\ r.lo \in CodePoints /\ r.hi \in CodePoints
             /\ ~Before(r.hi, r.lo)
  <2>1. PICK q \in CodePoints \X CodePoints : ~Before(q[2], q[1]) /\ r = Span(q[1], q[2])
    BY DEF Ranges
  <2>2. q[1] \in CodePoints /\ q[2] \in CodePoints /\ r = [lo |-> q[1], hi |-> q[2]]
    BY <2>1 DEF Span
  <2>3. QED
    BY <2>1, <2>2, <1>1 DEF PointRanges
<1>3. \A a, b \in CodePoints : ~Before(b, a) => Span(a, b) \in PointRanges
  BY <1>1 DEF Span, PointRanges
<1>4. QED
  BY <1>2, <1>3

LEMMA ClassIs ==
  ASSUME WellFormed
  PROVE  /\ class \in Seq(Pieces) /\ Len(class) \in Nat /\ DOMAIN class = 1..Len(class)
         /\ \A i \in 1..Len(class) : class[i].cp \in CodePoints /\ class[i].dash \in BOOLEAN
         /\ \A i \in 1..Len(class) : class[i].dash => /\ i + 1 \in 1..Len(class)
                                                      /\ ~Before(class[i + 1].cp, class[i].cp)
<1>1. class \in Seq(Pieces)
  BY DEF WellFormed
<1>2. /\ Len(class) \in Nat /\ DOMAIN class = 1..Len(class)
      /\ \A i \in 1..Len(class) : class[i] \in Pieces
  BY <1>1
<1>3. \A i \in 1..Len(class) : class[i].cp \in CodePoints /\ class[i].dash \in BOOLEAN
  BY <1>2 DEF Pieces
<1>4. QED
  BY <1>1, <1>2, <1>3 DEF WellFormed, Closed

LEMMA ClassIsAList ==
  ASSUME WellFormed
  PROVE  /\ ClassSpans(class) \in Lists
         /\ \A i \in 1..Len(ClassSpans(class)) : ClassSpans(class)[i].hi \in CodePoints
<1> DEFINE n == Len(class)
           S == {i \in 1..n : ~(i > 1 /\ class[i - 1].dash)}
           starts == Ascending(S)
           high(i) == IF class[i].dash THEN class[i + 1].cp ELSE class[i].cp
           C == ClassSpans(class)
<1>1. n \in Nat /\ DOMAIN class = 1..n /\ S \in SUBSET (1..n)
  BY ClassIs
<1>2. C = [k \in DOMAIN starts |-> Span(class[starts[k]].cp, high(starts[k]))]
  BY <1>1 DEF ClassSpans
<1>3. /\ Len(starts) \in Nat /\ DOMAIN starts = 1..Len(starts)
      /\ \A k \in 1..Len(starts) : starts[k] \in 1..n
  <2> HIDE DEF S
  <2>1. Cardinality(S) \in Nat /\ Ascending(S) \in [1..Cardinality(S) -> S]
        /\ Len(Ascending(S)) = Cardinality(S)
    BY <1>1, AscendingIs
  <2>2. QED
    BY <2>1, <1>1
<1>4. ASSUME NEW i \in 1..n
      PROVE  /\ Span(class[i].cp, high(i)) \in PointRanges
             /\ Span(class[i].cp, high(i)).hi \in CodePoints
  <2>1. class[i].cp \in CodePoints /\ class[i].dash \in BOOLEAN
    BY ClassIs
  <2>2. high(i) \in CodePoints /\ ~Before(high(i), class[i].cp)
    <3>1. CASE class[i].dash
      <4>1. i + 1 \in 1..n /\ ~Before(class[i + 1].cp, class[i].cp)
        BY <3>1, ClassIs
      <4>2. class[i + 1].cp \in CodePoints
        BY <4>1, ClassIs
      <4>3. QED
        BY <3>1, <4>1, <4>2
    <3>2. CASE ~class[i].dash
      BY <3>2, <2>1, CodePointIs, Order
    <3>3. QED
      BY <3>1, <3>2
  <2>3. QED
    BY <2>1, <2>2, RangeIs DEF Span
<1> HIDE DEF n, S, starts, high, C
<1>5. QED
  BY <1>2, <1>3, <1>4 DEF C, Lists

LEMMA TokensAreAList ==
  ASSUME WellFormed
  PROVE  tokens \in Lists /\ \A i \in 1..Len(tokens) : tokens[i].hi \in CodePoints
<1>1. tokens \in Seq(Ranges)
  BY DEF WellFormed
<1>2. Len(tokens) \in Nat /\ DOMAIN tokens = 1..Len(tokens)
      /\ \A i \in 1..Len(tokens) : tokens[i] \in Ranges
  BY <1>1
<1>3. \A i \in 1..Len(tokens) : tokens[i] \in PointRanges /\ tokens[i].hi \in CodePoints
  BY <1>2, RangeIs
<1>4. tokens = [i \in 1..Len(tokens) |-> tokens[i]]
  BY <1>1
<1>5. tokens \in Lists
  BY <1>2, <1>3, <1>4 DEF Lists
<1>6. QED
  BY <1>3, <1>5

\* A character above the highest is in no list, so it does not tell two apart.
LEMMA HoldsCodePoints ==
  ASSUME NEW s \in Lists, \A i \in 1..Len(s) : s[i].hi \in CodePoints,
         NEW c \in Points, Holds(s, c)
  PROVE  c \in CodePoints
<1>1. PICK i \in 1..Len(s) : ~Before(s[i].hi, c)
  BY HoldsIs
<1>2. s[i].hi \in Points /\ ~Before(Highest, s[i].hi) /\ Highest \in Points
  BY CodePointIs
<1>3. QED
  BY <1>1, <1>2, OrderWeak, CodePointIs

LEMMA FitsIs ==
  ASSUME WellFormed
  PROVE  Fits <=> \A c \in CodePoints :
                    Holds(tokens, c) <=> (Holds(ClassSpans(class), c) # negated)
<1> DEFINE a == ClassSpans(class)
<1>1. /\ a \in Lists /\ \A i \in 1..Len(a) : a[i].hi \in CodePoints
      /\ tokens \in Lists /\ \A i \in 1..Len(tokens) : tokens[i].hi \in CodePoints
  BY ClassIsAList, TokensAreAList
<1>2. \A c \in CodePoints : c \in Points
  BY CodePointIs
<1>3. Same(a, tokens) <=> \A c \in CodePoints : Holds(a, c) <=> Holds(tokens, c)
  <2> HIDE DEF a
  <2>1. Same(a, tokens) <=> \A c \in Points : Holds(a, c) <=> Holds(tokens, c)
    BY <1>1, SameIs
  <2>2. \A c \in Points : Holds(a, c) \/ Holds(tokens, c) => c \in CodePoints
    BY <1>1, HoldsCodePoints
  <2>3. QED
    BY <2>1, <2>2, <1>2
<1>4. Tile(a, tokens) <=> \A c \in CodePoints : Holds(a, c) <=> ~Holds(tokens, c)
  <2> HIDE DEF a
  <2>1. QED
    BY <1>1, TileIs
<1>5. Fits <=> IF negated THEN Tile(a, tokens) ELSE Same(a, tokens)
  BY DEF Fits
<1>6. \A c : Holds(a, c) \in BOOLEAN
  BY DEF Holds
<1> HIDE DEF a
<1>7. CASE negated = TRUE
  <2>1. \A c : (Holds(a, c) # negated) <=> ~Holds(a, c)
    BY <1>6, <1>7
  <2>2. QED
    BY <2>1, <1>4, <1>5, <1>7, Zenon DEF a
<1>8. CASE negated = FALSE
  <2>1. \A c : (Holds(a, c) # negated) <=> Holds(a, c)
    BY <1>6, <1>8
  <2>2. QED
    BY <2>1, <1>3, <1>5, <1>8, Zenon DEF a
<1>9. QED
  BY <1>7, <1>8 DEF WellFormed

LEMMA ShortSequences ==
  ASSUME NEW S, NEW a \in S, NEW b \in S
  PROVE  /\ <<a>> \in Seq(S) /\ Len(<<a>>) = 1 /\ <<a>>[1] = a
         /\ <<a, b>> \in Seq(S) /\ Len(<<a, b>>) = 2 /\ <<a, b>>[1] = a /\ <<a, b>>[2] = b
OBVIOUS

LEMMA Joined ==
  ASSUME NEW S, NEW s \in Seq(S), NEW t \in Seq(S)
  PROVE  /\ s \o t \in Seq(S) /\ Len(s) \in Nat /\ Len(t) \in Nat
         /\ Len(s \o t) = Len(s) + Len(t)
         /\ \A i \in 1..Len(s) : i \in 1..(Len(s) + Len(t)) /\ (s \o t)[i] = s[i]
         /\ \A j \in 1..Len(t) : /\ Len(s) + j \in 1..(Len(s) + Len(t))
                                 /\ (s \o t)[Len(s) + j] = t[j]
         /\ \A i \in 1..(Len(s) + Len(t)) :
              i \in 1..Len(s) \/ \E j \in 1..Len(t) : i = Len(s) + j
<1>1. /\ Len(s) \in Nat /\ Len(t) \in Nat /\ s \o t \in Seq(S)
      /\ Len(s \o t) = Len(s) + Len(t)
      /\ \A i \in 1..(Len(s) + Len(t)) :
           (s \o t)[i] = IF i <= Len(s) THEN s[i] ELSE t[i - Len(s)]
  BY ConcatProperties
<1>2. ASSUME NEW j \in 1..Len(t)
      PROVE  /\ Len(s) + j \in 1..(Len(s) + Len(t))
             /\ (s \o t)[Len(s) + j] = t[j]
  <2>1. Len(s) + j \in 1..(Len(s) + Len(t)) /\ ~ (Len(s) + j <= Len(s))
        /\ (Len(s) + j) - Len(s) = j
    BY <1>1
  <2>2. QED
    BY <2>1, <1>1
<1>3. ASSUME NEW i \in 1..(Len(s) + Len(t)), i \notin 1..Len(s)
      PROVE  \E j \in 1..Len(t) : i = Len(s) + j
  <2>1. i - Len(s) \in 1..Len(t) /\ i = Len(s) + (i - Len(s))
    BY <1>1, <1>3
  <2>2. QED
    BY <2>1
<1>4. QED
  BY <1>1, <1>2, <1>3

LEMMA ClosedJoined ==
  ASSUME NEW s \in Seq(Pieces), Closed(s), NEW t \in Seq(Pieces), Closed(t)
  PROVE  s \o t \in Seq(Pieces) /\ Closed(s \o t)
<1> DEFINE u == s \o t
<1>1. /\ u \in Seq(Pieces) /\ Len(s) \in Nat /\ Len(t) \in Nat
      /\ Len(u) = Len(s) + Len(t)
      /\ \A i \in 1..Len(s) : i \in 1..Len(u) /\ u[i] = s[i]
      /\ \A j \in 1..Len(t) : Len(s) + j \in 1..Len(u) /\ u[Len(s) + j] = t[j]
      /\ \A i \in 1..Len(u) : i \in 1..Len(s) \/ \E j \in 1..Len(t) : i = Len(s) + j
  BY Joined
<1> HIDE DEF u
<1>2. ASSUME NEW i \in 1..Len(u), u[i].dash
      PROVE  i + 1 \in 1..Len(u) /\ ~Before(u[i + 1].cp, u[i].cp)
  <2>1. CASE i \in 1..Len(s)
    <3>1. u[i] = s[i]
      BY <2>1, <1>1
    <3>2. i + 1 \in 1..Len(s) /\ ~Before(s[i + 1].cp, s[i].cp)
      BY <2>1, <3>1, <1>2 DEF Closed
    <3>3. i + 1 \in 1..Len(u) /\ u[i + 1] = s[i + 1]
      BY <3>2, <1>1
    <3>4. QED
      BY <3>1, <3>2, <3>3
  <2>2. ASSUME NEW j \in 1..Len(t), i = Len(s) + j
        PROVE  i + 1 \in 1..Len(u) /\ ~Before(u[i + 1].cp, u[i].cp)
    <3>1. u[i] = t[j]
      BY <2>2, <1>1
    <3>2. j + 1 \in 1..Len(t) /\ ~Before(t[j + 1].cp, t[j].cp)
      BY <3>1, <1>2 DEF Closed
    <3>3. i + 1 = Len(s) + (j + 1)
      BY <2>2, <1>1
    <3>4. i + 1 \in 1..Len(u) /\ u[i + 1] = t[j + 1]
      BY <3>2, <3>3, <1>1
    <3>5. QED
      BY <3>1, <3>2, <3>4
  <2>3. QED
    BY <2>1, <2>2, <1>1
<1>3. QED
  BY <1>1, <1>2 DEF Closed, u

\* The pieces of one character, and of a range.
LEMMA ClosedPieces ==
  ASSUME NEW a \in Pieces, NEW b \in Pieces, ~b.dash, ~Before(b.cp, a.cp)
  PROVE  <<b>> \in Seq(Pieces) /\ Closed(<<b>>) /\ <<a, b>> \in Seq(Pieces) /\ Closed(<<a, b>>)
<1>1. /\ <<b>> \in Seq(Pieces) /\ Len(<<b>>) = 1 /\ <<b>>[1] = b
      /\ <<a, b>> \in Seq(Pieces) /\ Len(<<a, b>>) = 2 /\ <<a, b>>[1] = a /\ <<a, b>>[2] = b
  BY ShortSequences
<1>2. \A i \in 1..1 : i = 1
  OBVIOUS
<1>3. \A i \in 1..2 : i = 1 \/ i = 2
  OBVIOUS
<1>4. Closed(<<b>>)
  BY <1>1, <1>2 DEF Closed
<1>5. ASSUME NEW i \in 1..2, <<a, b>>[i].dash
      PROVE  i + 1 \in 1..2 /\ ~Before(<<a, b>>[i + 1].cp, <<a, b>>[i].cp)
  <2>1. i = 1
    BY <1>1, <1>3, <1>5
  <2>2. QED
    BY <1>1, <2>1
<1>6. QED
  BY <1>1, <1>4, <1>5 DEF Closed

LEMMA AddMemberKeeps ==
  ASSUME WellFormed, verdict = "", NEW span \in Ranges, AddMember(span.lo, span.hi)
  PROVE  WellFormed'
<1> DEFINE low == [cp |-> span.lo, dash |-> TRUE]
           high == [cp |-> span.hi, dash |-> FALSE]
<1>1. UNCHANGED <<negated, tokens, verdict>>
  BY DEF AddMember
<1>2. class' = class \o <<high>> \/ class' = class \o <<low, high>>
  BY DEF AddMember
<1>3. span.lo \in CodePoints /\ span.hi \in CodePoints /\ ~Before(span.hi, span.lo)
  BY RangeIs
<1>4. low \in Pieces /\ high \in Pieces /\ ~high.dash /\ ~Before(high.cp, low.cp)
  BY <1>3 DEF Pieces
<1> HIDE DEF low, high
<1>5. class' \in Seq(Pieces) /\ Closed(class')
  BY <1>2, <1>4, ClosedPieces, ClosedJoined DEF WellFormed
<1>6. Closed(class)'
  BY <1>5
<1>7. QED
  BY <1>1, <1>5, <1>6 DEF WellFormed

(* The render takes a token set for the class its name gives exactly when    *)
(* its tokens match what the class matches: abnf-check-set, which compares   *)
(* ranges sorted and merged, byte by byte, and never sets of characters.     *)
THEOREM ClassesAreTold == Spec => []SetsAreTheirClasses
<1>1. Init => WellFormed
  <2>1. <<>> \in Seq(Pieces) /\ <<>> \in Seq(Ranges) /\ 1..Len(<<>>) = {}
    OBVIOUS
  <2>2. QED
    BY <2>1 DEF Init, WellFormed, Closed
<1>2. WellFormed /\ [Next]_vars => WellFormed'
  <2> SUFFICES ASSUME WellFormed, [Next]_vars PROVE WellFormed'
    OBVIOUS
  <2>1. CASE CheckSet
    <3>1. /\ verdict' = IF Fits THEN "fits" ELSE "refused"
          /\ UNCHANGED <<negated, class, tokens>>
      BY <2>1 DEF CheckSet
    <3>2. Fits' <=> Fits
      BY <3>1 DEF Fits
    <3>3. verdict' \in {"", "fits", "refused"} /\ (verdict' = "fits" <=> Fits')
      BY <3>1, <3>2
    <3>4. QED
      BY <3>1, <3>3 DEF WellFormed
  <2>2. ASSUME Growing, NEW span \in Ranges, AddMember(span.lo, span.hi) PROVE WellFormed'
    BY <2>2, AddMemberKeeps DEF Growing
  <2>3. ASSUME Growing, NEW span \in Ranges, LayRange(span) PROVE WellFormed'
    <3>1. tokens' = Append(tokens, span) /\ UNCHANGED <<negated, class, verdict>> /\ verdict = ""
      BY <2>3 DEF Growing, LayRange
    <3>2. tokens' \in Seq(Ranges)
      BY <3>1, AppendProperties DEF WellFormed
    <3>3. QED
      BY <3>1, <3>2 DEF WellFormed
  <2>4. CASE UNCHANGED vars
    <3>1. UNCHANGED <<negated, class, tokens, verdict>>
      BY <2>4 DEF vars
    <3>2. Fits' <=> Fits
      BY <3>1 DEF Fits
    <3>3. QED
      BY <3>1, <3>2 DEF WellFormed
  <2>5. QED
    BY <2>1, <2>2, <2>3, <2>4 DEF Next
<1>3. WellFormed => SetsAreTheirClasses
  BY FitsIs DEF SetsAreTheirClasses, WellFormed
<1>4. QED
  BY <1>1, <1>2, <1>3, PTL DEF Spec
=============================================================================
