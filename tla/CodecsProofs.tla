---------------------------- MODULE CodecsProofs ----------------------------
(***************************************************************************)
(* Which numbers survive the way through the bytes of a list, and where    *)
(* each of them is in the bytes.  The first part is about numbers, sets    *)
(* and sequences in general: least elements, ascending order, the pieces   *)
(* of a concatenation.                                                     *)
(***************************************************************************)
EXTENDS Codecs, SequenceTheorems, FiniteSetTheorems, TLAPS

(* A set of natural numbers that is not empty has a least element.         *)
LEMMA LeastNat ==
  ASSUME NEW S \in SUBSET Nat, S # {}
  PROVE  \E x \in S : \A y \in S : x <= y
<1> DEFINE R == {ss \in Nat \X Nat : ss[1] < ss[2]}
<1>1. IsWellFoundedOn(R, Nat)
  BY NatLessThanWellFounded DEF OpToRel
<1>2. \A x, y \in Nat : <<y, x>> \in R <=> y < x
  OBVIOUS
<1> HIDE DEF R
<1>3. PICK x \in S : \A y \in S : ~ (<<y, x>> \in R)
  BY <1>1, WFMin
<1>4. ASSUME NEW y \in S PROVE x <= y
  <2>1. ~ (y < x)
    BY <1>2, <1>3
  <2> QED
    BY <2>1
<1> QED
  BY <1>4

(* Induction, as a statement about a set of numbers.                       *)
LEMMA NatByInduction ==
  ASSUME NEW S, 0 \in S, \A n \in Nat : n \in S => n + 1 \in S
  PROVE  \A n \in Nat : n \in S
<1> DEFINE Bad == Nat \ S
<1>1. SUFFICES ASSUME Bad # {} PROVE FALSE
  OBVIOUS
<1>2. PICK n \in Bad : \A m \in Bad : n <= m
  BY <1>1, LeastNat
<1>3. n \in Nat /\ n # 0 /\ n - 1 \in Nat /\ (n - 1) + 1 = n
  OBVIOUS
<1>4. n - 1 \in S
  BY <1>2, <1>3
<1> QED
  BY <1>3, <1>4

(* A function that is defined by recursion over the numbers up to n, one   *)
(* step after the other, exists.                                           *)
Recursion(f, S, a, n, g) ==
  /\ f \in [0..n -> S]
  /\ f = [i \in 0..n |-> IF i = 0 THEN a ELSE g[i][f[i - 1]]]

LEMMA StepByStep ==
  ASSUME NEW S, NEW a \in S, NEW n \in Nat, NEW g \in [1..n -> [S -> S]]
  PROVE  \E f : Recursion(f, S, a, n, g)
<1> DEFINE Upto(f, m) ==
             /\ f \in [0..m -> S]
             /\ f = [i \in 0..m |-> IF i = 0 THEN a ELSE g[i][f[i - 1]]]
           Good == {m \in Nat : m <= n => \E f : Upto(f, m)}
<1>1. 0 \in Good
  <2> DEFINE f == [i \in 0..0 |-> a]
  <2>1. f \in [0..0 -> S]
    OBVIOUS
  <2>2. f = [i \in 0..0 |-> IF i = 0 THEN a ELSE g[i][f[i - 1]]]
    OBVIOUS
  <2>3. Upto(f, 0)
    BY <2>1, <2>2
  <2> QED
    BY <2>3
<1>2. ASSUME NEW m \in Nat, m \in Good PROVE m + 1 \in Good
  <2>1. SUFFICES ASSUME m + 1 <= n PROVE \E f : Upto(f, m + 1)
    OBVIOUS
  <2>2. PICK f : Upto(f, m)
    BY <1>2, <2>1
  <2>3. m \in 0..m /\ m + 1 \in 1..n
    BY <2>1
  <2>4. f[m] \in S /\ g[m + 1] \in [S -> S]
    BY <2>2, <2>3
  <2>5. g[m + 1][f[m]] \in S
    BY <2>4
  <2> DEFINE h == [i \in 0..(m + 1) |->
                     IF i = m + 1 THEN g[m + 1][f[m]] ELSE f[i]]
             e == [i \in 0..(m + 1) |-> IF i = 0 THEN a ELSE g[i][h[i - 1]]]
  <2>6. \A i \in 0..(m + 1) : i # m + 1 => i \in 0..m
    OBVIOUS
  <2>7. h \in [0..(m + 1) -> S]
    BY <2>2, <2>5, <2>6
  <2>8. ASSUME NEW i \in 0..(m + 1) PROVE h[i] = e[i]
    <3>1. CASE i = m + 1
      <4>1. i # 0 /\ i - 1 = m /\ m \in 0..(m + 1) /\ m # m + 1
        BY <3>1
      <4>2. h[m] = f[m]
        BY <4>1
      <4> QED
        BY <3>1, <4>1, <4>2
    <3>2. CASE i # m + 1
      <4>1. i \in 0..m /\ h[i] = f[i]
        BY <2>6, <3>2
      <4>2. CASE i = 0
        BY <2>2, <4>1, <4>2
      <4>3. CASE i # 0
        <5>1. i - 1 \in 0..m /\ i - 1 \in 0..(m + 1) /\ i - 1 # m + 1
          BY <4>1, <4>3
        <5>2. h[i - 1] = f[i - 1]
          BY <5>1
        <5>3. f[i] = g[i][f[i - 1]]
          BY <2>2, <4>1, <4>3
        <5> QED
          BY <4>1, <4>3, <5>2, <5>3
      <4> QED
        BY <4>2, <4>3
    <3> QED
      BY <3>1, <3>2
  <2>9. h = e
    BY <2>8
  <2>10. Upto(h, m + 1)
    BY <2>7, <2>9
  <2> QED
    BY <2>10
<1> HIDE DEF Good
<1>3. n \in Good
  BY <1>1, <1>2, NatByInduction
<1> QED
  BY <1>3 DEF Good, Recursion

LEMMA LeastInRange ==
  ASSUME NEW lo \in Int, NEW hi \in Int, NEW S \in SUBSET (lo..hi), S # {}
  PROVE  \E x \in S : \A y \in S : x <= y
<1> DEFINE T == {n \in Nat : lo + n \in S}
<1>1. \A x \in S : x \in Int /\ x - lo \in Nat /\ lo + (x - lo) = x
  OBVIOUS
<1>2. T # {}
  BY <1>1
<1>3. PICK n \in T : \A m \in T : n <= m
  BY <1>2, LeastNat
<1>4. \A y \in S : n <= y - lo
  BY <1>1, <1>3
<1>5. \A y \in S : lo + n <= y
  BY <1>1, <1>4
<1> QED
  BY <1>5

-----------------------------------------------------------------------------
Increasing(seq) == \A i, j \in DOMAIN seq : i < j => seq[i] < seq[j]

(* Every finite set of numbers can be put in order.                        *)
LEMMA AscendingExists ==
  ASSUME NEW lo \in Int, NEW hi \in Int, NEW S \in SUBSET (lo..hi)
  PROVE  \E order \in [1..Cardinality(S) -> S] : Increasing(order)
<1> DEFINE Ordered(T) == \E order \in [1..Cardinality(T) -> T] : Increasing(order)
           Good == {n \in Nat : \A T \in SUBSET (lo..hi) :
                                  Cardinality(T) = n => Ordered(T)}
<1>1. \A T \in SUBSET (lo..hi) : IsFiniteSet(T) /\ Cardinality(T) \in Nat
  BY FS_Interval, FS_Subset, FS_CardinalityType
<1>2. 0 \in Good
  <2>1. ASSUME NEW T \in SUBSET (lo..hi), Cardinality(T) = 0 PROVE Ordered(T)
    <3>1. [i \in 1..0 |-> i] \in [1..Cardinality(T) -> T]
      BY <2>1
    <3>2. Increasing([i \in 1..0 |-> i])
      BY DEF Increasing
    <3> QED
      BY <3>1, <3>2
  <2> QED
    BY <2>1
<1>3. ASSUME NEW n \in Nat, n \in Good PROVE n + 1 \in Good
  <2>1. ASSUME NEW T \in SUBSET (lo..hi), Cardinality(T) = n + 1
        PROVE  Ordered(T)
    <3>1. T # {}
      BY <2>1, FS_EmptySet
    <3>2. PICK least \in T : \A x \in T : least <= x
      BY <3>1, LeastInRange
    <3> DEFINE U == T \ {least}
    <3>3. U \in SUBSET (lo..hi) /\ Cardinality(U) = n
      <4>1. Cardinality(U) = Cardinality(T) - 1
        BY <1>1, <3>2, FS_RemoveElement
      <4> QED
        BY <2>1, <4>1
    <3>4. PICK f \in [1..n -> U] : Increasing(f)
      BY <1>3, <3>3
    <3>5. \A x \in U : x \in Int /\ least \in Int /\ least < x
      BY <3>2
    <3> DEFINE g == [i \in 1..(n + 1) |-> IF i = 1 THEN least ELSE f[i - 1]]
    <3> HIDE DEF U
    <3>6. \A i \in 1..(n + 1) : i # 1 => i - 1 \in 1..n
      OBVIOUS
    <3>7. U \subseteq T
      BY DEF U
    <3>8. g \in [1..(n + 1) -> T]
      BY <3>2, <3>4, <3>6, <3>7
    <3>9. ASSUME NEW i \in 1..(n + 1), NEW j \in 1..(n + 1), i < j
          PROVE  g[i] < g[j]
      <4>1. j # 1 /\ j - 1 \in 1..n
        BY <3>6, <3>9
      <4>2. CASE i = 1
        BY <3>4, <3>5, <4>1, <4>2
      <4>3. CASE i # 1
        <5>1. i - 1 \in 1..n /\ i - 1 < j - 1
          BY <3>6, <3>9, <4>3
        <5> QED
          BY <3>4, <4>1, <4>3, <5>1 DEF Increasing
      <4> QED
        BY <4>2, <4>3
    <3>10. Increasing(g)
      BY <3>9 DEF Increasing
    <3> QED
      BY <2>1, <3>8, <3>10
  <2> QED
    BY <2>1
<1> HIDE DEF Good
<1>4. \A n \in Nat : n \in Good
  BY <1>2, <1>3, NatByInduction
<1> QED
  BY <1>1, <1>4 DEF Good

LEMMA IncreasingCovers ==
  ASSUME NEW S \in SUBSET Int, IsFiniteSet(S),
         NEW order \in [1..Cardinality(S) -> S], Increasing(order)
  PROVE  /\ Cardinality(S) \in Nat
         /\ order \in Seq(S) /\ Len(order) = Cardinality(S)
         /\ \A x \in S : \E i \in DOMAIN order : order[i] = x
         /\ ToSet(order) = S
<1>1. Cardinality(S) \in Nat
  BY FS_CardinalityType
<1>2. PICK n \in Nat : n = Cardinality(S)
  BY <1>1
<1>3. order \in [1..n -> S] /\ DOMAIN order = 1..n
  BY <1>2
<1>4. ASSUME NEW i \in 1..n, NEW j \in 1..n, order[i] = order[j] PROVE i = j
  <2>1. order[i] \in Int /\ order[j] \in Int
    BY <1>3
  <2>2. i < j => order[i] < order[j]
    BY <1>3 DEF Increasing
  <2>3. j < i => order[j] < order[i]
    BY <1>3 DEF Increasing
  <2>4. ~(i < j) /\ ~(j < i)
    BY <1>4, <2>1, <2>2, <2>3
  <2> QED
    BY <2>4
<1>5. order \in Injection(1..n, S)
  BY <1>3, <1>4 DEF Injection, IsInjective
<1>6. Cardinality(1..n) = n
  BY FS_Interval
<1>7. order \in Surjection(1..n, S)
  BY <1>2, <1>5, <1>6, FS_Injection
<1>8. \A x \in S : \E i \in 1..n : order[i] = x
  BY <1>7 DEF Surjection
<1>9. ToSet(order) = S
  BY <1>3, <1>8 DEF ToSet
<1>10. order \in Seq(S) /\ Len(order) = n
  BY <1>3
<1> QED
  BY <1>2, <1>3, <1>8, <1>9, <1>10

LEMMA AscendingProperties ==
  ASSUME NEW lo \in Int, NEW hi \in Int, NEW S \in SUBSET (lo..hi)
  PROVE  /\ Cardinality(S) \in Nat
         /\ Ascending(S) \in Seq(S) /\ Len(Ascending(S)) = Cardinality(S)
         /\ Increasing(Ascending(S))
         /\ \A x \in S : \E i \in DOMAIN Ascending(S) : Ascending(S)[i] = x
         /\ ToSet(Ascending(S)) = S
<1>1. IsFiniteSet(S) /\ S \in SUBSET Int
  <2>1. IsFiniteSet(lo..hi)
    BY FS_Interval
  <2>2. IsFiniteSet(S)
    BY <2>1, FS_Subset
  <2>3. S \in SUBSET Int
    OBVIOUS
  <2> QED
    BY <2>2, <2>3
<1>2. Ascending(S) \in [1..Cardinality(S) -> S] /\ Increasing(Ascending(S))
  BY AscendingExists DEF Ascending, Increasing
<1> QED
  BY <1>1, <1>2, IncreasingCovers

(* Two enumerations in ascending order that have the same numbers are one. *)
LEMMA SameOrder ==
  ASSUME NEW n \in Nat, NEW f \in [1..n -> Int], NEW g \in [1..n -> Int],
         Increasing(f), Increasing(g),
         \A i \in 1..n : \E j \in 1..n : f[i] = g[j],
         \A i \in 1..n : \E j \in 1..n : g[i] = f[j]
  PROVE  f = g
<1> DEFINE Good == {k \in Nat : \A i \in 1..n : i <= k => f[i] = g[i]}
<1>1. ASSUME NEW k \in Nat, k \in Good, NEW i \in 1..n, i = k + 1
      PROVE  f[i] = g[i]
  <2>1. \A j \in 1..n : j < i => f[j] = g[j]
    BY <1>1
  <2>2. PICK a \in 1..n : f[i] = g[a]
    OBVIOUS
  <2>3. PICK b \in 1..n : g[i] = f[b]
    OBVIOUS
  <2>4. /\ f[i] \in Int /\ g[i] \in Int /\ f[a] \in Int /\ f[b] \in Int
        /\ g[a] \in Int /\ g[b] \in Int
    OBVIOUS
  <2>5. /\ \A p, q \in 1..n : p < q => f[p] < f[q]
        /\ \A p, q \in 1..n : p < q => g[p] < g[q]
    BY DEF Increasing
  <2>6. ~ (a < i)
    BY <2>1, <2>2, <2>4, <2>5
  <2>7. ~ (b < i)
    BY <2>1, <2>3, <2>4, <2>5
  <2>8. (a = i \/ i < a) /\ (b = i \/ i < b)
    BY <2>6, <2>7
  <2>9. (g[a] = g[i] \/ g[i] < g[a]) /\ (f[b] = f[i] \/ f[i] < f[b])
    BY <2>5, <2>8
  <2>10. (f[i] = g[i] \/ g[i] < f[i]) /\ (g[i] = f[i] \/ f[i] < g[i])
    BY <2>2, <2>3, <2>9, Zenon
  <2>11. PICK x \in Int : x = f[i]
    BY <2>4
  <2>12. PICK y \in Int : y = g[i]
    BY <2>4
  <2>13. (x = y \/ y < x) /\ (y = x \/ x < y)
    BY <2>10, <2>11, <2>12, Zenon
  <2>14. x = y
    BY <2>13
  <2> QED
    BY <2>11, <2>12, <2>14
<1>2. \A k \in Nat : k \in Good
  <2>1. 0 \in Good
    OBVIOUS
  <2>2. ASSUME NEW k \in Nat, k \in Good PROVE k + 1 \in Good
    <3>1. ASSUME NEW i \in 1..n, i <= k + 1 PROVE f[i] = g[i]
      <4>1. CASE i <= k
        BY <2>2, <4>1
      <4>2. CASE i = k + 1
        BY <1>1, <2>2, <4>2
      <4> QED
        BY <3>1, <4>1, <4>2
    <3> QED
      BY <3>1
  <2> HIDE DEF Good
  <2> QED
    BY <2>1, <2>2, NatByInduction
<1>3. n \in Good
  BY <1>2
<1>4. \A i \in 1..n : f[i] = g[i]
  BY <1>3
<1> QED
  BY <1>4

(* An enumeration in ascending order is the one that Ascending chooses.    *)
LEMMA AscendingUnique ==
  ASSUME NEW lo \in Int, NEW hi \in Int, NEW S \in SUBSET (lo..hi),
         NEW n \in Nat, NEW order \in [1..n -> S], Increasing(order),
         \A x \in S : \E i \in 1..n : order[i] = x
  PROVE  Ascending(S) = order /\ Cardinality(S) = n
<1>0. S \subseteq Int
  OBVIOUS
<1>1. Cardinality(S) = n
  <2>1. ASSUME NEW i \in 1..n, NEW j \in 1..n, order[i] = order[j] PROVE i = j
    <3>1. order[i] \in Int /\ order[j] \in Int
      BY <1>0
    <3>2. /\ i < j => order[i] < order[j]
          /\ j < i => order[j] < order[i]
      BY DEF Increasing
    <3> QED
      BY <2>1, <3>1, <3>2
  <2>2. order \in Bijection(1..n, S)
    BY <2>1, Zenon DEF Bijection, Injection, IsInjective, Surjection
  <2> QED
    BY <2>2, FS_CountingElements DEF ExistsBijection
<1>2. /\ Ascending(S) \in Seq(S) /\ Len(Ascending(S)) = n
      /\ Increasing(Ascending(S))
      /\ \A x \in S : \E i \in DOMAIN Ascending(S) : Ascending(S)[i] = x
  <2> HIDE DEF Ascending
  <2>1. /\ Ascending(S) \in Seq(S) /\ Len(Ascending(S)) = Cardinality(S)
        /\ Increasing(Ascending(S))
        /\ \A x \in S : \E i \in DOMAIN Ascending(S) : Ascending(S)[i] = x
    BY AscendingProperties, ZenonT(40)
  <2> QED
    BY <1>1, <2>1
<1> DEFINE other == Ascending(S)
<1> HIDE DEF other
<1>3. other \in [1..n -> S] /\ DOMAIN other = 1..n
  BY <1>2, LenProperties DEF other
<1>4. \A i \in 1..n : \E j \in 1..n : other[i] = order[j]
  BY <1>3
<1>5. \A i \in 1..n : \E j \in 1..n : order[i] = other[j]
  BY <1>2, <1>3 DEF other
<1>6. other \in [1..n -> Int] /\ order \in [1..n -> Int] /\ Increasing(other)
  BY <1>0, <1>2, <1>3 DEF other
<1>7. other = order
  BY <1>4, <1>5, <1>6, SameOrder, Zenon
<1> QED
  BY <1>1, <1>7 DEF other

(* The concatenation of the first i pieces, as FlattenSeq makes it.        *)
IsFlattening(f, seqs) ==
  f = [i \in 1..Len(seqs) |-> IF i = 1 THEN seqs[i] ELSE f[i - 1] \o seqs[i]]

LEMMA FlatteningExists ==
  ASSUME NEW seqs, Len(seqs) \in Nat
  PROVE  \E f : IsFlattening(f, seqs)
<1> DEFINE Upto(f, n) ==
             f = [i \in 1..n |-> IF i = 1 THEN seqs[i] ELSE f[i - 1] \o seqs[i]]
           Good == {n \in Nat : \E f : Upto(f, n)}
<1>1. 0 \in Good
  <2>1. Upto([i \in 1..0 |-> i], 0)
    OBVIOUS
  <2> QED
    BY <2>1
<1>2. ASSUME NEW n \in Nat, n \in Good PROVE n + 1 \in Good
  <2>1. PICK f : Upto(f, n)
    BY <1>2
  <2> DEFINE g == [i \in 1..(n + 1) |->
                     IF i = n + 1
                     THEN IF i = 1 THEN seqs[i] ELSE f[i - 1] \o seqs[i]
                     ELSE f[i]]
             h == [i \in 1..(n + 1) |->
                     IF i = 1 THEN seqs[i] ELSE g[i - 1] \o seqs[i]]
  <2>2. ASSUME NEW i \in 1..(n + 1) PROVE g[i] = h[i]
    <3>1. CASE i = 1 /\ i = n + 1
      BY <3>1
    <3>2. CASE i = 1 /\ i # n + 1
      <4>1. i \in 1..n
        BY <3>2
      <4> QED
        BY <2>1, <3>2, <4>1
    <3>3. CASE i # 1
      <4>1. i - 1 \in 1..n /\ i - 1 # n + 1 /\ i - 1 \in 1..(n + 1)
        BY <3>3
      <4>2. g[i - 1] = f[i - 1]
        BY <4>1
      <4>3. CASE i = n + 1
        BY <3>3, <4>2, <4>3
      <4>4. CASE i # n + 1
        <5>1. i \in 1..n
          BY <4>4
        <5>2. f[i] = f[i - 1] \o seqs[i]
          BY <2>1, <3>3, <5>1
        <5> QED
          BY <3>3, <4>2, <4>4, <5>2
      <4> QED
        BY <4>3, <4>4
    <3> QED
      BY <3>1, <3>2, <3>3
  <2>3. g = h
    BY <2>2
  <2> HIDE DEF g
  <2>4. Upto(g, n + 1)
    BY <2>3
  <2> HIDE DEF Upto
  <2>5. n + 1 \in Nat
    OBVIOUS
  <2> QED
    BY <2>4, <2>5
<1> HIDE DEF Good
<1>3. Len(seqs) \in Good
  BY <1>1, <1>2, NatByInduction
<1> QED
  BY <1>3 DEF Good, IsFlattening

(* Where the pieces are in their concatenation: the i-th one ends at off[i].*)
Offsets(off, seqs) ==
  /\ off \in [0..Len(seqs) -> Nat] /\ off[0] = 0
  /\ \A i \in 1..Len(seqs) : off[i] = off[i - 1] + Len(seqs[i])

Pieces(flat, off, seqs) ==
  /\ Len(flat) = off[Len(seqs)]
  /\ \A i \in 1..Len(seqs) : \A j \in 1..Len(seqs[i]) :
       flat[off[i - 1] + j] = seqs[i][j]

LEMMA SumOf ==
  ASSUME NEW a \in Nat, NEW b \in Nat
  PROVE  /\ a + b \in Nat
         /\ \A i \in 1..a : i \in 1..(a + b)
         /\ \A i \in 1..b : a + i \in 1..(a + b)
  OBVIOUS

LEMMA ConcatParts ==
  ASSUME NEW B, NEW s \in Seq(B), NEW t \in Seq(B), NEW r, r = s \o t
  PROVE  /\ r \in Seq(B) /\ Len(r) \in Nat
         /\ Len(r) = Len(s) + Len(t)
         /\ \A i \in 1..Len(s) : i \in 1..Len(r) /\ r[i] = s[i]
         /\ \A i \in 1..Len(t) :
              Len(s) + i \in 1..Len(r) /\ r[Len(s) + i] = t[i]
<1>1. Len(s) \in Nat /\ Len(t) \in Nat
  BY LenProperties
<1>2. /\ s \o t \in Seq(B) /\ Len(s \o t) = Len(s) + Len(t)
      /\ \A i \in 1..Len(s) : (s \o t)[i] = s[i]
      /\ \A i \in 1..Len(t) : (s \o t)[Len(s) + i] = t[i]
  OBVIOUS
<1>3. /\ r \in Seq(B) /\ Len(r) = Len(s) + Len(t)
      /\ \A i \in 1..Len(s) : r[i] = s[i]
      /\ \A i \in 1..Len(t) : r[Len(s) + i] = t[i]
  BY <1>2, Zenon
<1> QED
  BY <1>1, <1>3, SumOf

LEMMA FlattenProperties ==
  ASSUME NEW B, NEW seqs \in Seq(Seq(B))
  PROVE  /\ FlattenSeq(seqs) \in Seq(B)
         /\ \E off : Offsets(off, seqs) /\ Pieces(FlattenSeq(seqs), off, seqs)
<1> DEFINE n == Len(seqs)
<1>1. n \in Nat /\ \A i \in 1..n : seqs[i] \in Seq(B) /\ Len(seqs[i]) \in Nat
  BY LenProperties, ElementOfSeq
<1>2. CASE n = 0
  <2>1. FlattenSeq(seqs) = <<>> /\ seqs = <<>>
    BY <1>2, EmptySeq DEF FlattenSeq
  <2>2. Offsets([i \in 0..0 |-> 0], seqs)
    BY <1>2 DEF Offsets
  <2>3. Pieces(FlattenSeq(seqs), [i \in 0..0 |-> 0], seqs)
    BY <1>2, <2>1 DEF Pieces
  <2> QED
    BY <2>1, <2>2, <2>3
<1>3. CASE n # 0
  <2>1. PICK f : IsFlattening(f, seqs) /\ FlattenSeq(seqs) = f[n]
    BY <1>1, <1>3, FlatteningExists DEF FlattenSeq, IsFlattening
  <2>2. f[1] = seqs[1]
        /\ \A i \in 1..n : i + 1 \in 1..n => f[i + 1] = f[i] \o seqs[i + 1]
    <3>1. \A i \in 1..n : f[i] = IF i = 1 THEN seqs[i] ELSE f[i - 1] \o seqs[i]
      BY <2>1 DEF IsFlattening
    <3> HIDE DEF n
    <3>2. 1 \in 1..n
      BY <1>1, <1>3
    <3>3. \A i \in 1..n : i + 1 # 1 /\ (i + 1) - 1 = i
      BY <1>1
    <3> QED
      BY <3>1, <3>2, <3>3
  <2> HIDE DEF n
  <2> DEFINE off == [i \in 0..n |-> IF i = 0 THEN 0 ELSE Len(f[i])]
             Good == {k \in Nat : k + 1 \in 1..n =>
                        /\ f[k + 1] \in Seq(B) /\ Len(f[k + 1]) \in Nat
                        /\ off[k + 1] = off[k] + Len(seqs[k + 1])
                        /\ \A i \in 1..(k + 1) : \A j \in 1..Len(seqs[i]) :
                             /\ off[i - 1] + j \in 1..Len(f[k + 1])
                             /\ f[k + 1][off[i - 1] + j] = seqs[i][j]}
  <2>3. 0 \in Good
    <3>1. 1 \in 1..n /\ off[1] = Len(f[1]) /\ off[0] = 0
      BY <1>1, <1>3
    <3> HIDE DEF off
    <3> QED
      BY <1>1, <2>2, <3>1
  <2>4. ASSUME NEW k \in Nat, k \in Good PROVE k + 1 \in Good
    <3>1. SUFFICES ASSUME (k + 1) + 1 \in 1..n
          PROVE  /\ f[(k + 1) + 1] \in Seq(B) /\ Len(f[(k + 1) + 1]) \in Nat
                 /\ off[(k + 1) + 1] = off[k + 1] + Len(seqs[(k + 1) + 1])
                 /\ \A i \in 1..((k + 1) + 1) : \A j \in 1..Len(seqs[i]) :
                      /\ off[i - 1] + j \in 1..Len(f[(k + 1) + 1])
                      /\ f[(k + 1) + 1][off[i - 1] + j] = seqs[i][j]
      BY <2>4
    <3> DEFINE m == k + 1
    <3>2. m \in 1..n /\ m + 1 \in 1..n /\ m \in Nat
      BY <1>1, <3>1
    <3>3. /\ f[m] \in Seq(B) /\ Len(f[m]) \in Nat
          /\ \A i \in 1..m : \A j \in 1..Len(seqs[i]) :
               /\ off[i - 1] + j \in 1..Len(f[m])
               /\ f[m][off[i - 1] + j] = seqs[i][j]
      BY <2>4, <3>2
    <3>4. off[m] = Len(f[m]) /\ off[m + 1] = Len(f[m + 1])
      BY <1>1, <3>2
    <3> HIDE DEF m, off, Good
    <3>5. seqs[m + 1] \in Seq(B) /\ Len(seqs[m + 1]) \in Nat
      BY <1>1, <3>2
    <3>6. f[m + 1] = f[m] \o seqs[m + 1]
      BY <2>2, <3>2
    <3>7. /\ f[m + 1] \in Seq(B) /\ Len(f[m + 1]) \in Nat
          /\ Len(f[m + 1]) = Len(f[m]) + Len(seqs[m + 1])
          /\ \A i \in 1..Len(f[m]) :
               i \in 1..Len(f[m + 1]) /\ f[m + 1][i] = f[m][i]
          /\ \A i \in 1..Len(seqs[m + 1]) :
               /\ Len(f[m]) + i \in 1..Len(f[m + 1])
               /\ f[m + 1][Len(f[m]) + i] = seqs[m + 1][i]
      <4> DEFINE s == f[m]
                 t == seqs[m + 1]
                 r == f[m + 1]
      <4>1. s \in Seq(B) /\ t \in Seq(B) /\ r = s \o t
        BY <3>3, <3>5, <3>6
      <4> HIDE DEF s, t, r
      <4>2. /\ r \in Seq(B) /\ Len(r) \in Nat
            /\ Len(r) = Len(s) + Len(t)
        BY <4>1, ConcatParts, SMT
      <4>3. ASSUME NEW i \in 1..Len(s) PROVE i \in 1..Len(r) /\ r[i] = s[i]
        BY <4>1, ConcatParts, SMT
      <4>4. ASSUME NEW i \in 1..Len(t)
            PROVE  Len(s) + i \in 1..Len(r) /\ r[Len(s) + i] = t[i]
        BY <4>1, ConcatParts, SMT
      <4> QED
        BY <4>2, <4>3, <4>4 DEF s, t, r
    <3>8. ASSUME NEW i \in 1..(m + 1), NEW j \in 1..Len(seqs[i])
          PROVE  /\ off[i - 1] + j \in 1..Len(f[m + 1])
                 /\ f[m + 1][off[i - 1] + j] = seqs[i][j]
      <4>1. CASE i \in 1..m
        <5>1. off[i - 1] + j \in 1..Len(f[m])
              /\ f[m][off[i - 1] + j] = seqs[i][j]
          BY <3>3, <4>1
        <5> QED
          BY <3>7, <5>1
      <4>2. CASE i = m + 1
        <5>1. off[i - 1] = Len(f[m])
          BY <3>2, <3>4, <4>2
        <5> QED
          BY <3>7, <4>2, <5>1, Zenon
      <4> QED
        BY <3>2, <4>1, <4>2
    <3>9. off[m + 1] = off[m] + Len(seqs[m + 1])
      BY <3>4, <3>7
    <3> QED
      BY <3>7, <3>8, <3>9 DEF m
  <2> HIDE DEF Good
  <2>5. \A k \in Nat : k \in Good
    BY <2>3, <2>4, NatByInduction
  <2>6. ASSUME NEW i \in 1..n
        PROVE  /\ f[i] \in Seq(B) /\ Len(f[i]) \in Nat
               /\ off[i] = off[i - 1] + Len(seqs[i])
    <3>1. i - 1 \in Good /\ (i - 1) + 1 = i
      BY <1>1, <2>5
    <3> HIDE DEF off
    <3> QED
      BY <3>1 DEF Good
  <2>7. \A i \in 1..n : \A j \in 1..Len(seqs[i]) :
          f[n][off[i - 1] + j] = seqs[i][j]
    <3>1. n - 1 \in Good /\ (n - 1) + 1 = n
      BY <1>1, <1>3, <2>5
    <3> HIDE DEF off
    <3> QED
      BY <1>1, <1>3, <3>1 DEF Good
  <2>8. off \in [0..n -> Nat] /\ off[0] = 0 /\ off[n] = Len(f[n])
    BY <1>1, <1>3, <2>6
  <2> HIDE DEF off
  <2>9. Offsets(off, seqs)
    BY <2>6, <2>8 DEF Offsets, n
  <2>10. Pieces(f[n], off, seqs)
    BY <2>7, <2>8 DEF Pieces, n
  <2>11. f[n] \in Seq(B)
    BY <1>1, <1>3, <2>6
  <2> QED
    BY <2>1, <2>9, <2>10, <2>11
<1> QED
  BY <1>2, <1>3
-----------------------------------------------------------------------------
(* The numbers of so many bits with a sign. *)
Int24 == {v \in Int : -8388608 <= v /\ v <= 8388607}
Int32 == {v \in Int : -2147483648 <= v /\ v <= 2147483647}

(* A number is its lowest byte and what is above it. *)
LEMMA ByteByByte ==
  ASSUME NEW v \in Int
  PROVE  /\ v \div 256 \in Int /\ v % 256 \in 0..255
         /\ v = 256 * (v \div 256) + (v % 256)
BY SMT

LEMMA DivideTwice ==
  ASSUME NEW v \in Int
  PROVE  /\ v \div 65536 = (v \div 256) \div 256
         /\ v \div 16777216 = (v \div 65536) \div 256
BY SMT

(* bytesToInt24 gives back what int24ToBytes was given when, and only      *)
(* when, it is a number of 24 bits with a sign (int24.go:5-19): the ids    *)
(* of posts, negated, down to -8388608.  Any other comes out as a          *)
(* different post.                                                         *)
THEOREM Int24RoundTrip ==
  ASSUME NEW v \in Int
  PROVE  BytesToInt24(Int24ToBytes(v)) = v <=> v \in Int24
<1> DEFINE high == v \div 65536
           middle == v \div 256
<1>1. /\ middle \in Int /\ v % 256 \in 0..255
      /\ v = 256 * middle + (v % 256)
  BY SMT, ByteByByte
<1>2. /\ high \in Int /\ middle % 256 \in 0..255
      /\ middle = 256 * high + (middle % 256)
  BY SMT, <1>1, ByteByByte, DivideTwice
<1>3. /\ high \div 256 \in Int /\ high % 256 \in 0..255
      /\ high = 256 * (high \div 256) + (high % 256)
  BY SMT, <1>2, ByteByByte
<1>4. BytesToInt24(Int24ToBytes(v)) =
        65536 * (high % 256) + 256 * (middle % 256) + (v % 256)
          - (IF high % 256 >= 128 THEN 16777216 ELSE 0)
  BY SMT, <1>1, <1>2, <1>3 DEF BytesToInt24, Int24ToBytes
<1> HIDE DEF high, middle
<1> QED
  BY SMT, <1>1, <1>2, <1>3, <1>4 DEF Int24

(* The iterator of large lists sees the numbers that Encode wrote, all of  *)
(* int32 (codecs.go:86, int32.go:19).                                      *)
THEOREM Int32RoundTrip ==
  ASSUME NEW v \in Int32
  PROVE  BytesToInt32(Int32ToBytes(v)) = v
<1> DEFINE top == v \div 16777216
           high == v \div 65536
           middle == v \div 256
<1>0. v \in Int
  BY SMT DEF Int32
<1>1. /\ middle \in Int /\ v % 256 \in 0..255
      /\ v = 256 * middle + (v % 256)
  BY SMT, <1>0, ByteByByte
<1>2. /\ high \in Int /\ middle % 256 \in 0..255
      /\ middle = 256 * high + (middle % 256)
  BY SMT, <1>0, <1>1, ByteByByte, DivideTwice
<1>3. /\ top \in Int /\ high % 256 \in 0..255
      /\ high = 256 * top + (high % 256)
  BY SMT, <1>0, <1>2, ByteByByte, DivideTwice
<1>4. /\ top \div 256 \in Int /\ top % 256 \in 0..255
      /\ top = 256 * (top \div 256) + (top % 256)
  BY SMT, <1>3, ByteByByte
<1>5. BytesToInt32(Int32ToBytes(v)) =
        16777216 * (IF top % 256 >= 128 THEN (top % 256) - 256 ELSE top % 256)
          + 65536 * (high % 256) + 256 * (middle % 256) + (v % 256)
  BY SMT, <1>1, <1>2, <1>3, <1>4 DEF BytesToInt32, Int32ToBytes
<1> HIDE DEF top, high, middle
<1> QED
  BY SMT, <1>1, <1>2, <1>3, <1>4, <1>5 DEF Int32
-----------------------------------------------------------------------------
(* The number without a sign that PutVarint writes. *)
Unsigned(x) == IF x >= 0 THEN 2 * x ELSE -(2 * x) - 1

SevenBits(ux, i) == (ux \div Weight[i]) % 128

LEMMA WeightValues ==
  /\ Weight[1] = 1 /\ Weight[2] = 128 /\ Weight[3] = 16384
  /\ Weight[4] = 2097152 /\ Weight[5] = 268435456
BY DEF Weight

LEMMA DivideOften ==
  ASSUME NEW u \in Nat
  PROVE  /\ u \div 16384 = (u \div 128) \div 128
         /\ u \div 2097152 = (u \div 16384) \div 128
         /\ u \div 268435456 = (u \div 2097152) \div 128
BY SMT

LEMMA SevenByEight ==
  ASSUME NEW u \in Nat
  PROVE  /\ u \div 128 \in Nat /\ u % 128 \in 0..127
         /\ u = 128 * (u \div 128) + (u % 128)
BY SMT

LEMMA UnsignedBack ==
  ASSUME NEW x \in Int
  PROVE  /\ Unsigned(x) \in Nat
         /\ x = IF Unsigned(x) % 2 = 1 THEN -(Unsigned(x) \div 2) - 1
                ELSE Unsigned(x) \div 2
BY SMT DEF Unsigned

LEMMA VarintGroups ==
  ASSUME NEW u \in Nat, u < 4294967296
  PROVE  /\ \A i \in 1..5 : SevenBits(u, i) \in 0..127
         /\ u = SevenBits(u, 1) + SevenBits(u, 2) * 128
                + SevenBits(u, 3) * 16384 + SevenBits(u, 4) * 2097152
                + SevenBits(u, 5) * 268435456
         /\ u < 128 => SevenBits(u, 2) = 0
         /\ u < 16384 => SevenBits(u, 3) = 0
         /\ u < 2097152 => SevenBits(u, 4) = 0
         /\ u < 268435456 => SevenBits(u, 5) = 0
         /\ SevenBits(u, 5) > 1 <=> u >= 536870912
<1> DEFINE a == u \div 128
           b == u \div 16384
           c == u \div 2097152
           d == u \div 268435456
<1>1. a \in Nat /\ u % 128 \in 0..127 /\ u = 128 * a + (u % 128)
  BY SMT, SevenByEight
<1>2. b \in Nat /\ a % 128 \in 0..127 /\ a = 128 * b + (a % 128)
  BY SMT, <1>1, SevenByEight, DivideOften
<1>3. c \in Nat /\ b % 128 \in 0..127 /\ b = 128 * c + (b % 128)
  BY SMT, <1>2, SevenByEight, DivideOften
<1>4. d \in Nat /\ c % 128 \in 0..127 /\ c = 128 * d + (c % 128)
  BY SMT, <1>3, SevenByEight, DivideOften
<1>5. /\ SevenBits(u, 1) = u % 128 /\ SevenBits(u, 2) = a % 128
      /\ SevenBits(u, 3) = b % 128 /\ SevenBits(u, 4) = c % 128
      /\ SevenBits(u, 5) = d % 128
  <2>1. u \div 1 = u
    OBVIOUS
  <2> QED
    BY <2>1, WeightValues DEF SevenBits
<1> HIDE DEF a, b, c, d
<1>6. d < 16
  BY <1>1, <1>2, <1>3, <1>4
<1>7. d % 128 = d
  BY <1>4, <1>6
<1>8. \A i \in 1..5 : SevenBits(u, i) \in 0..127
  <2>1. \A i \in 1..5 : i = 1 \/ i = 2 \/ i = 3 \/ i = 4 \/ i = 5
    OBVIOUS
  <2>2. d % 128 \in 0..127
    BY <1>4, <1>6, <1>7
  <2> QED
    BY <1>1, <1>2, <1>3, <1>4, <1>5, <2>1, <2>2
<1> DEFINE g1 == u % 128
           g2 == a % 128
           g3 == b % 128
           g4 == c % 128
<1>9. /\ u = g1 + g2 * 128 + g3 * 16384 + g4 * 2097152 + d * 268435456
      /\ u < 128 => g2 = 0
      /\ u < 16384 => g3 = 0
      /\ u < 2097152 => g4 = 0
      /\ u < 268435456 => d = 0
      /\ d > 1 <=> u >= 536870912
  <2> HIDE DEF g1, g2, g3, g4
  <2>1. g1 \in 0..127 /\ g2 \in 0..127 /\ g3 \in 0..127 /\ g4 \in 0..127
    BY <1>1, <1>2, <1>3, <1>4 DEF g1, g2, g3, g4
  <2>2. u = 128 * a + g1 /\ a = 128 * b + g2 /\ b = 128 * c + g3
        /\ c = 128 * d + g4
    BY <1>1, <1>2, <1>3, <1>4 DEF g1, g2, g3, g4
  <2> QED
    BY <1>1, <1>2, <1>3, <1>4, <2>1, <2>2
<1> QED
  BY <1>5, <1>7, <1>8, <1>9

Value(a, b, c, d, e) ==
  a + b * 128 + c * 16384 + d * 2097152 + e * 268435456

(* The groups of seven bits of a number, the lowest first, and how many of *)
(* them PutVarint writes.                                                  *)
Groups(x, n, g) ==
  /\ n \in 1..5 /\ g \in [1..5 -> 0..127]
  /\ \A i \in 1..5 : i > n => g[i] = 0
  /\ Unsigned(x) = Value(g[1], g[2], g[3], g[4], g[5])

Marked(n, g) == [i \in 1..n |-> g[i] + (IF i < n THEN 128 ELSE 0)]

LEMMA MarkedShape ==
  ASSUME NEW n \in 1..5, NEW g \in [1..5 -> 0..127]
  PROVE  /\ Marked(n, g) \in Seq(0..255) /\ Len(Marked(n, g)) = n
         /\ \A i \in 1..n : /\ Marked(n, g)[i] < 128 <=> i = n
                            /\ Marked(n, g)[i] % 128 = g[i]
                            /\ Marked(n, g)[i] \in 0..255
<1>1. ASSUME NEW i \in 1..n
      PROVE  /\ Marked(n, g)[i] < 128 <=> i = n
             /\ Marked(n, g)[i] % 128 = g[i]
             /\ Marked(n, g)[i] \in 0..255
  <2>1. i \in 1..5 /\ i \in Int /\ n \in Int /\ i <= n
    OBVIOUS
  <2>2. PICK m \in 0..127 : m = g[i]
    BY <2>1
  <2>3. Marked(n, g)[i] = m + (IF i < n THEN 128 ELSE 0)
    BY <2>2 DEF Marked
  <2> QED
    BY <2>1, <2>2, <2>3
<1>2. Marked(n, g) \in [1..n -> 0..255]
  <2>1. ASSUME NEW i \in 1..n PROVE g[i] + (IF i < n THEN 128 ELSE 0) \in 0..255
    <3>1. i \in 1..5 /\ i \in Int /\ n \in Int
      OBVIOUS
    <3>2. PICK m \in 0..127 : m = g[i]
      BY <3>1
    <3>3. m + (IF i < n THEN 128 ELSE 0) \in 0..255
      BY <3>1
    <3> QED
      BY <3>2, <3>3
  <2> QED
    BY <2>1, Zenon DEF Marked
<1>3. n \in Nat
  OBVIOUS
<1>4. Marked(n, g) \in Seq(0..255) /\ Len(Marked(n, g)) = n
  <2> DEFINE f == Marked(n, g)
  <2>1. f \in [1..n -> 0..255]
    BY <1>2
  <2> HIDE DEF f
  <2>2. f \in Seq(0..255) /\ Len(f) = n
    BY <1>3, <2>1
  <2> QED
    BY <2>2 DEF f
<1> QED
  BY <1>1, <1>4, Zenon

LEMMA VarintBytes ==
  ASSUME NEW x \in Int32
  PROVE  \E n, g : Groups(x, n, g) /\ PutVarint(x) = Marked(n, g)
<1> DEFINE u == Unsigned(x)
           Fits(n) == (n = 5 \/ u < Weight[n + 1]) /\ (n = 1 \/ u >= Weight[n])
           n == CHOOSE m \in 1..5 : Fits(m)
           g == [i \in 1..5 |-> SevenBits(u, i)]
<1>1. x \in Int /\ u \in Nat /\ u < 4294967296
  BY UnsignedBack DEF Int32, Unsigned
<1>2. \E m \in 1..5 : Fits(m)
  <2> HIDE DEF u
  <2>1. 1 \in 1..5 /\ 2 \in 1..5 /\ 3 \in 1..5 /\ 4 \in 1..5 /\ 5 \in 1..5
    OBVIOUS
  <2>2. u < 128 => Fits(1)
    BY WeightValues
  <2>3. u >= 128 /\ u < 16384 => Fits(2)
    BY WeightValues
  <2>4. u >= 16384 /\ u < 2097152 => Fits(3)
    BY WeightValues
  <2>5. u >= 2097152 /\ u < 268435456 => Fits(4)
    BY WeightValues
  <2>6. u >= 268435456 => Fits(5)
    BY WeightValues
  <2> HIDE DEF Fits
  <2> QED
    BY <1>1, <2>1, <2>2, <2>3, <2>4, <2>5, <2>6
<1>3. n \in 1..5 /\ Fits(n)
  BY <1>2
<1>4. PutVarint(x) =
        [i \in 1..n |-> SevenBits(u, i) + (IF i < n THEN 128 ELSE 0)]
  BY DEF PutVarint, Unsigned, SevenBits
<1> HIDE DEF u, n
<1>5. \A i \in 1..n : i \in 1..5
  BY <1>3
<1>6. PutVarint(x) = Marked(n, g)
  BY <1>4, <1>5 DEF Marked
<1>7. \A i \in 1..5 : SevenBits(u, i) \in 0..127
  BY <1>1, VarintGroups
<1>8. g \in [1..5 -> 0..127] /\ \A i \in 1..5 : g[i] = SevenBits(u, i)
  BY <1>7
<1>9. ASSUME NEW i \in 1..5, i > n PROVE SevenBits(u, i) = 0
  <2>1. n \in 1..5 /\ n # 5 /\ u < Weight[n + 1]
    BY <1>3, <1>9
  <2>2. \/ n = 1 /\ u < 128
        \/ n = 2 /\ u < 16384
        \/ n = 3 /\ u < 2097152
        \/ n = 4 /\ u < 268435456
    <3>1. n = 1 \/ n = 2 \/ n = 3 \/ n = 4
      BY <2>1
    <3>2. 1 + 1 = 2 /\ 2 + 1 = 3 /\ 3 + 1 = 4 /\ 4 + 1 = 5
      OBVIOUS
    <3>3. u < Weight[n + 1]
      BY <2>1
    <3>4. /\ n = 1 => Weight[n + 1] = Weight[2]
          /\ n = 2 => Weight[n + 1] = Weight[3]
          /\ n = 3 => Weight[n + 1] = Weight[4]
          /\ n = 4 => Weight[n + 1] = Weight[5]
      BY <3>2, Zenon
    <3> QED
      BY <1>1, <3>1, <3>3, <3>4, WeightValues, SMT
  <2>3. i = 2 \/ i = 3 \/ i = 4 \/ i = 5
    BY SMT, <1>9, <2>1
  <2>4. /\ u < 128 => SevenBits(u, 2) = 0
        /\ u < 16384 => SevenBits(u, 3) = 0
        /\ u < 2097152 => SevenBits(u, 4) = 0
        /\ u < 268435456 => SevenBits(u, 5) = 0
    BY SMT, <1>1, VarintGroups
  <2> QED
    BY SMT, <1>1, <1>9, <2>2, <2>3, <2>4
<1>10. u = Value(g[1], g[2], g[3], g[4], g[5])
  <2>1. 1 \in 1..5 /\ 2 \in 1..5 /\ 3 \in 1..5 /\ 4 \in 1..5 /\ 5 \in 1..5
    OBVIOUS
  <2> HIDE DEF g
  <2> QED
    BY <1>1, <1>8, <2>1, VarintGroups DEF Value
<1> HIDE DEF g
<1>11. Groups(x, n, g)
  BY <1>3, <1>8, <1>9, <1>10 DEF Groups, u
<1> QED
  BY <1>6, <1>11

LEMMA SumOfGroups ==
  ASSUME NEW a \in 0..127, NEW b \in 0..127, NEW c \in 0..127,
         NEW d \in 0..127, NEW e \in 0..127
  PROVE  e > 1 <=> Value(a, b, c, d, e) >= 2 * Weight[5]
BY SMT, WeightValues DEF Value

(* What PutVarint writes: one to five bytes, of which only the last one is *)
(* below 128.                                                              *)
LEMMA VarintShape ==
  ASSUME NEW x \in Int32
  PROVE  /\ PutVarint(x) \in Seq(0..255) /\ Len(PutVarint(x)) \in 1..5
         /\ \A i \in 1..Len(PutVarint(x)) :
              PutVarint(x)[i] < 128 <=> i = Len(PutVarint(x))
<1>1. PICK n, g : Groups(x, n, g) /\ PutVarint(x) = Marked(n, g)
  BY VarintBytes
<1>2. n \in 1..5 /\ g \in [1..5 -> 0..127]
  BY <1>1 DEF Groups
<1>3. /\ Marked(n, g) \in Seq(0..255) /\ Len(Marked(n, g)) = n
      /\ \A i \in 1..n : Marked(n, g)[i] < 128 <=> i = n
  BY <1>2, MarkedShape, ZenonT(40)
<1> QED
  BY <1>1, <1>2, <1>3, Zenon

Begins(buf, bytes) ==
  /\ Len(buf) \in Nat /\ Len(bytes) <= Len(buf)
  /\ \A i \in 1..Len(bytes) : buf[i] = bytes[i]

LEMMA FirstSmallByte ==
  ASSUME NEW n \in 1..5, NEW buf, Len(buf) \in Nat, n <= Len(buf),
         \A i \in 1..n : buf[i] \in Int /\ (buf[i] < 128 <=> i = n)
  PROVE  /\ {i \in 1..Len(buf) : buf[i] < 128} # {}
         /\ Min({i \in 1..Len(buf) : buf[i] < 128}) = n
<1> DEFINE I == {i \in 1..Len(buf) : buf[i] < 128}
<1>1. n \in I
  OBVIOUS
<1>2. ASSUME NEW i \in I PROVE n <= i
  <2>1. CASE i <= n
    <3>1. i \in 1..n
      BY <2>1
    <3> QED
      BY <3>1
  <2> QED
    BY <2>1
<1>3. Min(I) = n
  <2>1. \A y \in I : y \in Int
    OBVIOUS
  <2> HIDE DEF I
  <2>2. \A m \in I : (\A y \in I : m =< y) => m = n
    BY <1>1, <1>2, <2>1
  <2> QED
    BY <1>1, <1>2, <2>2 DEF Min
<1> QED
  BY <1>1, <1>3

(* fastVarint32 reads back the difference that PutVarint wrote, and says   *)
(* how many bytes it took, when and only when the difference is within     *)
(* 2^28 (iterators.go:133-165): a fifth byte above 1 is taken for an       *)
(* overflow, and the code panics.                                          *)
THEOREM VarintRoundTrip ==
  ASSUME NEW x \in Int32, NEW buf, Begins(buf, PutVarint(x))
  PROVE  FastVarint32(buf) = [value |-> x, n |-> Len(PutVarint(x))]
           <=> -268435456 <= x /\ x < 268435456
<1>1. PICK n, g : Groups(x, n, g) /\ PutVarint(x) = Marked(n, g)
  BY VarintBytes
<1>2. n \in 1..5 /\ g \in [1..5 -> 0..127]
  BY <1>1 DEF Groups
<1>3. /\ Len(PutVarint(x)) = n /\ Len(buf) \in Nat /\ n <= Len(buf)
      /\ \A i \in 1..n : /\ buf[i] \in 0..255
                         /\ buf[i] < 128 <=> i = n
                         /\ buf[i] % 128 = g[i]
  <2>1. /\ Len(Marked(n, g)) = n
        /\ \A i \in 1..n : /\ Marked(n, g)[i] < 128 <=> i = n
                           /\ Marked(n, g)[i] % 128 = g[i]
                           /\ Marked(n, g)[i] \in 0..255
    BY <1>2, MarkedShape, ZenonT(40)
  <2> QED
    BY <1>1, <2>1, ZenonT(40) DEF Begins
<1> DEFINE I == {i \in 1..Len(buf) : buf[i] < 128}
<1>4. I # {} /\ Min(I) = n
  <2>1. ASSUME NEW i \in 1..n
        PROVE  buf[i] \in Int /\ (buf[i] < 128 <=> i = n)
    BY <1>3, SMTT(20)
  <2>2. \A i \in 1..n : buf[i] \in Int /\ (buf[i] < 128 <=> i = n)
    BY <2>1, Zenon
  <2>3. Len(buf) \in Nat /\ n <= Len(buf)
    BY <1>3, Zenon
  <2>4. /\ {i \in 1..Len(buf) : buf[i] < 128} # {}
        /\ Min({i \in 1..Len(buf) : buf[i] < 128}) = n
    BY <1>2, <2>2, <2>3, FirstSmallByte, Zenon
  <2> QED
    BY <2>4, Zenon
<1> DEFINE u == Unsigned(x)
           Group(i) == IF i <= n THEN (buf[i] % 128) * Weight[i] ELSE 0
           sum == Group(1) + Group(2) + Group(3) + Group(4) + Group(5)
<1>5. \A i \in 1..5 : Group(i) = g[i] * Weight[i]
  BY <1>1, <1>2, <1>3, WeightValues DEF Groups
<1>6. sum = u
  <2>1. 1 \in 1..5 /\ 2 \in 1..5 /\ 3 \in 1..5 /\ 4 \in 1..5 /\ 5 \in 1..5
    OBVIOUS
  <2> HIDE DEF Group
  <2> QED
    BY <1>1, <1>5, <2>1, WeightValues DEF Groups, Value
<1>7. FastVarint32(buf) =
        IF n = 5 /\ buf[n] > 1 THEN [value |-> 0, n |-> 0]
        ELSE [value |-> IF sum % 2 = 1 THEN -(sum \div 2) - 1 ELSE sum \div 2,
              n |-> n]
  <2> DEFINE m == IF I # {} THEN Min(I) ELSE 0
             G(i) == IF i <= m THEN (buf[i] % 128) * Weight[i] ELSE 0
             s == G(1) + G(2) + G(3) + G(4) + G(5)
  <2>1. FastVarint32(buf) =
          IF m = 0 \/ m > 5 \/ (m = 5 /\ buf[m] > 1)
          THEN [value |-> 0, n |-> 0]
          ELSE [value |-> IF s % 2 = 1 THEN -(s \div 2) - 1 ELSE s \div 2,
                n |-> m]
    BY SMT DEF FastVarint32, SelectInSeq
  <2>2. m = n /\ n # 0 /\ ~(n > 5)
    BY <1>2, <1>4
  <2> HIDE DEF I, m
  <2> QED
    BY <2>1, <2>2
<1> HIDE DEF sum
<1>8. n = 5 /\ buf[n] > 1 <=> u >= 536870912
  <2>1. PICK h \in 0..127 : h = g[5]
    BY <1>2
  <2>2. n = 5 => buf[n] = h
    <3>1. SUFFICES ASSUME n = 5 PROVE buf[5] = h
      OBVIOUS
    <3>2. 5 \in 1..n
      BY <3>1
    <3>3. buf[5] \in 0..255 /\ buf[5] < 128 /\ buf[5] % 128 = h
      BY <1>3, <2>1, <3>1, <3>2
    <3> QED
      BY <2>1, <3>3
  <2>3. n # 5 => h = 0
    BY <1>1, <1>2, <2>1 DEF Groups
  <2>4. h > 1 <=> u >= 2 * Weight[5]
    <3>1. \A i \in 1..5 : g[i] \in 0..127
      BY <1>2
    <3>2. /\ g[1] \in 0..127 /\ g[2] \in 0..127 /\ g[3] \in 0..127
          /\ g[4] \in 0..127
      BY <3>1
    <3>3. u = Value(g[1], g[2], g[3], g[4], h)
      BY <1>1, <2>1, Zenon DEF Groups
    <3> HIDE DEF u
    <3> QED
      BY <2>1, <3>2, <3>3, SumOfGroups, Zenon
  <2> QED
    BY <1>2, <2>1, <2>2, <2>3, <2>4, WeightValues
<1>9. x \in Int /\ u \in Nat
      /\ (u < 536870912 <=> -268435456 <= x /\ x < 268435456)
      /\ x = IF u % 2 = 1 THEN -(u \div 2) - 1 ELSE u \div 2
  BY UnsignedBack DEF Unsigned, Int32
<1> HIDE DEF u
<1>10. CASE u < 536870912
  BY <1>3, <1>6, <1>7, <1>8, <1>9, <1>10
<1>11. CASE u >= 536870912
  <2>1. FastVarint32(buf) = [value |-> 0, n |-> 0]
    BY <1>7, <1>8, <1>11
  <2> QED
    BY <1>2, <1>3, <1>9, <1>11, <2>1
<1> QED
  BY <1>9, <1>10, <1>11
-----------------------------------------------------------------------------
Byte == 0..255

LEMMA EncodedOneByOne ==
  ASSUME NEW values, NEW piece, Len(values) \in Nat,
         piece \in [1..Len(values) -> Seq(Byte)]
  PROVE  /\ FlattenSeq(piece) \in Seq(Byte)
         /\ \E off : Offsets(off, piece) /\ Pieces(FlattenSeq(piece), off, piece)
         /\ Len(piece) = Len(values)
<1>1. piece \in Seq(Seq(Byte)) /\ Len(piece) = Len(values)
  OBVIOUS
<1> QED
  BY <1>1, FlattenProperties, Zenon

LEMMA Window ==
  ASSUME NEW b \in Seq(Byte), NEW p \in Nat, NEW w \in Nat, p + w <= Len(b)
  PROVE  \A j \in 1..w : /\ SubSeq(b, p + 1, p + w)[j] = b[p + j]
                         /\ b[p + j] \in Byte
<1>1. PICK m \in Nat : m = Len(b)
  BY LenProperties
<1>2. p + w <= m
  BY <1>1
<1>3. \A j \in (p + 1)..(p + w) : j \in 1..m
  BY <1>2
<1>4. \A j \in (p + 1)..(p + w) : b[j] \in Byte
  BY <1>1, <1>3, ElementOfSeq
<1>5. \A j \in 1..((p + w) - (p + 1) + 1) :
        SubSeq(b, p + 1, p + w)[j] = b[(p + 1) + j - 1]
  BY <1>4, SubSeqProperties
<1>6. ASSUME NEW j \in 1..w
      PROVE  /\ j \in 1..((p + w) - (p + 1) + 1) /\ (p + 1) + j - 1 = p + j
             /\ p + j \in (p + 1)..(p + w)
  OBVIOUS
<1>7. ASSUME NEW j \in 1..w
      PROVE  /\ SubSeq(b, p + 1, p + w)[j] = b[p + j]
             /\ b[p + j] \in Byte
  <2>1. SubSeq(b, p + 1, p + w)[j] = b[(p + 1) + j - 1]
    BY <1>5, <1>6
  <2> QED
    BY <1>4, <1>6, <2>1
<1> QED
  BY <1>7

(* A list of int24 or int32: so many bytes for each number, in order.      *)
InThrees(bytes, values) ==
  /\ Len(bytes) = 3 * Len(values)
  /\ \A i \in 1..Len(values) : \A j \in 1..3 :
       bytes[3 * (i - 1) + j] = Int24ToBytes(values[i])[j]

InFours(bytes, values) ==
  /\ Len(bytes) = 4 * Len(values)
  /\ \A i \in 1..Len(values) : \A j \in 1..4 :
       bytes[4 * (i - 1) + j] = Int32ToBytes(values[i])[j]

LEMMA BytesOfInt24 ==
  ASSUME NEW v \in Int
  PROVE  /\ Int24ToBytes(v) \in Seq(Byte) /\ Len(Int24ToBytes(v)) = 3
         /\ \A j \in 1..3 : Int24ToBytes(v)[j] \in Byte
<1>1. /\ (v \div 65536) % 256 \in Byte /\ (v \div 256) % 256 \in Byte
      /\ v % 256 \in Byte
  BY DEF Byte
<1>2. Int24ToBytes(v) \in Seq(Byte) /\ Len(Int24ToBytes(v)) = 3
  BY <1>1 DEF Int24ToBytes
<1> QED
  BY <1>2, ElementOfSeq

LEMMA BytesOfInt32 ==
  ASSUME NEW v \in Int
  PROVE  /\ Int32ToBytes(v) \in Seq(Byte) /\ Len(Int32ToBytes(v)) = 4
         /\ \A j \in 1..4 : Int32ToBytes(v)[j] \in Byte
<1>1. /\ v % 256 \in Byte /\ (v \div 256) % 256 \in Byte
      /\ (v \div 65536) % 256 \in Byte /\ (v \div 16777216) % 256 \in Byte
  BY DEF Byte
<1>2. Int32ToBytes(v) \in Seq(Byte) /\ Len(Int32ToBytes(v)) = 4
  BY <1>1 DEF Int32ToBytes
<1> QED
  BY <1>2, ElementOfSeq

(* Pieces of three bytes, or of four, follow each other at equal distances.*)
LEMMA EqualPieces ==
  ASSUME NEW n \in Nat, NEW w \in {3, 4}, NEW piece \in [1..n -> Seq(Byte)],
         \A i \in 1..n : Len(piece[i]) = w
  PROVE  /\ FlattenSeq(piece) \in Seq(Byte)
         /\ Len(FlattenSeq(piece)) = w * n
         /\ \A i \in 1..n : \A j \in 1..w :
              FlattenSeq(piece)[w * (i - 1) + j] = piece[i][j]
<1>1. /\ piece \in Seq(Seq(Byte)) /\ Len(piece) = n
      /\ FlattenSeq(piece) \in Seq(Byte)
      /\ \E off : Offsets(off, piece) /\ Pieces(FlattenSeq(piece), off, piece)
  <2>1. piece \in Seq(Seq(Byte)) /\ Len(piece) = n
    OBVIOUS
  <2> QED
    BY <2>1, FlattenProperties, Zenon
<1>2. PICK off : Offsets(off, piece) /\ Pieces(FlattenSeq(piece), off, piece)
  BY <1>1
<1>3. w \in Nat /\ \A k \in Nat : w * k \in Nat /\ w * (k + 1) = w * k + w
  <2>1. CASE w = 3
    BY <2>1
  <2>2. CASE w = 4
    BY <2>2
  <2> QED
    BY <2>1, <2>2
<1> DEFINE Good == {k \in Nat : k \in 0..n => off[k] = w * k}
<1>4. \A k \in Nat : k \in Good
  <2>1. 0 \in Good
    <3>1. w * 0 = 0
      BY <1>3
    <3> QED
      BY <1>2, <3>1 DEF Offsets
  <2>2. ASSUME NEW k \in Nat, k \in Good PROVE k + 1 \in Good
    <3>1. SUFFICES ASSUME k + 1 \in 0..n PROVE off[k + 1] = w * (k + 1)
      OBVIOUS
    <3>2. k \in 0..n /\ k + 1 \in 1..n /\ (k + 1) - 1 = k
      BY <3>1
    <3>3. off[k] = w * k
      BY <2>2, <3>2
    <3>4. off[k + 1] = off[k] + w
      BY <1>1, <1>2, <3>2 DEF Offsets
    <3> QED
      BY <1>3, <3>3, <3>4
  <2> HIDE DEF Good
  <2> QED
    BY <2>1, <2>2, NatByInduction
<1>5. \A k \in 0..n : off[k] = w * k
  BY <1>4
<1>6. Len(FlattenSeq(piece)) = w * n
  BY <1>1, <1>2, <1>5 DEF Pieces
<1>7. ASSUME NEW i \in 1..n, NEW j \in 1..w
      PROVE  FlattenSeq(piece)[w * (i - 1) + j] = piece[i][j]
  <2>1. i - 1 \in 0..n
    OBVIOUS
  <2>2. off[i - 1] = w * (i - 1)
    BY <1>5, <2>1
  <2>3. FlattenSeq(piece)[off[i - 1] + j] = piece[i][j]
    BY <1>1, <1>2 DEF Pieces
  <2> QED
    BY <2>2, <2>3
<1> QED
  BY <1>1, <1>6, <1>7

LEMMA ThreesWritten ==
  ASSUME NEW values \in Seq(Int)
  PROVE  /\ EncodeInt24(values) \in Seq(Byte)
         /\ InThrees(EncodeInt24(values), values)
<1> DEFINE piece == [i \in DOMAIN values |-> Int24ToBytes(values[i])]
<1>1. PICK n \in Nat : n = Len(values) /\ DOMAIN values = 1..n
  BY LenProperties
<1>2. \A i \in 1..n : values[i] \in Int
  BY <1>1, ElementOfSeq
<1>3. /\ piece \in [1..n -> Seq(Byte)]
      /\ \A i \in 1..n : piece[i] = Int24ToBytes(values[i]) /\ Len(piece[i]) = 3
  BY <1>1, <1>2, BytesOfInt24
<1>4. EncodeInt24(values) = FlattenSeq(piece)
  BY DEF EncodeInt24
<1> HIDE DEF piece
<1>5. /\ FlattenSeq(piece) \in Seq(Byte) /\ Len(FlattenSeq(piece)) = 3 * n
      /\ \A i \in 1..n : \A j \in 1..3 :
           FlattenSeq(piece)[3 * (i - 1) + j] = piece[i][j]
  BY <1>3, EqualPieces
<1> QED
  BY <1>1, <1>3, <1>4, <1>5 DEF InThrees

LEMMA FoursWritten ==
  ASSUME NEW values \in Seq(Int)
  PROVE  /\ EncodeInt32(values) \in Seq(Byte)
         /\ InFours(EncodeInt32(values), values)
<1> DEFINE piece == [i \in DOMAIN values |-> Int32ToBytes(values[i])]
<1>1. PICK n \in Nat : n = Len(values) /\ DOMAIN values = 1..n
  BY LenProperties
<1>2. \A i \in 1..n : values[i] \in Int
  BY <1>1, ElementOfSeq
<1>3. /\ piece \in [1..n -> Seq(Byte)]
      /\ \A i \in 1..n : piece[i] = Int32ToBytes(values[i]) /\ Len(piece[i]) = 4
  BY <1>1, <1>2, BytesOfInt32
<1>4. EncodeInt32(values) = FlattenSeq(piece)
  BY DEF EncodeInt32
<1> HIDE DEF piece
<1>5. /\ FlattenSeq(piece) \in Seq(Byte) /\ Len(FlattenSeq(piece)) = 4 * n
      /\ \A i \in 1..n : \A j \in 1..4 :
           FlattenSeq(piece)[4 * (i - 1) + j] = piece[i][j]
  BY <1>3, EqualPieces
<1> QED
  BY <1>1, <1>3, <1>4, <1>5 DEF InFours

LEMMA ThreeBytes ==
  ASSUME NEW values \in Seq(Int24), NEW bytes \in Seq(Byte),
         InThrees(bytes, values),
         NEW i \in 1..Len(values), NEW p \in Nat, p = 3 * (i - 1)
  PROVE  BytesToInt24(SubSeq(bytes, p + 1, p + 3)) = values[i]
<1>1. PICK n \in Nat : n = Len(values)
  BY LenProperties
<1>2. values[i] \in Int24 /\ values[i] \in Int
  <2>1. values[i] \in Int24
    BY ElementOfSeq
  <2> QED
    BY <2>1 DEF Int24
<1>3. p + 3 <= Len(bytes)
  <2>1. Len(bytes) = 3 * n
    BY <1>1 DEF InThrees
  <2>2. p + 3 <= 3 * n
    BY <1>1
  <2> QED
    BY <2>1, <2>2
<1> DEFINE read == SubSeq(bytes, p + 1, p + 3)
           w == Int24ToBytes(values[i])
<1>4. \A j \in 1..3 : read[j] = bytes[p + j] /\ bytes[p + j] \in Byte
  BY <1>3, Window
<1>5. \A j \in 1..3 : bytes[p + j] = w[j]
  BY DEF InThrees
<1>6. /\ read[1] = w[1] /\ read[2] = w[2] /\ read[3] = w[3]
      /\ w[1] \in Int /\ w[2] \in Int /\ w[3] \in Int
  <2> HIDE DEF read, w
  <2>1. \A j \in 1..3 : read[j] = w[j] /\ w[j] \in Byte
    BY <1>4, <1>5
  <2>2. \A x \in Byte : x \in Int
    BY DEF Byte
  <2>3. \A j \in 1..3 : read[j] = w[j] /\ w[j] \in Int
    BY <2>1, <2>2, Zenon
  <2> QED
    BY <2>3
<1> HIDE DEF read, w
<1>7. BytesToInt24(read) = BytesToInt24(w)
  BY <1>6 DEF BytesToInt24
<1> QED
  BY <1>2, <1>7, Int24RoundTrip DEF read, w

LEMMA ThreesRead ==
  ASSUME NEW values \in Seq(Int24), NEW bytes \in Seq(Byte),
         InThrees(bytes, values)
  PROVE  Int24ToSlice(bytes) = values
<1>1. PICK n \in Nat : n = Len(values) /\ DOMAIN values = 1..n
  BY LenProperties
<1>2. PICK m \in Nat : m = Len(bytes)
  BY LenProperties
<1>3. m = 3 * n
  BY <1>1, <1>2 DEF InThrees
<1>4. m \div 3 = n
  BY <1>3
<1>5. ASSUME NEW i \in 1..n
      PROVE  BytesToInt24(SubSeq(bytes, 3 * i - 2, 3 * i)) = values[i]
  <2>1. PICK p \in Nat : p = 3 * (i - 1)
    OBVIOUS
  <2>2. p + 1 = 3 * i - 2 /\ p + 3 = 3 * i
    BY <2>1
  <2>3. BytesToInt24(SubSeq(bytes, p + 1, p + 3)) = values[i]
    BY <1>1, <2>1, ThreeBytes
  <2> QED
    BY <2>2, <2>3
<1>6. Int24ToSlice(bytes) =
        [i \in 1..n |-> BytesToInt24(SubSeq(bytes, 3 * i - 2, 3 * i))]
  BY <1>2, <1>4 DEF Int24ToSlice
<1>7. values = [i \in 1..n |-> values[i]]
  BY <1>1
<1> QED
  BY <1>5, <1>6, <1>7, Zenon

LEMMA FoursRead ==
  ASSUME NEW values \in Seq(Int24), NEW bytes \in Seq(Byte),
         InFours(bytes, values)
  PROVE  Int32ToSlice(bytes) = values
<1>1. PICK n \in Nat : n = Len(values) /\ DOMAIN values = 1..n
  BY LenProperties
<1>2. PICK m \in Nat : m = Len(bytes)
  BY LenProperties
<1>3. m = 4 * n
  BY <1>1, <1>2 DEF InFours
<1>4. m \div 4 = n
  BY <1>3
<1>5. ASSUME NEW i \in 1..n
      PROVE  BytesToInt32(SubSeq(bytes, 4 * i - 3, 4 * i)) = values[i]
  <2>1. values[i] \in Int32 /\ values[i] \in Int
    <3>1. values[i] \in Int24
      BY <1>1, ElementOfSeq
    <3> QED
      BY <3>1 DEF Int24, Int32
  <2>2. PICK p \in Nat : p = 4 * (i - 1)
    OBVIOUS
  <2>3. p + 1 = 4 * i - 3 /\ p + 4 = 4 * i /\ p + 4 <= m
    BY <1>3, <2>2
  <2> DEFINE read == SubSeq(bytes, p + 1, p + 4)
             w == Int32ToBytes(values[i])
  <2>4. \A j \in 1..4 : read[j] = bytes[p + j] /\ bytes[p + j] \in Byte
    BY <1>2, <2>3, Window
  <2>5. \A j \in 1..4 : bytes[p + j] = w[j]
    BY <1>1, <2>2 DEF InFours
  <2>6. /\ read[1] = w[1] /\ read[2] = w[2] /\ read[3] = w[3] /\ read[4] = w[4]
        /\ w[1] \in Int /\ w[2] \in Int /\ w[3] \in Int /\ w[4] \in Int
    <3> HIDE DEF read, w
    <3>1. \A j \in 1..4 : read[j] = w[j] /\ w[j] \in Byte
      BY <2>4, <2>5
    <3>2. \A j \in 1..4 : read[j] = w[j] /\ w[j] \in Int
      <4>1. \A x \in Byte : x \in Int
        BY DEF Byte
      <4> QED
        BY <3>1, <4>1, Zenon
    <3> QED
      BY <3>2
  <2> HIDE DEF read, w
  <2>7. BytesToInt32(read) = BytesToInt32(w)
    BY <2>6 DEF BytesToInt32
  <2> QED
    BY <2>1, <2>3, <2>7, Int32RoundTrip DEF read, w
<1>6. Int32ToSlice(bytes) =
        [i \in 1..n |-> BytesToInt32(SubSeq(bytes, 4 * i - 3, 4 * i))]
  BY <1>2, <1>4 DEF Int32ToSlice
<1>7. values = [i \in 1..n |-> values[i]]
  BY <1>1
<1> QED
  BY <1>5, <1>6, <1>7, Zenon

(* A number pushed onto a list of int24. *)
LEMMA ThreesGrow ==
  ASSUME NEW values \in Seq(Int24), NEW bytes \in Seq(Byte), NEW v \in Int24,
         InThrees(bytes, values)
  PROVE  InThrees(bytes \o Int24ToBytes(v), Append(values, v))
<1>1. PICK n \in Nat : n = Len(values)
  BY LenProperties
<1>2. Len(bytes) = 3 * n
  BY <1>1 DEF InThrees
<1>3. v \in Int
  BY DEF Int24
<1> DEFINE w == Int24ToBytes(v)
           more == Append(values, v)
           r == bytes \o w
<1>4. w \in Seq(Byte) /\ Len(w) = 3
  BY <1>3, BytesOfInt24
<1> HIDE DEF w
<1>5. /\ Len(r) = Len(bytes) + Len(w)
      /\ \A i \in 1..Len(bytes) : r[i] = bytes[i]
      /\ \A i \in 1..Len(w) : r[Len(bytes) + i] = w[i]
  OBVIOUS
<1>6. /\ Len(more) = n + 1 /\ more[n + 1] = v
      /\ \A i \in 1..n : more[i] = values[i]
  BY <1>1
<1> HIDE DEF more, r
<1>7. /\ Len(r) = 3 * (n + 1)
      /\ \A i \in 1..(3 * n) : r[i] = bytes[i]
      /\ \A i \in 1..3 : r[3 * n + i] = w[i]
  BY <1>2, <1>4, <1>5
<1>8. ASSUME NEW i \in 1..(n + 1), NEW j \in 1..3
      PROVE  r[3 * (i - 1) + j] = Int24ToBytes(more[i])[j]
  <2>1. CASE i \in 1..n
    <3>1. 3 * (i - 1) + j \in 1..(3 * n)
      BY <2>1
    <3>2. bytes[3 * (i - 1) + j] = Int24ToBytes(values[i])[j]
      BY <1>1, <2>1 DEF InThrees
    <3> QED
      BY <1>6, <1>7, <2>1, <3>1, <3>2
  <2>2. CASE i = n + 1
    <3>1. 3 * (i - 1) + j = 3 * n + j
      BY <2>2
    <3>2. more[i] = v
      BY <1>6, <2>2
    <3>3. r[3 * n + j] = w[j]
      BY <1>7
    <3> QED
      BY <3>1, <3>2, <3>3 DEF w
  <2> QED
    BY <2>1, <2>2
<1>9. InThrees(r, more)
  BY <1>6, <1>7, <1>8 DEF InThrees
<1> QED
  BY <1>9 DEF r, more, w

LEMMA Int24Layout ==
  ASSUME NEW values \in Seq(Int)
  PROVE  /\ EncodeInt24(values) \in Seq(Byte)
         /\ Len(EncodeInt24(values)) = 3 * Len(values)
         /\ \A i \in 1..Len(values) : \A j \in 1..3 :
              EncodeInt24(values)[3 * (i - 1) + j] = Int24ToBytes(values[i])[j]
BY ThreesWritten DEF InThrees

LEMMA Int24Read ==
  ASSUME NEW values \in Seq(Int24), NEW p \in Nat, NEW i \in 1..Len(values),
         p = 3 * (i - 1)
  PROVE  BytesToInt24(SubSeq(EncodeInt24(values), p + 1, p + 3)) = values[i]
<1>1. values \in Seq(Int)
  BY DEF Int24
<1> QED
  BY <1>1, ThreesWritten, ThreeBytes

LEMMA PieceAt ==
  ASSUME NEW B, NEW b \in Seq(B), NEW p \in Nat, NEW piece, Len(piece) \in Nat,
         p + Len(piece) <= Len(b),
         \A j \in 1..Len(piece) : b[p + j] = piece[j]
  PROVE  Begins(SubSeq(b, p + 1, Len(b)), piece)
<1>1. PICK m \in Nat : m = Len(b)
  BY LenProperties
<1>2. PICK l \in Nat : l = Len(piece)
  OBVIOUS
<1>3. p + l <= m
  BY <1>1, <1>2
<1>4. \A j \in 1..l : j \in 1..(m - p) /\ (p + 1) + j - 1 = p + j
  BY <1>3
<1>5. m - p \in Nat /\ m - (p + 1) + 1 = m - p /\ l <= m - p
  BY <1>3
<1>6. /\ Len(SubSeq(b, p + 1, m)) = m - p
      /\ \A j \in 1..(m - p) : SubSeq(b, p + 1, m)[j] = b[(p + 1) + j - 1]
  <2>1. \A j \in (p + 1)..m : j \in 1..m
    OBVIOUS
  <2>2. \A j \in (p + 1)..m : b[j] \in B
    BY <1>1, <2>1, ElementOfSeq
  <2> QED
    BY <1>1, <1>5, SubSeqProperties
<1> DEFINE buf == SubSeq(b, p + 1, m)
<1> HIDE DEF buf
<1>7. Len(buf) = m - p /\ \A j \in 1..l : buf[j] = piece[j]
  BY <1>2, <1>4, <1>6 DEF buf
<1> QED
  BY <1>1, <1>2, <1>5, <1>7 DEF Begins, buf

(* What is added to the number before the i-th one of a list. *)
Difference(values, i) == values[i] - (IF i = 1 THEN 0 ELSE values[i - 1])

(* Where the varints of a list are: the i-th one ends with the byte off[i],*)
(* and what is read behind off[i - 1] is the i-th difference.              *)
VarintList(bytes, values, off) ==
  /\ off \in [0..Len(values) -> Nat]
  /\ off[0] = 0 /\ off[Len(values)] = Len(bytes)
  /\ \A i \in 1..Len(values) :
       /\ off[i - 1] < off[i] /\ off[i] <= Len(bytes)
       /\ off[i] <= off[i - 1] + 5
       /\ FastVarint32(SubSeq(bytes, off[i - 1] + 1, Len(bytes))) =
            [value |-> Difference(values, i), n |-> off[i] - off[i - 1]]
  /\ \A k \in 0..Len(values) :
       /\ {p \in 1..off[k] : bytes[p] < 128} = {off[i] : i \in 1..k}
       /\ Cardinality({p \in 1..off[k] : bytes[p] < 128}) = k

(* One more piece has one more byte below 128: its last one. *)
LEMMA OneMoreEnd ==
  ASSUME NEW b, NEW from \in Nat, NEW to \in Nat, from < to,
         \A p \in 1..to : p \in 1..from \/ (b[p] < 128 <=> p = to)
  PROVE  /\ {p \in 1..to : b[p] < 128} =
              {p \in 1..from : b[p] < 128} \cup {to}
         /\ to \notin {p \in 1..from : b[p] < 128}
         /\ IsFiniteSet({p \in 1..from : b[p] < 128})
<1>1. \A p : p \in 1..from => p \in 1..to /\ p # to
  OBVIOUS
<1>2. to \in 1..to /\ to \notin 1..from
  OBVIOUS
<1>3. b[to] < 128
  BY <1>2
<1>4. IsFiniteSet(1..from)
  BY FS_Interval
<1>5. IsFiniteSet({p \in 1..from : b[p] < 128})
  BY <1>4, FS_Subset
<1> QED
  BY <1>1, <1>2, <1>3, <1>5, Zenon

LEMMA DifferenceType ==
  ASSUME NEW values \in Seq(Int24), NEW i \in 1..Len(values)
  PROVE  /\ Difference(values, i) \in Int32
         /\ -268435456 <= Difference(values, i)
         /\ Difference(values, i) < 268435456
<1>1. \A j \in 1..Len(values) : values[j] \in Int24
  BY ElementOfSeq
<1>2. PICK a \in Int24 : a = values[i]
  BY <1>1
<1>3. PICK b \in Int24 : b = IF i = 1 THEN 0 ELSE values[i - 1]
  <2>1. CASE i = 1
    <3>1. 0 \in Int24
      BY DEF Int24
    <3> QED
      BY <2>1, <3>1
  <2>2. CASE i # 1
    <3>1. i - 1 \in 1..Len(values)
      BY <2>2, LenProperties
    <3> QED
      BY <1>1, <2>2, <3>1
  <2> QED
    BY <2>1, <2>2
<1>4. Difference(values, i) = a - b
  BY <1>2, <1>3 DEF Difference
<1> QED
  BY <1>4, SMT DEF Int24, Int32

(* A list of varints is a sequence of such pieces. *)
LEMMA VarintLayout ==
  ASSUME NEW values \in Seq(Int24)
  PROVE  /\ EncodeVarint(values) \in Seq(Byte)
         /\ \E off : VarintList(EncodeVarint(values), values, off)
<1> DEFINE n == Len(values)
           piece == [i \in DOMAIN values |-> PutVarint(Difference(values, i))]
           bytes == FlattenSeq(piece)
<1>1. n \in Nat /\ DOMAIN values = 1..n
  BY LenProperties
<1>2. \A i \in 1..n : piece[i] = PutVarint(Difference(values, i))
  BY <1>1
<1>3. EncodeVarint(values) = bytes
  BY DEF EncodeVarint, Difference
<1> HIDE DEF piece
<1>4. ASSUME NEW i \in 1..n
      PROVE  /\ piece[i] \in Seq(Byte) /\ Len(piece[i]) \in 1..5
             /\ \A j \in 1..Len(piece[i]) :
                  piece[i][j] < 128 <=> j = Len(piece[i])
  BY <1>2, DifferenceType, VarintShape DEF Byte
<1>5. piece \in [1..n -> Seq(Byte)]
  BY <1>1, <1>4 DEF piece
<1>6. /\ bytes \in Seq(Byte) /\ Len(piece) = n
      /\ \E off : Offsets(off, piece) /\ Pieces(bytes, off, piece)
  BY <1>1, <1>5, EncodedOneByOne
<1>7. PICK off : Offsets(off, piece) /\ Pieces(bytes, off, piece)
  BY <1>6
<1> HIDE DEF n, bytes
<1>8. /\ off \in [0..n -> Nat] /\ off[0] = 0 /\ off[n] = Len(bytes)
      /\ \A i \in 1..n : off[i] = off[i - 1] + Len(piece[i])
      /\ \A i \in 1..n : \A j \in 1..Len(piece[i]) :
           bytes[off[i - 1] + j] = piece[i][j]
  BY <1>6, <1>7 DEF Offsets, Pieces
<1> DEFINE Ends(k) == {p \in 1..off[k] : bytes[p] < 128}
<1>9. \A i \in 1..n : i - 1 \in 0..n /\ i \in 0..n /\ i - 1 \in Nat
  BY <1>1
<1>10. ASSUME NEW i \in 1..n
       PROVE  /\ off[i - 1] \in Nat /\ off[i] \in Nat
              /\ off[i] - off[i - 1] = Len(piece[i])
              /\ off[i - 1] < off[i] /\ off[i] <= off[i - 1] + 5
  <2>1. off[i - 1] \in Nat /\ off[i] \in Nat
    BY <1>8, <1>9
  <2>2. PICK l \in 1..5 : l = Len(piece[i])
    BY <1>4
  <2>3. off[i] = off[i - 1] + l
    BY <1>8, <2>2
  <2>4. PICK from \in Nat : from = off[i - 1]
    BY <2>1
  <2>5. off[i] = from + l
    BY <2>3, <2>4
  <2>6. off[i] - from = l /\ from < off[i] /\ off[i] <= from + 5
    BY <2>5
  <2> QED
    BY <2>1, <2>2, <2>4, <2>6
<1> DEFINE Sorted == {m \in Nat : m \in 0..n => \A i \in 0..m : off[i] <= off[m]}
<1>11. \A m \in Nat : m \in Sorted
  <2>1. 0 \in Sorted
    BY <1>8
  <2>2. ASSUME NEW m \in Nat, m \in Sorted PROVE m + 1 \in Sorted
    <3>1. SUFFICES ASSUME m + 1 \in 0..n, NEW i \in 0..(m + 1)
                   PROVE  off[i] <= off[m + 1]
      OBVIOUS
    <3>2. m \in 0..n /\ m + 1 \in 1..n /\ (m + 1) - 1 = m
      BY <1>1, <3>1
    <3>3. off[m] \in Nat /\ off[m + 1] \in Nat /\ off[m] < off[m + 1]
      BY <1>10, <3>2
    <3>4. CASE i \in 0..m
      <4>1. off[i] <= off[m]
        BY <2>2, <3>2, <3>4
      <4>2. off[i] \in Nat
        BY <1>1, <1>8, <3>1
      <4> QED
        BY <3>3, <4>1, <4>2
    <3>5. CASE i = m + 1
      BY <3>3, <3>5
    <3> QED
      BY <3>4, <3>5
  <2> HIDE DEF Sorted
  <2> QED
    BY <2>1, <2>2, NatByInduction
<1>12. \A i \in 0..n : off[i] <= Len(bytes)
  BY <1>1, <1>8, <1>11
<1> DEFINE Good == {k \in Nat : k \in 0..n =>
                     /\ Ends(k) = {off[i] : i \in 1..k}
                     /\ Cardinality(Ends(k)) = k}
<1>13. \A k \in Nat : k \in Good
  <2>1. 0 \in Good
    <3>1. Ends(0) = {} /\ {off[i] : i \in 1..0} = {}
      BY <1>8
    <3>2. Cardinality({}) = 0
      BY FS_EmptySet
    <3> QED
      BY <3>1, <3>2
  <2>2. ASSUME NEW k \in Nat, k \in Good PROVE k + 1 \in Good
    <3>1. SUFFICES ASSUME k + 1 \in 0..n
                   PROVE  /\ Ends(k + 1) = {off[i] : i \in 1..(k + 1)}
                          /\ Cardinality(Ends(k + 1)) = k + 1
      OBVIOUS
    <3>2. k \in 0..n /\ k + 1 \in 1..n /\ (k + 1) - 1 = k
      BY <1>1, <3>1
    <3>3. Ends(k) = {off[i] : i \in 1..k} /\ Cardinality(Ends(k)) = k
      BY <2>2, <3>2
    <3>4. PICK from \in Nat : from = off[k]
      BY <1>8, <3>2
    <3>5. PICK l \in 1..5 : l = Len(piece[k + 1])
      BY <1>4, <3>2
    <3>6. PICK to \in Nat : to = off[k + 1]
      BY <1>8, <3>2
    <3>7. to = from + l /\ from < to
      <4>1. to = from + l
        BY <1>8, <3>2, <3>4, <3>5, <3>6
      <4> QED
        BY <4>1
    <3>8. ASSUME NEW p \in 1..to, p \notin 1..from
          PROVE  bytes[p] < 128 <=> p = to
      <4>1. p - from \in 1..l /\ from + (p - from) = p
            /\ (p - from = l <=> p = to)
        BY <3>7, <3>8
      <4>2. \A j \in 1..l : bytes[off[(k + 1) - 1] + j] = piece[k + 1][j]
        BY <1>8, <3>2, <3>5
      <4>3. \A j \in 1..l : piece[k + 1][j] < 128 <=> j = l
        BY <1>4, <3>2, <3>5
      <4>4. bytes[p] = piece[k + 1][p - from]
        BY <3>2, <3>4, <4>1, <4>2
      <4> QED
        BY <4>1, <4>3, <4>4
    <3>9. /\ {p \in 1..to : bytes[p] < 128} =
               {p \in 1..from : bytes[p] < 128} \cup {to}
          /\ to \notin {p \in 1..from : bytes[p] < 128}
          /\ IsFiniteSet({p \in 1..from : bytes[p] < 128})
      <4>1. \A p \in 1..to : p \in 1..from \/ (bytes[p] < 128 <=> p = to)
        BY <3>8
      <4> QED
        BY <3>7, <4>1, OneMoreEnd, Zenon
    <3>10. Ends(k + 1) = Ends(k) \cup {off[k + 1]}
           /\ Cardinality(Ends(k + 1)) = k + 1
      <4>1. /\ Ends(k + 1) = Ends(k) \cup {to} /\ to \notin Ends(k)
            /\ IsFiniteSet(Ends(k))
        BY <3>4, <3>6, <3>9
      <4> HIDE DEF Ends
      <4>2. Cardinality(Ends(k + 1)) = Cardinality(Ends(k)) + 1
        BY <4>1, FS_AddElement
      <4> QED
        BY <3>3, <3>6, <4>1, <4>2
    <3> HIDE DEF Ends
    <3>11. \A i : i \in 1..(k + 1) <=> i \in 1..k \/ i = k + 1
      OBVIOUS
    <3>12. {off[i] : i \in 1..(k + 1)} = {off[i] : i \in 1..k} \cup {off[k + 1]}
      BY <3>11
    <3> QED
      BY <3>3, <3>10, <3>12
  <2> HIDE DEF Good
  <2> QED
    BY <2>1, <2>2, NatByInduction
<1>14. ASSUME NEW i \in 1..n
       PROVE  FastVarint32(SubSeq(bytes, off[i - 1] + 1, Len(bytes))) =
                [value |-> Difference(values, i), n |-> off[i] - off[i - 1]]
  <2>1. PICK from \in Nat : from = off[i - 1]
    BY <1>10
  <2>2. from + Len(piece[i]) <= Len(bytes)
    BY <1>8, <1>9, <1>12, <2>1
  <2>3. \A j \in 1..Len(piece[i]) : bytes[from + j] = piece[i][j]
    BY <1>8, <2>1
  <2>4. Len(piece[i]) \in Nat
    BY <1>4
  <2>5. Begins(SubSeq(bytes, from + 1, Len(bytes)), piece[i])
    BY <1>6, <2>2, <2>3, <2>4, PieceAt
  <2>6. /\ Difference(values, i) \in Int32
        /\ -268435456 <= Difference(values, i)
        /\ Difference(values, i) < 268435456
    BY DifferenceType DEF n
  <2>7. FastVarint32(SubSeq(bytes, from + 1, Len(bytes))) =
          [value |-> Difference(values, i), n |-> Len(piece[i])]
    BY <1>2, <2>5, <2>6, VarintRoundTrip
  <2> QED
    BY <1>10, <2>1, <2>7
<1>15. VarintList(bytes, values, off)
  <2>1. \A k \in 0..n : Ends(k) = {off[i] : i \in 1..k} /\ Cardinality(Ends(k)) = k
    <3>1. \A k \in 0..n : k \in Nat
      BY <1>1
    <3>2. \A k \in 0..n : k \in Good
      BY <1>13, <3>1, Zenon
    <3> HIDE DEF Ends
    <3> QED
      BY <3>2
  <2>2. \A i \in 1..n : /\ off[i - 1] < off[i] /\ off[i] <= Len(bytes)
                        /\ off[i] <= off[i - 1] + 5
    BY <1>9, <1>10, <1>12
  <2> QED
    BY <1>8, <1>14, <2>1, <2>2 DEF VarintList, n
<1> QED
  BY <1>3, <1>6, <1>15

(* The varints of a list begin where VarintsToSlice looks for them.        *)
LEMMA VarintStarts ==
  ASSUME NEW values \in Seq(Int24), NEW bytes \in Seq(Byte), NEW off,
         VarintList(bytes, values, off)
  PROVE  Ascending({p \in DOMAIN bytes : p = 1 \/ bytes[p - 1] < 128}) =
           [i \in 1..Len(values) |-> off[i - 1] + 1]
<1> DEFINE S == {p \in DOMAIN bytes : p = 1 \/ bytes[p - 1] < 128}
<1>1. PICK n \in Nat : n = Len(values)
  BY LenProperties
<1>2. PICK m \in Nat : m = Len(bytes) /\ DOMAIN bytes = 1..m
  BY LenProperties
<1> DEFINE order == [i \in 1..n |-> off[i - 1] + 1]
<1>3. \A k \in 0..n : off[k] \in Nat
  BY <1>1 DEF VarintList
<1>4. off[0] = 0 /\ off[n] = m
  BY <1>1, <1>2 DEF VarintList
<1>5. \A i \in 1..n : i - 1 \in 0..n /\ i \in 0..n
  BY <1>1
<1>6. \A i \in 1..n : off[i - 1] < off[i] /\ off[i] <= m
  BY <1>1, <1>2 DEF VarintList
<1>7. {p \in 1..off[n] : bytes[p] < 128} = {off[i] : i \in 1..n}
  <2>1. n \in 0..n
    BY <1>1
  <2> QED
    BY <1>1, <2>1 DEF VarintList
<1>8. ASSUME NEW i \in 1..n PROVE order[i] \in S
  <2>1. PICK a \in Nat : a = off[i - 1]
    BY <1>3, <1>5
  <2>2. order[i] = a + 1
    BY <2>1
  <2>3. PICK b \in Nat : b = off[i] /\ b <= m
    BY <1>3, <1>5, <1>6
  <2>4. a < b
    BY <1>6, <2>1, <2>3
  <2>5. a + 1 \in 1..m /\ (a + 1) - 1 = a
    BY <2>3, <2>4
  <2>6. CASE i = 1
    <3>1. a = 0
      BY <1>4, <2>1, <2>6
    <3> QED
      BY <1>2, <2>2, <2>5, <3>1
  <2>7. CASE i # 1
    <3>1. i - 1 \in 1..n
      BY <2>7
    <3>2. a \in {off[j] : j \in 1..n}
      BY <2>1, <3>1
    <3>3. bytes[a] < 128
      BY <1>7, <3>2
    <3> QED
      BY <1>2, <2>2, <2>5, <3>3
  <2> QED
    BY <2>6, <2>7
<1>9. ASSUME NEW p \in S PROVE \E i \in 1..n : order[i] = p
  <2>1. p \in 1..m /\ p \in Nat /\ (p = 1 \/ bytes[p - 1] < 128)
    BY <1>2
  <2>2. CASE p = 1
    <3>1. n # 0
      BY <1>4, <2>1
    <3>2. 1 \in 1..n /\ order[1] = off[0] + 1
      BY <3>1
    <3> QED
      BY <1>4, <2>2, <3>2
  <2>3. CASE p # 1
    <3>1. p - 1 \in 1..m /\ p - 1 < m /\ (p - 1) + 1 = p
      BY <2>1, <2>3
    <3>2. p - 1 \in {off[i] : i \in 1..n}
      BY <1>4, <1>7, <2>1, <2>3, <3>1
    <3>3. PICK j \in 1..n : off[j] = p - 1
      BY <3>2
    <3>4. j # n
      BY <1>4, <3>1, <3>3
    <3>5. j + 1 \in 1..n /\ (j + 1) - 1 = j
      BY <3>4
    <3>6. order[j + 1] = p
      BY <3>1, <3>3, <3>5
    <3> QED
      BY <3>5, <3>6
  <2> QED
    BY <2>2, <2>3
<1> DEFINE Sorted == {k \in Nat : k \in 0..n =>
                        \A i \in 0..k : i # k => off[i] < off[k]}
<1>10. \A k \in Nat : k \in Sorted
  <2>1. 0 \in Sorted
    OBVIOUS
  <2>2. ASSUME NEW k \in Nat, k \in Sorted PROVE k + 1 \in Sorted
    <3>1. SUFFICES ASSUME k + 1 \in 0..n, NEW i \in 0..(k + 1), i # k + 1
                   PROVE  off[i] < off[k + 1]
      OBVIOUS
    <3>2. /\ k \in 0..n /\ k + 1 \in 1..n /\ (k + 1) - 1 = k
          /\ i \in 0..k /\ i \in 0..n
      BY <1>1, <3>1
    <3>3. off[k] < off[k + 1]
      BY <1>6, <3>2
    <3>4. i # k => off[i] < off[k]
      BY <2>2, <3>2
    <3>5. off[i] \in Nat /\ off[k] \in Nat /\ off[k + 1] \in Nat
      BY <1>3, <3>1, <3>2
    <3> QED
      BY <3>3, <3>4, <3>5
  <2> HIDE DEF Sorted
  <2> QED
    BY <2>1, <2>2, NatByInduction
<1>11. Increasing(order)
  <2>1. SUFFICES ASSUME NEW i \in 1..n, NEW j \in 1..n, i < j
                 PROVE  order[i] < order[j]
    BY DEF Increasing
  <2>2. i - 1 \in 0..(j - 1) /\ i - 1 # j - 1 /\ j - 1 \in 0..n /\ j - 1 \in Nat
    BY <2>1
  <2>3. off[i - 1] < off[j - 1]
    BY <1>10, <2>2
  <2>4. PICK a \in Nat : a = off[i - 1]
    BY <1>3, <1>5
  <2>5. PICK b \in Nat : b = off[j - 1]
    BY <1>3, <1>5
  <2>6. a + 1 < b + 1
    BY <2>3, <2>4, <2>5
  <2> QED
    BY <2>4, <2>5, <2>6
<1>12. S \subseteq 1..m /\ order \in [1..n -> S]
  BY <1>2, <1>8
<1> HIDE DEF S, order
<1>13. Ascending(S) = order
  <2>1. \A p \in S : \E i \in 1..n : order[i] = p
    BY <1>9
  <2>2. 1 \in Int /\ m \in Int
    OBVIOUS
  <2> QED
    BY <1>11, <1>12, <2>1, <2>2, AscendingUnique, ZenonT(40)
<1> QED
  BY <1>1, <1>13 DEF S, order

(* What VarintsToSlice adds up, as a recursive function.                   *)
LEMMA SumsOfDifferences ==
  ASSUME NEW values \in Seq(Int24), NEW delta, NEW list,
         \A i \in 1..Len(values) : delta[i] = Difference(values, i),
         list = [i \in 1..Len(values) |->
                   IF i = 1 THEN delta[1] ELSE list[i - 1] + delta[i]]
  PROVE  list = values
<1>1. PICK n \in Nat : n = Len(values) /\ DOMAIN values = 1..n
  BY LenProperties
<1>2. \A i \in 1..n : values[i] \in Int
  BY <1>1, ElementOfSeq DEF Int24
<1> DEFINE Good == {k \in Nat : k \in 1..n => list[k] = values[k]}
<1>3. \A k \in Nat : k \in Good
  <2>1. 0 \in Good
    OBVIOUS
  <2>2. ASSUME NEW k \in Nat, k \in Good PROVE k + 1 \in Good
    <3>1. SUFFICES ASSUME k + 1 \in 1..n PROVE list[k + 1] = values[k + 1]
      OBVIOUS
    <3>2. CASE k = 0
      <4>1. 1 \in 1..n /\ k + 1 = 1
        BY <3>1, <3>2
      <4>2. list[1] = delta[1]
        BY <1>1, <4>1
      <4>3. delta[1] = values[1] - 0
        BY <1>1, <4>1 DEF Difference
      <4> QED
        BY <1>2, <4>1, <4>2, <4>3
    <3>3. CASE k # 0
      <4>1. k \in 1..n /\ k + 1 # 1 /\ (k + 1) - 1 = k
        BY <3>1, <3>3
      <4>2. list[k + 1] = list[k] + delta[k + 1]
        BY <1>1, <3>1, <4>1
      <4>3. delta[k + 1] = values[k + 1] - values[k]
        BY <1>1, <3>1, <4>1 DEF Difference
      <4>4. list[k] = values[k]
        BY <2>2, <4>1
      <4> QED
        BY <1>2, <3>1, <4>1, <4>2, <4>3, <4>4
    <3> QED
      BY <3>2, <3>3
  <2> HIDE DEF Good
  <2> QED
    BY <2>1, <2>2, NatByInduction
<1>4. \A k \in 1..n : list[k] = values[k]
  <2>1. \A k \in 1..n : k \in Nat
    OBVIOUS
  <2>2. \A k \in 1..n : k \in Good
    BY <1>3, <2>1, Zenon
  <2> QED
    BY <2>2
<1> QED
  BY <1>1, <1>4

(* ... and the numbers are one that does. *)
LEMMA DifferencesAddUp ==
  ASSUME NEW values \in Seq(Int24), NEW delta,
         \A i \in 1..Len(values) : delta[i] = Difference(values, i)
  PROVE  values = [i \in 1..Len(values) |->
                     IF i = 1 THEN delta[1] ELSE values[i - 1] + delta[i]]
<1>1. PICK n \in Nat : n = Len(values) /\ DOMAIN values = 1..n
  BY LenProperties
<1>2. \A i \in 1..n : values[i] \in Int
  BY <1>1, ElementOfSeq DEF Int24
<1>3. ASSUME NEW i \in 1..n
      PROVE  values[i] = IF i = 1 THEN delta[1] ELSE values[i - 1] + delta[i]
  <2>1. CASE i = 1
    <3>1. delta[1] = values[1] - 0
      BY <1>1, <2>1 DEF Difference
    <3> QED
      BY <1>2, <2>1, <3>1
  <2>2. CASE i # 1
    <3>1. i - 1 \in 1..n
      BY <2>2
    <3>2. delta[i] = values[i] - values[i - 1]
      BY <1>1, <2>2 DEF Difference
    <3>3. values[i] \in Int /\ values[i - 1] \in Int
      BY <1>2, <3>1
    <3> QED
      BY <2>2, <3>2, <3>3
  <2> QED
    BY <2>1, <2>2
<1> QED
  BY <1>1, <1>3

LEMMA VarintsRead ==
  ASSUME NEW values \in Seq(Int24), NEW bytes \in Seq(Byte), NEW off,
         VarintList(bytes, values, off)
  PROVE  VarintsToSlice(bytes) = values
<1> DEFINE starts == Ascending({p \in DOMAIN bytes : p = 1 \/ bytes[p - 1] < 128})
           n == Len(values)
           delta == [i \in 1..n |->
                       FastVarint32(SubSeq(bytes, starts[i], Len(bytes))).value]
           Adds(list) == list = [i \in DOMAIN starts |->
             IF i = 1 THEN FastVarint32(SubSeq(bytes, starts[1], Len(bytes))).value
             ELSE list[i - 1] + FastVarint32(SubSeq(bytes, starts[i], Len(bytes))).value]
<1>1. n \in Nat /\ starts = [i \in 1..n |-> off[i - 1] + 1]
  BY VarintStarts, LenProperties
<1> HIDE DEF starts
<1>2. \A i \in 1..n : delta[i] = Difference(values, i)
  <2>1. \A i \in 1..n : FastVarint32(SubSeq(bytes, off[i - 1] + 1, Len(bytes))).value
                          = Difference(values, i)
    <3>1. \A i \in 1..n : FastVarint32(SubSeq(bytes, off[i - 1] + 1, Len(bytes))) =
            [value |-> Difference(values, i), n |-> off[i] - off[i - 1]]
      BY Zenon DEF VarintList
    <3>2. ASSUME NEW i \in 1..n, NEW r, r = [value |-> Difference(values, i), n |-> off[i] - off[i - 1]]
          PROVE  r.value = Difference(values, i)
      BY <3>2
    <3> QED
      BY <3>1, <3>2
  <2> QED
    BY <1>1, <2>1
<1>3. \A list : Adds(list) <=>
        list = [i \in 1..n |-> IF i = 1 THEN delta[1] ELSE list[i - 1] + delta[i]]
  <2>1. DOMAIN starts = 1..n /\ (1 \in 1..n \/ 1..n = {})
    BY <1>1
  <2>2. \A i \in 1..n : delta[i] =
          FastVarint32(SubSeq(bytes, starts[i], Len(bytes))).value
    OBVIOUS
  <2>3. \A i \in 1..n : delta[1] =
          FastVarint32(SubSeq(bytes, starts[1], Len(bytes))).value
    BY <2>1
  <2> HIDE DEF delta
  <2> QED
    BY <2>1, <2>2, <2>3, ZenonT(40)
<1>4. VarintsToSlice(bytes) = CHOOSE list : Adds(list)
  BY DEF VarintsToSlice, starts
<1> HIDE DEF delta, Adds
<1>5. Adds(values)
  BY <1>2, <1>3, DifferencesAddUp
<1>6. ASSUME NEW list, Adds(list) PROVE list = values
  BY <1>2, <1>3, <1>6, SumsOfDifferences
<1> QED
  BY <1>4, <1>5, <1>6

LEMMA VarintsAreShort ==
  ASSUME NEW values \in Seq(Int24), NEW bytes \in Seq(Byte), NEW off,
         VarintList(bytes, values, off)
  PROVE  Len(bytes) <= 5 * Len(values)
<1>1. PICK n \in Nat : n = Len(values)
  BY LenProperties
<1>2. /\ \A k \in 0..n : off[k] \in Nat
      /\ off[0] = 0 /\ off[n] = Len(bytes)
      /\ \A i \in 1..n : off[i] <= off[i - 1] + 5
  BY <1>1 DEF VarintList
<1> DEFINE Good == {k \in Nat : k \in 0..n => off[k] <= 5 * k}
<1>3. \A k \in Nat : k \in Good
  <2>1. 0 \in Good
    BY <1>2
  <2>2. ASSUME NEW k \in Nat, k \in Good PROVE k + 1 \in Good
    <3>1. SUFFICES ASSUME k + 1 \in 0..n PROVE off[k + 1] <= 5 * (k + 1)
      OBVIOUS
    <3>2. k \in 0..n /\ k + 1 \in 1..n /\ (k + 1) - 1 = k
      BY <3>1
    <3>3. off[k] <= 5 * k /\ off[k] \in Nat /\ off[k + 1] \in Nat
      BY <1>2, <2>2, <3>1, <3>2
    <3>4. off[k + 1] <= off[k] + 5
      BY <1>2, <3>2
    <3> QED
      BY <3>3, <3>4
  <2> HIDE DEF Good
  <2> QED
    BY <2>1, <2>2, NatByInduction
<1>4. off[n] <= 5 * n
  BY <1>3
<1> QED
  BY <1>1, <1>2, <1>4

(* Every codec gives back the list that was written with it, if its        *)
(* numbers are ids of posts (codecs.go, int24.go, int32.go, iterators.go), *)
(* whatever it is that the numbers of a list differ by.                    *)
THEOREM ListRoundTrip ==
  ASSUME NEW codec \in {"int24", "varint", "int32"}, NEW values \in Seq(Int24)
  PROVE  /\ Encode(codec, values) \in Seq(Byte)
         /\ Decode(codec, Encode(codec, values)) = values
         /\ codec = "varint" => Len(Encode(codec, values)) <= 5 * Len(values)
         /\ codec = "int32" => Len(Encode(codec, values)) = 4 * Len(values)
<1>1. values \in Seq(Int)
  BY DEF Int24
<1>2. CASE codec = "int24"
  BY <1>1, <1>2, ThreesWritten, ThreesRead DEF Encode, Decode
<1>3. CASE codec = "varint"
  <2>1. PICK off : VarintList(EncodeVarint(values), values, off)
    BY VarintLayout
  <2>2. EncodeVarint(values) \in Seq(Byte)
    BY VarintLayout
  <2>3. /\ VarintsToSlice(EncodeVarint(values)) = values
        /\ Len(EncodeVarint(values)) <= 5 * Len(values)
    BY <2>1, <2>2, VarintsRead, VarintsAreShort
  <2> QED
    BY <1>3, <2>2, <2>3 DEF Encode, Decode
<1>4. CASE codec = "int32"
  <2>1. Len(EncodeInt32(values)) = 4 * Len(values)
    BY <1>1, FoursWritten DEF InFours
  <2> QED
    BY <1>1, <1>4, <2>1, FoursWritten, FoursRead DEF Encode, Decode
<1> QED
  BY <1>2, <1>3, <1>4
=============================================================================
