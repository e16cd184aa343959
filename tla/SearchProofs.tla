---------------------------- MODULE SearchProofs ----------------------------
(***************************************************************************)
(* Theorems about the pages of Search, for every set of posts and every    *)
(* size of a page.                                                         *)
(***************************************************************************)
EXTENDS Search, FiniteSetTheorems, SequenceTheorems, TLAPS

(* A set of natural numbers that is not empty has a least element.         *)
LEMMA LeastNat ==
  ASSUME NEW S \in SUBSET Nat, S # {}
  PROVE  \E x \in S : \A y \in S : x <= y
<1> DEFINE R == {ss \in Nat \X Nat : ss[1] < ss[2]}
<1>1. IsWellFoundedOn(R, Nat)
  BY NatLessThanWellFounded DEF OpToRel
<1>2. \A x, y \in Nat : <<y, x>> \in R <=> y < x
  OBVIOUS
<1> HIDE DEF R
<1>3. PICK x \in S : \A y \in S : ~ (<<y, x>> \in R)
  BY <1>1, WFMin
<1>4. ASSUME NEW y \in S PROVE x <= y
  <2>1. ~ (y < x)
    BY <1>2, <1>3
  <2> QED
    BY <2>1
<1> QED
  BY <1>4

LEMMA PostsFinite ==
  ASSUME NEW S \in SUBSET Posts
  PROVE  /\ IsFiniteSet(S) /\ Cardinality(S) \in Nat
         /\ \A p \in S : p \in Nat /\ p > 0
<1>1. IsFiniteSet(S)
  BY SearchAssumption, FS_Subset
<1>2. Cardinality(S) \in Nat
  BY <1>1, FS_CardinalityType
<1>3. \A p \in S : p \in Nat /\ p > 0
  BY SearchAssumption
<1> QED
  BY <1>1, <1>2, <1>3

NewerFirst(seq) == \A i, j \in DOMAIN seq : i < j => seq[i] > seq[j]

Descending(order, S) ==
  order \in [1..Cardinality(S) -> S] /\ NewerFirst(order)

(* Every set of posts can be put in order: a smallest one that cannot      *)
(* would be one without its oldest post, and that post at the end.         *)
LEMMA OrderExists ==
  ASSUME NEW S \in SUBSET Posts
  PROVE  \E order : Descending(order, S)
<1> DEFINE Ordered(T) == \E order : Descending(order, T)
           Bad == {n \in Nat : \E T \in SUBSET Posts :
                                 Cardinality(T) = n /\ ~Ordered(T)}
<1>1. SUFFICES ASSUME ~Ordered(S) PROVE FALSE
  OBVIOUS
<1>2. Cardinality(S) \in Bad
  BY <1>1, PostsFinite
<1>3. PICK n \in Bad : \A m \in Bad : n <= m
  BY <1>2, LeastNat
<1>4. PICK T \in SUBSET Posts : Cardinality(T) = n /\ ~Ordered(T)
  OBVIOUS
<1>5. n \in Nat /\ IsFiniteSet(T) /\ T \in SUBSET Nat
  BY <1>4, PostsFinite
<1>6. T # {}
  <2>1. SUFFICES ASSUME T = {} PROVE FALSE
    OBVIOUS
  <2>2. n = 0
    BY <1>4, <2>1, FS_EmptySet
  <2>3. Descending([i \in 1..0 |-> i], T)
    BY <1>4, <2>2 DEF Descending, NewerFirst
  <2> QED
    BY <1>4, <2>3
<1>7. PICK oldest \in T : \A p \in T : oldest <= p
  BY <1>5, <1>6, LeastNat
<1> DEFINE U == T \ {oldest}
<1>8. U \in SUBSET Posts /\ Cardinality(U) = n - 1 /\ n - 1 \in Nat
  <2>1. U \in SUBSET Posts
    BY <1>4
  <2>2. Cardinality(U) = n - 1
    BY <1>4, <1>5, <1>7, FS_RemoveElement
  <2>3. Cardinality(U) \in Nat
    BY <2>1, PostsFinite
  <2> QED
    BY <2>1, <2>2, <2>3
<1>9. PICK f : Descending(f, U)
  <2>1. n - 1 \notin Bad
    BY <1>3, <1>5
  <2> QED
    BY <1>8, <2>1
<1> DEFINE g == [i \in 1..n |-> IF i = n THEN oldest ELSE f[i]]
<1> HIDE DEF Bad
<1>10. f \in [1..(n - 1) -> U] /\ \A i, j \in 1..(n - 1) : i < j => f[i] > f[j]
  BY <1>8, <1>9 DEF Descending, NewerFirst
<1>11. \A i \in 1..n : i # n => i \in 1..(n - 1)
  BY <1>5
<1>12. \A p \in U : p > oldest
  BY <1>5, <1>7
<1> HIDE DEF U
<1>13. U \subseteq T
  BY DEF U
<1>14. g \in [1..n -> T]
  BY <1>7, <1>10, <1>11, <1>13
<1>15. ASSUME NEW i \in 1..n, NEW j \in 1..n, i < j PROVE g[i] > g[j]
  <2>1. i # n /\ i \in 1..(n - 1)
    BY <1>5, <1>15
  <2>2. CASE j = n
    BY <1>10, <1>12, <2>1, <2>2
  <2>3. CASE j # n
    BY <1>10, <1>11, <1>15, <2>1, <2>3
  <2> QED
    BY <2>2, <2>3
<1>16. Descending(g, T)
  BY <1>4, <1>14, <1>15 DEF Descending, NewerFirst
<1> QED
  BY <1>4, <1>16

(* What the order has: every post of the set, the newer ones first.        *)
LEMMA NewestFirstProperties ==
  ASSUME NEW S \in SUBSET Posts
  PROVE  /\ Descending(NewestFirst(S), S)
         /\ NewestFirst(S) \in Seq(S)
         /\ Len(NewestFirst(S)) = Cardinality(S)
         /\ \A p \in S : \E i \in DOMAIN NewestFirst(S) : NewestFirst(S)[i] = p
<1> DEFINE order == NewestFirst(S)
           n == Cardinality(S)
<1>1. Descending(order, S)
  BY OrderExists DEF NewestFirst, Descending, NewerFirst
<1>2. n \in Nat /\ IsFiniteSet(S) /\ \A p \in S : p \in Nat
  BY PostsFinite
<1>3. order \in [1..n -> S]
  BY <1>1 DEF Descending
<1>4. order \in Seq(S) /\ Len(order) = n
  BY <1>2, <1>3
<1>5. ASSUME NEW i \in 1..n, NEW j \in 1..n, order[i] = order[j] PROVE i = j
  <2>1. ~(i < j) /\ ~(j < i)
    BY <1>1, <1>2, <1>3, <1>5 DEF Descending, NewerFirst
  <2> QED
    BY <1>2, <2>1
<1>6. order \in Injection(1..n, S)
  BY <1>3, <1>5 DEF Injection, IsInjective
<1>7. Cardinality(1..n) = n
  BY <1>2, FS_Interval
<1>8. order \in Surjection(1..n, S)
  BY <1>2, <1>6, <1>7, FS_Injection
<1>9. \A p \in S : \E i \in 1..n : order[i] = p
  BY <1>8 DEF Surjection
<1> QED
  BY <1>1, <1>3, <1>4, <1>9
-----------------------------------------------------------------------------
LEMMA LesserOf ==
  ASSUME NEW a \in Nat, NEW b \in Nat, a > 0
  PROVE  LET n == IF a < b THEN a ELSE b
         IN /\ n \in Nat /\ n <= a
            /\ n < a => n = b
            /\ \A i \in 1..n : i \in 1..b
            /\ \A i \in 1..b : i \notin 1..n => n = a /\ n \in 1..n /\ n < i
  OBVIOUS

(* The beginning of a sequence is all of it, or has the size of a page.     *)
LEMMA FirstOfPrefix ==
  ASSUME NEW S, NEW seq \in Seq(S)
  PROVE  LET r == FirstOf(seq, PageSize)
         IN /\ r \in Seq(S) /\ Len(r) <= PageSize
            /\ Len(r) < PageSize => r = seq
            /\ \A i \in DOMAIN r : i \in DOMAIN seq /\ r[i] = seq[i]
            /\ \A i \in DOMAIN seq : i \notin DOMAIN r =>
                 /\ Len(r) = PageSize /\ Len(r) \in DOMAIN r
                 /\ Len(r) < i
<1> DEFINE r == FirstOf(seq, PageSize)
<1>1. PageSize \in Nat /\ PageSize > 0 /\ Len(seq) \in Nat /\ DOMAIN seq = 1..Len(seq)
  <2>1. PageSize \in Nat /\ PageSize > 0
    BY SearchAssumption
  <2>2. Len(seq) \in Nat /\ DOMAIN seq = 1..Len(seq)
    BY LenProperties
  <2> QED
    BY <2>1, <2>2
<1>2. PICK n \in Nat :
        /\ n <= PageSize
        /\ n < PageSize => n = Len(seq)
        /\ \A i \in 1..n : i \in 1..Len(seq)
        /\ \A i \in 1..Len(seq) : i \notin 1..n =>
             n = PageSize /\ n \in 1..n /\ n < i
        /\ r = SubSeq(seq, 1, n)
  BY <1>1, LesserOf, ZenonT(40) DEF FirstOf
<1> HIDE DEF r
<1>3. \A i \in 1..n : seq[i] \in S
  BY <1>2, ElementOfSeq
<1>4. r \in Seq(S) /\ Len(r) = n /\ \A i \in 1..n : r[i] = seq[i]
  BY <1>2, <1>3, SubSeqProperties
<1>5. DOMAIN r = 1..n
  BY <1>4, LenProperties
<1>6. Len(r) < PageSize => r = seq
  BY <1>2, <1>4, SubSeqFull
<1>7. \A i \in 1..n : i \in DOMAIN seq
  BY <1>1, <1>2
<1>8. \A i \in DOMAIN r : i \in DOMAIN seq /\ r[i] = seq[i]
  BY <1>4, <1>5, <1>7
<1>9. ASSUME NEW i \in DOMAIN seq, i \notin DOMAIN r
      PROVE  Len(r) = PageSize /\ Len(r) \in DOMAIN r /\ Len(r) < i
  <2>1. i \in 1..Len(seq) /\ i \notin 1..n
    BY <1>1, <1>5, <1>9
  <2>2. n = PageSize /\ n \in 1..n /\ n < i
    BY <1>2, <2>1
  <2> QED
    BY <1>4, <1>5, <2>2
<1> QED
  BY <1>2, <1>4, <1>6, <1>8, <1>9 DEF r

(* The beginning of a sequence in descending order that has the posts of T.*)
LEMMA FirstOfProperties ==
  ASSUME NEW S \in SUBSET Posts, NEW T, NEW seq \in Seq(S),
         NewerFirst(seq), \A p \in T : \E i \in DOMAIN seq : seq[i] = p
  PROVE  LET r == FirstOf(seq, PageSize)
         IN /\ r \in Seq(S) /\ Len(r) <= PageSize
            /\ \A i \in DOMAIN r : i \in DOMAIN seq /\ r[i] = seq[i]
            /\ NewerFirst(r)
            /\ \A p \in T : \/ p \in ToSet(r)
                            \/ Len(r) = PageSize /\ p < Last(r)
<1> DEFINE r == FirstOf(seq, PageSize)
<1>1. /\ r \in Seq(S) /\ Len(r) <= PageSize
      /\ \A i \in DOMAIN r : i \in DOMAIN seq /\ r[i] = seq[i]
      /\ \A i \in DOMAIN seq : i \notin DOMAIN r =>
           /\ Len(r) = PageSize /\ Len(r) \in DOMAIN r
           /\ Len(r) < i
  BY FirstOfPrefix
<1> HIDE DEF r
<1>2. NewerFirst(r)
  BY <1>1 DEF NewerFirst
<1>3. ASSUME NEW p \in T, p \notin ToSet(r)
      PROVE  Len(r) = PageSize /\ p < Last(r)
  <2>1. PICK i \in DOMAIN seq : seq[i] = p
    OBVIOUS
  <2>2. i \notin DOMAIN r
    BY <1>1, <1>3, <2>1 DEF ToSet
  <2>3. Len(r) = PageSize /\ Len(r) \in DOMAIN r /\ Len(r) < i
    BY <1>1, <2>2
  <2>4. Len(r) \in DOMAIN seq /\ r[Len(r)] = seq[Len(r)]
    BY <1>1, <2>3
  <2>5. seq[Len(r)] > seq[i]
    BY <2>3, <2>4 DEF NewerFirst
  <2>6. \A j \in DOMAIN seq : seq[j] \in Nat
    BY LenProperties, ElementOfSeq, PostsFinite
  <2>7. seq[i] < seq[Len(r)]
    BY <2>4, <2>5, <2>6
  <2> QED
    BY <2>1, <2>3, <2>4, <2>7 DEF Last
<1> QED
  BY <1>1, <1>2, <1>3 DEF r

(* What a page has to be. *)
IsPage(r, S, older) ==
  /\ r \in Seq(S) /\ Len(r) <= PageSize
  /\ NewerFirst(r)
  /\ older # 0 => \A i \in DOMAIN r : r[i] < older
  /\ older \in S \cup {0} =>
       \A p \in S : older = 0 \/ p < older =>
         \/ p \in ToSet(r)
         \/ Len(r) = PageSize /\ p < Last(r)

(* The skip to olderThan drops the first post that is not newer: no post   *)
(* of the page before comes again, and none is lost when olderThan is      *)
(* among the hits (actions.go:169-175).                                    *)
LEMMA SearchPageIsPage ==
  ASSUME NEW S \in SUBSET Posts, NEW older \in Posts \cup {0}
  PROVE  IsPage(SearchPage(S, older), S, older)
<1>1. CASE older = 0
  <2>1. SearchPage(S, older) = FirstOf(NewestFirst(S), PageSize)
    BY <1>1 DEF SearchPage
  <2>2. /\ NewestFirst(S) \in Seq(S)
        /\ NewerFirst(NewestFirst(S))
        /\ \A p \in S : \E i \in DOMAIN NewestFirst(S) : NewestFirst(S)[i] = p
    BY NewestFirstProperties DEF Descending
  <2>3. LET r == FirstOf(NewestFirst(S), PageSize)
        IN /\ r \in Seq(S) /\ Len(r) <= PageSize
           /\ NewerFirst(r)
           /\ \A p \in S : \/ p \in ToSet(r)
                           \/ Len(r) = PageSize /\ p < Last(r)
    BY <2>2, FirstOfProperties
  <2> QED
    BY <1>1, <2>1, <2>3 DEF IsPage
<1>2. CASE older # 0
  <2> DEFINE U == {p \in S : p <= older}
             from == NewestFirst(U)
             seq == IF from = <<>> THEN from ELSE Tail(from)
             T == {p \in S : older \in S /\ p < older}
  <2>1. SearchPage(S, older) = FirstOf(seq, PageSize)
    BY <1>2 DEF SearchPage
  <2>2. U \in SUBSET Posts /\ U \subseteq S /\ older \in Nat
        /\ \A p \in S : p \in Nat
    BY <1>2, PostsFinite
  <2>3. /\ from \in Seq(U)
        /\ NewerFirst(from)
        /\ \A p \in U : \E i \in DOMAIN from : from[i] = p
    BY <2>2, NewestFirstProperties DEF Descending
  <2> HIDE DEF from
  <2>4. /\ seq \in Seq(S)
        /\ NewerFirst(seq)
        /\ \A i \in DOMAIN seq : seq[i] < older
        /\ \A p \in T : \E i \in DOMAIN seq : seq[i] = p
    <3>1. CASE from = <<>>
      <4>1. DOMAIN from = {}
        BY <2>3, <3>1, EmptySeq, LenProperties
      <4>2. U = {}
        BY <2>3, <4>1
      <4>3. \A p \in T : older \in U
        BY <2>2
      <4>4. seq = from
        BY <3>1
      <4>5. seq \in Seq(S)
        BY <3>1, <4>4, EmptySeq
      <4>6. \A p \in T : older \in U
        BY <4>3
      <4>7. T = {}
        BY <4>2, <4>6
      <4> HIDE DEF seq, T
      <4>8. DOMAIN seq = {}
        BY <4>1, <4>4
      <4>9. NewerFirst(seq)
        BY <4>8 DEF NewerFirst
      <4> QED
        BY <4>5, <4>7, <4>8, <4>9
    <3>2. CASE from # <<>>
      <4>1. /\ seq = Tail(from) /\ seq \in Seq(U) /\ Len(seq) = Len(from) - 1
            /\ \A i \in 1..Len(seq) : seq[i] = from[i + 1]
        BY <2>3, <3>2, HeadTailProperties
      <4>2. /\ Len(from) \in Nat \ {0} /\ DOMAIN from = 1..Len(from)
            /\ DOMAIN seq = 1..Len(seq) /\ Len(seq) \in Nat
        BY <2>3, <3>2, <4>1, LenProperties, EmptySeq
      <4>9. \A p \in U : p \in Nat /\ p <= older
        BY <2>2
      <4> HIDE DEF seq, U
      <4>3. \A i \in DOMAIN from : from[i] \in U /\ from[i] \in Nat
                                   /\ from[i] <= older
        BY <2>3, <4>2, <4>9, ElementOfSeq
      <4>4. \A i \in DOMAIN seq : i + 1 \in DOMAIN from /\ 1 \in DOMAIN from
                                  /\ seq[i] = from[i + 1] /\ i \in Nat /\ i > 0
        BY <4>1, <4>2
      <4>5. NewerFirst(seq)
        BY <2>3, <4>4 DEF NewerFirst
      <4>6. \A i \in DOMAIN seq : seq[i] < older
        BY <2>2, <2>3, <4>3, <4>4 DEF NewerFirst
      <4>7. ASSUME NEW p \in T PROVE \E i \in DOMAIN seq : seq[i] = p
        <5>1. p \in U /\ older \in U /\ p < older /\ p \in Nat
          BY <2>2, <4>7 DEF U
        <5>2. PICK k \in DOMAIN from : from[k] = older
          BY <2>3, <5>1
        <5>3. PICK i \in DOMAIN from : from[i] = p
          BY <2>3, <5>1
        <5>4. 1 \in DOMAIN from /\ from[1] \in Nat /\ from[1] <= older
          BY <4>2, <4>3
        <5>5. k = 1
          <6>1. ~(1 < k)
            BY <2>2, <2>3, <5>2, <5>4 DEF NewerFirst
          <6> QED
            BY <4>2, <5>2, <6>1
        <5>6. i # 1
          BY <2>2, <5>1, <5>2, <5>3, <5>5
        <5>7. i - 1 \in DOMAIN seq /\ seq[i - 1] = from[i]
          BY <4>1, <4>2, <5>3, <5>6
        <5> QED
          BY <5>3, <5>7
      <4>8. seq \in Seq(S)
        BY <2>2, <4>1, SeqMonotonic
      <4> QED
        BY <4>5, <4>6, <4>7, <4>8
    <3> QED
      BY <3>1, <3>2
  <2> HIDE DEF seq, T
  <2>5. LET r == FirstOf(seq, PageSize)
        IN /\ r \in Seq(S) /\ Len(r) <= PageSize
           /\ \A i \in DOMAIN r : i \in DOMAIN seq /\ r[i] = seq[i]
           /\ NewerFirst(r)
           /\ \A p \in T : \/ p \in ToSet(r)
                           \/ Len(r) = PageSize /\ p < Last(r)
    BY <2>4, FirstOfProperties
  <2>6. \A p \in S : older \in S /\ p < older => p \in T
    BY DEF T
  <2> QED
    BY <1>2, <2>1, <2>4, <2>5, <2>6 DEF IsPage
<1> QED
  BY <1>1, <1>2
-----------------------------------------------------------------------------
(* What the client knows of the pages behind it, and what it has still to  *)
(* see as long as the last post of every page stays a hit.                 *)
Paging ==
  /\ TypeOK
  /\ olderThan = 0 => shown = {}
  /\ olderThan # 0 => \A p \in shown : p >= olderThan
  /\ stayed \subseteq Hits
  /\ ~astray => \A p \in stayed :
       \/ p \in shown
       \/ ~ended /\ (olderThan = 0 \/ p < olderThan)

(* The response of RequestPage as the steps of the proofs need it.         *)
LEMMA PageRequest ==
  ASSUME TypeOK, RequestPage
  PROVE  /\ IsPage(page', Hits, olderThan)
         /\ Hits \in SUBSET Posts
         /\ ToSet(page') \subseteq Hits
         /\ page' \in Seq(Posts) /\ Len(page') \in Nat
         /\ page' # <<>> => /\ Last(page') \in ToSet(page')
                            /\ \A p \in ToSet(page') : p >= Last(page')
<1>1. Hits \in SUBSET Posts
  BY DEF TypeOK, Hits
<1>2. IsPage(page', Hits, olderThan)
  BY <1>1, SearchPageIsPage DEF TypeOK, RequestPage
<1>3. page' \in Seq(Hits) /\ NewerFirst(page')
  BY <1>2 DEF IsPage
<1>4. Len(page') \in Nat /\ DOMAIN page' = 1..Len(page')
  BY <1>3, LenProperties
<1>5. \A i \in DOMAIN page' : page'[i] \in Hits
  BY <1>3, <1>4, ElementOfSeq
<1>6. page' \in Seq(Posts)
  BY <1>1, <1>3, SeqMonotonic
<1>7. ASSUME page' # <<>>
      PROVE  /\ Last(page') \in ToSet(page')
             /\ \A p \in ToSet(page') : p >= Last(page')
  <2>1. Len(page') \in DOMAIN page'
    BY <1>3, <1>4, <1>7, EmptySeq
  <2>2. \A i \in DOMAIN page' : i = Len(page') \/ i < Len(page')
    BY <1>4
  <2>3. \A i \in DOMAIN page' : page'[i] \in Nat
    BY <1>1, <1>5, PostsFinite
  <2>4. \A i \in DOMAIN page' : page'[i] >= page'[Len(page')]
    BY <1>3, <2>1, <2>2, <2>3 DEF NewerFirst
  <2> QED
    BY <2>1, <2>4 DEF ToSet, Last
<1> QED
  BY <1>1, <1>2, <1>4, <1>5, <1>6, <1>7 DEF ToSet

(* Any random page: hits, none of them twice, and all but one of them when *)
(* the page is not full.                                                   *)
LEMMA RandomPageProperties ==
  ASSUME NEW S \in SUBSET Posts, NEW r \in RandomPages(S)
  PROVE  /\ r \in Seq(S) /\ Len(r) <= PageSize
         /\ Cardinality(ToSet(r)) = Len(r)
         /\ ToSet(r) \subseteq S
         /\ Len(r) < PageSize => Cardinality(S \ ToSet(r)) <= 1
<1>1. IsFiniteSet(S) /\ Cardinality(S) \in Nat
  BY PostsFinite
<1>2. CASE S = {}
  <2>1. r = <<>>
    BY <1>2 DEF RandomPages
  <2>2. ToSet(r) = {}
    BY <2>1 DEF ToSet
  <2>3. Len(r) = 0 /\ r \in Seq(S)
    BY <2>1
  <2>4. S \ ToSet(r) = {}
    BY <1>2
  <2>5. Cardinality(ToSet(r)) = 0 /\ Cardinality(S \ ToSet(r)) = 0
    BY <2>2, <2>4, FS_EmptySet
  <2>6. PageSize \in Nat
    BY SearchAssumption
  <2> QED
    BY <2>2, <2>3, <2>5, <2>6
<1>3. CASE S # {}
  <2> DEFINE c == Cardinality(S)
  <2>1. PICK order \in [1..c -> S] :
          /\ \A i, j \in 1..c : i # j => order[i] # order[j]
          /\ r = FirstOf(Tail(order), PageSize)
    BY <1>3 DEF RandomPages, SetToSeqs
  <2>2. c \in Nat /\ c # 0
    BY <1>1, <1>3, FS_EmptySet
  <2> HIDE DEF c
  <2>3. order \in Seq(S) /\ Len(order) = c /\ order # <<>>
    BY <2>1, <2>2
  <2> DEFINE rest == Tail(order)
  <2>4. /\ rest \in Seq(S) /\ Len(rest) = c - 1
        /\ \A i \in 1..Len(rest) : rest[i] = order[i + 1]
    BY <2>3, HeadTailProperties
  <2> HIDE DEF rest
  <2>5. c - 1 \in Nat /\ DOMAIN rest = 1..(c - 1)
    BY <2>2, <2>4, LenProperties
  <2>6. r = FirstOf(rest, PageSize)
    BY <2>1 DEF rest
  <2>7. /\ r \in Seq(S) /\ Len(r) <= PageSize
        /\ Len(r) < PageSize => r = rest
        /\ \A i \in DOMAIN r : i \in DOMAIN rest /\ r[i] = rest[i]
    BY <2>4, <2>6, FirstOfPrefix
  <2>8. DOMAIN r = 1..Len(r) /\ Len(r) \in Nat
    BY <2>7, LenProperties
  <2>9. \A i \in DOMAIN r : i \in Int /\ i + 1 \in 1..c /\ r[i] = order[i + 1]
    BY <2>2, <2>4, <2>5, <2>7
  <2>10. \A i \in DOMAIN r : r[i] \in S
    BY <2>1, <2>9
  <2>11. Cardinality(ToSet(r)) = Len(r)
    <3>1. \A i, j \in DOMAIN r : r[i] = r[j] => i = j
      <4>1. ASSUME NEW i \in DOMAIN r, NEW j \in DOMAIN r, i # j
            PROVE  r[i] # r[j]
        <5>1. i + 1 # j + 1
          BY <2>9, <4>1
        <5> QED
          BY <2>1, <2>9, <5>1
      <4> QED
        BY <4>1
    <3>2. r \in [1..Len(r) -> ToSet(r)]
      BY <2>7, <2>8 DEF ToSet
    <3>3. r \in Injection(1..Len(r), ToSet(r))
      BY <2>8, <3>1, <3>2 DEF Injection, IsInjective
    <3>4. r \in Surjection(1..Len(r), ToSet(r))
      BY <2>8, <3>2 DEF Surjection, ToSet
    <3>5. IsFiniteSet(1..Len(r)) /\ Cardinality(1..Len(r)) = Len(r)
      BY <2>8, FS_Interval
    <3> QED
      BY <3>3, <3>4, <3>5, FS_Surjection
  <2>12. ASSUME Len(r) < PageSize PROVE Cardinality(S \ ToSet(r)) <= 1
    <3>1. r = rest
      BY <2>7, <2>12
    <3>2. order \in Injection(1..c, S)
      BY <2>1 DEF Injection, IsInjective
    <3>3. Cardinality(1..c) = c
      BY <2>2, FS_Interval
    <3>4. order \in Surjection(1..c, S)
      BY <1>1, <3>2, <3>3, FS_Injection DEF c
    <3>5. ASSUME NEW p \in S, p \notin ToSet(r) PROVE p = order[1]
      <4>1. PICK i \in 1..c : order[i] = p
        BY <3>4 DEF Surjection
      <4>2. SUFFICES ASSUME i # 1 PROVE FALSE
        BY <4>1
      <4>3. i - 1 \in 1..(c - 1) /\ (i - 1) + 1 = i
        BY <2>2, <4>1, <4>2
      <4>4. rest[i - 1] = p
        BY <2>4, <4>1, <4>3
      <4> QED
        BY <2>5, <3>1, <3>5, <4>3, <4>4 DEF ToSet
    <3>6. S \ ToSet(r) \subseteq {order[1]}
      BY <3>5
    <3>7. Cardinality(S \ ToSet(r)) <= Cardinality({order[1]})
      BY <3>6, FS_Singleton, FS_Subset
    <3>8. Cardinality({order[1]}) = 1
      BY FS_Singleton
    <3> QED
      BY <3>7, <3>8
  <2> QED
    BY <2>7, <2>10, <2>11, <2>12 DEF ToSet
<1> QED
  BY <1>2, <1>3
-----------------------------------------------------------------------------
LEMMA InitPaging == Init => Paging
<1> SUFFICES ASSUME Init PROVE Paging
  OBVIOUS
<1>1. Hits \in SUBSET Posts
  BY DEF Init, Hits
<1>2. <<>> \in Seq(Posts) /\ Len(<<>>) <= PageSize
  BY SearchAssumption
<1>3. /\ page \in Seq(Posts) /\ Len(page) <= PageSize
      /\ random \in Seq(Posts) /\ Len(random) <= PageSize
  BY <1>2 DEF Init
<1>4. stayed \in SUBSET Posts
  BY <1>1 DEF Init
<1>5. TypeOK
  BY <1>3, <1>4 DEF Init, TypeOK
<1> QED
  BY <1>5 DEF Init, Paging

LEMMA RequestPagePaging ==
  ASSUME Paging, RequestPage
  PROVE  Paging'
<1>1. TypeOK
  BY DEF Paging
<1>2. /\ IsPage(page', Hits, olderThan)
      /\ Hits \in SUBSET Posts
      /\ ToSet(page') \subseteq Hits
      /\ page' \in Seq(Posts) /\ Len(page') \in Nat
      /\ page' # <<>> => /\ Last(page') \in ToSet(page')
                         /\ \A p \in ToSet(page') : p >= Last(page')
  BY <1>1, PageRequest
<1>3. /\ ~ended /\ UNCHANGED <<exclusion, word, excluded, stayed, random>>
      /\ shown' = shown \cup ToSet(page')
      /\ olderThan' = IF page' = <<>> THEN olderThan ELSE Last(page')
      /\ ended' = (Len(page') < PageSize)
      /\ astray' = (astray \/ olderThan \notin Hits \cup {0})
  BY DEF RequestPage, lists
<1>4. PageSize \in Nat /\ PageSize > 0 /\ Len(<<>>) = 0
  BY SearchAssumption
<1>5. /\ olderThan \in Nat /\ shown \in SUBSET Posts
      /\ \A p \in Posts : p \in Nat /\ p > 0
  BY <1>1, PostsFinite, SearchAssumption DEF TypeOK
<1>6. TypeOK'
  <2>1. page' \in Seq(Posts) /\ Len(page') <= PageSize
    BY <1>2 DEF IsPage
  <2>2. olderThan' \in Posts \cup {0}
    BY <1>1, <1>2, <1>3 DEF TypeOK
  <2>3. shown' \in SUBSET Posts
    BY <1>2, <1>3, <1>5
  <2>4. ended' \in BOOLEAN /\ astray' \in BOOLEAN
    BY <1>1, <1>3 DEF TypeOK
  <2> QED
    BY <1>1, <1>3, <2>1, <2>2, <2>3, <2>4 DEF TypeOK
<1>7. Hits' = Hits
  BY <1>3 DEF Hits
<1>8. CASE page' = <<>>
  <2>1. ToSet(page') = {}
    BY <1>8 DEF ToSet
  <2>2. shown' = shown /\ olderThan' = olderThan
    BY <1>3, <1>8, <2>1
  <2>3. Len(page') # PageSize
    BY <1>4, <1>8
  <2>4. ASSUME ~astray', NEW p \in stayed', p \notin shown' PROVE FALSE
    <3>1. ~astray /\ olderThan \in Hits \cup {0}
      BY <1>3, <2>4
    <3>2. p \in Hits /\ (olderThan = 0 \/ p < olderThan)
      BY <1>3, <2>2, <2>4, <3>1 DEF Paging
    <3> QED
      BY <1>2, <2>1, <2>3, <3>1, <3>2 DEF IsPage
  <2> QED
    BY <1>3, <1>6, <1>7, <2>2, <2>4 DEF Paging
<1>9. CASE page' # <<>>
  <2>1. /\ olderThan' = Last(page')
        /\ Last(page') \in ToSet(page')
        /\ \A p \in ToSet(page') : p >= Last(page')
    BY <1>2, <1>3, <1>9
  <2>2. olderThan' \in Nat /\ olderThan' > 0
    BY <1>2, <1>5, <2>1
  <2>3. olderThan # 0 => olderThan' < olderThan
    BY <1>2, <2>1 DEF IsPage, ToSet
  <2>4. ASSUME NEW p \in shown' PROVE p >= olderThan'
    <3>1. CASE p \in ToSet(page')
      BY <2>1, <3>1
    <3>2. CASE p \in shown
      <4>1. olderThan # 0 /\ p >= olderThan /\ p \in Nat
        BY <1>5, <3>2 DEF Paging
      <4> QED
        BY <1>5, <2>2, <2>3, <4>1
    <3> QED
      BY <1>3, <2>4, <3>1, <3>2
  <2>5. ASSUME ~astray', NEW p \in stayed', p \notin shown'
        PROVE  ~ended' /\ p < olderThan'
    <3>1. ~astray /\ olderThan \in Hits \cup {0}
      BY <1>3, <2>5
    <3>2. p \notin shown /\ p \notin ToSet(page')
      BY <1>3, <2>5
    <3>3. p \in Hits /\ (olderThan = 0 \/ p < olderThan)
      BY <1>3, <2>5, <3>1, <3>2 DEF Paging
    <3>4. Len(page') = PageSize /\ p < Last(page')
      BY <1>2, <3>1, <3>2, <3>3 DEF IsPage
    <3>5. ~(Len(page') < PageSize)
      BY <1>4, <3>4
    <3>6. ~ended'
      BY <1>3, <3>5
    <3> QED
      BY <2>1, <3>4, <3>6
  <2> QED
    BY <1>3, <1>6, <1>7, <2>2, <2>4, <2>5 DEF Paging
<1> QED
  BY <1>8, <1>9

LEMMA NextPaging == Paging /\ [Next]_vars => Paging'
<1> SUFFICES ASSUME Paging, [Next]_vars PROVE Paging'
  OBVIOUS
<1> USE DEF lists, session
<1>1. TypeOK
  BY DEF Paging
<1>2. CASE RequestPage
  BY <1>2, RequestPagePaging
<1>3. CASE RequestRandom
  <2>1. Hits \in SUBSET Posts /\ Hits' = Hits
    BY <1>1, <1>3 DEF TypeOK, Hits, RequestRandom
  <2>2. random' \in Seq(Hits) /\ Len(random') <= PageSize
    BY <1>3, <2>1, RandomPageProperties DEF RequestRandom
  <2>3. random' \in Seq(Posts)
    BY <2>1, <2>2, SeqMonotonic
  <2>4. TypeOK'
    BY <1>1, <1>3, <2>2, <2>3 DEF TypeOK, RequestRandom
  <2> QED
    BY <1>3, <2>1, <2>4 DEF Paging, RequestRandom
<1>4. CASE MergeWord
  <2>1. TypeOK' /\ Hits \subseteq Hits'
    BY <1>1, <1>4 DEF TypeOK, Hits, MergeWord
  <2> QED
    BY <1>4, <2>1 DEF Paging, MergeWord
<1>5. CASE MergeExcluded
  <2>1. TypeOK' /\ stayed' \subseteq stayed
    BY <1>1, <1>5 DEF TypeOK, MergeExcluded
  <2>2. stayed' \subseteq Hits'
    BY <1>1, <1>5 DEF TypeOK, Paging, Hits, MergeExcluded
  <2> QED
    BY <1>5, <2>1, <2>2 DEF Paging, MergeExcluded
<1>6. CASE DeleteWord
  <2>1. TypeOK' /\ stayed' \subseteq stayed
    BY <1>1, <1>6 DEF TypeOK, DeleteWord
  <2>2. stayed' \subseteq Hits'
    BY <1>1, <1>6 DEF TypeOK, Paging, Hits, DeleteWord
  <2> QED
    BY <1>6, <2>1, <2>2 DEF Paging, DeleteWord
<1>7. CASE UNCHANGED vars
  BY <1>1, <1>7 DEF Paging, TypeOK, Hits, vars
<1> QED
  BY <1>2, <1>3, <1>4, <1>5, <1>6, <1>7 DEF Next

(* Every state of the paging is one of the invariant.                      *)
THEOREM PagingInvariant == Spec => []Paging
<1>1. Init => Paging
  BY InitPaging
<1>2. Paging /\ [Next]_vars => Paging'
  BY NextPaging
<1> QED
  BY <1>1, <1>2, PTL DEF Spec

(* Pages are sequences of at most PageSize posts.                          *)
THEOREM TypeCorrect == Spec => []TypeOK
<1>1. Paging => TypeOK
  BY DEF Paging
<1> QED
  BY <1>1, PagingInvariant, PTL

(* A client that has gone through the pages has missed no post that was a  *)
(* hit all the time, when the last post of every page stays one            *)
(* (actions.go:169-175).                                                   *)
THEOREM AllPagesShown == Spec => []PagesComplete
<1>1. Paging => PagesComplete
  BY DEF Paging, PagesComplete
<1> QED
  BY <1>1, PagingInvariant, PTL

(* Whenever a page is asked for, it repeats no post of an earlier one, and *)
(* none of its own (actions.go:167-175).                                   *)
THEOREM PostsShownOnce == Spec => []NoPostTwice
<1>1. ASSUME Paging PROVE NoPostTwice
  <2> DEFINE next == SearchPage(Hits, olderThan)
  <2>1. SUFFICES ASSUME olderThan # 0, NEW i \in DOMAIN next
                 PROVE  /\ next[i] < olderThan /\ next[i] \notin shown
                        /\ \A j \in DOMAIN next : next[i] = next[j] => i = j
    BY DEF NoPostTwice
  <2>2. Hits \in SUBSET Posts /\ olderThan \in Posts \cup {0}
    BY <1>1 DEF Paging, TypeOK, Hits
  <2>3. IsPage(next, Hits, olderThan)
    BY <2>2, SearchPageIsPage
  <2> HIDE DEF next
  <2>4. next \in Seq(Hits) /\ NewerFirst(next) /\ next[i] < olderThan
    BY <2>1, <2>3 DEF IsPage
  <2>5. PICK n \in Nat : n = Len(next) /\ DOMAIN next = 1..n
    BY <2>4, LenProperties
  <2>6. \A k \in DOMAIN next : next[k] \in Nat
    BY <2>2, <2>4, <2>5, ElementOfSeq, SearchAssumption
  <2>7. next[i] \notin shown
    <3>1. \A p \in shown : p >= olderThan
      BY <1>1, <2>1 DEF Paging
    <3>2. olderThan \in Nat
      BY <2>2, SearchAssumption
    <3> QED
      BY <2>1, <2>4, <2>6, <3>1, <3>2
  <2>8. ASSUME NEW j \in DOMAIN next, next[i] = next[j] PROVE i = j
    <3>1. i \in Nat /\ j \in Nat /\ next[i] \in Nat /\ next[j] \in Nat
      BY <2>1, <2>5, <2>6
    <3> QED
      BY <2>1, <2>4, <2>8, <3>1 DEF NewerFirst
  <2> QED
    BY <2>4, <2>7, <2>8
<1> QED
  BY <1>1, PagingInvariant, PTL

(* Random pages show hits, none of them twice, and a page that is not full *)
(* misses one at most (shuffle.go).                                        *)
THEOREM RandomPostsOnce == Spec => RandomHitsOnce
<1>1. ASSUME Paging, [Next]_vars, random' # random
      PROVE  /\ Cardinality(ToSet(random')) = Len(random')
             /\ ToSet(random') \subseteq Hits
             /\ Len(random') < PageSize =>
                  Cardinality(Hits \ ToSet(random')) <= 1
  <2>1. RequestRandom
    BY <1>1 DEF Next, RequestPage, MergeWord, MergeExcluded, DeleteWord, vars
  <2>2. Hits \in SUBSET Posts
    BY <1>1 DEF Paging, TypeOK, Hits
  <2>3. random' \in RandomPages(Hits)
    BY <2>1 DEF RequestRandom
  <2> QED
    BY <2>2, <2>3, RandomPageProperties
<1>2. Paging /\ [Next]_vars =>
        [random' # random =>
           /\ Cardinality(ToSet(random')) = Len(random')
           /\ ToSet(random') \subseteq Hits
           /\ Len(random') < PageSize =>
                Cardinality(Hits \ ToSet(random')) <= 1]_vars
  BY <1>1
<1> QED
  BY <1>2, PagingInvariant, PTL DEF Spec, RandomHitsOnce
=============================================================================
