----------------------- MODULE CombinedIteratorProofs -----------------------
(***************************************************************************)
(* The combined iterators implement ItemIterator, for every set of ids.    *)
(***************************************************************************)
EXTENDS CombinedIterator, WellFoundedInduction, TLAPS

-----------------------------------------------------------------------------
(* A set of natural numbers that is not empty has a least element.         *)
LEMMA LeastNat ==
  ASSUME NEW S \in SUBSET Nat, S # {}
  PROVE  \E x \in S : \A y \in S : x <= y
<1> DEFINE R == {ss \in Nat \X Nat : ss[1] < ss[2]}
<1>1. IsWellFoundedOn(R, Nat)
  BY NatLessThanWellFounded DEF OpToRel
<1>2. \A x, y \in Nat : <<y, x>> \in R <=> y < x
  OBVIOUS
<1> HIDE DEF R
<1>3. PICK x \in S : \A y \in S : ~ (<<y, x>> \in R)
  BY <1>1, WFMin
<1>4. ASSUME NEW y \in S PROVE x <= y
  <2>1. ~ (y < x)
    BY <1>2, <1>3
  <2> QED
    BY <2>1
<1> QED
  BY <1>4

(* A set of ids that is not empty has a least element, and only one.       *)
LEMMA LeastId ==
  ASSUME NEW S \in SUBSET Ids, S # {}
  PROVE  /\ Least(S) \in S /\ Least(S) \in Int
         /\ \A y \in S : y \in Int /\ Least(S) <= y
<1> DEFINE N == {x - MinId : x \in S}
<1>1. \A x \in S : x \in Int /\ MinId <= x
  BY IdsAssumption
<1>2. N # {}
  OBVIOUS
<1>3. \A x \in S : x - MinId \in Nat
  BY <1>1, IdsAssumption
<1>4. N \in SUBSET Nat
  BY <1>3
<1> HIDE DEF N
<1>5. PICK n \in N : \A m \in N : n <= m
  BY <1>2, <1>4, LeastNat
<1>6. PICK x \in S : n = x - MinId
  BY DEF N
<1>7. ASSUME NEW y \in S PROVE x <= y
  <2>1. y - MinId \in N
    BY DEF N
  <2>2. x - MinId <= y - MinId
    BY <2>1, <1>5, <1>6
  <2> QED
    BY <2>2, <1>1, IdsAssumption
<1>8. Least(S) \in S /\ \A y \in S : Least(S) <= y
  BY <1>7 DEF Least
<1> QED
  BY <1>1, <1>8

LEMMA LeastIs ==
  ASSUME NEW S \in SUBSET Ids, NEW x \in S, \A y \in S : x <= y
  PROVE  Least(S) = x
<1>1. Least(S) \in S /\ Least(S) <= x /\ x <= Least(S)
  BY LeastId
<1>2. Least(S) \in Int /\ x \in Int
  BY LeastId
<1> QED
  BY <1>1, <1>2

LEMMA AbstractLeast == \A S : Abstract!Least(S) = Least(S)
BY DEF Abstract!Least, Least
-----------------------------------------------------------------------------
(* What the loops of the methods do to the combination.                    *)

LEMMA CombinedType ==
  ASSUME TypeOK
  PROVE  Combined \in SUBSET Ids
BY DEF TypeOK, Kinds, Combined

(* What the two children show.                                             *)
LEMMA ChildHeads ==
  ASSUME TypeOK
  PROVE  /\ first # {} => /\ Least(first) \in first /\ Least(first) \in Int
                          /\ \A y \in first : y \in Int /\ Least(first) <= y
         /\ second # {} => /\ Least(second) \in second /\ Least(second) \in Int
                           /\ \A y \in second : y \in Int /\ Least(second) <= y
BY LeastId DEF TypeOK

(* A pass that finds a hit stands on the first post of the combination.    *)
LEMMA HitIsLeast ==
  ASSUME TypeOK, OnHit
  PROVE  /\ Head \in Combined /\ Head \in Int
         /\ \A y \in Combined : y \in Int /\ Head <= y
         /\ Head = Least(Combined)
<1>1. Head \in Combined /\ Head \in Int /\ \A y \in Combined : y \in Int /\ Head <= y
  <2>1. CASE kind = "and"
    BY <2>1, ChildHeads DEF OnHit, Head, Combined, BothHaveMore
  <2>2. CASE kind = "or"
    <3>1. CASE second = {}
      BY <3>1, <2>2, ChildHeads DEF OnHit, Head, Combined
    <3>2. CASE first = {}
      BY <3>2, <2>2, ChildHeads DEF OnHit, Head, Combined
    <3>3. CASE first # {} /\ second # {}
      BY <3>3, <2>2, ChildHeads DEF OnHit, Head, Combined, FirstIsBefore
    <3> QED
      BY <3>1, <3>2, <3>3
  <2>3. CASE kind = "diff"
    <3>1. CASE second = {}
      BY <3>1, <2>3, ChildHeads DEF OnHit, Head, Combined
    <3>2. CASE second # {}
      <4>1. first # {} /\ Least(first) < Least(second)
        BY <3>2, <2>3 DEF OnHit, FirstIsBefore
      <4>2. Head = Least(first) /\ Combined = first \ second
        BY <2>3 DEF Head, Combined
      <4>3. Least(first) \notin second
        BY <4>1, <3>2, ChildHeads
      <4> QED
        BY <4>1, <4>2, <4>3, ChildHeads
    <3> QED
      BY <3>1, <3>2
  <2> QED
    BY <2>1, <2>2, <2>3 DEF TypeOK, Kinds
<1> QED
  BY <1>1, LeastIs, CombinedType

(* A pass that finds the end has nothing left.                             *)
LEMMA EndIsEmpty ==
  ASSUME TypeOK, AtEnd
  PROVE  Combined = {}
BY DEF TypeOK, Kinds, AtEnd, Combined, BothHaveMore

(* A pass that moves a child is neither, and it loses nothing.             *)
LEMMA PassKeeps ==
  ASSUME TypeOK, AndPass \/ DiffPass, kind' = kind
  PROVE  /\ Combined' = Combined
         /\ ~OnHit
         /\ first' \in SUBSET Ids /\ second' \in SUBSET Ids
<1>1. CASE AndPass
  <2>1. CASE FirstIsBefore /\ first' = From(first, Least(second)) /\ UNCHANGED second
    <3>1. \A x \in first \cap second : Least(second) <= x
      BY <1>1, ChildHeads DEF AndPass, BothHaveMore
    <3>2. first' \cap second' = first \cap second
      BY <2>1, <3>1 DEF From
    <3>3. ~OnHit
      BY <1>1, <2>1, ChildHeads DEF AndPass, BothHaveMore, OnHit, FirstIsBefore
    <3> QED
      BY <1>1, <2>1, <3>2, <3>3 DEF AndPass, Combined, From, TypeOK
  <2>2. CASE SecondIsBefore /\ second' = From(second, Least(first)) /\ UNCHANGED first
    <3>1. \A x \in first \cap second : Least(first) <= x
      BY <1>1, ChildHeads DEF AndPass, BothHaveMore
    <3>2. first' \cap second' = first \cap second
      BY <2>2, <3>1 DEF From
    <3>3. ~OnHit
      BY <1>1, <2>2, ChildHeads DEF AndPass, BothHaveMore, OnHit, SecondIsBefore
    <3> QED
      BY <1>1, <2>2, <3>2, <3>3 DEF AndPass, Combined, From, TypeOK
  <2> QED
    BY <1>1, <2>1, <2>2 DEF AndPass
<1>2. CASE DiffPass
  <2> DEFINE a == Least(first)
             b == Least(second)
  <2>1. /\ kind = "diff" /\ first # {} /\ second # {}
        /\ ~(a < b) /\ second' = From(second, a)
    BY <1>2 DEF DiffPass, BothHaveMore, FirstIsBefore
  <2>2. ~OnHit
    BY <2>1 DEF OnHit, FirstIsBefore
  <2>3. \A x \in first : a <= x
    BY <2>1, ChildHeads
  <2>4. CASE SecondIsBefore
    <3>1. first' = first
      BY <1>2, <2>4 DEF DiffPass
    <3>2. first' \ second' = first \ second
      BY <2>1, <2>3, <3>1 DEF From
    <3> QED
      BY <2>1, <2>2, <3>1, <3>2 DEF Combined, From, TypeOK
  <2>5. CASE ~SecondIsBefore
    <3>1. first' = first \ {a}
      BY <1>2, <2>5 DEF DiffPass
    <3>2. a = b
      BY <2>1, <2>5, ChildHeads DEF SecondIsBefore
    <3>3. a \in second
      BY <2>1, <3>2, ChildHeads
    <3>4. first' \ second' = first \ second
      BY <2>1, <2>3, <3>1, <3>3 DEF From
    <3> QED
      BY <2>1, <2>2, <3>1, <3>4 DEF Combined, From, TypeOK
  <2> QED
    BY <2>4, <2>5
<1> QED
  BY <1>1, <1>2

(* Next takes the head, and only it, from the combination.                 *)
LEMMA MoveTakes ==
  ASSUME TypeOK, OnHit, Move, kind' = kind
  PROVE  /\ Combined' = Combined \ {Head}
         /\ first' \in SUBSET Ids /\ second' \in SUBSET Ids
BY DEF TypeOK, Kinds, Move, Combined
-----------------------------------------------------------------------------
(* When HasMore has said yes, the iterator still stands on the hit that it *)
(* found: this is what makes StandsOnHit inductive.                        *)
AskedAndUnmoved == more => OnHit /\ call # "SkipUntil"

IInv == TypeOK /\ AskedAndUnmoved

LEMMA InvariantStep ==
  ASSUME IInv, [Next]_vars
  PROVE  IInv'
<1> USE DEF IInv
<1> DEFINE SameLists == UNCHANGED <<kind, first, second>>
<1>1. ASSUME SameLists PROVE OnHit' = OnHit
  BY <1>1 DEF OnHit, BothHaveMore, FirstIsBefore
<1>2. ASSUME more, OnHit PROVE Head \in Ids
  BY <1>2, HitIsLeast, CombinedType
<1>3. CASE CallHasMore
  BY <1>1, <1>3 DEF CallHasMore, TypeOK, AskedAndUnmoved, Abstract!Calls
<1>4. CASE Pass
  <2>1. ~OnHit /\ first' \in SUBSET Ids /\ second' \in SUBSET Ids
    BY <1>4, PassKeeps DEF Pass
  <2>2. ~more'
    BY <1>4, <2>1 DEF Pass, AskedAndUnmoved
  <2> QED
    BY <1>4, <2>1, <2>2 DEF Pass, TypeOK, AskedAndUnmoved
<1>5. CASE HasMore
  <2>1. more' \in BOOLEAN
    BY <1>5 DEF HasMore, OnHit, BothHaveMore, TypeOK, Kinds
  <2> QED
    BY <1>1, <1>5, <2>1 DEF HasMore, TypeOK, AskedAndUnmoved, Abstract!Calls
<1>6. CASE Peek
  BY <1>1, <1>2, <1>6 DEF Peek, TypeOK, AskedAndUnmoved
<1>7. CASE NextItem
  <2>1. OnHit /\ Head \in Ids
    BY <1>2, <1>7 DEF NextItem, AskedAndUnmoved
  <2>2. first' \in SUBSET Ids /\ second' \in SUBSET Ids
    BY <1>7, <2>1, MoveTakes DEF NextItem
  <2> QED
    BY <1>7, <2>1, <2>2 DEF NextItem, TypeOK, AskedAndUnmoved
<1>8. CASE CallSkipUntil
  BY <1>8 DEF CallSkipUntil, TypeOK, AskedAndUnmoved, Abstract!Calls
<1>9. CASE Skip
  <2>1. first' \in SUBSET Ids /\ second' \in SUBSET Ids
    BY <1>9, MoveTakes DEF Skip
  <2>2. ~more'
    BY <1>9 DEF Skip, AskedAndUnmoved
  <2> QED
    BY <1>9, <2>1, <2>2 DEF Skip, TypeOK, AskedAndUnmoved
<1>10. CASE SkipUntil
  BY <1>1, <1>10 DEF SkipUntil, TypeOK, AskedAndUnmoved, Abstract!Calls
<1>11. CASE UNCHANGED vars
  BY <1>1, <1>11 DEF vars, TypeOK, AskedAndUnmoved
<1> QED
  BY <1>3, <1>4, <1>5, <1>6, <1>7, <1>8, <1>9, <1>10, <1>11 DEF Next

LEMMA InvariantInit == Init => IInv
BY DEF Init, IInv, TypeOK, AskedAndUnmoved, Abstract!Calls

(* The variables of a combined iterator keep their types.                  *)
THEOREM TypeCorrect == Spec => []TypeOK
<1>1. IInv => TypeOK
  BY DEF IInv
<1> QED
  BY <1>1, InvariantInit, InvariantStep, PTL DEF Spec

(* Peek and Next hand out the first hit whenever HasMore has said yes,     *)
(* though they only look at the first child (iterators.go:258-264).        *)
THEOREM PeekIsAHit == Spec => []StandsOnHit
<1>1. IInv => StandsOnHit
  BY HitIsLeast DEF IInv, AskedAndUnmoved, StandsOnHit
<1> QED
  BY <1>1, InvariantInit, InvariantStep, PTL DEF Spec
-----------------------------------------------------------------------------
(* Every step is a step of the abstract iterator or leaves it alone.       *)
LEMMA AbstractStep ==
  ASSUME IInv, [Next]_vars
  PROVE  [Abstract!IteratorNext]_(Abstract!iteratorVars)
<1> USE DEF IInv, Abstract!IteratorNext
<1>1. ASSUME UNCHANGED <<kind, first, second>> PROVE Combined' = Combined
  BY <1>1 DEF Combined
<1>2. OnHit => /\ Combined # {} /\ Head = Abstract!Least(Combined)
               /\ \A y \in Combined : y \in Int /\ Head <= y
  BY HitIsLeast, AbstractLeast
<1>3. AtEnd => Combined = {}
  BY EndIsEmpty
<1>4. CASE CallHasMore
  BY <1>1, <1>4 DEF CallHasMore, Abstract!CallHasMore
<1>5. CASE Pass
  <2>1. Combined' = Combined
    BY <1>5, PassKeeps DEF Pass
  <2> QED
    BY <1>5, <2>1 DEF Pass, Abstract!iteratorVars
<1>6. CASE HasMore
  <2>1. OnHit = (Combined # {})
    <3>1. OnHit \in BOOLEAN
      BY DEF OnHit, BothHaveMore, TypeOK, Kinds
    <3> QED
      BY <1>2, <1>3, <1>6, <3>1 DEF HasMore
  <2> QED
    BY <1>1, <1>6, <2>1 DEF HasMore, Abstract!HasMore
<1>7. CASE Peek
  BY <1>1, <1>2, <1>7 DEF Peek, Abstract!Peek, AskedAndUnmoved
<1>8. CASE NextItem
  <2>1. OnHit
    BY <1>8 DEF NextItem, AskedAndUnmoved
  <2>2. Combined' = Combined \ {Head}
    BY <1>8, <2>1, MoveTakes DEF NextItem
  <2> QED
    BY <1>2, <1>8, <2>1, <2>2 DEF NextItem, Abstract!NextItem
<1>9. CASE CallSkipUntil
  BY <1>1, <1>9 DEF CallSkipUntil, Abstract!CallSkipUntil
<1>10. CASE Skip
  <2>1. Combined' = Combined \ {Head}
    BY <1>10, MoveTakes DEF Skip
  <2> QED
    BY <1>2, <1>10, <2>1 DEF Skip, Abstract!Skip
<1>11. CASE SkipUntil
  <2>1. \A y \in Combined : until <= y
    <3>1. CASE AtEnd
      BY <1>3, <3>1
    <3>2. CASE OnHit /\ until <= Head
      <4>1. until \in Int /\ Head \in Int
        BY <3>2, HitIsLeast, IdsAssumption DEF TypeOK
      <4> QED
        BY <1>2, <3>2, <4>1
    <3> QED
      BY <1>11, <3>1, <3>2 DEF SkipUntil
  <2> QED
    BY <1>1, <1>11, <2>1 DEF SkipUntil, Abstract!SkipUntil
<1>12. CASE UNCHANGED vars
  BY <1>1, <1>12 DEF vars, Abstract!iteratorVars
<1> QED
  BY <1>4, <1>5, <1>6, <1>7, <1>8, <1>9, <1>10, <1>11, <1>12 DEF Next

(* The and, the or and the difference of two iterators are iterators over  *)
(* the intersection, the union and the difference, so the iterator of a    *)
(* whole query is one as well (iterators.go:219-422, execute.go).          *)
THEOREM Refinement == Spec => Implements
<1>1. Init => Abstract!IteratorInit
  BY InvariantInit, CombinedType DEF Init, IInv, Abstract!IteratorInit
<1> QED
  BY <1>1, InvariantInit, InvariantStep, AbstractStep, PTL
     DEF Spec, Implements, Abstract!IteratorSpec
=============================================================================
