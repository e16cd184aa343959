-------------------------- MODULE CombinedIterator --------------------------
(***************************************************************************)
(* The iterators that combine the results of two others, of which the      *)
(* query engine builds the iterator of a query (store/iterators.go): both  *)
(* of them (and), any of them (or), the first without the second (diff).   *)
(*                                                                         *)
(* The two children are iterators as ItemIterator promises them, each one  *)
(* the set of the posts it has still to give.  HasMore is a loop that      *)
(* moves the children until they show whether there is a hit: one pass of  *)
(* it is one step, and a pass asks the children for more before it peeks.  *)
(***************************************************************************)
EXTENDS Integers

CONSTANTS
  Ids,    \* the ids of the posts, negated
  MinId   \* the smallest id there can be, that of an int32

ASSUME IdsAssumption == MinId \in Int /\ Ids \subseteq {x \in Int : MinId <= x}

VARIABLES
  kind,           \* the type of the iterator
  first, second,  \* what the children have still to give
  call,           \* the method that is at work, "none" between two calls
  until,          \* the argument of SkipUntil
  more,           \* HasMore has said yes, and the iterator was not moved since
  value           \* what Peek or Next returned last

vars == <<kind, first, second, call, until, more, value>>

Kinds == {"and", "or", "diff"}

(* The posts that the combination has still to give. *)
Combined ==
  CASE kind = "and"  -> first \cap second
    [] kind = "or"   -> first \cup second
    [] kind = "diff" -> first \ second

Abstract == INSTANCE ItemIterator WITH rest <- Combined

Least(S) == CHOOSE x \in S : \A y \in S : x <= y

TypeOK ==
  /\ kind \in Kinds
  /\ first \in SUBSET Ids /\ second \in SUBSET Ids
  /\ call \in Abstract!Calls /\ until \in Ids \cup {0}
  /\ more \in BOOLEAN /\ value \in Ids \cup {0}

Init ==
  /\ kind \in Kinds
  /\ first \in SUBSET Ids /\ second \in SUBSET Ids
  /\ call = "none" /\ until = 0 /\ more = FALSE /\ value = 0
-----------------------------------------------------------------------------
(* IteratorSkipUntil on a child. *)
From(S, v) == {x \in S : v <= x}

FirstIsBefore  == Least(first) < Least(second)
SecondIsBefore == Least(second) < Least(first)
BothHaveMore   == first # {} /\ second # {}

(* A variant of the test of diffIterator that takes a post of both lists   *)
(* for a hit.                                                              *)
OnHitOfBoth ==
  CASE kind = "and"  -> BothHaveMore /\ Least(first) = Least(second)
    [] kind = "or"   -> first # {} \/ second # {}
    [] kind = "diff" -> first # {} /\ (second # {} => ~SecondIsBefore)

(* The pass shows that there is a hit. *)
OnHit ==
  CASE kind = "and"  -> BothHaveMore /\ Least(first) = Least(second)
    [] kind = "or"   -> first # {} \/ second # {}
    [] kind = "diff" -> first # {} /\ (second # {} => FirstIsBefore)

(* The pass shows that there is none. *)
AtEnd ==
  CASE kind = "and"  -> ~BothHaveMore
    [] kind = "or"   -> first = {} /\ second = {}
    [] kind = "diff" -> first = {}

(* A variant that compares the children the wrong way around: the child    *)
(* that is behind waits for the other, and neither moves.                  *)
AndPassSwapped ==
  /\ kind = "and" /\ BothHaveMore
  /\ \/ /\ FirstIsBefore
        /\ second' = From(second, Least(first))
        /\ UNCHANGED first
     \/ /\ SecondIsBefore
        /\ first' = From(first, Least(second))
        /\ UNCHANGED second

(* The pass of andIterator.HasMore that moves a child. *)
AndPass ==
  /\ kind = "and" /\ BothHaveMore
  /\ \/ /\ FirstIsBefore
        /\ first' = From(first, Least(second))
        /\ UNCHANGED second
     \/ /\ SecondIsBefore
        /\ second' = From(second, Least(first))
        /\ UNCHANGED first

(* The pass of diffIterator.HasMore that moves a child. *)
DiffPass ==
  /\ kind = "diff" /\ BothHaveMore
  /\ ~FirstIsBefore
  /\ second' = From(second, Least(first))
  /\ IF SecondIsBefore THEN UNCHANGED first
                       ELSE first' = first \ {Least(first)}

(* A variant that gives the ids as the caller of the service knows them.   *)
HeadNegated ==
  IF kind = "or" /\ (first = {} \/ (second # {} /\ ~FirstIsBefore))
  THEN - Least(second)
  ELSE - Least(first)

(* What Peek returns, and Next before it moves. *)
Head ==
  IF kind = "or" /\ (first = {} \/ (second # {} /\ ~FirstIsBefore))
  THEN Least(second)
  ELSE Least(first)

(* A variant of orIterator.Next that leaves the post to the second child.  *)
MoveFirstOnly ==
  /\ first' = first \ {Head}
  /\ IF kind = "or" /\ Head \notin first THEN second' = second \ {Head}
                                         ELSE UNCHANGED second

(* Next: a post that both children of an or show is taken from both.       *)
Move ==
  /\ first' = first \ {Head}
  /\ IF kind = "or" THEN second' = second \ {Head} ELSE UNCHANGED second
-----------------------------------------------------------------------------
CallHasMore ==
  /\ call = "none"
  /\ call' = "HasMore"
  /\ UNCHANGED <<kind, first, second, until, more, value>>

Pass ==
  /\ call # "none"
  /\ AndPass \/ DiffPass
  /\ UNCHANGED <<kind, call, until, more, value>>

HasMore ==
  /\ call = "HasMore" /\ (OnHit \/ AtEnd)
  /\ call' = "none"
  /\ more' = OnHit
  /\ UNCHANGED <<kind, first, second, until, value>>

Peek ==
  /\ call = "none" /\ more
  /\ value' = Head
  /\ UNCHANGED <<kind, first, second, call, until, more>>

NextItem ==
  /\ call = "none" /\ more
  /\ value' = Head
  /\ Move
  /\ more' = FALSE
  /\ UNCHANGED <<kind, call, until>>

CallSkipUntil ==
  /\ call = "none"
  /\ call' = "SkipUntil" /\ until' \in Ids
  /\ more' = FALSE
  /\ UNCHANGED <<kind, first, second, value>>

Skip ==
  /\ call = "SkipUntil"
  /\ OnHit /\ Head < until
  /\ Move
  /\ UNCHANGED <<kind, call, until, more, value>>

SkipUntil ==
  /\ call = "SkipUntil"
  /\ AtEnd \/ (OnHit /\ until <= Head)
  /\ call' = "none"
  /\ UNCHANGED <<kind, first, second, until, more, value>>

Next ==
  \/ CallHasMore \/ Pass \/ HasMore \/ Peek \/ NextItem
  \/ CallSkipUntil \/ Skip \/ SkipUntil

Spec == Init /\ [][Next]_vars

(* A call runs until it returns. *)
FairSpec == Spec /\ WF_vars(Pass \/ HasMore \/ Skip \/ SkipUntil)
-----------------------------------------------------------------------------
(* When HasMore has said yes, the child that Peek and Next look at stands  *)
(* on the first hit: andIterator and diffIterator hand out whatever their  *)
(* first child shows (iterators.go:259, 263, 406, 410).                    *)
StandsOnHit == more => Combined # {} /\ Head = Least(Combined)

(* The combination is an iterator over the intersection, the union or the  *)
(* difference, whatever the children hold and however it is called.        *)
Implements == Abstract!IteratorSpec

(* Every call returns: the loops of HasMore (iterators.go:240, 384) move a *)
(* child in every pass that does not end them.                             *)
CallsReturn == call # "none" ~> call = "none"
=============================================================================
