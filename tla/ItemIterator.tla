---------------------------- MODULE ItemIterator ----------------------------
(***************************************************************************)
(* What an ItemIterator promises (store/iterators.go): it goes through a   *)
(* set of posts in ascending order and gives each of them once.  The ids   *)
(* are negative, so the newest post comes first.                           *)
(*                                                                         *)
(* The caller's side is the protocol that every loop of the code follows:  *)
(* Peek and Next are called when HasMore has said yes and the iterator was *)
(* not moved since.  HasMore and SkipUntil may take a while, as they are   *)
(* loops over other iterators; SkipUntil drops its posts one at a time.    *)
(***************************************************************************)
EXTENDS Integers

CONSTANT Ids    \* the ids of the posts, negated

VARIABLES
  rest,   \* the posts that are still to come
  call,   \* the method that is at work, "none" between two calls
  until,  \* the argument of SkipUntil
  more,   \* HasMore has said yes, and the iterator was not moved since
  value   \* what Peek or Next returned last

iteratorVars == <<rest, call, until, more, value>>

Calls == {"none", "HasMore", "SkipUntil"}

Least(S) == CHOOSE x \in S : \A y \in S : x <= y

IteratorInit ==
  /\ rest \in SUBSET Ids
  /\ call = "none" /\ until = 0 /\ more = FALSE /\ value = 0

CallHasMore ==
  /\ call = "none"
  /\ call' = "HasMore"
  /\ UNCHANGED <<rest, until, more, value>>

HasMore ==
  /\ call = "HasMore"
  /\ call' = "none"
  /\ more' = (rest # {})
  /\ UNCHANGED <<rest, until, value>>

Peek ==
  /\ call = "none" /\ more
  /\ rest # {} /\ value' = Least(rest)
  /\ UNCHANGED <<rest, call, until, more>>

NextItem ==
  /\ call = "none" /\ more
  /\ rest # {} /\ value' = Least(rest)
  /\ rest' = rest \ {Least(rest)}
  /\ more' = FALSE
  /\ UNCHANGED <<call, until>>

CallSkipUntil ==
  /\ call = "none"
  /\ call' = "SkipUntil" /\ until' \in Ids
  /\ more' = FALSE
  /\ UNCHANGED <<rest, value>>

Skip ==
  /\ call = "SkipUntil"
  /\ rest # {} /\ Least(rest) < until
  /\ rest' = rest \ {Least(rest)}
  /\ UNCHANGED <<call, until, more, value>>

SkipUntil ==
  /\ call = "SkipUntil"
  /\ \A x \in rest : until <= x
  /\ call' = "none"
  /\ UNCHANGED <<rest, until, more, value>>

IteratorNext ==
  \/ CallHasMore \/ HasMore \/ Peek \/ NextItem
  \/ CallSkipUntil \/ Skip \/ SkipUntil

IteratorSpec == IteratorInit /\ [][IteratorNext]_iteratorVars
=============================================================================
