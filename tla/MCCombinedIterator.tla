------------------------- MODULE MCCombinedIterator -------------------------
(* Every pair of lists over four posts, and every sequence of calls.       *)
EXTENDS CombinedIterator

FourIds == {-4, -3, -2, -1}
LeastId == -4
=============================================================================
