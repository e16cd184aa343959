---------------------------- MODULE ListIterator ----------------------------
(***************************************************************************)
(* The iterators over one list: that of a slice, and those of the three    *)
(* codecs a list is stored with (iterators.go, int24.go, int32.go).  They  *)
(* read the bytes that the codec has written and differ in where they      *)
(* stand: two of them have decoded the head of the list in advance, the    *)
(* others look at it when they are asked.                                  *)
(***************************************************************************)
EXTENDS Codecs

CONSTANTS
  Ids,     \* the ids of the posts, negated
  Codecs   \* the types of iterators to look at

(* The lists of the builder are made of 24 bits: the ids that fit.         *)
ASSUME IdsAssumption ==
  /\ \A id \in Ids : id \in Int /\ -8388608 <= id /\ id <= 8388607
  /\ Codecs \subseteq {"slice", "varint", "int24", "int32"}

VARIABLES
  codec,   \* the type of the iterator
  list,    \* history: the elements that were encoded, in ascending order
  bytes,   \* the list as it is stored; the values of a slice
  pos,     \* it.pos: how many bytes (int32, slice: numbers) are behind
  head,    \* it.next, the element decoded in advance
  ended,   \* ~it.more of the decompressing iterator
  passed,  \* history: the elements that were returned or skipped
  call, until, more, value   \* as in ItemIterator

listVars == <<codec, list, bytes, pos, head, ended, passed>>
vars == <<listVars, call, until, more, value>>

Lists == {Ascending(S) : S \in (SUBSET Ids) \ {{}}}

From(b, p) == SubSeq(b, p + 1, Len(b))

Int24At(b, p) == BytesToInt24(SubSeq(b, p + 1, p + 3))

(* A variant in which the iterators start as if they had decoded a head.   *)
StartPastFirst(c, b) ==
  CASE c = "varint" ->
         [pos |-> FastVarint32(b).n, head |-> FastVarint32(b).value]
    [] c = "int24"  -> [pos |-> 3, head |-> Int24At(b, 0)]
    [] c = "int32"  -> [pos |-> 1, head |-> 0]
    [] c = "slice"  -> [pos |-> 0, head |-> 0]

(* Where an iterator stands once it is made: the varint iterator behind    *)
(* the first element, int24 before it.  NewInt32Iterator calls Next though *)
(* it decodes nothing in advance.                                          *)
Start(c, b) ==
  CASE c = "varint" ->
         [pos |-> FastVarint32(b).n, head |-> FastVarint32(b).value]
    [] c = "int24"  -> [pos |-> 0, head |-> Int24At(b, 0)]
    [] c = "int32"  -> [pos |-> 1, head |-> 0]
    [] c = "slice"  -> [pos |-> 0, head |-> 0]

Init ==
  /\ codec \in Codecs /\ list \in Lists
  /\ bytes = IF codec = "slice" THEN list ELSE Encode(codec, list)
  /\ pos = Start(codec, bytes).pos /\ head = Start(codec, bytes).head
  /\ ended = FALSE /\ passed = {}
  /\ call = "none" /\ until = 0 /\ more = FALSE /\ value = 0
-----------------------------------------------------------------------------
HasMoreNow ==
  CASE codec = "varint" -> ~ended
    [] codec = "int32" -> pos < Len(bytes) \div 4
    [] codec \in {"int24", "slice"} -> pos < Len(bytes)

Shown ==
  CASE codec \in {"varint", "int24"} -> head
    [] codec = "int32" -> BytesToInt32(SubSeq(bytes, 4 * pos + 1, 4 * pos + 4))
    [] codec = "slice" -> bytes[pos + 1]

(* advance of the decompressing iterator: a step beyond the last byte only *)
(* says that there is no more.  A varint that cannot be decoded panics,    *)
(* which ends the iterator as well.                                        *)
AdvanceVarint ==
  LET next == FastVarint32(From(bytes, pos))
  IN IF pos < Len(bytes) /\ next.n > 0
     THEN /\ pos' = pos + next.n
          /\ head' = next.value + head
          /\ UNCHANGED ended
     ELSE ended' = TRUE /\ UNCHANGED <<pos, head>>

(* A variant of Next of int24 that decodes the element it has just left.   *)
AdvanceInt24Behind ==
  /\ pos' = pos + 3
  /\ head' = IF pos' < Len(bytes) THEN Int24At(bytes, pos) ELSE head
  /\ UNCHANGED ended

(* Next of int24 decodes the element after the one it returns.             *)
AdvanceInt24 ==
  /\ pos' = pos + 3
  /\ head' = IF pos' < Len(bytes) THEN Int24At(bytes, pos') ELSE head
  /\ UNCHANGED ended

Advance ==
  /\ CASE codec = "varint" -> AdvanceVarint
       [] codec = "int24"  -> AdvanceInt24
       [] codec \in {"slice", "int32"} ->
            pos' = pos + 1 /\ UNCHANGED <<head, ended>>
  /\ passed' = passed \cup {Shown}
  /\ UNCHANGED <<codec, list, bytes>>

CallHasMore ==
  /\ call = "none"
  /\ call' = "HasMore"
  /\ UNCHANGED <<listVars, until, more, value>>

HasMore ==
  /\ call = "HasMore"
  /\ call' = "none"
  /\ more' = HasMoreNow
  /\ UNCHANGED <<listVars, until, value>>

Peek ==
  /\ call = "none" /\ more
  /\ value' = Shown
  /\ UNCHANGED <<listVars, call, until, more>>

NextItem ==
  /\ call = "none" /\ more
  /\ value' = Shown
  /\ Advance
  /\ more' = FALSE
  /\ UNCHANGED <<call, until>>

CallSkipUntil ==
  /\ call = "none"
  /\ call' = "SkipUntil" /\ until' \in Ids
  /\ more' = FALSE
  /\ UNCHANGED <<listVars, value>>

Skip ==
  /\ call = "SkipUntil"
  /\ HasMoreNow /\ Shown < until
  /\ Advance
  /\ UNCHANGED <<call, until, more, value>>

SkipUntil ==
  /\ call = "SkipUntil"
  /\ ~(HasMoreNow /\ Shown < until)
  /\ call' = "none"
  /\ UNCHANGED <<listVars, until, more, value>>

Next ==
  \/ CallHasMore \/ HasMore \/ Peek \/ NextItem
  \/ CallSkipUntil \/ Skip \/ SkipUntil

Spec == Init /\ [][Next]_vars
-----------------------------------------------------------------------------
(* The elements behind a position.  The last byte of a varint is below 128.*)
ElementsBehind(p) ==
  CASE codec = "varint" -> Cardinality({i \in 1..p : bytes[i] < 128})
    [] codec = "int24" -> p \div 3
    [] codec \in {"slice", "int32"} -> p

(* The elements that the iterator has still to give: varint has decoded    *)
(* one of them.                                                            *)
Rest ==
  LET first == ElementsBehind(pos) + (IF codec = "varint" THEN 0 ELSE 1)
  IN IF HasMoreNow THEN {list[i] : i \in first..Len(list)} ELSE {}

Abstract == INSTANCE ItemIterator WITH rest <- Rest

(* The iterators of the lists give every element once, in order.           *)
Implements == Abstract!IteratorSpec

(* What was returned or skipped and what is still to come are together the *)
(* list that was encoded, from the constructor on (int32.go:22,            *)
(* int24.go:35): a query for a tag finds "alle Posts mit dem Tag"          *)
(* (README.md:50).                                                         *)
NothingLost == passed \cup Rest = ToSet(list)
=============================================================================
