--------------------------- MODULE MCListIterator ---------------------------
(* Every list over five posts, and every sequence of calls.  The ids are   *)
(* the limits of 24 bits, of one, two and three bytes of a varint and of   *)
(* one byte of an int24.                                                   *)
EXTENDS ListIterator

FiveIds == {-8388608, -65537, -193, -65, -1}
SmallCodecs == {"slice", "varint", "int24"}
LargeCodec == {"int32"}
=============================================================================
