---------------------------- MODULE MCIterStore -----------------------------
(* Four posts: one is a varint list, two an int32 list, the list of three  *)
(* is one byte too long to be read, and that of four cannot be written.    *)
EXTENDS IterStore

FourPosts == {-8388608, -65537, -129, -1}
TwoWords == {0, 1, 2}
=============================================================================
