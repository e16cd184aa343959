------------------------------- MODULE Codecs -------------------------------
(***************************************************************************)
(* How a list of posts becomes bytes and back (store/codecs.go, int24.go,  *)
(* int32.go, the varints of iterators.go).  A byte is a number below 256.  *)
(***************************************************************************)
EXTENDS Integers, SequencesExt

(* int24ToBytes and bytesToInt24: the lowest 24 bits, and the sign back.   *)
Int24ToBytes(value) ==
  <<(value \div 65536) % 256, (value \div 256) % 256, value % 256>>

(* A variant that forgets the sign. *)
BytesToInt24Unsigned(bytes) ==
  65536 * bytes[1] + 256 * bytes[2] + bytes[3]

BytesToInt24(bytes) ==
  LET val == 65536 * bytes[1] + 256 * bytes[2] + bytes[3]
  IN IF bytes[1] >= 128 THEN val - 16777216 ELSE val

(* The memory of an int32 on the machines that the service runs on, seen   *)
(* as bytes by Encode and as numbers again by the iterator.                *)
Int32ToBytes(value) ==
  <<value % 256, (value \div 256) % 256, (value \div 65536) % 256,
    (value \div 16777216) % 256>>

(* A variant that forgets the sign. *)
BytesToInt32Unsigned(bytes) ==
  16777216 * (bytes[4] % 128) + 65536 * bytes[3] + 256 * bytes[2] + bytes[1]

BytesToInt32(bytes) ==
  LET high == IF bytes[4] >= 128 THEN bytes[4] - 256 ELSE bytes[4]
  IN 16777216 * high + 65536 * bytes[3] + 256 * bytes[2] + bytes[1]

(* What a group of seven bits counts for: the powers of 128. *)
Weight == <<1, 128, 16384, 2097152, 268435456>>

(* PutVarint of encoding/binary: the sign goes to the lowest bit, groups   *)
(* of seven bits follow each other, the lowest first.  The sixth power of  *)
(* 128 is beyond any number that TLC and the code have.                    *)
PutVarint(x) ==
  LET ux == IF x >= 0 THEN 2 * x ELSE -(2 * x) - 1
      n == CHOOSE n \in 1..5 : /\ n = 5 \/ ux < Weight[n + 1]
                               /\ n = 1 \/ ux >= Weight[n]
  IN [i \in 1..n |-> ((ux \div Weight[i]) % 128) + (IF i < n THEN 128 ELSE 0)]

(* fastVarint32: the number and how many bytes it took, none at an error.  *)
(* The overflow of a fifth byte begins at 2, so at differences of 2^28.    *)
FastVarint32(buf) ==
  LET n == SelectInSeq(buf, LAMBDA b : b < 128)
      Group(i) == IF i <= n THEN (buf[i] % 128) * Weight[i] ELSE 0
      ux == Group(1) + Group(2) + Group(3) + Group(4) + Group(5)
  IN IF n = 0 \/ n > 5 \/ (n = 5 /\ buf[n] > 1) THEN [value |-> 0, n |-> 0]
     ELSE [value |-> IF ux % 2 = 1 THEN -(ux \div 2) - 1 ELSE ux \div 2,
           n |-> n]

(* The numbers of a set in ascending order. *)
Ascending(S) ==
  CHOOSE order \in [1..Cardinality(S) -> S] :
    \A i, j \in DOMAIN order : i < j => order[i] < order[j]
-----------------------------------------------------------------------------
(* SequenceCodec.Encode. *)
EncodeInt24(values) ==
  FlattenSeq([i \in DOMAIN values |-> Int24ToBytes(values[i])])

EncodeVarint(values) ==
  FlattenSeq([i \in DOMAIN values |->
    PutVarint(values[i] - (IF i = 1 THEN 0 ELSE values[i - 1]))])

EncodeInt32(values) ==
  FlattenSeq([i \in DOMAIN values |-> Int32ToBytes(values[i])])

Encode(codec, values) ==
  CASE codec = "int24" -> EncodeInt24(values)
    [] codec = "varint" -> EncodeVarint(values)
    [] codec = "int32" -> EncodeInt32(values)

(* What the iterators of the codecs give from their first to their last    *)
(* element: ToSlice of int24 and int32, the loop of advance for varints.   *)
Int24ToSlice(bytes) ==
  [i \in 1..(Len(bytes) \div 3) |->
     BytesToInt24(SubSeq(bytes, 3 * i - 2, 3 * i))]

Int32ToSlice(bytes) ==
  [i \in 1..(Len(bytes) \div 4) |->
     BytesToInt32(SubSeq(bytes, 4 * i - 3, 4 * i))]

VarintsToSlice(bytes) ==
  LET starts == Ascending({p \in DOMAIN bytes : p = 1 \/ bytes[p - 1] < 128})
      delta(i) == FastVarint32(SubSeq(bytes, starts[i], Len(bytes))).value
      list[i \in DOMAIN starts] ==
        IF i = 1 THEN delta(1) ELSE list[i - 1] + delta(i)
  IN list

Decode(codec, bytes) ==
  CASE codec = "int24" -> Int24ToSlice(bytes)
    [] codec = "varint" -> VarintsToSlice(bytes)
    [] codec = "int32" -> Int32ToSlice(bytes)
=============================================================================
