-------------------------- MODULE IterStoreProofs ---------------------------
(***************************************************************************)
(* The bytes of the store stand for the index: what was pushed is what     *)
(* Build makes of it, and what was merged is what every list has, for any  *)
(* set of posts, any set of keys and any limits.                           *)
(***************************************************************************)
EXTENDS IterStore, CodecsProofs

-----------------------------------------------------------------------------
LEMMA Bounds ==
  /\ MaxRows \in Nat /\ InlineBytes \in Nat
  /\ LargeCount \in Nat /\ LargeCount # 0 /\ MaxBytes \in Nat /\ MaxBytes # 0
  /\ 1 + 4 * MaxRows <= MaxBytes /\ 1 + 5 * LargeCount <= MaxBytes
BY SMT, BoundsAssumption

LEMMA PostsAreIds == Posts \subseteq Int24
BY BoundsAssumption, SMT DEF Int24

Sequences ==
  {seq \in [bytes : Seq(Byte), inline : BOOLEAN, capacity : Nat] :
     IsSequence(seq)}

LEMMA NewSequenceType == NewSequence \in Sequences /\ NewSequence.bytes = <<>>
<1>1. /\ NewSequence \in [bytes : Seq(Byte), inline : BOOLEAN, capacity : Nat]
      /\ NewSequence.bytes = <<>> /\ NewSequence.inline /\ NewSequence.capacity = 0
  BY DEF NewSequence
<1>2. Len(<<>>) = 0 /\ DOMAIN <<>> = {}
  OBVIOUS
<1> DEFINE none == NewSequence
<1> HIDE DEF none
<1>3. /\ \A i \in DOMAIN none.bytes : none.bytes[i] \in 0..255
      /\ Len(none.bytes) = 0 /\ 0 <= InlineBytes
  BY <1>1, <1>2, Bounds DEF none
<1>4. IsSequence(none)
  BY <1>1, <1>3 DEF IsSequence, none
<1> QED
  BY <1>1, <1>4 DEF Sequences, none

LEMMA SequenceParts ==
  ASSUME NEW seq \in Sequences
  PROVE  /\ seq.bytes \in Seq(Byte) /\ seq.inline \in BOOLEAN
         /\ seq.capacity \in Nat /\ IsSequence(seq)
BY DEF Sequences

(* A byte more: it fits into the memory that the sequence has or gets.     *)
LEMMA PushedByteFits ==
  ASSUME NEW seq \in Sequences, NEW byte \in Byte
  PROVE  /\ PushedByte(seq, byte) \in Sequences
         /\ PushedByte(seq, byte).bytes = Append(seq.bytes, byte)
<1> DEFINE n == Len(seq.bytes)
           more == Append(seq.bytes, byte)
           c == IF seq.inline /\ n + 1 <= InlineBytes THEN 0
                ELSE IF seq.inline THEN 8 + 2 * InlineBytes
                ELSE IF ~seq.inline /\ n = seq.capacity
                     THEN 8 + (13 * seq.capacity) \div 10
                ELSE seq.capacity
           r == [bytes |-> more, inline |-> seq.inline /\ n + 1 <= InlineBytes,
                 capacity |-> c]
<1>1. PushedByte(seq, byte) = r
  BY DEF PushedByte
<1>2. /\ seq.bytes \in Seq(Byte) /\ seq.inline \in BOOLEAN /\ seq.capacity \in Nat
      /\ IF seq.inline THEN n <= InlineBytes /\ seq.capacity = 0
         ELSE n <= seq.capacity
  BY SequenceParts DEF IsSequence
<1>3. /\ more \in Seq(Byte) /\ Len(more) = n + 1 /\ n \in Nat
      /\ \A i \in DOMAIN more : more[i] \in 0..255
  <2>1. more \in Seq(Byte) /\ Len(more) = n + 1 /\ n \in Nat
    BY <1>2
  <2>2. \A i \in DOMAIN more : more[i] \in Byte
    BY <2>1, ElementOfSeq, LenProperties
  <2> QED
    BY <2>1, <2>2 DEF Byte
<1>4. InlineBytes \in Nat
  BY Bounds
<1> HIDE DEF n, more
<1>5. /\ c \in Nat
      /\ IF seq.inline /\ n + 1 <= InlineBytes THEN c = 0 ELSE n + 1 <= c
  <2>1. PICK cap \in Nat : cap = seq.capacity
    BY <1>2
  <2>2. (13 * cap) \div 10 \in Nat /\ cap + 1 <= 8 + (13 * cap) \div 10
    OBVIOUS
  <2>3. CASE seq.inline
    BY <1>2, <1>3, <1>4, <2>3
  <2>4. CASE ~seq.inline
    <3>1. n <= cap /\ n \in Nat /\ cap \in Nat
      BY <1>2, <1>3, <2>1, <2>4
    <3>2. c = IF n = cap THEN 8 + (13 * cap) \div 10 ELSE cap
      BY <2>1, <2>4
    <3>3. c \in Nat /\ n + 1 <= c
      BY <2>2, <3>1, <3>2
    <3> QED
      BY <2>4, <3>3
  <2> QED
    BY <2>3, <2>4
<1> HIDE DEF c
<1>6. r \in [bytes : Seq(Byte), inline : BOOLEAN, capacity : Nat]
  BY <1>2, <1>3, <1>5
<1>7. IsSequence(r)
  <2>1. r.bytes = more /\ r.capacity = c
        /\ r.inline = (seq.inline /\ n + 1 <= InlineBytes)
    OBVIOUS
  <2> HIDE DEF r
  <2> QED
    BY <1>3, <1>5, <2>1 DEF IsSequence
<1> QED
  BY <1>1, <1>6, <1>7 DEF Sequences, more
LEMMA CompactedKeeps ==
  ASSUME NEW seq \in Sequences
  PROVE  Compacted(seq) \in Sequences /\ Compacted(seq).bytes = seq.bytes
<1>1. CASE seq.inline
  BY <1>1 DEF Compacted
<1>2. CASE ~seq.inline
  <2> DEFINE r == [seq EXCEPT !.capacity = Len(seq.bytes)]
  <2>1. Compacted(seq) = r
    BY <1>2 DEF Compacted
  <2>2. Len(seq.bytes) \in Nat
    BY SequenceParts, LenProperties
  <2>3. /\ r \in [bytes : Seq(Byte), inline : BOOLEAN, capacity : Nat]
        /\ r.bytes = seq.bytes /\ r.inline = seq.inline
        /\ r.capacity = Len(seq.bytes)
    BY <2>2 DEF Sequences
  <2>4. \A i \in DOMAIN seq.bytes : seq.bytes[i] \in 0..255
    BY SequenceParts DEF IsSequence
  <2> HIDE DEF r
  <2>5. IsSequence(r)
    BY <1>2, <2>2, <2>3, <2>4 DEF IsSequence
  <2> QED
    BY <2>1, <2>3, <2>5 DEF Sequences
<1> QED
  BY <1>1, <1>2

(* The bytes that a sequence has after it was given the first i of more.   *)
Extended(bytes, seq, more, i) ==
  /\ bytes \in Seq(Byte) /\ Len(bytes) = Len(seq) + i
  /\ \A j \in 1..Len(seq) : bytes[j] = seq[j]
  /\ \A j \in 1..i : bytes[Len(seq) + j] = more[j]

LEMMA ExtendedOnce ==
  ASSUME NEW seq \in Seq(Byte), NEW more \in Seq(Byte), NEW bytes, NEW i \in Nat,
         i + 1 \in 1..Len(more), Extended(bytes, seq, more, i)
  PROVE  Extended(Append(bytes, more[i + 1]), seq, more, i + 1)
<1>1. PICK n \in Nat : n = Len(seq)
  BY LenProperties
<1>2. PICK x \in Byte : x = more[i + 1]
  BY ElementOfSeq
<1>3. /\ bytes \in Seq(Byte) /\ Len(bytes) = n + i
      /\ \A j \in 1..n : bytes[j] = seq[j]
      /\ \A j \in 1..i : bytes[n + j] = more[j]
  BY <1>1 DEF Extended
<1> DEFINE r == Append(bytes, x)
<1>4. /\ r \in Seq(Byte) /\ Len(r) = (n + i) + 1 /\ r[(n + i) + 1] = x
      /\ \A j \in 1..(n + i) : r[j] = bytes[j]
  BY <1>3
<1> HIDE DEF r
<1>5. Len(r) = n + (i + 1) /\ r[n + (i + 1)] = x
  BY <1>4
<1>6. \A j \in 1..n : r[j] = seq[j]
  BY <1>3, <1>4
<1>7. ASSUME NEW j \in 1..(i + 1) PROVE r[n + j] = more[j]
  <2>1. CASE j \in 1..i
    <3>1. n + j \in 1..(n + i)
      BY <2>1
    <3> QED
      BY <1>3, <1>4, <2>1, <3>1
  <2>2. CASE j = i + 1
    BY <1>2, <1>5, <2>2
  <2> QED
    BY <2>1, <2>2
<1> QED
  BY <1>1, <1>2, <1>4, <1>5, <1>6, <1>7 DEF Extended, r

LEMMA ExtendedAll ==
  ASSUME NEW seq \in Seq(Byte), NEW more \in Seq(Byte), NEW bytes,
         Extended(bytes, seq, more, Len(more))
  PROVE  bytes = seq \o more
<1>1. PICK n \in Nat : n = Len(seq)
  BY LenProperties
<1>2. PICK m \in Nat : m = Len(more)
  BY LenProperties
<1>3. /\ bytes \in Seq(Byte) /\ Len(bytes) = n + m
      /\ \A j \in 1..n : bytes[j] = seq[j]
      /\ \A j \in 1..m : bytes[n + j] = more[j]
  BY <1>1, <1>2 DEF Extended
<1> DEFINE r == seq \o more
<1>4. /\ r \in Seq(Byte) /\ Len(r) = n + m
      /\ \A j \in 1..n : r[j] = seq[j]
      /\ \A j \in 1..m : r[n + j] = more[j]
  BY <1>1, <1>2
<1> HIDE DEF r
<1>5. ASSUME NEW j \in 1..(n + m) PROVE bytes[j] = r[j]
  <2>1. CASE j \in 1..n
    BY <1>3, <1>4, <2>1
  <2>2. CASE j \notin 1..n
    <3>1. j - n \in 1..m /\ n + (j - n) = j
      BY <2>2
    <3>2. bytes[n + (j - n)] = more[j - n] /\ r[n + (j - n)] = more[j - n]
      BY <1>3, <1>4, <3>1
    <3> QED
      BY <3>1, <3>2
  <2> QED
    BY <2>1, <2>2
<1>6. bytes = r
  <2>1. DOMAIN bytes = 1..(n + m) /\ DOMAIN r = 1..(n + m)
    BY <1>3, <1>4, LenProperties
  <2>2. bytes = [j \in 1..(n + m) |-> bytes[j]] /\ r = [j \in 1..(n + m) |-> r[j]]
    BY <1>3, <1>4, <2>1
  <2> QED
    BY <1>5, <2>2, Zenon
<1> QED
  BY <1>6 DEF r

(* push_n appends its bytes, whatever memory they need. *)
LEMMA AppendedBytes ==
  ASSUME NEW seq \in Sequences, NEW bytes \in Seq(Byte)
  PROVE  /\ Appended(seq, bytes) \in Sequences
         /\ Appended(seq, bytes).bytes = seq.bytes \o bytes
<1>1. PICK m \in Nat : m = Len(bytes)
  BY LenProperties
<1>2. \A i \in 1..m : bytes[i] \in Byte
  BY <1>1, ElementOfSeq
<1> DEFINE Steps(f) ==
             f = [i \in 0..m |->
                    IF i = 0 THEN seq ELSE PushedByte(f[i - 1], bytes[i])]
           g == [i \in 1..m |-> [s \in Sequences |-> PushedByte(s, bytes[i])]]
<1>3. \E f : Steps(f)
  <2>1. g \in [1..m -> [Sequences -> Sequences]]
    BY <1>2, PushedByteFits
  <2>2. \A i \in 1..m : \A s \in Sequences : g[i][s] = PushedByte(s, bytes[i])
    OBVIOUS
  <2> HIDE DEF g
  <2>3. PICK f : Recursion(f, Sequences, seq, m, g)
    BY <2>1, StepByStep
  <2>4. \A i \in 0..m : i = 0 \/ (i \in 1..m /\ i - 1 \in 0..m)
    OBVIOUS
  <2>5. \A i \in 0..m :
          f[i] = IF i = 0 THEN seq ELSE PushedByte(f[i - 1], bytes[i])
    BY <2>2, <2>3, <2>4 DEF Recursion
  <2>6. f = [i \in 0..m |-> f[i]]
    BY <2>3 DEF Recursion
  <2>7. Steps(f)
    BY <2>5, <2>6, Zenon
  <2> QED
    BY <2>7
<1>4. Appended(seq, bytes) = (CHOOSE f : Steps(f))[m]
  BY <1>1 DEF Appended
<1> HIDE DEF Steps
<1>5. PICK f : Steps(f) /\ Appended(seq, bytes) = f[m]
  BY <1>3, <1>4
<1> DEFINE Good == {i \in Nat : i <= m =>
                      /\ f[i] \in Sequences
                      /\ Extended(f[i].bytes, seq.bytes, bytes, i)}
<1>6. \A i \in Nat : i \in Good
  <2>1. 0 \in Good
    <3>1. f[0] = seq
      BY <1>5 DEF Steps
    <3>2. seq.bytes \in Seq(Byte) /\ Len(seq.bytes) \in Nat
      BY SequenceParts, LenProperties
    <3>3. Extended(seq.bytes, seq.bytes, bytes, 0)
      BY <3>2 DEF Extended
    <3> QED
      BY <3>1, <3>3
  <2>2. ASSUME NEW i \in Nat, i \in Good PROVE i + 1 \in Good
    <3>1. SUFFICES ASSUME i + 1 <= m
                   PROVE  /\ f[i + 1] \in Sequences
                          /\ Extended(f[i + 1].bytes, seq.bytes, bytes, i + 1)
      OBVIOUS
    <3>2. /\ i + 1 \in 0..m /\ i + 1 \in 1..m /\ i + 1 # 0 /\ (i + 1) - 1 = i
          /\ i <= m
      BY <3>1
    <3>3. f[i + 1] = PushedByte(f[i], bytes[i + 1])
      BY <1>5, <3>2 DEF Steps
    <3>4. f[i] \in Sequences /\ Extended(f[i].bytes, seq.bytes, bytes, i)
      BY <2>2, <3>2
    <3>5. bytes[i + 1] \in Byte
      BY <1>2, <3>2
    <3>6. f[i + 1] \in Sequences /\ f[i + 1].bytes = Append(f[i].bytes, bytes[i + 1])
      BY <3>3, <3>4, <3>5, PushedByteFits
    <3>7. seq.bytes \in Seq(Byte)
      BY SequenceParts
    <3>8. Extended(Append(f[i].bytes, bytes[i + 1]), seq.bytes, bytes, i + 1)
      BY <1>1, <3>2, <3>4, <3>7, ExtendedOnce
    <3> QED
      BY <3>6, <3>8
  <2> HIDE DEF Good
  <2> QED
    BY <2>1, <2>2, NatByInduction
<1>7. f[m] \in Sequences /\ Extended(f[m].bytes, seq.bytes, bytes, m)
  BY <1>6
<1>8. seq.bytes \in Seq(Byte)
  BY SequenceParts
<1> QED
  BY <1>1, <1>5, <1>7, <1>8, ExtendedAll
-----------------------------------------------------------------------------
IsStore(store) ==
  DOMAIN store \subseteq Keys /\ store \in [DOMAIN store -> Sequences]

LEMMA AtType ==
  ASSUME NEW store, IsStore(store), NEW k
  PROVE  At(store, k) \in Sequences
BY NewSequenceType DEF IsStore, At

(* One key has, or gets, another sequence, and no other does. *)
OnlyAt(after, store, k) ==
  /\ IsStore(after) /\ DOMAIN after = DOMAIN store \cup {k}
  /\ \A h : h # k => At(after, h) = At(store, h)

LEMMA WithGives ==
  ASSUME NEW store, IsStore(store), NEW k \in Keys, NEW seq \in Sequences
  PROVE  /\ OnlyAt(With(store, k, seq), store, k)
         /\ At(With(store, k, seq), k) = seq
<1> DEFINE D == DOMAIN store \cup {k}
           s == [h \in D |-> IF h = k THEN seq ELSE store[h]]
<1>1. With(store, k, seq) = s
  BY DEF With
<1>2. DOMAIN s = D /\ s \in [D -> Sequences] /\ D \subseteq Keys
  BY DEF IsStore
<1>3. s[k] = seq /\ \A h \in D : h # k => s[h] = store[h]
  OBVIOUS
<1> HIDE DEF s
<1>4. IsStore(s)
  BY <1>2 DEF IsStore
<1> QED
  BY <1>1, <1>2, <1>3, <1>4 DEF At, OnlyAt

LEMMA RemovedGives ==
  ASSUME NEW store, IsStore(store), NEW k \in Keys
  PROVE  /\ IsStore(Removed(store, k))
         /\ At(Removed(store, k), k) = NewSequence
         /\ \A h : h # k => At(Removed(store, k), h) = At(store, h)
<1> DEFINE D == DOMAIN store \ {k}
           s == [h \in D |-> store[h]]
<1>1. Removed(store, k) = s
  BY DEF Removed
<1>2. DOMAIN s = D /\ s \in [D -> Sequences] /\ D \subseteq Keys
  BY DEF IsStore
<1>3. \A h \in D : s[h] = store[h]
  OBVIOUS
<1> HIDE DEF s
<1>4. IsStore(s)
  BY <1>2 DEF IsStore
<1> QED
  BY <1>1, <1>2, <1>3, <1>4 DEF At

CodecNames == {"int24", "varint", "int32"}

LEMMA CodecIds ==
  /\ CodecId["int24"] = 1 /\ CodecId["varint"] = 2 /\ CodecId["int32"] = 4
  /\ \A codec \in CodecNames : CodecId[codec] \in Byte
  /\ \A codec \in CodecNames : CodecById(CodecId[codec]) = codec
<1>1. /\ CodecId["int24"] = 1 /\ CodecId["varint"] = 2 /\ CodecId["int32"] = 4
      /\ DOMAIN CodecId = CodecNames
  BY DEF CodecId, CodecNames
<1>2. ASSUME NEW codec \in CodecNames
      PROVE  \A c \in CodecNames : CodecId[c] = CodecId[codec] => c = codec
  BY <1>1 DEF CodecNames
<1>3. \A codec \in CodecNames : CodecById(CodecId[codec]) = codec
  BY <1>1, <1>2 DEF CodecById
<1> QED
  BY <1>1, <1>3 DEF CodecNames, Byte

LEMMA ListFromBytes ==
  ASSUME NEW store, NEW k, NEW codec \in CodecNames, NEW b \in Seq(Byte),
         At(store, k).bytes = <<CodecId[codec]>> \o b
  PROVE  /\ ListOf(store, k) = Decode(codec, b)
         /\ Len(At(store, k).bytes) = 1 + Len(b)
<1> DEFINE bytes == At(store, k).bytes
<1>1. PICK x \in Byte : x = CodecId[codec]
  BY CodecIds
<1>2. bytes = <<x>> \o b
  BY <1>1
<1>3. /\ bytes \in Seq(Byte) /\ bytes # <<>> /\ bytes[1] = x
      /\ Tail(bytes) = b /\ Len(bytes) = 1 + Len(b)
  <2>1. /\ <<x>> \o b \in Seq(Byte) /\ <<x>> \o b # <<>> /\ (<<x>> \o b)[1] = x
        /\ Len(<<x>> \o b) = 1 + Len(b)
    OBVIOUS
  <2>2. Tail(<<x>> \o b) = b
    OBVIOUS
  <2> QED
    BY <1>2, <2>1, <2>2
<1> QED
  BY <1>1, <1>3, CodecIds DEF ListOf

LEMMA NoBytesNoList ==
  ASSUME NEW store, NEW k, At(store, k).bytes = <<>>
  PROVE  ListOf(store, k) = <<>> /\ Readable(store, k)
<1>1. Len(<<>>) = 0 /\ <<>> # <<CodecId.int32>>
  OBVIOUS
<1> QED
  BY <1>1, Bounds DEF ListOf, Readable

(* What Replace leaves: the list in the bytes of its codec, or nothing but *)
(* the codec of a list whose encoding panicked.                            *)
LEMMA ReplaceWrites ==
  ASSUME NEW store, IsStore(store), NEW k \in Keys,
         NEW values \in Seq(Int24), values # <<>>
  PROVE  \E seq \in Sequences :
           /\ Replace(store, k, values) = With(store, k, seq)
           /\ EncodePanics(values) => seq.bytes = <<CodecId["int32"]>>
           /\ ~EncodePanics(values) =>
                LET codec == OptimalCodec(Len(values))
                IN  seq.bytes = <<CodecId[codec]>> \o Encode(codec, values)
<1> DEFINE codec == OptimalCodec(Len(values))
           begun == PushedByte(NewSequence, CodecId[codec])
           full == Compacted(Appended(begun, Encode(codec, values)))
<1>1. codec \in CodecNames /\ (EncodePanics(values) => codec = "int32")
  BY DEF OptimalCodec, CodecNames, EncodePanics
<1> HIDE DEF codec
<1>2. CodecId[codec] \in Byte
  BY <1>1, CodecIds
<1>3. begun \in Sequences /\ begun.bytes = <<CodecId[codec]>>
  <2>1. begun \in Sequences /\ begun.bytes = Append(<<>>, CodecId[codec])
    BY <1>2, NewSequenceType, PushedByteFits
  <2>2. Append(<<>>, CodecId[codec]) = <<CodecId[codec]>>
    OBVIOUS
  <2> QED
    BY <2>1, <2>2
<1>4. Encode(codec, values) \in Seq(Byte)
  BY <1>1, ListRoundTrip DEF CodecNames
<1> HIDE DEF begun
<1>5. /\ full \in Sequences
      /\ full.bytes = <<CodecId[codec]>> \o Encode(codec, values)
  BY <1>3, <1>4, AppendedBytes, CompactedKeeps
<1>6. Replace(store, k, values) =
        With(store, k, IF EncodePanics(values) THEN begun ELSE full)
  BY DEF Replace, begun, codec
<1> HIDE DEF full
<1>7. CASE EncodePanics(values)
  BY <1>1, <1>3, <1>6, <1>7
<1>8. CASE ~EncodePanics(values)
  BY <1>5, <1>6, <1>8 DEF codec
<1> QED
  BY <1>7, <1>8
(* Where the limits leave a list: it can be read exactly as long as its    *)
(* numbers and the byte of the codec fit into what Get can look at.        *)
LEMMA LimitsOfLists ==
  ASSUME NEW n \in Nat, n # 0, NEW size \in Nat, NEW codec,
         codec = IF n > LargeCount THEN "int32" ELSE "varint",
         codec = "varint" => size <= 5 * n,
         codec = "int32" => size = 4 * n
  PROVE  /\ 1 + size <= MaxBytes <=> 4 * n < MaxBytes
         /\ codec = "int32" => 1 + size # 1
<1>1. CASE n > LargeCount
  BY <1>1, Bounds
<1>2. CASE ~ (n > LargeCount)
  <2>1. codec = "varint" /\ codec # "int32"
    BY <1>2
  <2>2. size <= 5 * n /\ n <= LargeCount
    BY <1>2, <2>1, Bounds
  <2>3. 1 + size <= MaxBytes /\ 4 * n < MaxBytes
    BY <2>2, Bounds
  <2> QED
    BY <2>1, <2>3
<1> QED
  BY <1>1, <1>2

LEMMA ReplaceGives ==
  ASSUME NEW store, IsStore(store), NEW k \in Keys,
         NEW values \in Seq(Int24), values # <<>>
  PROVE  LET after == Replace(store, k, values)
         IN  /\ OnlyAt(after, store, k)
             /\ 4 * Len(values) < MaxBytes =>
                  Readable(after, k) /\ ListOf(after, k) = values
             /\ Readable(after, k) => 4 * Len(values) < MaxBytes
<1> DEFINE after == Replace(store, k, values)
<1>1. PICK n \in Nat : n = Len(values) /\ n # 0
  BY LenProperties, EmptySeq
<1>2. PICK seq \in Sequences :
        /\ after = With(store, k, seq)
        /\ EncodePanics(values) => seq.bytes = <<CodecId["int32"]>>
        /\ ~EncodePanics(values) =>
             LET codec == OptimalCodec(Len(values))
             IN  seq.bytes = <<CodecId[codec]>> \o Encode(codec, values)
  BY ReplaceWrites
<1>3. OnlyAt(after, store, k) /\ At(after, k) = seq
  <2>1. OnlyAt(With(store, k, seq), store, k) /\ At(With(store, k, seq), k) = seq
    BY WithGives
  <2> HIDE DEF after
  <2> QED
    BY <1>2, <2>1
<1> HIDE DEF after
<1>4. CASE EncodePanics(values)
  <2>1. seq.bytes = <<CodecId["int32"]>>
    BY <1>2, <1>4
  <2>2. ~Readable(after, k)
    BY <1>3, <2>1 DEF Readable
  <2>3. ~ (4 * Len(values) < MaxBytes)
    BY <1>1, <1>4, Bounds DEF EncodePanics
  <2> QED
    BY <1>3, <2>2, <2>3 DEF after
<1>5. CASE ~EncodePanics(values)
  <2> DEFINE codec == OptimalCodec(Len(values))
             b == Encode(codec, values)
  <2>1. /\ codec = IF n > LargeCount THEN "int32" ELSE "varint"
        /\ codec \in CodecNames
    BY <1>1 DEF OptimalCodec, CodecNames
  <2>2. seq.bytes = <<CodecId[codec]>> \o b
    BY <1>2, <1>5
  <2> HIDE DEF codec
  <2>3. /\ b \in Seq(Byte) /\ Decode(codec, b) = values
        /\ codec = "varint" => Len(b) <= 5 * Len(values)
        /\ codec = "int32" => Len(b) = 4 * Len(values)
    BY <2>1, ListRoundTrip DEF CodecNames
  <2> HIDE DEF b
  <2>4. PICK size \in Nat : size = Len(b)
    BY <2>3, LenProperties
  <2>5. /\ 1 + size <= MaxBytes <=> 4 * n < MaxBytes
        /\ codec = "int32" => 1 + size # 1
    BY <1>1, <2>1, <2>3, <2>4, LimitsOfLists
  <2>6. /\ ListOf(after, k) = values
        /\ Len(At(after, k).bytes) = 1 + size
    <3>1. At(after, k).bytes = <<CodecId[codec]>> \o b
      BY <1>3, <2>2
    <3>2. /\ ListOf(after, k) = Decode(codec, b)
          /\ Len(At(after, k).bytes) = 1 + Len(b)
      BY <2>1, <2>3, <3>1, ListFromBytes
    <3> QED
      BY <2>3, <2>4, <3>2
  <2>7. At(after, k).bytes # <<CodecId.int32>>
    <3>1. SUFFICES ASSUME At(after, k).bytes = <<CodecId.int32>> PROVE FALSE
      OBVIOUS
    <3>2. CodecId[codec] \in Byte /\ CodecId["int32"] \in Byte
      BY <2>1, CodecIds DEF CodecNames
    <3>3. (<<CodecId[codec]>> \o b)[1] = CodecId[codec]
      BY <2>3, <3>2
    <3>4. CodecId[codec] = CodecId["int32"]
      BY <1>3, <2>2, <3>1, <3>3
    <3>5. codec = "int32"
      BY <2>1, <3>4, CodecIds DEF CodecNames
    <3>6. Len(At(after, k).bytes) = 1
      BY <3>1
    <3> QED
      BY <2>5, <2>6, <3>5, <3>6
  <2>8. Readable(after, k) <=> 1 + size <= MaxBytes
    BY <2>6, <2>7 DEF Readable
  <2> QED
    BY <1>1, <1>3, <2>5, <2>6, <2>8 DEF after
<1> QED
  BY <1>4, <1>5

(* A list of a builder: the numbers that were pushed, three bytes each.    *)
PushedList(bytes, values) ==
  IF values = <<>> THEN bytes = <<>>
  ELSE \E b \in Seq(Byte) :
         bytes = <<CodecId["int24"]>> \o b /\ InThrees(b, values)

LEMMA PushedListRead ==
  ASSUME NEW store, NEW k, NEW values \in Seq(Int24),
         PushedList(At(store, k).bytes, values)
  PROVE  ListOf(store, k) = values
<1>1. CASE values = <<>>
  BY <1>1, NoBytesNoList DEF PushedList
<1>2. CASE values # <<>>
  <2>1. PICK b \in Seq(Byte) : /\ At(store, k).bytes = <<CodecId["int24"]>> \o b
                               /\ InThrees(b, values)
    BY <1>2 DEF PushedList
  <2>2. "int24" \in CodecNames
    BY DEF CodecNames
  <2>3. ListOf(store, k) = Decode("int24", b)
    BY <2>1, <2>2, ListFromBytes
  <2>4. Int24ToSlice(b) = values
    BY <2>1, ThreesRead
  <2> QED
    BY <2>3, <2>4 DEF Decode
<1> QED
  BY <1>1, <1>2

LEMMA PushIntGives ==
  ASSUME NEW store, IsStore(store), NEW k \in Keys, NEW value \in Int24,
         NEW values \in Seq(Int24), PushedList(At(store, k).bytes, values)
  PROVE  LET after == PushInt(store, k, value)
         IN  /\ OnlyAt(after, store, k)
             /\ PushedList(At(after, k).bytes, Append(values, value))
<1> DEFINE seq == At(store, k)
           first == IF seq.bytes = <<>> THEN <<CodecId["int24"]>> ELSE <<>>
           more == first \o Int24ToBytes(value)
           new == Appended(seq, more)
           after == PushInt(store, k, value)
           w == Int24ToBytes(value)
<1>1. seq \in Sequences /\ seq.bytes \in Seq(Byte)
  BY AtType, SequenceParts
<1>2. CodecId["int24"] \in Byte
  BY CodecIds DEF CodecNames
<1>3. w \in Seq(Byte) /\ Len(w) = 3
  <2>1. value \in Int
    BY DEF Int24
  <2> QED
    BY <2>1, BytesOfInt24
<1> HIDE DEF seq
<1>4. first \in Seq(Byte) /\ more \in Seq(Byte)
  BY <1>2, <1>3
<1>5. after = With(store, k, new)
  BY DEF PushInt, PushN, seq
<1> HIDE DEF first, more
<1>6. new \in Sequences /\ new.bytes = seq.bytes \o more
  BY <1>1, <1>4, AppendedBytes
<1> HIDE DEF new, after
<1>7. OnlyAt(after, store, k) /\ At(after, k) = new
  <2>1. OnlyAt(With(store, k, new), store, k) /\ At(With(store, k, new), k) = new
    BY <1>6, WithGives
  <2> QED
    BY <1>5, <2>1
<1>8. Append(values, value) # <<>> /\ Append(values, value) \in Seq(Int24)
  OBVIOUS
<1>9. \E b \in Seq(Byte) : /\ new.bytes = <<CodecId["int24"]>> \o b
                           /\ InThrees(b, Append(values, value))
  <2>1. CASE values = <<>>
    <3>1. seq.bytes = <<>> /\ first = <<CodecId["int24"]>>
      BY <2>1 DEF PushedList, seq, first
    <3>2. new.bytes = <<CodecId["int24"]>> \o w
      BY <1>2, <1>3, <1>6, <3>1 DEF more
    <3>3. InThrees(<<>>, values) /\ <<>> \in Seq(Byte)
      BY <2>1 DEF InThrees
    <3>4. InThrees(<<>> \o w, Append(values, value))
      BY <3>3, ThreesGrow
    <3>5. <<>> \o w = w
      BY <1>3
    <3> QED
      BY <1>3, <3>2, <3>4, <3>5
  <2>2. CASE values # <<>>
    <3>1. PICK b \in Seq(Byte) : /\ seq.bytes = <<CodecId["int24"]>> \o b
                                 /\ InThrees(b, values)
      BY <2>2 DEF PushedList, seq
    <3>2. seq.bytes # <<>>
      BY <1>2, <3>1
    <3>3. more = w
      BY <1>3, <3>2 DEF more, first
    <3>4. new.bytes = (<<CodecId["int24"]>> \o b) \o w
      BY <1>6, <3>1, <3>3
    <3>5. (<<CodecId["int24"]>> \o b) \o w = <<CodecId["int24"]>> \o (b \o w)
      <4>1. <<CodecId["int24"]>> \in Seq(Byte)
        BY <1>2
      <4> QED
        BY <1>3, <4>1, ConcatAssociative
    <3>6. InThrees(b \o w, Append(values, value)) /\ b \o w \in Seq(Byte)
      BY <1>3, <3>1, ThreesGrow
    <3> QED
      BY <3>4, <3>5, <3>6
  <2> QED
    BY <2>1, <2>2
<1>10. PushedList(new.bytes, Append(values, value))
  BY <1>8, <1>9 DEF PushedList
<1> QED
  BY <1>7, <1>10 DEF after
-----------------------------------------------------------------------------
(* The order of a set of posts. *)
LEMMA PostsInOrder ==
  ASSUME NEW S \in SUBSET Posts
  PROVE  /\ IsFiniteSet(S) /\ Cardinality(S) \in Nat
         /\ Ascending(S) \in Seq(S) /\ Ascending(S) \in Seq(Posts)
         /\ Ascending(S) \in Seq(Int24)
         /\ Len(Ascending(S)) = Cardinality(S)
         /\ ToSet(Ascending(S)) = S
         /\ (S = {} <=> Ascending(S) = <<>>)
<1> DEFINE lo == -8388608
           hi == 8388607
<1>1. lo \in Int /\ hi \in Int /\ \A v \in Int24 : v \in Int /\ lo <= v /\ v <= hi
  BY SMT DEF Int24
<1> HIDE DEF lo, hi
<1>3. Posts \subseteq lo..hi
  BY <1>1, PostsAreIds
<1>4. S \in SUBSET (lo..hi)
  BY <1>3
<1>5. /\ Cardinality(S) \in Nat
      /\ Ascending(S) \in Seq(S) /\ Len(Ascending(S)) = Cardinality(S)
      /\ ToSet(Ascending(S)) = S
  BY <1>1, <1>4, AscendingProperties
<1>6. IsFiniteSet(S)
  <2>1. IsFiniteSet(lo..hi)
    BY <1>1, FS_Interval
  <2> QED
    BY <1>4, <2>1, FS_Subset
<1> DEFINE order == Ascending(S)
<1> HIDE DEF order
<1>7. order \in Seq(S) => order \in Seq(Posts) /\ order \in Seq(Int24)
  <2>1. S \subseteq Posts /\ S \subseteq Int24
    BY PostsAreIds
  <2> QED
    BY <2>1
<1>8. Cardinality(S) = 0 <=> S = {}
  BY <1>6, FS_EmptySet
<1>9. order \in Seq(S) => (Len(order) = 0 <=> order = <<>>)
  OBVIOUS
<1> QED
  BY <1>5, <1>6, <1>7, <1>8, <1>9 DEF order

LEMMA NoPosts == Ascending({}) = <<>> /\ Cardinality({}) = 0
BY PostsInOrder, FS_EmptySet

(* A list has at most as many numbers as places. *)
LEMMA DistinctNumbers ==
  ASSUME NEW T, NEW list \in Seq(T), list # <<>>
  PROVE  /\ ToSet(list) \subseteq T /\ ToSet(list) # {}
         /\ IsFiniteSet(ToSet(list)) => Cardinality(ToSet(list)) <= Len(list)
<1>1. PICK n \in Nat : n = Len(list) /\ DOMAIN list = 1..n
  BY LenProperties
<1>2. \A i \in 1..n : list[i] \in T
  BY <1>1, ElementOfSeq
<1>3. n # 0
  BY <1>1
<1>4. ToSet(list) \subseteq T /\ ToSet(list) # {}
  BY <1>1, <1>2, <1>3 DEF ToSet
<1>5. Cardinality(ToSet(list)) <= n
  <2>1. list \in [1..n -> ToSet(list)]
    BY <1>1 DEF ToSet
  <2>2. \A t \in ToSet(list) : \E i \in 1..n : list[i] = t
    BY <1>1 DEF ToSet
  <2>3. ExistsSurjection(1..n, ToSet(list))
    BY <2>1, <2>2 DEF ExistsSurjection, Surjection
  <2> QED
    BY <2>3, FS_SurjCardinalityBound
<1> QED
  BY <1>1, <1>4, <1>5

(* The lists of a builder, before and after they are optimized. *)
ShortList(store, k) ==
  /\ ListOf(store, k) \in Seq(Posts) /\ ListOf(store, k) # <<>>
  /\ Len(ListOf(store, k)) <= MaxRows

LEMMA OptimizedGives ==
  ASSUME NEW store, IsStore(store), NEW k \in Keys, ShortList(store, k)
  PROVE  /\ OnlyAt(Optimized(store, k), store, k)
         /\ ListOf(Optimized(store, k), k) = Ascending(ToSet(ListOf(store, k)))
         /\ ShortList(Optimized(store, k), k)
<1> DEFINE list == ListOf(store, k)
           S == ToSet(list)
           values == Ascending(S)
           after == Optimized(store, k)
<1>1. list \in Seq(Posts) /\ list # <<>> /\ Len(list) <= MaxRows
  BY DEF ShortList
<1>2. after = Replace(store, k, values)
  BY DEF Optimized
<1> HIDE DEF list, after
<1>3. S \in SUBSET Posts /\ S # {}
      /\ (IsFiniteSet(S) => Cardinality(S) <= Len(list))
  BY <1>1, DistinctNumbers
<1> HIDE DEF S
<1>4. /\ IsFiniteSet(S) /\ Cardinality(S) \in Nat
      /\ values \in Seq(Posts) /\ values \in Seq(Int24) /\ values # <<>>
      /\ Len(values) = Cardinality(S)
  BY <1>3, PostsInOrder
<1> HIDE DEF values
<1>5. Len(list) \in Nat
  BY <1>1, LenProperties
<1>6. Len(values) <= MaxRows
  BY <1>1, <1>3, <1>4, <1>5, Bounds
<1>7. 4 * Len(values) < MaxBytes
  BY <1>4, <1>6, Bounds
<1>8. OnlyAt(after, store, k) /\ ListOf(after, k) = values
  BY <1>2, <1>4, <1>7, ReplaceGives
<1>9. ShortList(after, k)
  BY <1>4, <1>6, <1>8 DEF ShortList
<1> QED
  BY <1>8, <1>9 DEF after, values, S, list

LEMMA SameList ==
  ASSUME NEW store, NEW after, NEW k, At(after, k) = At(store, k)
  PROVE  /\ ListOf(after, k) = ListOf(store, k)
         /\ Readable(after, k) <=> Readable(store, k)
         /\ ShortList(after, k) <=> ShortList(store, k)
BY DEF ListOf, Readable, ShortList
(* A finite set of natural numbers has an upper bound. *)
LEMMA FiniteBound ==
  ASSUME NEW S \in SUBSET Nat, IsFiniteSet(S)
  PROVE  \E hi \in Nat : S \subseteq 0..hi
<1> DEFINE Bounded(T) == \E hi \in Nat : T \subseteq 0..hi
           Good == {n \in Nat : \A T \in SUBSET Nat :
                      IsFiniteSet(T) /\ Cardinality(T) = n => Bounded(T)}
<1>1. 0 \in Good
  <2>1. ASSUME NEW T \in SUBSET Nat, IsFiniteSet(T), Cardinality(T) = 0
        PROVE  Bounded(T)
    <3>1. T = {}
      BY <2>1, FS_EmptySet
    <3>2. 0 \in Nat /\ T \subseteq 0..0
      BY <3>1
    <3> QED
      BY <3>2
  <2> QED
    BY <2>1
<1>2. ASSUME NEW n \in Nat, n \in Good PROVE n + 1 \in Good
  <2>1. ASSUME NEW T \in SUBSET Nat, IsFiniteSet(T), Cardinality(T) = n + 1
        PROVE  Bounded(T)
    <3>1. T # {}
      BY <2>1, FS_EmptySet
    <3>2. PICK x \in T : TRUE
      BY <3>1
    <3>3. IsFiniteSet(T \ {x}) /\ Cardinality(T \ {x}) = n
      BY <2>1, FS_RemoveElement
    <3>4. Bounded(T \ {x})
      BY <1>2, <3>3
    <3>5. PICK lo \in Nat : T \ {x} \subseteq 0..lo
      BY <3>4
    <3>6. lo + x \in Nat /\ \A y \in T : y \in 0..(lo + x)
      BY <3>5
    <3> QED
      BY <3>6
  <2> QED
    BY <2>1
<1> HIDE DEF Good
<1>3. Cardinality(S) \in Nat /\ Cardinality(S) \in Good
  BY <1>1, <1>2, FS_CardinalityType, NatByInduction
<1> QED
  BY <1>3 DEF Good

(* Build optimizes one list after the other and no list but the one. *)
LEMMA OptimizedStoreGives ==
  ASSUME NEW store, IsStore(store), IsFiniteSet(DOMAIN store),
         \A k \in DOMAIN store : ShortList(store, k)
  PROVE  LET after == OptimizedStore(store)
         IN  /\ IsStore(after) /\ DOMAIN after = DOMAIN store
             /\ \A k \in DOMAIN store :
                  ListOf(after, k) = Ascending(ToSet(ListOf(store, k)))
<1> DEFINE D == DOMAIN store
           keys == Ascending(D)
           S == {s \in [D -> Sequences] : \A k \in D : ShortList(s, k)}
<1>1. D \subseteq Keys /\ D \subseteq Nat
  BY KeysAssumption DEF IsStore
<1>2. PICK m \in Nat : /\ Len(keys) = m /\ DOMAIN keys = 1..m
                       /\ keys \in [1..m -> D] /\ Increasing(keys)
                       /\ \A k \in D : \E i \in 1..m : keys[i] = k
  <2>1. \E hi \in Nat : D \subseteq 0..hi
    BY <1>1, FiniteBound
  <2>2. PICK hi \in Nat : D \in SUBSET (0..hi)
    BY <2>1
  <2>3. 0 \in Int /\ hi \in Int
    OBVIOUS
  <2> HIDE DEF D
  <2>4. /\ Cardinality(D) \in Nat
        /\ keys \in Seq(D) /\ Len(keys) = Cardinality(D)
        /\ Increasing(keys)
        /\ \A k \in D : \E i \in DOMAIN keys : keys[i] = k
    BY <2>2, <2>3, AscendingProperties, Zenon
  <2> HIDE DEF keys
  <2>5. DOMAIN keys = 1..Len(keys) /\ keys \in [1..Len(keys) -> D]
    BY <2>4, LenProperties
  <2> QED
    BY <2>4, <2>5
<1>3. \A i, j \in 1..m : i # j => keys[i] # keys[j]
  <2>1. ASSUME NEW i \in 1..m, NEW j \in 1..m, i < j PROVE keys[i] # keys[j]
    <3>1. keys[i] \in Nat /\ keys[j] \in Nat
      BY <1>1, <1>2
    <3>2. keys[i] < keys[j]
      BY <1>2, <2>1 DEF Increasing
    <3> QED
      BY <3>1, <3>2
  <2>2. \A i, j \in 1..m : i # j => i < j \/ j < i
    OBVIOUS
  <2> QED
    BY <2>1, <2>2
<1> HIDE DEF keys
<1>4. ASSUME NEW s \in S, NEW k \in D
      PROVE  /\ Optimized(s, k) \in S
             /\ ListOf(Optimized(s, k), k) = Ascending(ToSet(ListOf(s, k)))
             /\ \A h : h # k => At(Optimized(s, k), h) = At(s, h)
  <2>1. IsStore(s) /\ DOMAIN s = D /\ k \in Keys /\ ShortList(s, k)
    BY <1>1 DEF IsStore
  <2> DEFINE after == Optimized(s, k)
  <2>2. /\ OnlyAt(after, s, k) /\ ShortList(after, k)
        /\ ListOf(after, k) = Ascending(ToSet(ListOf(s, k)))
    BY <2>1, OptimizedGives
  <2> HIDE DEF after
  <2>3. DOMAIN after = D /\ after \in [D -> Sequences]
    BY <2>1, <2>2 DEF OnlyAt, IsStore
  <2>4. \A h : h # k => At(after, h) = At(s, h)
    BY <2>2 DEF OnlyAt
  <2>5. ASSUME NEW h \in D PROVE ShortList(after, h)
    <3>1. CASE h = k
      BY <2>2, <3>1
    <3>2. CASE h # k
      BY <2>4, <3>2, SameList
    <3> QED
      BY <3>1, <3>2
  <2> QED
    BY <2>2, <2>3, <2>4, <2>5 DEF after
<1>5. store \in S
  BY DEF IsStore
<1> HIDE DEF S, D
<1> DEFINE Steps(f) ==
             f = [i \in 0..m |->
                    IF i = 0 THEN store ELSE Optimized(f[i - 1], keys[i])]
           g == [i \in 1..m |-> [s \in S |-> Optimized(s, keys[i])]]
<1>6. \E f : Steps(f) /\ f \in [0..m -> S]
  <2>1. g \in [1..m -> [S -> S]]
    BY <1>2, <1>4
  <2>2. \A i \in 1..m : \A s \in S : g[i][s] = Optimized(s, keys[i])
    OBVIOUS
  <2> HIDE DEF g
  <2>3. PICK f : Recursion(f, S, store, m, g)
    BY <1>5, <2>1, StepByStep
  <2>4. \A i \in 0..m : i = 0 \/ (i \in 1..m /\ i - 1 \in 0..m)
    OBVIOUS
  <2>5. \A i \in 0..m :
          f[i] = IF i = 0 THEN store ELSE Optimized(f[i - 1], keys[i])
    BY <2>2, <2>3, <2>4 DEF Recursion
  <2>6. f = [i \in 0..m |-> f[i]] /\ f \in [0..m -> S]
    BY <2>3 DEF Recursion
  <2>7. Steps(f)
    BY <2>5, <2>6, Zenon
  <2> QED
    BY <2>6, <2>7
<1>7. OptimizedStore(store) = (CHOOSE f : Steps(f))[m]
  BY <1>2 DEF OptimizedStore, keys, D
<1> HIDE DEF Steps
<1>8. PICK f : Steps(f) /\ OptimizedStore(store) = f[m]
  BY <1>6, <1>7
<1> DEFINE Good == {i \in Nat : i <= m =>
                      /\ f[i] \in S
                      /\ \A j \in 1..m :
                           IF j <= i
                           THEN ListOf(f[i], keys[j]) =
                                  Ascending(ToSet(ListOf(store, keys[j])))
                           ELSE ListOf(f[i], keys[j]) = ListOf(store, keys[j])}
<1>9. \A i \in Nat : i \in Good
  <2>1. 0 \in Good
    <3>1. f[0] = store
      BY <1>8 DEF Steps
    <3> QED
      BY <1>5, <3>1
  <2>2. ASSUME NEW i \in Nat, i \in Good PROVE i + 1 \in Good
    <3> DEFINE Done(n, j) ==
                 ListOf(f[n], keys[j]) = Ascending(ToSet(ListOf(store, keys[j])))
               Same(n, j) == ListOf(f[n], keys[j]) = ListOf(store, keys[j])
    <3>1. SUFFICES ASSUME i + 1 <= m
                   PROVE  /\ f[i + 1] \in S
                          /\ \A j \in 1..m :
                               IF j <= i + 1 THEN Done(i + 1, j) ELSE Same(i + 1, j)
      OBVIOUS
    <3>2. /\ i + 1 \in 0..m /\ i + 1 \in 1..m /\ i + 1 # 0 /\ (i + 1) - 1 = i
          /\ i <= m
      BY <3>1
    <3>3. f[i + 1] = Optimized(f[i], keys[i + 1])
      BY <1>8, <3>2 DEF Steps
    <3>4. f[i] \in S /\ \A j \in 1..m : IF j <= i THEN Done(i, j) ELSE Same(i, j)
      BY <2>2, <3>2
    <3>5. keys[i + 1] \in D
      BY <1>2, <3>2
    <3>6. /\ f[i + 1] \in S
          /\ ListOf(f[i + 1], keys[i + 1]) =
               Ascending(ToSet(ListOf(f[i], keys[i + 1])))
          /\ \A h : h # keys[i + 1] => At(f[i + 1], h) = At(f[i], h)
      BY <1>4, <3>3, <3>4, <3>5
    <3>7. ASSUME NEW j \in 1..m
          PROVE  IF j <= i + 1 THEN Done(i + 1, j) ELSE Same(i + 1, j)
      <4>1. CASE j = i + 1
        <5>1. ~ (j <= i) /\ j <= i + 1
          BY <4>1
        <5>2. ListOf(f[i], keys[j]) = ListOf(store, keys[j])
          BY <3>4, <5>1
        <5>3. Done(i + 1, j)
          BY <3>6, <4>1, <5>2
        <5> QED
          BY <5>1, <5>3
      <4>2. CASE j # i + 1
        <5>1. keys[j] # keys[i + 1]
          BY <1>3, <3>2, <4>2
        <5>2. ListOf(f[i + 1], keys[j]) = ListOf(f[i], keys[j])
          BY <3>6, <5>1, SameList
        <5>3. j <= i + 1 <=> j <= i
          BY <4>2
        <5> QED
          BY <3>4, <5>2, <5>3
      <4> QED
        BY <4>1, <4>2
    <3> QED
      BY <3>6, <3>7
  <2> HIDE DEF Good
  <2> QED
    BY <2>1, <2>2, NatByInduction
<1>10. /\ f[m] \in S
       /\ \A j \in 1..m : ListOf(f[m], keys[j]) =
                            Ascending(ToSet(ListOf(store, keys[j])))
  <2>1. m \in Good /\ m <= m
    BY <1>9
  <2> QED
    BY <2>1
<1>11. \A k \in D : ListOf(f[m], k) = Ascending(ToSet(ListOf(store, k)))
  BY <1>2, <1>10
<1>12. IsStore(f[m]) /\ DOMAIN f[m] = D
  BY <1>1, <1>10 DEF S, IsStore
<1> QED
  BY <1>8, <1>11, <1>12 DEF D
-----------------------------------------------------------------------------
LEMMA OneMoreNumber ==
  ASSUME NEW T, NEW list \in Seq(T), NEW x \in T
  PROVE  ToSet(Append(list, x)) = ToSet(list) \cup {x}
<1>1. PICK n \in Nat : n = Len(list) /\ DOMAIN list = 1..n
  BY LenProperties
<1> DEFINE r == Append(list, x)
<1>2. /\ DOMAIN r = 1..(n + 1) /\ r[n + 1] = x
      /\ \A i \in 1..n : r[i] = list[i]
  BY <1>1
<1> HIDE DEF r
<1>3. \A i : i \in 1..(n + 1) <=> i \in 1..n \/ i = n + 1
  OBVIOUS
<1>4. ToSet(r) = ToSet(list) \cup {x}
  BY <1>1, <1>2, <1>3, Zenon DEF ToSet
<1> QED
  BY <1>4 DEF r

LEMMA NoNumbers ==
  ASSUME NEW T, NEW list \in Seq(T)
  PROVE  ToSet(list) = {} <=> list = <<>>
<1>1. list = <<>> => ToSet(list) = {}
  BY DEF ToSet
<1> QED
  BY <1>1, DistinctNumbers

(* What a push adds to what Build makes: the post under its key and, if it *)
(* is the first one under it, under the key of all.                        *)
LEMMA BuildGrows ==
  ASSUME NEW rs \in Seq(Row), NEW item \in Posts, NEW k \in Keys \ {AllKey}
  PROVE  LET more == Append(rs, [item |-> item, keys |-> {k}])
         IN  /\ more \in Seq(Row)
             /\ \A h \in Keys :
                  Build(more)[h] = Build(rs)[h] \cup
                    (IF h = k \/ (h = AllKey /\ Build(rs)[k] = {})
                     THEN {item} ELSE {})
<1> DEFINE row == [item |-> item, keys |-> {k}]
           more == Append(rs, row)
<1>1. PICK n \in Nat : n = Len(rs) /\ DOMAIN rs = 1..n
  BY LenProperties
<1>2. row \in Row /\ row.item = item /\ row.keys = {k}
  BY DEF Row
<1> HIDE DEF row
<1>3. /\ more \in Seq(Row) /\ DOMAIN more = 1..(n + 1) /\ more[n + 1] = row
      /\ \A i \in 1..n : more[i] = rs[i]
  BY <1>1, <1>2
<1> HIDE DEF more
<1>4. \A i : i \in 1..(n + 1) <=> i \in 1..n \/ i = n + 1
  OBVIOUS
<1>5. n + 1 \notin 1..n
  OBVIOUS
<1>6. ASSUME NEW h \in Keys
      PROVE  Pushed(more, h) = Pushed(rs, h) \cup (IF h = k THEN {item} ELSE {})
  <2>1. CASE h = k
    BY <1>1, <1>2, <1>3, <1>4, <2>1, Zenon DEF Pushed
  <2>2. CASE h # k
    <3>1. h \notin more[n + 1].keys
      BY <1>2, <1>3, <2>2
    <3>2. {i \in DOMAIN more : h \in more[i].keys} =
            {i \in DOMAIN rs : h \in rs[i].keys}
      BY <1>1, <1>3, <1>4, <3>1, Zenon
    <3>3. \A i \in DOMAIN rs : more[i].item = rs[i].item
      BY <1>1, <1>3
    <3>4. Pushed(more, h) = Pushed(rs, h)
      BY <3>2, <3>3, Zenon DEF Pushed
    <3> QED
      BY <2>2, <3>4
  <2> QED
    BY <2>1, <2>2
<1> DEFINE First(seq) ==
             {i \in DOMAIN seq : \E h \in seq[i].keys : IsFirstPush(seq, i, h)}
           new == \A j \in 1..n : k \notin rs[j].keys
<1>7. ASSUME NEW i \in 1..n, NEW h
      PROVE  IsFirstPush(more, i, h) <=> IsFirstPush(rs, i, h)
  <2>1. \A j : j \in 1..(n + 1) /\ j < i <=> j \in 1..n /\ j < i
    OBVIOUS
  <2>2. \A j \in 1..n : more[j] = rs[j]
    BY <1>3
  <2> QED
    BY <1>1, <1>3, <2>1, <2>2, Zenon DEF IsFirstPush
<1>8. IsFirstPush(more, n + 1, k) <=> new
  <2>1. \A j : j \in 1..(n + 1) /\ j < n + 1 <=> j \in 1..n
    OBVIOUS
  <2>2. k \in more[n + 1].keys
    BY <1>2, <1>3
  <2>3. IsFirstPush(more, n + 1, k) <=>
          \A j : j \in 1..(n + 1) /\ j < n + 1 => k \notin more[j].keys
    BY <1>3, <2>2, Zenon DEF IsFirstPush
  <2> QED
    BY <1>3, <2>1, <2>3, Zenon
<1>9. First(more) = First(rs) \cup (IF new THEN {n + 1} ELSE {})
  <2>1. ASSUME NEW i \in 1..n PROVE i \in First(more) <=> i \in First(rs)
    <3>1. more[i] = rs[i] /\ i \in DOMAIN more /\ i \in DOMAIN rs
      BY <1>1, <1>3, <1>4
    <3> QED
      BY <1>7, <3>1, Zenon
  <2>2. n + 1 \in First(more) <=> new
    <3>1. more[n + 1].keys = {k} /\ n + 1 \in DOMAIN more
      BY <1>2, <1>3, <1>4, Zenon
    <3> HIDE DEF new
    <3> QED
      BY <1>8, <3>1, Zenon
  <2>3. First(more) \subseteq 1..(n + 1) /\ First(rs) \subseteq 1..n
    BY <1>1, <1>3
  <2> HIDE DEF First, new
  <2>4. CASE new
    BY <1>4, <2>1, <2>2, <2>3, <2>4, Zenon
  <2>5. CASE ~new
    BY <1>4, <2>1, <2>2, <2>3, <2>5, Zenon
  <2> QED
    BY <2>4, <2>5
<1>10. PushedToAll(more) = PushedToAll(rs) \cup (IF new THEN {item} ELSE {})
  <2>1. /\ PushedToAll(more) = {more[i].item : i \in First(more)}
        /\ PushedToAll(rs) = {rs[i].item : i \in First(rs)}
    BY DEF PushedToAll
  <2>2. First(rs) \subseteq 1..n
    BY <1>1
  <2>3. more[n + 1].item = item /\ \A i \in 1..n : more[i].item = rs[i].item
    BY <1>2, <1>3
  <2> HIDE DEF First, new
  <2>4. {more[i].item : i \in First(rs)} = {rs[i].item : i \in First(rs)}
    BY <2>2, <2>3, Zenon
  <2>5. CASE new
    <3>1. First(more) = First(rs) \cup {n + 1}
      BY <1>9, <2>5
    <3>2. {more[i].item : i \in First(more)} =
            {more[i].item : i \in First(rs)} \cup {more[n + 1].item}
      BY <3>1, Zenon
    <3> QED
      BY <2>1, <2>3, <2>4, <2>5, <3>2
  <2>6. CASE ~new
    <3>1. First(more) = First(rs)
      BY <1>9, <2>6
    <3> QED
      BY <2>1, <2>4, <2>6, <3>1
  <2> QED
    BY <2>5, <2>6
<1>11. k # AllKey /\ k \in Keys
  OBVIOUS
<1>12. Build(rs)[k] = {} <=> new
  <2>1. Build(rs)[k] = Pushed(rs, k)
    BY <1>11 DEF Build
  <2>2. Pushed(rs, k) = {} <=> new
    BY <1>1, Zenon DEF Pushed
  <2> QED
    BY <2>1, <2>2
<1> HIDE DEF new, First
<1>13. ASSUME NEW h \in Keys
       PROVE  Build(more)[h] = Build(rs)[h] \cup
                (IF h = k \/ (h = AllKey /\ new) THEN {item} ELSE {})
  <2>1. /\ Build(more)[h] = Pushed(more, h) \cup
             (IF h = AllKey THEN PushedToAll(more) ELSE {})
        /\ Build(rs)[h] = Pushed(rs, h) \cup
             (IF h = AllKey THEN PushedToAll(rs) ELSE {})
    BY DEF Build
  <2>2. CASE h = AllKey
    BY <1>6, <1>10, <1>11, <2>1, <2>2
  <2>3. CASE h # AllKey
    BY <1>6, <2>1, <2>3
  <2> QED
    BY <2>2, <2>3
<1> QED
  BY <1>3, <1>12, <1>13 DEF more, row
-----------------------------------------------------------------------------
(* The store of a builder has these lists. *)
Collects(store, lists) ==
  /\ IsStore(store) /\ IsFiniteSet(DOMAIN store)
  /\ lists \in [Keys -> Seq(Posts)]
  /\ DOMAIN store = {k \in Keys : lists[k] # <<>>}
  /\ \A k \in Keys : PushedList(At(store, k).bytes, lists[k])

Longer(lists, k, item) == [lists EXCEPT ![k] = Append(lists[k], item)]

LEMMA LongerGives ==
  ASSUME NEW lists \in [Keys -> Seq(Posts)], NEW k \in Keys, NEW item \in Posts
  PROVE  /\ Longer(lists, k, item) \in [Keys -> Seq(Posts)]
         /\ Longer(lists, k, item)[k] = Append(lists[k], item)
         /\ \A h \in Keys : h # k => Longer(lists, k, item)[h] = lists[h]
         /\ Append(lists[k], item) # <<>>
<1>1. lists[k] \in Seq(Posts)
  OBVIOUS
<1>2. Append(lists[k], item) \in Seq(Posts) /\ Append(lists[k], item) # <<>>
  BY <1>1
<1> QED
  BY <1>2 DEF Longer

LEMMA PushCollects ==
  ASSUME NEW store, NEW lists, Collects(store, lists),
         NEW k \in Keys, NEW item \in Posts
  PROVE  Collects(PushInt(store, k, item), Longer(lists, k, item))
<1> DEFINE after == PushInt(store, k, item)
           longer == Longer(lists, k, item)
<1>1. lists \in [Keys -> Seq(Posts)] /\ lists[k] \in Seq(Posts)
  BY DEF Collects
<1>2. item \in Int24 /\ lists[k] \in Seq(Int24)
  BY <1>1, PostsAreIds
<1>3. /\ OnlyAt(after, store, k)
      /\ PushedList(At(after, k).bytes, Append(lists[k], item))
  BY <1>2, PushIntGives DEF Collects
<1>4. /\ longer \in [Keys -> Seq(Posts)] /\ longer[k] = Append(lists[k], item)
      /\ longer[k] # <<>>
      /\ \A h \in Keys : h # k => longer[h] = lists[h]
  BY <1>1, LongerGives
<1> HIDE DEF after, longer
<1>5. IsStore(after) /\ DOMAIN after = DOMAIN store \cup {k}
  BY <1>3 DEF OnlyAt
<1>6. IsFiniteSet(DOMAIN after)
  <2>1. IsFiniteSet(DOMAIN store)
    BY DEF Collects
  <2>2. IsFiniteSet(DOMAIN store \cup {k})
    BY <2>1, FS_AddElement
  <2> QED
    BY <1>5, <2>2
<1>7. DOMAIN after = {h \in Keys : longer[h] # <<>>}
  BY <1>4, <1>5 DEF Collects
<1>8. ASSUME NEW h \in Keys PROVE PushedList(At(after, h).bytes, longer[h])
  <2>1. CASE h = k
    BY <1>3, <1>4, <2>1
  <2>2. CASE h # k
    <3>1. At(after, h) = At(store, h) /\ longer[h] = lists[h]
      BY <1>3, <1>4, <2>2 DEF OnlyAt
    <3> QED
      BY <3>1 DEF Collects
  <2> QED
    BY <2>1, <2>2
<1> QED
  BY <1>4, <1>5, <1>6, <1>7, <1>8 DEF Collects, after, longer

LEMMA NothingCollected == Collects(<<>>, [k \in Keys |-> <<>>])
<1> DEFINE lists == [k \in Keys |-> <<>>]
           none == <<>>
<1>1. DOMAIN none = {} /\ none \in [{} -> Sequences]
  OBVIOUS
<1>2. lists \in [Keys -> Seq(Posts)] /\ \A k \in Keys : lists[k] = <<>>
  OBVIOUS
<1> HIDE DEF lists, none
<1>3. IsStore(none) /\ IsFiniteSet(DOMAIN none)
  BY <1>1, FS_EmptySet DEF IsStore
<1>4. \A k \in Keys : At(none, k).bytes = <<>>
  BY <1>1, NewSequenceType DEF At
<1> QED
  BY <1>1, <1>2, <1>3, <1>4 DEF Collects, PushedList, lists, none

-----------------------------------------------------------------------------
(* While rows are pushed, the lists of the builder are what Build makes of *)
(* them, before they are in order and with some posts twice.               *)
Collected ==
  \E lists :
    /\ Collects(batch, lists)
    /\ \A k \in Keys :
         Len(lists[k]) <= Len(rows) /\ ToSet(lists[k]) = Build(rows)[k]

StoreInv ==
  /\ rows \in Seq(Row) /\ Len(rows) <= MaxRows
  /\ stage \in {"push", "merge"} /\ left \subseteq Keys
  /\ index \in [Keys -> SUBSET Posts]
  /\ IsStore(batch) /\ IsStore(main)
  /\ stage = "push" => Collected
  /\ BatchIsBuild /\ StoreIsIndex

LEMMA BuildOfNothing == \A k \in Keys : Build(<<>>)[k] = {}
BY DEF Build, Pushed, PushedToAll

LEMMA BuildType ==
  ASSUME NEW rs \in Seq(Row)
  PROVE  Build(rs) \in [Keys -> SUBSET Posts]
<1>1. \A i \in DOMAIN rs : rs[i].item \in Posts
  <2>1. \A i \in DOMAIN rs : rs[i] \in Row
    BY ElementOfSeq, LenProperties
  <2> QED
    BY <2>1 DEF Row
<1>2. /\ \A k \in Keys : Pushed(rs, k) \subseteq Posts
      /\ PushedToAll(rs) \subseteq Posts
  BY <1>1 DEF Pushed, PushedToAll
<1> QED
  BY <1>2 DEF Build

(* A builder without a row. *)
Empty == rows = <<>> /\ batch = <<>> /\ stage = "push" /\ left = {}

Collecting ==
  /\ rows \in Seq(Row) /\ Len(rows) <= MaxRows
  /\ stage \in {"push", "merge"} /\ left \subseteq Keys
  /\ IsStore(batch) /\ Collected /\ BatchIsBuild

LEMMA EmptyCollected == Empty => Collecting
<1> SUFFICES ASSUME Empty PROVE Collecting
  OBVIOUS
<1>1. rows \in Seq(Row) /\ Len(rows) = 0
  BY DEF Empty
<1>2. Collected
  <2> DEFINE lists == [k \in Keys |-> <<>>]
  <2>1. Collects(batch, lists)
    BY NothingCollected DEF Empty
  <2>2. \A k \in Keys : lists[k] = <<>>
    OBVIOUS
  <2> HIDE DEF lists
  <2>3. \A k \in Keys : Len(lists[k]) <= Len(rows) /\ ToSet(lists[k]) = {}
    BY <1>1, <2>2 DEF ToSet
  <2> QED
    BY <2>1, <2>3, BuildOfNothing DEF Collected, Empty
<1>3. IsStore(batch)
  BY NothingCollected DEF Empty, Collects
<1> QED
  BY <1>1, <1>2, <1>3, Bounds DEF Collecting, Empty, BatchIsBuild

LEMMA EmptyCollectedNext == Empty' => Collecting'
BY EmptyCollected, PTL

LEMMA InitStore == Init => StoreInv
<1> SUFFICES ASSUME Init PROVE StoreInv
  OBVIOUS
<1>1. Empty
  BY DEF Init, Empty
<1>2. IsStore(main)
  BY NothingCollected DEF Init, Collects
<1>3. index \in [Keys -> SUBSET Posts] /\ \A k \in Keys : index[k] = {}
  BY DEF Init, EmptyIndex
<1>4. \A k \in Keys : At(main, k).bytes = <<>>
  BY NewSequenceType DEF Init, At
<1>5. StoreIsIndex
  <2>1. \A k \in Keys : /\ 4 * Cardinality(index[k]) < MaxBytes
                        /\ Ascending(index[k]) = <<>>
    <3>1. 4 * Cardinality({}) < MaxBytes /\ Ascending({}) = <<>>
      BY NoPosts, Bounds
    <3> QED
      BY <1>3, <3>1
  <2>2. \A k \in Keys : ListOf(main, k) = <<>> /\ Readable(main, k)
    BY <1>4, NoBytesNoList
  <2> QED
    BY <2>1, <2>2 DEF StoreIsIndex
<1> QED
  BY <1>1, <1>2, <1>3, <1>5, EmptyCollected DEF StoreInv, Collecting
-----------------------------------------------------------------------------
(* What StoreIsIndex says of a key. *)
Reads(store, k, S) ==
  IF 4 * Cardinality(S) < MaxBytes
  THEN Readable(store, k) /\ ListOf(store, k) = Ascending(S)
  ELSE ~Readable(store, k)

LEMMA ReadsSame ==
  ASSUME NEW store, NEW after, NEW k, NEW S, At(after, k) = At(store, k),
         Reads(store, k, S)
  PROVE  Reads(after, k, S)
BY SameList DEF Reads

LEMMA ReadsNothing ==
  ASSUME NEW store, NEW k, At(store, k).bytes = <<>>
  PROVE  Reads(store, k, {})
<1>1. 4 * Cardinality({}) < MaxBytes /\ Ascending({}) = <<>>
  BY NoPosts, Bounds
<1> QED
  BY <1>1, NoBytesNoList DEF Reads

LEMMA ReadsReplaced ==
  ASSUME NEW store, IsStore(store), NEW k \in Keys,
         NEW S \in SUBSET Posts, S # {}
  PROVE  /\ OnlyAt(Replace(store, k, Ascending(S)), store, k)
         /\ Reads(Replace(store, k, Ascending(S)), k, S)
<1> DEFINE values == Ascending(S)
           after == Replace(store, k, values)
<1>1. /\ values \in Seq(Int24) /\ values # <<>> /\ Len(values) = Cardinality(S)
  BY PostsInOrder
<1> HIDE DEF values
<1>2. /\ OnlyAt(after, store, k)
      /\ 4 * Len(values) < MaxBytes =>
           Readable(after, k) /\ ListOf(after, k) = values
      /\ Readable(after, k) => 4 * Len(values) < MaxBytes
  BY <1>1, ReplaceGives
<1> HIDE DEF after
<1>3. Reads(after, k, S)
  BY <1>1, <1>2 DEF Reads, values
<1> QED
  BY <1>2, <1>3 DEF after, values

(* A row that is pushed. *)
LEMMA PushStep ==
  ASSUME StoreInv, NEW k \in Keys \ {AllKey}, NEW item \in Posts, Push(k, item)
  PROVE  StoreInv'
<1> DEFINE row == [item |-> item, keys |-> {k}]
           pushed == PushInt(batch, k, item)
<1>1. /\ stage = "push" /\ Len(rows) < MaxRows /\ rows' = Append(rows, row)
      /\ batch' = IF k \in DOMAIN batch THEN pushed
                  ELSE PushInt(pushed, AllKey, item)
      /\ stage' = stage /\ left' = left /\ main' = main /\ index' = index
  BY DEF Push
<1>2. PICK lists :
        /\ Collects(batch, lists)
        /\ \A h \in Keys : /\ Len(lists[h]) <= Len(rows)
                           /\ ToSet(lists[h]) = Build(rows)[h]
  BY <1>1 DEF StoreInv, Collected
<1>3. rows \in Seq(Row) /\ Len(rows) \in Nat
  BY LenProperties DEF StoreInv
<1>4. /\ rows' \in Seq(Row)
      /\ \A h \in Keys :
           Build(rows')[h] = Build(rows)[h] \cup
             (IF h = k \/ (h = AllKey /\ Build(rows)[k] = {}) THEN {item} ELSE {})
  BY <1>1, <1>3, BuildGrows
<1>5. Len(rows') = Len(rows) + 1
  BY <1>1, <1>3
<1>6. lists \in [Keys -> Seq(Posts)] /\ k \in Keys /\ AllKey \in Keys /\ AllKey # k
  BY <1>2, KeysAssumption DEF Collects
<1> DEFINE once == Longer(lists, k, item)
           twice == Longer(once, AllKey, item)
           longer == IF k \in DOMAIN batch THEN once ELSE twice
<1>7. Collects(pushed, once) /\ Collects(PushInt(pushed, AllKey, item), twice)
  BY <1>2, <1>6, PushCollects
<1>8. /\ once \in [Keys -> Seq(Posts)] /\ once[k] = Append(lists[k], item)
      /\ \A h \in Keys : h # k => once[h] = lists[h]
  BY <1>6, LongerGives
<1>9. /\ twice \in [Keys -> Seq(Posts)]
      /\ twice[AllKey] = Append(lists[AllKey], item)
      /\ \A h \in Keys : h # AllKey => twice[h] = once[h]
  <2> HIDE DEF once
  <2>1. /\ twice \in [Keys -> Seq(Posts)]
        /\ twice[AllKey] = Append(once[AllKey], item)
        /\ \A h \in Keys : h # AllKey => twice[h] = once[h]
    BY <1>6, <1>8, LongerGives
  <2>2. once[AllKey] = lists[AllKey]
    BY <1>6, <1>8
  <2> QED
    BY <2>1, <2>2
<1> HIDE DEF once, twice, pushed
<1>10. Collects(batch', longer)
  BY <1>1, <1>7
<1>11. k \in DOMAIN batch <=> Build(rows)[k] # {}
  <2>1. k \in DOMAIN batch <=> lists[k] # <<>>
    BY <1>2, <1>6 DEF Collects
  <2>2. ToSet(lists[k]) = {} <=> lists[k] = <<>>
    BY <1>6, NoNumbers
  <2> QED
    BY <1>2, <1>6, <2>1, <2>2
<1>12. ASSUME NEW h \in Keys
       PROVE  longer[h] = IF h = k \/ (h = AllKey /\ Build(rows)[k] = {})
                          THEN Append(lists[h], item) ELSE lists[h]
  BY <1>6, <1>8, <1>9, <1>11
<1> HIDE DEF longer
<1>13. ASSUME NEW h \in Keys
       PROVE  Len(longer[h]) <= Len(rows') /\ ToSet(longer[h]) = Build(rows')[h]
  <2>1. lists[h] \in Seq(Posts) /\ Len(lists[h]) \in Nat
    BY <1>6, LenProperties
  <2>2. Len(lists[h]) <= Len(rows) /\ ToSet(lists[h]) = Build(rows)[h]
    BY <1>2
  <2>3. CASE h = k \/ (h = AllKey /\ Build(rows)[k] = {})
    <3>1. longer[h] = Append(lists[h], item)
      BY <1>12, <2>3
    <3>2. ToSet(longer[h]) = ToSet(lists[h]) \cup {item}
      BY <2>1, <3>1, OneMoreNumber
    <3>3. Len(longer[h]) = Len(lists[h]) + 1
      BY <2>1, <3>1
    <3>4. Build(rows')[h] = Build(rows)[h] \cup {item}
      BY <1>4, <2>3
    <3>5. Len(longer[h]) <= Len(rows')
      BY <1>3, <1>5, <2>1, <2>2, <3>3
    <3> QED
      BY <2>2, <3>2, <3>4, <3>5
  <2>4. CASE ~ (h = k \/ (h = AllKey /\ Build(rows)[k] = {}))
    <3>1. longer[h] = lists[h]
      BY <1>12, <2>4
    <3>2. Build(rows')[h] = Build(rows)[h]
      BY <1>4, <2>4
    <3> QED
      BY <1>3, <1>5, <2>1, <2>2, <3>1, <3>2
  <2> QED
    BY <2>3, <2>4
<1>14. Collected'
  BY <1>10, <1>13 DEF Collected
<1>15. Len(rows') <= MaxRows
  BY <1>1, <1>3, <1>5, Bounds
<1>16. IsStore(batch')
  BY <1>10 DEF Collects
<1>17. BatchIsBuild'
  BY <1>1 DEF BatchIsBuild
<1>18. StoreIsIndex'
  BY <1>1 DEF StoreInv, StoreIsIndex
<1> QED
  BY <1>1, <1>4, <1>14, <1>15, <1>16, <1>17, <1>18 DEF StoreInv

(* The lists of the builder, in order and compressed. *)
LEMMA BuildStep ==
  ASSUME StoreInv, BuildLists
  PROVE  StoreInv'
<1>1. /\ stage = "push" /\ batch' = OptimizedStore(batch)
      /\ stage' = "merge" /\ left' = DOMAIN batch
      /\ rows' = rows /\ main' = main /\ index' = index
  BY DEF BuildLists
<1>2. PICK lists :
        /\ Collects(batch, lists)
        /\ \A h \in Keys : /\ Len(lists[h]) <= Len(rows)
                           /\ ToSet(lists[h]) = Build(rows)[h]
  BY <1>1 DEF StoreInv, Collected
<1>3. /\ IsStore(batch) /\ IsFiniteSet(DOMAIN batch) /\ DOMAIN batch \subseteq Keys
      /\ DOMAIN batch = {k \in Keys : lists[k] # <<>>}
      /\ lists \in [Keys -> Seq(Posts)]
  BY <1>2 DEF Collects, IsStore
<1>4. ASSUME NEW k \in Keys PROVE ListOf(batch, k) = lists[k]
  <2>1. PushedList(At(batch, k).bytes, lists[k])
    BY <1>2 DEF Collects
  <2>2. lists[k] \in Seq(Int24)
    <3>1. lists[k] \in Seq(Posts)
      BY <1>3
    <3> QED
      BY <3>1, PostsAreIds
  <2> QED
    BY <2>1, <2>2, PushedListRead
<1>5. ASSUME NEW k \in DOMAIN batch PROVE ShortList(batch, k)
  <2>1. k \in Keys /\ ListOf(batch, k) = lists[k] /\ lists[k] # <<>>
    BY <1>3, <1>4
  <2>2. lists[k] \in Seq(Posts) /\ Len(lists[k]) \in Nat
    BY <1>3, <2>1, LenProperties
  <2>3. Len(lists[k]) <= Len(rows) /\ Len(rows) \in Nat /\ Len(rows) <= MaxRows
    BY <1>2, <2>1, LenProperties DEF StoreInv
  <2>4. Len(lists[k]) <= MaxRows
    BY <2>2, <2>3, Bounds
  <2> QED
    BY <2>1, <2>2, <2>4 DEF ShortList
<1>6. /\ IsStore(batch') /\ DOMAIN batch' = DOMAIN batch
      /\ \A k \in DOMAIN batch :
           ListOf(batch', k) = Ascending(ToSet(ListOf(batch, k)))
  BY <1>1, <1>3, <1>5, OptimizedStoreGives
<1>7. ASSUME NEW k \in Keys PROVE ListOf(batch', k) = Ascending(Build(rows')[k])
  <2>1. CASE k \in DOMAIN batch
    BY <1>1, <1>2, <1>4, <1>6, <2>1
  <2>2. CASE k \notin DOMAIN batch
    <3>1. lists[k] = <<>>
      BY <1>3, <2>2
    <3>2. Build(rows)[k] = {}
      BY <1>2, <3>1 DEF ToSet
    <3>3. At(batch', k).bytes = <<>>
      BY <1>6, <2>2, NewSequenceType DEF At
    <3>4. ListOf(batch', k) = <<>>
      BY <3>3, NoBytesNoList
    <3> QED
      BY <1>1, <3>2, <3>4, NoPosts
  <2> QED
    BY <2>1, <2>2
<1>8. BatchIsBuild'
  BY <1>7 DEF BatchIsBuild
<1>9. StoreIsIndex'
  BY <1>1 DEF StoreInv, StoreIsIndex
<1> QED
  BY <1>1, <1>3, <1>6, <1>8, <1>9 DEF StoreInv
(* What the merge reads in a list is what was merged into it, as long as   *)
(* it can be read at all.                                                  *)
LEMMA ListsAreIndex ==
  ASSUME StoreInv, NEW k \in Keys
  PROVE  /\ Reads(main, k, index[k])
         /\ index[k] \subseteq Posts
         /\ Readable(main, k) => ToSet(ListOf(main, k)) = index[k]
<1>1. index[k] \in SUBSET Posts
  BY DEF StoreInv
<1>2. Reads(main, k, index[k])
  BY DEF StoreInv, StoreIsIndex, Reads
<1>3. ToSet(Ascending(index[k])) = index[k]
  BY <1>1, PostsInOrder
<1> QED
  BY <1>1, <1>2, <1>3 DEF Reads

LEMMA OthersKept ==
  ASSUME StoreInv, NEW k \in Keys, NEW S \in SUBSET Posts,
         IsStore(main'), \A h : h # k => At(main', h) = At(main, h),
         index' = [index EXCEPT ![k] = S], Reads(main', k, S)
  PROVE  index' \in [Keys -> SUBSET Posts] /\ StoreIsIndex'
<1>1. index \in [Keys -> SUBSET Posts]
  BY DEF StoreInv
<1>2. /\ index' \in [Keys -> SUBSET Posts] /\ index'[k] = S
      /\ \A h \in Keys : h # k => index'[h] = index[h]
  BY <1>1
<1>3. ASSUME NEW h \in Keys PROVE Reads(main', h, index'[h])
  <2>1. CASE h = k
    BY <1>2, <2>1
  <2>2. CASE h # k
    <3>1. Reads(main, h, index[h])
      BY ListsAreIndex
    <3>2. Reads(main', h, index[h])
      BY <2>2, <3>1, ReadsSame
    <3> QED
      BY <1>2, <2>2, <3>2
  <2> QED
    BY <2>1, <2>2
<1> QED
  BY <1>2, <1>3 DEF StoreIsIndex, Reads

LEMMA NewBatchStep ==
  ASSUME StoreInv, NewBatch, IsStore(main'),
         index' \in [Keys -> SUBSET Posts], StoreIsIndex'
  PROVE  StoreInv'
<1>1. Empty'
  BY DEF NewBatch, Empty
<1>2. Collecting'
  BY <1>1, EmptyCollectedNext
<1> QED
  BY <1>2 DEF StoreInv, Collecting

(* The merge of a key, with the panic of an encoding that is too long. *)
LEMMA MergeKeyStep ==
  ASSUME StoreInv, MergeKey
  PROVE  StoreInv'
<1> DEFINE k == Min(left)
           old == ToSet(ListOf(main, k))
           new == ToSet(ListOf(batch, k))
<1>1. stage = "merge" /\ left # {} /\ Readable(main, k)
  BY DEF MergeKey
<1>2. k \in left /\ k \in Keys
  <2>1. left \in SUBSET Nat /\ left # {} /\ left \subseteq Keys
    BY <1>1, KeysAssumption DEF StoreInv
  <2>2. \E x \in left : \A y \in left : x <= y
    BY <2>1, LeastNat
  <2> QED
    BY <2>1, <2>2 DEF Min
<1>3. old = index[k] /\ index[k] \subseteq Posts
  BY <1>1, <1>2, ListsAreIndex
<1>4. new \subseteq Posts
  <2>1. ListOf(batch, k) = Ascending(Build(rows)[k])
    BY <1>1, <1>2 DEF StoreInv, BatchIsBuild
  <2>2. Build(rows)[k] \in SUBSET Posts
    BY <1>2, BuildType DEF StoreInv
  <2> QED
    BY <2>1, <2>2, PostsInOrder
<1>5. /\ IF new \subseteq old THEN UNCHANGED <<main, index>>
         ELSE /\ main' = Replace(main, k, Ascending(old \cup new))
              /\ index' = [index EXCEPT ![k] = old \cup new]
      /\ IF ~(new \subseteq old) /\ EncodePanics(Ascending(old \cup new))
         THEN NewBatch
         ELSE left' = left \ {k} /\ UNCHANGED <<rows, batch, stage>>
  BY DEF MergeKey
<1> HIDE DEF k, old, new
<1>6. /\ IsStore(main') /\ index' \in [Keys -> SUBSET Posts] /\ StoreIsIndex'
  <2>1. CASE new \subseteq old
    <3>1. main' = main /\ index' = index
      BY <1>5, <2>1
    <3> QED
      BY <3>1 DEF StoreInv, StoreIsIndex
  <2>2. CASE ~ (new \subseteq old)
    <3> DEFINE S == old \cup new
    <3>1. S \in SUBSET Posts /\ S # {}
      BY <1>3, <1>4, <2>2
    <3>2. main' = Replace(main, k, Ascending(S)) /\ index' = [index EXCEPT ![k] = S]
      BY <1>5, <2>2
    <3> HIDE DEF S
    <3>3. OnlyAt(main', main, k) /\ Reads(main', k, S)
      BY <1>2, <3>1, <3>2, ReadsReplaced DEF StoreInv
    <3>4. IsStore(main') /\ \A h : h # k => At(main', h) = At(main, h)
      BY <3>3 DEF OnlyAt
    <3> QED
      BY <1>2, <3>1, <3>2, <3>3, <3>4, OthersKept
  <2> QED
    BY <2>1, <2>2
<1>7. CASE NewBatch
  BY <1>6, <1>7, NewBatchStep
<1>8. CASE left' = left \ {k} /\ UNCHANGED <<rows, batch, stage>>
  <2>1. /\ rows' = rows /\ batch' = batch /\ stage' = stage
        /\ left' \subseteq Keys
    BY <1>8 DEF StoreInv
  <2>2. BatchIsBuild' /\ (stage' = "push" => Collected')
    BY <1>1, <2>1 DEF StoreInv, BatchIsBuild
  <2> QED
    BY <1>6, <2>1, <2>2 DEF StoreInv
<1> QED
  BY <1>5, <1>7, <1>8

LEMMA DeleteStep ==
  ASSUME StoreInv, NEW k \in Keys, Delete(k)
  PROVE  StoreInv'
<1>1. /\ main' = Removed(main, k) /\ index' = [index EXCEPT ![k] = {}]
      /\ rows' = rows /\ batch' = batch /\ stage' = stage /\ left' = left
  BY DEF Delete, Replace
<1>2. /\ IsStore(main') /\ At(main', k).bytes = <<>>
      /\ \A h : h # k => At(main', h) = At(main, h)
  BY <1>1, RemovedGives, NewSequenceType DEF StoreInv
<1>3. Reads(main', k, {})
  BY <1>2, ReadsNothing
<1>4. index' \in [Keys -> SUBSET Posts] /\ StoreIsIndex'
  BY <1>1, <1>2, <1>3, OthersKept
<1>5. BatchIsBuild' /\ (stage' = "push" => Collected')
  BY <1>1 DEF StoreInv, BatchIsBuild, Collected
<1> QED
  BY <1>1, <1>2, <1>4, <1>5 DEF StoreInv

LEMMA NextStore == StoreInv /\ [Next]_vars => StoreInv'
<1> SUFFICES ASSUME StoreInv, [Next]_vars PROVE StoreInv'
  OBVIOUS
<1>1. ASSUME main' = main, index' = index
      PROVE  IsStore(main') /\ index' \in [Keys -> SUBSET Posts] /\ StoreIsIndex'
  BY <1>1 DEF StoreInv, StoreIsIndex
<1>2. ASSUME NEW k \in Keys \ {AllKey}, NEW item \in Posts, Push(k, item)
      PROVE  StoreInv'
  BY <1>2, PushStep
<1>3. CASE BuildLists
  BY <1>3, BuildStep
<1>4. CASE UNCHANGED vars
  <2>1. /\ rows' = rows /\ batch' = batch /\ stage' = stage /\ left' = left
        /\ main' = main /\ index' = index
    BY <1>4 DEF vars
  <2>2. BatchIsBuild' /\ (stage' = "push" => Collected')
    BY <2>1 DEF StoreInv, BatchIsBuild, Collected
  <2> QED
    BY <1>1, <2>1, <2>2 DEF StoreInv
<1>5. CASE BuildPanics
  BY <1>4, <1>5 DEF BuildPanics
<1>6. CASE MergeKey
  BY <1>6, MergeKeyStep
<1>7. CASE MergePanics
  BY <1>1, <1>7, NewBatchStep DEF MergePanics
<1>8. CASE MergeEnd
  BY <1>1, <1>8, NewBatchStep DEF MergeEnd
<1>9. ASSUME NEW k \in Keys, Delete(k) PROVE StoreInv'
  BY <1>9, DeleteStep
<1> QED
  BY <1>2, <1>3, <1>4, <1>5, <1>6, <1>7, <1>8, <1>9 DEF Next

LEMMA StoreInvariant == Spec => []StoreInv
<1>1. Init => StoreInv
  BY InitStore
<1>2. StoreInv /\ [Next]_vars => StoreInv'
  BY NextStore
<1> QED
  BY <1>1, <1>2, PTL DEF Spec

-----------------------------------------------------------------------------
(* No push writes beyond the memory of its sequence, whatever is pushed    *)
(* (sequence.cpp:85, 97), and every byte is one.                           *)
THEOREM StoreTypes == Spec => []TypeOK
<1>1. StoreInv => TypeOK
  <2> SUFFICES ASSUME StoreInv PROVE TypeOK
    OBVIOUS
  <2>1. rows \in [1..Len(rows) -> Row]
    BY LenProperties DEF StoreInv
  <2>2. ASSUME NEW store, IsStore(store)
        PROVE  /\ DOMAIN store \subseteq Keys
               /\ \A k \in DOMAIN store : IsSequence(store[k])
    BY <2>2, SequenceParts DEF IsStore
  <2> QED
    BY <2>1, <2>2 DEF StoreInv, TypeOK
<1> QED
  BY <1>1, StoreInvariant, PTL

(* The builder makes of its bytes what Build makes of the rows, in         *)
(* ascending order and without a post twice (store_builder.go:26-63): the  *)
(* abstraction of every other module.                                      *)
THEOREM BuilderBuilds == Spec => []BatchIsBuild
<1>1. StoreInv => BatchIsBuild
  BY DEF StoreInv
<1> QED
  BY <1>1, StoreInvariant, PTL

(* Every list of the store is what was merged into it until it is too long *)
(* to be read, whatever codec and memory it went through                   *)
(* (iter_store.go:45-66, byte_store.go:86).                                *)
THEOREM StoreHoldsIndex == Spec => []StoreIsIndex
<1>1. StoreInv => StoreIsIndex
  BY DEF StoreInv
<1> QED
  BY <1>1, StoreInvariant, PTL
=============================================================================
