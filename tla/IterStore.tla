----------------------------- MODULE IterStore ------------------------------
(***************************************************************************)
(* The store down to its bytes: a map from keys to sequences of bytes in   *)
(* C++ (map.cpp, sequence.cpp), the lists that are written to and read     *)
(* from them (iter_store.go, byte_store.go), the builder that fills one    *)
(* store with a batch of rows (store_builder.go), and the merge of that    *)
(* batch into the store of the service (actions.go).                       *)
(*                                                                         *)
(* StoreActions has sets of posts in the place of these bytes: here it is  *)
(* shown that the bytes stand for them, as long as a list is short enough  *)
(* for its own limits.  Whatever is locked there happens in one step here. *)
(***************************************************************************)
EXTENDS StoreBuilder, Codecs

CONSTANTS
  MaxRows,      \* rows of a batch
  InlineBytes,  \* sequence::max_inline_bytes, 15 in the code
  LargeCount,   \* posts above which a list is no varint list, 100000
  MaxBytes      \* what Get can look at, 2^24

(* A batch and a varint list are far below the limit. *)
ASSUME BoundsAssumption ==
  /\ \A item \in Posts : item \in Int /\ -8388608 <= item /\ item < 0
  /\ {MaxRows, InlineBytes, LargeCount, MaxBytes} \subseteq Nat \ {0}
  /\ 1 + 4 * MaxRows <= MaxBytes /\ 1 + 5 * LargeCount <= MaxBytes

VARIABLES
  rows,    \* history: what was pushed into the builder
  batch,   \* the store of the builder
  stage,   \* "push": rows arrive; "merge": the batch is merged
  left,    \* the keys that are still to be merged
  main,    \* the store of the service
  index    \* history: the posts that were last meant for each list of main

vars == <<rows, batch, stage, left, main, index>>
-----------------------------------------------------------------------------
(* A sequence of bytes, either in the sequence object or on the heap. *)
NewSequence == [bytes |-> <<>>, inline |-> TRUE, capacity |-> 0]

(* A variant that keeps one byte more than fits in the object.             *)
PushedByteInlineLonger(seq, byte) ==
  LET stays == seq.inline /\ Len(seq.bytes) <= InlineBytes
  IN [bytes |-> Append(seq.bytes, byte),
      inline |-> stays,
      capacity |-> IF stays THEN 0 ELSE Len(seq.bytes) + 1]

(* sequence::push: to the heap when it does not fit any more, and into     *)
(* more memory when the heap is full.                                      *)
PushedByte(seq, byte) ==
  LET n == Len(seq.bytes)
      stays == seq.inline /\ n + 1 <= InlineBytes
      grows == ~seq.inline /\ n = seq.capacity
  IN [bytes |-> Append(seq.bytes, byte),
      inline |-> stays,
      capacity |-> IF stays THEN 0
                   ELSE IF seq.inline THEN 8 + 2 * InlineBytes
                   ELSE IF grows THEN 8 + (13 * seq.capacity) \div 10
                   ELSE seq.capacity]

Compacted(seq) ==
  IF seq.inline THEN seq ELSE [seq EXCEPT !.capacity = Len(seq.bytes)]

(* small_map: operator[] makes an empty sequence for a new key. *)
At(store, k) == IF k \in DOMAIN store THEN store[k] ELSE NewSequence

With(store, k, seq) ==
  [h \in DOMAIN store \cup {k} |-> IF h = k THEN seq ELSE store[h]]

Removed(store, k) == [h \in DOMAIN store \ {k} |-> store[h]]

(* PushN pushes byte after byte. *)
Appended(seq, bytes) ==
  LET after[n \in 0..Len(bytes)] ==
        IF n = 0 THEN seq ELSE PushedByte(after[n - 1], bytes[n])
  IN after[Len(bytes)]

PushN(store, k, bytes) == With(store, k, Appended(At(store, k), bytes))
-----------------------------------------------------------------------------
(* Lists.  The first byte of a list is the id of its codec.                *)
CodecId == [int24 |-> 1, varint |-> 2, int32 |-> 4]

CodecById(id) == CHOOSE c \in DOMAIN CodecId : CodecId[c] = id

OptimalCodec(count) == IF count > LargeCount THEN "int32" ELSE "varint"

(* PushInt.  A list that is no int24 list cannot be appended to: no list   *)
(* of a builder is, before Build.                                          *)
PushInt(store, k, value) ==
  PushN(store, k, (IF At(store, k).bytes = <<>> THEN <<CodecId.int24>> ELSE <<>>)
                    \o Int24ToBytes(value))

(* Encode of int32 panics for more bytes than the array it pretends to     *)
(* have; the list then keeps nothing but its codec.                        *)
EncodePanics(values) ==
  OptimalCodec(Len(values)) = "int32" /\ 4 * Len(values) > MaxBytes

Replace(store, k, values) ==
  LET codec == OptimalCodec(Len(values))
      begun == PushedByte(NewSequence, CodecId[codec])
  IN IF values = <<>> THEN Removed(store, k)
     ELSE IF EncodePanics(values) THEN With(store, k, begun)
     ELSE With(store, k,
               Compacted(Appended(begun, Encode(codec, values))))

(* GetIterator panics on more bytes than Get can look at, and on the list  *)
(* of a panic: the iterator of int32 takes the address of its first byte.  *)
Readable(store, k) ==
  LET bytes == At(store, k).bytes
  IN Len(bytes) <= MaxBytes /\ bytes # <<CodecId.int32>>

(* IteratorToList of GetIterator. *)
ListOf(store, k) ==
  LET bytes == At(store, k).bytes
  IN IF bytes = <<>> THEN <<>> ELSE Decode(CodecById(bytes[1]), Tail(bytes))
-----------------------------------------------------------------------------
Init ==
  /\ rows = <<>> /\ batch = <<>> /\ stage = "push" /\ left = {}
  /\ main = <<>> /\ index = EmptyIndex

NewBatch == rows' = <<>> /\ batch' = <<>> /\ stage' = "push" /\ left' = {}

(* A variant that looks the word up when it was pushed already.            *)
PushThenLookUp(k, item) ==
  /\ stage = "push" /\ Len(rows) < MaxRows
  /\ rows' = Append(rows, [item |-> item, keys |-> {k}])
  /\ batch' = PushInt(batch, k, item)
  /\ UNCHANGED <<stage, left, main, index>>

(* Push: the word is looked up before it is pushed. *)
Push(k, item) ==
  /\ stage = "push" /\ Len(rows) < MaxRows
  /\ rows' = Append(rows, [item |-> item, keys |-> {k}])
  /\ LET known == k \in DOMAIN batch
         pushed == PushInt(batch, k, item)
     IN batch' = IF known THEN pushed ELSE PushInt(pushed, AllKey, item)
  /\ UNCHANGED <<stage, left, main, index>>

(* Build sorts every list, drops what is in it twice and compresses it.    *)
Optimized(store, k) == Replace(store, k, Ascending(ToSet(ListOf(store, k))))

OptimizedStore(store) ==
  LET keys == Ascending(DOMAIN store)
      after[n \in 0..Len(keys)] ==
        IF n = 0 THEN store ELSE Optimized(after[n - 1], keys[n])
  IN after[Len(keys)]

BuildLists ==
  /\ stage = "push" /\ DOMAIN batch # {}
  /\ batch' = OptimizedStore(batch)
  /\ stage' = "merge" /\ left' = DOMAIN batch
  /\ UNCHANGED <<rows, main, index>>

(* Keys of a store without a key panics: so does Build then. *)
BuildPanics ==
  /\ stage = "push" /\ DOMAIN batch = {}
  /\ UNCHANGED vars

(* The next key: the list is replaced when the batch has posts for it that *)
(* it has not.  A panic ends the merge and leaves the rest of the keys.    *)
MergeKey ==
  LET k == Min(left)
      old == ToSet(ListOf(main, k))
      new == ToSet(ListOf(batch, k))
  IN /\ stage = "merge" /\ left # {}
     /\ Readable(main, k)
     /\ IF new \subseteq old THEN UNCHANGED <<main, index>>
        ELSE /\ main' = Replace(main, k, Ascending(old \cup new))
             /\ index' = [index EXCEPT ![k] = old \cup new]
     /\ IF ~(new \subseteq old) /\ EncodePanics(Ascending(old \cup new))
        THEN NewBatch
        ELSE left' = left \ {k} /\ UNCHANGED <<rows, batch, stage>>

MergePanics ==
  /\ stage = "merge" /\ left # {} /\ ~Readable(main, Min(left))
  /\ NewBatch
  /\ UNCHANGED <<main, index>>

MergeEnd ==
  /\ stage = "merge" /\ left = {}
  /\ NewBatch
  /\ UNCHANGED <<main, index>>

(* DELETE /admin/tag, and with it the sequence of the key. *)
Delete(k) ==
  /\ main' = Replace(main, k, <<>>)
  /\ index' = [index EXCEPT ![k] = {}]
  /\ UNCHANGED <<rows, batch, stage, left>>

Next ==
  \/ \E k \in Keys \ {AllKey}, item \in Posts : Push(k, item)
  \/ BuildLists \/ BuildPanics \/ MergeKey \/ MergePanics \/ MergeEnd
  \/ \E k \in Keys : Delete(k)

Spec == Init /\ [][Next]_vars
-----------------------------------------------------------------------------
(* A sequence keeps its bytes where they fit; every byte is one.           *)
IsSequence(seq) ==
  /\ \A i \in DOMAIN seq.bytes : seq.bytes[i] \in 0..255
  /\ IF seq.inline THEN Len(seq.bytes) <= InlineBytes /\ seq.capacity = 0
     ELSE Len(seq.bytes) <= seq.capacity

(* The variables keep their types: no push writes beyond the memory of a   *)
(* sequence (sequence.cpp:85, 97), which nothing else checks.              *)
TypeOK ==
  /\ rows \in [1..Len(rows) -> Row] /\ Len(rows) <= MaxRows
  /\ stage \in {"push", "merge"} /\ left \subseteq Keys
  /\ index \in [Keys -> SUBSET Posts]
  /\ \A store \in {batch, main} :
       DOMAIN store \subseteq Keys /\ \A k \in DOMAIN store : IsSequence(store[k])

(* What Build makes of the rows, pushed as int24 and compressed as varint  *)
(* or int32 (store_builder.go:26-63), are the lists of the abstract        *)
(* builder, for every key, in ascending order: what the iterators need.    *)
BatchIsBuild ==
  stage = "merge" => \A k \in Keys : ListOf(batch, k) = Ascending(Build(rows)[k])

(* Every list of the store can be read and has, in ascending order, the    *)
(* posts that were merged into it, whatever codec and memory it went       *)
(* through (iter_store.go:45-66) -- until it has so many posts that their  *)
(* bytes and the one of the codec exceed the limit of Get                  *)
(* (byte_store.go:86): it cannot be read from then on, in a search or a    *)
(* merge, unless the word is deleted.                                      *)
StoreIsIndex ==
  \A k \in Keys :
    IF 4 * Cardinality(index[k]) < MaxBytes
    THEN Readable(main, k) /\ ListOf(main, k) = Ascending(index[k])
    ELSE ~Readable(main, k)
=============================================================================
