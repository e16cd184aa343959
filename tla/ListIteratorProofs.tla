-------------------------- MODULE ListIteratorProofs --------------------------
(***************************************************************************)
(* The iterators over a slice, over varints and over numbers of 24 bits    *)
(* give every element of the list once and in order, whatever the list.    *)
(***************************************************************************)
EXTENDS ListIterator, CodecsProofs

(* What the constructors leave behind and no call changes. *)
ListOK ==
  /\ codec \in {"slice", "varint", "int24"}
  /\ list \in Seq(Int24) /\ 0 < Len(list) /\ Increasing(list)
  /\ ToSet(list) \subseteq Ids
  /\ bytes = IF codec = "slice" THEN list ELSE Encode(codec, list)

(* The iterator has given or skipped m elements.  The one over varints has *)
(* read the next one, as long as there is one.                             *)
Given(m) ==
  /\ m \in 0..Len(list)
  /\ passed = {list[i] : i \in 1..m}
  /\ codec = "slice" => pos = m
  /\ codec = "int24" => pos = 3 * m /\ (m < Len(list) => head = list[m + 1])
  /\ codec = "varint" =>
       /\ ended <=> m = Len(list)
       /\ \E off : /\ VarintList(bytes, list, off)
                   /\ pos = off[IF ended THEN m ELSE m + 1]
                   /\ head = list[IF ended THEN m ELSE m + 1]

CallOK ==
  /\ ended \in BOOLEAN /\ more \in BOOLEAN
  /\ call \in {"none", "HasMore", "SkipUntil"} /\ until \in Int
  /\ more => HasMoreNow
  /\ call = "SkipUntil" => ~more

CursorInv == ListOK /\ (\E m : Given(m)) /\ CallOK

LEMMA ListFacts ==
  ASSUME NEW l \in Seq(Int24), Increasing(l)
  PROVE  /\ Len(l) \in Nat
         /\ \A i \in 1..Len(l) : l[i] \in Int24 /\ l[i] \in Int
         /\ \A i, j \in 1..Len(l) : i < j => l[i] < l[j]
         /\ ToSet(l) = {l[i] : i \in 1..Len(l)}
<1>1. Len(l) \in Nat /\ DOMAIN l = 1..Len(l)
  BY LenProperties
<1>2. \A i \in 1..Len(l) : l[i] \in Int24
  BY ElementOfSeq
<1>3. \A i \in 1..Len(l) : l[i] \in Int
  BY <1>2 DEF Int24
<1>4. ToSet(l) = {l[i] : i \in 1..Len(l)}
  BY <1>1 DEF ToSet
<1> QED
  BY <1>1, <1>2, <1>3, <1>4 DEF Increasing

(* What the elements behind tell about the rest of the list. *)
LEMMA GivenFacts ==
  ListOK => \A m : Given(m) =>
    /\ HasMoreNow <=> m < Len(list)
    /\ m < Len(list) => Shown = list[m + 1]
    /\ Rest = {list[i] : i \in (m + 1)..Len(list)}
<1> SUFFICES ASSUME ListOK, NEW m, Given(m)
             PROVE  /\ HasMoreNow <=> m < Len(list)
                    /\ m < Len(list) => Shown = list[m + 1]
                    /\ Rest = {list[i] : i \in (m + 1)..Len(list)}
  OBVIOUS
<1>1. Len(list) \in Nat /\ 0 < Len(list)
  BY ListFacts DEF ListOK
<1>2. PICK n \in Nat : n = Len(list)
  BY <1>1
<1>3. m \in 0..n /\ 0 < n /\ m \in Nat
  BY <1>1, <1>2 DEF Given
<1>4. CASE codec = "slice"
  <2>1. bytes = list /\ pos = m
    BY <1>4 DEF ListOK, Given
  <2>2. HasMoreNow <=> m < n
    BY <1>2, <1>4, <2>1 DEF HasMoreNow
  <2>3. Shown = list[m + 1]
    BY <1>4, <2>1 DEF Shown
  <2>4. ElementsBehind(pos) + (IF codec = "varint" THEN 0 ELSE 1) = m + 1
    BY <1>4, <2>1 DEF ElementsBehind
  <2> QED
    BY <1>2, <1>3, <2>2, <2>3, <2>4 DEF Rest
<1>5. CASE codec = "int24"
  <2>1. bytes = EncodeInt24(list) /\ pos = 3 * m /\ (m < n => head = list[m + 1])
    BY <1>2, <1>5 DEF ListOK, Given, Encode
  <2>2. Len(bytes) = 3 * n
    <3>1. list \in Seq(Int)
      BY DEF ListOK, Int24
    <3> QED
      BY <1>2, <2>1, <3>1, Int24Layout
  <2>3. HasMoreNow <=> m < n
    BY <1>3, <1>5, <2>1, <2>2 DEF HasMoreNow
  <2>4. m < n => Shown = list[m + 1]
    BY <1>5, <2>1 DEF Shown
  <2>5. ElementsBehind(pos) + (IF codec = "varint" THEN 0 ELSE 1) = m + 1
    <3>1. (3 * m) \div 3 = m
      BY <1>3
    <3> QED
      BY <1>5, <2>1, <3>1 DEF ElementsBehind
  <2> QED
    BY <1>2, <1>3, <2>3, <2>4, <2>5 DEF Rest
<1>6. CASE codec = "varint"
  <2>1. ended <=> m = n
    BY <1>2, <1>6 DEF Given
  <2>2. PICK off : /\ VarintList(bytes, list, off)
                   /\ pos = off[IF ended THEN m ELSE m + 1]
                   /\ head = list[IF ended THEN m ELSE m + 1]
    BY <1>6 DEF Given
  <2>3. HasMoreNow <=> m < n
    BY <1>3, <1>6, <2>1 DEF HasMoreNow
  <2>4. m < n => Shown = list[m + 1]
    BY <1>3, <1>6, <2>1, <2>2 DEF Shown
  <2>5. m < n => ElementsBehind(pos) = m + 1
    <3>1. SUFFICES ASSUME m < n PROVE ElementsBehind(pos) = m + 1
      OBVIOUS
    <3>2. pos = off[m + 1] /\ m + 1 \in 0..n
      BY <1>3, <2>1, <2>2, <3>1
    <3>3. Cardinality({p \in 1..off[m + 1] : bytes[p] < 128}) = m + 1
      BY <1>2, <2>2, <3>2 DEF VarintList
    <3> QED
      BY <1>6, <3>2, <3>3 DEF ElementsBehind
  <2>6. CASE m < n
    BY <1>2, <1>3, <1>6, <2>3, <2>4, <2>5, <2>6 DEF Rest
  <2>7. CASE ~(m < n)
    <3>1. (m + 1)..n = {}
      BY <1>3, <2>7
    <3> QED
      BY <1>2, <2>3, <2>7, <3>1 DEF Rest
  <2> QED
    BY <2>6, <2>7
<1> QED
  BY <1>4, <1>5, <1>6 DEF ListOK

(* One step of an iterator that has more gives or skips one element. *)
LEMMA AdvanceGives ==
  ASSUME ListOK, NEW m, Given(m), m < Len(list), Advance
  PROVE  ListOK' /\ Given(m + 1)'
<1>1. PICK n \in Nat : n = Len(list)
  BY ListFacts DEF ListOK
<1>2. m \in Nat /\ m + 1 \in 0..n /\ m + 1 \in 1..n
  BY <1>1 DEF Given
<1>3. UNCHANGED <<codec, list, bytes>>
  BY DEF Advance
<1>4. ListOK'
  BY <1>3 DEF ListOK
<1>5. passed' = {list'[i] : i \in 1..(m + 1)}
  <2>1. passed = {list[i] : i \in 1..m}
    BY DEF Given
  <2>2. Shown = list[m + 1]
    BY GivenFacts
  <2>3. \A i : i \in 1..(m + 1) <=> i \in 1..m \/ i = m + 1
    BY <1>2
  <2>4. passed' = passed \cup {list[m + 1]}
    BY <2>2 DEF Advance
  <2> QED
    BY <1>3, <2>1, <2>3, <2>4
<1>6. CASE codec = "slice"
  <2>1. pos' = m + 1
    BY <1>6 DEF Given, Advance
  <2> QED
    BY <1>1, <1>2, <1>3, <1>4, <1>5, <1>6, <2>1 DEF Given
<1>7. CASE codec = "int24"
  <2>1. /\ pos' = 3 * (m + 1)
        /\ head' = IF 3 * (m + 1) < Len(bytes) THEN Int24At(bytes, 3 * (m + 1))
                   ELSE head
    <3>1. pos = 3 * m
      BY <1>7 DEF Given
    <3>2. /\ pos' = pos + 3
          /\ head' = IF pos' < Len(bytes) THEN Int24At(bytes, pos') ELSE head
      BY <1>7 DEF Advance, AdvanceInt24
    <3>3. 3 * m + 3 = 3 * (m + 1)
      BY <1>2
    <3> QED
      BY <3>1, <3>2, <3>3
  <2>2. bytes = EncodeInt24(list) /\ list \in Seq(Int24) /\ list \in Seq(Int)
    BY <1>7 DEF ListOK, Encode, Int24
  <2>3. m + 1 < n => head' = list[m + 2]
    <3>1. SUFFICES ASSUME m + 1 < n PROVE head' = list[m + 2]
      OBVIOUS
    <3>2. m + 2 \in 1..n /\ 3 * (m + 1) \in Nat /\ 3 * (m + 1) = 3 * ((m + 2) - 1)
          /\ 3 * (m + 1) < 3 * n
      BY <1>2, <3>1
    <3>3. Len(bytes) = 3 * n
      BY <1>1, <2>2, Int24Layout
    <3>4. Int24At(bytes, 3 * (m + 1)) = list[m + 2]
      BY <1>1, <2>2, <3>2, Int24Read DEF Int24At
    <3> QED
      BY <2>1, <3>2, <3>3, <3>4
  <2>4. (m + 1) + 1 = m + 2
    BY <1>2
  <2> QED
    BY <1>1, <1>2, <1>3, <1>4, <1>5, <1>7, <2>1, <2>3, <2>4 DEF Given
<1>8. CASE codec = "varint"
  <2> DEFINE next == FastVarint32(From(bytes, pos))
  <2>1. ~ended
    BY <1>1, <1>2, <1>8 DEF Given
  <2>2. PICK off : VarintList(bytes, list, off)
                   /\ pos = off[m + 1] /\ head = list[m + 1]
    BY <1>8, <2>1 DEF Given
  <2>3. /\ off \in [0..n -> Nat] /\ off[n] = Len(bytes)
        /\ \A i \in 1..n : /\ off[i - 1] < off[i] /\ off[i] <= Len(bytes)
                           /\ FastVarint32(SubSeq(bytes, off[i - 1] + 1, Len(bytes))) =
                                [value |-> Difference(list, i),
                                 n |-> off[i] - off[i - 1]]
    BY <1>1, <2>2 DEF VarintList
  <2>4. IF pos < Len(bytes) /\ next.n > 0
        THEN pos' = pos + next.n /\ head' = next.value + head /\ ended' = ended
        ELSE ended' = TRUE /\ pos' = pos /\ head' = head
    BY <1>8 DEF Advance, AdvanceVarint
  <2>5. CASE m + 1 = n
    <3>1. pos = Len(bytes)
      BY <2>2, <2>3, <2>5
    <3>2. ended' = TRUE /\ pos' = off[m + 1] /\ head' = list[m + 1]
      <4>1. ~(pos < Len(bytes))
        <5>1. Len(bytes) \in Nat
          BY <1>2, <2>3, <2>5
        <5> QED
          BY <3>1, <5>1
      <4> QED
        BY <2>2, <2>4, <4>1
    <3>3. \E o : /\ VarintList(bytes, list, o)
                 /\ pos' = o[IF ended' THEN m + 1 ELSE m + 2]
                 /\ head' = list[IF ended' THEN m + 1 ELSE m + 2]
      BY <2>2, <3>2
    <3> QED
      BY <1>1, <1>2, <1>3, <1>4, <1>5, <1>8, <2>5, <3>2, <3>3 DEF Given
  <2>6. CASE m + 1 < n
    <3>1. m + 2 \in 1..n /\ (m + 2) - 1 = m + 1 /\ m + 2 # 1
      BY <1>2, <2>6
    <3>2. /\ off[m + 1] \in Nat /\ off[m + 2] \in Nat /\ Len(bytes) \in Nat
          /\ off[m + 1] < off[m + 2] /\ off[m + 2] <= Len(bytes)
      <4>1. m + 1 \in 0..n /\ m + 2 \in 0..n /\ n \in 0..n
        BY <1>1, <1>2, <3>1
      <4>2. off[m + 1] \in Nat /\ off[m + 2] \in Nat /\ off[n] \in Nat
        BY <2>3, <4>1
      <4>3. off[(m + 2) - 1] < off[m + 2] /\ off[m + 2] <= Len(bytes)
        BY <2>3, <3>1
      <4> QED
        BY <2>3, <3>1, <4>2, <4>3
    <3>3. next = [value |-> Difference(list, m + 2), n |-> off[m + 2] - off[m + 1]]
      BY <2>2, <2>3, <3>1 DEF From
    <3>4. Difference(list, m + 2) = list[m + 2] - list[m + 1]
      BY <3>1 DEF Difference
    <3>5. list[m + 1] \in Int /\ list[m + 2] \in Int
      BY <1>1, <1>2, <3>1, ListFacts DEF ListOK
    <3> HIDE DEF next
    <3>6. pos < Len(bytes) /\ next.n > 0
      BY <2>2, <3>2, <3>3
    <3>7. pos' = pos + next.n /\ head' = next.value + head /\ ended' = FALSE
      BY <2>1, <2>4, <3>6
    <3>8. pos' = off[m + 2]
      BY <2>2, <3>2, <3>3, <3>7
    <3>9. head' = list[m + 2]
      BY <2>2, <3>3, <3>4, <3>5, <3>7
    <3>10. \E o : /\ VarintList(bytes, list, o)
                  /\ pos' = o[IF ended' THEN m + 1 ELSE m + 2]
                  /\ head' = list[IF ended' THEN m + 1 ELSE m + 2]
      BY <2>2, <3>7, <3>8, <3>9
    <3>11. m + 1 # n /\ (m + 1) + 1 = m + 2
      BY <1>2, <2>6
    <3> QED
      BY <1>1, <1>2, <1>3, <1>4, <1>5, <1>8, <3>7, <3>10, <3>11 DEF Given
  <2> QED
    BY <1>2, <2>5, <2>6
<1> QED
  BY <1>6, <1>7, <1>8 DEF ListOK

LEMMA IdsAndCodecs ==
  Ids \subseteq Int24 /\ Codecs \subseteq {"slice", "varint", "int24", "int32"}
BY IdsAssumption, SMT DEF Int24

LEMMA InitGives ==
  ASSUME "int32" \notin Codecs, Init
  PROVE  CursorInv /\ Given(0) /\ passed = {}
<1>1. codec \in {"slice", "varint", "int24"}
  BY IdsAndCodecs DEF Init
<1>2. PICK S \in SUBSET Ids : S # {} /\ list = Ascending(S)
  <2>1. list \in Lists
    BY DEF Init
  <2>2. PICK S \in (SUBSET Ids) \ {{}} : list = Ascending(S)
    BY <2>1 DEF Lists
  <2> QED
    BY <2>2
<1>3. list \in Seq(Int24) /\ Increasing(list) /\ ToSet(list) \subseteq Ids
      /\ 0 < Len(list)
  <2> DEFINE lo == -8388608
             hi == 8388607
  <2>1. S \subseteq Int24
    BY IdsAndCodecs
  <2>2. lo \in Int /\ hi \in Int /\ \A v \in Int24 : v \in Int /\ lo <= v /\ v <= hi
    BY SMT DEF Int24
  <2> HIDE DEF lo, hi
  <2>3. /\ Cardinality(S) \in Nat
        /\ list \in Seq(S) /\ Len(list) = Cardinality(S)
        /\ Increasing(list)
        /\ \A x \in S : \E i \in DOMAIN list : list[i] = x
        /\ ToSet(list) = S
    <3>1. S \in SUBSET (lo..hi)
      BY <2>2, <2>1
    <3> QED
      BY <1>2, <2>2, <3>1, AscendingProperties
  <2>4. list \in Seq(Int24)
    BY <2>1, <2>3
  <2>5. Len(list) # 0
    <3>1. PICK x \in S : TRUE
      BY <1>2
    <3>2. DOMAIN list # {}
      BY <2>3, <3>1
    <3>3. DOMAIN list = 1..Len(list)
      BY <2>3, LenProperties
    <3> QED
      BY <3>2, <3>3
  <2> QED
    BY <2>3, <2>4, <2>5
<1>4. ListOK
  BY <1>1, <1>3 DEF ListOK, Init
<1>5. PICK n \in Nat : n = Len(list) /\ 0 < n
  BY <1>3, ListFacts
<1>6. Given(0)
  <2>1. passed = {list[i] : i \in 1..0} /\ ended = FALSE
    BY DEF Init
  <2>2. codec = "slice" => pos = 0
    BY DEF Init, Start
  <2>3. codec = "int24" => pos = 0 /\ head = list[1]
    <3>1. SUFFICES ASSUME codec = "int24" PROVE pos = 0 /\ head = list[1]
      OBVIOUS
    <3>2. pos = 0 /\ head = Int24At(bytes, 0) /\ bytes = EncodeInt24(list)
      BY <3>1 DEF Init, Start, Encode
    <3>3. 1 \in 1..n /\ 0 = 3 * (1 - 1) /\ 0 \in Nat
      BY <1>5
    <3>4. Int24At(bytes, 0) = list[1]
      BY <1>3, <1>5, <3>2, <3>3, Int24Read DEF Int24At
    <3> QED
      BY <3>2, <3>4
  <2>4. codec = "varint" =>
          \E off : VarintList(bytes, list, off) /\ pos = off[1] /\ head = list[1]
    <3>1. SUFFICES ASSUME codec = "varint"
          PROVE  \E off : /\ VarintList(bytes, list, off)
                          /\ pos = off[1] /\ head = list[1]
      OBVIOUS
    <3>2. /\ bytes = EncodeVarint(list)
          /\ pos = FastVarint32(bytes).n /\ head = FastVarint32(bytes).value
      BY <3>1 DEF Init, Start, Encode
    <3>3. bytes \in Seq(Byte)
      BY <1>3, <3>2, VarintLayout
    <3>4. PICK off : VarintList(bytes, list, off)
      BY <1>3, <3>2, VarintLayout
    <3>5. SubSeq(bytes, 0 + 1, Len(bytes)) = bytes
      BY <3>3
    <3>6. 1 \in 1..n /\ 1 - 1 = 0
      BY <1>5
    <3>7. off \in [0..n -> Nat] /\ off[0] = 0
          /\ FastVarint32(SubSeq(bytes, off[0] + 1, Len(bytes))) =
               [value |-> Difference(list, 1), n |-> off[1] - off[0]]
      BY <1>5, <3>4, <3>6, Zenon DEF VarintList
    <3>8. FastVarint32(bytes) = [value |-> list[1] - 0, n |-> off[1] - 0]
      BY <3>5, <3>7 DEF Difference
    <3>9. list[1] \in Int /\ off[1] \in Nat
      BY <1>3, <1>5, <3>6, <3>7, ListFacts
    <3> QED
      BY <3>2, <3>4, <3>8, <3>9
  <2> QED
    BY <1>5, <2>1, <2>2, <2>3, <2>4 DEF Given
<1>7. CallOK
  <2>1. until \in Int
    BY DEF Init
  <2> QED
    BY <2>1, Zenon DEF CallOK, Init
<1> QED
  BY <1>4, <1>6, <1>7 DEF CursorInv, Init
LEMMA SkipsNothing ==
  ASSUME CursorInv, UNCHANGED listVars
  PROVE  ListOK' /\ (\E m : Given(m))' /\ (HasMoreNow <=> HasMoreNow') /\ Rest' = Rest
<1>1. ListOK'
  BY DEF CursorInv, ListOK, listVars
<1>2. (\E m : Given(m))'
  <2>1. PICK m : Given(m)
    BY DEF CursorInv
  <2>2. Given(m)'
    BY <2>1 DEF Given, listVars
  <2> QED
    BY <2>2
<1>3. HasMoreNow <=> HasMoreNow'
  BY DEF HasMoreNow, listVars
<1>4. Rest' = Rest
  BY <1>3 DEF Rest, ElementsBehind, HasMoreNow, listVars
<1> QED
  BY <1>1, <1>2, <1>3, <1>4

LEMMA GivenFactsNext ==
  (ListOK => \A m : Given(m) =>
    /\ HasMoreNow <=> m < Len(list)
    /\ m < Len(list) => Shown = list[m + 1]
    /\ Rest = {list[i] : i \in (m + 1)..Len(list)})'
BY GivenFacts, PTL

(* The step that gives or skips an element, once the iterator has more. *)
LEMMA AdvanceStep ==
  ASSUME CursorInv, HasMoreNow, Advance
  PROVE  /\ ListOK' /\ (\E m : Given(m))' /\ ended' \in BOOLEAN
         /\ Rest # {} /\ Shown \in Rest /\ \A x \in Rest : Shown <= x
         /\ Rest' = Rest \ {Shown}
<1>1. PICK m : Given(m)
  BY DEF CursorInv
<1>2. ListOK
  BY DEF CursorInv
<1>3. PICK n \in Nat : n = Len(list)
  BY <1>2, ListFacts DEF ListOK
<1>4. m \in 0..n /\ m < n /\ Shown = list[m + 1]
      /\ Rest = {list[i] : i \in (m + 1)..n}
  BY <1>1, <1>2, <1>3, GivenFacts DEF Given
<1>5. ListOK' /\ Given(m + 1)'
  BY <1>1, <1>2, <1>3, <1>4, AdvanceGives
<1>6. list' = list
  BY DEF Advance
<1>7. Rest' = {list[i] : i \in (m + 2)..n}
  <2>1. Rest' = {list'[i] : i \in ((m + 1) + 1)..Len(list')}
    BY <1>5, GivenFactsNext
  <2>2. (m + 1) + 1 = m + 2
    BY <1>4
  <2> QED
    BY <1>3, <1>6, <2>1, <2>2
<1>8. /\ \A i \in 1..n : list[i] \in Int
      /\ \A i, j \in 1..n : i < j => list[i] < list[j]
  BY <1>2, <1>3, ListFacts DEF ListOK
<1>9. ended' \in BOOLEAN
  BY DEF CursorInv, CallOK, Advance, AdvanceVarint, AdvanceInt24, ListOK
<1>10. \A i \in (m + 2)..n : /\ i \in 1..n /\ m + 1 \in 1..n
                             /\ list[m + 1] < list[i] /\ list[m + 1] # list[i]
  BY <1>4, <1>8
<1>11. \A i : i \in (m + 1)..n <=> i = m + 1 \/ i \in (m + 2)..n
  BY <1>4
<1>12. Rest = {list[m + 1]} \cup Rest'
  BY <1>4, <1>7, <1>11
<1>13. \A x \in Rest' : list[m + 1] < x /\ list[m + 1] # x
  BY <1>7, <1>10
<1>14. list[m + 1] \in Int
  BY <1>4, <1>8
<1>15. Shown = list[m + 1]
  BY <1>4
<1>16. Rest = {Shown} \cup Rest' /\ Shown \in Int
       /\ \A x \in Rest' : Shown < x /\ Shown # x
  BY <1>12, <1>13, <1>14, <1>15, Zenon
<1> DEFINE S == Shown
           R == Rest
           Q == Rest'
<1>17. S \in R /\ (\A x \in R : S <= x) /\ Q = R \ {S}
  <2>1. R = {S} \cup Q /\ S \in Int /\ \A x \in Q : S < x /\ S # x
    BY <1>16
  <2> HIDE DEF S, R, Q
  <2> QED
    BY <2>1
<1> QED
  BY <1>5, <1>9, <1>17

LEMMA HasMoreIsBoolean ==
  ASSUME CursorInv PROVE HasMoreNow \in BOOLEAN
<1>1. codec \in {"slice", "varint", "int24"} /\ ended \in BOOLEAN
  BY DEF CursorInv, ListOK, CallOK
<1>2. CASE codec = "varint"
  BY <1>1, <1>2 DEF HasMoreNow
<1>3. CASE codec # "varint"
  <2>1. HasMoreNow = (pos < Len(bytes))
    BY <1>1, <1>3 DEF HasMoreNow
  <2>2. (pos < Len(bytes)) \in BOOLEAN
    OBVIOUS
  <2> QED
    BY <2>1, <2>2, Zenon
<1> QED
  BY <1>2, <1>3

LEMMA NextGives ==
  ASSUME CursorInv, [Next]_vars
  PROVE  CursorInv'
<1>1. ASSUME UNCHANGED listVars
      PROVE  /\ ListOK' /\ (\E m : Given(m))' /\ ended' \in BOOLEAN
             /\ (HasMoreNow <=> HasMoreNow')
  BY <1>1, SkipsNothing DEF CursorInv, CallOK, listVars
<1>2. CASE UNCHANGED vars
  BY <1>1, <1>2 DEF vars, CursorInv, CallOK
<1>3. CASE CallHasMore
  BY <1>1, <1>3 DEF CallHasMore, CursorInv, CallOK
<1>4. CASE HasMore
  <2>1. HasMoreNow \in BOOLEAN
    BY HasMoreIsBoolean
  <2>2. more' = HasMoreNow /\ call' = "none" /\ UNCHANGED listVars
    BY <1>4 DEF HasMore
  <2>3. UNCHANGED until
    BY <1>4 DEF HasMore
  <2>4. CallOK'
    BY <1>1, <2>1, <2>2, <2>3, Zenon DEF CursorInv, CallOK
  <2> QED
    BY <1>1, <2>2, <2>4 DEF CursorInv
<1>5. CASE Peek
  BY <1>1, <1>5 DEF Peek, CursorInv, CallOK
<1>6. CASE NextItem
  BY <1>6, AdvanceStep DEF NextItem, CursorInv, CallOK
<1>7. CASE CallSkipUntil
  <2>1. until' \in Int
    BY <1>7, IdsAndCodecs DEF CallSkipUntil, Int24
  <2> QED
    BY <1>1, <1>7, <2>1 DEF CallSkipUntil, CursorInv, CallOK
<1>8. CASE Skip
  BY <1>8, AdvanceStep DEF Skip, CursorInv, CallOK
<1>9. CASE SkipUntil
  BY <1>1, <1>9 DEF SkipUntil, CursorInv, CallOK
<1> QED
  BY <1>2, <1>3, <1>4, <1>5, <1>6, <1>7, <1>8, <1>9 DEF Next
(* Every iterator but the one of the large lists stays where its position  *)
(* says, from the constructor on.                                          *)
THEOREM CursorStands ==
  ASSUME "int32" \notin Codecs
  PROVE  Spec => []CursorInv
<1>1. Init => CursorInv
  BY InitGives
<1>2. CursorInv /\ [Next]_vars => CursorInv'
  BY NextGives
<1> QED
  BY <1>1, <1>2, PTL DEF Spec

(* The iterators over slices, varints and numbers of 24 bits lose nothing: *)
(* what was given or skipped and what is still to come are together the    *)
(* list that was encoded, for every list of ids of 24 bits                 *)
(* (iterators.go, int24.go).  The iterator of the large lists has no such  *)
(* theorem, as it loses the first post (int32.go:19-29).                   *)
THEOREM NothingIsLost ==
  ASSUME "int32" \notin Codecs
  PROVE  Spec => []NothingLost
<1>1. CursorInv => NothingLost
  <2> SUFFICES ASSUME CursorInv PROVE NothingLost
    OBVIOUS
  <2>1. PICK m : Given(m)
    BY DEF CursorInv
  <2>2. PICK n \in Nat : n = Len(list)
    BY ListFacts DEF CursorInv, ListOK
  <2>3. /\ m \in 0..n /\ passed = {list[i] : i \in 1..m}
        /\ Rest = {list[i] : i \in (m + 1)..n}
    BY <2>1, <2>2, GivenFacts DEF CursorInv, Given
  <2>4. ToSet(list) = {list[i] : i \in 1..n}
    BY <2>2, ListFacts DEF CursorInv, ListOK
  <2>5. \A i : i \in 1..n <=> i \in 1..m \/ i \in (m + 1)..n
    BY <2>3
  <2> QED
    BY <2>3, <2>4, <2>5 DEF NothingLost
<1> QED
  BY <1>1, CursorStands, PTL

(* The least of a set of numbers is what Least chooses. *)
LEMMA LeastIs ==
  ASSUME NEW S \in SUBSET Int, NEW x \in S, \A y \in S : x <= y
  PROVE  Abstract!Least(S) = x
<1>1. \A z \in S : (\A y \in S : z <= y) => z = x
  OBVIOUS
<1> QED
  BY <1>1 DEF Abstract!Least

(* What the abstract iterator sees of the list. *)
LEMMA RestFacts ==
  ASSUME CursorInv
  PROVE  /\ Rest \subseteq Ids /\ Rest \subseteq Int
         /\ HasMoreNow <=> Rest # {}
         /\ HasMoreNow => Shown \in Rest /\ Shown = Abstract!Least(Rest)
         /\ Rest # {} => Abstract!Least(Rest) \in Rest
                           /\ \A x \in Rest : Abstract!Least(Rest) <= x
<1>1. PICK m : Given(m)
  BY DEF CursorInv
<1>2. PICK n \in Nat : n = Len(list)
  BY ListFacts DEF CursorInv, ListOK
<1>3. /\ m \in 0..n /\ Rest = {list[i] : i \in (m + 1)..n}
      /\ HasMoreNow <=> m < n
      /\ m < n => Shown = list[m + 1]
  BY <1>1, <1>2, GivenFacts DEF CursorInv, Given
<1>4. /\ \A i \in 1..n : list[i] \in Int
      /\ \A i, j \in 1..n : i < j => list[i] < list[j]
      /\ ToSet(list) = {list[i] : i \in 1..n} /\ ToSet(list) \subseteq Ids
  BY <1>2, ListFacts DEF CursorInv, ListOK
<1>5. \A i \in (m + 1)..n : i \in 1..n
  BY <1>3
<1>6. Rest \subseteq Ids /\ Rest \subseteq Int
  BY <1>3, <1>4, <1>5
<1>7. CASE m < n
  <2>1. m + 1 \in (m + 1)..n
    BY <1>3, <1>7
  <2>2. Shown = list[m + 1] /\ list[m + 1] \in Rest /\ list[m + 1] \in Int
    BY <1>3, <1>4, <1>5, <1>7, <2>1
  <2>3. ASSUME NEW i \in (m + 1)..n PROVE list[m + 1] <= list[i]
    <3>1. i = m + 1 \/ m + 1 < i
      BY <1>3
    <3>2. i \in 1..n /\ m + 1 \in 1..n
      BY <1>5, <2>1
    <3>3. list[i] \in Int /\ (m + 1 < i => list[m + 1] < list[i])
      BY <1>4, <3>2
    <3> QED
      BY <2>2, <3>1, <3>3
  <2>4. \A x \in Rest : list[m + 1] <= x
    BY <1>3, <2>3
  <2>5. Abstract!Least(Rest) = list[m + 1]
    BY <1>6, <2>2, <2>4, LeastIs
  <2> QED
    BY <1>3, <1>6, <1>7, <2>2, <2>4, <2>5
<1>8. CASE ~(m < n)
  <2>1. (m + 1)..n = {}
    BY <1>3, <1>8
  <2> QED
    BY <1>3, <1>6, <1>8, <2>1
<1> QED
  BY <1>7, <1>8

LEMMA AbstractStep ==
  ASSUME CursorInv, [Next]_vars
  PROVE  [Abstract!IteratorNext]_Abstract!iteratorVars
<1>1. UNCHANGED listVars => Rest' = Rest
  BY SkipsNothing
<1>2. CASE UNCHANGED vars
  BY <1>1, <1>2 DEF vars, Abstract!iteratorVars
<1>3. CASE CallHasMore
  <2>1. Abstract!CallHasMore
    BY <1>1, <1>3 DEF CallHasMore, Abstract!CallHasMore
  <2> QED
    BY <2>1 DEF Abstract!IteratorNext
<1>4. CASE HasMore
  <2>1. HasMoreNow = (Rest # {})
    BY RestFacts, HasMoreIsBoolean, Zenon
  <2>2. Abstract!HasMore
    BY <1>1, <1>4, <2>1 DEF HasMore, Abstract!HasMore
  <2> QED
    BY <2>2 DEF Abstract!IteratorNext
<1>5. CASE Peek
  <2>1. HasMoreNow
    BY <1>5 DEF Peek, CursorInv, CallOK
  <2>2. Rest # {} /\ Shown = Abstract!Least(Rest)
    BY <2>1, RestFacts
  <2>3. Abstract!Peek
    BY <1>1, <1>5, <2>2 DEF Peek, Abstract!Peek
  <2> QED
    BY <2>3 DEF Abstract!IteratorNext
<1>6. CASE NextItem
  <2>1. HasMoreNow
    BY <1>6 DEF NextItem, CursorInv, CallOK
  <2>2. Rest # {} /\ Shown = Abstract!Least(Rest)
    BY <2>1, RestFacts
  <2>3. Rest' = Rest \ {Shown}
    BY <1>6, <2>1, AdvanceStep DEF NextItem
  <2>4. Abstract!NextItem
    BY <1>6, <2>2, <2>3 DEF NextItem, Abstract!NextItem
  <2> QED
    BY <2>4 DEF Abstract!IteratorNext
<1>7. CASE CallSkipUntil
  <2>1. Abstract!CallSkipUntil
    BY <1>1, <1>7 DEF CallSkipUntil, Abstract!CallSkipUntil
  <2> QED
    BY <2>1 DEF Abstract!IteratorNext
<1>8. CASE Skip
  <2>1. HasMoreNow /\ Shown < until
    BY <1>8 DEF Skip
  <2>2. Rest # {} /\ Shown = Abstract!Least(Rest)
    BY <2>1, RestFacts
  <2>3. Rest' = Rest \ {Shown}
    BY <1>8, <2>1, AdvanceStep DEF Skip
  <2>4. Abstract!Skip
    BY <1>8, <2>1, <2>2, <2>3 DEF Skip, Abstract!Skip
  <2> QED
    BY <2>4 DEF Abstract!IteratorNext
<1>9. CASE SkipUntil
  <2>1. ASSUME NEW x \in Rest PROVE until <= x
    <3>1. Shown \in Rest /\ Shown <= x /\ ~(Shown < until)
      BY <1>9, RestFacts DEF SkipUntil
    <3>2. Shown \in Int /\ x \in Int /\ until \in Int
      BY <3>1, RestFacts DEF CursorInv, CallOK
    <3> QED
      BY <3>1, <3>2
  <2>2. Abstract!SkipUntil
    BY <1>1, <1>9, <2>1 DEF SkipUntil, Abstract!SkipUntil
  <2> QED
    BY <2>2 DEF Abstract!IteratorNext
<1> QED
  BY <1>2, <1>3, <1>4, <1>5, <1>6, <1>7, <1>8, <1>9 DEF Next

(* The iterators of the lists implement what an ItemIterator promises: each*)
(* element once and in order, whatever calls are made in between.          *)
THEOREM IteratorsImplement ==
  ASSUME "int32" \notin Codecs
  PROVE  Spec => Implements
<1>1. Init => Abstract!IteratorInit
  <2> SUFFICES ASSUME Init PROVE Abstract!IteratorInit
    OBVIOUS
  <2>1. Rest \in SUBSET Ids
    BY InitGives, RestFacts
  <2> QED
    BY <2>1 DEF Init, Abstract!IteratorInit
<1>2. CursorInv /\ [Next]_vars => [Abstract!IteratorNext]_Abstract!iteratorVars
  BY AbstractStep
<1> QED
  BY <1>1, <1>2, CursorStands, PTL DEF Spec, Implements, Abstract!IteratorSpec
=============================================================================
