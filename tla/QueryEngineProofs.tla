------------------------- MODULE QueryEngineProofs -------------------------
(***************************************************************************)
(* The parser follows the grammar, for texts of any length, and the engine *)
(* implements the passes over any tree (parser/parser.go, actions.go).     *)
(***************************************************************************)
EXTENDS QueryEngine, OptimizerProofs

(* Induction over what a function m measures.                              *)
LEMMA MeasureInduction ==
  ASSUME NEW C, NEW m \in [C -> Nat], NEW Good,
         \A c \in C : (\A d \in C : m[d] < m[c] => d \in Good) => c \in Good
  PROVE  \A c \in C : c \in Good
<1>1. SUFFICES ASSUME NEW b \in C, b \notin Good PROVE FALSE
  OBVIOUS
<1> DEFINE Bad == {m[c] : c \in {d \in C : d \notin Good}}
<1>2. Bad \in SUBSET Nat /\ Bad # {}
  BY <1>1
<1>3. PICK n \in Bad : \A k \in Bad : n <= k
  BY <1>2, LeastNat
<1>4. PICK c \in C : c \notin Good /\ m[c] = n
  BY <1>3
<1>5. ASSUME NEW d \in C, m[d] < m[c] PROVE d \in Good
  <2>1. m[d] \in Nat /\ n \in Nat
    BY <1>2
  <2>2. d \notin Good => n <= m[d]
    BY <1>3
  <2> QED
    BY <1>4, <1>5, <2>1, <2>2
<1> QED
  BY <1>4, <1>5

(* What f says of what is smaller than c. *)
Smaller(f, C, m, c, a) == [d \in C |-> IF m[d] < m[c] THEN f[d] ELSE a]

Recursive(F, C, S, m, G, a) ==
  F \in [C -> S] /\ \A c \in C : F[c] = G[c][Smaller(F, C, m, c, a)]

(* A function that is defined by recursion exists when the recursion only  *)
(* ever asks for what is smaller.                                          *)
LEMMA MeasuredRecursion ==
  ASSUME NEW C, NEW S, NEW a \in S, NEW m \in [C -> Nat],
         NEW G \in [C -> [[C -> S] -> S]]
  PROVE  \E F : Recursive(F, C, S, m, G, a)
<1> DEFINE Upto(f, n) ==
             \A c \in C : m[c] < n => f[c] = G[c][Smaller(f, C, m, c, a)]
           Good == {n \in Nat : \E f \in [C -> S] : Upto(f, n)}
<1>1. 0 \in Good
  <2>1. [c \in C |-> a] \in [C -> S] /\ Upto([c \in C |-> a], 0)
    OBVIOUS
  <2> QED
    BY <2>1
<1>2. ASSUME NEW n \in Nat, n \in Good PROVE n + 1 \in Good
  <2>1. PICK f \in [C -> S] : Upto(f, n)
    BY <1>2
  <2> DEFINE g == [c \in C |-> IF m[c] < n THEN f[c]
                               ELSE G[c][Smaller(f, C, m, c, a)]]
  <2>2. ASSUME NEW c \in C PROVE Smaller(f, C, m, c, a) \in [C -> S]
    BY DEF Smaller
  <2>3. g \in [C -> S]
    BY <2>2
  <2>4. ASSUME NEW c \in C, m[c] < n + 1
        PROVE  g[c] = G[c][Smaller(g, C, m, c, a)]
    <3>1. ASSUME NEW d \in C, m[d] < m[c] PROVE g[d] = f[d]
      <4>1. m[d] \in Nat /\ m[c] \in Nat
        OBVIOUS
      <4>2. m[d] < n
        BY <2>4, <3>1, <4>1
      <4> QED
        BY <4>2
    <3> HIDE DEF g
    <3>2. Smaller(g, C, m, c, a) = Smaller(f, C, m, c, a)
      BY <3>1 DEF Smaller
    <3>3. g[c] = G[c][Smaller(f, C, m, c, a)]
      BY <2>1 DEF g
    <3> QED
      BY <3>2, <3>3
  <2> HIDE DEF g
  <2>5. Upto(g, n + 1)
    BY <2>4
  <2> HIDE DEF Upto
  <2> QED
    BY <2>3, <2>5
<1>3. ASSUME NEW n \in Nat, NEW k \in Nat, NEW f, NEW g, Upto(f, n), Upto(g, k)
      PROVE  \A c \in C : m[c] < n /\ m[c] < k => f[c] = g[c]
  <2> DEFINE Agreed == {c \in C : m[c] < n /\ m[c] < k => f[c] = g[c]}
  <2>1. ASSUME NEW c \in C, \A d \in C : m[d] < m[c] => d \in Agreed
        PROVE  c \in Agreed
    <3>1. SUFFICES ASSUME m[c] < n, m[c] < k PROVE f[c] = g[c]
      OBVIOUS
    <3>2. ASSUME NEW d \in C, m[d] < m[c] PROVE f[d] = g[d]
      <4>1. m[d] \in Nat /\ m[c] \in Nat
        OBVIOUS
      <4>2. m[d] < n /\ m[d] < k
        BY <3>1, <3>2, <4>1
      <4> QED
        BY <2>1, <3>2, <4>2
    <3>3. Smaller(f, C, m, c, a) = Smaller(g, C, m, c, a)
      BY <3>2 DEF Smaller
    <3> QED
      BY <1>3, <3>1, <3>3
  <2> HIDE DEF Agreed
  <2>2. \A c \in C : c \in Agreed
    BY <2>1, MeasureInduction
  <2> QED
    BY <2>2 DEF Agreed
<1> HIDE DEF Good
<1>4. \A n \in Nat : n \in Good
  BY <1>1, <1>2, NatByInduction
<1> DEFINE upto == [n \in Nat |-> CHOOSE f \in [C -> S] : Upto(f, n)]
           F == [c \in C |-> upto[m[c] + 1][c]]
<1>5. ASSUME NEW n \in Nat PROVE upto[n] \in [C -> S] /\ Upto(upto[n], n)
  <2> HIDE DEF Upto
  <2> QED
    BY <1>4 DEF Good
<1> HIDE DEF upto
<1>6. ASSUME NEW c \in C
      PROVE  m[c] + 1 \in Nat /\ m[c] \in Nat /\ m[c] < m[c] + 1
  OBVIOUS
<1>7. F \in [C -> S]
  BY <1>5, <1>6
<1>8. ASSUME NEW c \in C PROVE F[c] = G[c][Smaller(F, C, m, c, a)]
  <2>1. PICK n \in Nat : n = m[c] + 1
    BY <1>6
  <2>2. PICK f : f = upto[n]
    OBVIOUS
  <2>3. ASSUME NEW d \in C, m[d] < m[c] PROVE F[d] = f[d]
    <3>1. PICK k \in Nat : k = m[d] + 1
      BY <1>6
    <3>2. m[d] < k /\ m[d] < n
      BY <1>6, <2>1, <2>3, <3>1
    <3>3. Upto(upto[k], k) /\ Upto(f, n)
      BY <1>5, <2>2
    <3> HIDE DEF Upto, F
    <3>4. upto[k][d] = f[d]
      BY <1>3, <3>2, <3>3
    <3> QED
      BY <3>1, <3>4 DEF F
  <2>4. Upto(f, n) /\ m[c] < n
    BY <1>5, <1>6, <2>1, <2>2
  <2>5. f[c] = G[c][Smaller(f, C, m, c, a)]
    BY <2>4
  <2>6. F[c] = f[c]
    BY <2>1, <2>2
  <2> HIDE DEF F
  <2>7. Smaller(F, C, m, c, a) = Smaller(f, C, m, c, a)
    BY <2>3 DEF Smaller
  <2> QED
    BY <2>5, <2>6, <2>7
<1> HIDE DEF F
<1> QED
  BY <1>7, <1>8 DEF Recursive

-----------------------------------------------------------------------------
(* Texts: what CleanString makes of a field is a field of what it makes of *)
(* the whole text.                                                         *)

(* One more piece comes behind the others.                                 *)
LEMMA FlattenMore ==
  ASSUME NEW B, NEW seqs \in Seq(Seq(B)), NEW x \in Seq(B)
  PROVE  FlattenSeq(Append(seqs, x)) = FlattenSeq(seqs) \o x
<1>1. PICK n \in Nat : n = Len(seqs)
  BY LenProperties
<1> DEFINE more == Append(seqs, x)
<1>2. /\ Len(more) = n + 1 /\ more[n + 1] = x
      /\ \A i \in 1..n : i \in 1..(n + 1) /\ more[i] = seqs[i]
  BY <1>1
<1>3. Len(more) \in Nat /\ n + 1 # 0 /\ Len(more) # 0
  BY <1>2
<1> HIDE DEF more
<1>4. PICK g : IsFlattening(g, more) /\ FlattenSeq(more) = g[n + 1]
  BY <1>2, <1>3, FlatteningExists DEF FlattenSeq, IsFlattening
<1>5. \A i \in 1..(n + 1) :
        g[i] = IF i = 1 THEN more[i] ELSE g[i - 1] \o more[i]
  BY <1>2, <1>4 DEF IsFlattening
<1>6. CASE n = 0
  <2>1. seqs = <<>> /\ FlattenSeq(seqs) = <<>>
    BY <1>1, <1>6, EmptySeq DEF FlattenSeq
  <2>2. g[n + 1] = x
    BY <1>2, <1>5, <1>6
  <2> QED
    BY <1>4, <2>1, <2>2 DEF more
<1>7. CASE n # 0
  <2>1. PICK f : IsFlattening(f, seqs) /\ FlattenSeq(seqs) = f[n]
    BY <1>1, <1>7, FlatteningExists DEF FlattenSeq, IsFlattening
  <2>2. \A i \in 1..n : f[i] = IF i = 1 THEN seqs[i] ELSE f[i - 1] \o seqs[i]
    BY <1>1, <2>1 DEF IsFlattening
  <2> DEFINE Good == {k \in Nat : k + 1 <= n => f[k + 1] = g[k + 1]}
  <2>3. 0 \in Good
    <3>1. 1 \in 1..n /\ 1 \in 1..(n + 1)
      BY <1>7
    <3>2. f[1] = g[1]
      BY <1>2, <1>5, <2>2, <3>1
    <3> QED
      BY <3>2
  <2>4. ASSUME NEW k \in Nat, k \in Good PROVE k + 1 \in Good
    <3>1. SUFFICES ASSUME (k + 1) + 1 <= n PROVE f[(k + 1) + 1] = g[(k + 1) + 1]
      OBVIOUS
    <3>2. PICK m \in Nat : m = k + 1
      OBVIOUS
    <3>3. /\ m \in 1..n /\ m + 1 \in 1..n /\ m + 1 \in 1..(n + 1)
          /\ m + 1 # 1 /\ (m + 1) - 1 = m
      BY <3>1, <3>2
    <3>4. f[m] = g[m]
      BY <2>4, <3>2, <3>3
    <3>5. f[m + 1] = f[m] \o seqs[m + 1]
      BY <2>2, <3>3
    <3>6. g[m + 1] = g[m] \o more[m + 1]
      BY <1>5, <3>3
    <3>7. f[m + 1] = g[m + 1]
      BY <1>2, <3>3, <3>4, <3>5, <3>6
    <3> QED
      BY <3>2, <3>7
  <2> HIDE DEF Good
  <2>5. \A k \in Nat : k \in Good
    BY <2>3, <2>4, NatByInduction
  <2>6. f[n] = g[n]
    <3>1. n - 1 \in Good /\ (n - 1) + 1 = n
      BY <1>7, <2>5
    <3> QED
      BY <3>1 DEF Good
  <2>7. g[n + 1] = g[n] \o x
    <3>1. n + 1 \in 1..(n + 1) /\ n + 1 # 1 /\ (n + 1) - 1 = n
      BY <1>7
    <3> QED
      BY <1>2, <1>5, <3>1
  <2> QED
    BY <1>4, <2>1, <2>6, <2>7 DEF more
<1> QED
  BY <1>6, <1>7

(* What CleanString makes of one character, which must be among those in B.*)
Alphabet(B) == {" ", "u", "e"} \subseteq B

LEMMA CleanValues ==
  \A c : \/ c = "-" /\ CleanCharacter(c) = <<" ">>
        \/ CleanCharacter(c) \in {<<"u", "e">>, <<>>, <<c>>}
<1> TAKE c
<1> DEFINE spelled == <<"u", "e">>
           blank == <<" ">>
           none == <<>>
           itself == <<c>>
<1>1. CleanCharacter(c) =
        CASE c = "u-umlaut" -> spelled
          [] c = "-" -> blank
          [] c \in (NoLetters \ {"-", " "}) \cup {"e-acute"} -> none
          [] OTHER -> itself
  BY Zenon DEF CleanCharacter
<1> HIDE DEF spelled, blank, none, itself
<1>2. \/ c = "-" /\ CleanCharacter(c) = blank
      \/ CleanCharacter(c) \in {spelled, none, itself}
  BY <1>1
<1> QED
  BY <1>2 DEF spelled, blank, none, itself

LEMMA CleanBlank == CleanCharacter(" ") = <<" ">>
<1>1. " " # "u-umlaut" /\ " " # "-"
  OBVIOUS
<1>2. " " \notin (NoLetters \ {"-", " "}) \cup {"e-acute"}
  OBVIOUS
<1> QED
  BY <1>1, <1>2 DEF CleanCharacter

LEMMA ShortTuples ==
  /\ \A a : \A k \in DOMAIN <<a>> : <<a>>[k] = a
  /\ \A a, b : \A k \in DOMAIN <<a, b>> : <<a, b>>[k] = a \/ <<a, b>>[k] = b
  /\ \A B : \A a \in B : <<a>> \in Seq(B)
  /\ \A B : \A a, b \in B : <<a, b>> \in Seq(B)
OBVIOUS

LEMMA CleanTypes ==
  ASSUME NEW B, Alphabet(B), NEW c \in B
  PROVE  /\ CleanCharacter(c) \in Seq(B)
         /\ c # "-" /\ c # " " => " " \notin ToSet(CleanCharacter(c))
<1>1. " " \in B /\ "u" \in B /\ "e" \in B
  BY DEF Alphabet
<1>2. CASE c = "-" /\ CleanCharacter(c) = <<" ">>
  BY <1>1, <1>2, ShortTuples
<1>3. CASE CleanCharacter(c) = <<"u", "e">>
  <2>1. " " \notin ToSet(<<"u", "e">>)
    BY ShortTuples DEF ToSet
  <2> QED
    BY <1>1, <1>3, <2>1, ShortTuples
<1>4. CASE CleanCharacter(c) = <<>>
  BY <1>4, EmptySeq DEF ToSet
<1>5. CASE CleanCharacter(c) = <<c>>
  <2>1. c # " " => " " \notin ToSet(<<c>>)
    BY ShortTuples DEF ToSet
  <2> QED
    BY <1>5, <2>1, ShortTuples
<1> QED
  BY <1>2, <1>3, <1>4, <1>5, CleanValues

Cleaned(txt) == [i \in DOMAIN txt |-> CleanCharacter(txt[i])]

LEMMA CleanedTypes ==
  ASSUME NEW B, Alphabet(B), NEW txt \in Seq(B)
  PROVE  /\ Cleaned(txt) \in Seq(Seq(B))
         /\ DOMAIN Cleaned(txt) = DOMAIN txt
         /\ Len(Cleaned(txt)) = Len(txt)
         /\ CleanString(txt) = FlattenSeq(Cleaned(txt))
         /\ CleanString(txt) \in Seq(B)
<1>1. PICK n \in Nat : n = Len(txt) /\ DOMAIN txt = 1..n
  BY LenProperties
<1>2. /\ Cleaned(txt) = [i \in 1..n |-> CleanCharacter(txt[i])]
      /\ \A i \in 1..n : CleanCharacter(txt[i]) \in Seq(B)
  <2>1. \A i \in 1..n : txt[i] \in B
    BY <1>1
  <2> QED
    BY <1>1, <2>1, CleanTypes, Zenon DEF Cleaned
<1>3. Cleaned(txt) \in Seq(Seq(B)) /\ Len(Cleaned(txt)) = n
  <2> DEFINE S == Seq(B)
             g(i) == CleanCharacter(txt[i])
  <2>1. \A i \in 1..n : g(i) \in S
    BY <1>2
  <2>2. Cleaned(txt) = [i \in 1..n |-> g(i)]
    BY <1>2
  <2> HIDE DEF S, g
  <2>3. Cleaned(txt) \in Seq(S) /\ Len(Cleaned(txt)) = n
    BY <2>1, <2>2
  <2> QED
    BY <2>3 DEF S
<1> QED
  BY <1>1, <1>2, <1>3, FlattenProperties DEF CleanString, Cleaned

LEMMA CleanMore ==
  ASSUME NEW B, Alphabet(B), NEW txt \in Seq(B), NEW c \in B
  PROVE  CleanString(Append(txt, c)) = CleanString(txt) \o CleanCharacter(c)
<1>1. PICK n \in Nat : n = Len(txt) /\ DOMAIN txt = 1..n
  BY LenProperties
<1>2. PICK more : more = Append(txt, c)
  OBVIOUS
<1>3. /\ more \in Seq(B) /\ DOMAIN more = 1..(n + 1)
      /\ more[n + 1] = c /\ \A i \in 1..n : more[i] = txt[i]
  BY <1>1, <1>2
<1>4. PICK C : C = Cleaned(txt)
  OBVIOUS
<1>5. PICK e : e = CleanCharacter(c)
  OBVIOUS
<1>6. /\ C \in Seq(Seq(B)) /\ Len(C) = n /\ DOMAIN C = 1..n
      /\ e \in Seq(B)
      /\ \A i \in 1..n : C[i] = CleanCharacter(txt[i])
  BY <1>1, <1>4, <1>5, CleanedTypes, CleanTypes DEF Cleaned
<1>7. Cleaned(more) = Append(C, e)
  <2>1. /\ DOMAIN Append(C, e) = 1..(n + 1)
        /\ Append(C, e) = [i \in 1..(n + 1) |-> Append(C, e)[i]]
        /\ Append(C, e)[n + 1] = e /\ \A i \in 1..n : Append(C, e)[i] = C[i]
    <3> DEFINE S == Seq(B)
    <3>1. C \in Seq(S) /\ e \in S /\ Len(C) = n
      BY <1>6
    <3> HIDE DEF S
    <3>2. PICK r : r = Append(C, e)
      OBVIOUS
    <3>3. /\ r \in Seq(S) /\ Len(r) = n + 1
          /\ r[n + 1] = e /\ \A i \in 1..n : r[i] = C[i]
      BY <3>1, <3>2
    <3>4. DOMAIN r = 1..(n + 1) /\ r = [i \in 1..(n + 1) |-> r[i]]
      BY <3>3, LenProperties
    <3> QED
      BY <3>2, <3>3, <3>4
  <2>2. Cleaned(more) = [i \in 1..(n + 1) |-> CleanCharacter(more[i])]
    BY <1>3 DEF Cleaned
  <2>3. \A i \in 1..(n + 1) : CleanCharacter(more[i]) = Append(C, e)[i]
    <3>1. \A i \in 1..(n + 1) : i = n + 1 \/ i \in 1..n
      OBVIOUS
    <3> QED
      BY <1>3, <1>5, <1>6, <2>1, <3>1
  <2> QED
    BY <2>1, <2>2, <2>3
<1>8. FlattenSeq(Append(C, e)) = FlattenSeq(C) \o e
  BY <1>6, FlattenMore
<1>9. /\ CleanString(more) = FlattenSeq(Cleaned(more))
      /\ CleanString(txt) = FlattenSeq(C)
  BY <1>3, <1>4, CleanedTypes
<1> QED
  BY <1>2, <1>5, <1>7, <1>8, <1>9

LEMMA CleanNothing == CleanString(<<>>) = <<>>
<1>1. Cleaned(<<>>) = <<>>
  BY DEF Cleaned
<1> QED
  BY <1>1 DEF CleanString, Cleaned, FlattenSeq

Regrouped(x, y, z) == (x \o y) \o z = x \o (y \o z)

LEMMA Regrouping ==
  ASSUME NEW B, NEW x \in Seq(B), NEW y \in Seq(B), NEW z \in Seq(B)
  PROVE  Regrouped(x, y, z)
BY ConcatAssociative DEF Regrouped

LEMMA CleanConcat ==
  ASSUME NEW B, Alphabet(B), NEW s \in Seq(B), NEW t \in Seq(B)
  PROVE  CleanString(s \o t) = CleanString(s) \o CleanString(t)
<1> DEFINE Good == {n \in Nat : \A u \in Seq(B) : Len(u) = n =>
                      CleanString(s \o u) = CleanString(s) \o CleanString(u)}
<1>1. 0 \in Good
  <2>1. SUFFICES ASSUME NEW u \in Seq(B), Len(u) = 0
                 PROVE  CleanString(s \o u) = CleanString(s) \o CleanString(u)
    OBVIOUS
  <2>2. u = <<>> /\ s \o u = s
    BY <2>1, EmptySeq, ConcatEmptySeq
  <2>3. CleanString(u) = <<>>
    BY <2>2, CleanNothing
  <2> QED
    BY <2>2, <2>3, CleanedTypes, ConcatEmptySeq
<1>2. ASSUME NEW n \in Nat, n \in Good PROVE n + 1 \in Good
  <2>1. SUFFICES ASSUME NEW u \in Seq(B), Len(u) = n + 1
                 PROVE  CleanString(s \o u) = CleanString(s) \o CleanString(u)
    OBVIOUS
  <2>2. u # <<>>
    BY <2>1
  <2>3. PICK v \in Seq(B), c \in B : u = Append(v, c)
    BY <2>2, SequenceEmptyOrAppend
  <2>4. Len(v) = n /\ u = v \o <<c>> /\ <<c>> \in Seq(B)
    BY <2>1, <2>3, AppendProperties, AppendIsConcat, ShortTuples
  <2>5. s \o v \in Seq(B) /\ s \o u = (s \o v) \o <<c>>
    BY <2>4, ConcatAssociative, ConcatProperties
  <2>6. s \o u = Append(s \o v, c)
    BY <2>5, AppendIsConcat
  <2>7. CleanString(s \o v) = CleanString(s) \o CleanString(v)
    BY <1>2, <2>4
  <2>8. /\ CleanString(s) \in Seq(B) /\ CleanString(v) \in Seq(B)
        /\ CleanCharacter(c) \in Seq(B)
    BY CleanedTypes, CleanTypes
  <2>9. /\ CleanString(s \o u) = CleanString(s \o v) \o CleanCharacter(c)
        /\ CleanString(u) = CleanString(v) \o CleanCharacter(c)
    BY <2>3, <2>5, <2>6, CleanMore
  <2> QED
    <3>1. Regrouped(CleanString(s), CleanString(v), CleanCharacter(c))
      BY <2>8, Regrouping, Zenon
    <3> QED
      BY <2>7, <2>9, <3>1 DEF Regrouped
<1> HIDE DEF Good
<1>3. Len(t) \in Good
  BY <1>1, <1>2, NatByInduction, LenProperties
<1> QED
  BY <1>3 DEF Good

(* A piece of a sequence. *)
Piece(g, s, a, b) ==
  /\ DOMAIN g = 1..(b - a + 1) /\ Len(g) = b - a + 1
  /\ \A i \in 1..(b - a + 1) : g[i] = s[a + i - 1]

LEMMA PieceGiven ==
  ASSUME NEW B, NEW s \in Seq(B), NEW a \in Nat, NEW b \in Nat,
         1 <= a, a <= b + 1, b <= Len(s), NEW g, g = SubSeq(s, a, b)
  PROVE  g \in Seq(B) /\ Piece(g, s, a, b)
<1>1. PICK n \in Nat : n = Len(s)
  BY LenProperties
<1>2. \A i \in a..b : i \in 1..n
  BY <1>1
<1>3. \A i \in a..b : s[i] \in B
  BY <1>1, <1>2, ElementOfSeq
<1>4. /\ SubSeq(s, a, b) \in Seq(B)
      /\ Len(SubSeq(s, a, b)) = IF a <= b THEN b - a + 1 ELSE 0
      /\ \A i \in 1..b - a + 1 : SubSeq(s, a, b)[i] = s[a + i - 1]
  <2>1. a \in Int /\ b \in Int
    OBVIOUS
  <2> QED
    BY <1>3, <2>1, SubSeqProperties
<1>5. (IF a <= b THEN b - a + 1 ELSE 0) = b - a + 1
  OBVIOUS
<1>6. g \in Seq(B) /\ Len(g) = b - a + 1
  BY <1>4, <1>5
<1> QED
  BY <1>4, <1>6, LenProperties DEF Piece

(* A field of a text, with what is in front of it and behind it. *)
Between(txt, p, f, q) ==
  /\ txt = (p \o f) \o q
  /\ f # <<>> /\ " " \notin ToSet(f)
  /\ p # <<>> => p[Len(p)] = " "
  /\ q # <<>> => q[1] = " "

LEMMA FieldParts ==
  ASSUME NEW B, NEW txt \in Seq(B), NEW f \in Fields(txt)
  PROVE  f \in Seq(B) /\ \E p, q \in Seq(B) : Between(txt, p, f, q)
<1>1. PICK n \in Nat : n = Len(txt) /\ DOMAIN txt = 1..n
  BY LenProperties
<1> DEFINE Blank(i) == i \notin DOMAIN txt \/ txt[i] = " "
<1>2. PICK a \in 1..n, b \in 1..n :
        /\ f = SubSeq(txt, a, b) /\ a <= b /\ Blank(a - 1) /\ Blank(b + 1)
        /\ \A k \in a..b : ~Blank(k)
  BY <1>1 DEF Fields
<1> HIDE DEF Blank
<1>3. a \in Nat /\ b \in Nat /\ 1 <= a /\ a <= b /\ b <= n
  BY <1>2
<1>4. PICK c \in Nat : c = a - 1 /\ c + 1 = a
  BY <1>3
<1>5. PICK p : p = SubSeq(txt, 1, c)
  OBVIOUS
<1>6. PICK q : q = SubSeq(txt, b + 1, n)
  OBVIOUS
<1>7. f \in Seq(B) /\ Piece(f, txt, a, b)
  <2>1. a <= b + 1
    BY <1>3
  <2> QED
    BY <1>1, <1>2, <1>3, <2>1, PieceGiven
<1>8. p \in Seq(B) /\ Piece(p, txt, 1, c)
  <2>1. 1 \in Nat /\ 1 <= 1 /\ 1 <= c + 1 /\ c <= n
    BY <1>3, <1>4
  <2> QED
    BY <1>1, <1>5, <2>1, PieceGiven
<1>9. q \in Seq(B) /\ Piece(q, txt, b + 1, n)
  <2>1. b + 1 \in Nat /\ 1 <= b + 1 /\ b + 1 <= n + 1 /\ n <= n
    BY <1>3
  <2> QED
    BY <1>1, <1>6, <2>1, PieceGiven
<1>10. txt = (p \o f) \o q
  <2>1. p \o f = SubSeq(txt, 1, b)
    <3>1. 1 \in 1..(n + 1) /\ c \in (1 - 1)..n /\ b \in c..n
      BY <1>3, <1>4
    <3> QED
      <4>1. f = SubSeq(txt, c + 1, b)
        BY <1>2, <1>4
      <4> QED
        BY <1>1, <1>5, <3>1, <4>1, ConcatAdjacentSubSeq
  <2>2. SubSeq(txt, 1, b) \o q = SubSeq(txt, 1, n)
    <3>1. 1 \in 1..(n + 1) /\ b \in (1 - 1)..n /\ n \in b..n
      BY <1>3
    <3> QED
      BY <1>1, <1>6, <3>1, ConcatAdjacentSubSeq
  <2>3. SubSeq(txt, 1, n) = txt
    BY <1>1, SubSeqFull
  <2> QED
    BY <2>1, <2>2, <2>3
<1>11. f # <<>> /\ " " \notin ToSet(f)
  <2>1. DOMAIN f = 1..(b - a + 1) /\ 1 \in 1..(b - a + 1)
    BY <1>3, <1>7 DEF Piece
  <2>2. f # <<>>
    BY <2>1
  <2>3. ASSUME NEW i \in 1..(b - a + 1) PROVE f[i] # " "
    <3>1. a + i - 1 \in a..b
      BY <1>3
    <3>2. f[i] = txt[a + i - 1]
      BY <1>7 DEF Piece
    <3> QED
      BY <1>2, <3>1, <3>2 DEF Blank
  <2> QED
    BY <2>1, <2>2, <2>3 DEF ToSet
<1>12. p # <<>> => p[Len(p)] = " "
  <2>1. SUFFICES ASSUME p # <<>> PROVE p[Len(p)] = " "
    OBVIOUS
  <2>2. Len(p) = c
    BY <1>4, <1>8 DEF Piece
  <2>3. c # 0
    BY <1>8, <2>1, <2>2, EmptySeq
  <2>4. c \in 1..n /\ c \in 1..(c - 1 + 1) /\ 1 + c - 1 = c /\ a - 1 = c
    BY <1>3, <1>4, <2>3
  <2>5. p[c] = txt[c]
    BY <1>8, <2>4 DEF Piece
  <2> QED
    BY <1>1, <1>2, <2>2, <2>4, <2>5 DEF Blank
<1>13. q # <<>> => q[1] = " "
  <2>1. SUFFICES ASSUME q # <<>> PROVE q[1] = " "
    OBVIOUS
  <2>2. Len(q) = n - (b + 1) + 1
    BY <1>9 DEF Piece
  <2>3. n - (b + 1) + 1 # 0
    BY <1>9, <2>1, <2>2, EmptySeq
  <2>4. /\ b + 1 \in 1..n /\ 1 \in 1..(n - (b + 1) + 1)
        /\ (b + 1) + 1 - 1 = b + 1
    BY <1>3, <2>3
  <2>5. q[1] = txt[b + 1]
    BY <1>9, <2>4 DEF Piece
  <2> QED
    BY <1>1, <1>2, <2>4, <2>5 DEF Blank
<1>14. Between(txt, p, f, q)
  BY <1>10, <1>11, <1>12, <1>13 DEF Between
<1> QED
  BY <1>7, <1>8, <1>9, <1>14

(* The parts of a concatenation. *)
Joins(r, s, m, t, n) ==
  /\ Len(r) = m + n /\ DOMAIN r = 1..(m + n)
  /\ \A i \in 1..m : i \in 1..(m + n) /\ r[i] = s[i]
  /\ \A i \in 1..n : m + i \in 1..(m + n) /\ r[m + i] = t[i]

LEMMA JoinGiven ==
  ASSUME NEW B, NEW s \in Seq(B), NEW t \in Seq(B), NEW m, m = Len(s),
         NEW n, n = Len(t)
  PROVE  s \o t \in Seq(B) /\ Joins(s \o t, s, m, t, n)
<1>1. PICK r : r = s \o t
  OBVIOUS
<1>2. /\ r \in Seq(B) /\ Len(r) = m + n
      /\ \A i \in 1..m : i \in 1..(m + n) /\ r[i] = s[i]
      /\ \A i \in 1..n : m + i \in 1..(m + n) /\ r[m + i] = t[i]
  BY <1>1, ConcatParts
<1>3. DOMAIN r = 1..(m + n)
  BY <1>2, LenProperties
<1> QED
  BY <1>1, <1>2, <1>3 DEF Joins

LEMMA FieldBetween ==
  ASSUME NEW B, NEW txt \in Seq(B), NEW p \in Seq(B), NEW f \in Seq(B),
         NEW q \in Seq(B), Between(txt, p, f, q)
  PROVE  f \in Fields(txt)
<1>1. PICK k \in Nat : k = Len(p)
  BY LenProperties
<1>2. PICK m \in Nat : m = Len(f)
  BY LenProperties
<1>3. PICK l \in Nat : l = Len(q)
  BY LenProperties
<1>4. PICK h : h = p \o f
  OBVIOUS
<1>5. h \in Seq(B) /\ Joins(h, p, k, f, m)
  BY <1>1, <1>2, <1>4, JoinGiven
<1>6. PICK z \in Nat : z = k + m
  OBVIOUS
<1>7. txt = h \o q /\ z = Len(h)
  BY <1>4, <1>5, <1>6 DEF Between, Joins
<1>8. Joins(txt, h, z, q, l)
  BY <1>3, <1>5, <1>7, JoinGiven
<1>9. /\ m # 0 /\ DOMAIN f = 1..m
      /\ \A i \in 1..m : f[i] # " "
      /\ k # 0 => p[k] = " "
      /\ l # 0 => q[1] = " "
  <2>1. DOMAIN f = 1..m
    BY <1>2, LenProperties
  <2>2. m # 0
    BY <1>2, EmptySeq DEF Between
  <2>3. (k # 0 => p # <<>>) /\ (l # 0 => q # <<>>)
    BY <1>1, <1>3, EmptySeq
  <2> QED
    BY <1>1, <2>1, <2>2, <2>3 DEF Between, ToSet
<1>10. DOMAIN txt = 1..(z + l) /\ Len(txt) = z + l
  BY <1>8 DEF Joins
<1> DEFINE Blank(i) == i \notin DOMAIN txt \/ txt[i] = " "
<1>11. Blank(k)
  <2>1. CASE k = 0
    BY <1>10, <2>1
  <2>2. CASE k # 0
    <3>1. k \in 1..k /\ k \in 1..z
      BY <1>6, <2>2
    <3>2. h[k] = p[k] /\ txt[k] = h[k]
      BY <1>5, <1>8, <3>1 DEF Joins
    <3> QED
      BY <1>9, <2>2, <3>2
  <2> QED
    BY <2>1, <2>2
<1>12. Blank(z + 1)
  <2>1. CASE l = 0
    <3>1. z + 1 \notin 1..(z + l)
      BY <2>1
    <3> QED
      BY <1>10, <3>1
  <2>2. CASE l # 0
    <3>1. 1 \in 1..l
      BY <2>2
    <3>2. txt[z + 1] = q[1]
      BY <1>8, <3>1 DEF Joins
    <3> QED
      BY <1>9, <2>2, <3>2
  <2> QED
    BY <2>1, <2>2
<1>13. ASSUME NEW i \in 1..m
       PROVE  /\ txt[k + i] = f[i] /\ k + i \in DOMAIN txt
              /\ txt[k + i] # " "
  <2>1. h[k + i] = f[i]
    BY <1>5 DEF Joins
  <2>2. k + i \in 1..z /\ k + i \in 1..(z + l)
    BY <1>6
  <2>3. txt[k + i] = h[k + i]
    BY <1>8, <2>2 DEF Joins
  <2> QED
    BY <1>9, <1>10, <2>1, <2>2, <2>3
<1>14. ASSUME NEW i \in (k + 1)..z PROVE ~Blank(i)
  <2>1. i - k \in 1..m /\ k + (i - k) = i
    BY <1>6
  <2> QED
    BY <1>13, <2>1
<1>15. /\ k + 1 \in Nat /\ 1 <= k + 1 /\ k + 1 <= z + 1 /\ z <= z + l
       /\ z - (k + 1) + 1 = m /\ k + 1 <= z /\ (k + 1) - 1 = k
       /\ k + 1 \in 1..(z + l) /\ z \in 1..(z + l)
  <2>1. m \in Nat /\ m # 0 /\ z = k + m
    BY <1>6, <1>9
  <2> QED
    BY <2>1
<1>16. SubSeq(txt, k + 1, z) = f
  <2>1. PICK g : g = SubSeq(txt, k + 1, z)
    OBVIOUS
  <2>2. g \in Seq(B) /\ Piece(g, txt, k + 1, z)
    BY <1>10, <1>15, <2>1, PieceGiven
  <2>3. Len(g) = m /\ \A i \in 1..m : g[i] = txt[(k + 1) + i - 1]
    BY <1>15, <2>2 DEF Piece
  <2>4. \A i \in 1..m : (k + 1) + i - 1 = k + i
    OBVIOUS
  <2>5. \A i \in 1..m : g[i] = f[i]
    BY <1>13, <2>3, <2>4
  <2> QED
    BY <1>2, <2>1, <2>2, <2>3, <2>5, SeqEqual
<1>17. PICK piece : piece = <<k + 1, z>>
  OBVIOUS
<1>18. /\ piece \in (1..Len(txt)) \X (1..Len(txt))
       /\ piece[1] = k + 1 /\ piece[2] = z
  BY <1>10, <1>15, <1>17
<1>19. /\ piece[1] <= piece[2] /\ Blank(piece[1] - 1) /\ Blank(piece[2] + 1)
       /\ \A i \in piece[1]..piece[2] : ~Blank(i)
  BY <1>11, <1>12, <1>14, <1>15, <1>18
<1>20. f = SubSeq(txt, piece[1], piece[2])
  BY <1>16, <1>18
<1> QED
  BY <1>18, <1>19, <1>20, Zenon DEF Fields

(* A field is cleaned to a field of the cleaned text, or to nothing.       *)
LEMMA FieldCleaned ==
  ASSUME NEW B, Alphabet(B), NEW txt \in Seq(B), NEW f \in Fields(txt),
         "-" \notin ToSet(f), CleanString(f) # <<>>
  PROVE  CleanString(f) \in ExtractWords(txt)
<1>1. PICK p \in Seq(B), q \in Seq(B) : Between(txt, p, f, q)
  BY FieldParts
<1>2. f \in Seq(B) /\ p \o f \in Seq(B)
  BY FieldParts
<1>3. PICK x \in Seq(B), y \in Seq(B), z \in Seq(B) :
        x = CleanString(p) /\ y = CleanString(f) /\ z = CleanString(q)
  BY <1>2, CleanedTypes
<1>4. CleanString(txt) = (x \o y) \o z
  <2>1. txt = (p \o f) \o q
    BY <1>1 DEF Between
  <2>2. CleanString((p \o f) \o q) = CleanString(p \o f) \o CleanString(q)
    BY <1>2, CleanConcat
  <2>3. CleanString(p \o f) = CleanString(p) \o CleanString(f)
    BY <1>2, CleanConcat
  <2> QED
    BY <1>3, <2>1, <2>2, <2>3
<1>5. " " \notin ToSet(y)
  <2>1. /\ Cleaned(f) \in Seq(Seq(B)) /\ DOMAIN Cleaned(f) = DOMAIN f
        /\ y = FlattenSeq(Cleaned(f))
    BY <1>2, <1>3, CleanedTypes
  <2>2. ToSet(y) = UNION {ToSet(Cleaned(f)[i]) : i \in DOMAIN Cleaned(f)}
    BY <2>1, FlattenedSet
  <2>3. ASSUME NEW i \in DOMAIN f PROVE " " \notin ToSet(Cleaned(f)[i])
    <3>1. f[i] \in ToSet(f)
      BY DEF ToSet
    <3>2. f[i] \in B
      BY <1>2, LenProperties, ElementOfSeq
    <3>3. f[i] # " " /\ f[i] # "-"
      BY <1>1, <3>1 DEF Between
    <3>4. Cleaned(f)[i] = CleanCharacter(f[i])
      BY DEF Cleaned
    <3> QED
      BY <3>2, <3>3, <3>4, CleanTypes
  <2> QED
    BY <2>1, <2>2, <2>3
<1>6. x # <<>> => x[Len(x)] = " "
  <2>1. SUFFICES ASSUME x # <<>> PROVE x[Len(x)] = " "
    OBVIOUS
  <2>2. p # <<>>
    BY <1>3, <2>1, CleanNothing
  <2>3. PICK u \in Seq(B), c \in B : p = Append(u, c)
    BY <2>2, SequenceEmptyOrAppend
  <2>4. p[Len(p)] = c
    BY <2>3, AppendProperties
  <2>5. c = " "
    BY <1>1, <2>2, <2>4 DEF Between
  <2>6. PICK v \in Seq(B) : v = CleanString(u)
    BY CleanedTypes
  <2>7. x = v \o <<" ">> /\ " " \in B
    BY <1>3, <2>3, <2>5, <2>6, CleanMore, CleanBlank
  <2>8. PICK k \in Nat : k = Len(v)
    BY LenProperties
  <2>9. Joins(x, v, k, <<" ">>, 1)
    BY <2>7, <2>8, ShortTuples, JoinGiven
  <2>10. 1 \in 1..1 /\ <<" ">>[1] = " "
    OBVIOUS
  <2> QED
    BY <2>9, <2>10 DEF Joins
<1>7. z # <<>> => z[1] = " "
  <2>1. SUFFICES ASSUME z # <<>> PROVE z[1] = " "
    OBVIOUS
  <2>2. q # <<>>
    BY <1>3, <2>1, CleanNothing
  <2>3. q[1] = " " /\ " " \in B
    BY <1>1, <2>2 DEF Between, Alphabet
  <2>4. Tail(q) \in Seq(B) /\ q = <<" ">> \o Tail(q) /\ <<" ">> \in Seq(B)
    <3>1. PICK l \in Nat : l = Len(q) /\ l # 0
      BY <2>2, EmptySeq
    <3>2. 1 \in 1..l /\ l \in 1..l /\ 1 + 1 = 2
      BY <3>1
    <3>3. SubSeq(q, 1, l) = <<q[1]>> \o SubSeq(q, 2, l)
      BY <3>1, <3>2, SubSeqRecursiveFirst
    <3>4. SubSeq(q, 1, l) = q /\ SubSeq(q, 2, l) = Tail(q)
      BY <2>2, <3>1, SubSeqFull, TailIsSubSeq
    <3> QED
      BY <2>2, <2>3, <3>3, <3>4, HeadTailProperties, ShortTuples
  <2>5. CleanString(<<" ">>) = <<" ">>
    <3>1. <<" ">> = Append(<<>>, " ") /\ <<>> \in Seq(B)
      OBVIOUS
    <3>2. CleanString(<<" ">>) = <<>> \o <<" ">>
      BY <2>3, <3>1, CleanMore, CleanNothing, CleanBlank
    <3> QED
      BY <2>4, <3>2, ConcatEmptySeq
  <2>6. PICK w \in Seq(B) : w = CleanString(Tail(q))
    BY <2>4, CleanedTypes
  <2>7. z = <<" ">> \o w
    <3>1. CleanString(<<" ">> \o Tail(q))
            = CleanString(<<" ">>) \o CleanString(Tail(q))
      BY <2>4, CleanConcat
    <3> QED
      BY <1>3, <2>4, <2>5, <2>6, <3>1
  <2>8. PICK k \in Nat : k = Len(w)
    BY LenProperties
  <2>9. Joins(z, <<" ">>, 1, w, k)
    BY <2>4, <2>7, <2>8, JoinGiven
  <2>10. 1 \in 1..1 /\ <<" ">>[1] = " "
    OBVIOUS
  <2> QED
    BY <2>9, <2>10 DEF Joins
<1>8. (x \o y) \o z \in Seq(B)
  OBVIOUS
<1>9. Between((x \o y) \o z, x, y, z)
  BY <1>3, <1>5, <1>6, <1>7 DEF Between
<1>10. y \in Fields((x \o y) \o z)
  BY <1>8, <1>9, FieldBetween
<1> QED
  BY <1>3, <1>4, <1>10 DEF ExtractWords
-----------------------------------------------------------------------------
(* Tokens: what the parser relies on is that EOF is the last one, and only *)
(* the last one.                                                           *)
TokenTypes ==
  {"EOF", "ILLEGAL", "(", ")", "AND", "OR", "WITHOUT", "NOT", "WORD"}

TokenSet == [tok : TokenTypes, lit : Seq(Characters)]

EndsInEof(ts) == \A i \in 1..Len(ts) : ts[i].tok = "EOF" <=> i = Len(ts)

TokenLists == {ts \in Seq(TokenSet) : Len(ts) >= 1 /\ EndsInEof(ts)}

LEMMA TokensOfSymbols ==
  \A c \in Symbols : SymbolToken[c] \in TokenTypes \ {"EOF"}
BY DEF SymbolToken, Symbols, TokenTypes

LEMMA WordTokens ==
  ASSUME NEW word \in Seq(Characters)
  PROVE  WordToken(word) \in TokenSet /\ WordToken(word).tok # "EOF"
<1>1. \A c \in DOMAIN Keyword : Keyword[c] \in TokenTypes \ {"EOF"}
  BY DEF Keyword, TokenTypes
<1>2. "WORD" \in TokenTypes \ {"EOF"}
  BY DEF TokenTypes
<1> QED
  BY <1>1, <1>2 DEF WordToken, Token, TokenSet

LEMMA EofAlone == <<Token("EOF", <<>>)>> \in TokenLists
<1>1. Token("EOF", <<>>) \in TokenSet
  BY DEF Token, TokenSet, TokenTypes
<1> QED
  BY <1>1 DEF TokenLists, EndsInEof, Token

LEMMA OneMoreToken ==
  ASSUME NEW t \in TokenSet, t.tok # "EOF", NEW ts \in TokenLists
  PROVE  <<t>> \o ts \in TokenLists
<1> DEFINE us == <<t>> \o ts
<1>1. ts \in Seq(TokenSet) /\ Len(ts) >= 1 /\ <<t>> \in Seq(TokenSet)
  BY DEF TokenLists
<1>2. us \in Seq(TokenSet) /\ Len(us) = Len(ts) + 1
  BY <1>1
<1>3. \A i \in 1..Len(us) : us[i] = IF i = 1 THEN t ELSE ts[i - 1]
  BY <1>1
<1> HIDE DEF us
<1>4. ASSUME NEW i \in 1..Len(us) PROVE us[i].tok = "EOF" <=> i = Len(us)
  <2>1. CASE i = 1
    BY <1>1, <1>2, <1>3, <2>1
  <2>2. CASE i # 1
    <3>1. i - 1 \in 1..Len(ts) /\ us[i] = ts[i - 1]
      BY <1>1, <1>2, <1>3, <2>2
    <3>2. ts[i - 1].tok = "EOF" <=> i - 1 = Len(ts)
      BY <3>1 DEF TokenLists, EndsInEof
    <3> QED
      BY <1>1, <1>2, <3>1, <3>2
  <2> QED
    BY <2>1, <2>2
<1>5. us \in TokenLists
  BY <1>1, <1>2, <1>4 DEF TokenLists, EndsInEof
<1> QED
  BY <1>5 DEF us

(* A word ends somewhere, and the scanner goes on behind it.               *)
Ends(txt, i, n) ==
  /\ \A k \in (i + 1)..n : GoesOnWord(txt[k])
  /\ n < Len(txt) => ~GoesOnWord(txt[n + 1])

LEMMA WordEnds ==
  ASSUME NEW txt \in Seq(Characters), NEW i \in 1..Len(txt)
  PROVE  /\ WordEnd(txt, i) \in i..Len(txt)
         /\ Ends(txt, i, WordEnd(txt, i))
         /\ AfterWord(txt, WordEnd(txt, i)) \in (i + 1)..(Len(txt) + 1)
<1> DEFINE Stop == {n \in i..Len(txt) :
                      n < Len(txt) => ~GoesOnWord(txt[n + 1])}
<1>1. Len(txt) \in Nat /\ i \in Nat
  OBVIOUS
<1>2. Len(txt) \in Stop /\ Stop \in SUBSET Nat
  BY <1>1
<1>3. PICK n \in Stop : \A k \in Stop : n <= k
  BY <1>2, LeastNat
<1>4. \A k \in (i + 1)..n : GoesOnWord(txt[k])
  <2>1. SUFFICES ASSUME NEW k \in (i + 1)..n PROVE GoesOnWord(txt[k])
    OBVIOUS
  <2>2. /\ k - 1 \in i..Len(txt) /\ k - 1 < Len(txt)
        /\ (k - 1) + 1 = k /\ ~(n <= k - 1)
    BY <1>1, <1>3
  <2>3. k - 1 \notin Stop
    BY <1>3, <2>2
  <2> QED
    BY <2>2, <2>3
<1>5. n \in i..Len(txt) /\ Ends(txt, i, n)
  BY <1>3, <1>4 DEF Ends
<1>6. WordEnd(txt, i) = CHOOSE k \in i..Len(txt) : Ends(txt, i, k)
  BY DEF WordEnd, Ends
<1>7. WordEnd(txt, i) \in i..Len(txt) /\ Ends(txt, i, WordEnd(txt, i))
  BY <1>5, <1>6
<1> QED
  BY <1>1, <1>7 DEF AfterWord

LEMMA ScanGives ==
  ASSUME NEW txt \in Seq(Characters), NEW i \in 1..(Len(txt) + 1),
         NEW from \in [1..(Len(txt) + 1) -> TokenLists]
  PROVE  Scan(from, txt, i) \in TokenLists
<1>1. CASE i > Len(txt) \/ txt[i] = "nul"
  BY <1>1, EofAlone DEF Scan
<1>2. CASE ~(i > Len(txt) \/ txt[i] = "nul")
  <2>1. i \in 1..Len(txt) /\ i + 1 \in 1..(Len(txt) + 1)
    BY <1>2
  <2> DEFINE c == txt[i]
             n == WordEnd(txt, i)
  <2>2. c \in Characters /\ <<c>> \in Seq(Characters)
    BY <2>1
  <2>3. /\ n \in i..Len(txt)
        /\ AfterWord(txt, n) \in 1..(Len(txt) + 1)
    BY <2>1, WordEnds
  <2>4. SubSeq(txt, i, n) \in Seq(Characters)
    BY <2>1, <2>3
  <2>5. c \in Symbols => /\ Token(SymbolToken[c], <<c>>) \in TokenSet
                         /\ Token(SymbolToken[c], <<c>>).tok # "EOF"
    BY <2>2, TokensOfSymbols DEF Token, TokenSet
  <2>6. /\ Token("ILLEGAL", <<c>>) \in TokenSet
        /\ Token("ILLEGAL", <<c>>).tok # "EOF"
    BY <2>2 DEF Token, TokenSet, TokenTypes
  <2>7. /\ from[i + 1] \in TokenLists
        /\ from[AfterWord(txt, n)] \in TokenLists
    BY <2>1, <2>3
  <2>8. /\ <<WordToken(SubSeq(txt, i, n))>> \o from[AfterWord(txt, n)]
              \in TokenLists
        /\ <<Token("ILLEGAL", <<c>>)>> \o from[i + 1] \in TokenLists
        /\ c \in Symbols =>
             <<Token(SymbolToken[c], <<c>>)>> \o from[i + 1] \in TokenLists
    BY <2>4, <2>5, <2>6, <2>7, WordTokens, OneMoreToken, Zenon
  <2>9. ~(i > Len(txt) \/ txt[i] = "nul")
    BY <1>2
  <2> QED
    BY <2>7, <2>8, <2>9, Zenon DEF Scan
<1> QED
  BY <1>1, <1>2

(* The scanner only ever goes ahead. *)
LEMMA ScanAhead ==
  ASSUME NEW txt \in Seq(Characters), NEW i \in 1..(Len(txt) + 1),
         NEW f, NEW g,
         \A j \in 1..(Len(txt) + 1) : j > i => f[j] = g[j]
  PROVE  Scan(f, txt, i) = Scan(g, txt, i)
<1>1. CASE i > Len(txt) \/ txt[i] = "nul"
  BY <1>1 DEF Scan
<1>2. CASE ~(i > Len(txt) \/ txt[i] = "nul")
  <2>1. i \in 1..Len(txt) /\ i + 1 \in 1..(Len(txt) + 1) /\ i + 1 > i
    BY <1>2
  <2>2. PICK n : n = AfterWord(txt, WordEnd(txt, i))
    OBVIOUS
  <2>3. n \in 1..(Len(txt) + 1) /\ n > i
    BY <2>1, <2>2, WordEnds
  <2>4. /\ f[i + 1] = g[i + 1]
        /\ f[AfterWord(txt, WordEnd(txt, i))]
             = g[AfterWord(txt, WordEnd(txt, i))]
    BY <2>1, <2>2, <2>3
  <2> DEFINE c == txt[i]
             word == <<WordToken(SubSeq(txt, i, WordEnd(txt, i)))>>
             symbol == <<Token(SymbolToken[c], <<c>>)>>
             illegal == <<Token("ILLEGAL", <<c>>)>>
             Chosen(a, b) ==
               CASE c = " " -> a
                 [] c \in Symbols -> symbol \o a
                 [] IsLetter(c) -> word \o b
                 [] OTHER -> illegal \o a
             next == AfterWord(txt, WordEnd(txt, i))
  <2>5. /\ Scan(f, txt, i) = Chosen(f[i + 1], f[next])
        /\ Scan(g, txt, i) = Chosen(g[i + 1], g[next])
    BY <1>2, Zenon DEF Scan
  <2>6. Chosen(f[i + 1], f[next]) = Chosen(g[i + 1], g[next])
    BY <2>4
  <2> QED
    BY <2>5, <2>6
<1> QED
  BY <1>1, <1>2

(* Whatever the txt, the scanner comes to its end.                        *)
Scans(from, txt) ==
  /\ from \in [1..(Len(txt) + 1) -> TokenLists]
  /\ \A i \in 1..(Len(txt) + 1) : from[i] = Scan(from, txt, i)

LEMMA TokensScanned ==
  ASSUME NEW txt \in Seq(Characters)
  PROVE  \E from : Scans(from, txt) /\ Tokens(txt) = from[1]
<1> DEFINE C == 1..(Len(txt) + 1)
           eof == <<Token("EOF", <<>>)>>
           m == [i \in C |-> Len(txt) + 1 - i]
           G == [i \in C |-> [f \in [C -> TokenLists] |-> Scan(f, txt, i)]]
<1>1. m \in [C -> Nat] /\ 1 \in C
  OBVIOUS
<1>2. G \in [C -> [[C -> TokenLists] -> TokenLists]]
  BY ScanGives
<1>3. eof \in TokenLists
  BY EofAlone
<1> HIDE DEF C, G, m, eof
<1>4. PICK F : Recursive(F, C, TokenLists, m, G, eof)
  BY <1>1, <1>2, <1>3, MeasuredRecursion, Zenon
<1>5. ASSUME NEW i \in C PROVE F[i] = Scan(F, txt, i)
  <2> DEFINE f == Smaller(F, C, m, i, eof)
  <2>1. f \in [C -> TokenLists]
    BY <1>3, <1>4 DEF Smaller, Recursive
  <2>2. F[i] = Scan(f, txt, i)
    BY <1>4, <2>1 DEF G, Recursive
  <2>3. ASSUME NEW j \in C, j > i PROVE f[j] = F[j]
    BY <2>3 DEF Smaller, m, C
  <2> HIDE DEF f
  <2>4. Scan(f, txt, i) = Scan(F, txt, i)
    BY <2>3, ScanAhead DEF C
  <2> QED
    BY <2>2, <2>4
<1>6. F = [i \in 1..(Len(txt) + 1) |-> Scan(F, txt, i)]
  BY <1>4, <1>5 DEF C, Recursive
<1>7. PICK from : /\ from = [i \in 1..(Len(txt) + 1) |-> Scan(from, txt, i)]
                  /\ Tokens(txt) = from[1]
  BY <1>6, Zenon DEF Tokens
<1> DEFINE Good == {i \in C : from[i] = F[i]}
<1>8. ASSUME NEW i \in C, \A j \in C : m[j] < m[i] => j \in Good
      PROVE  i \in Good
  <2>1. \A j \in C : j > i => from[j] = F[j]
    BY <1>8 DEF m, C
  <2>2. Scan(from, txt, i) = Scan(F, txt, i)
    BY <2>1, ScanAhead DEF C
  <2> QED
    BY <1>5, <1>7, <2>2 DEF C
<1> HIDE DEF Good
<1>9. \A i \in C : i \in Good
  BY <1>1, <1>8, MeasureInduction, ZenonT(40)
<1>10. \A i \in C : from[i] = F[i] /\ F[i] \in TokenLists
  BY <1>4, <1>9 DEF Good, Recursive
<1>11. from \in [1..(Len(txt) + 1) -> TokenLists]
  BY <1>7, <1>10 DEF C
<1>12. \A i \in 1..(Len(txt) + 1) : from[i] = Scan(from, txt, i)
  BY <1>7
<1>13. Scans(from, txt)
  BY <1>11, <1>12 DEF Scans
<1> QED
  BY <1>7, <1>13

LEMMA TokensGiven ==
  ASSUME NEW txt \in Seq(Characters)
  PROVE  Tokens(txt) \in TokenLists
<1>1. PICK from : Scans(from, txt) /\ Tokens(txt) = from[1]
  BY TokensScanned
<1>2. 1 \in 1..(Len(txt) + 1)
  OBVIOUS
<1> QED
  BY <1>1, <1>2 DEF Scans

-----------------------------------------------------------------------------
(* The calls of the parser.                                                *)
Results(ts) == [ok : BOOLEAN, node : Trees, at : DOMAIN ts]

Called(parse, ts, call) ==
  IF call.level > Len(Operators) THEN ParseBase(parse, ts, call.at)
  ELSE IF call.result = <<>> THEN ParseExpr(parse, call.level, call.at)
  ELSE ParseRest(parse, ts, call.level, Head(call.result), call.at)

(* The calls that a call makes begin at a later token, or at the same one  *)
(* at a later level.                                                       *)
Rank(ts) ==
  [call \in Calls(ts) |-> 5 * (Len(ts) - call.at) + (4 - call.level)]

LEMMA RankSmaller ==
  \A n \in Nat : \A a, b \in 1..n : \A k, l \in 1..4 :
    /\ 5 * (n - a) + (4 - k) \in Nat
    /\ b > a \/ (b = a /\ l > k)
         => 5 * (n - b) + (4 - l) < 5 * (n - a) + (4 - k)
OBVIOUS

LEMMA TokenParts ==
  ASSUME NEW ts \in TokenLists
  PROVE  /\ Len(ts) \in Nat /\ Len(ts) >= 1 /\ DOMAIN ts = 1..Len(ts)
         /\ 1 \in DOMAIN ts
         /\ \A i \in DOMAIN ts :
              /\ i \in Nat
              /\ ts[i].tok \in TokenTypes /\ ts[i].lit \in Seq(Characters)
              /\ ts[i].tok = "EOF" <=> i = Len(ts)
              /\ ts[i].tok # "EOF" => i + 1 \in DOMAIN ts
<1>1. ts \in Seq(TokenSet) /\ Len(ts) >= 1
  BY DEF TokenLists
<1>2. Len(ts) \in Nat /\ DOMAIN ts = 1..Len(ts)
  BY <1>1
<1>3. ASSUME NEW i \in DOMAIN ts
      PROVE  /\ i \in Nat
             /\ ts[i].tok \in TokenTypes /\ ts[i].lit \in Seq(Characters)
             /\ ts[i].tok = "EOF" <=> i = Len(ts)
             /\ ts[i].tok # "EOF" => i + 1 \in DOMAIN ts
  <2>1. ts[i] \in TokenSet
    BY <1>1, <1>2
  <2>2. ts[i].tok = "EOF" <=> i = Len(ts)
    BY <1>2 DEF TokenLists, EndsInEof
  <2> QED
    BY <1>2, <2>1, <2>2 DEF TokenSet
<1> QED
  BY <1>1, <1>2, <1>3

LEMMA RankTypes ==
  ASSUME NEW ts \in TokenLists
  PROVE  /\ Rank(ts) \in [Calls(ts) -> Nat]
         /\ \A c, d \in Calls(ts) :
              d.at > c.at \/ (d.at = c.at /\ d.level > c.level)
                => Rank(ts)[d] < Rank(ts)[c]
<1>1. PICK n \in Nat : n = Len(ts) /\ DOMAIN ts = 1..n
  BY TokenParts
<1>2. \A c \in Calls(ts) :
        /\ c.level \in 1..4 /\ c.at \in 1..n
        /\ Rank(ts)[c] = 5 * (n - c.at) + (4 - c.level)
  BY <1>1 DEF Calls, Rank
<1>3. \A c \in Calls(ts) : Rank(ts)[c] \in Nat
  BY <1>2, RankSmaller
<1>4. \A c, d \in Calls(ts) :
        d.at > c.at \/ (d.at = c.at /\ d.level > c.level)
          => Rank(ts)[d] < Rank(ts)[c]
  BY <1>2, RankSmaller
<1> QED
  BY <1>3, <1>4 DEF Rank

LEMMA CallParts ==
  ASSUME NEW ts, NEW level \in 1..4, NEW at \in DOMAIN ts
  PROVE  /\ Begin(level, at) \in Calls(ts)
         /\ Begin(level, at).level = level /\ Begin(level, at).at = at
         /\ Begin(level, at).result = <<>>
         /\ \A x \in Trees :
              /\ GoOn(level, x, at) \in Calls(ts)
              /\ GoOn(level, x, at).level = level /\ GoOn(level, x, at).at = at
              /\ GoOn(level, x, at).result # <<>>
              /\ Head(GoOn(level, x, at).result) = x
BY DEF Begin, GoOn, Calls

LEMMA Levels ==
  /\ Len(Operators) = 3
  /\ Operators[1] = "WITHOUT" /\ Operators[2] = "OR" /\ Operators[3] = "AND"
  /\ \A l \in 1..4 : l > 3 <=> l = 4
  /\ \A l \in 1..4 : l # 4 => /\ l \in 1..3 /\ l + 1 \in 1..4 /\ l + 1 > l
                               /\ Operators[l] \in {"WITHOUT", "OR", "AND"}
BY DEF Operators

(* Only tokens that are not the last one go on with a level.               *)
LEMMA GoingOn ==
  ASSUME NEW ts \in TokenLists, NEW at \in DOMAIN ts, NEW level \in 1..3,
         GoesOn(level, ts[at].tok)
  PROVE  ts[at].tok # "EOF" /\ at + 1 \in DOMAIN ts
<1>1. ts[at].tok # "EOF"
  BY Levels DEF GoesOn
<1> QED
  BY <1>1, TokenParts

LEMMA NewPair ==
  ASSUME AnyHeight, NEW l \in 1..3, NEW x \in Trees, NEW y \in Trees
  PROVE  OpNode(Operators[l], <<x, y>>) \in Trees
<1>1. Operators[l] \in {"WITHOUT", "OR", "AND"} /\ <<x, y>> \in Seq(Trees)
  BY Levels
<1> QED
  BY <1>1, NewOp

LEMMA NewNot ==
  ASSUME AnyHeight, NEW x \in Trees
  PROVE  OpNode("NOT", <<x>>) \in Trees
<1>1. <<x>> \in Seq(Trees) /\ Len(<<x>>) = 1
  OBVIOUS
<1> QED
  BY <1>1, NewOp

LEMMA NewWord ==
  ASSUME AnyHeight, NEW word \in Seq(Characters)
  PROVE  QueryNode(word) \in Trees
<1>1. <<>> \in Seq(Trees) /\ "QUERY" \in NodeTypes
  BY DEF NodeTypes
<1> QED
  BY <1>1, TreeMade DEF QueryNode

LEMMA Returned ==
  ASSUME AnyHeight, NEW ts \in TokenLists
  PROVE  /\ Rejected \in Results(ts)
         /\ \A x \in Trees : \A i \in DOMAIN ts : Parsed(x, i) \in Results(ts)
         /\ \A r \in Results(ts) :
              r.ok \in BOOLEAN /\ r.node \in Trees /\ r.at \in DOMAIN ts
BY SpecialNodes, TokenParts DEF Rejected, Parsed, Results

(* A call that succeeds does not go back; one that begins consumes a token.*)
Ahead(r, c) ==
  r.ok => /\ r.at >= c.at
          /\ c.result = <<>> \/ c.level = 4 => r.at > c.at

LEMMA ExprTypes ==
  ASSUME AnyHeight, NEW ts \in TokenLists, NEW l \in 1..3, NEW i \in DOMAIN ts,
         NEW f \in [Calls(ts) -> Results(ts)]
  PROVE  ParseExpr(f, l, i) \in Results(ts)
<1>1. Begin(l + 1, i) \in Calls(ts)
  BY CallParts
<1> DEFINE first == f[Begin(l + 1, i)]
<1>2. first \in Results(ts) /\ first.node \in Trees /\ first.at \in DOMAIN ts
  BY <1>1, Returned
<1> HIDE DEF first
<1>3. GoOn(l, first.node, first.at) \in Calls(ts)
  BY <1>2, CallParts
<1> QED
  BY <1>2, <1>3 DEF ParseExpr, first

LEMMA RestTypes ==
  ASSUME AnyHeight, NEW ts \in TokenLists, NEW l \in 1..3, NEW i \in DOMAIN ts,
         NEW x \in Trees, NEW f \in [Calls(ts) -> Results(ts)]
  PROVE  ParseRest(f, ts, l, x, i) \in Results(ts)
<1> DEFINE tok == ts[i].tok
           from == IF tok = "WORD" THEN i ELSE i + 1
           second == f[Begin(l + 1, from)]
           pair == OpNode(Operators[l], <<x, second.node>>)
<1>1. CASE ~GoesOn(l, tok)
  BY <1>1, Returned DEF ParseRest
<1>2. CASE GoesOn(l, tok)
  <2>1. from \in DOMAIN ts
    BY <1>2, GoingOn
  <2> HIDE DEF from
  <2>2. Begin(l + 1, from) \in Calls(ts)
    BY <2>1, CallParts
  <2>3. second \in Results(ts) /\ second.node \in Trees /\ second.at \in DOMAIN ts
    BY <2>2, Returned
  <2> HIDE DEF second
  <2>4. pair \in Trees
    BY <2>3, NewPair
  <2> HIDE DEF pair
  <2>5. f[GoOn(l, pair, second.at)] \in Results(ts)
    <3>1. l \in 1..4
      OBVIOUS
    <3>2. GoOn(l, pair, second.at) \in Calls(ts)
      BY <2>3, <2>4, <3>1, CallParts, Zenon
    <3> QED
      BY <3>2
  <2>6. ParseRest(f, ts, l, x, i)
          = IF second.ok THEN f[GoOn(l, pair, second.at)] ELSE second
    BY <1>2 DEF ParseRest, pair, second, from
  <2> QED
    BY <2>3, <2>5, <2>6
<1> QED
  BY <1>1, <1>2

LEMMA BaseTypes ==
  ASSUME AnyHeight, NEW ts \in TokenLists, NEW i \in DOMAIN ts,
         NEW f \in [Calls(ts) -> Results(ts)]
  PROVE  ParseBase(f, ts, i) \in Results(ts)
<1> DEFINE tok == ts[i].tok
           inner == f[Begin(1, i + 1)]
           operand == f[Begin(4, i + 1)]
<1>1. CASE tok = "("
  <2>1. i + 1 \in DOMAIN ts /\ 1 \in 1..4
    BY <1>1, TokenParts
  <2>2. Begin(1, i + 1) \in Calls(ts)
    BY <2>1, CallParts
  <2>3. inner \in Results(ts) /\ inner.node \in Trees /\ inner.at \in DOMAIN ts
    BY <2>2, Returned
  <2> HIDE DEF inner
  <2>4. ts[inner.at].tok = ")" => Parsed(inner.node, inner.at + 1) \in Results(ts)
    BY <2>3, TokenParts, Returned
  <2>5. ParseBase(f, ts, i) = IF inner.ok /\ ts[inner.at].tok = ")"
                              THEN Parsed(inner.node, inner.at + 1) ELSE Rejected
    BY <1>1 DEF ParseBase, inner
  <2> QED
    BY <2>4, <2>5, Returned
<1>2. CASE tok = "WORD"
  <2>1. i + 1 \in DOMAIN ts /\ QueryNode(ts[i].lit) \in Trees
    BY <1>2, TokenParts, NewWord
  <2>2. ParseBase(f, ts, i) = Parsed(QueryNode(ts[i].lit), i + 1)
    BY <1>2 DEF ParseBase
  <2> QED
    BY <2>1, <2>2, Returned
<1>3. CASE tok \in {"WITHOUT", "NOT"}
  <2>1. i + 1 \in DOMAIN ts /\ 4 \in 1..4
    BY <1>3, TokenParts
  <2>2. Begin(4, i + 1) \in Calls(ts)
    BY <2>1, CallParts
  <2>3. operand \in Results(ts) /\ operand.node \in Trees
        /\ operand.at \in DOMAIN ts
    BY <2>2, Returned
  <2> HIDE DEF operand
  <2>4. OpNode("NOT", <<operand.node>>) \in Trees
    BY <2>3, NewNot
  <2>5. ParseBase(f, ts, i)
          = IF operand.ok THEN Parsed(OpNode("NOT", <<operand.node>>), operand.at)
            ELSE Rejected
    BY <1>3 DEF ParseBase, operand
  <2> QED
    BY <2>3, <2>4, <2>5, Returned
<1>4. CASE tok \notin {"(", "WORD", "WITHOUT", "NOT"}
  <2>1. ParseBase(f, ts, i) = Rejected
    BY <1>4 DEF ParseBase
  <2> QED
    BY <2>1, Returned
<1> QED
  BY <1>1, <1>2, <1>3, <1>4

LEMMA CalledTypes ==
  ASSUME AnyHeight, NEW ts \in TokenLists, NEW c \in Calls(ts),
         NEW f \in [Calls(ts) -> Results(ts)]
  PROVE  Called(f, ts, c) \in Results(ts)
<1>1. /\ c.level \in 1..4 /\ c.at \in DOMAIN ts /\ c.result \in Seq(Trees)
  BY DEF Calls
<1>2. CASE c.level = 4
  BY <1>1, <1>2, BaseTypes, Levels DEF Called
<1>3. CASE c.level # 4 /\ c.result = <<>>
  BY <1>1, <1>3, ExprTypes, Levels DEF Called
<1>4. CASE c.level # 4 /\ c.result # <<>>
  <2>1. Head(c.result) \in Trees
    BY <1>1, <1>4
  <2> QED
    BY <1>1, <1>4, <2>1, RestTypes, Levels DEF Called
<1> QED
  BY <1>2, <1>3, <1>4

(* What f and F agree on, and what is known of it: the calls that a call   *)
(* may make which is at the token i on the level l.                        *)
Known(f, F, ts, l, i) ==
  \A d \in Calls(ts) :
    d.at > i \/ (d.at = i /\ d.level > l) => f[d] = F[d] /\ Ahead(F[d], d)

LEMMA KnownBegin ==
  ASSUME NEW ts \in TokenLists, NEW l, NEW i, NEW f, NEW F, Known(f, F, ts, l, i),
         NEW k \in 1..4, NEW j \in DOMAIN ts, j > i \/ (j = i /\ k > l)
  PROVE  /\ f[Begin(k, j)] = F[Begin(k, j)]
         /\ F[Begin(k, j)].ok => F[Begin(k, j)].at > j
<1>1. Begin(k, j) \in Calls(ts) /\ Begin(k, j).at = j /\ Begin(k, j).level = k
      /\ Begin(k, j).result = <<>>
  BY CallParts
<1> QED
  BY <1>1 DEF Known, Ahead

LEMMA KnownGoOn ==
  ASSUME NEW ts \in TokenLists, NEW l \in 1..4, NEW i, NEW f, NEW F,
         Known(f, F, ts, l, i), NEW x \in Trees, NEW j \in DOMAIN ts, j > i
  PROVE  /\ f[GoOn(l, x, j)] = F[GoOn(l, x, j)]
         /\ F[GoOn(l, x, j)].ok => F[GoOn(l, x, j)].at >= j
<1>1. GoOn(l, x, j) \in Calls(ts) /\ GoOn(l, x, j).at = j
  BY CallParts
<1> QED
  BY <1>1 DEF Known, Ahead

LEMMA ExprAhead ==
  ASSUME AnyHeight, NEW ts \in TokenLists, NEW l \in 1..3, NEW i \in DOMAIN ts,
         NEW F \in [Calls(ts) -> Results(ts)], NEW f, Known(f, F, ts, l, i)
  PROVE  /\ ParseExpr(f, l, i) = ParseExpr(F, l, i)
         /\ ParseExpr(F, l, i).ok => ParseExpr(F, l, i).at > i
<1> DEFINE first == F[Begin(l + 1, i)]
           then == GoOn(l, first.node, first.at)
<1>1. l + 1 \in 1..4 /\ l + 1 > l /\ l \in 1..4 /\ i \in Nat
  BY TokenParts
<1>2. first \in Results(ts) /\ first.node \in Trees /\ first.at \in DOMAIN ts
  BY <1>1, CallParts, Returned
<1>3. f[Begin(l + 1, i)] = first /\ (first.ok => first.at > i)
  BY <1>1, KnownBegin
<1> HIDE DEF first
<1>4. ASSUME first.ok
      PROVE  f[then] = F[then] /\ (F[then].ok => F[then].at >= first.at)
  BY <1>1, <1>2, <1>3, <1>4, KnownGoOn
<1>5. first.at \in Nat
  BY <1>2, TokenParts
<1>6. F[then].at \in Nat
  BY <1>1, <1>2, CallParts, Returned, TokenParts
<1> HIDE DEF then
<1>7. /\ ParseExpr(f, l, i) = IF first.ok THEN f[then] ELSE first
      /\ ParseExpr(F, l, i) = IF first.ok THEN F[then] ELSE first
  BY <1>3 DEF ParseExpr, first, then
<1> QED
  BY <1>1, <1>3, <1>4, <1>5, <1>6, <1>7

LEMMA RestAhead ==
  ASSUME AnyHeight, NEW ts \in TokenLists, NEW l \in 1..3, NEW i \in DOMAIN ts,
         NEW x \in Trees,
         NEW F \in [Calls(ts) -> Results(ts)], NEW f, Known(f, F, ts, l, i)
  PROVE  /\ ParseRest(f, ts, l, x, i) = ParseRest(F, ts, l, x, i)
         /\ ParseRest(F, ts, l, x, i).ok => ParseRest(F, ts, l, x, i).at >= i
<1> DEFINE tok == ts[i].tok
           from == IF tok = "WORD" THEN i ELSE i + 1
           second == F[Begin(l + 1, from)]
           pair == OpNode(Operators[l], <<x, second.node>>)
           then == GoOn(l, pair, second.at)
<1>1. l + 1 \in 1..4 /\ l + 1 > l /\ l \in 1..4 /\ i \in Nat
  BY TokenParts
<1>2. CASE ~GoesOn(l, tok)
  BY <1>1, <1>2 DEF ParseRest, Parsed
<1>3. CASE GoesOn(l, tok)
  <2>1. from \in DOMAIN ts /\ (from > i \/ (from = i /\ l + 1 > l))
        /\ from >= i /\ from \in Nat
    BY <1>1, <1>3, GoingOn, TokenParts
  <2> HIDE DEF from
  <2>2. second \in Results(ts) /\ second.node \in Trees /\ second.at \in DOMAIN ts
    BY <1>1, <2>1, CallParts, Returned
  <2>3. f[Begin(l + 1, from)] = second /\ (second.ok => second.at > from)
    BY <1>1, <2>1, KnownBegin
  <2> HIDE DEF second
  <2>4. pair \in Trees
    BY <2>2, NewPair
  <2> HIDE DEF pair
  <2>5. second.at \in Nat /\ (second.ok => second.at > i)
    BY <1>1, <2>1, <2>2, <2>3, TokenParts
  <2>6. ASSUME second.ok
        PROVE  f[then] = F[then] /\ (F[then].ok => F[then].at >= second.at)
    BY <1>1, <2>2, <2>4, <2>5, <2>6, KnownGoOn
  <2>7. F[then].at \in Nat
    BY <1>1, <2>2, <2>4, CallParts, Returned, TokenParts
  <2> HIDE DEF then
  <2>8. /\ ParseRest(f, ts, l, x, i) = IF second.ok THEN f[then] ELSE second
        /\ ParseRest(F, ts, l, x, i) = IF second.ok THEN F[then] ELSE second
    BY <1>3, <2>3 DEF ParseRest, from, second, pair, then
  <2> QED
    BY <1>1, <2>5, <2>6, <2>7, <2>8
<1> QED
  BY <1>2, <1>3

LEMMA BaseAhead ==
  ASSUME AnyHeight, NEW ts \in TokenLists, NEW l \in 1..4, NEW i \in DOMAIN ts,
         NEW F \in [Calls(ts) -> Results(ts)], NEW f, Known(f, F, ts, l, i)
  PROVE  /\ ParseBase(f, ts, i) = ParseBase(F, ts, i)
         /\ ParseBase(F, ts, i).ok => ParseBase(F, ts, i).at > i
<1> DEFINE tok == ts[i].tok
           inner == F[Begin(1, i + 1)]
           operand == F[Begin(4, i + 1)]
<1>1. i \in Nat /\ 1 \in 1..4 /\ 4 \in 1..4
  BY TokenParts
<1>2. CASE tok \in {"(", "WITHOUT", "NOT"}
  <2>1. i + 1 \in DOMAIN ts /\ i + 1 > i
    BY <1>1, <1>2, TokenParts
  <2>2. /\ f[Begin(1, i + 1)] = inner /\ (inner.ok => inner.at > i + 1)
        /\ f[Begin(4, i + 1)] = operand /\ (operand.ok => operand.at > i + 1)
    BY <1>1, <2>1, KnownBegin
  <2>3. inner.at \in Nat /\ operand.at \in Nat
    BY <1>1, <2>1, CallParts, Returned, TokenParts, ZenonT(40)
  <2> HIDE DEF inner, operand
  <2> DEFINE result == IF tok = "("
                       THEN IF inner.ok /\ ts[inner.at].tok = ")"
                            THEN Parsed(inner.node, inner.at + 1) ELSE Rejected
                       ELSE IF operand.ok
                       THEN Parsed(OpNode("NOT", <<operand.node>>), operand.at)
                       ELSE Rejected
  <2>4. ParseBase(f, ts, i) = result /\ ParseBase(F, ts, i) = result
    BY <1>2, <2>2 DEF ParseBase, inner, operand
  <2>5. result.ok => result.at > i
    BY <1>1, <2>2, <2>3 DEF Parsed, Rejected
  <2> QED
    BY <2>4, <2>5
<1>3. CASE tok = "WORD"
  BY <1>1, <1>3 DEF ParseBase, Parsed
<1>4. CASE tok \notin {"(", "WORD", "WITHOUT", "NOT"}
  BY <1>4 DEF ParseBase, Rejected
<1> QED
  BY <1>2, <1>3, <1>4

LEMMA CalledAhead ==
  ASSUME AnyHeight, NEW ts \in TokenLists, NEW c \in Calls(ts),
         NEW F \in [Calls(ts) -> Results(ts)], NEW f,
         \A d \in Calls(ts) : Rank(ts)[d] < Rank(ts)[c] =>
                                f[d] = F[d] /\ Ahead(F[d], d)
  PROVE  Called(f, ts, c) = Called(F, ts, c) /\ Ahead(Called(F, ts, c), c)
<1>1. /\ c.level \in 1..4 /\ c.at \in DOMAIN ts /\ c.result \in Seq(Trees)
  BY DEF Calls
<1>2. Known(f, F, ts, c.level, c.at)
  BY RankTypes DEF Known
<1>3. c.at \in Nat
  BY <1>1, TokenParts
<1>4. CASE c.level = 4
  <2>1. Called(f, ts, c) = ParseBase(f, ts, c.at)
        /\ Called(F, ts, c) = ParseBase(F, ts, c.at)
    BY <1>4, Levels DEF Called
  <2>2. ParseBase(F, ts, c.at).ok => ParseBase(F, ts, c.at).at \in Nat
    BY <1>1, BaseTypes, Returned, TokenParts
  <2>3. \A a, b \in Nat : a > b => a >= b
    OBVIOUS
  <2> QED
    BY <1>1, <1>2, <1>3, <2>1, <2>2, <2>3, BaseAhead DEF Ahead
<1>5. CASE c.level # 4 /\ c.result = <<>>
  <2>1. c.level \in 1..3 /\ ~(c.level > 3)
    BY <1>1, <1>5
  <2>2. Called(f, ts, c) = ParseExpr(f, c.level, c.at)
        /\ Called(F, ts, c) = ParseExpr(F, c.level, c.at)
    BY <1>5, <2>1, Levels DEF Called
  <2>3. ParseExpr(F, c.level, c.at).ok => ParseExpr(F, c.level, c.at).at \in Nat
    BY <1>1, <2>1, ExprTypes, Returned, TokenParts
  <2>4. \A a, b \in Nat : a > b => a >= b
    OBVIOUS
  <2> QED
    BY <1>1, <1>2, <1>3, <2>1, <2>2, <2>3, <2>4, ExprAhead DEF Ahead
<1>6. CASE c.level # 4 /\ c.result # <<>>
  <2>1. c.level \in 1..3 /\ ~(c.level > 3) /\ Head(c.result) \in Trees
    BY <1>1, <1>6
  <2>2. Called(f, ts, c) = ParseRest(f, ts, c.level, Head(c.result), c.at)
        /\ Called(F, ts, c) = ParseRest(F, ts, c.level, Head(c.result), c.at)
    BY <1>6, <2>1, Levels DEF Called
  <2> QED
    BY <1>1, <1>2, <1>3, <1>6, <2>1, <2>2, RestAhead DEF Ahead
<1> QED
  BY <1>4, <1>5, <1>6

(* The parser is the function that its calls describe.                     *)
LEMMA ParsingGiven ==
  ASSUME AnyHeight, NEW ts \in TokenLists
  PROVE  /\ Parsing(ts) \in [Calls(ts) -> Results(ts)]
         /\ \A c \in Calls(ts) : /\ Parsing(ts)[c] = Called(Parsing(ts), ts, c)
                                 /\ Ahead(Parsing(ts)[c], c)
<1> DEFINE C == Calls(ts)
           S == Results(ts)
           m == Rank(ts)
           G == [c \in C |-> [f \in [C -> S] |-> Called(f, ts, c)]]
<1>1. m \in [C -> Nat] /\ Rejected \in S
  BY RankTypes, Returned
<1>2. G \in [C -> [[C -> S] -> S]]
  BY CalledTypes
<1> HIDE DEF C, S, m, G
<1>3. PICK F : Recursive(F, C, S, m, G, Rejected)
  BY <1>1, <1>2, MeasuredRecursion, Zenon
<1>4. F \in [C -> S]
  BY <1>3 DEF Recursive
<1>5. ASSUME NEW c \in C PROVE F[c] = Called(Smaller(F, C, m, c, Rejected), ts, c)
  <2>1. Smaller(F, C, m, c, Rejected) \in [C -> S]
    BY <1>1, <1>4 DEF Smaller
  <2> QED
    BY <1>3, <2>1 DEF Recursive, G
<1> DEFINE Good == {c \in C : F[c] = Called(F, ts, c) /\ Ahead(F[c], c)}
<1>6. ASSUME NEW c \in C, \A d \in C : m[d] < m[c] => d \in Good
      PROVE  c \in Good
  <2> DEFINE f == Smaller(F, C, m, c, Rejected)
  <2>1. \A d \in C : m[d] < m[c] => f[d] = F[d] /\ Ahead(F[d], d)
    BY <1>6 DEF Smaller
  <2> HIDE DEF f
  <2>2. Called(f, ts, c) = Called(F, ts, c) /\ Ahead(Called(F, ts, c), c)
    BY <1>4, <2>1, CalledAhead DEF C, S, m
  <2> QED
    BY <1>5, <2>2 DEF f
<1> HIDE DEF Good
<1>7. \A c \in C : c \in Good
  BY <1>1, <1>6, MeasureInduction, Zenon
<1>8. \A c \in C : F[c] = Called(F, ts, c) /\ Ahead(F[c], c)
  BY <1>7 DEF Good
<1>9. F = [c \in Calls(ts) |-> Called(F, ts, c)]
  BY <1>4, <1>8 DEF C
<1>10. Parsing(ts) = [c \in Calls(ts) |-> Called(Parsing(ts), ts, c)]
  BY <1>9, ZenonT(40) DEF Parsing, Called
<1> DEFINE P == Parsing(ts)
           Equal == {c \in C : P[c] = F[c]}
<1> HIDE DEF P
<1>11. ASSUME NEW c \in C, \A d \in C : m[d] < m[c] => d \in Equal
       PROVE  c \in Equal
  <2>1. \A d \in C : m[d] < m[c] => P[d] = F[d] /\ Ahead(F[d], d)
    BY <1>8, <1>11
  <2>2. Called(P, ts, c) = Called(F, ts, c)
    BY <1>4, <2>1, CalledAhead DEF C, S, m
  <2>3. P[c] = Called(P, ts, c)
    BY <1>10 DEF C, P
  <2> QED
    BY <1>8, <2>2, <2>3
<1> HIDE DEF Equal
<1>12. \A c \in C : c \in Equal
  BY <1>1, <1>11, MeasureInduction, Zenon
<1>13. P = F
  <2>1. P = [c \in C |-> P[c]] /\ F = [c \in C |-> F[c]]
    BY <1>4, <1>10 DEF C, P
  <2>2. \A c \in C : P[c] = F[c]
    BY <1>12 DEF Equal
  <2> QED
    BY <2>1, <2>2
<1> QED
  BY <1>4, <1>8, <1>13 DEF P, C, S

-----------------------------------------------------------------------------
(* The derivations of the grammar.  They are trees on which the optimizer  *)
(* may rely.                                                               *)
WholeTrees == {x \in Trees : Whole[x]}

LEMMA WholePair ==
  ASSUME AnyHeight, NEW l \in 1..3, NEW x \in WholeTrees, NEW y \in WholeTrees
  PROVE  OpNode(Operators[l], <<x, y>>) \in WholeTrees
<1> DEFINE node == OpNode(Operators[l], <<x, y>>)
<1>1. Operators[l] \in {"WITHOUT", "OR", "AND"} /\ <<x, y>> \in Seq(Trees)
  BY Levels DEF WholeTrees
<1>2. node \in Trees /\ node.children = <<x, y>>
  BY <1>1, NewOp
<1>3. ToSet(node.children) = {x, y} /\ node.children # <<>>
  BY <1>2 DEF ToSet
<1> HIDE DEF node
<1>4. Whole[node]
  BY <1>2, <1>3, WholeBySet DEF WholeTrees, IsHollow
<1> QED
  BY <1>2, <1>4 DEF WholeTrees, node

LEMMA WholeNot ==
  ASSUME AnyHeight, NEW x \in WholeTrees
  PROVE  OpNode("NOT", <<x>>) \in WholeTrees
<1> DEFINE node == OpNode("NOT", <<x>>)
<1>1. <<x>> \in Seq(Trees) /\ Len(<<x>>) = 1
  BY DEF WholeTrees
<1>2. node \in Trees /\ node.children = <<x>>
  BY <1>1, NewOp
<1>3. ToSet(node.children) = {x} /\ node.children # <<>>
  <2>1. ToSet(<<x>>) = {x} /\ <<x>> # <<>>
    BY DEF ToSet
  <2> QED
    BY <1>2, <2>1
<1> HIDE DEF node
<1>4. Whole[node]
  BY <1>2, <1>3, WholeBySet DEF WholeTrees, IsHollow
<1> QED
  BY <1>2, <1>4 DEF WholeTrees, node

LEMMA WholeWord ==
  ASSUME AnyHeight, NEW word \in Seq(Characters)
  PROVE  QueryNode(word) \in WholeTrees
<1> DEFINE node == QueryNode(word)
<1>1. node \in Trees
  BY NewWord
<1>2. ToSet(node.children) = {} /\ node.type = "QUERY"
  BY DEF ToSet, QueryNode
<1> HIDE DEF node
<1>3. Whole[node]
  BY <1>1, <1>2, WholeBySet DEF IsHollow
<1> QED
  BY <1>1, <1>3 DEF WholeTrees, node

DerivedAt(trees, ts, s) ==
  IF s.first > s.last THEN {}
  ELSE IF s.level = 4 THEN DerivedBase(trees, ts, s.first, s.last)
  ELSE trees[Span(s.level + 1, s.first, s.last)]
         \cup DerivedSplit(trees, ts, s.level, s.first, s.last)

(* A derivation is made of those of smaller pieces of the tokens, or of    *)
(* the same piece at a later level.                                        *)
Size(a, b, k) == 5 * (IF a <= b THEN b - a + 1 ELSE 0) + (4 - k)

Breadth(ts) == [s \in Spans(ts) |-> Size(s.first, s.last, s.level)]

Inside(a, b, k, i, j, l) ==
  (a > i /\ b <= j) \/ (a = i /\ b < j) \/ (a = i /\ b = j /\ k > l)

LEMMA SizeSmaller ==
  /\ \A a, b \in Nat : \A k \in 1..4 : Size(a, b, k) \in Nat
  /\ \A a, b, i, j \in Nat : \A k, l \in 1..4 :
       i <= j /\ Inside(a, b, k, i, j, l) => Size(a, b, k) < Size(i, j, l)
BY DEF Size, Inside

LEMMA SpanParts ==
  ASSUME NEW ts \in TokenLists
  PROVE  /\ \A k \in 1..4 : \A a \in 1..(Len(ts) + 1) : \A b \in 0..Len(ts) :
              /\ Span(k, a, b) \in Spans(ts)
              /\ Span(k, a, b).level = k
              /\ Span(k, a, b).first = a /\ Span(k, a, b).last = b
         /\ \A s \in Spans(ts) :
              /\ s.level \in 1..4 /\ s.first \in 1..(Len(ts) + 1)
              /\ s.last \in 0..Len(ts) /\ s.first \in Nat /\ s.last \in Nat
              /\ s = Span(s.level, s.first, s.last)
BY TokenParts DEF Span, Spans

LEMMA BreadthTypes ==
  ASSUME NEW ts \in TokenLists
  PROVE  /\ Breadth(ts) \in [Spans(ts) -> Nat]
         /\ \A s, t \in Spans(ts) :
              /\ s.first <= s.last
              /\ Inside(t.first, t.last, t.level, s.first, s.last, s.level)
              => Breadth(ts)[t] < Breadth(ts)[s]
<1>1. \A s \in Spans(ts) :
        /\ s.level \in 1..4 /\ s.first \in Nat /\ s.last \in Nat
        /\ Breadth(ts)[s] = Size(s.first, s.last, s.level)
  BY SpanParts DEF Breadth
<1>2. ASSUME NEW s \in Spans(ts) PROVE Breadth(ts)[s] \in Nat
  <2>1. Size(s.first, s.last, s.level) \in Nat
    BY <1>1, SizeSmaller
  <2> QED
    BY <1>1, <2>1
<1>3. ASSUME NEW s \in Spans(ts), NEW t \in Spans(ts), s.first <= s.last,
             Inside(t.first, t.last, t.level, s.first, s.last, s.level)
      PROVE  Breadth(ts)[t] < Breadth(ts)[s]
  <2>1. Size(t.first, t.last, t.level) < Size(s.first, s.last, s.level)
    BY <1>1, <1>3, SizeSmaller
  <2> QED
    BY <1>1, <2>1
<1> QED
  BY <1>2, <1>3 DEF Breadth

(* The pieces of the tokens from i to j that a derivation may ask for.     *)
LEMMA SpanBase ==
  ASSUME NEW ts \in TokenLists, NEW i \in 1..(Len(ts) + 1), NEW j \in 0..Len(ts),
         i <= j
  PROVE  /\ i + 1 \in 1..(Len(ts) + 1) /\ j - 1 \in 0..Len(ts)
         /\ i \in DOMAIN ts /\ j \in DOMAIN ts /\ i \in Nat /\ j \in Nat
         /\ ~(i > j) /\ 1 \in 1..4 /\ 4 \in 1..4
         /\ Inside(i + 1, j - 1, 1, i, j, 4) /\ Inside(i + 1, j, 4, i, j, 4)
<1>1. PICK n \in Nat : n = Len(ts) /\ DOMAIN ts = 1..n
  BY TokenParts
<1>2. i \in 1..(n + 1) /\ j \in 0..n
  BY <1>1
<1>3. /\ i + 1 \in 1..(n + 1) /\ j - 1 \in 0..n /\ i \in 1..n /\ j \in 1..n
      /\ ~(i > j)
  BY <1>2
<1>4. Inside(i + 1, j - 1, 1, i, j, 4) /\ Inside(i + 1, j, 4, i, j, 4)
  BY <1>2 DEF Inside
<1> QED
  BY <1>1, <1>3, <1>4

LEMMA SpanUp ==
  ASSUME NEW ts \in TokenLists, NEW i \in 1..(Len(ts) + 1), NEW j \in 0..Len(ts),
         i <= j, NEW l \in 1..3
  PROVE  /\ l \in 1..4 /\ l + 1 \in 1..4 /\ l \in 0..4 /\ l < l + 1 /\ l # 4
         /\ Inside(i, j, l + 1, i, j, l)
<1>1. PICK n \in Nat : n = Len(ts)
  BY TokenParts
<1>2. i \in 1..(n + 1) /\ j \in 0..n
  BY <1>1
<1> QED
  BY <1>2 DEF Inside

LEMMA SpanSplit ==
  ASSUME NEW ts \in TokenLists, NEW i \in 1..(Len(ts) + 1), NEW j \in 0..Len(ts),
         NEW l \in 1..3, NEW k \in i..j
  PROVE  /\ k \in DOMAIN ts /\ k - 1 \in 0..Len(ts) /\ (k - 1) + 1 = k
         /\ k \in 1..(Len(ts) + 1) /\ k + 1 \in 1..(Len(ts) + 1)
         /\ Inside(i, k - 1, l, i, j, l)
         /\ Inside(k + 1, j, l + 1, i, j, l) /\ Inside(k, j, l + 1, i, j, l)
<1>1. PICK n \in Nat : n = Len(ts) /\ DOMAIN ts = 1..n
  BY TokenParts
<1>2. i \in 1..(n + 1) /\ j \in 0..n /\ k \in Nat /\ i <= k /\ k <= j
  BY <1>1
<1>3. /\ k \in 1..n /\ k - 1 \in 0..n /\ (k - 1) + 1 = k
      /\ k \in 1..(n + 1) /\ k + 1 \in 1..(n + 1)
  BY <1>2
<1>4. /\ Inside(i, k - 1, l, i, j, l)
      /\ Inside(k + 1, j, l + 1, i, j, l) /\ Inside(k, j, l + 1, i, j, l)
  BY <1>2 DEF Inside
<1> QED
  BY <1>1, <1>3, <1>4

(* Two sets of trees of pieces, the one as the other inside of a piece.    *)
Agree(f, g, ts, l, i, j) ==
  \A k \in 1..4 : \A a \in 1..(Len(ts) + 1) : \A b \in 0..Len(ts) :
    Inside(a, b, k, i, j, l) => f[Span(k, a, b)] = g[Span(k, a, b)]

(* The trees of a split of the tokens from i to j, and its three ways.     *)
Splits(trees, ts, l, i, j, x) ==
  \E k \in i..j :
    \/ /\ ts[k].tok = Operators[l]
       /\ x \in Pairs(Operators[l], trees[Span(l, i, k - 1)],
                      trees[Span(l + 1, k + 1, j)])
    \/ /\ l = 3 /\ ts[k].tok = "WORD"
       /\ x \in Pairs(Operators[l], trees[Span(l, i, k - 1)],
                      trees[Span(l + 1, k, j)])

LEMMA SplitMember ==
  ASSUME NEW trees, NEW ts, NEW l, NEW i, NEW j, NEW x
  PROVE  x \in DerivedSplit(trees, ts, l, i, j) <=> Splits(trees, ts, l, i, j, x)
BY DEF DerivedSplit, Splits

Paired(type, A, B, x, y, z) ==
  y \in A /\ z \in B /\ x = OpNode(type, <<y, z>>)

LEMMA PairParts ==
  \A type, A, B, x :
    x \in Pairs(type, A, B) <=> \E y, z : Paired(type, A, B, x, y, z)
<1>1. ASSUME NEW type, NEW A, NEW B, NEW x \in Pairs(type, A, B)
      PROVE  \E y, z : Paired(type, A, B, x, y, z)
  <2>1. \E y \in A : \E z \in B : x = OpNode(type, <<y, z>>)
    BY <1>1 DEF Pairs
  <2> QED
    BY <2>1 DEF Paired
<1>2. ASSUME NEW type, NEW A, NEW B, NEW x, NEW y, NEW z,
             Paired(type, A, B, x, y, z)
      PROVE  x \in Pairs(type, A, B)
  BY <1>2 DEF Pairs, Paired
<1> QED
  BY <1>1, <1>2

(* The token that splits, where the right part begins, and the two parts.  *)
SplitsAt(trees, ts, l, i, j, x, k, right, y, z) ==
  /\ Paired(Operators[l], trees[Span(l, i, k - 1)],
            trees[Span(l + 1, right, j)], x, y, z)
  /\ \/ right = k + 1 /\ ts[k].tok = Operators[l]
     \/ right = k /\ l = 3 /\ ts[k].tok = "WORD"

LEMMA SplitParts ==
  ASSUME NEW trees, NEW ts, NEW l, NEW i, NEW j, NEW x
  PROVE  Splits(trees, ts, l, i, j, x) <=>
           \E k \in i..j : \E right, y, z :
             SplitsAt(trees, ts, l, i, j, x, k, right, y, z)
<1>1. ASSUME NEW A, NEW B
      PROVE  x \in Pairs(Operators[l], A, B)
               <=> \E y, z : Paired(Operators[l], A, B, x, y, z)
  BY PairParts, Zenon
<1>2. ASSUME NEW k \in i..j,
             NEW right, NEW y, NEW z,
             SplitsAt(trees, ts, l, i, j, x, k, right, y, z)
      PROVE  Splits(trees, ts, l, i, j, x)
  <2>1. x \in Pairs(Operators[l], trees[Span(l, i, k - 1)],
                   trees[Span(l + 1, right, j)])
    BY <1>1, <1>2 DEF SplitsAt
  <2> QED
    BY <1>2, <2>1 DEF SplitsAt, Splits
<1>3. ASSUME Splits(trees, ts, l, i, j, x)
      PROVE  \E k \in i..j : \E right, y, z :
               SplitsAt(trees, ts, l, i, j, x, k, right, y, z)
  <2>1. PICK k \in i..j :
          \E right :
            /\ x \in Pairs(Operators[l], trees[Span(l, i, k - 1)],
                           trees[Span(l + 1, right, j)])
            /\ \/ right = k + 1 /\ ts[k].tok = Operators[l]
               \/ right = k /\ l = 3 /\ ts[k].tok = "WORD"
    BY <1>3 DEF Splits
  <2>2. PICK right :
          /\ x \in Pairs(Operators[l], trees[Span(l, i, k - 1)],
                         trees[Span(l + 1, right, j)])
          /\ \/ right = k + 1 /\ ts[k].tok = Operators[l]
             \/ right = k /\ l = 3 /\ ts[k].tok = "WORD"
    BY <2>1
  <2>3. PICK y, z : Paired(Operators[l], trees[Span(l, i, k - 1)],
                           trees[Span(l + 1, right, j)], x, y, z)
    BY <1>1, <2>2
  <2> QED
    BY <2>2, <2>3 DEF SplitsAt
<1> QED
  BY <1>2, <1>3

LEMMA SameDerived ==
  ASSUME NEW ts \in TokenLists, NEW s \in Spans(ts), NEW f, NEW g,
         \A t \in Spans(ts) : Breadth(ts)[t] < Breadth(ts)[s] => f[t] = g[t]
  PROVE  DerivedAt(f, ts, s) = DerivedAt(g, ts, s)
<1> DEFINE l == s.level
           i == s.first
           j == s.last
<1>1. /\ l \in 1..4 /\ i \in 1..(Len(ts) + 1) /\ j \in 0..Len(ts)
  BY SpanParts
<1>2. CASE i > j
  BY <1>2 DEF DerivedAt
<1>3. CASE ~(i > j)
  <2>1. i <= j
    BY <1>1, <1>3, TokenParts
  <2>2. Agree(f, g, ts, l, i, j)
    <3>1. SUFFICES ASSUME NEW k \in 1..4, NEW a \in 1..(Len(ts) + 1),
                          NEW b \in 0..Len(ts), Inside(a, b, k, i, j, l)
                   PROVE  f[Span(k, a, b)] = g[Span(k, a, b)]
      BY DEF Agree
    <3>2. Span(k, a, b) \in Spans(ts)
          /\ Inside(Span(k, a, b).first, Span(k, a, b).last, Span(k, a, b).level,
                    s.first, s.last, s.level)
      BY <3>1, SpanParts
    <3> QED
      BY <2>1, <3>2, BreadthTypes
  <2> HIDE DEF l, i, j
  <2>3. CASE l = 4
    <3>0. /\ i + 1 \in 1..(Len(ts) + 1) /\ j - 1 \in 0..Len(ts)
          /\ Inside(i + 1, j - 1, 1, i, j, l) /\ Inside(i + 1, j, 4, i, j, l)
          /\ 1 \in 1..4 /\ 4 \in 1..4
      BY <1>1, <2>1, <2>3, SpanBase
    <3>1. f[Span(1, i + 1, j - 1)] = g[Span(1, i + 1, j - 1)]
          /\ f[Span(4, i + 1, j)] = g[Span(4, i + 1, j)]
      BY <1>1, <2>2, <3>0, Zenon DEF Agree
    <3>2. DerivedBase(f, ts, i, j) = DerivedBase(g, ts, i, j)
      BY <3>1 DEF DerivedBase
    <3> QED
      BY <1>3, <2>3, <3>2 DEF DerivedAt, l, i, j
  <2>4. CASE l # 4
    <3>0. l \in 1..3
      BY <1>1, <2>4
    <3>1. f[Span(l + 1, i, j)] = g[Span(l + 1, i, j)]
      BY <1>1, <2>1, <2>2, <3>0, SpanUp DEF Agree
    <3>2. ASSUME NEW k \in i..j
          PROVE  /\ f[Span(l, i, k - 1)] = g[Span(l, i, k - 1)]
                 /\ f[Span(l + 1, k + 1, j)] = g[Span(l + 1, k + 1, j)]
                 /\ f[Span(l + 1, k, j)] = g[Span(l + 1, k, j)]
      <4>1. l \in 1..4 /\ l + 1 \in 1..4
        BY <3>0
      <4>2. /\ k - 1 \in 0..Len(ts) /\ k \in 1..(Len(ts) + 1)
            /\ k + 1 \in 1..(Len(ts) + 1)
            /\ Inside(i, k - 1, l, i, j, l)
            /\ Inside(k + 1, j, l + 1, i, j, l) /\ Inside(k, j, l + 1, i, j, l)
        BY <1>1, <3>0, SpanSplit
      <4> QED
        BY <1>1, <2>2, <4>1, <4>2, ZenonT(30) DEF Agree
    <3>3. \A x : Splits(f, ts, l, i, j, x) <=> Splits(g, ts, l, i, j, x)
      BY <3>2 DEF Splits
    <3>4. \A x : x \in DerivedSplit(f, ts, l, i, j)
                    <=> x \in DerivedSplit(g, ts, l, i, j)
      BY <3>3, SplitMember
    <3>5. DerivedSplit(f, ts, l, i, j) = DerivedSplit(g, ts, l, i, j)
      BY <3>4
    <3> QED
      BY <1>3, <2>4, <3>1, <3>5 DEF DerivedAt, l, i, j
  <2> QED
    BY <2>3, <2>4
<1> QED
  BY <1>2, <1>3

LEMMA DerivedTypes ==
  ASSUME AnyHeight, NEW ts \in TokenLists, NEW s \in Spans(ts),
         NEW f \in [Spans(ts) -> SUBSET WholeTrees]
  PROVE  DerivedAt(f, ts, s) \in SUBSET WholeTrees
<1> DEFINE l == s.level
           i == s.first
           j == s.last
<1>1. /\ l \in 1..4 /\ i \in 1..(Len(ts) + 1) /\ j \in 0..Len(ts)
  BY SpanParts
<1>2. CASE i > j
  BY <1>2 DEF DerivedAt
<1>3. CASE ~(i > j)
  <2>1. i <= j
    BY <1>1, <1>3, TokenParts
  <2>0. \A k \in 1..4 : \A a \in 1..(Len(ts) + 1) : \A b \in 0..Len(ts) :
          f[Span(k, a, b)] \subseteq WholeTrees
    BY SpanParts
  <2> HIDE DEF l, i, j
  <2>2. CASE l = 4
    <3>1. f[Span(1, i + 1, j - 1)] \subseteq WholeTrees
          /\ f[Span(4, i + 1, j)] \subseteq WholeTrees
      BY <1>1, <2>0, <2>1, SpanBase
    <3>2. ts[i].lit \in Seq(Characters)
      BY <1>1, <2>1, SpanBase, TokenParts
    <3>3. QueryNode(ts[i].lit) \in WholeTrees
      BY <3>2, WholeWord
    <3>4. \A n \in f[Span(4, i + 1, j)] : OpNode("NOT", <<n>>) \in WholeTrees
      BY <3>1, WholeNot
    <3>5. DerivedBase(f, ts, i, j) \subseteq WholeTrees
      BY <3>1, <3>3, <3>4 DEF DerivedBase
    <3> QED
      BY <1>3, <2>2, <3>5 DEF DerivedAt, l, i, j
  <2>3. CASE l # 4
    <3>0. l \in 1..3
      BY <1>1, <2>3
    <3>1. f[Span(l + 1, i, j)] \subseteq WholeTrees /\ l \in 1..3
      BY <1>1, <2>0, <2>1, <3>0, SpanUp
    <3>2. ASSUME NEW k \in i..j
          PROVE  /\ f[Span(l, i, k - 1)] \subseteq WholeTrees
                 /\ f[Span(l + 1, k + 1, j)] \subseteq WholeTrees
                 /\ f[Span(l + 1, k, j)] \subseteq WholeTrees
      <4>1. l \in 1..4 /\ l + 1 \in 1..4
        BY <3>0
      <4>2. /\ k - 1 \in 0..Len(ts) /\ k \in 1..(Len(ts) + 1)
            /\ k + 1 \in 1..(Len(ts) + 1)
        BY <1>1, <3>0, SpanSplit
      <4> QED
        BY <1>1, <2>0, <4>1, <4>2
    <3>3. \A A, B \in SUBSET WholeTrees :
            Pairs(Operators[l], A, B) \subseteq WholeTrees
      <4>1. \A x, y \in WholeTrees : OpNode(Operators[l], <<x, y>>) \in WholeTrees
        BY <3>1, WholePair
      <4>2. ASSUME NEW A \in SUBSET WholeTrees, NEW B \in SUBSET WholeTrees,
                   NEW x \in Pairs(Operators[l], A, B)
            PROVE  x \in WholeTrees
        <5>1. PICK y \in A, z \in B : x = OpNode(Operators[l], <<y, z>>)
          BY <4>2 DEF Pairs
        <5> QED
          BY <4>1, <5>1
      <4> QED
        BY <4>2
    <3>4. ASSUME NEW x, Splits(f, ts, l, i, j, x) PROVE x \in WholeTrees
      BY <3>2, <3>3, <3>4 DEF Splits
    <3>5. DerivedSplit(f, ts, l, i, j) \subseteq WholeTrees
      BY <3>4, SplitMember
    <3> QED
      BY <1>3, <2>3, <3>1, <3>5 DEF DerivedAt, l, i, j
  <2> QED
    BY <2>2, <2>3
<1> QED
  BY <1>2, <1>3

(* The derivations are the function that the grammar describes.            *)
LEMMA DerivedGiven ==
  ASSUME AnyHeight, NEW ts \in TokenLists
  PROVE  /\ Derived(ts) \in [Spans(ts) -> SUBSET WholeTrees]
         /\ \A s \in Spans(ts) : Derived(ts)[s] = DerivedAt(Derived(ts), ts, s)
<1> DEFINE C == Spans(ts)
           S == SUBSET WholeTrees
           m == Breadth(ts)
           G == [s \in C |-> [f \in [C -> S] |-> DerivedAt(f, ts, s)]]
<1>1. m \in [C -> Nat] /\ {} \in S
  BY BreadthTypes
<1>2. G \in [C -> [[C -> S] -> S]]
  BY DerivedTypes
<1> HIDE DEF C, S, m, G
<1>3. PICK F : Recursive(F, C, S, m, G, {})
  BY <1>1, <1>2, MeasuredRecursion, Zenon
<1>4. F \in [C -> S]
  BY <1>3 DEF Recursive
<1>5. ASSUME NEW s \in C PROVE F[s] = DerivedAt(F, ts, s)
  <2> DEFINE f == Smaller(F, C, m, s, {})
  <2>1. f \in [C -> S]
    BY <1>1, <1>4 DEF Smaller
  <2>2. F[s] = DerivedAt(f, ts, s)
    BY <1>3, <2>1 DEF Recursive, G
  <2>3. \A t \in C : m[t] < m[s] => f[t] = F[t]
    BY DEF Smaller
  <2> HIDE DEF f
  <2>4. DerivedAt(f, ts, s) = DerivedAt(F, ts, s)
    BY <2>3, SameDerived DEF C, m
  <2> QED
    BY <2>2, <2>4
<1>6. F = [s \in Spans(ts) |-> DerivedAt(F, ts, s)]
  BY <1>4, <1>5 DEF C
<1>7. Derived(ts) = [s \in Spans(ts) |-> DerivedAt(Derived(ts), ts, s)]
  BY <1>6, ZenonT(40) DEF Derived, DerivedAt
<1> DEFINE D == Derived(ts)
           Equal == {s \in C : D[s] = F[s]}
<1> HIDE DEF D
<1>8. ASSUME NEW s \in C, \A t \in C : m[t] < m[s] => t \in Equal
      PROVE  s \in Equal
  <2>1. \A t \in C : m[t] < m[s] => D[t] = F[t]
    BY <1>8
  <2>2. DerivedAt(D, ts, s) = DerivedAt(F, ts, s)
    BY <2>1, SameDerived DEF C, m
  <2>3. D[s] = DerivedAt(D, ts, s)
    BY <1>7 DEF C, D
  <2> QED
    BY <1>5, <2>2, <2>3
<1> HIDE DEF Equal
<1>9. \A s \in C : s \in Equal
  BY <1>1, <1>8, MeasureInduction, ZenonT(40)
<1>10. D = F
  <2>1. D = [s \in C |-> D[s]] /\ F = [s \in C |-> F[s]]
    BY <1>4, <1>7 DEF C, D
  <2>2. \A s \in C : D[s] = F[s]
    BY <1>9 DEF Equal
  <2> QED
    BY <2>1, <2>2
<1> QED
  BY <1>4, <1>5, <1>10 DEF D, C, S

-----------------------------------------------------------------------------
(* What each function of the parser does, call by call. *)
LEMMA ExprGives ==
  ASSUME AnyHeight, NEW ts \in TokenLists, NEW l \in 1..3, NEW i \in DOMAIN ts
  PROVE  /\ Parsing(ts)[Begin(l, i)] = ParseExpr(Parsing(ts), l, i)
         /\ Parsing(ts)[Begin(l, i)] \in Results(ts)
         /\ Parsing(ts)[Begin(l, i)].ok => Parsing(ts)[Begin(l, i)].at > i
<1>1. l \in 1..4 /\ ~(l > 3)
  OBVIOUS
<1>2. /\ Begin(l, i) \in Calls(ts) /\ Begin(l, i).level = l
      /\ Begin(l, i).at = i /\ Begin(l, i).result = <<>>
  BY <1>1, CallParts
<1> QED
  BY <1>1, <1>2, ParsingGiven, Levels DEF Called, Ahead

LEMMA RestGives ==
  ASSUME AnyHeight, NEW ts \in TokenLists, NEW l \in 1..3, NEW i \in DOMAIN ts,
         NEW x \in Trees
  PROVE  /\ Parsing(ts)[GoOn(l, x, i)] = ParseRest(Parsing(ts), ts, l, x, i)
         /\ Parsing(ts)[GoOn(l, x, i)] \in Results(ts)
         /\ Parsing(ts)[GoOn(l, x, i)].ok => Parsing(ts)[GoOn(l, x, i)].at >= i
<1>1. l \in 1..4 /\ ~(l > 3)
  OBVIOUS
<1>2. /\ GoOn(l, x, i) \in Calls(ts) /\ GoOn(l, x, i).level = l
      /\ GoOn(l, x, i).at = i /\ GoOn(l, x, i).result # <<>>
      /\ Head(GoOn(l, x, i).result) = x
  BY <1>1, CallParts
<1> QED
  BY <1>1, <1>2, ParsingGiven, Levels DEF Called, Ahead

LEMMA BaseGives ==
  ASSUME AnyHeight, NEW ts \in TokenLists, NEW i \in DOMAIN ts
  PROVE  /\ Parsing(ts)[Begin(4, i)] = ParseBase(Parsing(ts), ts, i)
         /\ Parsing(ts)[Begin(4, i)] \in Results(ts)
         /\ Parsing(ts)[Begin(4, i)].ok => Parsing(ts)[Begin(4, i)].at > i
<1>1. 4 \in 1..4 /\ 4 > 3
  OBVIOUS
<1>2. /\ Begin(4, i) \in Calls(ts) /\ Begin(4, i).level = 4
      /\ Begin(4, i).at = i /\ Begin(4, i).result = <<>>
  BY <1>1, CallParts
<1> QED
  BY <1>1, <1>2, ParsingGiven, Levels DEF Called, Ahead

LEMMA BeginAhead ==
  ASSUME AnyHeight, NEW ts \in TokenLists, NEW l \in 1..4, NEW i \in DOMAIN ts
  PROVE  /\ Parsing(ts)[Begin(l, i)].ok \in BOOLEAN
         /\ Parsing(ts)[Begin(l, i)].node \in Trees
         /\ Parsing(ts)[Begin(l, i)].at \in DOMAIN ts
         /\ Parsing(ts)[Begin(l, i)].at \in Nat
         /\ Parsing(ts)[Begin(l, i)].ok => Parsing(ts)[Begin(l, i)].at > i
<1>1. l \in 1..3 \/ l = 4
  OBVIOUS
<1> QED
  BY <1>1, ExprGives, BaseGives, Returned, TokenParts

(* The trees of a piece of the tokens. *)
Within(ts, i, j) == i \in 1..Len(ts) /\ j \in i..Len(ts)

LEMMA DerivedSpan ==
  ASSUME AnyHeight, NEW ts \in TokenLists, NEW l \in 1..4,
         NEW i \in 1..(Len(ts) + 1), NEW j \in 0..Len(ts)
  PROVE  /\ Derived(ts)[Span(l, i, j)] \subseteq WholeTrees
         /\ i > j => Derived(ts)[Span(l, i, j)] = {}
         /\ ~(i > j) /\ l = 4 =>
              Derived(ts)[Span(l, i, j)] = DerivedBase(Derived(ts), ts, i, j)
         /\ ~(i > j) /\ l # 4 =>
              Derived(ts)[Span(l, i, j)]
                = Derived(ts)[Span(l + 1, i, j)]
                    \cup DerivedSplit(Derived(ts), ts, l, i, j)
<1>1. /\ Span(l, i, j) \in Spans(ts) /\ Span(l, i, j).level = l
      /\ Span(l, i, j).first = i /\ Span(l, i, j).last = j
  BY SpanParts
<1>2. Derived(ts)[Span(l, i, j)] \subseteq WholeTrees
  BY <1>1, DerivedGiven
<1>3. Derived(ts)[Span(l, i, j)] = DerivedAt(Derived(ts), ts, Span(l, i, j))
  BY <1>1, DerivedGiven
<1> QED
  BY <1>1, <1>2, <1>3 DEF DerivedAt

(* How far the loops on the levels from l + 1 on can get: to the token i.  *)
Stops(ts, l, i) == \A k \in 1..3 : k > l => ~GoesOn(k, ts[i].tok)

LEMMA StoppingTokens ==
  ASSUME NEW ts \in TokenLists, NEW i \in DOMAIN ts
  PROVE  /\ ts[i].tok \in {"EOF", ")"} => \A l \in 0..4 : Stops(ts, l, i)
         /\ \A l \in 1..3 : ts[i].tok = Operators[l] =>
              Stops(ts, l, i) /\ GoesOn(l, ts[i].tok) /\ ts[i].tok # "WORD"
         /\ ts[i].tok = "WORD" => Stops(ts, 3, i) /\ GoesOn(3, ts[i].tok)
<1>1. ASSUME ts[i].tok \in {"EOF", ")"}, NEW l \in 0..4 PROVE Stops(ts, l, i)
  BY <1>1, Levels DEF Stops, GoesOn
<1>2. ASSUME NEW l \in 1..3, ts[i].tok = Operators[l]
      PROVE  Stops(ts, l, i) /\ GoesOn(l, ts[i].tok) /\ ts[i].tok # "WORD"
  <2>1. l = 1 \/ l = 2 \/ l = 3
    OBVIOUS
  <2> QED
    BY <1>2, <2>1, Levels DEF Stops, GoesOn
<1>3. ASSUME ts[i].tok = "WORD" PROVE Stops(ts, 3, i) /\ GoesOn(3, ts[i].tok)
  BY <1>3 DEF Stops, GoesOn
<1> QED
  BY <1>1, <1>2, <1>3

(* The parser comes, from the token i on, to the tree x that ends at j: it *)
(* is the result so far in the loop of the level.                          *)
Reads(ts, l, i, j, x) ==
  IF l = 4 THEN Parsing(ts)[Begin(4, i)] = Parsed(x, j + 1)
  ELSE Parsing(ts)[Begin(l, i)] = Parsing(ts)[GoOn(l, x, j + 1)]

LEMMA AllRead ==
  ASSUME AnyHeight, NEW ts \in TokenLists, NEW l \in 1..4, NEW i, NEW j,
         j + 1 \in DOMAIN ts, NEW x \in Trees, Reads(ts, l, i, j, x),
         NEW k \in 0..4, k < l, Stops(ts, k, j + 1)
  PROVE  Parsing(ts)[Begin(l, i)] = Parsed(x, j + 1)
<1>1. CASE l = 4
  BY <1>1 DEF Reads
<1>2. CASE l # 4
  <2>1. l \in 1..3 /\ l > k
    BY <1>2
  <2>2. ~GoesOn(l, ts[j + 1].tok)
    BY <2>1 DEF Stops
  <2>3. Parsing(ts)[GoOn(l, x, j + 1)]
          = ParseRest(Parsing(ts), ts, l, x, j + 1)
    BY <2>1, RestGives
  <2>4. ParseRest(Parsing(ts), ts, l, x, j + 1) = Parsed(x, j + 1)
    BY <2>2 DEF ParseRest
  <2> QED
    BY <1>2, <2>3, <2>4 DEF Reads
<1> QED
  BY <1>1, <1>2

(* One more round of the loop of a level. *)
LEMMA OneMoreRound ==
  ASSUME AnyHeight, NEW ts \in TokenLists, NEW l \in 1..3, NEW x \in Trees,
         NEW y \in Trees, NEW k \in DOMAIN ts, NEW right, NEW next, NEW at,
         next = l + 1, GoesOn(l, ts[k].tok),
         right = IF ts[k].tok = "WORD" THEN k ELSE k + 1,
         Parsing(ts)[Begin(next, right)] = Parsed(y, at)
  PROVE  Parsing(ts)[GoOn(l, x, k)]
           = Parsing(ts)[GoOn(l, OpNode(Operators[l], <<x, y>>), at)]
<1>1. Parsing(ts)[GoOn(l, x, k)] = ParseRest(Parsing(ts), ts, l, x, k)
  BY RestGives
<1> DEFINE second == Parsing(ts)[Begin(next, right)]
<1>2. second.ok /\ second.node = y /\ second.at = at
  BY DEF Parsed
<1>3. ParseRest(Parsing(ts), ts, l, x, k)
        = IF second.ok
          THEN Parsing(ts)[GoOn(l, OpNode(Operators[l], <<x, second.node>>),
                                second.at)]
          ELSE second
  BY DEF ParseRest
<1> HIDE DEF second
<1> QED
  BY <1>1, <1>2, <1>3

-----------------------------------------------------------------------------
(* Every derivation is found: the parser comes to the tree of any piece    *)
(* behind which the loops of the later levels stop.                        *)
FindsAll(ts, l, i, j) ==
  j + 1 \in DOMAIN ts /\ Stops(ts, l, j + 1)
    => \A x \in Derived(ts)[Span(l, i, j)] : Reads(ts, l, i, j, x)

FindsInside(ts, l, i, j) ==
  \A k \in 1..4 : \A a \in 1..(Len(ts) + 1) : \A b \in 0..Len(ts) :
    Inside(a, b, k, i, j, l) => FindsAll(ts, k, a, b)

LEMMA FindsBase ==
  ASSUME AnyHeight, NEW ts \in TokenLists, NEW i \in 1..(Len(ts) + 1),
         NEW j \in 0..Len(ts), i <= j, FindsInside(ts, 4, i, j)
  PROVE  FindsAll(ts, 4, i, j)
<1> DEFINE P == Parsing(ts)
           D == Derived(ts)
<1>1. SUFFICES ASSUME j + 1 \in DOMAIN ts, Stops(ts, 4, j + 1),
                      NEW x \in D[Span(4, i, j)]
               PROVE  P[Begin(4, i)] = Parsed(x, j + 1)
  BY DEF FindsAll, Reads
<1>2. /\ i + 1 \in 1..(Len(ts) + 1) /\ j - 1 \in 0..Len(ts)
      /\ i \in DOMAIN ts /\ j \in DOMAIN ts /\ i \in Nat /\ j \in Nat
      /\ Inside(i + 1, j - 1, 1, i, j, 4) /\ Inside(i + 1, j, 4, i, j, 4)
  BY SpanBase
<1>3. P[Begin(4, i)] = ParseBase(P, ts, i)
  BY <1>2, BaseGives
<1>4. x \in DerivedBase(D, ts, i, j)
  BY <1>1, <1>2, DerivedSpan
<1>5. \/ i = j /\ ts[i].tok = "WORD" /\ x = QueryNode(ts[i].lit)
      \/ ts[i].tok = "(" /\ ts[j].tok = ")" /\ x \in D[Span(1, i + 1, j - 1)]
      \/ /\ ts[i].tok \in {"WITHOUT", "NOT"}
         /\ \E n \in D[Span(4, i + 1, j)] : x = OpNode("NOT", <<n>>)
  BY <1>4 DEF DerivedBase
<1>6. CASE i = j /\ ts[i].tok = "WORD" /\ x = QueryNode(ts[i].lit)
  BY <1>3, <1>6 DEF ParseBase
<1>7. CASE ts[i].tok = "(" /\ ts[j].tok = ")" /\ x \in D[Span(1, i + 1, j - 1)]
  <2>0. (j - 1) + 1 = j
    BY <1>2
  <2>1. i + 1 \in DOMAIN ts
    BY <1>2, <1>7, TokenParts
  <2>2. 1 \in 1..4 /\ 0 \in 0..4 /\ 0 < 1 /\ 1 \in 0..4
    OBVIOUS
  <2>3. Stops(ts, 1, j) /\ Stops(ts, 0, j)
    BY <1>2, <1>7, <2>2, StoppingTokens
  <2>4. FindsAll(ts, 1, i + 1, j - 1)
    BY <1>2, <2>2, Zenon DEF FindsInside
  <2>5. Reads(ts, 1, i + 1, j - 1, x)
    BY <1>2, <1>7, <2>0, <2>3, <2>4 DEF FindsAll
  <2>6. x \in Trees
    BY <1>2, <1>7, <2>2, DerivedSpan DEF WholeTrees
  <2>7. P[Begin(1, i + 1)] = Parsed(x, j)
    BY <1>2, <2>0, <2>2, <2>3, <2>5, <2>6, AllRead
  <2> QED
    BY <1>3, <1>7, <2>7 DEF ParseBase, Parsed
<1>8. CASE /\ ts[i].tok \in {"WITHOUT", "NOT"}
           /\ \E n \in D[Span(4, i + 1, j)] : x = OpNode("NOT", <<n>>)
  <2>1. PICK n \in D[Span(4, i + 1, j)] : x = OpNode("NOT", <<n>>)
    BY <1>8
  <2>0. 4 \in 1..4
    OBVIOUS
  <2>2. FindsAll(ts, 4, i + 1, j)
    BY <1>2, <2>0, Zenon DEF FindsInside
  <2>3. P[Begin(4, i + 1)] = Parsed(n, j + 1)
    BY <1>1, <2>2 DEF FindsAll, Reads
  <2>4. ParseBase(P, ts, i)
          = IF P[Begin(4, i + 1)].ok
            THEN Parsed(OpNode("NOT", <<P[Begin(4, i + 1)].node>>),
                        P[Begin(4, i + 1)].at)
            ELSE Rejected
    BY <1>8 DEF ParseBase
  <2> QED
    BY <1>3, <2>1, <2>3, <2>4 DEF Parsed
<1> QED
  BY <1>5, <1>6, <1>7, <1>8

LEMMA FindsLevel ==
  ASSUME AnyHeight, NEW ts \in TokenLists, NEW l \in 1..3,
         NEW i \in 1..(Len(ts) + 1), NEW j \in 0..Len(ts), i <= j,
         FindsInside(ts, l, i, j)
  PROVE  FindsAll(ts, l, i, j)
<1> DEFINE P == Parsing(ts)
           D == Derived(ts)
<1>1. SUFFICES ASSUME j + 1 \in DOMAIN ts, Stops(ts, l, j + 1),
                      NEW x \in D[Span(l, i, j)]
               PROVE  P[Begin(l, i)] = P[GoOn(l, x, j + 1)]
  BY DEF FindsAll, Reads
<1>2. /\ l \in 1..4 /\ l + 1 \in 1..4 /\ l \in 0..4 /\ l < l + 1 /\ l # 4
      /\ i \in DOMAIN ts /\ j \in DOMAIN ts /\ i \in Nat /\ j \in Nat
      /\ Inside(i, j, l + 1, i, j, l) /\ ~(i > j)
  BY SpanBase, SpanUp
<1>3. x \in D[Span(l + 1, i, j)] \/ Splits(D, ts, l, i, j, x)
  BY <1>1, <1>2, DerivedSpan, SplitMember
<1>4. Stops(ts, l + 1, j + 1)
  BY <1>1, <1>2 DEF Stops
<1>5. CASE x \in D[Span(l + 1, i, j)]
  <2>1. Reads(ts, l + 1, i, j, x)
    BY <1>1, <1>2, <1>4, <1>5 DEF FindsInside, FindsAll
  <2>2. x \in Trees
    BY <1>2, <1>5, DerivedSpan DEF WholeTrees
  <2>3. P[Begin(l + 1, i)] = Parsed(x, j + 1)
    BY <1>1, <1>2, <2>1, <2>2, AllRead
  <2>4. P[Begin(l, i)] = ParseExpr(P, l, i)
    BY <1>2, ExprGives
  <2> QED
    BY <2>3, <2>4 DEF ParseExpr, Parsed
<1>6. CASE Splits(D, ts, l, i, j, x)
  <2>1. PICK k \in i..j : \E right, y, z :
          SplitsAt(D, ts, l, i, j, x, k, right, y, z)
    BY <1>6, SplitParts
  <2>2. PICK right, y, z : SplitsAt(D, ts, l, i, j, x, k, right, y, z)
    BY <2>1
  <2>0. k \in DOMAIN ts /\ k - 1 \in 0..Len(ts) /\ (k - 1) + 1 = k
    BY <1>2, SpanSplit
  <2>3. Inside(i, k - 1, l, i, j, l) /\ Inside(right, j, l + 1, i, j, l)
    <3>1. /\ Inside(i, k - 1, l, i, j, l)
          /\ Inside(k + 1, j, l + 1, i, j, l) /\ Inside(k, j, l + 1, i, j, l)
      BY <1>2, SpanSplit
    <3>2. right = k \/ right = k + 1
      BY <2>2 DEF SplitsAt
    <3> QED
      BY <3>1, <3>2
  <2>4. /\ y \in D[Span(l, i, k - 1)] /\ z \in D[Span(l + 1, right, j)]
        /\ x = OpNode(Operators[l], <<y, z>>)
    BY <2>2 DEF SplitsAt, Paired
  <2>5. GoesOn(l, ts[k].tok) /\ Stops(ts, l, k)
        /\ right = IF ts[k].tok = "WORD" THEN k ELSE k + 1
    BY <2>0, <2>2, StoppingTokens DEF SplitsAt
  <2>6. right \in 1..(Len(ts) + 1)
    <3>1. k \in 1..(Len(ts) + 1) /\ k + 1 \in 1..(Len(ts) + 1)
      BY <1>2, SpanSplit
    <3> QED
      BY <2>5, <3>1
  <2>7. y \in Trees /\ z \in Trees
    BY <1>2, <2>0, <2>4, <2>6, DerivedSpan DEF WholeTrees
  <2>8. P[Begin(l, i)] = P[GoOn(l, y, k)]
    BY <1>2, <2>0, <2>3, <2>4, <2>5, SMTT(20) DEF FindsInside, FindsAll, Reads
  <2>9. Reads(ts, l + 1, right, j, z)
    BY <1>1, <1>2, <1>4, <2>3, <2>4, <2>6 DEF FindsInside, FindsAll
  <2>10. P[Begin(l + 1, right)] = Parsed(z, j + 1)
    BY <1>1, <1>2, <2>7, <2>9, AllRead
  <2>11. P[GoOn(l, y, k)] = P[GoOn(l, OpNode(Operators[l], <<y, z>>), j + 1)]
    <3> DEFINE next == l + 1
               at == j + 1
    <3>1. next = l + 1 /\ P[Begin(next, right)] = Parsed(z, at)
      BY <2>10
    <3> HIDE DEF next, at, P
    <3>2. P[GoOn(l, y, k)] = P[GoOn(l, OpNode(Operators[l], <<y, z>>), at)]
      BY <2>0, <2>5, <2>7, <3>1, OneMoreRound, SMTT(30) DEF P
    <3> QED
      BY <3>2 DEF at
  <2> QED
    BY <2>4, <2>8, <2>11
<1> QED
  BY <1>3, <1>5, <1>6

LEMMA DerivationsFound ==
  ASSUME AnyHeight, NEW ts \in TokenLists, NEW l \in 1..4,
         NEW i \in 1..(Len(ts) + 1), NEW j \in 0..Len(ts)
  PROVE  FindsAll(ts, l, i, j)
<1> DEFINE C == Spans(ts)
           m == Breadth(ts)
           Good == {s \in C : FindsAll(ts, s.level, s.first, s.last)}
<1>1. ASSUME NEW s \in C, \A t \in C : m[t] < m[s] => t \in Good
      PROVE  s \in Good
  <2>1. /\ s.level \in 1..4 /\ s.first \in 1..(Len(ts) + 1)
        /\ s.last \in 0..Len(ts) /\ s = Span(s.level, s.first, s.last)
        /\ s.first \in Nat /\ s.last \in Nat
    BY SpanParts
  <2>2. CASE s.first > s.last
    <3>1. Derived(ts)[Span(s.level, s.first, s.last)] = {}
      BY <2>1, <2>2, DerivedSpan
    <3> QED
      BY <3>1 DEF FindsAll
  <2>3. CASE s.first <= s.last
    <3>1. ASSUME NEW k \in 1..4, NEW a \in 1..(Len(ts) + 1),
                 NEW b \in 0..Len(ts),
                 Inside(a, b, k, s.first, s.last, s.level)
          PROVE  FindsAll(ts, k, a, b)
      <4>1. Span(k, a, b) \in C /\ Span(k, a, b).level = k
            /\ Span(k, a, b).first = a /\ Span(k, a, b).last = b
        BY SpanParts
      <4>2. Span(k, a, b) \in Good
        BY <1>1, <2>3, <3>1, <4>1, BreadthTypes
      <4> QED
        BY <4>1, <4>2
    <3>2. FindsInside(ts, s.level, s.first, s.last)
      BY <3>1 DEF FindsInside
    <3>3. s.level = 4 \/ s.level \in 1..3
      BY <2>1
    <3> QED
      BY <2>1, <2>3, <3>2, <3>3, FindsBase, FindsLevel
  <2> QED
    BY <2>1, <2>2, <2>3
<1>2. m \in [C -> Nat]
  BY BreadthTypes
<1>3. Span(l, i, j) \in C /\ Span(l, i, j).level = l
      /\ Span(l, i, j).first = i /\ Span(l, i, j).last = j
  BY SpanParts
<1> HIDE DEF C, m, Good
<1>4. \A s \in C : s \in Good
  BY <1>1, <1>2, MeasureInduction, Zenon
<1> QED
  BY <1>3, <1>4 DEF Good

-----------------------------------------------------------------------------
(* Nothing else is found: what a call returns is a derivation of the       *)
(* tokens that it has consumed.  Made is the set of trees of the tokens    *)
(* from i on that end before the token at.                                 *)
Made(ts, l, i, at) == Derived(ts)[Span(l, i, at - 1)]

LEMMA MadeParts ==
  ASSUME AnyHeight, NEW ts \in TokenLists, NEW l \in 1..4,
         NEW i \in DOMAIN ts, NEW at \in DOMAIN ts, i < at
  PROVE  /\ Made(ts, l, i, at) \subseteq Trees
         /\ l = 4 => Made(ts, l, i, at) = DerivedBase(Derived(ts), ts, i, at - 1)
         /\ l # 4 => Made(ts, l, i, at)
                       = Made(ts, l + 1, i, at)
                           \cup DerivedSplit(Derived(ts), ts, l, i, at - 1)
<1>1. PICK n \in Nat : n = Len(ts) /\ DOMAIN ts = 1..n
  BY TokenParts
<1>2. i \in 1..(n + 1) /\ at - 1 \in 0..n /\ ~(i > at - 1)
  BY <1>1
<1> QED
  BY <1>1, <1>2, DerivedSpan DEF Made, WholeTrees

LEMMA MadeUp ==
  ASSUME AnyHeight, NEW ts \in TokenLists, NEW l \in 1..3,
         NEW i \in DOMAIN ts, NEW at \in DOMAIN ts, i < at,
         NEW x \in Made(ts, l + 1, i, at)
  PROVE  x \in Made(ts, l, i, at)
<1>1. l \in 1..4 /\ l # 4
  OBVIOUS
<1> QED
  BY <1>1, MadeParts

LEMMA MadePair ==
  ASSUME AnyHeight, NEW ts \in TokenLists, NEW l \in 1..3,
         NEW h \in DOMAIN ts, NEW k \in DOMAIN ts, NEW right \in DOMAIN ts,
         NEW at \in DOMAIN ts, h < k, k < at, GoesOn(l, ts[k].tok),
         right = IF ts[k].tok = "WORD" THEN k ELSE k + 1,
         NEW y \in Made(ts, l, h, k), NEW z \in Made(ts, l + 1, right, at)
  PROVE  OpNode(Operators[l], <<y, z>>) \in Made(ts, l, h, at)
<1> DEFINE x == OpNode(Operators[l], <<y, z>>)
<1>1. l \in 1..4 /\ l # 4
  OBVIOUS
<1>2. h \in Nat /\ k \in Nat /\ at \in Nat
  BY TokenParts
<1>3. k \in h..(at - 1) /\ h < at
  BY <1>2
<1>4. \/ right = k + 1 /\ ts[k].tok = Operators[l]
      \/ right = k /\ l = 3 /\ ts[k].tok = "WORD"
  BY <1>1, Levels DEF GoesOn
<1>5. SplitsAt(Derived(ts), ts, l, h, at - 1, x, k, right, y, z)
  BY <1>4 DEF SplitsAt, Paired, Made
<1> HIDE DEF x
<1>6. Splits(Derived(ts), ts, l, h, at - 1, x)
  BY <1>3, <1>5, SplitParts
<1>7. x \in DerivedSplit(Derived(ts), ts, l, h, at - 1)
  BY <1>6, SplitMember
<1>8. x \in Made(ts, l, h, at)
  BY <1>1, <1>3, <1>7, MadeParts
<1> QED
  BY <1>8 DEF x

LEMMA MadeWord ==
  ASSUME AnyHeight, NEW ts \in TokenLists, NEW i \in DOMAIN ts,
         ts[i].tok = "WORD"
  PROVE  QueryNode(ts[i].lit) \in Made(ts, 4, i, i + 1)
<1>1. i + 1 \in DOMAIN ts /\ i \in Nat
  BY TokenParts
<1>2. i < i + 1 /\ (i + 1) - 1 = i /\ 4 \in 1..4
  BY <1>1
<1>3. Made(ts, 4, i, i + 1) = DerivedBase(Derived(ts), ts, i, i)
  BY <1>1, <1>2, MadeParts
<1> QED
  BY <1>3 DEF DerivedBase

LEMMA MadeParen ==
  ASSUME AnyHeight, NEW ts \in TokenLists, NEW i \in DOMAIN ts,
         NEW at \in DOMAIN ts, i + 1 < at, ts[i].tok = "(",
         ts[at].tok = ")", NEW x \in Made(ts, 1, i + 1, at)
  PROVE  x \in Made(ts, 4, i, at + 1)
<1>1. at + 1 \in DOMAIN ts /\ at \in Nat /\ i \in Nat
  BY TokenParts
<1>2. i < at + 1 /\ (at + 1) - 1 = at /\ 4 \in 1..4
  BY <1>1
<1>3. Made(ts, 4, i, at + 1) = DerivedBase(Derived(ts), ts, i, at)
  BY <1>1, <1>2, MadeParts
<1> QED
  BY <1>3 DEF DerivedBase, Made

LEMMA MadeNot ==
  ASSUME AnyHeight, NEW ts \in TokenLists, NEW i \in DOMAIN ts,
         NEW at \in DOMAIN ts, i + 1 < at, ts[i].tok \in {"WITHOUT", "NOT"},
         NEW x \in Made(ts, 4, i + 1, at)
  PROVE  OpNode("NOT", <<x>>) \in Made(ts, 4, i, at)
<1>1. at \in Nat /\ i \in Nat
  BY TokenParts
<1>2. i < at /\ 4 \in 1..4
  BY <1>1
<1>3. Made(ts, 4, i, at) = DerivedBase(Derived(ts), ts, i, at - 1)
  BY <1>2, MadeParts
<1> QED
  BY <1>3 DEF DerivedBase, Made

SoundBegin(ts, l, i) ==
  Parsing(ts)[Begin(l, i)].ok =>
    Parsing(ts)[Begin(l, i)].node
      \in Made(ts, l, i, Parsing(ts)[Begin(l, i)].at)

(* Wherever the result so far begins. *)
SoundRest(ts, l, x, i) ==
  \A h \in DOMAIN ts :
    h < i /\ x \in Made(ts, l, h, i) /\ Parsing(ts)[GoOn(l, x, i)].ok =>
      Parsing(ts)[GoOn(l, x, i)].node
        \in Made(ts, l, h, Parsing(ts)[GoOn(l, x, i)].at)

SoundAhead(ts, l, i) ==
  /\ \A k \in 1..4 : \A a \in DOMAIN ts :
       a > i \/ (a = i /\ k > l) => SoundBegin(ts, k, a)
  /\ \A k \in 1..3 : \A x \in Trees : \A a \in DOMAIN ts :
       a > i => SoundRest(ts, k, x, a)

LEMMA ExprSound ==
  ASSUME AnyHeight, NEW ts \in TokenLists, NEW l \in 1..3, NEW i \in DOMAIN ts,
         SoundAhead(ts, l, i)
  PROVE  SoundBegin(ts, l, i)
<1> DEFINE P == Parsing(ts)
           first == P[Begin(l + 1, i)]
           then == P[GoOn(l, first.node, first.at)]
<1>1. l \in 1..4 /\ l + 1 \in 1..4 /\ l + 1 > l /\ i \in Nat
  BY TokenParts
<1>2. /\ first.ok \in BOOLEAN /\ first.node \in Trees
      /\ first.at \in DOMAIN ts /\ first.at \in Nat
      /\ first.ok => first.at > i
  BY <1>1, BeginAhead
<1>3. P[Begin(l, i)] = IF first.ok THEN then ELSE first
  BY ExprGives DEF ParseExpr
<1>4. first.ok => first.node \in Made(ts, l + 1, i, first.at)
  BY <1>1 DEF SoundAhead, SoundBegin
<1> HIDE DEF first
<1>5. ASSUME first.ok PROVE then.ok => then.node \in Made(ts, l, i, then.at)
  <2>1. i < first.at
    BY <1>1, <1>2, <1>5
  <2>2. first.node \in Made(ts, l, i, first.at)
    BY <1>2, <1>4, <1>5, <2>1, MadeUp
  <2>3. SoundRest(ts, l, first.node, first.at)
    BY <1>2, <1>5 DEF SoundAhead
  <2> QED
    BY <2>1, <2>2, <2>3 DEF SoundRest
<1> HIDE DEF then
<1>6. P[Begin(l, i)].ok => P[Begin(l, i)].node \in Made(ts, l, i, P[Begin(l, i)].at)
  BY <1>3, <1>5
<1> QED
  BY <1>6 DEF SoundBegin

LEMMA RestSound ==
  ASSUME AnyHeight, NEW ts \in TokenLists, NEW l \in 1..3, NEW i \in DOMAIN ts,
         NEW x \in Trees, SoundAhead(ts, l, i)
  PROVE  SoundRest(ts, l, x, i)
<1> DEFINE P == Parsing(ts)
           tok == ts[i].tok
           result == P[GoOn(l, x, i)]
<1>1. SUFFICES ASSUME NEW h \in DOMAIN ts, h < i, x \in Made(ts, l, h, i),
                      result.ok
               PROVE  result.node \in Made(ts, l, h, result.at)
  BY DEF SoundRest
<1>2. result = ParseRest(P, ts, l, x, i)
  BY RestGives
<1>3. /\ l \in 1..4 /\ l + 1 \in 1..4 /\ l + 1 > l /\ i \in Nat /\ h \in Nat
  BY TokenParts
<1>4. CASE ~GoesOn(l, tok)
  <2>1. result = Parsed(x, i)
    BY <1>2, <1>4 DEF ParseRest
  <2> HIDE DEF result
  <2> QED
    BY <1>1, <2>1 DEF Parsed
<1>5. CASE GoesOn(l, tok)
  <2> DEFINE right == IF tok = "WORD" THEN i ELSE i + 1
             second == P[Begin(l + 1, right)]
             pair == OpNode(Operators[l], <<x, second.node>>)
             then == P[GoOn(l, pair, second.at)]
  <2>1. right \in DOMAIN ts /\ (right > i \/ right = i) /\ right \in Nat
    BY <1>3, <1>5, GoingOn, TokenParts
  <2>2. result = IF second.ok THEN then ELSE second
    BY <1>2, <1>5 DEF ParseRest
  <2>3. right = IF tok = "WORD" THEN i ELSE i + 1
    OBVIOUS
  <2> HIDE DEF right, result
  <2>4. /\ second.ok \in BOOLEAN /\ second.node \in Trees
        /\ second.at \in DOMAIN ts /\ second.at \in Nat
        /\ second.ok => second.at > right
    BY <1>3, <2>1, BeginAhead
  <2>5. second.ok => second.node \in Made(ts, l + 1, right, second.at)
    BY <1>3, <2>1 DEF SoundAhead, SoundBegin
  <2> HIDE DEF second
  <2>6. second.ok /\ result = then
    BY <1>1, <2>2
  <2>7. i < second.at /\ h < second.at
    BY <1>1, <1>3, <2>1, <2>4, <2>6
  <2>8. pair \in Made(ts, l, h, second.at)
    <3> DEFINE at == second.at
               z == second.node
    <3>1. at \in DOMAIN ts /\ i < at /\ z \in Made(ts, l + 1, right, at)
      BY <2>4, <2>5, <2>6, <2>7
    <3> HIDE DEF at, z
    <3>2. OpNode(Operators[l], <<x, z>>) \in Made(ts, l, h, at)
      BY <1>1, <1>5, <2>1, <2>3, <3>1, MadePair
    <3> QED
      BY <3>2 DEF at, z
  <2>9. pair \in Trees
    BY <2>4, NewPair
  <2> HIDE DEF pair
  <2>10. SoundRest(ts, l, pair, second.at)
    BY <2>4, <2>7, <2>9 DEF SoundAhead
  <2> QED
    BY <1>1, <2>6, <2>7, <2>8, <2>10 DEF SoundRest
<1> QED
  BY <1>4, <1>5

LEMMA BaseSound ==
  ASSUME AnyHeight, NEW ts \in TokenLists, NEW i \in DOMAIN ts,
         SoundAhead(ts, 4, i)
  PROVE  SoundBegin(ts, 4, i)
<1> DEFINE P == Parsing(ts)
           tok == ts[i].tok
           inner == P[Begin(1, i + 1)]
           operand == P[Begin(4, i + 1)]
           result == P[Begin(4, i)]
<1>1. result = ParseBase(P, ts, i)
  BY BaseGives
<1>2. 1 \in 1..4 /\ 4 \in 1..4 /\ i \in Nat
  BY TokenParts
<1>3. CASE tok = "("
  <2>1. i + 1 \in DOMAIN ts /\ i + 1 > i
    BY <1>2, <1>3, TokenParts
  <2>2. result = IF inner.ok /\ ts[inner.at].tok = ")"
                 THEN Parsed(inner.node, inner.at + 1) ELSE Rejected
    BY <1>1, <1>3 DEF ParseBase
  <2>3. inner.at \in DOMAIN ts /\ (inner.ok => inner.at > i + 1)
        /\ inner.at \in Nat
    BY <1>2, <2>1, BeginAhead
  <2>4. inner.ok => inner.node \in Made(ts, 1, i + 1, inner.at)
    BY <1>2, <2>1 DEF SoundAhead, SoundBegin
  <2> HIDE DEF inner, result
  <2>5. ASSUME result.ok PROVE result.node \in Made(ts, 4, i, result.at)
    <3>1. /\ inner.ok /\ ts[inner.at].tok = ")"
          /\ result.node = inner.node /\ result.at = inner.at + 1
      BY <2>2, <2>5 DEF Parsed, Rejected
    <3>2. i + 1 < inner.at
      BY <1>2, <2>3, <3>1
    <3>3. inner.node \in Made(ts, 4, i, inner.at + 1)
      BY <1>3, <2>3, <2>4, <3>1, <3>2, MadeParen
    <3> QED
      BY <3>1, <3>3
  <2> QED
    BY <2>5 DEF SoundBegin, result
<1>4. CASE tok = "WORD"
  <2>1. result = Parsed(QueryNode(ts[i].lit), i + 1)
    BY <1>1, <1>4 DEF ParseBase
  <2>2. QueryNode(ts[i].lit) \in Made(ts, 4, i, i + 1)
    BY <1>4, MadeWord
  <2> QED
    BY <2>1, <2>2 DEF SoundBegin, Parsed
<1>5. CASE tok \in {"WITHOUT", "NOT"}
  <2>1. i + 1 \in DOMAIN ts /\ i + 1 > i
    BY <1>2, <1>5, TokenParts
  <2>2. result = IF operand.ok
                 THEN Parsed(OpNode("NOT", <<operand.node>>), operand.at)
                 ELSE Rejected
    BY <1>1, <1>5 DEF ParseBase
  <2>3. operand.at \in DOMAIN ts /\ (operand.ok => operand.at > i + 1)
        /\ operand.at \in Nat
    BY <1>2, <2>1, BeginAhead
  <2>4. operand.ok => operand.node \in Made(ts, 4, i + 1, operand.at)
    BY <1>2, <2>1 DEF SoundAhead, SoundBegin
  <2> HIDE DEF operand, result
  <2>5. ASSUME result.ok PROVE result.node \in Made(ts, 4, i, result.at)
    <3>1. /\ operand.ok /\ result.node = OpNode("NOT", <<operand.node>>)
          /\ result.at = operand.at
      BY <2>2, <2>5 DEF Parsed, Rejected
    <3>2. i + 1 < operand.at
      BY <1>2, <2>3, <3>1
    <3>3. OpNode("NOT", <<operand.node>>) \in Made(ts, 4, i, operand.at)
      BY <1>5, <2>3, <2>4, <3>1, <3>2, MadeNot
    <3> QED
      BY <3>1, <3>3
  <2> QED
    BY <2>5 DEF SoundBegin, result
<1>6. CASE tok \notin {"(", "WORD", "WITHOUT", "NOT"}
  <2>1. result = Rejected
    BY <1>1, <1>6 DEF ParseBase
  <2> QED
    BY <2>1 DEF SoundBegin, Rejected
<1> QED
  BY <1>3, <1>4, <1>5, <1>6

LEMMA ParserSound ==
  ASSUME AnyHeight, NEW ts \in TokenLists, NEW l \in 1..4, NEW i \in DOMAIN ts
  PROVE  SoundBegin(ts, l, i)
<1> DEFINE C == Calls(ts)
           m == Rank(ts)
           Good == {c \in C :
                      /\ SoundBegin(ts, c.level, c.at)
                      /\ c.level \in 1..3 =>
                           \A x \in Trees : SoundRest(ts, c.level, x, c.at)}
<1>1. ASSUME NEW c \in C, \A d \in C : m[d] < m[c] => d \in Good
      PROVE  c \in Good
  <2>1. c.level \in 1..4 /\ c.at \in DOMAIN ts
    BY DEF Calls
  <2>2. ASSUME NEW k \in 1..4, NEW a \in DOMAIN ts,
               a > c.at \/ (a = c.at /\ k > c.level)
        PROVE  /\ SoundBegin(ts, k, a)
               /\ k \in 1..3 => \A x \in Trees : SoundRest(ts, k, x, a)
    <3>1. Begin(k, a) \in C /\ Begin(k, a).level = k /\ Begin(k, a).at = a
      BY CallParts
    <3>2. Begin(k, a) \in Good
      BY <1>1, <2>2, <3>1, RankTypes
    <3> QED
      BY <3>1, <3>2
  <2> HIDE DEF C, m
  <2>3. SoundAhead(ts, c.level, c.at)
    BY <2>2 DEF SoundAhead
  <2>4. CASE c.level = 4
    BY <2>1, <2>3, <2>4, BaseSound
  <2>5. CASE c.level # 4
    <3>1. c.level \in 1..3
      BY <2>1, <2>5
    <3>2. SoundBegin(ts, c.level, c.at)
      BY <2>1, <2>3, <3>1, ExprSound
    <3>3. ASSUME NEW x \in Trees PROVE SoundRest(ts, c.level, x, c.at)
      BY <2>1, <2>3, <3>1, RestSound
    <3> QED
      BY <3>2, <3>3
  <2> QED
    BY <2>4, <2>5
<1>2. m \in [C -> Nat]
  BY RankTypes
<1>3. Begin(l, i) \in C /\ Begin(l, i).level = l /\ Begin(l, i).at = i
  BY CallParts
<1> HIDE DEF C, m, Good
<1>4. \A c \in C : c \in Good
  BY <1>1, <1>2, MeasureInduction, Zenon
<1> QED
  BY <1>3, <1>4 DEF Good

-----------------------------------------------------------------------------
(* What the parser makes of some tokens. *)
GrammarTrees(ts) ==
  IF Len(ts) = 1 THEN {AllQueryNode} ELSE Derived(ts)[Span(1, 1, Len(ts) - 1)]

(* A derivation of all the tokens but EOF is what the parser returns.      *)
LEMMA ParseFinds ==
  ASSUME AnyHeight, NEW ts \in TokenLists, Len(ts) # 1,
         NEW x \in Derived(ts)[Span(1, 1, Len(ts) - 1)]
  PROVE  Parse(ts).ok /\ Parse(ts).node = x
<1>1. PICK n \in Nat : n = Len(ts) /\ DOMAIN ts = 1..n /\ n >= 1
  BY TokenParts
<1> DEFINE j == n - 1
<1>2. /\ j + 1 = n /\ j \in 0..n /\ 1 \in 1..(n + 1) /\ n \in DOMAIN ts
      /\ 1 \in DOMAIN ts /\ 1 # n
  BY <1>1
<1>3. 1 \in 1..4 /\ 0 \in 0..4 /\ 1 \in 0..4 /\ 0 < 1
  OBVIOUS
<1>4. ts[n].tok = "EOF" /\ ts[1].tok # "EOF"
  BY <1>1, <1>2, TokenParts
<1>5. Stops(ts, 1, n) /\ Stops(ts, 0, n)
  BY <1>2, <1>3, <1>4, StoppingTokens
<1>6. x \in Derived(ts)[Span(1, 1, j)]
  BY <1>1
<1> HIDE DEF j
<1>7. x \in Trees
  BY <1>1, <1>2, <1>3, <1>6, DerivedSpan DEF WholeTrees
<1>8. FindsAll(ts, 1, 1, j)
  BY <1>1, <1>2, <1>3, DerivationsFound
<1>9. Reads(ts, 1, 1, j, x)
  BY <1>2, <1>5, <1>6, <1>8 DEF FindsAll
<1>10. Parsing(ts)[Begin(1, 1)] = Parsed(x, n)
  <2>1. j + 1 \in DOMAIN ts /\ Stops(ts, 0, j + 1)
    BY <1>2, <1>5
  <2>2. Parsing(ts)[Begin(1, 1)] = Parsed(x, j + 1)
    BY <1>3, <1>7, <1>9, <2>1, AllRead
  <2> QED
    BY <1>2, <2>2
<1>11. Parsed(x, n).ok /\ Parsed(x, n).node = x /\ Parsed(x, n).at = n
  BY DEF Parsed
<1>12. Parse(ts) = Parsed(x, n)
  BY <1>4, <1>10, <1>11 DEF Parse
<1> QED
  BY <1>11, <1>12

(* What the parser returns is a derivation of all the tokens but EOF.      *)
LEMMA ParseSound ==
  ASSUME AnyHeight, NEW ts \in TokenLists, Len(ts) # 1, Parse(ts).ok
  PROVE  Parse(ts).node \in Derived(ts)[Span(1, 1, Len(ts) - 1)]
<1>1. PICK n \in Nat : n = Len(ts) /\ DOMAIN ts = 1..n /\ n >= 1
  BY TokenParts
<1>2. 1 \in DOMAIN ts /\ 1 \in 1..4 /\ 1 # n
  BY <1>1
<1>3. ts[1].tok # "EOF"
  BY <1>1, <1>2, TokenParts
<1> DEFINE top == Parsing(ts)[Begin(1, 1)]
<1>4. top.at \in DOMAIN ts
  BY <1>2, BeginAhead
<1>5. top.ok => top.node \in Made(ts, 1, 1, top.at)
  BY <1>2, ParserSound DEF SoundBegin
<1>6. Parse(ts) = IF top.ok /\ ts[top.at].tok = "EOF" THEN top ELSE Rejected
  BY <1>3 DEF Parse
<1> HIDE DEF top
<1>7. top.ok /\ ts[top.at].tok = "EOF" /\ Parse(ts) = top
  BY <1>6 DEF Rejected
<1>8. top.at = n
  BY <1>1, <1>4, <1>7, TokenParts
<1> QED
  BY <1>1, <1>5, <1>7, <1>8 DEF Made

LEMMA ParseGives ==
  ASSUME AnyHeight, NEW ts \in TokenLists
  PROVE  /\ Parse(ts).node \in WholeTrees
         /\ Parse(ts).ok => GrammarTrees(ts) = {Parse(ts).node}
         /\ ~Parse(ts).ok => GrammarTrees(ts) = {}
<1>1. PICK n \in Nat : n = Len(ts) /\ DOMAIN ts = 1..n /\ n >= 1
  BY TokenParts
<1>2. AllQueryNode \in WholeTrees /\ EmptyQueryNode \in WholeTrees
  BY SpecialNodes DEF WholeTrees
<1>3. CASE n = 1
  <2>1. 1 \in DOMAIN ts /\ ts[1].tok = "EOF"
    BY <1>1, <1>3, TokenParts
  <2>2. Parse(ts) = Parsed(AllQueryNode, 1)
    BY <2>1 DEF Parse
  <2> QED
    BY <1>1, <1>2, <1>3, <2>2 DEF GrammarTrees, Parsed
<1>4. CASE n # 1
  <2> DEFINE trees == Derived(ts)[Span(1, 1, Len(ts) - 1)]
             node == Parse(ts).node
  <2>1. GrammarTrees(ts) = trees
    BY <1>1, <1>4 DEF GrammarTrees
  <2>2. Parse(ts).ok => node \in trees
    BY <1>1, <1>4, ParseSound
  <2>3. \A x \in trees : Parse(ts).ok /\ node = x
    BY <1>1, <1>4, ParseFinds
  <2>4. trees \subseteq WholeTrees
    <3>1. 1 \in 1..4 /\ 1 \in 1..(n + 1) /\ n - 1 \in 0..n
      BY <1>1
    <3> QED
      BY <1>1, <3>1, DerivedSpan
  <2>5. ~Parse(ts).ok => node = EmptyQueryNode
    <3>1. ts[1].tok # "EOF"
      BY <1>1, <1>4, TokenParts
    <3> QED
      BY <3>1 DEF Parse, Rejected
  <2> HIDE DEF trees, node
  <2>6. node \in WholeTrees
    BY <1>2, <2>2, <2>4, <2>5
  <2>7. Parse(ts).ok => trees = {node}
    BY <2>2, <2>3
  <2>8. ~Parse(ts).ok => trees = {}
    BY <2>3
  <2> QED
    BY <2>1, <2>6, <2>7, <2>8 DEF node
<1> QED
  BY <1>3, <1>4

LEMMA HitsTypes ==
  ASSUME AnyHeight, NEW x \in Trees
  PROVE  Hits(x) \subseteq Posts
<1>1. DOMAIN Index = Posts /\ x.type \in NodeTypes
  BY TreeParts DEF Index
<1> DEFINE of == Below(Finds(Index), x)
<1>2. Finds(Index)[x] = Finding(Index, x, of)
  BY FindsStep
<1> HIDE DEF of
<1>3. Finding(Index, x, of) \subseteq Posts
  BY <1>1 DEF Finding, WordFinds, NodeTypes
<1> QED
  BY <1>2, <1>3 DEF Hits

-----------------------------------------------------------------------------
(* The engine.  The inductive invariant: the variables keep their types,   *)
(* and a tree that has just been parsed is the one of its text.            *)
EngineInv == TypeOK /\ ParserMatchesGrammar

MatchesAt(at, tree) ==
  /\ at = "rejected" => GrammarTrees(Tokens(text)) = {}
  /\ at = "parsed" => GrammarTrees(Tokens(text)) = {tree}

LEMMA MatchesNow == ParserMatchesGrammar <=> MatchesAt(stage, parsed)
BY DEF ParserMatchesGrammar, MatchesAt, GrammarTrees

LEMMA WiderSeq ==
  ASSUME NEW A, NEW B, A \subseteq B, NEW s \in Seq(A)
  PROVE  s \in Seq(B)
OBVIOUS

LEMMA TextsGiven ==
  \A txt \in Texts : /\ txt \in Seq(Characters \ {"__all", "__empty"})
                     /\ txt \in Seq(Characters)
<1> DEFINE P == Characters \ {"__all", "__empty"}
<1>1. P \subseteq Characters
  OBVIOUS
<1>2. \A txt \in Texts : txt \in Seq(P)
  BY TextsAssumption
<1> HIDE DEF P
<1>3. \A txt \in Texts : txt \in Seq(Characters)
  BY <1>1, <1>2, WiderSeq
<1> QED
  BY <1>2, <1>3 DEF P

LEMMA EngineInitially == ASSUME AnyHeight, Init PROVE EngineInv /\ PassesInit
<1>1. PassesTypeOK
  BY PassesInitially DEF Init, PassInv
<1>2. parsed \in Trees /\ stage = "text"
  BY SpecialNodes DEF Init, PassesInit
<1>3. TypeOK
  BY <1>1, <1>2 DEF TypeOK, Init
<1>4. ParserMatchesGrammar
  BY <1>2, MatchesNow DEF MatchesAt
<1> QED
  BY <1>3, <1>4 DEF EngineInv, Init

(* A text that is parsed is a tree that arrives. *)
LEMMA ParseStep ==
  ASSUME AnyHeight, EngineInv, ParseQuery
  PROVE  Receive /\ parsed' \in Trees /\ ParserMatchesGrammar'
<1> DEFINE ts == Tokens(text)
<1>1. ts \in TokenLists
  BY TokensGiven, TextsGiven DEF EngineInv, TypeOK
<1> DEFINE result == Parse(ts)
<1>2. /\ result.node \in WholeTrees
      /\ result.ok => GrammarTrees(ts) = {result.node}
      /\ ~result.ok => GrammarTrees(ts) = {}
  BY <1>1, ParseGives
<1>3. /\ stage = "text" /\ stage' = (IF result.ok THEN "parsed" ELSE "rejected")
      /\ parsed' = result.node /\ ast' = result.node
      /\ UNCHANGED <<text, pass, rule, changed, answer>>
  BY DEF ParseQuery
<1>4. Tokens(text)' = ts
  BY <1>3
<1> HIDE DEF ts, result
<1>5. Receive /\ parsed' \in Trees
  BY <1>2, <1>3 DEF Receive, WholeTrees
<1>6. ParserMatchesGrammar'
  BY <1>2, <1>3, <1>4 DEF ParserMatchesGrammar, GrammarTrees, ts
<1> QED
  BY <1>5, <1>6

LEMMA EnginePasses ==
  ASSUME AnyHeight, EngineInv, [Next]_vars
  PROVE  [PassesNext]_passVars
<1>1. CASE ParseQuery
  BY <1>1, ParseStep DEF PassesNext
<1>2. CASE OptimizeQuery
  BY <1>2 DEF OptimizeQuery, PassesNext
<1>3. CASE Execute
  BY <1>3 DEF Execute, Leave, PassesNext
<1>4. CASE UNCHANGED vars
  BY <1>4 DEF vars
<1> QED
  BY <1>1, <1>2, <1>3, <1>4 DEF Next

LEMMA EngineStep ==
  ASSUME AnyHeight, EngineInv, PassInv, [Next]_vars
  PROVE  EngineInv'
<1>1. PassesTypeOK'
  BY EnginePasses, PassesInductive DEF PassInv
<1>2. /\ PassesTypeOK /\ ast \in Trees /\ parsed \in Trees /\ text \in Texts
      /\ answer \subseteq Posts /\ ParserMatchesGrammar
  BY DEF EngineInv, TypeOK, PassesTypeOK
<1>3. CASE ParseQuery
  <2>1. parsed' \in Trees /\ ParserMatchesGrammar'
    BY <1>3, ParseStep
  <2>2. text' = text /\ answer' = answer
    BY <1>3 DEF ParseQuery
  <2> QED
    BY <1>1, <1>2, <2>1, <2>2 DEF EngineInv, TypeOK
<1>4. CASE OptimizeQuery
  <2>1. text' = text /\ parsed' = parsed /\ answer' = answer
    BY <1>4 DEF OptimizeQuery
  <2>2. stage' \notin {"parsed", "rejected"}
    BY <1>4 DEF OptimizeQuery, Optimize, StartOptimizer, ApplyRule,
                OptimizerPanics
  <2>3. ParserMatchesGrammar'
    BY <2>2 DEF ParserMatchesGrammar
  <2> QED
    BY <1>1, <1>2, <2>1, <2>3 DEF EngineInv, TypeOK
<1>5. CASE Execute
  <2>1. /\ text' = text /\ parsed' = parsed /\ answer' = Hits(ast)
        /\ stage' = "done"
    BY <1>5 DEF Execute
  <2>2. ParserMatchesGrammar'
    BY <2>1 DEF ParserMatchesGrammar
  <2>3. answer' \subseteq Posts
    BY <1>2, <2>1, HitsTypes
  <2> QED
    BY <1>1, <1>2, <2>1, <2>2, <2>3 DEF EngineInv, TypeOK
<1>6. CASE UNCHANGED vars
  <2>1. /\ text' = text /\ parsed' = parsed /\ answer' = answer /\ stage' = stage
    BY <1>6 DEF vars, passVars
  <2>2. ParserMatchesGrammar'
    BY <1>2, <2>1 DEF ParserMatchesGrammar
  <2> QED
    BY <1>1, <1>2, <2>1, <2>2 DEF EngineInv, TypeOK
<1> QED
  BY <1>3, <1>4, <1>5, <1>6 DEF Next

LEMMA EngineInvariant ==
  ASSUME AnyHeight PROVE Spec => []EngineInv /\ PassesSpec /\ []PassInv
<1>1. Init => EngineInv /\ PassesInit /\ PassInv
  BY EngineInitially, PassesInitially
<1>2. EngineInv /\ PassInv /\ [Next]_vars
        => EngineInv' /\ PassInv' /\ [PassesNext]_passVars
  BY EngineStep, EnginePasses, PassesInductive
<1> QED
  BY <1>1, <1>2, PTL DEF Spec, PassesSpec

(* Whatever the texts are, the variables keep their types: the parser only *)
(* makes trees in which a NOT has one child and a word none, the optimizer *)
(* keeps them so, and what is found are posts (parser.go, actions.go).     *)
THEOREM EngineTypes == ASSUME AnyHeight PROVE Spec => []TypeOK
<1>1. EngineInv => TypeOK
  BY DEF EngineInv
<1> QED
  BY <1>1, EngineInvariant, PTL

(* For texts of any length, the parser accepts exactly those that have a   *)
(* derivation in the grammar of README.md:17-33, that derivation is the    *)
(* only one, and its tree is what the parser returns (parser.go:66-143).   *)
THEOREM ParserFollowsGrammar ==
  ASSUME AnyHeight PROVE Spec => []ParserMatchesGrammar
<1>1. EngineInv => ParserMatchesGrammar
  BY DEF EngineInv
<1> QED
  BY <1>1, EngineInvariant, PTL

(* The engine implements the passes over any tree: what it parses is a tree*)
(* on which the optimizer may rely, and from there on every step is one of *)
(* the passes (actions.go:136-145).                                        *)
THEOREM EngineOptimizes == ASSUME AnyHeight PROVE Spec => Optimizes
BY EngineInvariant, PTL DEF Optimizes

(* So what holds of the passes over any tree holds of every query: no rule *)
(* but the first and the last but one meets a WITHOUT of nothing ...       *)
THEOREM EngineFirstChildren ==
  ASSUME AnyHeight PROVE Spec => []FirstChildrenAreThere
BY EngineInvariant, FirstChildrenStay, PTL

(* ... and no rule changes what the query finds, but for the removal of a  *)
(* term beside its exclusion (optimize.go:88-275).                         *)
THEOREM EngineKeepsHits == ASSUME AnyHeight PROVE Spec => RulesKeepHits
BY EngineInvariant, RulesKeep, PTL

-----------------------------------------------------------------------------
(* What has the trees of the words and, with the trees of the parts, those *)
(* of the operators that are among the tokens, has all derived trees.      *)
Grows(T, ts) ==
  \A n \in DOMAIN ts :
    /\ ts[n].tok = "WORD" => QueryNode(ts[n].lit) \in T
    /\ ts[n].tok \in {"WITHOUT", "NOT"} => \A y \in T : OpNode("NOT", <<y>>) \in T
    /\ \A l \in 1..3 : GoesOn(l, ts[n].tok) =>
         \A y, z \in T : OpNode(Operators[l], <<y, z>>) \in T

InInside(T, ts, l, i, j) ==
  \A k \in 1..4 : \A a \in 1..(Len(ts) + 1) : \A b \in 0..Len(ts) :
    Inside(a, b, k, i, j, l) => Derived(ts)[Span(k, a, b)] \subseteq T

LEMMA BaseIn ==
  ASSUME AnyHeight, NEW ts \in TokenLists, NEW i \in 1..(Len(ts) + 1),
         NEW j \in 0..Len(ts), i <= j, NEW T, Grows(T, ts),
         InInside(T, ts, 4, i, j)
  PROVE  Derived(ts)[Span(4, i, j)] \subseteq T
<1> DEFINE D == Derived(ts)
<1>1. SUFFICES ASSUME NEW x \in D[Span(4, i, j)] PROVE x \in T
  OBVIOUS
<1>2. /\ i + 1 \in 1..(Len(ts) + 1) /\ j - 1 \in 0..Len(ts) /\ ~(i > j)
      /\ Inside(i + 1, j - 1, 1, i, j, 4) /\ Inside(i + 1, j, 4, i, j, 4)
      /\ 1 \in 1..4 /\ 4 \in 1..4 /\ i \in DOMAIN ts
  BY SpanBase
<1>3. x \in DerivedBase(D, ts, i, j)
  BY <1>1, <1>2, DerivedSpan
<1>4. /\ D[Span(1, i + 1, j - 1)] \subseteq T
      /\ D[Span(4, i + 1, j)] \subseteq T
  BY <1>2, Zenon DEF InInside
<1>5. \/ ts[i].tok = "WORD" /\ x = QueryNode(ts[i].lit)
      \/ x \in D[Span(1, i + 1, j - 1)]
      \/ /\ ts[i].tok \in {"WITHOUT", "NOT"}
         /\ \E n \in D[Span(4, i + 1, j)] : x = OpNode("NOT", <<n>>)
  BY <1>3 DEF DerivedBase
<1> HIDE DEF D
<1> QED
  BY <1>2, <1>4, <1>5 DEF Grows

LEMMA LevelIn ==
  ASSUME AnyHeight, NEW ts \in TokenLists, NEW l \in 1..3,
         NEW i \in 1..(Len(ts) + 1), NEW j \in 0..Len(ts), i <= j,
         NEW T, Grows(T, ts), InInside(T, ts, l, i, j)
  PROVE  Derived(ts)[Span(l, i, j)] \subseteq T
<1> DEFINE D == Derived(ts)
<1>1. SUFFICES ASSUME NEW x \in D[Span(l, i, j)] PROVE x \in T
  OBVIOUS
<1>2. /\ l \in 1..4 /\ l # 4 /\ l + 1 \in 1..4 /\ ~(i > j)
      /\ Inside(i, j, l + 1, i, j, l)
  BY SpanBase, SpanUp
<1>3. x \in D[Span(l + 1, i, j)] \/ Splits(D, ts, l, i, j, x)
  BY <1>1, <1>2, DerivedSpan, SplitMember
<1>4. CASE x \in D[Span(l + 1, i, j)]
  BY <1>2, <1>4 DEF InInside
<1>5. CASE Splits(D, ts, l, i, j, x)
  <2>1. PICK k \in i..j : \E right, y, z :
          SplitsAt(D, ts, l, i, j, x, k, right, y, z)
    BY <1>5, SplitParts
  <2>2. PICK right, y, z : SplitsAt(D, ts, l, i, j, x, k, right, y, z)
    BY <2>1
  <2>3. /\ y \in D[Span(l, i, k - 1)] /\ z \in D[Span(l + 1, right, j)]
        /\ x = OpNode(Operators[l], <<y, z>>)
        /\ right = k + 1 \/ right = k
        /\ GoesOn(l, ts[k].tok)
    BY <2>2 DEF SplitsAt, Paired, GoesOn
  <2>4. /\ k \in DOMAIN ts /\ k - 1 \in 0..Len(ts) /\ k \in 1..(Len(ts) + 1)
        /\ k + 1 \in 1..(Len(ts) + 1) /\ Inside(i, k - 1, l, i, j, l)
        /\ Inside(k + 1, j, l + 1, i, j, l) /\ Inside(k, j, l + 1, i, j, l)
    BY <1>2, SpanSplit
  <2>5. /\ D[Span(l, i, k - 1)] \subseteq T
        /\ D[Span(l + 1, k + 1, j)] \subseteq T
        /\ D[Span(l + 1, k, j)] \subseteq T
    BY <1>2, <2>4, Zenon DEF InInside
  <2>6. y \in T /\ z \in T
    BY <2>3, <2>5
  <2> HIDE DEF D
  <2> QED
    BY <2>3, <2>4, <2>6 DEF Grows
<1> QED
  BY <1>3, <1>4, <1>5

LEMMA DerivedIn ==
  ASSUME AnyHeight, NEW ts \in TokenLists, NEW T, Grows(T, ts)
  PROVE  \A s \in Spans(ts) : Derived(ts)[s] \subseteq T
<1> DEFINE C == Spans(ts)
           m == Breadth(ts)
           Good == {s \in C : Derived(ts)[s] \subseteq T}
<1>1. ASSUME NEW s \in C, \A t \in C : m[t] < m[s] => t \in Good
      PROVE  s \in Good
  <2>1. /\ s.level \in 1..4 /\ s.first \in 1..(Len(ts) + 1)
        /\ s.last \in 0..Len(ts) /\ s = Span(s.level, s.first, s.last)
        /\ s.first \in Nat /\ s.last \in Nat
    BY SpanParts
  <2>2. CASE s.first > s.last
    BY <2>1, <2>2, DerivedSpan
  <2>3. CASE s.first <= s.last
    <3>1. ASSUME NEW k \in 1..4, NEW a \in 1..(Len(ts) + 1),
                 NEW b \in 0..Len(ts),
                 Inside(a, b, k, s.first, s.last, s.level)
          PROVE  Derived(ts)[Span(k, a, b)] \subseteq T
      <4>1. Span(k, a, b) \in C /\ Span(k, a, b).level = k
            /\ Span(k, a, b).first = a /\ Span(k, a, b).last = b
        BY SpanParts
      <4>2. Span(k, a, b) \in Good
        BY <1>1, <2>3, <3>1, <4>1, BreadthTypes
      <4> QED
        BY <4>2
    <3>2. InInside(T, ts, s.level, s.first, s.last)
      BY <3>1 DEF InInside
    <3>3. s.level = 4 \/ s.level \in 1..3
      BY <2>1
    <3>4. Derived(ts)[Span(s.level, s.first, s.last)] \subseteq T
      BY <2>1, <2>3, <3>2, <3>3, BaseIn, LevelIn
    <3> QED
      BY <2>1, <3>4
  <2> QED
    BY <2>1, <2>2, <2>3
<1>2. m \in [C -> Nat]
  BY BreadthTypes
<1> HIDE DEF C, m, Good
<1>3. \A s \in C : s \in Good
  BY <1>1, <1>2, MeasureInduction, Zenon
<1> QED
  BY <1>3 DEF C, Good

LEMMA ParsedIn ==
  ASSUME AnyHeight, NEW ts \in TokenLists, NEW T, Grows(T, ts)
  PROVE  Parse(ts).node \in T \cup {AllQueryNode, EmptyQueryNode}
<1>1. PICK n \in Nat : n = Len(ts) /\ n >= 1
  BY TokenParts
<1> DEFINE node == Parse(ts).node
<1>2. CASE Parse(ts).ok
  <2>1. node \in GrammarTrees(ts)
    BY <1>2, ParseGives
  <2>2. 1 \in 1..4 /\ 1 \in 1..(n + 1) /\ n - 1 \in 0..n
    BY <1>1
  <2>3. Span(1, 1, n - 1) \in Spans(ts)
    BY <1>1, <2>2, SpanParts
  <2>4. Derived(ts)[Span(1, 1, n - 1)] \subseteq T
    BY <2>3, DerivedIn
  <2> HIDE DEF node
  <2> QED
    BY <1>1, <2>1, <2>4 DEF GrammarTrees, node
<1>3. CASE ~Parse(ts).ok
  BY <1>3 DEF Parse, Parsed, Rejected
<1> QED
  BY <1>2, <1>3

(* Without the optimizer a query finds what it stands for: its tree has no *)
(* AND of nothing, which the iterators take for no post (execute.go:18-28).*)
LEMMA OpFilled ==
  ASSUME NEW T, NEW type, NEW y \in T, NEW z \in T
  PROVE  /\ Filled(OpNode(type, <<y, z>>), T)
         /\ Filled(OpNode("NOT", <<y>>), T)
<1>1. ASSUME NEW s, s = <<y, z>> \/ s = <<y>>
      PROVE  s # <<>> /\ \A i \in DOMAIN s : s[i] \in T
  BY <1>1
<1> QED
  BY <1>1 DEF Filled, OpNode

LEMMA ParsedHits ==
  ASSUME AnyHeight, NEW ts \in TokenLists
  PROVE  Hits(Parse(ts).node) = Meaning[Parse(ts).node]
<1> DEFINE T == FilledTrees
           node == Parse(ts).node
<1>1. ASSUME NEW y \in T, NEW z \in T, NEW l \in 1..3
      PROVE  OpNode(Operators[l], <<y, z>>) \in T /\ OpNode("NOT", <<y>>) \in T
  <2>1. y \in Trees /\ z \in Trees
    BY FilledParts
  <2>2. OpNode(Operators[l], <<y, z>>) \in Trees /\ OpNode("NOT", <<y>>) \in Trees
    BY <2>1, NewPair, NewNot
  <2> QED
    BY <2>2, OpFilled, FilledMade
<1>2. ASSUME NEW n \in DOMAIN ts, ts[n].tok = "WORD"
      PROVE  QueryNode(ts[n].lit) \in T
  <2>1. QueryNode(ts[n].lit) \in Trees
    BY TokenParts, NewWord
  <2>2. Filled(QueryNode(ts[n].lit), T)
    BY DEF Filled, QueryNode
  <2> QED
    BY <2>1, <2>2, FilledMade
<1> HIDE DEF T
<1>3. Grows(T, ts)
  <2>1. \A y \in T : OpNode("NOT", <<y>>) \in T
    <3>1. 1 \in 1..3
      OBVIOUS
    <3> QED
      BY <1>1, <3>1
  <2>2. \A l \in 1..3 : \A y, z \in T : OpNode(Operators[l], <<y, z>>) \in T
    BY <1>1
  <2> QED
    BY <1>2, <2>1, <2>2 DEF Grows
<1>4. node \in T
  <2>1. node \in T \cup {AllQueryNode, EmptyQueryNode}
    BY <1>3, ParsedIn
  <2> HIDE DEF node
  <2> QED
    BY <2>1, SpecialFilled DEF T
<1> HIDE DEF node
<1>5. Finds(Index)[node] = Meaning[node]
  BY <1>4, FilledHits DEF T
<1> QED
  BY <1>5 DEF Hits, node

(* A tree that is about to be used without the optimizer is the parsed one,*)
(* and finds what it stands for.                                           *)
PlainInv ==
  /\ stage = "text" => pass = 0
  /\ stage \in {"text", "parsed"} => ~changed
  /\ stage = "parsed" => ast = parsed /\ Hits(parsed) = Meaning[parsed]
  /\ stage \in {"rules", "optimized"} => pass # 0
  /\ stage = "done" /\ pass = 0 => answer = Meaning[parsed]

LEMMA PlainStep ==
  ASSUME AnyHeight, EngineInv, PlainInv, [Next]_vars
  PROVE  PlainInv'
<1>0. pass \in Nat
  BY PassesAssumption DEF EngineInv, TypeOK, PassesTypeOK
<1>1. CASE ParseQuery
  <2>1. Tokens(text) \in TokenLists
    BY TokensGiven, TextsGiven DEF EngineInv, TypeOK
  <2> DEFINE node == Parse(Tokens(text)).node
  <2>2. Hits(node) = Meaning[node]
    BY <2>1, ParsedHits
  <2>3. /\ ast' = node /\ parsed' = node /\ stage' \in {"parsed", "rejected"}
        /\ changed' = changed /\ ~changed
    BY <1>1 DEF ParseQuery, PlainInv
  <2> HIDE DEF node
  <2>4. Hits(parsed)' = Hits(node) /\ Meaning[parsed]' = Meaning[node]
    BY <2>3 DEF Hits
  <2> QED
    BY <2>2, <2>3, <2>4 DEF PlainInv
<1>2. CASE OptimizeQuery
  <2>1. pass' # 0 \/ stage' = "panicked"
    BY <1>0, <1>2 DEF OptimizeQuery, Optimize, StartOptimizer, ApplyRule,
                     OptimizerPanics, PlainInv
  <2>2. stage' \in {"rules", "optimized", "panicked"}
    BY <1>2 DEF OptimizeQuery, Optimize, StartOptimizer, ApplyRule,
                OptimizerPanics
  <2> QED
    BY <2>1, <2>2 DEF PlainInv
<1>3. CASE Execute
  <2>1. /\ stage \in {"parsed", "optimized"} /\ stage' = "done"
        /\ answer' = Hits(ast) /\ parsed' = parsed /\ pass' = pass
    BY <1>3 DEF Execute
  <2> QED
    BY <2>1 DEF PlainInv
<1>4. CASE UNCHANGED vars
  BY <1>4 DEF vars, passVars, PlainInv, Hits
<1> QED
  BY <1>1, <1>2, <1>3, <1>4 DEF Next

(* Whatever is queried, without the optimizer the iterators find exactly   *)
(* the posts that the parsed tree stands for (actions.go:132-150): of a    *)
(* parsed tree they need not ask whether an AND has children.              *)
THEOREM UnoptimizedFinds ==
  ASSUME AnyHeight
  PROVE  Spec => [](stage = "done" /\ pass = 0 => answer = Meaning[parsed])
<1>1. Init => PlainInv
  BY DEF Init, PassesInit, PlainInv
<1>2. EngineInv /\ PlainInv /\ [Next]_vars => PlainInv'
  BY PlainStep
<1>3. PlainInv => (stage = "done" /\ pass = 0 => answer = Meaning[parsed])
  BY DEF PlainInv
<1> QED
  BY <1>1, <1>2, <1>3, EngineInvariant, PTL DEF Spec
-----------------------------------------------------------------------------
(* With the optimizer.  The tree that is used has no AND of nothing when   *)
(* the last pass has changed nothing, as the parsed tree has none.         *)
AnswerInv ==
  stage = "done" => changed \/ answer = Meaning[ast]

LEMMA AnswerStep ==
  ASSUME AnyHeight, PlainInv, SettledInv, AnswerInv, [Next]_vars
  PROVE  AnswerInv'
<1>1. CASE Execute
  <2>1. /\ stage \in {"parsed", "optimized"} /\ answer' = Hits(ast)
        /\ ast' = ast /\ changed' = changed
    BY <1>1 DEF Execute
  <2>2. stage = "parsed" => Hits(ast) = Meaning[ast]
    BY DEF PlainInv
  <2>3. stage = "optimized" /\ ~changed => Hits(ast) = Meaning[ast]
    BY FilledHits DEF SettledInv, Hits
  <2> QED
    BY <2>1, <2>2, <2>3 DEF AnswerInv
<1>2. CASE ParseQuery
  BY <1>2 DEF ParseQuery, AnswerInv
<1>3. CASE OptimizeQuery
  <2>1. stage' # "done"
    BY <1>3 DEF OptimizeQuery, Optimize, StartOptimizer, ApplyRule,
                OptimizerPanics
  <2> QED
    BY <2>1 DEF AnswerInv
<1>4. CASE UNCHANGED vars
  BY <1>4 DEF vars, passVars, AnswerInv
<1> QED
  BY <1>1, <1>2, <1>3, <1>4 DEF Next

OptimizedInv == EngineInv /\ PassInv /\ PlainInv /\ SettledInv /\ AnswerInv

LEMMA OptimizedStep ==
  ASSUME AnyHeight, OptimizedInv, [Next]_vars
  PROVE  OptimizedInv'
<1>1. [PassesNext]_passVars
  BY EnginePasses DEF OptimizedInv
<1> QED
  BY <1>1, EngineStep, PassesInductive, PlainStep, SettledStep, AnswerStep
     DEF OptimizedInv

LEMMA OptimizedInitially == ASSUME AnyHeight, Init PROVE OptimizedInv
<1>1. PassInv /\ EngineInv
  BY EngineInitially, PassesInitially
<1>2. PlainInv /\ SettledInv /\ AnswerInv
  BY DEF Init, PassesInit, PlainInv, SettledInv, AnswerInv
<1> QED
  BY <1>1, <1>2 DEF OptimizedInv

(* Whatever is queried, when the passes have ended because one of them has *)
(* changed nothing, the answer is what the optimized tree stands for       *)
(* (optimize.go:31-36, execute.go:18-28).                                  *)
THEOREM SettledAnswers ==
  ASSUME AnyHeight
  PROVE  Spec => [](stage = "done" /\ ~changed => answer = Meaning[ast])
<1>1. Init => OptimizedInv
  BY OptimizedInitially
<1>2. OptimizedInv /\ [Next]_vars => OptimizedInv'
  BY OptimizedStep
<1>3. OptimizedInv => (stage = "done" /\ ~changed => answer = Meaning[ast])
  BY DEF OptimizedInv, AnswerInv
<1> QED
  BY <1>1, <1>2, <1>3, PTL DEF Spec

(* The walk with the last rule but one is about to drop no term.           *)
KeepsTerms == stage = "rules" /\ rule = 7 => ~DropsTerm[ast]

(* The passes have ended before their limit. *)
Settled == stage = "optimized" => ~changed

(* As long as no term is dropped, what is found stays what was asked.      *)
MeantInv ==
  /\ stage \in {"rules", "optimized"} =>
       Meaning[ast] = Meaning[parsed] /\ Hits(parsed) = Meaning[parsed]
  /\ SameHits

LEMMA MeantStep ==
  ASSUME AnyHeight, OptimizedInv, MeantInv, KeepsTerms, Settled, [Next]_vars
  PROVE  MeantInv'
<1>0. /\ stage = "parsed" => ast = parsed /\ Hits(parsed) = Meaning[parsed]
      /\ PassInv
  BY DEF OptimizedInv, PlainInv
<1>1. CASE OptimizeQuery
  <2>1. /\ parsed' = parsed /\ stage' # "done"
        /\ stage \in {"parsed", "rules"} /\ Hits(parsed)' = Hits(parsed)
    BY <1>1 DEF OptimizeQuery, Optimize, StartOptimizer, ApplyRule,
                OptimizerPanics, Hits
  <2>2. Meaning[ast] = Meaning[parsed] /\ Hits(parsed) = Meaning[parsed]
    BY <1>0, <2>1 DEF MeantInv
  <2>3. Meaning[ast'] = Meaning[ast]
    <3>1. CASE StartOptimizer
      BY <1>0, <3>1, StartStep
    <3>2. CASE ApplyRule
      <4>1. ~(rule = 7 /\ DropsTerm[ast])
        BY <3>2 DEF KeepsTerms, ApplyRule
      <4> QED
        BY <1>0, <3>2, <4>1, RuleStep
    <3>3. CASE OptimizerPanics
      BY <3>3 DEF OptimizerPanics
    <3> QED
      BY <1>1, <3>1, <3>2, <3>3 DEF OptimizeQuery, Optimize
  <2> QED
    BY <2>1, <2>2, <2>3 DEF MeantInv, SameHits
<1>2. CASE Execute
  <2>1. /\ stage \in {"parsed", "optimized"} /\ stage' = "done"
        /\ answer' = Hits(ast) /\ parsed' = parsed
        /\ Hits(parsed)' = Hits(parsed)
    BY <1>2 DEF Execute, Hits
  <2>2. CASE stage = "parsed"
    BY <1>0, <2>1, <2>2 DEF MeantInv, SameHits
  <2>3. CASE stage = "optimized"
    <3>1. Hits(ast) = Meaning[ast]
      BY <2>3, FilledHits DEF Settled, OptimizedInv, SettledInv, Hits
    <3>2. Meaning[ast] = Meaning[parsed] /\ Hits(parsed) = Meaning[parsed]
      BY <2>3 DEF MeantInv
    <3> QED
      BY <2>1, <3>1, <3>2 DEF MeantInv, SameHits
  <2> QED
    BY <2>1, <2>2, <2>3
<1>3. CASE ParseQuery
  <2>1. stage' \in {"parsed", "rejected"}
    BY <1>3 DEF ParseQuery
  <2> QED
    BY <2>1 DEF MeantInv, SameHits
<1>4. CASE UNCHANGED vars
  BY <1>4 DEF vars, passVars, MeantInv, SameHits, Hits
<1> QED
  BY <1>1, <1>2, <1>3, <1>4 DEF Next

(* The optimizer is right but for the term that is dropped beside its      *)
(* exclusion (optimize.go:211-224): whatever is queried, when no rule does *)
(* so and the passes end before their limit, a query has the same hits with*)
(* the optimizer and without it.                                           *)
THEOREM SameHitsWithoutDrops ==
  ASSUME AnyHeight
  PROVE  Spec /\ []KeepsTerms /\ []Settled => []SameHits
<1>1. Init => OptimizedInv /\ MeantInv
  <2>1. Init => MeantInv
    BY DEF Init, PassesInit, MeantInv, SameHits
  <2> QED
    BY <2>1, OptimizedInitially
<1>2. OptimizedInv /\ MeantInv /\ KeepsTerms /\ Settled /\ [Next]_vars
        => OptimizedInv' /\ MeantInv'
  BY OptimizedStep, MeantStep
<1>3. MeantInv => SameHits
  BY DEF MeantInv
<1> QED
  BY <1>1, <1>2, <1>3, PTL DEF Spec
-----------------------------------------------------------------------------
(* A text that Typable allows: the scanner cuts it into its fields.        *)
WordsOnly(ts, W) ==
  \A n \in DOMAIN ts :
    ts[n].tok = "EOF" \/ (ts[n].tok = "WORD" /\ ts[n].lit \in W)

LEMMA TypedCharacters ==
  \A c : IsLetter(c) \/ c \in {" ", ":"} =>
    /\ c # "nul" /\ c # "-"
    /\ c # " " <=> GoesOnWord(c)
    /\ IsLetter(c) => c # " " /\ c \notin Symbols
<1>1. \A c \in {" ", ":"} : c # "nul" /\ c # "-"
  OBVIOUS
<1>2. \A c \in {"nul", "-", " "} \cup Symbols : ~IsLetter(c)
  BY DEF IsLetter, NoLetters, Symbols
<1>3. ":" # " "
  OBVIOUS
<1> QED
  BY <1>1, <1>2, <1>3 DEF GoesOnWord

LEMMA WordsFirst ==
  ASSUME NEW W, NEW t \in TokenSet, t.tok = "WORD", t.lit \in W,
         NEW ts \in TokenLists, WordsOnly(ts, W)
  PROVE  WordsOnly(<<t>> \o ts, W)
<1> DEFINE us == <<t>> \o ts
<1>1. ts \in Seq(TokenSet) /\ <<t>> \in Seq(TokenSet) /\ Len(<<t>>) = 1
  BY DEF TokenLists
<1>2. PICK n \in Nat : n = Len(ts) /\ DOMAIN ts = 1..n
  BY <1>1
<1>3. Joins(us, <<t>>, 1, ts, n)
  BY <1>1, <1>2, JoinGiven
<1> HIDE DEF us
<1>4. ASSUME NEW i \in DOMAIN us
      PROVE  us[i].tok = "EOF" \/ (us[i].tok = "WORD" /\ us[i].lit \in W)
  <2>1. i \in 1..(1 + n)
    BY <1>3 DEF Joins
  <2>2. CASE i = 1
    <3>1. 1 \in 1..1 /\ <<t>>[1] = t
      OBVIOUS
    <3>2. us[1] = t
      BY <1>3, <3>1 DEF Joins
    <3> QED
      BY <2>2, <3>2
  <2>3. CASE i # 1
    <3>1. i - 1 \in 1..n /\ 1 + (i - 1) = i
      BY <2>1, <2>3
    <3>2. us[1 + (i - 1)] = ts[i - 1]
      BY <1>3, <3>1 DEF Joins
    <3> QED
      BY <1>2, <3>1, <3>2 DEF WordsOnly
  <2> QED
    BY <2>2, <2>3
<1>5. WordsOnly(us, W)
  BY <1>4 DEF WordsOnly
<1> QED
  BY <1>5 DEF us

(* Where the scanner stands: behind the text, or at or behind a blank.     *)
BlankAt(txt, i) == txt[i] = " "

Boundary(txt, i) ==
  i = 1 \/ i = Len(txt) + 1 \/ BlankAt(txt, i) \/ BlankAt(txt, i - 1)

LEMMA FieldScanned ==
  ASSUME NEW txt \in Seq(Characters), Typable(txt), NEW l \in Nat,
         l = Len(txt), DOMAIN txt = 1..l, NEW i \in 1..l,
         Boundary(txt, i), ~BlankAt(txt, i), NEW n \in i..l, Ends(txt, i, n)
  PROVE  /\ SubSeq(txt, i, n) \in Fields(txt)
         /\ SubSeq(txt, i, n)[1] = txt[i]
         /\ AfterWord(txt, n) = n + 1
         /\ Boundary(txt, n + 1)
<1>1. l = Len(txt) /\ DOMAIN txt = 1..l
  OBVIOUS
<1>2. i \in 1..l /\ i \in Nat /\ n \in i..l /\ n \in Nat /\ Ends(txt, i, n)
  OBVIOUS
<1>3. \A k \in 1..l : /\ txt[k] # "nul"
                      /\ txt[k] # " " <=> GoesOnWord(txt[k])
  BY <1>1, TypedCharacters DEF Typable
<1> DEFINE Blank(k) == k \notin DOMAIN txt \/ txt[k] = " "
<1> HIDE DEF Blank
<1>4. \A k \in i..n : ~Blank(k)
  <2>1. SUFFICES ASSUME NEW k \in i..n PROVE ~Blank(k)
    OBVIOUS
  <2>2. k \in 1..l
    BY <1>2
  <2>3. CASE k = i
    BY <1>1, <2>2, <2>3 DEF Blank, BlankAt
  <2>4. CASE k # i
    <3>1. k \in (i + 1)..n
      BY <1>2, <2>4
    <3> QED
      BY <1>1, <1>2, <1>3, <2>2, <3>1 DEF Ends, Blank
  <2> QED
    BY <2>3, <2>4
<1>5. Blank(i - 1)
  <2>1. CASE i = 1
    <3>1. i - 1 \notin 1..l
      BY <2>1
    <3> QED
      BY <1>1, <3>1 DEF Blank
  <2>2. CASE i # 1
    <3>1. i # l + 1
      BY <1>2
    <3> QED
      BY <1>1, <2>2, <3>1 DEF Boundary, Blank, BlankAt
  <2> QED
    BY <2>1, <2>2
<1>6. n = l \/ (n + 1 \in 1..l /\ BlankAt(txt, n + 1))
  <2>1. CASE n = l
    BY <2>1
  <2>2. CASE n # l
    <3>1. n < l /\ n + 1 \in 1..l
      BY <1>2, <2>2
    <3>2. ~GoesOnWord(txt[n + 1])
      BY <1>1, <1>2, <3>1 DEF Ends
    <3> QED
      BY <1>3, <3>1, <3>2 DEF BlankAt
  <2> QED
    BY <2>1, <2>2
<1>7. Blank(n + 1)
  <2>1. n = l => n + 1 \notin 1..l
    BY <1>2
  <2> QED
    BY <1>1, <1>6, <2>1 DEF Blank, BlankAt
<1>8. SubSeq(txt, i, n) \in Fields(txt)
  <2>1. PICK piece : piece = <<i, n>>
    OBVIOUS
  <2>2. n \in 1..l /\ i <= n
    BY <1>2
  <2>3. /\ piece \in (1..Len(txt)) \X (1..Len(txt))
        /\ piece[1] = i /\ piece[2] = n
    BY <1>1, <1>2, <2>1, <2>2
  <2>4. /\ piece[1] <= piece[2] /\ Blank(piece[1] - 1) /\ Blank(piece[2] + 1)
        /\ \A k \in piece[1]..piece[2] : ~Blank(k)
    BY <1>4, <1>5, <1>7, <2>2, <2>3
  <2>5. SubSeq(txt, i, n) = SubSeq(txt, piece[1], piece[2])
    BY <2>3
  <2> QED
    BY <2>3, <2>4, <2>5, Zenon DEF Fields, Blank
<1>9. SubSeq(txt, i, n)[1] = txt[i]
  <2>1. PICK g : g = SubSeq(txt, i, n)
    OBVIOUS
  <2>2. 1 <= i /\ i <= n + 1 /\ n <= Len(txt)
    BY <1>1, <1>2
  <2>3. Piece(g, txt, i, n)
    BY <1>2, <2>1, <2>2, PieceGiven
  <2>4. 1 \in 1..(n - i + 1) /\ i + 1 - 1 = i
    BY <1>2
  <2>5. g[1] = txt[i]
    BY <2>3, <2>4 DEF Piece
  <2> QED
    BY <2>1, <2>5
<1>10. AfterWord(txt, n) = n + 1
  <2>1. n < l => n + 1 \in 1..l
    BY <1>2
  <2>2. ~(n < Len(txt) /\ txt[n + 1] = "nul")
    BY <1>1, <1>3, <2>1
  <2> QED
    BY <2>2 DEF AfterWord
<1>11. Boundary(txt, n + 1)
  BY <1>1, <1>6 DEF Boundary
<1> QED
  BY <1>8, <1>9, <1>10, <1>11

LEMMA BoundaryScanned ==
  ASSUME NEW txt \in Seq(Characters), Typable(txt), NEW from, Scans(from, txt),
         NEW i \in 1..(Len(txt) + 1), Boundary(txt, i),
         \A j \in 1..(Len(txt) + 1) :
           j > i /\ Boundary(txt, j) => WordsOnly(from[j], Fields(txt))
  PROVE  WordsOnly(from[i], Fields(txt))
<1>1. PICK l \in Nat : l = Len(txt) /\ DOMAIN txt = 1..l
  BY LenProperties
<1>2. from[i] = Scan(from, txt, i) /\ i \in 1..(l + 1)
  BY <1>1 DEF Scans
<1>3. CASE i = l + 1
  <2>1. i > Len(txt)
    BY <1>1, <1>3
  <2>2. from[i] = <<Token("EOF", <<>>)>>
    BY <1>2, <2>1 DEF Scan
  <2>3. WordsOnly(<<Token("EOF", <<>>)>>, Fields(txt))
    BY DEF WordsOnly, Token
  <2> QED
    BY <2>2, <2>3
<1>4. CASE i # l + 1
  <2>1. i \in 1..l /\ i + 1 \in 1..(l + 1) /\ i + 1 > i /\ ~(i > Len(txt))
    BY <1>1, <1>2, <1>4
  <2>2. (IsLetter(txt[i]) \/ txt[i] \in {" ", ":"}) /\ txt[i] # "nul"
    BY <1>1, <2>1, TypedCharacters DEF Typable
  <2> DEFINE c == txt[i]
             word == <<WordToken(SubSeq(txt, i, WordEnd(txt, i)))>>
                       \o from[AfterWord(txt, WordEnd(txt, i))]
             symbol == <<Token(SymbolToken[c], <<c>>)>> \o from[i + 1]
             illegal == <<Token("ILLEGAL", <<c>>)>> \o from[i + 1]
             blank == from[i + 1]
  <2>3. Scan(from, txt, i) = CASE c = " " -> blank
             [] c \in Symbols -> symbol
             [] IsLetter(c) -> word
             [] OTHER -> illegal
    BY <2>1, <2>2, Zenon DEF Scan
  <2>4. CASE BlankAt(txt, i)
    <3>1. from[i] = from[i + 1]
      <4>1. c = " " /\ c \notin Symbols /\ ~IsLetter(c)
        BY <2>4 DEF BlankAt, Symbols, IsLetter, NoLetters
      <4> HIDE DEF c, blank, symbol, word, illegal
      <4>2. Scan(from, txt, i) = blank
        BY <2>3, <4>1
      <4> QED
        BY <1>2, <4>2 DEF blank
    <3>2. (i + 1) - 1 = i
      BY <2>1
    <3>3. Boundary(txt, i + 1)
      BY <2>4, <3>2 DEF Boundary
    <3> QED
      BY <1>1, <2>1, <3>1, <3>3
  <2>5. CASE ~BlankAt(txt, i)
    <3>1. PICK n \in i..l : n = WordEnd(txt, i) /\ Ends(txt, i, n)
      BY <1>1, <2>1, WordEnds
    <3>2. PICK f : f = SubSeq(txt, i, n)
      OBVIOUS
    <3>3. /\ f \in Fields(txt) /\ f[1] = txt[i]
          /\ AfterWord(txt, n) = n + 1 /\ Boundary(txt, n + 1)
      BY <1>1, <2>1, <2>5, <3>1, <3>2, FieldScanned
    <3>4. /\ IsLetter(txt[i]) /\ txt[i] \notin Symbols
          /\ WordToken(f) = Token("WORD", f)
      <4>1. IsLetter(f[1]) /\ f \notin DOMAIN Keyword
        BY <3>3 DEF Typable
      <4> QED
        BY <3>3, <4>1, TypedCharacters DEF WordToken
    <3>5. from[i] = <<Token("WORD", f)>> \o from[n + 1]
      <4>1. word = <<Token("WORD", f)>> \o from[n + 1]
        BY <3>1, <3>2, <3>3, <3>4
      <4> HIDE DEF blank, symbol, word, illegal
      <4>2. Scan(from, txt, i) = word
        BY <2>3, <2>5, <3>4 DEF BlankAt
      <4> QED
        BY <1>2, <4>1, <4>2
    <3>6. n + 1 \in 1..(l + 1) /\ n + 1 > i
      BY <2>1, <3>1
    <3>7. /\ from[n + 1] \in TokenLists
          /\ WordsOnly(from[n + 1], Fields(txt))
      BY <1>1, <3>3, <3>6 DEF Scans
    <3>8. /\ Token("WORD", f) \in TokenSet
          /\ Token("WORD", f).tok = "WORD" /\ Token("WORD", f).lit = f
      <4>1. f \in Seq(Characters)
        BY <3>3, FieldParts
      <4> QED
        BY <4>1 DEF Token, TokenSet, TokenTypes
    <3>9. WordsOnly(<<Token("WORD", f)>> \o from[n + 1], Fields(txt))
      BY <3>3, <3>7, <3>8, WordsFirst
    <3> QED
      BY <3>5, <3>9
  <2> QED
    BY <2>4, <2>5
<1> QED
  BY <1>3, <1>4

LEMMA TypableScanned ==
  ASSUME NEW txt \in Seq(Characters), Typable(txt)
  PROVE  WordsOnly(Tokens(txt), Fields(txt))
<1> DEFINE C == 1..(Len(txt) + 1)
           m == [i \in C |-> Len(txt) + 1 - i]
<1>1. PICK from : Scans(from, txt) /\ Tokens(txt) = from[1]
  BY TokensScanned
<1> DEFINE Good == {i \in C : Boundary(txt, i) => WordsOnly(from[i], Fields(txt))}
<1>2. m \in [C -> Nat] /\ 1 \in C
  OBVIOUS
<1>3. ASSUME NEW i \in C, \A j \in C : m[j] < m[i] => j \in Good
      PROVE  i \in Good
  <2>1. \A j \in C : j > i => m[j] < m[i]
    OBVIOUS
  <2>2. \A j \in C : j > i /\ Boundary(txt, j) => WordsOnly(from[j], Fields(txt))
    BY <1>3, <2>1
  <2> QED
    BY <1>1, <2>2, BoundaryScanned
<1> HIDE DEF C, m, Good
<1>4. \A i \in C : i \in Good
  BY <1>2, <1>3, MeasureInduction, ZenonT(40)
<1>5. 1 \in Good
  BY <1>2, <1>4
<1> QED
  BY <1>1, <1>5 DEF Good, Boundary

(* Words without an operator between them are joined with AND.             *)
LEMMA WordJoined ==
  ASSUME AnyHeight, NEW W, NEW y \in Conjunctions(W), NEW z \in Conjunctions(W)
  PROVE  OpNode("AND", <<y, z>>) \in Conjunctions(W)
<1> DEFINE s == <<y, z>>
           x == OpNode("AND", s)
<1>1. y \in Trees /\ z \in Trees
  BY ConjunctionParts
<1>2. s \in Seq(Trees) /\ s # <<>>
  BY <1>1
<1>3. \A i \in DOMAIN s : s[i] \in Conjunctions(W)
  OBVIOUS
<1> HIDE DEF s
<1>4. x \in Trees /\ x.type = "AND" /\ x.children = s
  BY <1>2, NewOp
<1>5. OfWords(x, W, Conjunctions(W))
  BY <1>2, <1>3, <1>4 DEF OfWords
<1> QED
  BY <1>4, <1>5, ConjunctionMade DEF s

LEMMA WordsGrow ==
  ASSUME AnyHeight, NEW W, NEW ts \in TokenLists, WordsOnly(ts, W)
  PROVE  Grows(Conjunctions(W), ts)
<1> DEFINE T == Conjunctions(W)
<1>1. SUFFICES ASSUME NEW n \in DOMAIN ts
      PROVE  /\ ts[n].tok = "WORD" => QueryNode(ts[n].lit) \in T
             /\ ts[n].tok \in {"WITHOUT", "NOT"} =>
                  \A y \in T : OpNode("NOT", <<y>>) \in T
             /\ \A l \in 1..3 : GoesOn(l, ts[n].tok) =>
                  \A y, z \in T : OpNode(Operators[l], <<y, z>>) \in T
  BY DEF Grows
<1>2. ts[n].tok = "EOF" \/ (ts[n].tok = "WORD" /\ ts[n].lit \in W)
  BY DEF WordsOnly
<1>3. ASSUME ts[n].tok = "WORD" PROVE QueryNode(ts[n].lit) \in T
  <2> DEFINE word == ts[n].lit
             x == QueryNode(word)
  <2>1. word \in W /\ word \in Seq(Characters)
    BY <1>2, <1>3, TokenParts
  <2>2. x.type = "QUERY" /\ x.query = word
    BY DEF QueryNode
  <2>3. x \in Trees
    BY <2>1, NewWord
  <2> HIDE DEF x, word
  <2>4. OfWords(x, W, Conjunctions(W))
    BY <2>1, <2>2 DEF OfWords
  <2>5. x \in Conjunctions(W)
    BY <2>3, <2>4, ConjunctionMade
  <2> QED
    BY <2>5 DEF x, word
<1>4. ASSUME NEW l \in 1..3, GoesOn(l, ts[n].tok)
      PROVE  Operators[l] = "AND"
  BY <1>2, <1>4, Levels DEF GoesOn
<1>5. \A y, z \in T : OpNode("AND", <<y, z>>) \in T
  BY WordJoined
<1> HIDE DEF T
<1> QED
  BY <1>2, <1>3, <1>4, <1>5

(* Every text of words has a derivation.                                   *)
WordsMade(ts, at) == \E x : x \in Made(ts, 3, 1, at)

LEMMA WordsDerived ==
  ASSUME AnyHeight, NEW W, NEW ts \in TokenLists, WordsOnly(ts, W)
  PROVE  \A j \in Nat : j + 2 \in DOMAIN ts => WordsMade(ts, j + 2)
<1> DEFINE Good == {j \in Nat : j + 2 \in DOMAIN ts => WordsMade(ts, j + 2)}
<1>1. PICK n \in Nat : n = Len(ts) /\ DOMAIN ts = 1..n
  BY TokenParts
<1>2. ASSUME NEW i \in DOMAIN ts, i + 1 \in DOMAIN ts
      PROVE  ts[i].tok = "WORD" /\ QueryNode(ts[i].lit) \in Made(ts, 4, i, i + 1)
  <2>1. i # n
    BY <1>1, <1>2
  <2>2. ts[i].tok = "WORD"
    BY <1>1, <2>1, TokenParts DEF WordsOnly
  <2> QED
    BY <2>2, MadeWord
<1>3. 0 \in Good
  <2>1. SUFFICES ASSUME 2 \in DOMAIN ts PROVE WordsMade(ts, 2)
    OBVIOUS
  <2>2. 1 \in DOMAIN ts /\ 1 + 1 = 2 /\ 3 \in 1..3 /\ 3 + 1 = 4 /\ 1 < 2
    BY <1>1, <2>1
  <2>3. QueryNode(ts[1].lit) \in Made(ts, 3 + 1, 1, 2)
    BY <1>2, <2>1, <2>2
  <2>4. QueryNode(ts[1].lit) \in Made(ts, 3, 1, 2)
    BY <2>1, <2>2, <2>3, MadeUp
  <2> QED
    BY <2>4 DEF WordsMade
<1>4. ASSUME NEW j \in Nat, j \in Good PROVE j + 1 \in Good
  <2> DEFINE k == j + 2
  <2>1. SUFFICES ASSUME k + 1 \in DOMAIN ts PROVE WordsMade(ts, k + 1)
    OBVIOUS
  <2>2. /\ k \in DOMAIN ts /\ 1 \in DOMAIN ts /\ 1 < k /\ k < k + 1
        /\ 3 \in 1..3 /\ 3 + 1 = 4
    BY <1>1, <2>1
  <2>3. PICK y : y \in Made(ts, 3, 1, k)
    BY <1>4, <2>2 DEF WordsMade
  <2> HIDE DEF k
  <2>4. ts[k].tok = "WORD" /\ QueryNode(ts[k].lit) \in Made(ts, 3 + 1, k, k + 1)
    BY <1>2, <2>1, <2>2
  <2>5. GoesOn(3, ts[k].tok) /\ k = IF ts[k].tok = "WORD" THEN k ELSE k + 1
    BY <2>4 DEF GoesOn
  <2>6. OpNode(Operators[3], <<y, QueryNode(ts[k].lit)>>) \in Made(ts, 3, 1, k + 1)
    BY <2>1, <2>2, <2>3, <2>4, <2>5, MadePair
  <2> QED
    BY <2>6 DEF WordsMade
<1> HIDE DEF Good
<1>5. \A j \in Nat : j \in Good
  BY <1>3, <1>4, NatByInduction, Zenon
<1> QED
  BY <1>5 DEF Good

LEMMA WordsParsed ==
  ASSUME AnyHeight, NEW W, NEW ts \in TokenLists, WordsOnly(ts, W)
  PROVE  Parse(ts).ok /\ Parse(ts).node \in TagTrees(W)
<1>1. PICK n \in Nat : n = Len(ts) /\ DOMAIN ts = 1..n /\ n >= 1
  BY TokenParts
<1>2. CASE n = 1
  <2>1. 1 \in DOMAIN ts /\ ts[1].tok = "EOF"
    BY <1>1, <1>2, TokenParts
  <2>2. Parse(ts) = Parsed(AllQueryNode, 1)
    BY <2>1 DEF Parse
  <2> QED
    BY <2>2 DEF Parsed, TagTrees
<1>3. CASE n # 1
  <2>1. n - 2 \in Nat /\ (n - 2) + 2 = n /\ n \in DOMAIN ts /\ 1 \in DOMAIN ts
    BY <1>1, <1>3
  <2>2. PICK x : x \in Made(ts, 3, 1, n)
    BY <2>1, WordsDerived DEF WordsMade
  <2>3. 1 \in 1..3 /\ 2 \in 1..3 /\ 1 + 1 = 2 /\ 2 + 1 = 3 /\ 1 < n
    BY <1>1, <1>3
  <2>4. x \in Made(ts, 2, 1, n)
    BY <2>1, <2>2, <2>3, MadeUp
  <2>5. x \in Made(ts, 1, 1, n)
    BY <2>1, <2>3, <2>4, MadeUp
  <2>6. x \in Derived(ts)[Span(1, 1, Len(ts) - 1)]
    BY <1>1, <2>5 DEF Made
  <2>7. Parse(ts).ok /\ Parse(ts).node = x
    BY <1>1, <1>3, <2>6, ParseFinds
  <2>8. Span(1, 1, n - 1) \in Spans(ts)
    <3>1. 1 \in 1..4 /\ 1 \in 1..(n + 1) /\ n - 1 \in 0..n
      BY <1>1
    <3> QED
      BY <1>1, <3>1, SpanParts
  <2>9. Derived(ts)[Span(1, 1, n - 1)] \subseteq Conjunctions(W)
    BY <2>8, WordsGrow, DerivedIn
  <2> QED
    BY <1>1, <2>6, <2>7, <2>9 DEF TagTrees
<1> QED
  BY <1>2, <1>3

(* What the fields of a text that Typable allows are looked up with.       *)
LEMMA FieldsTyped ==
  ASSUME NEW txt \in Texts, Typable(txt)
  PROVE  /\ PlainWords(Fields(txt))
         /\ \A w \in Fields(txt) : QueryKey(w) \in TagWords(txt)
<1> DEFINE P == Characters \ {"__all", "__empty"}
           B == Characters \cup {" ", "u", "e"}
<1>1. txt \in Seq(P) /\ txt \in Seq(B) /\ txt \in Seq(Characters)
  <2>1. txt \in Seq(P) /\ txt \in Seq(Characters)
    BY TextsGiven
  <2>2. Characters \subseteq B
    OBVIOUS
  <2> HIDE DEF B
  <2> QED
    BY <2>1, <2>2, WiderSeq
<1>2. "__all" \notin P /\ "__empty" \notin P
  OBVIOUS
<1>3. Alphabet(B)
  BY DEF Alphabet
<1> HIDE DEF P, B
<1>4. \A w \in Fields(txt) : w \in Seq(P) /\ w # AllWord /\ w # <<"__empty">>
  <2>1. SUFFICES ASSUME NEW w \in Fields(txt)
                 PROVE  w \in Seq(P) /\ w # AllWord /\ w # <<"__empty">>
    OBVIOUS
  <2>2. w \in Seq(P)
    BY <1>1, FieldParts
  <2>3. w # <<"__all">> /\ w # <<"__empty">>
    BY <1>2, <2>2
  <2> QED
    BY <2>2, <2>3 DEF AllWord
<1>5. PlainWords(Fields(txt))
  BY <1>4 DEF PlainWords
<1>6. ASSUME NEW w \in Fields(txt) PROVE QueryKey(w) \in TagWords(txt)
  <2>1. ~IsLabel(w) /\ CleanString(w) # <<>>
    BY DEF Typable
  <2>2. QueryKey(w) = CleanString(w)
    BY <1>4, <2>1 DEF QueryKey
  <2>3. "-" \notin ToSet(w)
    <3>1. PICK p \in Seq(P), q \in Seq(P) : Between(txt, p, w, q)
      BY <1>1, FieldParts
    <3>2. w \in Seq(P)
      BY <1>4
    <3>3. p \o w \in Seq(P)
      BY <3>2
    <3>4. txt = (p \o w) \o q
      BY <3>1 DEF Between
    <3>5. PICK a \in Nat : a = Len(p) /\ DOMAIN p = 1..a
      BY LenProperties
    <3>6. PICK b \in Nat : b = Len(w) /\ DOMAIN w = 1..b
      BY <3>2, LenProperties
    <3>7. PICK c \in Nat : c = Len(q) /\ DOMAIN q = 1..c
      BY LenProperties
    <3>8. Joins(p \o w, p, a, w, b)
      BY <3>2, <3>5, <3>6, JoinGiven
    <3>9. a + b \in Nat /\ Len(p \o w) = a + b
      BY <3>5, <3>6, <3>8 DEF Joins
    <3>10. Joins(txt, p \o w, a + b, q, c)
      BY <3>3, <3>4, <3>7, <3>9, JoinGiven
    <3>11. \A i \in DOMAIN w : \E k \in DOMAIN txt : w[i] = txt[k]
      <4>1. SUFFICES ASSUME NEW i \in DOMAIN w
                     PROVE  \E k \in DOMAIN txt : w[i] = txt[k]
        OBVIOUS
      <4>2. i \in 1..b
        BY <3>6
      <4>3. a + i \in 1..(a + b) /\ a + i \in 1..((a + b) + c)
        BY <4>2
      <4>4. txt[a + i] = (p \o w)[a + i] /\ (p \o w)[a + i] = w[i]
        BY <3>8, <3>10, <4>2, <4>3 DEF Joins
      <4>5. a + i \in DOMAIN txt
        BY <3>10, <4>3 DEF Joins
      <4> QED
        BY <4>4, <4>5
    <3>12. \A k \in DOMAIN txt : txt[k] # "-"
      BY TypedCharacters DEF Typable
    <3> QED
      BY <3>11, <3>12 DEF ToSet
  <2>4. CleanString(w) \in ExtractWords(txt)
    BY <1>1, <1>3, <2>1, <2>3, FieldCleaned
  <2> QED
    BY <2>2, <2>4 DEF TagWords
<1> QED
  BY <1>5, <1>6

(* A query for words alone: it is a tree of its words until it is used.    *)
TypedInv ==
  Typable(text) =>
    /\ stage \notin {"rejected", "panicked"}
    /\ stage # "text" => ast \in TagTrees(Fields(text))
    /\ stage = "done" => answer = Hits(ast)

LEMMA TypedStep ==
  ASSUME AnyHeight, EngineInv, TypedInv, [Next]_vars
  PROVE  TypedInv'
<1>1. text' = text /\ Typable(text)' = Typable(text)
      /\ TagTrees(Fields(text))' = TagTrees(Fields(text))
  <2>1. text' = text
    BY DEF Next, ParseQuery, OptimizeQuery, Execute, vars
  <2> QED
    BY <2>1
<1> DEFINE W == Fields(text)
<1>2. SUFFICES ASSUME Typable(text)
               PROVE  /\ stage' \notin {"rejected", "panicked"}
                      /\ stage' # "text" => ast' \in TagTrees(W)
                      /\ stage' = "done" => answer' = Hits(ast')
  BY <1>1 DEF TypedInv, Hits
<1>3. text \in Texts /\ rule \in 0..Len(Rules) /\ (stage = "rules" => rule # 0)
  BY DEF EngineInv, TypeOK, PassesTypeOK
<1>4. PlainWords(W) /\ text \in Seq(Characters)
  BY <1>2, <1>3, FieldsTyped, TextsGiven
<1>5. /\ stage \notin {"rejected", "panicked"}
      /\ stage # "text" => ast \in TagTrees(W)
      /\ stage = "done" => answer = Hits(ast)
  BY <1>2 DEF TypedInv
<1> HIDE DEF W
<1>6. CASE ParseQuery
  <2> DEFINE ts == Tokens(text)
  <2>1. ts \in TokenLists /\ WordsOnly(ts, W)
    BY <1>2, <1>4, TokensGiven, TypableScanned DEF W
  <2>2. /\ stage' = IF Parse(ts).ok THEN "parsed" ELSE "rejected"
        /\ ast' = Parse(ts).node
    BY <1>6 DEF ParseQuery
  <2> HIDE DEF ts
  <2>3. Parse(ts).ok /\ Parse(ts).node \in TagTrees(W)
    BY <2>1, WordsParsed
  <2> QED
    BY <2>2, <2>3
<1>7. CASE OptimizeQuery
  <2>1. Optimize
    BY <1>7 DEF OptimizeQuery
  <2>2. CASE StartOptimizer
    <3>1. /\ stage = "parsed" /\ stage' = "rules"
          /\ ast' = Walked("canonicalizeNodeSortOrder")[ast]
      BY <2>2 DEF StartOptimizer
    <3>2. "canonicalizeNodeSortOrder" \in Passes /\ ast \in TagTrees(W)
      BY <1>5, <3>1 DEF Passes
    <3>3. ast' \in TagTrees(W)
      BY <1>4, <3>1, <3>2, TagTreesStay
    <3> QED
      BY <3>1, <3>3
  <2>3. CASE ApplyRule
    <3>1. /\ stage = "rules" /\ ast' = Walked(Rules[rule])[ast]
          /\ stage' \in {"rules", "optimized"}
      BY <2>3 DEF ApplyRule
    <3>2. Rules[rule] \in Passes /\ ast \in TagTrees(W)
      <4>1. Len(Rules) = 8
        BY DEF Rules
      <4>2. rule \in 1..8
        BY <1>3, <3>1, <4>1
      <4> QED
        BY <1>5, <3>1, <4>2 DEF Passes
    <3>3. ast' \in TagTrees(W)
      BY <1>4, <3>1, <3>2, TagTreesStay
    <3> QED
      BY <3>1, <3>3
  <2>4. CASE OptimizerPanics
    <3>1. stage = "rules" /\ RulePanics
      BY <2>4 DEF OptimizerPanics
    <3>2. ast \in TagTrees(W)
      BY <1>5, <3>1
    <3>3. Whole[ast] /\ ~CancelingPanics[ast]
      BY <1>4, <3>2, TagTreesStay
    <3> QED
      BY <3>1, <3>3 DEF RulePanics
  <2> QED
    BY <2>1, <2>2, <2>3, <2>4 DEF Optimize
<1>8. CASE Execute
  <2>1. /\ stage \in {"parsed", "optimized"} /\ stage' = "done"
        /\ answer' = Hits(ast) /\ ast' = ast
    BY <1>8 DEF Execute
  <2> QED
    BY <1>5, <2>1
<1>9. CASE UNCHANGED vars
  <2>1. stage' = stage /\ ast' = ast /\ answer' = answer
    BY <1>9 DEF vars, passVars
  <2> QED
    BY <1>5, <2>1
<1> QED
  BY <1>6, <1>7, <1>8, <1>9 DEF Next

LEMMA TypedInvariant ==
  ASSUME AnyHeight PROVE Spec => [](EngineInv /\ TypedInv)
<1>1. Init => TypedInv
  BY DEF Init, PassesInit, TypedInv
<1>2. EngineInv /\ TypedInv /\ [Next]_vars => TypedInv'
  BY TypedStep
<1> QED
  BY <1>1, <1>2, EngineInvariant, PTL DEF Spec

(* Whatever tag is typed that is cut into the same words everywhere, a post*)
(* that has the tag and nothing else is found, with the optimizer or       *)
(* without it (README.md:50): the scanner makes a token of each field, the *)
(* parser an AND of the words, the rules keep it one, and each word is     *)
(* cleaned to one that the tag is cut into (updates.go:197, actions.go:153)*)
THEOREM TypedTagFound == ASSUME AnyHeight PROVE Spec => []TagFound
<1>1. EngineInv /\ TypedInv => TagFound
  <2>1. SUFFICES ASSUME EngineInv, TypedInv, stage = "done", Typable(text)
                 PROVE  Finds(<<{AllWord} \cup TagWords(text)>>)[ast] # {}
    BY DEF TagFound
  <2> DEFINE W == Fields(text)
             idx == <<{AllWord} \cup TagWords(text)>>
  <2>2. PlainWords(W) /\ \A w \in W : QueryKey(w) \in TagWords(text)
    BY <2>1, FieldsTyped DEF EngineInv, TypeOK
  <2>3. ast \in TagTrees(W)
    BY <2>1 DEF TypedInv
  <2>4. 1 \in DOMAIN idx /\ idx[1] = {AllWord} \cup TagWords(text)
    OBVIOUS
  <2> HIDE DEF W, idx
  <2>5. AllWord \in idx[1] /\ \A w \in W : QueryKey(w) \in idx[1]
    BY <2>2, <2>4
  <2>6. 1 \in Finds(idx)[ast]
    BY <2>2, <2>3, <2>4, <2>5, TagTreesFind
  <2> QED
    BY <2>6 DEF idx
<1> QED
  BY <1>1, TypedInvariant, PTL

(* The posts that have the tag that is typed. *)
Tagged == {p \in Posts : text \in p.tags}

(* Such a query is never turned down and never makes the optimizer panic,  *)
(* and in the index of all posts it finds every post that has the tag,     *)
(* whatever other tags and labels the post has (parser.go, optimize.go,    *)
(* updates.go:197).                                                        *)
THEOREM TypedTagAnswered ==
  ASSUME AnyHeight
  PROVE  Spec => [](Typable(text) =>
                      /\ stage \notin {"rejected", "panicked"}
                      /\ stage = "done" => Tagged \subseteq answer)
<1>1. EngineInv /\ TypedInv =>
        (Typable(text) => /\ stage \notin {"rejected", "panicked"}
                          /\ stage = "done" => Tagged \subseteq answer)
  <2>1. SUFFICES ASSUME EngineInv, TypedInv, Typable(text)
                 PROVE  /\ stage \notin {"rejected", "panicked"}
                        /\ stage = "done" => Tagged \subseteq answer
    OBVIOUS
  <2> DEFINE W == Fields(text)
  <2>2. PlainWords(W) /\ \A w \in W : QueryKey(w) \in TagWords(text)
    BY <2>1, FieldsTyped DEF EngineInv, TypeOK
  <2>3. /\ stage \notin {"rejected", "panicked"}
        /\ stage = "done" => ast \in TagTrees(W) /\ answer = Finds(Index)[ast]
    BY <2>1 DEF TypedInv, Hits
  <2> HIDE DEF W
  <2>4. ASSUME stage = "done", NEW p \in Tagged PROVE p \in answer
    <3>1. p \in Posts /\ text \in p.tags
      BY <2>4 DEF Tagged
    <3>2. p \in DOMAIN Index /\ Index[p] = KeysOf(p)
      BY <3>1 DEF Index
    <3>3. AllWord \in Index[p] /\ TagWords(text) \subseteq Index[p]
      BY <3>1, <3>2 DEF KeysOf
    <3>4. \A w \in W : QueryKey(w) \in Index[p]
      BY <2>2, <3>3
    <3>5. p \in Finds(Index)[ast]
      BY <2>2, <2>3, <2>4, <3>2, <3>3, <3>4, TagTreesFind
    <3> QED
      BY <2>3, <2>4, <3>5
  <2> QED
    BY <2>3, <2>4
<1> QED
  BY <1>1, TypedInvariant, PTL
=============================================================================
