--------------------------- MODULE OptimizerProofs ---------------------------
(***************************************************************************)
(* The rules of the optimizer keep the shape of a tree and what it finds,  *)
(* for trees of any height and any posts (parser/optimize.go).             *)
(***************************************************************************)
EXTENDS OptimizerPasses, CodecsProofs

(* The trees of the code: there is no limit to their height. *)
AnyHeight == Heights = Nat

-----------------------------------------------------------------------------
(* Trees.  NodesOver are the nodes whose children are in a set of trees.   *)
NodesOver(trees) ==
  {node \in [type : NodeTypes, query : Seq(Characters), children : Seq(trees)] :
     WellFormed(node)}

IsTower(f, n) ==
  f = [h \in 0..n |-> IF h = 0 THEN {} ELSE NodesOver(f[h - 1])]

LEMMA TowerExists == \A n \in Nat : \E f : IsTower(f, n)
<1> DEFINE Good == {n \in Nat : \E f : IsTower(f, n)}
<1>1. 0 \in Good
  <2> DEFINE f == [h \in 0..0 |-> {}]
  <2>1. IsTower(f, 0)
    BY DEF IsTower
  <2> QED
    BY <2>1
<1>2. ASSUME NEW n \in Nat, n \in Good PROVE n + 1 \in Good
  <2>1. PICK f : IsTower(f, n)
    BY <1>2
  <2> DEFINE g == [h \in 0..(n + 1) |->
                     IF h = n + 1 THEN NodesOver(f[n]) ELSE f[h]]
             e == [h \in 0..(n + 1) |->
                     IF h = 0 THEN {} ELSE NodesOver(g[h - 1])]
  <2>2. ASSUME NEW h \in 0..(n + 1) PROVE g[h] = e[h]
    <3>1. CASE h = n + 1
      <4>1. h # 0 /\ h - 1 = n /\ n \in 0..(n + 1) /\ n # n + 1
        BY <3>1
      <4>2. g[n] = f[n]
        BY <4>1
      <4> QED
        BY <3>1, <4>1, <4>2
    <3>2. CASE h # n + 1 /\ h # 0
      <4>1. h \in 0..n /\ h - 1 \in 0..(n + 1) /\ h - 1 # n + 1
        BY <3>2
      <4>2. f[h] = NodesOver(f[h - 1])
        BY <2>1, <3>2, <4>1 DEF IsTower
      <4>3. g[h] = f[h] /\ g[h - 1] = f[h - 1]
        BY <3>2, <4>1
      <4>4. e[h] = NodesOver(g[h - 1])
        BY <3>2
      <4> QED
        BY <4>2, <4>3, <4>4
    <3>3. CASE h # n + 1 /\ h = 0
      <4>1. h \in 0..n
        BY <3>3
      <4>2. f[h] = {}
        BY <2>1, <3>3, <4>1 DEF IsTower
      <4> QED
        BY <3>3, <4>2
    <3> QED
      BY <3>1, <3>2, <3>3
  <2>3. g = e
    BY <2>2
  <2> HIDE DEF g
  <2>4. IsTower(g, n + 1)
    BY <2>3 DEF IsTower
  <2>5. n + 1 \in Nat
    OBVIOUS
  <2> QED
    BY <2>4, <2>5
<1> HIDE DEF Good
<1>3. \A n \in Nat : n \in Good
  BY <1>1, <1>2, NatByInduction
<1> QED
  BY <1>3 DEF Good

LEMMA TowersAgree ==
  ASSUME NEW m \in Nat, NEW n \in Nat, NEW f, IsTower(f, m), NEW g, IsTower(g, n)
  PROVE  \A h \in Nat : h <= m /\ h <= n => f[h] = g[h]
<1> DEFINE Good == {h \in Nat : h <= m /\ h <= n => f[h] = g[h]}
<1>1. 0 \in Good
  <2>1. f[0] = {} /\ g[0] = {}
    BY DEF IsTower
  <2> QED
    BY <2>1
<1>2. ASSUME NEW h \in Nat, h \in Good PROVE h + 1 \in Good
  <2>1. CASE h + 1 <= m /\ h + 1 <= n
    <3>1. f[h] = g[h]
      BY <1>2, <2>1
    <3>2. /\ h + 1 \in 0..m /\ h + 1 \in 0..n
          /\ h + 1 # 0 /\ (h + 1) - 1 = h
      BY <2>1
    <3>3. f[h + 1] = NodesOver(f[h]) /\ g[h + 1] = NodesOver(g[h])
      BY <3>2 DEF IsTower
    <3> QED
      BY <3>1, <3>3
  <2> QED
    BY <2>1
<1> HIDE DEF Good
<1>3. \A h \in Nat : h \in Good
  BY <1>1, <1>2, NatByInduction
<1> QED
  BY <1>3 DEF Good

(* The trees of a height are the nodes over those of the height below.     *)
LEMMA TreesByHeight ==
  /\ TreesUpTo[0] = {}
  /\ \A h \in Nat : TreesUpTo[h + 1] = NodesOver(TreesUpTo[h])
<1> DEFINE tower == [n \in Nat |-> CHOOSE f : IsTower(f, n)]
           trees == [n \in Nat |-> tower[n][n]]
           e == [h \in Nat |->
                   IF h = 0 THEN {} ELSE NodesOver(trees[h - 1])]
<1>1. \A n \in Nat : IsTower(tower[n], n)
  BY TowerExists
<1> HIDE DEF tower
<1>2. ASSUME NEW h \in Nat PROVE trees[h] = e[h]
  <2>1. CASE h = 0
    <3>1. IsTower(tower[0], 0) /\ 0 \in 0..0
      BY <1>1
    <3>2. tower[0][0] = {}
      BY <3>1 DEF IsTower
    <3> QED
      BY <2>1, <3>2
  <2>2. CASE h # 0
    <3>1. h - 1 \in Nat /\ h \in 0..h /\ h - 1 <= h
      BY <2>2
    <3>2. tower[h][h] = NodesOver(tower[h][h - 1])
      BY <1>1, <2>2, <3>1 DEF IsTower
    <3>3. tower[h][h - 1] = tower[h - 1][h - 1]
      BY <1>1, <3>1, TowersAgree
    <3> QED
      BY <2>2, <3>1, <3>2, <3>3
  <2> QED
    BY <2>1, <2>2
<1>3. trees = e
  BY <1>2
<1> HIDE DEF trees
<1>4. trees = [h \in Nat |-> IF h = 0 THEN {} ELSE NodesOver(trees[h - 1])]
  BY <1>3
<1>5. TreesUpTo = [h \in Nat |->
                     IF h = 0 THEN {} ELSE NodesOver(TreesUpTo[h - 1])]
  BY <1>4 DEF TreesUpTo, NodesOver
<1>6. \A h \in Nat : h + 1 \in Nat /\ h + 1 # 0 /\ (h + 1) - 1 = h
  OBVIOUS
<1> QED
  BY <1>5, <1>6

LEMMA MoreNodes ==
  ASSUME NEW S, NEW T, S \subseteq T
  PROVE  NodesOver(S) \subseteq NodesOver(T)
<1>1. Seq(S) \subseteq Seq(T)
  OBVIOUS
<1> QED
  BY <1>1 DEF NodesOver

LEMMA HigherTrees ==
  \A k \in Nat : \A h \in Nat : h <= k => TreesUpTo[h] \subseteq TreesUpTo[k]
<1> DEFINE Step == {h \in Nat : TreesUpTo[h] \subseteq TreesUpTo[h + 1]}
           Good == {k \in Nat : \A h \in Nat :
                      h <= k => TreesUpTo[h] \subseteq TreesUpTo[k]}
<1>1. 0 \in Step
  BY TreesByHeight
<1>2. ASSUME NEW h \in Nat, h \in Step PROVE h + 1 \in Step
  <2>1. h + 1 \in Nat
    OBVIOUS
  <2>2. NodesOver(TreesUpTo[h]) \subseteq NodesOver(TreesUpTo[h + 1])
    BY <1>2, MoreNodes
  <2> QED
    BY <2>1, <2>2, TreesByHeight
<1>3. \A h \in Nat : h \in Step
  <2> HIDE DEF Step
  <2> QED
    BY <1>1, <1>2, NatByInduction
<1>4. 0 \in Good
  BY <1>3
<1>5. ASSUME NEW k \in Nat, k \in Good PROVE k + 1 \in Good
  <2>1. ASSUME NEW h \in Nat, h <= k + 1
        PROVE  TreesUpTo[h] \subseteq TreesUpTo[k + 1]
    <3>1. h <= k \/ h = k + 1
      BY <2>1
    <3> QED
      BY <1>3, <1>5, <3>1
  <2> QED
    BY <2>1
<1> HIDE DEF Good
<1>6. \A k \in Nat : k \in Good
  BY <1>4, <1>5, NatByInduction
<1> QED
  BY <1>6 DEF Good

(* Finitely many trees have a height in common. *)
LEMMA CommonHeight ==
  ASSUME AnyHeight, NEW nodes \in Seq(Trees)
  PROVE  \E h \in Nat : nodes \in Seq(TreesUpTo[h])
<1>1. PICK n \in Nat : n = Len(nodes)
  BY LenProperties
<1> DEFINE Good == {m \in Nat : m <= n =>
                      \E h \in Nat : \A i \in 1..m : nodes[i] \in TreesUpTo[h]}
<1>2. 0 \in Good
  OBVIOUS
<1>3. ASSUME NEW m \in Nat, m \in Good PROVE m + 1 \in Good
  <2>1. SUFFICES ASSUME m + 1 <= n
                 PROVE  \E h \in Nat :
                          \A i \in 1..(m + 1) : nodes[i] \in TreesUpTo[h]
    OBVIOUS
  <2>2. PICK h \in Nat : \A i \in 1..m : nodes[i] \in TreesUpTo[h]
    BY <1>3, <2>1
  <2>3. nodes[m + 1] \in Trees
    BY <1>1, <2>1, ElementOfSeq
  <2>4. PICK k \in Nat : nodes[m + 1] \in TreesUpTo[k]
    BY <2>3 DEF Trees, AnyHeight
  <2>5. PICK l \in Nat : h <= l /\ k <= l
    OBVIOUS
  <2>6. TreesUpTo[h] \subseteq TreesUpTo[l] /\ TreesUpTo[k] \subseteq TreesUpTo[l]
    BY <2>5, HigherTrees
  <2>7. \A i \in 1..(m + 1) : i \in 1..m \/ i = m + 1
    OBVIOUS
  <2> QED
    BY <2>2, <2>4, <2>6, <2>7
<1> HIDE DEF Good
<1>4. n \in Good
  BY <1>2, <1>3, NatByInduction
<1>5. PICK h \in Nat : \A i \in 1..n : nodes[i] \in TreesUpTo[h]
  BY <1>4 DEF Good
<1>6. nodes = [i \in 1..n |-> nodes[i]]
  BY <1>1
<1>7. nodes \in Seq(TreesUpTo[h])
  BY <1>5, <1>6
<1> QED
  BY <1>7

(* Trees are all the nodes that can be made of them. *)
LEMMA TreesAreNodes ==
  ASSUME AnyHeight
  PROVE  Trees = NodesOver(Trees)
<1>1. ASSUME NEW x \in Trees PROVE x \in NodesOver(Trees)
  <2>1. PICK h \in Nat : x \in TreesUpTo[h]
    BY DEF Trees, AnyHeight
  <2>2. h # 0 /\ h - 1 \in Nat /\ (h - 1) + 1 = h
    BY <2>1, TreesByHeight
  <2>3. x \in NodesOver(TreesUpTo[h - 1])
    BY <2>1, <2>2, TreesByHeight
  <2>4. TreesUpTo[h - 1] \subseteq Trees
    BY <2>2 DEF Trees, AnyHeight
  <2> QED
    BY <2>3, <2>4, MoreNodes
<1>2. ASSUME NEW x \in NodesOver(Trees) PROVE x \in Trees
  <2>1. x.children \in Seq(Trees)
    BY DEF NodesOver
  <2>2. PICK h \in Nat : x.children \in Seq(TreesUpTo[h])
    BY <2>1, CommonHeight
  <2>3. x \in NodesOver(TreesUpTo[h])
    BY <2>2 DEF NodesOver
  <2>4. x \in TreesUpTo[h + 1] /\ h + 1 \in Nat
    BY <2>3, TreesByHeight
  <2> QED
    BY <2>4 DEF Trees, AnyHeight
<1> QED
  BY <1>1, <1>2

-----------------------------------------------------------------------------
(* The children of a tree are below it, and no child is higher.            *)
LEMMA ChildrenBelow ==
  \A h \in Nat : \A x \in TreesUpTo[h] :
    /\ x.children \in Seq(TreesUpTo[h])
    /\ h # 0 /\ h - 1 \in Nat /\ x.children \in Seq(TreesUpTo[h - 1])
<1>1. ASSUME NEW h \in Nat, NEW x \in TreesUpTo[h]
      PROVE  /\ x.children \in Seq(TreesUpTo[h])
             /\ h # 0 /\ h - 1 \in Nat /\ x.children \in Seq(TreesUpTo[h - 1])
  <2>1. h # 0 /\ h - 1 \in Nat /\ (h - 1) + 1 = h /\ h - 1 <= h
    BY TreesByHeight
  <2>2. x.children \in Seq(TreesUpTo[h - 1])
    BY <2>1, TreesByHeight DEF NodesOver
  <2>3. TreesUpTo[h - 1] \subseteq TreesUpTo[h]
    BY <2>1, HigherTrees
  <2>4. x.children \in Seq(TreesUpTo[h])
    BY <2>2, <2>3, SeqMonotonic
  <2> QED
    BY <2>1, <2>2, <2>4
<1> QED
  BY <1>1

LEMMA TreeParts ==
  ASSUME AnyHeight, NEW x \in Trees
  PROVE  /\ x.type \in NodeTypes /\ x.query \in Seq(Characters)
         /\ x.children \in Seq(Trees)
         /\ Len(x.children) \in Nat
         /\ DOMAIN x.children = 1..Len(x.children)
         /\ x.children = [i \in 1..Len(x.children) |-> x.children[i]]
         /\ \A i \in DOMAIN x.children : x.children[i] \in Trees
         /\ WellFormed(x)
         /\ x = [type |-> x.type, query |-> x.query, children |-> x.children]
<1>1. x \in NodesOver(Trees)
  BY TreesAreNodes
<1>2. /\ x.type \in NodeTypes /\ x.query \in Seq(Characters)
      /\ x.children \in Seq(Trees) /\ WellFormed(x)
      /\ x = [type |-> x.type, query |-> x.query, children |-> x.children]
  BY <1>1 DEF NodesOver
<1> QED
  BY <1>2, LenProperties

LEMMA TreeMade ==
  ASSUME AnyHeight, NEW type \in NodeTypes, NEW query \in Seq(Characters),
         NEW children \in Seq(Trees),
         type = "QUERY" => children = <<>>,
         type = "NOT" => Len(children) = 1
  PROVE  [type |-> type, query |-> query, children |-> children] \in Trees
<1>1. [type |-> type, query |-> query, children |-> children] \in NodesOver(Trees)
  BY DEF NodesOver, WellFormed
<1> QED
  BY <1>1, TreesAreNodes

(* Induction over trees, as a statement about a set of them.               *)
LEMMA TreeInduction ==
  ASSUME AnyHeight, NEW Good,
         \A x \in Trees :
           (\A i \in DOMAIN x.children : x.children[i] \in Good) => x \in Good
  PROVE  \A x \in Trees : x \in Good
<1> DEFINE Low == {h \in Nat : \A x \in TreesUpTo[h] : x \in Good}
<1>1. 0 \in Low
  BY TreesByHeight
<1>2. ASSUME NEW h \in Nat, h \in Low PROVE h + 1 \in Low
  <2>1. ASSUME NEW x \in TreesUpTo[h + 1] PROVE x \in Good
    <3>1. h + 1 \in Nat /\ (h + 1) - 1 = h
      OBVIOUS
    <3>2. x.children \in Seq(TreesUpTo[h])
      BY <3>1, ChildrenBelow
    <3>3. \A i \in DOMAIN x.children : x.children[i] \in Good
      BY <1>2, <3>2
    <3>4. x \in Trees
      BY <3>1 DEF Trees, AnyHeight
    <3> QED
      BY <3>3, <3>4
  <2> QED
    BY <2>1
<1> HIDE DEF Low
<1>3. \A h \in Nat : h \in Low
  BY <1>1, <1>2, NatByInduction
<1> QED
  BY <1>3 DEF Low, Trees, AnyHeight

(* A function over trees that is defined by recursion exists: what it says *)
(* of a node depends on the node and on what it says of the children.      *)
Below(f, x) == [i \in DOMAIN x.children |-> f[x.children[i]]]

Follows(f, trees, G) == f = [x \in trees |-> G[x][Below(f, x)]]

LEMMA OneMoreHeight ==
  ASSUME AnyHeight, NEW S, NEW G \in [Trees -> [Seq(S) -> S]],
         NEW h \in Nat, NEW f \in [TreesUpTo[h] -> S],
         Follows(f, TreesUpTo[h], G)
  PROVE  \E g \in [TreesUpTo[h + 1] -> S] : Follows(g, TreesUpTo[h + 1], G)
<1> DEFINE g == [x \in TreesUpTo[h + 1] |-> G[x][Below(f, x)]]
<1>1. /\ h + 1 \in Nat /\ (h + 1) - 1 = h /\ h <= h + 1
      /\ TreesUpTo[h] \subseteq TreesUpTo[h + 1]
  BY HigherTrees
<1>2. ASSUME NEW x \in TreesUpTo[h + 1]
      PROVE  /\ x \in Trees /\ Below(f, x) \in Seq(S)
             /\ \A i \in DOMAIN x.children : x.children[i] \in TreesUpTo[h]
  <2>1. x.children \in Seq(TreesUpTo[h])
    BY <1>1, ChildrenBelow
  <2>2. x \in Trees
    BY <1>1 DEF Trees, AnyHeight
  <2>3. Below(f, x) \in Seq(S)
    BY <2>1 DEF Below
  <2> QED
    BY <2>1, <2>2, <2>3
<1>3. g \in [TreesUpTo[h + 1] -> S]
  BY <1>2
<1>4. ASSUME NEW x \in TreesUpTo[h] PROVE g[x] = f[x]
  BY <1>1 DEF Follows
<1>5. ASSUME NEW x \in TreesUpTo[h + 1] PROVE Below(g, x) = Below(f, x)
  BY <1>2, <1>4 DEF Below
<1> HIDE DEF g
<1>6. g = [x \in TreesUpTo[h + 1] |-> G[x][Below(g, x)]]
  BY <1>5 DEF g
<1> QED
  BY <1>3, <1>6 DEF Follows

Closed(trees) ==
  trees \subseteq Trees
  /\ \A x \in trees : \A i \in DOMAIN x.children : x.children[i] \in trees

LEMMA SameBelow ==
  ASSUME AnyHeight, NEW G, NEW A, NEW B, NEW f, NEW g,
         Closed(A), Closed(B), Follows(f, A, G), Follows(g, B, G),
         NEW x, x \in A, x \in B
  PROVE  f[x] = g[x]
<1> DEFINE Good == {y \in Trees : y \in A /\ y \in B => f[y] = g[y]}
<1>1. ASSUME NEW y \in Trees,
             \A i \in DOMAIN y.children : y.children[i] \in Good
      PROVE  y \in Good
  <2>1. SUFFICES ASSUME y \in A, y \in B PROVE f[y] = g[y]
    OBVIOUS
  <2>2. \A i \in DOMAIN y.children : y.children[i] \in A \cap B
    BY <2>1 DEF Closed
  <2>3. Below(f, y) = Below(g, y)
    BY <1>1, <2>2 DEF Below
  <2> QED
    BY <2>1, <2>3 DEF Follows
<1>2. x \in Trees
  BY DEF Closed
<1> HIDE DEF Good
<1>3. \A y \in Trees : y \in Good
  BY <1>1, TreeInduction
<1> QED
  BY <1>2, <1>3 DEF Good

LEMMA HeightsClosed == ASSUME AnyHeight PROVE \A h \in Nat : Closed(TreesUpTo[h])
BY ChildrenBelow DEF Closed, Trees, AnyHeight

LEMMA TreeRecursion ==
  ASSUME AnyHeight, NEW S, NEW G \in [Trees -> [Seq(S) -> S]]
  PROVE  \E f \in [Trees -> S] : Follows(f, Trees, G)
<1> DEFINE Good == {h \in Nat : \E f \in [TreesUpTo[h] -> S] :
                                  Follows(f, TreesUpTo[h], G)}
<1>1. 0 \in Good
  <2>1. [x \in {} |-> G[x]] \in [TreesUpTo[0] -> S]
        /\ Follows([x \in {} |-> G[x]], TreesUpTo[0], G)
    BY TreesByHeight DEF Follows
  <2> QED
    BY <2>1
<1>2. ASSUME NEW h \in Nat, h \in Good PROVE h + 1 \in Good
  BY <1>2, OneMoreHeight
<1> HIDE DEF Good
<1>3. \A h \in Nat : h \in Good
  BY <1>1, <1>2, NatByInduction
<1> DEFINE upto == [h \in Nat |-> CHOOSE f \in [TreesUpTo[h] -> S] :
                                    Follows(f, TreesUpTo[h], G)]
           height == [x \in Trees |-> CHOOSE h \in Nat : x \in TreesUpTo[h]]
           F == [x \in Trees |-> upto[height[x]][x]]
<1>4. ASSUME NEW h \in Nat
      PROVE  /\ upto[h] \in [TreesUpTo[h] -> S]
             /\ Follows(upto[h], TreesUpTo[h], G)
  BY <1>3 DEF Good
<1>5. ASSUME NEW x \in Trees
      PROVE  height[x] \in Nat /\ x \in TreesUpTo[height[x]]
  BY DEF Trees, AnyHeight
<1> HIDE DEF upto, height
<1>6. ASSUME NEW x \in Trees, NEW h \in Nat, x \in TreesUpTo[h]
      PROVE  F[x] = upto[h][x]
  <2>1. PICK k \in Nat : k = height[x]
    BY <1>5
  <2>2. PICK f : f = upto[h]
    OBVIOUS
  <2>3. PICK g : g = upto[k]
    OBVIOUS
  <2>4. Follows(g, TreesUpTo[k], G) /\ Follows(f, TreesUpTo[h], G)
    BY <1>4, <2>2, <2>3
  <2>5. x \in TreesUpTo[k] \cap TreesUpTo[h]
    BY <1>5, <1>6, <2>1
  <2>6. Closed(TreesUpTo[k]) /\ Closed(TreesUpTo[h])
    BY HeightsClosed
  <2>7. g[x] = f[x]
    BY <2>4, <2>5, <2>6, SameBelow, SMT
  <2> QED
    BY <2>1, <2>2, <2>3, <2>7
<1>7. F \in [Trees -> S]
  BY <1>4, <1>5
<1>8. ASSUME NEW x \in Trees PROVE F[x] = G[x][Below(F, x)]
  <2>1. PICK h \in Nat : x \in TreesUpTo[h]
    BY <1>5
  <2>2. \A i \in DOMAIN x.children : x.children[i] \in TreesUpTo[h]
    <3>1. x.children \in Seq(TreesUpTo[h])
      BY <2>1, ChildrenBelow
    <3> QED
      BY <3>1
  <2>3. \A i \in DOMAIN x.children : x.children[i] \in Trees
    BY <2>2 DEF Trees, AnyHeight
  <2> HIDE DEF F
  <2>4. Below(F, x) = Below(upto[h], x)
    BY <1>6, <2>2, <2>3 DEF Below
  <2>5. upto[h][x] = G[x][Below(upto[h], x)]
    BY <1>4, <2>1 DEF Follows
  <2> QED
    BY <1>6, <2>1, <2>4, <2>5
<1> HIDE DEF F
<1>9. F = [x \in Trees |-> G[x][Below(F, x)]]
  BY <1>7, <1>8
<1> QED
  BY <1>7, <1>9 DEF Follows

-----------------------------------------------------------------------------
(* A walk exists for every rule.  What a rule makes of a node need not be a*)
(* tree, when the node has a WITHOUT of nothing, so that the recursion has *)
(* no set of results to begin with.                                        *)
WithBelow(f, x) == [x EXCEPT !.children = Below(f, x)]

Walks(f, trees, r) ==
  f = [x \in trees |-> Rewritten(r, WithBelow(f, x))]

LEMMA HigherWalk ==
  ASSUME AnyHeight, NEW r, NEW h \in Nat, NEW f, Walks(f, TreesUpTo[h], r)
  PROVE  \E g : Walks(g, TreesUpTo[h + 1], r)
<1> DEFINE g == [x \in TreesUpTo[h + 1] |-> Rewritten(r, WithBelow(f, x))]
<1>1. /\ h + 1 \in Nat /\ (h + 1) - 1 = h /\ h <= h + 1
      /\ TreesUpTo[h] \subseteq TreesUpTo[h + 1]
  BY HigherTrees
<1>2. ASSUME NEW x \in TreesUpTo[h + 1]
      PROVE  \A i \in DOMAIN x.children : x.children[i] \in TreesUpTo[h]
  <2>1. x.children \in Seq(TreesUpTo[h])
    BY <1>1, ChildrenBelow
  <2> QED
    BY <2>1
<1>3. ASSUME NEW x \in TreesUpTo[h] PROVE g[x] = f[x]
  BY <1>1 DEF Walks
<1>4. ASSUME NEW x \in TreesUpTo[h + 1] PROVE WithBelow(g, x) = WithBelow(f, x)
  BY <1>2, <1>3 DEF Below, WithBelow
<1> HIDE DEF g
<1>5. g = [x \in TreesUpTo[h + 1] |-> Rewritten(r, WithBelow(g, x))]
  BY <1>4 DEF g
<1> QED
  BY <1>5 DEF Walks

LEMMA SameWalk ==
  ASSUME AnyHeight, NEW r, NEW A, NEW B, NEW f, NEW g,
         Closed(A), Closed(B), Walks(f, A, r), Walks(g, B, r),
         NEW x, x \in A, x \in B
  PROVE  f[x] = g[x]
<1> DEFINE Good == {y \in Trees : y \in A /\ y \in B => f[y] = g[y]}
<1>1. ASSUME NEW y \in Trees,
             \A i \in DOMAIN y.children : y.children[i] \in Good
      PROVE  y \in Good
  <2>1. SUFFICES ASSUME y \in A, y \in B PROVE f[y] = g[y]
    OBVIOUS
  <2>2. \A i \in DOMAIN y.children : y.children[i] \in A \cap B
    BY <2>1 DEF Closed
  <2>3. WithBelow(f, y) = WithBelow(g, y)
    BY <1>1, <2>2 DEF Below, WithBelow
  <2> QED
    BY <2>1, <2>3 DEF Walks
<1>2. x \in Trees
  BY DEF Closed
<1> HIDE DEF Good
<1>3. \A y \in Trees : y \in Good
  BY <1>1, TreeInduction
<1> QED
  BY <1>2, <1>3 DEF Good

LEMMA WalkExists ==
  ASSUME AnyHeight, NEW r
  PROVE  \E f : Walks(f, Trees, r)
<1> DEFINE Good == {h \in Nat : \E f : Walks(f, TreesUpTo[h], r)}
<1>1. 0 \in Good
  <2>1. Walks([x \in {} |-> x], TreesUpTo[0], r)
    BY TreesByHeight DEF Walks
  <2> QED
    BY <2>1
<1>2. ASSUME NEW h \in Nat, h \in Good PROVE h + 1 \in Good
  BY <1>2, HigherWalk
<1> HIDE DEF Good
<1>3. \A h \in Nat : h \in Good
  BY <1>1, <1>2, NatByInduction
<1> DEFINE upto == [h \in Nat |-> CHOOSE f : Walks(f, TreesUpTo[h], r)]
           height == [x \in Trees |-> CHOOSE h \in Nat : x \in TreesUpTo[h]]
           F == [x \in Trees |-> upto[height[x]][x]]
<1>4. ASSUME NEW h \in Nat PROVE Walks(upto[h], TreesUpTo[h], r)
  BY <1>3 DEF Good
<1>5. ASSUME NEW x \in Trees
      PROVE  height[x] \in Nat /\ x \in TreesUpTo[height[x]]
  BY DEF Trees, AnyHeight
<1> HIDE DEF upto, height
<1>6. ASSUME NEW x \in Trees, NEW h \in Nat, x \in TreesUpTo[h]
      PROVE  F[x] = upto[h][x]
  <2>1. PICK k \in Nat : k = height[x]
    BY <1>5
  <2>2. PICK f : f = upto[h]
    OBVIOUS
  <2>3. PICK g : g = upto[k]
    OBVIOUS
  <2>4. Walks(g, TreesUpTo[k], r) /\ Walks(f, TreesUpTo[h], r)
    BY <1>4, <2>2, <2>3
  <2>5. x \in TreesUpTo[k] \cap TreesUpTo[h]
    BY <1>5, <1>6, <2>1
  <2>6. Closed(TreesUpTo[k]) /\ Closed(TreesUpTo[h])
    BY HeightsClosed
  <2>7. g[x] = f[x]
    BY <2>4, <2>5, <2>6, SameWalk, SMT
  <2> QED
    BY <2>1, <2>2, <2>3, <2>7
<1>7. ASSUME NEW x \in Trees PROVE F[x] = Rewritten(r, WithBelow(F, x))
  <2>1. PICK h \in Nat : x \in TreesUpTo[h]
    BY <1>5
  <2>2. \A i \in DOMAIN x.children : x.children[i] \in TreesUpTo[h]
    <3>1. x.children \in Seq(TreesUpTo[h])
      BY <2>1, ChildrenBelow
    <3> QED
      BY <3>1
  <2>3. \A i \in DOMAIN x.children : x.children[i] \in Trees
    BY <2>2 DEF Trees, AnyHeight
  <2> HIDE DEF F
  <2>4. WithBelow(F, x) = WithBelow(upto[h], x)
    BY <1>6, <2>2, <2>3 DEF Below, WithBelow
  <2>5. upto[h][x] = Rewritten(r, WithBelow(upto[h], x))
    BY <1>4, <2>1 DEF Walks
  <2> QED
    BY <1>6, <2>1, <2>4, <2>5
<1>8. F = [x \in Trees |-> F[x]]
  OBVIOUS
<1> HIDE DEF F
<1>9. F = [x \in Trees |-> Rewritten(r, WithBelow(F, x))]
  BY <1>7, <1>8
<1> QED
  BY <1>9 DEF Walks

(* The walk through a tree, a node after its children. *)
LEMMA WalkedStep ==
  ASSUME AnyHeight, NEW r, NEW x \in Trees
  PROVE  Walked(r)[x] = Rewritten(r, WithBelow(Walked(r), x))
<1>1. PICK f : Walks(f, Trees, r)
  BY WalkExists
<1>2. f = [y \in Trees |->
             Rewritten(r, [y EXCEPT !.children =
                             [i \in DOMAIN y.children |-> f[y.children[i]]]])]
  BY <1>1 DEF Walks, WithBelow, Below
<1>3. Walked(r) = [y \in Trees |->
             Rewritten(r, [y EXCEPT !.children =
                   [i \in DOMAIN y.children |-> Walked(r)[y.children[i]]]])]
  BY <1>2 DEF Walked
<1> QED
  BY <1>3 DEF WithBelow, Below
-----------------------------------------------------------------------------
LEMMA BelowParts ==
  ASSUME AnyHeight, NEW S, NEW f, NEW x \in Trees,
         \A y \in Trees : f[y] \in S
  PROVE  /\ Below(f, x) \in Seq(S)
         /\ Len(Below(f, x)) = Len(x.children)
         /\ DOMAIN Below(f, x) = DOMAIN x.children
         /\ \A i \in DOMAIN x.children : Below(f, x)[i] = f[x.children[i]]
<1>1. PICK n \in Nat : n = Len(x.children)
  BY TreeParts
<1>2. DOMAIN x.children = 1..n /\ \A i \in 1..n : x.children[i] \in Trees
  BY <1>1, TreeParts
<1>3. Below(f, x) = [i \in 1..n |-> f[x.children[i]]]
  BY <1>2 DEF Below
<1>4. /\ [i \in 1..n |-> f[x.children[i]]] \in Seq(S)
      /\ Len([i \in 1..n |-> f[x.children[i]]]) = n
  BY <1>2
<1> QED
  BY <1>1, <1>2, <1>3, <1>4

(* Whole, Meaning, LessThan, ContainsOnly and DropsTerm, node by node.     *)
LEMMA WholeStep ==
  ASSUME AnyHeight
  PROVE  /\ Whole \in [Trees -> BOOLEAN]
         /\ \A x \in Trees :
              Whole[x] <=> /\ ~IsHollow(x)
                           /\ \A i \in DOMAIN x.children : Whole[x.children[i]]
<1> DEFINE G == [x \in Trees |-> [s \in Seq(BOOLEAN) |->
                   ~IsHollow(x) /\ \A i \in DOMAIN x.children : s[i]]]
<1>1. G \in [Trees -> [Seq(BOOLEAN) -> BOOLEAN]]
  OBVIOUS
<1>2. PICK f \in [Trees -> BOOLEAN] : Follows(f, Trees, G)
  BY <1>1, TreeRecursion
<1>3. ASSUME NEW x \in Trees
      PROVE  f[x] = (/\ ~IsHollow(x)
                     /\ \A i \in DOMAIN x.children : f[x.children[i]])
  <2>1. Below(f, x) \in Seq(BOOLEAN)
    BY BelowParts
  <2>2. f[x] = G[x][Below(f, x)]
    BY <1>2 DEF Follows
  <2>3. \A i \in DOMAIN x.children : Below(f, x)[i] = f[x.children[i]]
    BY DEF Below
  <2> QED
    BY <2>1, <2>2, <2>3
<1>4. f = [x \in Trees |-> /\ ~IsHollow(x)
                           /\ \A i \in DOMAIN x.children : f[x.children[i]]]
  BY <1>3
<1> HIDE DEF G
<1>5. Whole = [x \in Trees |-> /\ ~IsHollow(x)
                      /\ \A i \in DOMAIN x.children : Whole[x.children[i]]]
  BY <1>4 DEF Whole
<1>6. Whole \in [Trees -> BOOLEAN]
  BY <1>5
<1> QED
  BY <1>5, <1>6

(* The case distinction of Meaning, over what the children stand for.      *)
Means(x, of) ==
  CASE x.type = "QUERY" -> WordFinds(Index, x)
    [] x.type = "AND" -> {p \in Posts : \A i \in DOMAIN of : p \in of[i]}
    [] x.type = "OR" -> {p \in Posts : \E i \in DOMAIN of : p \in of[i]}
    [] x.type = "WITHOUT" ->
         {p \in Posts : /\ DOMAIN of # {} /\ p \in of[1]
                        /\ \A i \in DOMAIN of \ {1} : p \notin of[i]}
    [] x.type = "NOT" -> Posts \ of[1]

LEMMA MeaningStep ==
  ASSUME AnyHeight
  PROVE  /\ Meaning \in [Trees -> SUBSET Posts]
         /\ \A x \in Trees : Meaning[x] = Means(x, Below(Meaning, x))
<1> DEFINE S == SUBSET Posts
           G == [x \in Trees |-> [s \in Seq(S) |-> Means(x, s)]]
<1>1. ASSUME NEW x \in Trees, NEW s PROVE Means(x, s) \in S
  <2>1. x.type \in NodeTypes
    BY TreeParts
  <2>2. WordFinds(Index, x) \in S
    BY DEF WordFinds, Index
  <2> QED
    BY <2>1, <2>2 DEF NodeTypes, Means
<1>2. G \in [Trees -> [Seq(S) -> S]]
  BY <1>1
<1>3. PICK f \in [Trees -> S] : Follows(f, Trees, G)
  BY <1>2, TreeRecursion
<1>4. ASSUME NEW x \in Trees PROVE f[x] = Means(x, Below(f, x))
  <2>1. Below(f, x) \in Seq(S)
    BY BelowParts
  <2>2. f[x] = G[x][Below(f, x)]
    BY <1>3 DEF Follows
  <2> QED
    BY <2>1, <2>2
<1> HIDE DEF G
<1>5. f = [x \in Trees |-> Means(x, Below(f, x))]
  BY <1>4
<1>6. Meaning = [x \in Trees |-> Means(x, Below(Meaning, x))]
  BY <1>5, Zenon DEF Meaning, Means, Below
<1>7. \A x \in Trees : Meaning[x] = Means(x, Below(Meaning, x))
  BY <1>6
<1>8. Meaning \in [Trees -> S]
  BY <1>1, <1>6
<1> QED
  BY <1>6, <1>7, <1>8

(* LessThan of two nodes, from the children in which x is less than what.  *)
Less(x, y, below) ==
  \/ SmallerItself(x, y)
  \/ \E i \in DOMAIN x.children \cap DOMAIN y.children :
       below[i][y.children[i]]

LEMMA LessThanStep ==
  ASSUME AnyHeight
  PROVE  \A x, y \in Trees :
           LessThan[x][y] <=>
             \/ TypeRank[x.type] < TypeRank[y.type]
             \/ QueryLess(x.query, y.query)
             \/ \E i \in DOMAIN x.children \cap DOMAIN y.children :
                  LessThan[x.children[i]][y.children[i]]
             \/ Len(x.children) < Len(y.children)
<1> DEFINE S == [Trees -> BOOLEAN]
           G == [x \in Trees |-> [s \in Seq(S) |->
                   [y \in Trees |-> Less(x, y, s)]]]
<1>1. ASSUME NEW x \in Trees, NEW s PROVE [y \in Trees |-> Less(x, y, s)] \in S
  BY DEF Less, SmallerItself
<1>2. G \in [Trees -> [Seq(S) -> S]]
  BY <1>1
<1>3. PICK f \in [Trees -> S] : Follows(f, Trees, G)
  BY <1>2, TreeRecursion
<1>4. ASSUME NEW x \in Trees
      PROVE  f[x] = [y \in Trees |-> Less(x, y, Below(f, x))]
  <2>1. Below(f, x) \in Seq(S)
    BY BelowParts
  <2>2. f[x] = G[x][Below(f, x)]
    BY <1>3 DEF Follows
  <2> QED
    BY <2>1, <2>2
<1> HIDE DEF G
<1> DEFINE Row(g, x) == [y \in Trees |->
             \/ SmallerItself(x, y)
             \/ \E i \in DOMAIN x.children \cap DOMAIN y.children :
                  g[x.children[i]][y.children[i]]]
<1>5. ASSUME NEW x \in Trees PROVE f[x] = Row(f, x)
  <2>1. ASSUME NEW y \in Trees PROVE Less(x, y, Below(f, x)) = Row(f, x)[y]
    BY DEF Below, Less
  <2> QED
    BY <1>4, <2>1
<1>6. f = [x \in Trees |-> Row(f, x)]
  BY <1>5
<1>7. LessThan = [x \in Trees |-> Row(LessThan, x)]
  BY <1>6, ZenonT(40) DEF LessThan
<1>8. \A x \in Trees : LessThan[x] = Row(LessThan, x)
  BY <1>7
<1> QED
  BY <1>8 DEF SmallerItself

(* Where a node has the word for certain: itself, a child of an AND, the   *)
(* first child of a WITHOUT.                                               *)
OnlyIn(x, word, of) ==
  CASE x.type = "QUERY" -> x.query = word
    [] x.type = "AND" -> \E i \in DOMAIN of : of[i]
    [] x.type = "WITHOUT" /\ of # <<>> -> of[1]
    [] OTHER -> FALSE

LEMMA ContainsOnlyStep ==
  ASSUME AnyHeight, NEW word
  PROVE  \A x \in Trees :
           ContainsOnly(word)[x] =
             (CASE x.type = "QUERY" -> x.query = word
                [] x.type = "AND" ->
                     \E i \in DOMAIN x.children :
                       ContainsOnly(word)[x.children[i]]
                [] x.type = "WITHOUT" /\ ~IsHollow(x) ->
                     ContainsOnly(word)[x.children[1]]
                [] OTHER -> FALSE)
<1> DEFINE S == BOOLEAN
           G == [x \in Trees |-> [s \in Seq(S) |-> OnlyIn(x, word, s)]]
<1>1. ASSUME NEW x \in Trees, NEW s \in Seq(S) PROVE OnlyIn(x, word, s) \in S
  <2>1. s # <<>> => s[1] \in S
    <3>1. s # <<>> => 1 \in 1..Len(s)
      BY EmptySeq
    <3> QED
      BY <3>1, ElementOfSeq
  <2> QED
    BY <2>1 DEF OnlyIn
<1>2. G \in [Trees -> [Seq(S) -> S]]
  BY <1>1
<1>3. PICK f \in [Trees -> S] : Follows(f, Trees, G)
  BY <1>2, TreeRecursion
<1>4. ASSUME NEW x \in Trees
      PROVE  /\ f[x] = OnlyIn(x, word, Below(f, x))
             /\ DOMAIN Below(f, x) = DOMAIN x.children
             /\ Below(f, x) = <<>> <=> x.children = <<>>
             /\ \A i \in DOMAIN x.children : Below(f, x)[i] = f[x.children[i]]
             /\ x.children # <<>> => 1 \in DOMAIN x.children
  <2>1. /\ Below(f, x) \in Seq(S)
        /\ Len(Below(f, x)) = Len(x.children)
        /\ DOMAIN Below(f, x) = DOMAIN x.children
        /\ \A i \in DOMAIN x.children : Below(f, x)[i] = f[x.children[i]]
    BY BelowParts
  <2>2. f[x] = G[x][Below(f, x)]
    BY <1>3 DEF Follows
  <2>3. x.children \in Seq(Trees)
    BY TreeParts
  <2>4. /\ Below(f, x) = <<>> <=> x.children = <<>>
        /\ x.children # <<>> => 1 \in DOMAIN x.children
    BY <2>1, <2>3, EmptySeq, LenProperties
  <2> QED
    BY <2>1, <2>2, <2>4
<1> HIDE DEF G
<1> DEFINE At(g, x) ==
             CASE x.type = "QUERY" -> x.query = word
               [] x.type = "AND" ->
                    \E i \in DOMAIN x.children : g[x.children[i]]
               [] x.type = "WITHOUT" /\ ~IsHollow(x) -> g[x.children[1]]
               [] OTHER -> FALSE
<1>5. ASSUME NEW x \in Trees PROVE f[x] = At(f, x)
  <2>1. CASE x.type = "WITHOUT" /\ ~IsHollow(x)
    BY <1>4, <2>1 DEF OnlyIn, IsHollow
  <2>2. CASE x.type = "WITHOUT" /\ IsHollow(x)
    BY <1>4, <2>2 DEF OnlyIn, IsHollow
  <2>3. CASE x.type # "WITHOUT"
    BY <1>4, <2>3 DEF OnlyIn
  <2> QED
    BY <2>1, <2>2, <2>3
<1>6. f = [x \in Trees |-> At(f, x)]
  BY <1>5
<1>7. ContainsOnly(word) = [x \in Trees |-> At(ContainsOnly(word), x)]
  BY <1>6 DEF ContainsOnly
<1>8. \A x \in Trees : ContainsOnly(word)[x] = At(ContainsOnly(word), x)
  BY <1>7
<1> QED
  BY <1>8

(* Where the walk with the rule 7 drops a term. *)
DropsHere(x) ==
  /\ x.type = "OR"
  /\ \E i, j \in DOMAIN x.children :
       LET rewritten == Below(Walked(Rules[7]), x)
       IN rewritten[j].type # "WITHOUT" /\ Excludes(rewritten[i], rewritten[j])

LEMMA DropsTermStep ==
  ASSUME AnyHeight
  PROVE  \A x \in Trees :
           DropsTerm[x] <=> \/ DropsHere(x)
                            \/ \E i \in DOMAIN x.children :
                                 DropsTerm[x.children[i]]
<1> DEFINE S == BOOLEAN
           G == [x \in Trees |-> [s \in Seq(S) |->
                   DropsHere(x) \/ \E i \in DOMAIN x.children : s[i]]]
<1>1. G \in [Trees -> [Seq(S) -> S]]
  BY DEF DropsHere
<1>2. PICK f \in [Trees -> S] : Follows(f, Trees, G)
  BY <1>1, TreeRecursion
<1>3. ASSUME NEW x \in Trees
      PROVE  f[x] = (\/ \E i \in DOMAIN x.children : f[x.children[i]]
                     \/ DropsHere(x))
  <2>0. \A y \in Trees : f[y] \in S
    OBVIOUS
  <2> HIDE DEF S
  <2>1. Below(f, x) \in Seq(S)
    BY <2>0, BelowParts
  <2>3. \A i \in DOMAIN x.children : Below(f, x)[i] = f[x.children[i]]
    BY DEF Below
  <2>2. f[x] = G[x][Below(f, x)]
    BY <1>2 DEF Follows
  <2> QED
    BY <2>1, <2>2, <2>3 DEF S
<1> HIDE DEF G
<1>4. f = [x \in Trees |-> (\/ \E i \in DOMAIN x.children : f[x.children[i]]
                            \/ DropsHere(x))]
  BY <1>3
<1>5. DropsTerm =
        [x \in Trees |-> (\/ \E i \in DOMAIN x.children :
                              DropsTerm[x.children[i]]
                          \/ DropsHere(x))]
  BY <1>4, Zenon DEF DropsTerm, DropsHere, Below
<1> QED
  BY <1>5

-----------------------------------------------------------------------------
(* The order of the nodes.  It may call each of two nodes the smaller one, *)
(* but when it calls neither so, the two are equal.                        *)
LEMMA CharRankTells ==
  ASSUME NEW c \in Characters, NEW d \in Characters
  PROVE  /\ CharRank[c] \in Nat /\ CharRank[d] \in Nat
         /\ CharRank[c] = CharRank[d] => c = d
<1>1. DOMAIN ByteOrder = 1..Len(ByteOrder) /\ Len(ByteOrder) \in Nat
  BY OrderAssumption, LenProperties
<1>2. \A e \in Characters : \E i \in DOMAIN ByteOrder : ByteOrder[i] = e
  BY DEF Characters, ToSet
<1>3. \A e \in Characters : /\ CharRank[e] \in DOMAIN ByteOrder
                            /\ ByteOrder[CharRank[e]] = e
  BY <1>2 DEF CharRank
<1>4. \A i \in DOMAIN ByteOrder : i \in Nat
  BY <1>1
<1> QED
  BY <1>3, <1>4

LEMMA EqualQueries ==
  ASSUME NEW p \in Seq(Characters), NEW q \in Seq(Characters),
         ~QueryLess(p, q), ~QueryLess(q, p)
  PROVE  p = q
<1>1. PICK m \in Nat : m = Len(p)
  BY LenProperties
<1>2. PICK n \in Nat : n = Len(q)
  BY LenProperties
<1>3. /\ DOMAIN p = 1..m /\ DOMAIN q = 1..n
      /\ \A i \in 1..m : p[i] \in Characters
      /\ \A i \in 1..n : q[i] \in Characters
  BY <1>1, <1>2, LenProperties, ElementOfSeq
<1> DEFINE Differs == {i \in Nat : /\ i \in 1..m \/ i \in 1..n
                                   /\ ~(i \in 1..m /\ i \in 1..n /\ p[i] = q[i])}
<1>4. CASE Differs = {}
  <2>1. \A i \in Nat : i \in 1..m <=> i \in 1..n
    BY <1>4
  <2>2. m = n
    <3>1. m \in 1..m => m <= n
      BY <2>1
    <3>2. n \in 1..n => n <= m
      BY <2>1
    <3> QED
      BY <3>1, <3>2
  <2>3. \A i \in 1..m : p[i] = q[i]
    BY <1>4
  <2> QED
    BY <1>1, <1>2, <2>2, <2>3, SeqEqual
<1>5. CASE Differs # {}
  <2>1. PICK i \in Differs : \A j \in Differs : i <= j
    BY <1>5, LeastNat
  <2>2. ASSUME NEW j \in 1..(i - 1)
        PROVE  j \in 1..m /\ j \in 1..n /\ p[j] = q[j]
    <3>1. j \in Nat /\ ~(i <= j) /\ (j \in 1..m \/ j \in 1..n)
      OBVIOUS
    <3> QED
      BY <2>1, <3>1
  <2>3. CASE i \in 1..m /\ i \in 1..n
    <3>1. p[i] # q[i] /\ p[i] \in Characters /\ q[i] \in Characters
      BY <1>3, <2>3
    <3>2. \/ CharRank[p[i]] < CharRank[q[i]]
          \/ CharRank[q[i]] < CharRank[p[i]]
      <4>1. PICK a \in Nat : a = CharRank[p[i]]
        BY <3>1, CharRankTells
      <4>2. PICK b \in Nat : b = CharRank[q[i]]
        BY <3>1, CharRankTells
      <4>3. a # b
        BY <3>1, <4>1, <4>2, CharRankTells
      <4> QED
        BY <4>1, <4>2, <4>3
    <3> QED
      BY <1>3, <2>2, <2>3, <3>2 DEF QueryLess
  <2>4. CASE i \notin 1..m
    BY <1>3, <2>2, <2>4 DEF QueryLess
  <2>5. CASE i \notin 1..n
    BY <1>3, <2>2, <2>5 DEF QueryLess
  <2> QED
    BY <2>3, <2>4, <2>5
<1> QED
  BY <1>4, <1>5

LEMMA EqualTypes ==
  ASSUME NEW s \in NodeTypes, NEW t \in NodeTypes,
         ~(TypeRank[s] < TypeRank[t]), ~(TypeRank[t] < TypeRank[s])
  PROVE  s = t
BY DEF NodeTypes, TypeRank

LEMMA EqualNodes ==
  ASSUME AnyHeight
  PROVE  \A x, y \in Trees : ~LessThan[x][y] /\ ~LessThan[y][x] => x = y
<1> DEFINE Good == {x \in Trees : \A y \in Trees :
                      ~LessThan[x][y] /\ ~LessThan[y][x] => x = y}
<1>1. ASSUME NEW x \in Trees,
             \A i \in DOMAIN x.children : x.children[i] \in Good
      PROVE  x \in Good
  <2>1. SUFFICES ASSUME NEW y \in Trees, ~LessThan[x][y], ~LessThan[y][x]
                 PROVE  x = y
    OBVIOUS
  <2>2. x.type = y.type
    BY <2>1, LessThanStep, TreeParts, EqualTypes
  <2>3. x.query = y.query
    BY <2>1, LessThanStep, TreeParts, EqualQueries
  <2>4. Len(x.children) = Len(y.children)
    BY <2>1, LessThanStep, TreeParts
  <2>5. ASSUME NEW i \in DOMAIN x.children
        PROVE  x.children[i] = y.children[i]
    <3>1. DOMAIN x.children = DOMAIN y.children
      BY <2>4, TreeParts
    <3>2. x.children[i] \in Good /\ y.children[i] \in Trees
      BY <1>1, <3>1, TreeParts
    <3>3. /\ ~LessThan[x.children[i]][y.children[i]]
          /\ ~LessThan[y.children[i]][x.children[i]]
      BY <2>1, <3>1, LessThanStep
    <3> QED
      BY <3>2, <3>3
  <2>6. x.children = y.children
    BY <2>4, <2>5, TreeParts, ZenonT(40)
  <2> QED
    BY <2>2, <2>3, <2>6, TreeParts
<1> HIDE DEF Good
<1>2. \A x \in Trees : x \in Good
  BY <1>1, TreeInduction
<1> QED
  BY <1>2 DEF Good

-----------------------------------------------------------------------------
(* The sequences that the rules make of the children of a node.            *)
(* What is put into an ordered sequence comes between two neighbours that  *)
(* it may stand between.                                                   *)
MayFollow(x, y) == LessThan[x][y] \/ ~LessThan[y][x]

InOrder(s) == \A i \in DOMAIN s : i + 1 \in DOMAIN s => MayFollow(s[i], s[i + 1])

Place(s, x, at) ==
  /\ at > 0 => ~LessThan[x][s[at]]
  /\ \A j \in (at + 1)..Len(s) : LessThan[x][s[j]]

LEMMA PlaceExists ==
  ASSUME NEW s, NEW x, Len(s) \in Nat
  PROVE  \E at \in 0..Len(s) : Place(s, x, at)
<1>1. PICK n \in Nat : n = Len(s)
  OBVIOUS
<1> DEFINE Stops == {i \in 1..n : ~LessThan[x][s[i]]}
           Ends == {i \in 0..n : n - i \in Stops}
<1>2. CASE Stops = {}
  <2>1. Place(s, x, 0) /\ 0 \in 0..Len(s)
    BY <1>1, <1>2 DEF Place
  <2> QED
    BY <2>1
<1>3. CASE Stops # {}
  <2>1. \A i \in Stops : n - i \in Ends /\ n - (n - i) = i
    OBVIOUS
  <2>2. Ends # {} /\ Ends \in SUBSET (0..n)
    BY <1>3, <2>1
  <2>3. PICK e \in Ends : \A i \in Ends : e <= i
    <3>1. 0 \in Int /\ n \in Int
      OBVIOUS
    <3> HIDE DEF Ends
    <3> QED
      BY <2>2, <3>1, LeastInRange
  <2>4. n - e \in Stops /\ \A i \in Stops : i <= n - e
    <3>1. n - e \in Stops
      BY <2>3
    <3>2. ASSUME NEW i \in Stops PROVE i <= n - e
      <4>1. PICK j \in Ends : j = n - i
        BY <2>1
      <4>2. e <= j
        BY <2>3
      <4> QED
        BY <4>1, <4>2
    <3> QED
      BY <3>1, <3>2
  <2>5. \A j \in (n - e + 1)..n : j \in 1..n /\ ~(j <= n - e)
    BY <2>4
  <2>6. Place(s, x, n - e) /\ n - e \in 0..n
    BY <1>1, <2>4, <2>5 DEF Place
  <2> QED
    BY <1>1, <2>6
<1> QED
  BY <1>2, <1>3

(* A sequence r that is one of m elements and one of n behind it. *)
Joined(r, s, m, t, n) ==
  /\ Len(r) = m + n /\ DOMAIN r = 1..(m + n)
  /\ \A i \in 1..m : r[i] = s[i]
  /\ \A i \in 1..n : r[m + i] = t[i]

LEMMA ConcatAt ==
  ASSUME NEW T, NEW s \in Seq(T), NEW t \in Seq(T), NEW m \in Nat, NEW n \in Nat,
         m = Len(s), n = Len(t), NEW r, r = s \o t
  PROVE  r \in Seq(T) /\ Joined(r, s, m, t, n)
<1>1. r \in Seq(T) /\ Len(r) = Len(s) + Len(t)
  BY ConcatParts
<1>2. \A i \in 1..Len(s) : r[i] = s[i]
  BY ConcatParts
<1>3. \A i \in 1..Len(t) : r[Len(s) + i] = t[i]
  BY ConcatParts
<1> QED
  BY <1>1, <1>2, <1>3, LenProperties, Zenon DEF Joined

LEMMA RestOf ==
  ASSUME NEW n \in Nat, NEW k \in 0..n
  PROVE  n - k \in Nat /\ k + (n - k) = n /\ k + 1 \in Nat
  OBVIOUS

(* A sequence r that is s with x put in behind the first k. *)
Insertion(r, s, n, k, x) ==
  /\ Len(r) = n + 1 /\ DOMAIN r = 1..(n + 1)
  /\ r[k + 1] = x
  /\ \A i \in 1..k : r[i] = s[i]
  /\ \A i \in (k + 1)..n : r[i + 1] = s[i]

LEMMA InsertGives ==
  ASSUME NEW T, NEW s \in Seq(T), NEW x \in T, NEW n \in Nat, n = Len(s),
         NEW k \in 0..n, NEW r, r = InsertAt(s, k + 1, x)
  PROVE  r \in Seq(T) /\ Insertion(r, s, n, k, x)
<1> DEFINE a == SubSeq(s, 1, k)
           b == SubSeq(s, k + 1, n)
<1>1. \A i \in 1..n : s[i] \in T
  BY ElementOfSeq
<1>2. /\ a \in Seq(T) /\ Len(a) = k /\ \A i \in 1..k : a[i] = s[i]
  <2>1. \A i \in 1..k : i \in 1..n
    OBVIOUS
  <2>2. \A i \in 1..k : s[i] \in T /\ 1 + i - 1 = i
    BY <1>1, <2>1
  <2> QED
    BY <2>2, SubSeqProperties
<1>3. /\ b \in Seq(T) /\ Len(b) = n - k
      /\ \A i \in 1..(n - k) : b[i] = s[k + i]
  <2>1. \A i \in (k + 1)..n : i \in 1..n
    OBVIOUS
  <2>2. \A i \in (k + 1)..n : s[i] \in T
    BY <1>1, <2>1
  <2>3. \A i \in 1..(n - k) : (k + 1) + i - 1 = k + i
    OBVIOUS
  <2>4. n - (k + 1) + 1 = n - k
    OBVIOUS
  <2> QED
    BY <2>2, <2>3, <2>4, SubSeqProperties, SMTT(30)
<1>4. r = (a \o <<x>>) \o b
  <2>1. (k + 1) - 1 = k
    OBVIOUS
  <2> QED
    BY <2>1 DEF InsertAt
<1> HIDE DEF a, b
<1> DEFINE ax == a \o <<x>>
<1>5. /\ ax \in Seq(T) /\ Len(ax) = k + 1
      /\ ax[k + 1] = x /\ \A i \in 1..k : ax[i] = a[i]
  <2>1. <<x>> \in Seq(T) /\ Len(<<x>>) = 1 /\ <<x>>[1] = x
    OBVIOUS
  <2> DEFINE u == <<x>>
  <2>2. u \in Seq(T) /\ 1 = Len(u) /\ u[1] = x
    BY <2>1
  <2> HIDE DEF u
  <2>3. ax \in Seq(T) /\ Joined(ax, a, k, u, 1)
    <3>1. k \in Nat /\ 1 \in Nat /\ k = Len(a)
      BY <1>2
    <3>2. ax = a \o u
      BY DEF u
    <3> HIDE DEF ax
    <3> QED
      BY <1>2, <2>2, <3>1, <3>2, ConcatAt, Zenon
  <2> HIDE DEF ax
  <2>4. /\ Len(ax) = k + 1
        /\ \A i \in 1..k : ax[i] = a[i]
        /\ \A i \in 1..1 : ax[k + i] = u[i]
    BY <2>3 DEF Joined
  <2>5. ax[k + 1] = x
    BY <2>2, <2>4
  <2> QED
    BY <2>3, <2>4, <2>5
<1> HIDE DEF ax
<1>6. r = ax \o b
  BY <1>4 DEF ax
<1>7. /\ r \in Seq(T) /\ Len(r) = (k + 1) + (n - k)
      /\ \A i \in 1..(k + 1) : r[i] = ax[i]
      /\ \A i \in 1..(n - k) : r[(k + 1) + i] = b[i]
  <2>1. PICK l \in Nat : l = k + 1
    OBVIOUS
  <2>2. PICK m \in Nat : m = n - k
    BY RestOf
  <2>3. /\ ax \in Seq(T) /\ l = Len(ax) /\ b \in Seq(T) /\ m = Len(b)
    BY <1>3, <1>5, <2>1, <2>2
  <2>4. /\ r \in Seq(T) /\ Len(r) = l + m
        /\ \A i \in 1..l : r[i] = ax[i]
        /\ \A i \in 1..m : r[l + i] = b[i]
    <3>1. r \in Seq(T) /\ Joined(r, ax, l, b, m)
      BY <1>6, <2>3, ConcatAt, Zenon
    <3> QED
      BY <3>1 DEF Joined
  <2> QED
    BY <2>1, <2>2, <2>4
<1>8. \A i \in (k + 1)..n : i - k \in 1..(n - k) /\ (k + 1) + (i - k) = i + 1
                            /\ k + (i - k) = i
  OBVIOUS
<1>9. ASSUME NEW i \in (k + 1)..n PROVE r[i + 1] = s[i]
  <2>1. PICK j \in 1..(n - k) : (k + 1) + j = i + 1 /\ k + j = i
    BY <1>8
  <2>2. r[(k + 1) + j] = b[j] /\ b[j] = s[k + j]
    BY <1>3, <1>7
  <2> QED
    BY <2>1, <2>2
<1>10. k + 1 \in 1..(k + 1) /\ \A i \in 1..k : i \in 1..(k + 1)
  OBVIOUS
<1>11. (k + 1) + (n - k) = n + 1
  OBVIOUS
<1> QED
  BY <1>2, <1>5, <1>7, <1>9, <1>10, <1>11, LenProperties DEF Insertion

(* What r is when x is sorted into the n nodes of s. *)
SortedIn(r, T, s, n, x) ==
  /\ r \in Seq(T) /\ Len(r) = n + 1 /\ InOrder(r)
  /\ ToSet(r) = ToSet(s) \cup {x}

LEMMA InsertedGives ==
  ASSUME NEW T \in SUBSET Trees, NEW s \in Seq(T), NEW x \in T,
         NEW n \in Nat, n = Len(s), InOrder(s),
         NEW r, r = Inserted(s, x)
  PROVE  SortedIn(r, T, s, n, x)
<1>1. PICK k \in 0..n : Place(s, x, k) /\ r = InsertAt(s, k + 1, x)
  BY PlaceExists DEF Inserted, Place
<1>2. /\ r \in Seq(T) /\ Len(r) = n + 1 /\ DOMAIN r = 1..(n + 1)
      /\ r[k + 1] = x
      /\ \A i \in 1..k : r[i] = s[i]
      /\ \A i \in (k + 1)..n : r[i + 1] = s[i]
  <2>1. r \in Seq(T) /\ Insertion(r, s, n, k, x)
    BY <1>1, InsertGives, Zenon
  <2> QED
    BY <2>1 DEF Insertion
<1>3. DOMAIN s = 1..n
  BY LenProperties
<1>4. ASSUME NEW i \in 1..(n + 1), i + 1 \in 1..(n + 1)
      PROVE  MayFollow(r[i], r[i + 1])
  <2>1. CASE i + 1 <= k
    <3>1. i \in 1..k /\ i + 1 \in 1..k /\ i \in 1..n /\ i + 1 \in 1..n
      BY <2>1
    <3> QED
      BY <1>2, <1>3, <3>1 DEF InOrder
  <2>2. CASE i = k
    <3>1. k > 0 /\ k \in 1..k
      BY <2>2
    <3> QED
      BY <1>1, <1>2, <2>2, <3>1 DEF Place, MayFollow
  <2>3. CASE i = k + 1
    <3>1. i \in (k + 1)..n
      BY <1>4, <2>3
    <3>2. LessThan[x][s[i]]
      BY <1>1, <3>1 DEF Place
    <3> QED
      BY <1>2, <2>3, <3>1, <3>2 DEF MayFollow
  <2>4. CASE i > k + 1
    <3>1. PICK j \in (k + 1)..n : i = j + 1 /\ j + 1 \in (k + 1)..n /\ j \in 1..n
                                 /\ j + 1 \in 1..n
      <4>1. i - 1 \in (k + 1)..n /\ i = (i - 1) + 1 /\ (i - 1) + 1 \in (k + 1)..n
            /\ i - 1 \in 1..n /\ (i - 1) + 1 \in 1..n
        BY <1>4, <2>4
      <4> QED
        BY <4>1
    <3>2. r[i] = s[j] /\ r[i + 1] = s[j + 1]
      BY <1>2, <3>1
    <3> QED
      BY <1>3, <3>1, <3>2 DEF InOrder
  <2> QED
    BY <2>1, <2>2, <2>3, <2>4
<1>5. ToSet(r) = ToSet(s) \cup {x}
  <2>1. ASSUME NEW i \in 1..(n + 1) PROVE r[i] \in ToSet(s) \cup {x}
    <3>1. CASE i \in 1..k
      BY <1>2, <1>3, <3>1 DEF ToSet
    <3>2. CASE i = k + 1
      BY <1>2, <3>2
    <3>3. CASE i > k + 1
      <4>1. PICK j \in (k + 1)..n : i = j + 1 /\ j \in 1..n
        <5>1. i - 1 \in (k + 1)..n /\ i = (i - 1) + 1 /\ i - 1 \in 1..n
          BY <3>3
        <5> QED
          BY <5>1
      <4> QED
        BY <1>2, <1>3, <4>1 DEF ToSet
    <3> QED
      BY <3>1, <3>2, <3>3
  <2>2. ASSUME NEW i \in 1..n PROVE s[i] \in ToSet(r)
    <3>1. CASE i \in 1..k
      <4>1. i \in 1..(n + 1) /\ r[i] = s[i]
        BY <1>2, <3>1
      <4> QED
        BY <1>2, <4>1 DEF ToSet
    <3>2. CASE i \in (k + 1)..n
      <4>1. i + 1 \in 1..(n + 1) /\ r[i + 1] = s[i]
        BY <1>2, <3>2
      <4> QED
        BY <1>2, <4>1 DEF ToSet
    <3> QED
      BY <3>1, <3>2
  <2>3. x \in ToSet(r)
    <3>1. k + 1 \in 1..(n + 1)
      OBVIOUS
    <3> QED
      BY <1>2, <3>1 DEF ToSet
  <2>4. ToSet(r) \subseteq ToSet(s) \cup {x}
    BY <1>2, <2>1 DEF ToSet
  <2>5. ToSet(s) \subseteq ToSet(r)
    BY <1>3, <2>2 DEF ToSet
  <2> QED
    BY <2>3, <2>4, <2>5
<1>6. InOrder(r)
  BY <1>2, <1>4 DEF InOrder
<1> QED
  BY <1>2, <1>5, <1>6 DEF SortedIn

FirstOf(s, n) == {s[i] : i \in 1..n}

LEMMA OneMoreFirst ==
  ASSUME NEW s, NEW n \in Nat
  PROVE  FirstOf(s, 0) = {} /\ FirstOf(s, n + 1) = FirstOf(s, n) \cup {s[n + 1]}
<1>1. \A i \in 1..(n + 1) : i \in 1..n \/ i = n + 1
  OBVIOUS
<1>2. \A i \in 1..n : i \in 1..(n + 1)
  OBVIOUS
<1>3. n + 1 \in 1..(n + 1)
  OBVIOUS
<1>4. FirstOf(s, n + 1) = FirstOf(s, n) \cup {s[n + 1]}
  BY <1>1, <1>2, <1>3 DEF FirstOf
<1>5. FirstOf(s, 0) = {}
  BY DEF FirstOf
<1> QED
  BY <1>4, <1>5

LEMMA AllFirst ==
  ASSUME NEW T, NEW s \in Seq(T)
  PROVE  FirstOf(s, Len(s)) = ToSet(s)
BY LenProperties DEF FirstOf, ToSet

(* The insertion sort keeps the nodes and leaves them in order.            *)
LEMMA SortedGives ==
  ASSUME NEW T \in SUBSET Trees, NEW s \in Seq(T)
  PROVE  /\ Sorted(s) \in Seq(T) /\ Len(Sorted(s)) = Len(s)
         /\ InOrder(Sorted(s)) /\ ToSet(Sorted(s)) = ToSet(s)
<1>1. PICK n \in Nat : n = Len(s)
  BY LenProperties
<1>2. \A i \in 1..n : s[i] \in T
  BY <1>1, ElementOfSeq
<1> DEFINE Ordered == {t \in Seq(T) : InOrder(t)}
           g == [i \in 1..n |-> [t \in Ordered |-> Inserted(t, s[i])]]
<1>3. <<>> \in Ordered
  BY DEF InOrder
<1>4. ASSUME NEW t \in Ordered, NEW i \in 1..n
      PROVE  /\ Inserted(t, s[i]) \in Ordered
             /\ Len(Inserted(t, s[i])) = Len(t) + 1
             /\ ToSet(Inserted(t, s[i])) = ToSet(t) \cup {s[i]}
  <2>1. PICK m \in Nat : m = Len(t)
    BY LenProperties
  <2>2. PICK r : r = Inserted(t, s[i])
    OBVIOUS
  <2>3. SortedIn(r, T, t, m, s[i])
    <3>1. t \in Seq(T) /\ InOrder(t) /\ s[i] \in T
      BY <1>2
    <3> HIDE DEF Ordered
    <3> QED
      BY <2>1, <2>2, <3>1, InsertedGives, Zenon
  <2> QED
    BY <2>1, <2>2, <2>3 DEF SortedIn
<1>5. g \in [1..n -> [Ordered -> Ordered]]
  BY <1>4
<1> HIDE DEF Ordered
<1>6. PICK f : Recursion(f, Ordered, <<>>, n, g)
  BY <1>3, <1>5, StepByStep
<1>7. f \in [0..n -> Ordered]
  BY <1>6 DEF Recursion
<1>8. \A i \in 0..n : i # 0 => i \in 1..n /\ i - 1 \in 0..n
  OBVIOUS
<1>9. \A i \in 0..n : f[i] = IF i = 0 THEN <<>> ELSE Inserted(f[i - 1], s[i])
  BY <1>6, <1>7, <1>8 DEF Recursion
<1>10. f = [i \in 0..Len(s) |->
              IF i = 0 THEN <<>> ELSE Inserted(f[i - 1], s[i])]
  BY <1>1, <1>7, <1>9
<1> DEFINE h == CHOOSE h : h = [i \in 0..Len(s) |->
              IF i = 0 THEN <<>> ELSE Inserted(h[i - 1], s[i])]
<1>11. h = [i \in 0..Len(s) |->
              IF i = 0 THEN <<>> ELSE Inserted(h[i - 1], s[i])]
  BY <1>10
<1>12. Sorted(s) = h[n]
  BY <1>1 DEF Sorted
<1> HIDE DEF h, g
<1>13. \A i \in 0..n : h[i] = IF i = 0 THEN <<>> ELSE Inserted(h[i - 1], s[i])
  BY <1>1, <1>11
<1> DEFINE Good == {i \in Nat : i <= n =>
                      /\ h[i] \in Ordered /\ Len(h[i]) = i
                      /\ ToSet(h[i]) = FirstOf(s, i)}
<1>14. 0 \in Good
  <2>1. h[0] = <<>> /\ ToSet(<<>>) = {} /\ Len(<<>>) = 0
    <3>1. 0 \in 0..n
      OBVIOUS
    <3>2. h[0] = <<>>
      BY <1>13, <3>1
    <3> QED
      BY <3>2 DEF ToSet
  <2>2. FirstOf(s, 0) = {}
    BY OneMoreFirst
  <2> QED
    BY <1>3, <2>1, <2>2
<1>15. ASSUME NEW i \in Nat, i \in Good PROVE i + 1 \in Good
  <2>1. SUFFICES ASSUME i + 1 <= n
                 PROVE  /\ h[i + 1] \in Ordered /\ Len(h[i + 1]) = i + 1
                        /\ ToSet(h[i + 1]) = FirstOf(s, i + 1)
    OBVIOUS
  <2>2. i + 1 \in 0..n /\ i + 1 \in 1..n /\ i + 1 # 0 /\ (i + 1) - 1 = i /\ i <= n
    BY <2>1
  <2>3. h[i + 1] = Inserted(h[i], s[i + 1])
    BY <1>13, <2>2
  <2>4. h[i] \in Ordered /\ Len(h[i]) = i /\ ToSet(h[i]) = FirstOf(s, i)
    BY <1>15, <2>2
  <2>5. FirstOf(s, i + 1) = FirstOf(s, i) \cup {s[i + 1]}
    BY OneMoreFirst
  <2> QED
    BY <1>4, <2>2, <2>3, <2>4, <2>5
<1> HIDE DEF Good
<1>16. \A i \in Nat : i \in Good
  BY <1>14, <1>15, NatByInduction
<1>17. h[n] \in Ordered /\ Len(h[n]) = n /\ ToSet(h[n]) = FirstOf(s, n)
  BY <1>16 DEF Good
<1> QED
  BY <1>1, <1>12, <1>17, AllFirst DEF Ordered

LEMMA AppendedSet ==
  ASSUME NEW T, NEW t \in Seq(T), NEW e \in T
  PROVE  /\ Append(t, e) \in Seq(T) /\ ToSet(Append(t, e)) = ToSet(t) \cup {e}
         /\ Append(t, e) # <<>> /\ Last(Append(t, e)) = e
<1>1. PICK n \in Nat : n = Len(t)
  BY LenProperties
<1> DEFINE r == Append(t, e)
<1>2. /\ r \in Seq(T) /\ Len(r) = n + 1 /\ DOMAIN r = 1..(n + 1)
      /\ \A i \in 1..n : r[i] = t[i]
      /\ r[n + 1] = e /\ r # <<>>
  <2>1. /\ r \in Seq(T) /\ Len(r) = Len(t) + 1 /\ r # <<>>
        /\ \A i \in 1..Len(t) : r[i] = t[i]
        /\ r[Len(t) + 1] = e
    BY AppendProperties
  <2> HIDE DEF r
  <2>2. DOMAIN r = 1..Len(r)
    BY <2>1, LenProperties
  <2> QED
    BY <1>1, <2>1, <2>2
<1>3. DOMAIN t = 1..n
  BY <1>1, LenProperties
<1> HIDE DEF r
<1>4. ToSet(r) = FirstOf(r, n + 1)
  BY <1>2 DEF ToSet, FirstOf
<1>5. FirstOf(r, n + 1) = FirstOf(r, n) \cup {r[n + 1]}
  BY OneMoreFirst
<1>6. FirstOf(r, n) = ToSet(t)
  BY <1>2, <1>3 DEF ToSet, FirstOf
<1>7. Last(r) = e
  BY <1>2 DEF Last
<1> QED
  BY <1>2, <1>4, <1>5, <1>6, <1>7 DEF r

(* filterNodes keeps all the nodes but the one.                            *)
LEMMA WithoutGives ==
  ASSUME NEW T, NEW s \in Seq(T), NEW x
  PROVE  Without(s, x) \in Seq(T) /\ ToSet(Without(s, x)) = ToSet(s) \ {x}
<1>1. PICK n \in Nat : n = Len(s)
  BY LenProperties
<1>2. \A i \in 1..n : s[i] \in T
  BY <1>1, ElementOfSeq
<1> DEFINE S == Seq(T)
           step(t, i) == IF s[i] = x THEN t ELSE Append(t, s[i])
           g == [i \in 1..n |-> [t \in S |-> step(t, i)]]
<1>3. <<>> \in S
  OBVIOUS
<1>4. ASSUME NEW t \in S, NEW i \in 1..n
      PROVE  /\ step(t, i) \in S
             /\ ToSet(step(t, i)) = ToSet(t) \cup ({s[i]} \ {x})
  BY <1>2, AppendedSet
<1> HIDE DEF S, step
<1>5. g \in [1..n -> [S -> S]]
  BY <1>4
<1>6. PICK f : Recursion(f, S, <<>>, n, g)
  BY <1>3, <1>5, StepByStep
<1>7. f \in [0..n -> S]
  BY <1>6 DEF Recursion
<1>8. \A i \in 0..n : i # 0 => i \in 1..n /\ i - 1 \in 0..n
  OBVIOUS
<1>9. \A i \in 0..n : f[i] = IF i = 0 THEN <<>> ELSE step(f[i - 1], i)
  BY <1>6, <1>7, <1>8 DEF Recursion
<1>10. f = [i \in 0..n |-> IF i = 0 THEN <<>> ELSE step(f[i - 1], i)]
  BY <1>7, <1>9
<1> DEFINE h == CHOOSE h :
                  h = [i \in 0..n |-> IF i = 0 THEN <<>> ELSE step(h[i - 1], i)]
<1>11. h = [i \in 0..n |-> IF i = 0 THEN <<>> ELSE step(h[i - 1], i)]
  BY <1>10
<1>12. Without(s, x) = h[n]
  BY <1>1 DEF Without, step
<1> HIDE DEF h, g
<1>13. \A i \in 0..n : h[i] = IF i = 0 THEN <<>> ELSE step(h[i - 1], i)
  BY <1>11
<1> DEFINE Good == {i \in Nat : i <= n =>
                      h[i] \in S /\ ToSet(h[i]) = FirstOf(s, i) \ {x}}
<1>14. 0 \in Good
  <2>1. 0 \in 0..n
    OBVIOUS
  <2>2. h[0] = <<>>
    BY <1>13, <2>1
  <2>3. FirstOf(s, 0) = {}
    BY OneMoreFirst
  <2> QED
    BY <1>3, <2>2, <2>3 DEF ToSet
<1>15. ASSUME NEW i \in Nat, i \in Good PROVE i + 1 \in Good
  <2>1. SUFFICES ASSUME i + 1 <= n
                 PROVE  /\ h[i + 1] \in S
                        /\ ToSet(h[i + 1]) = FirstOf(s, i + 1) \ {x}
    OBVIOUS
  <2>2. i + 1 \in 0..n /\ i + 1 \in 1..n /\ i + 1 # 0 /\ (i + 1) - 1 = i /\ i <= n
    BY <2>1
  <2>3. h[i + 1] = step(h[i], i + 1)
    BY <1>13, <2>2
  <2>4. h[i] \in S /\ ToSet(h[i]) = FirstOf(s, i) \ {x}
    BY <1>15, <2>2
  <2>5. FirstOf(s, i + 1) = FirstOf(s, i) \cup {s[i + 1]}
    BY OneMoreFirst
  <2> QED
    BY <1>4, <2>2, <2>3, <2>4, <2>5
<1> HIDE DEF Good
<1>16. \A i \in Nat : i \in Good
  BY <1>14, <1>15, NatByInduction
<1>17. h[n] \in S /\ ToSet(h[n]) = FirstOf(s, n) \ {x}
  BY <1>16 DEF Good
<1> QED
  BY <1>1, <1>12, <1>17, AllFirst DEF S

(* In sorted order, only equals of the last node kept are left out.        *)
LEMMA DedupedGives ==
  ASSUME AnyHeight, NEW T \in SUBSET Trees, NEW s \in Seq(T), InOrder(s)
  PROVE  Deduped(s) \in Seq(T) /\ ToSet(Deduped(s)) = ToSet(s)
<1>1. PICK n \in Nat : n = Len(s)
  BY LenProperties
<1>2. DOMAIN s = 1..n /\ \A i \in 1..n : s[i] \in T
  BY <1>1, ElementOfSeq, LenProperties
<1> DEFINE S == Seq(T)
           step(t, i) == IF i > 1 /\ ~LessThan[Last(t)][s[i]] THEN t
                         ELSE Append(t, s[i])
           g == [i \in 1..n |-> [t \in S |-> step(t, i)]]
<1>3. <<>> \in S
  OBVIOUS
<1>4. ASSUME NEW t \in S, NEW i \in 1..n
      PROVE  /\ step(t, i) \in S
             /\ i = 1 => /\ ToSet(step(t, i)) = ToSet(t) \cup {s[i]}
                         /\ Last(step(t, i)) = s[i]
             /\ i # 1 /\ Last(t) = s[i - 1] /\ s[i - 1] \in ToSet(t) =>
                         /\ ToSet(step(t, i)) = ToSet(t) \cup {s[i]}
                         /\ Last(step(t, i)) = s[i]
  <2>1. /\ Append(t, s[i]) \in S /\ Last(Append(t, s[i])) = s[i]
        /\ ToSet(Append(t, s[i])) = ToSet(t) \cup {s[i]}
    BY <1>2, AppendedSet
  <2>2. ASSUME i # 1, Last(t) = s[i - 1], ~LessThan[Last(t)][s[i]]
        PROVE  s[i - 1] = s[i]
    <3>1. i - 1 \in 1..n /\ (i - 1) + 1 = i
      BY <2>2
    <3>2. MayFollow(s[i - 1], s[i])
      BY <1>2, <3>1 DEF InOrder
    <3>3. ~LessThan[s[i - 1]][s[i]] /\ ~LessThan[s[i]][s[i - 1]]
      BY <2>2, <3>2 DEF MayFollow
    <3>4. s[i - 1] \in Trees /\ s[i] \in Trees
      BY <1>2, <3>1
    <3> QED
      BY <3>3, <3>4, EqualNodes
  <2> QED
    BY <2>1, <2>2
<1> HIDE DEF S, step
<1>5. g \in [1..n -> [S -> S]]
  BY <1>4
<1>6. PICK f : Recursion(f, S, <<>>, n, g)
  BY <1>3, <1>5, StepByStep
<1>7. f \in [0..n -> S]
  BY <1>6 DEF Recursion
<1>8. \A i \in 0..n : i # 0 => i \in 1..n /\ i - 1 \in 0..n
  OBVIOUS
<1>9. \A i \in 0..n : f[i] = IF i = 0 THEN <<>> ELSE step(f[i - 1], i)
  BY <1>6, <1>7, <1>8 DEF Recursion
<1>10. f = [i \in 0..n |-> IF i = 0 THEN <<>> ELSE step(f[i - 1], i)]
  BY <1>7, <1>9
<1> DEFINE h == CHOOSE h :
                  h = [i \in 0..n |-> IF i = 0 THEN <<>> ELSE step(h[i - 1], i)]
<1>11. h = [i \in 0..n |-> IF i = 0 THEN <<>> ELSE step(h[i - 1], i)]
  BY <1>10
<1>12. Deduped(s) = h[n]
  <2> DEFINE k == CHOOSE k : k = [i \in 0..Len(s) |->
                    IF i = 0 THEN <<>>
                    ELSE IF i > 1 /\ ~LessThan[Last(k[i - 1])][s[i]]
                    THEN k[i - 1] ELSE Append(k[i - 1], s[i])]
  <2>1. Deduped(s) = k[Len(s)]
    BY DEF Deduped
  <2>2. k = h
    BY <1>1 DEF step
  <2> HIDE DEF k, h
  <2> QED
    BY <1>1, <2>1, <2>2
<1> HIDE DEF h, g
<1>13. \A i \in 0..n : h[i] = IF i = 0 THEN <<>> ELSE step(h[i - 1], i)
  BY <1>11
<1> DEFINE Good == {i \in Nat : i <= n =>
                      /\ h[i] \in S /\ ToSet(h[i]) = FirstOf(s, i)
                      /\ i # 0 => Last(h[i]) = s[i]}
<1>14. 0 \in Good
  <2>1. 0 \in 0..n
    OBVIOUS
  <2>2. h[0] = <<>>
    BY <1>13, <2>1
  <2>3. FirstOf(s, 0) = {}
    BY OneMoreFirst
  <2> QED
    BY <1>3, <2>2, <2>3 DEF ToSet
<1>15. ASSUME NEW i \in Nat, i \in Good PROVE i + 1 \in Good
  <2>1. SUFFICES ASSUME i + 1 <= n
                 PROVE  /\ h[i + 1] \in S
                        /\ ToSet(h[i + 1]) = FirstOf(s, i + 1)
                        /\ Last(h[i + 1]) = s[i + 1]
    OBVIOUS
  <2>2. /\ i + 1 \in 0..n /\ i + 1 \in 1..n /\ i + 1 # 0 /\ (i + 1) - 1 = i
        /\ i <= n /\ (i = 0 <=> i + 1 = 1) /\ (i # 0 => i \in 1..i)
    BY <2>1
  <2>3. h[i + 1] = step(h[i], i + 1)
    BY <1>13, <2>2
  <2>4. /\ h[i] \in S /\ ToSet(h[i]) = FirstOf(s, i)
        /\ i # 0 => Last(h[i]) = s[i]
    BY <1>15, <2>2
  <2>5. FirstOf(s, i + 1) = FirstOf(s, i) \cup {s[i + 1]}
    BY OneMoreFirst
  <2>6. i # 0 => s[i] \in FirstOf(s, i)
    BY <2>2 DEF FirstOf
  <2>7. /\ step(h[i], i + 1) \in S
        /\ ToSet(step(h[i], i + 1)) = ToSet(h[i]) \cup {s[i + 1]}
        /\ Last(step(h[i], i + 1)) = s[i + 1]
    BY <1>4, <2>2, <2>4, <2>6
  <2> QED
    BY <2>3, <2>4, <2>5, <2>7
<1> HIDE DEF Good
<1>16. \A i \in Nat : i \in Good
  BY <1>14, <1>15, NatByInduction
<1>17. h[n] \in S /\ ToSet(h[n]) = FirstOf(s, n)
  BY <1>16 DEF Good
<1> QED
  BY <1>1, <1>12, <1>17, AllFirst DEF S

(* Sorting and removing duplicates loses no node, although LessThan is no  *)
(* order: SimplifyChildren (optimize.go:180, 183, 187) removes equal nodes *)
(* only, where sort.Sort is an insertion sort.                             *)
THEOREM DedupeKeepsNodes ==
  ASSUME AnyHeight, NEW T \in SUBSET Trees, NEW s \in Seq(T)
  PROVE  Dedupe(s) \in Seq(T) /\ ToSet(Dedupe(s)) = ToSet(s)
<1>1. /\ Sorted(s) \in Seq(T) /\ InOrder(Sorted(s))
      /\ ToSet(Sorted(s)) = ToSet(s)
  BY SortedGives
<1> QED
  BY <1>1, DedupedGives DEF Dedupe

-----------------------------------------------------------------------------
(* What a node stands for, by the set of its children.                     *)
Others(s) == {s[i] : i \in DOMAIN s \ {1}}

LEMMA FirstAndRest ==
  ASSUME NEW T, NEW s \in Seq(T), s # <<>>
  PROVE  /\ Head(s) \in T /\ Head(s) = s[1] /\ 1 \in DOMAIN s
         /\ Tail(s) \in Seq(T)
         /\ ToSet(Tail(s)) = Others(s)
         /\ ToSet(s) = {Head(s)} \cup ToSet(Tail(s))
<1>1. PICK n \in Nat : n = Len(s) /\ n # 0
  BY EmptySeq
<1>2. DOMAIN s = 1..n /\ 1 \in 1..n
  BY <1>1, LenProperties
<1>3. /\ Head(s) \in T /\ Head(s) = s[1] /\ Tail(s) \in Seq(T)
      /\ Len(Tail(s)) = Len(s) - 1
      /\ \A i \in 1..Len(Tail(s)) : Tail(s)[i] = s[i + 1]
  BY <1>1, <1>2, HeadTailProperties
<1> DEFINE t == Tail(s)
<1> HIDE DEF t
<1>4. /\ DOMAIN t = 1..(n - 1) /\ \A i \in 1..(n - 1) : t[i] = s[i + 1]
  BY <1>1, <1>3, LenProperties DEF t
<1>5. /\ \A i \in 1..(n - 1) : i + 1 \in 1..n /\ i + 1 # 1
      /\ \A i \in 1..n : i # 1 => i - 1 \in 1..(n - 1) /\ (i - 1) + 1 = i
  BY <1>1
<1>6. ToSet(t) = {s[i] : i \in 1..n \ {1}}
  <2>1. \A i \in 1..(n - 1) : t[i] \in {s[j] : j \in 1..n \ {1}}
    BY <1>4, <1>5
  <2>2. ASSUME NEW j \in 1..n \ {1} PROVE s[j] \in {t[i] : i \in 1..(n - 1)}
    <3>1. PICK i \in 1..(n - 1) : i + 1 = j
      BY <1>5
    <3> QED
      BY <1>4, <3>1
  <2> QED
    BY <1>4, <2>1, <2>2 DEF ToSet
<1>7. ToSet(s) = {s[1]} \cup {s[i] : i \in 1..n \ {1}}
  BY <1>2 DEF ToSet
<1> QED
  BY <1>1, <1>2, <1>3, <1>6, <1>7 DEF t, Others

(* The sequence r begins with h, and with the others as t has them. *)
Begun(r, h, t) ==
  /\ r # <<>> /\ Head(r) = h
  /\ ToSet(Tail(r)) = ToSet(t) /\ ToSet(r) = {h} \cup ToSet(t)

LEMMA FirstBefore ==
  ASSUME NEW T, NEW h \in T, NEW t \in Seq(T)
  PROVE  <<h>> \o t \in Seq(T) /\ Begun(<<h>> \o t, h, t)
<1>0. PICK r : r = <<h>> \o t
  OBVIOUS
<1>1. PICK n \in Nat : n = Len(t)
  BY LenProperties
<1>2. <<h>> \in Seq(T) /\ Len(<<h>>) = 1 /\ <<h>>[1] = h
  OBVIOUS
<1>3. r \in Seq(T) /\ Joined(r, <<h>>, 1, t, n)
  BY <1>0, <1>1, <1>2, ConcatAt
<1>4. /\ Len(r) = 1 + n /\ DOMAIN r = 1..(1 + n) /\ r[1] = h
      /\ \A i \in 1..n : r[1 + i] = t[i]
  BY <1>2, <1>3 DEF Joined
<1>5. r # <<>>
  BY <1>3, <1>4, EmptySeq
<1>6. /\ Head(r) = h
      /\ ToSet(Tail(r)) = {r[i] : i \in 1..(1 + n) \ {1}}
      /\ ToSet(r) = {h} \cup ToSet(Tail(r))
  <2>1. /\ Head(r) = r[1] /\ ToSet(Tail(r)) = Others(r)
        /\ ToSet(r) = {Head(r)} \cup ToSet(Tail(r))
    BY <1>3, <1>5, FirstAndRest, Zenon
  <2> QED
    BY <1>4, <2>1 DEF Others
<1>7. DOMAIN t = 1..n
  BY <1>1, LenProperties
<1>8. {r[i] : i \in 1..(1 + n) \ {1}} = {t[i] : i \in 1..n}
  <2>1. /\ \A i \in 1..n : 1 + i \in 1..(1 + n) \ {1}
        /\ \A i \in 1..(1 + n) \ {1} : i - 1 \in 1..n /\ 1 + (i - 1) = i
    OBVIOUS
  <2>2. \A i \in 1..n : t[i] \in {r[j] : j \in 1..(1 + n) \ {1}}
    BY <1>4, <2>1
  <2>3. ASSUME NEW j \in 1..(1 + n) \ {1} PROVE r[j] \in {t[i] : i \in 1..n}
    <3>1. PICK i \in 1..n : 1 + i = j
      BY <2>1
    <3> QED
      BY <1>4, <3>1
  <2> QED
    BY <2>2, <2>3
<1>9. ToSet(Tail(r)) = ToSet(t)
  BY <1>6, <1>7, <1>8 DEF ToSet
<1>10. ToSet(r) = {h} \cup ToSet(t)
  BY <1>6, <1>9
<1>11. Head(r) = h
  BY <1>6
<1>12. Begun(r, h, t)
  BY <1>5, <1>9, <1>10, <1>11 DEF Begun
<1> QED
  BY <1>0, <1>3, <1>12

LEMMA ChildSet ==
  ASSUME AnyHeight, NEW x \in Trees
  PROVE  /\ ToSet(x.children) \subseteq Trees
         /\ DOMAIN Below(Meaning, x) = DOMAIN x.children
         /\ \A i \in DOMAIN x.children :
              Below(Meaning, x)[i] = Meaning[x.children[i]]
<1>1. \A i \in DOMAIN x.children : x.children[i] \in Trees
  BY TreeParts
<1>2. ToSet(x.children) \subseteq Trees
  BY <1>1 DEF ToSet
<1> QED
  BY <1>2 DEF Below

LEMMA MeansWord ==
  ASSUME AnyHeight, NEW x \in Trees, x.type = "QUERY"
  PROVE  Meaning[x] = WordFinds(Index, x)
BY MeaningStep DEF Means

LEMMA MeansAll ==
  ASSUME AnyHeight, NEW x \in Trees, x.type = "AND"
  PROVE  Meaning[x] = {p \in Posts : \A c \in ToSet(x.children) : p \in Meaning[c]}
BY MeaningStep, ChildSet DEF Means, ToSet

LEMMA MeansSome ==
  ASSUME AnyHeight, NEW x \in Trees, x.type = "OR"
  PROVE  Meaning[x] = {p \in Posts : \E c \in ToSet(x.children) : p \in Meaning[c]}
BY MeaningStep, ChildSet DEF Means, ToSet

LEMMA MeansOthers ==
  ASSUME AnyHeight, NEW x \in Trees, x.type = "NOT"
  PROVE  /\ x.children[1] \in Trees /\ 1 \in DOMAIN x.children
         /\ Meaning[x] = Posts \ Meaning[x.children[1]]
<1>1. 1 \in DOMAIN x.children
  <2>1. DOMAIN x.children = 1..Len(x.children) /\ WellFormed(x)
    BY TreeParts
  <2>2. Len(x.children) = 1
    BY <2>1 DEF WellFormed
  <2> QED
    BY <2>1, <2>2
<1> QED
  BY <1>1, TreeParts, MeaningStep, ChildSet DEF Means

LEMMA MeansDifference ==
  ASSUME AnyHeight, NEW x \in Trees, x.type = "WITHOUT", ~IsHollow(x)
  PROVE  /\ x.children # <<>> /\ Head(x.children) \in Trees
         /\ Head(x.children) = x.children[1] /\ 1 \in DOMAIN x.children
         /\ Tail(x.children) \in Seq(Trees)
         /\ ToSet(x.children) = {Head(x.children)} \cup ToSet(Tail(x.children))
         /\ Meaning[x] =
              {p \in Posts : /\ p \in Meaning[Head(x.children)]
                             /\ \A c \in ToSet(Tail(x.children)) : p \notin Meaning[c]}
<1>1. x.children # <<>> /\ x.children \in Seq(Trees)
  BY TreeParts DEF IsHollow
<1>2. /\ Head(x.children) \in Trees
      /\ Head(x.children) = x.children[1] /\ 1 \in DOMAIN x.children
      /\ Tail(x.children) \in Seq(Trees)
      /\ ToSet(Tail(x.children)) = Others(x.children)
      /\ ToSet(x.children) = {Head(x.children)} \cup ToSet(Tail(x.children))
  BY <1>1, FirstAndRest
<1>3. Meaning[x] =
        {p \in Posts : /\ p \in Meaning[x.children[1]]
                       /\ \A i \in DOMAIN x.children \ {1} :
                            p \notin Meaning[x.children[i]]}
  BY <1>2, MeaningStep, ChildSet DEF Means
<1> QED
  BY <1>1, <1>2, <1>3 DEF Others

LEMMA MeansPosts ==
  ASSUME AnyHeight
  PROVE  \A x \in Trees : Meaning[x] \subseteq Posts
BY MeaningStep

LEMMA WholeBySet ==
  ASSUME AnyHeight, NEW x \in Trees
  PROVE  /\ Whole[x] \in BOOLEAN
         /\ Whole[x] <=> ~IsHollow(x) /\ \A c \in ToSet(x.children) : Whole[c]
BY WholeStep DEF ToSet

(* The two words that the rules put into a tree. *)
LEMMA SpecialNodes ==
  ASSUME AnyHeight
  PROVE  /\ AllQueryNode \in Trees /\ EmptyQueryNode \in Trees
         /\ Whole[AllQueryNode] /\ Whole[EmptyQueryNode]
         /\ Meaning[AllQueryNode] = Posts /\ Meaning[EmptyQueryNode] = {}
<1>1. AllQueryNode \in Trees /\ EmptyQueryNode \in Trees
  <2>1. <<"__all">> \in Seq(Characters) /\ <<"__empty">> \in Seq(Characters)
    BY OrderAssumption
  <2>2. <<>> \in Seq(Trees)
    OBVIOUS
  <2> QED
    BY <2>1, <2>2, TreeMade
       DEF AllQueryNode, EmptyQueryNode, QueryNode, AllWord, NodeTypes
<1>2. /\ AllQueryNode.children = <<>> /\ EmptyQueryNode.children = <<>>
      /\ AllQueryNode.type = "QUERY" /\ EmptyQueryNode.type = "QUERY"
      /\ AllQueryNode.query = AllWord /\ AllQueryNode # EmptyQueryNode
  <2>1. <<"__all">> # <<"__empty">>
    OBVIOUS
  <2> QED
    BY <2>1 DEF AllQueryNode, EmptyQueryNode, QueryNode, AllWord
<1>3. Whole[AllQueryNode] /\ Whole[EmptyQueryNode]
  BY <1>1, <1>2, WholeBySet DEF IsHollow, ToSet
<1>4. \A p \in Posts : AllWord \in Index[p]
  BY DEF Index, KeysOf
<1>5. Meaning[AllQueryNode] = Posts
  <2>1. Meaning[AllQueryNode] = WordFinds(Index, AllQueryNode)
    BY <1>1, <1>2, MeansWord
  <2>2. QueryKey(AllQueryNode.query) = AllWord
    BY <1>2 DEF QueryKey
  <2> QED
    BY <1>2, <1>4, <2>1, <2>2 DEF WordFinds, Index
<1>6. Meaning[EmptyQueryNode] = {}
  BY <1>1, <1>2, MeansWord DEF WordFinds
<1> QED
  BY <1>1, <1>3, <1>5, <1>6

-----------------------------------------------------------------------------
(* One rule at one node.  Its children may have been rewritten before.     *)
Same(x, y) == y \in Trees /\ Whole[y] /\ Meaning[y] = Meaning[x]

LEMMA SameTree == \A x \in Trees : Whole[x] => Same(x, x)
BY DEF Same

WithChildren(x, s) == [x EXCEPT !.children = s]

LEMMA NewChildren ==
  ASSUME AnyHeight, NEW x \in Trees, NEW s \in Seq(Trees),
         x.type \in {"AND", "OR", "WITHOUT"}
  PROVE  /\ WithChildren(x, s) \in Trees
         /\ WithChildren(x, s).type = x.type
         /\ WithChildren(x, s).children = s
<1>1. /\ x = [type |-> x.type, query |-> x.query, children |-> x.children]
      /\ x.type \in NodeTypes /\ x.query \in Seq(Characters)
  BY TreeParts
<1>2. WithChildren(x, s) = [type |-> x.type, query |-> x.query, children |-> s]
  BY <1>1 DEF WithChildren
<1> QED
  BY <1>1, <1>2, TreeMade

LEMMA NewOp ==
  ASSUME AnyHeight, NEW type, NEW s \in Seq(Trees),
         \/ type \in {"AND", "OR", "WITHOUT"}
         \/ type = "NOT" /\ Len(s) = 1
  PROVE  /\ OpNode(type, s) \in Trees
         /\ OpNode(type, s).type = type /\ OpNode(type, s).children = s
<1>1. <<>> \in Seq(Characters) /\ type \in NodeTypes
  BY DEF NodeTypes
<1> QED
  BY <1>1, TreeMade DEF OpNode

(* The set of the children of an AND or an OR decides, of a WITHOUT the    *)
(* first one and the set of the others.                                    *)
LEMMA SameAll ==
  ASSUME AnyHeight, NEW x \in Trees, x.type = "AND", NEW y \in Trees, y.type = "AND",
         \A c \in ToSet(y.children) : Whole[c],
         \A p \in Posts : (\A c \in ToSet(y.children) : p \in Meaning[c]) <=>
                          (\A c \in ToSet(x.children) : p \in Meaning[c])
  PROVE  Same(x, y)
<1>1. Whole[y]
  BY WholeBySet DEF IsHollow
<1>2. Meaning[y] = Meaning[x]
  BY MeansAll
<1> QED
  BY <1>1, <1>2 DEF Same

LEMMA SameSome ==
  ASSUME AnyHeight, NEW x \in Trees, x.type = "OR", NEW y \in Trees, y.type = "OR",
         \A c \in ToSet(y.children) : Whole[c],
         \A p \in Posts : (\E c \in ToSet(y.children) : p \in Meaning[c]) <=>
                          (\E c \in ToSet(x.children) : p \in Meaning[c])
  PROVE  Same(x, y)
<1>1. Whole[y]
  BY WholeBySet DEF IsHollow
<1>2. Meaning[y] = Meaning[x]
  BY MeansSome
<1> QED
  BY <1>1, <1>2 DEF Same

LEMMA SameDifference ==
  ASSUME AnyHeight, NEW x \in Trees, x.type = "WITHOUT", Whole[x],
         NEW h \in Trees, Whole[h], NEW t \in Seq(Trees),
         NEW y \in Trees, y.type = "WITHOUT", y.children = <<h>> \o t,
         \A c \in ToSet(t) : Whole[c],
         \A p \in Posts :
           (p \in Meaning[h] /\ \A c \in ToSet(t) : p \notin Meaning[c]) <=>
           (p \in Meaning[Head(x.children)]
              /\ \A c \in ToSet(Tail(x.children)) : p \notin Meaning[c])
  PROVE  Same(x, y)
<1>1. /\ y.children # <<>> /\ Head(y.children) = h
      /\ ToSet(Tail(y.children)) = ToSet(t)
      /\ ToSet(y.children) = {h} \cup ToSet(t)
  <2>1. Begun(<<h>> \o t, h, t)
    BY FirstBefore
  <2> QED
    BY <2>1 DEF Begun
<1>2. ~IsHollow(y) /\ ~IsHollow(x)
  BY <1>1, WholeBySet DEF IsHollow
<1>3. Whole[y]
  BY <1>1, <1>2, WholeBySet
<1>4. Meaning[y] = {p \in Posts : p \in Meaning[h] /\
                       \A c \in ToSet(t) : p \notin Meaning[c]}
  <2>1. Meaning[y] = {p \in Posts : p \in Meaning[Head(y.children)] /\
                        \A c \in ToSet(Tail(y.children)) : p \notin Meaning[c]}
    BY <1>2, MeansDifference
  <2> QED
    BY <1>1, <2>1
<1>5. Meaning[x] = {p \in Posts : p \in Meaning[Head(x.children)] /\
                       \A c \in ToSet(Tail(x.children)) : p \notin Meaning[c]}
  BY <1>2, MeansDifference
<1>6. Meaning[y] = Meaning[x]
  BY <1>4, <1>5
<1> QED
  BY <1>3, <1>6 DEF Same

LEMMA SortedTailGives ==
  ASSUME NEW s \in Seq(Trees), s # <<>>
  PROVE  /\ SortedTail(s) = <<Head(s)>> \o Sorted(Tail(s))
         /\ Head(s) \in Trees /\ Sorted(Tail(s)) \in Seq(Trees)
         /\ SortedTail(s) \in Seq(Trees)
         /\ ToSet(Sorted(Tail(s))) = ToSet(Tail(s))
<1>1. Head(s) \in Trees /\ Tail(s) \in Seq(Trees)
  BY FirstAndRest
<1>2. Sorted(Tail(s)) \in Seq(Trees) /\ ToSet(Sorted(Tail(s))) = ToSet(Tail(s))
  BY <1>1, SortedGives
<1> QED
  BY <1>1, <1>2, FirstBefore DEF SortedTail

LEMMA SortKeeps ==
  ASSUME AnyHeight, NEW x \in Trees, Whole[x]
  PROVE  Same(x, InSortOrder(x))
<1>1. x.children \in Seq(Trees) /\ \A c \in ToSet(x.children) : Whole[c]
  BY TreeParts, WholeBySet
<1>2. CASE x.type \in {"AND", "OR"}
  <2> DEFINE s == Sorted(x.children)
             y == WithChildren(x, s)
  <2>1. s \in Seq(Trees) /\ ToSet(s) = ToSet(x.children)
    BY <1>1, SortedGives
  <2>2. InSortOrder(x) = y
    BY <1>2 DEF InSortOrder, WithChildren
  <2> HIDE DEF s
  <2>3. y \in Trees /\ y.type = x.type /\ y.children = s
    BY <1>2, <2>1, NewChildren
  <2> HIDE DEF y
  <2> QED
    BY <1>1, <1>2, <2>1, <2>2, <2>3, SameAll, SameSome
<1>3. CASE x.type = "WITHOUT"
  <2> DEFINE s == SortedTail(x.children)
             y == WithChildren(x, s)
  <2>1. x.children # <<>>
    BY <1>3, WholeBySet DEF IsHollow
  <2>2. /\ s = <<Head(x.children)>> \o Sorted(Tail(x.children))
        /\ s \in Seq(Trees)
        /\ Head(x.children) \in Trees /\ Sorted(Tail(x.children)) \in Seq(Trees)
        /\ ToSet(Sorted(Tail(x.children))) = ToSet(Tail(x.children))
        /\ ToSet(x.children) = {Head(x.children)} \cup ToSet(Tail(x.children))
    BY <1>1, <2>1, SortedTailGives, FirstAndRest
  <2>3. InSortOrder(x) = y
    BY <1>3 DEF InSortOrder, WithChildren
  <2> HIDE DEF s
  <2>4. y \in Trees /\ y.type = x.type /\ y.children = s
    BY <1>3, <2>2, NewChildren
  <2> HIDE DEF y
  <2>5. /\ Whole[Head(x.children)]
        /\ \A c \in ToSet(Sorted(Tail(x.children))) : Whole[c]
    BY <1>1, <2>2
  <2>6. Same(x, y)
    BY <1>3, <2>2, <2>4, <2>5, SameDifference, ZenonT(40)
  <2> QED
    BY <2>3, <2>6
<1>4. CASE x.type \notin {"AND", "OR", "WITHOUT"}
  BY <1>4, SameTree DEF InSortOrder
<1> QED
  BY <1>2, <1>3, <1>4

LEMMA OneChild ==
  ASSUME AnyHeight, NEW x \in Trees, Whole[x],
         x.type \in {"AND", "OR", "WITHOUT"}, Len(x.children) = 1
  PROVE  Same(x, x.children[1])
<1>1. DOMAIN x.children = 1..1 /\ x.children[1] \in Trees
  <2>1. DOMAIN x.children = 1..1
    BY TreeParts
  <2>2. 1 \in DOMAIN x.children
    BY <2>1
  <2> QED
    BY <2>1, <2>2, TreeParts
<1>2. ToSet(x.children) = {x.children[1]}
  BY <1>1 DEF ToSet
<1>3. Whole[x.children[1]]
  BY <1>2, WholeBySet
<1>4. Meaning[x.children[1]] \subseteq Posts
  BY <1>1, MeansPosts
<1>5. CASE x.type = "AND"
  <2>0. Meaning[x] = {p \in Posts :
                        \A c \in ToSet(x.children) : p \in Meaning[c]}
    BY <1>5, MeansAll
  <2>1. Meaning[x] = Meaning[x.children[1]]
    BY <1>2, <1>4, <2>0
  <2> QED
    BY <1>1, <1>3, <2>1 DEF Same
<1>6. CASE x.type = "OR"
  <2>0. Meaning[x] = {p \in Posts :
                        \E c \in ToSet(x.children) : p \in Meaning[c]}
    BY <1>6, MeansSome
  <2>1. Meaning[x] = Meaning[x.children[1]]
    BY <1>2, <1>4, <2>0
  <2> QED
    BY <1>1, <1>3, <2>1 DEF Same
<1>7. CASE x.type = "WITHOUT"
  <2>1. x.children # <<>> /\ x.children \in Seq(Trees) /\ ~IsHollow(x)
    BY <1>7, WholeBySet, TreeParts DEF IsHollow
  <2>2. Head(x.children) = x.children[1] /\ ToSet(Tail(x.children)) = {}
    BY <1>1, <2>1, FirstAndRest DEF Others
  <2>3. Meaning[x] = {p \in Posts : p \in Meaning[Head(x.children)] /\
                        \A c \in ToSet(Tail(x.children)) : p \notin Meaning[c]}
    BY <1>7, <2>1, MeansDifference
  <2> QED
    BY <1>1, <1>3, <1>4, <2>2, <2>3 DEF Same
<1> QED
  BY <1>5, <1>6, <1>7

LEMMA EmptyDifference ==
  ASSUME AnyHeight, NEW x \in Trees, Whole[x], x.type = "WITHOUT",
         \A p \in Posts : p \in Meaning[Head(x.children)] =>
            \E c \in ToSet(Tail(x.children)) : p \in Meaning[c]
  PROVE  Same(x, EmptyQueryNode)
<1>1. ~IsHollow(x)
  BY WholeBySet
<1>2. Meaning[x] = {p \in Posts : p \in Meaning[Head(x.children)] /\
                      \A c \in ToSet(Tail(x.children)) : p \notin Meaning[c]}
  BY <1>1, MeansDifference
<1>3. Meaning[x] = {}
  BY <1>2
<1> QED
  BY <1>3, SpecialNodes DEF Same

LEMMA RemoveUnnecessaryKeeps ==
  ASSUME AnyHeight, NEW x \in Trees, Whole[x]
  PROVE  Same(x, RemoveUnnecessaryNodes(x))
<1> DEFINE ch == x.children
<1>1. /\ ch \in Seq(Trees) /\ \A c \in ToSet(ch) : Whole[c] /\ c \in Trees
      /\ x.type \in NodeTypes /\ WellFormed(x)
  BY TreeParts, WholeBySet, ChildSet
<1>2. ASSUME x.type = "AND", ch = <<>> PROVE Same(x, AllQueryNode)
  <2>1. ToSet(ch) = {}
    BY <1>2 DEF ToSet
  <2>2. Meaning[x] = Posts
    BY <1>2, <2>1, MeansAll
  <2> QED
    BY <2>2, SpecialNodes DEF Same
<1>3. ASSUME x.type = "OR", ch = <<>> PROVE Same(x, EmptyQueryNode)
  <2>1. ToSet(ch) = {}
    BY <1>3 DEF ToSet
  <2>2. Meaning[x] = {}
    BY <1>3, <2>1, MeansSome
  <2> QED
    BY <2>2, SpecialNodes DEF Same
<1>4. ASSUME x.type \in {"AND", "OR", "WITHOUT"}, Len(ch) = 1
      PROVE  Same(x, ch[1])
  BY <1>4, OneChild
<1>5. ASSUME x.type = "NOT", ch[1].type = "NOT"
      PROVE  Same(x, ch[1].children[1])
  <2>1. ch[1] \in Trees /\ 1 \in DOMAIN ch /\ Meaning[x] = Posts \ Meaning[ch[1]]
    BY <1>5, MeansOthers
  <2> DEFINE inner == ch[1]
  <2>2. Whole[inner]
    BY <1>1, <2>1 DEF ToSet
  <2> HIDE DEF inner
  <2>3. /\ inner.children[1] \in Trees /\ 1 \in DOMAIN inner.children
        /\ Meaning[inner] = Posts \ Meaning[inner.children[1]]
    BY <1>5, <2>1, MeansOthers DEF inner
  <2>4. Whole[inner.children[1]]
    BY <2>1, <2>2, <2>3, WholeBySet DEF ToSet, inner
  <2>5. Meaning[inner.children[1]] \subseteq Posts
    BY <2>3, MeansPosts
  <2>6. Meaning[x] = Meaning[inner.children[1]]
    BY <2>1, <2>3, <2>5 DEF inner
  <2> QED
    BY <2>3, <2>4, <2>6 DEF inner, Same
<1>6. ASSUME x.type = "WITHOUT",
             ch[1] = EmptyQueryNode \/ AllQueryNode \in ToSet(Tail(ch))
      PROVE  Same(x, EmptyQueryNode)
  <2>1. Head(ch) = ch[1]
    BY <1>6, WholeBySet, MeansDifference
  <2>2. CASE ch[1] = EmptyQueryNode
    BY <1>6, <2>1, <2>2, SpecialNodes, EmptyDifference
  <2>3. CASE AllQueryNode \in ToSet(Tail(ch))
    BY <1>6, <2>3, SpecialNodes, EmptyDifference
  <2> QED
    BY <1>6, <2>2, <2>3
<1>7. ASSUME x.type = "AND", EmptyQueryNode \in ToSet(ch)
      PROVE  Same(x, EmptyQueryNode)
  BY <1>7, MeansAll, SpecialNodes DEF Same
<1>8. ASSUME x.type = "OR", AllQueryNode \in ToSet(ch)
      PROVE  Same(x, AllQueryNode)
  BY <1>8, MeansSome, SpecialNodes DEF Same
<1>9. Same(x, x)
  BY SameTree
<1> QED
  BY <1>2, <1>3, <1>4, <1>5, <1>6, <1>7, <1>8, <1>9
     DEF RemoveUnnecessaryNodes, OfNothing

LEMMA ImplementNotKeeps ==
  ASSUME AnyHeight, NEW x \in Trees, Whole[x]
  PROVE  Same(x, ImplementNotUsingWithout(x))
<1>1. CASE x.type # "NOT"
  BY <1>1, SameTree DEF ImplementNotUsingWithout
<1>2. CASE x.type = "NOT"
  <2> DEFINE c == x.children[1]
             y == OpNode("WITHOUT", <<AllQueryNode, c>>)
  <2>1. c \in Trees /\ 1 \in DOMAIN x.children /\ Meaning[x] = Posts \ Meaning[c]
    BY <1>2, MeansOthers
  <2>2. Whole[c]
    BY <2>1, WholeBySet DEF ToSet
  <2> HIDE DEF c
  <2>3. <<AllQueryNode, c>> \in Seq(Trees) /\ <<AllQueryNode, c>> # <<>>
    BY <2>1, SpecialNodes
  <2>4. y \in Trees /\ y.type = "WITHOUT" /\ y.children = <<AllQueryNode, c>>
    BY <2>3, NewOp
  <2>5. ~IsHollow(y)
    BY <2>3, <2>4 DEF IsHollow
  <2>6. Head(y.children) = AllQueryNode /\ ToSet(Tail(y.children)) = {c}
    <3>1. Head(<<AllQueryNode, c>>) = AllQueryNode /\ Tail(<<AllQueryNode, c>>) = <<c>>
      OBVIOUS
    <3>2. ToSet(<<c>>) = {c}
      BY DEF ToSet
    <3> QED
      BY <2>4, <3>1, <3>2
  <2> HIDE DEF y
  <2>7. Meaning[y] = {p \in Posts : p \in Posts /\ p \notin Meaning[c]}
    <3>1. Meaning[y] = {p \in Posts : p \in Meaning[Head(y.children)] /\
                          \A d \in ToSet(Tail(y.children)) : p \notin Meaning[d]}
      BY <2>4, <2>5, MeansDifference
    <3> QED
      BY <2>6, <3>1, SpecialNodes
  <2>8. Whole[y]
    <3>1. ToSet(y.children) = {AllQueryNode} \cup {c}
      BY <2>4, <2>5, <2>6, MeansDifference
    <3> QED
      BY <2>2, <2>4, <2>5, <3>1, SpecialNodes, WholeBySet
  <2>9. Same(x, y)
    BY <2>1, <2>4, <2>7, <2>8 DEF Same
  <2> QED
    BY <1>2, <2>9 DEF ImplementNotUsingWithout, y, c
<1> QED
  BY <1>1, <1>2

LEMMA RemoveSelfCancelingKeeps ==
  ASSUME AnyHeight, NEW x \in Trees, Whole[x]
  PROVE  Same(x, RemoveSelfCancelingWithout(x))
BY EmptyDifference, SameTree DEF RemoveSelfCancelingWithout

(* The node of a rating finds the posts that are labelled so.              *)
Labelled(name) == {p \in Posts : Label("f", <<name>>) \in Index[p]}

LEMMA LabelParts ==
  ASSUME NEW T, "f" \in T, ":" \in T, NEW name \in T, NEW r,
         r = Label("f", <<name>>)
  PROVE  r \in Seq(T) /\ Len(r) = 3 /\ r[1] = "f" /\ r[2] = ":"
<1> DEFINE s == <<"f", ":">>
           t == <<name>>
<1>1. /\ s \in Seq(T) /\ 2 = Len(s) /\ s[1] = "f" /\ s[2] = ":"
      /\ t \in Seq(T) /\ 1 = Len(t)
  OBVIOUS
<1>2. r = s \o t
  BY DEF Label
<1> HIDE DEF s, t
<1>3. r \in Seq(T) /\ Joined(r, s, 2, t, 1)
  BY <1>1, <1>2, ConcatAt
<1>4. Len(r) = 2 + 1 /\ \A i \in 1..2 : r[i] = s[i]
  BY <1>3 DEF Joined
<1>5. r[1] = s[1] /\ r[2] = s[2]
  BY <1>4
<1> QED
  BY <1>1, <1>3, <1>4, <1>5

LEMMA FlagMeans ==
  ASSUME AnyHeight, NEW name, FlagNode(name) \in Trees
  PROVE  Whole[FlagNode(name)] /\ Meaning[FlagNode(name)] = Labelled(name)
<1> DEFINE word == Label("f", <<name>>)
           x == FlagNode(name)
<1>2. Len(word) = 3 /\ word[1] = "f" /\ word[2] = ":"
  <2>1. PICK T : T = {"f", ":", name}
    OBVIOUS
  <2>2. "f" \in T /\ ":" \in T /\ name \in T
    BY <2>1
  <2> QED
    BY <2>2, LabelParts
<1>3. word # <<"__empty">>
  BY <1>2
<1> HIDE DEF word
<1>4. IsLabel(word)
  BY <1>2 DEF IsLabel, SingleByte
<1>5. QueryKey(word) = word
  BY <1>4 DEF QueryKey
<1>6. x.type = "QUERY" /\ x.query = word /\ x.children = <<>>
  BY DEF FlagNode, QueryNode, word
<1>7. x # EmptyQueryNode
  BY <1>3, <1>6 DEF EmptyQueryNode, QueryNode
<1> HIDE DEF x
<1>8. Whole[x]
  BY <1>6, WholeBySet DEF IsHollow, ToSet, x
<1>9. Meaning[x] = WordFinds(Index, x)
  BY <1>6, MeansWord DEF x
<1>10. WordFinds(Index, x) = Labelled(name)
  BY <1>5, <1>6, <1>7 DEF WordFinds, Labelled, Index, word
<1> QED
  BY <1>8, <1>9, <1>10 DEF x

LEMMA RatingNodes ==
  ASSUME AnyHeight
  PROVE  FlagNode("nsfl") \in Trees /\ FlagNode("nsfp") \in Trees
<1>1. ASSUME NEW name \in {"nsfl", "nsfp"} PROVE FlagNode(name) \in Trees
  <2>2. "f" \in Characters /\ ":" \in Characters /\ name \in Characters
    BY OrderAssumption
  <2>3. Label("f", <<name>>) \in Seq(Characters)
    BY <2>2, LabelParts
  <2>4. <<>> \in Seq(Trees) /\ "QUERY" \in NodeTypes
    BY DEF NodeTypes
  <2> QED
    BY <2>3, <2>4, TreeMade DEF FlagNode, QueryNode
<1> QED
  BY <1>1

(* Three ratings are all but the fourth, since every post has one of them. *)
LEMMA ThreeRatings ==
  ASSUME AnyHeight, NEW x \in Trees, Whole[x], x.type = "OR",
         NEW name, NEW other,
         \/ name = "nsfp" /\ other = "nsfl"
         \/ name = "nsfl" /\ other = "nsfp",
         x.children = <<FlagNode(name), FlagNode("nsfw"), FlagNode("sfw")>>
  PROVE  Same(x, OpNode("NOT", <<FlagNode(other)>>))
<1>1. ToSet(x.children) = {FlagNode(name), FlagNode("nsfw"), FlagNode("sfw")}
  BY DEF ToSet
<1>2. /\ FlagNode(name) \in Trees /\ FlagNode("nsfw") \in Trees
      /\ FlagNode("sfw") \in Trees
  BY <1>1, ChildSet
<1>3. FlagNode(other) \in Trees
  BY RatingNodes
<1>4. Meaning[x] = {p \in Posts :
                      \E c \in ToSet(x.children) : p \in Meaning[c]}
  BY MeansSome
<1>5. /\ Meaning[FlagNode(name)] = Labelled(name)
      /\ Meaning[FlagNode(other)] = Labelled(other)
      /\ Whole[FlagNode(other)]
  BY <1>2, <1>3, FlagMeans
<1>6. /\ Meaning[FlagNode("nsfw")] = Labelled("nsfw")
      /\ Meaning[FlagNode("sfw")] = Labelled("sfw")
  BY <1>2, FlagMeans
<1>7. Meaning[x] = Labelled(name) \cup Labelled("nsfw") \cup Labelled("sfw")
  <2>1. \A p \in Posts : (\E c \in ToSet(x.children) : p \in Meaning[c]) <=>
          \/ p \in Meaning[FlagNode(name)] \/ p \in Meaning[FlagNode("nsfw")]
          \/ p \in Meaning[FlagNode("sfw")]
    BY <1>1
  <2> QED
    BY <1>4, <1>5, <1>6, <2>1 DEF Labelled
<1>8. Posts \ Labelled(other) =
        Labelled(name) \cup Labelled("nsfw") \cup Labelled("sfw")
  <2>1. ASSUME NEW p \in Posts
        PROVE  p \notin Labelled(other) <=>
               p \in Labelled(name) \cup Labelled("nsfw") \cup Labelled("sfw")
    <3>1. PICK r \in {"sfw", "nsfw", "nsfl", "nsfp"} :
            \A n \in {"sfw", "nsfw", "nsfl", "nsfp"} :
              Label("f", <<n>>) \in Index[p] <=> n = r
      BY RatingAssumption
    <3>2. \A n \in {"sfw", "nsfw", "nsfl", "nsfp"} : p \in Labelled(n) <=> n = r
      BY <3>1 DEF Labelled
    <3> QED
      BY <3>2
  <2> QED
    BY <2>1 DEF Labelled
<1> DEFINE s == <<FlagNode(other)>>
           y == OpNode("NOT", s)
<1>9. s \in Seq(Trees) /\ Len(s) = 1 /\ s[1] = FlagNode(other)
      /\ ToSet(s) = {FlagNode(other)}
  BY <1>3 DEF ToSet
<1> HIDE DEF s
<1>10. y \in Trees /\ y.type = "NOT" /\ y.children = s
  BY <1>9, NewOp
<1> HIDE DEF y
<1>11. Meaning[y] = Posts \ Labelled(other)
  BY <1>5, <1>9, <1>10, MeansOthers
<1>12. Whole[y]
  BY <1>5, <1>9, <1>10, WholeBySet DEF IsHollow
<1>13. Same(x, y)
  BY <1>7, <1>8, <1>10, <1>11, <1>12 DEF Same
<1> QED
  BY <1>13 DEF y, s

LEMMA SimplifyFlagsKeeps ==
  ASSUME AnyHeight, NEW x \in Trees, Whole[x]
  PROVE  Same(x, SimplifyFlags(x))
<1> DEFINE Are(name) ==
             x.children = <<FlagNode(name), FlagNode("nsfw"), FlagNode("sfw")>>
<1>1. ASSUME x.type = "OR", Are("nsfp")
      PROVE  Same(x, OpNode("NOT", <<FlagNode("nsfl")>>))
  BY <1>1, ThreeRatings
<1>2. ASSUME x.type = "OR", Are("nsfl")
      PROVE  Same(x, OpNode("NOT", <<FlagNode("nsfp")>>))
  BY <1>2, ThreeRatings
<1>3. Same(x, x)
  BY SameTree
<1> QED
  BY <1>1, <1>2, <1>3 DEF SimplifyFlags

LEMMA ConcatSet ==
  ASSUME NEW T, NEW s \in Seq(T), NEW t \in Seq(T)
  PROVE  /\ s \o t \in Seq(T) /\ ToSet(s \o t) = ToSet(s) \cup ToSet(t)
         /\ s # <<>> => /\ s \o t # <<>> /\ Head(s \o t) = Head(s)
                        /\ ToSet(Tail(s \o t)) = ToSet(Tail(s)) \cup ToSet(t)
<1>1. PICK m \in Nat : m = Len(s)
  BY LenProperties
<1>2. PICK n \in Nat : n = Len(t)
  BY LenProperties
<1>3. PICK r : r = s \o t
  OBVIOUS
<1>4. r \in Seq(T) /\ Joined(r, s, m, t, n)
  BY <1>1, <1>2, <1>3, ConcatAt
<1>5. DOMAIN s = 1..m /\ DOMAIN t = 1..n
  BY <1>1, <1>2, LenProperties
<1>6. /\ DOMAIN r = 1..(m + n)
      /\ \A i \in 1..m : i \in 1..(m + n) /\ r[i] = s[i]
      /\ \A i \in 1..n : m + i \in 1..(m + n) /\ r[m + i] = t[i]
  BY <1>4 DEF Joined
<1>7. \A i \in 1..(m + n) : i \in 1..m \/ \E j \in 1..n : i = m + j
  <2>1. ASSUME NEW i \in 1..(m + n), i \notin 1..m
        PROVE  i - m \in 1..n /\ i = m + (i - m)
    BY <2>1
  <2> QED
    BY <2>1
<1>8. ToSet(r) = ToSet(s) \cup ToSet(t)
  <2>1. ASSUME NEW i \in 1..(m + n) PROVE r[i] \in ToSet(s) \cup ToSet(t)
    BY <1>5, <1>6, <1>7 DEF ToSet
  <2>2. ToSet(s) \subseteq ToSet(r)
    BY <1>5, <1>6 DEF ToSet
  <2>3. ToSet(t) \subseteq ToSet(r)
    BY <1>5, <1>6 DEF ToSet
  <2>4. ToSet(r) \subseteq ToSet(s) \cup ToSet(t)
    BY <1>6, <2>1 DEF ToSet
  <2> QED
    BY <2>2, <2>3, <2>4
<1>9. ASSUME s # <<>>
      PROVE  /\ r # <<>> /\ Head(r) = Head(s)
             /\ ToSet(Tail(r)) = ToSet(Tail(s)) \cup ToSet(t)
  <2>1. /\ Head(s) = s[1] /\ 1 \in 1..m
        /\ ToSet(Tail(s)) = Others(s)
    BY <1>5, <1>9, FirstAndRest
  <2>2. r # <<>>
    BY <1>6, <2>1
  <2>3. Head(r) = r[1] /\ ToSet(Tail(r)) = Others(r)
    BY <1>4, <2>2, FirstAndRest
  <2>4. ASSUME NEW i \in 1..(m + n) \ {1} PROVE r[i] \in Others(s) \cup ToSet(t)
    <3>1. CASE i \in 1..m
      BY <1>5, <1>6, <3>1 DEF Others
    <3>2. CASE \E j \in 1..n : i = m + j
      BY <1>5, <1>6, <3>2 DEF ToSet
    <3> QED
      BY <1>7, <3>1, <3>2
  <2>5. Others(r) \subseteq Others(s) \cup ToSet(t)
    BY <1>6, <2>4 DEF Others
  <2>6. Others(s) \subseteq Others(r)
    BY <1>5, <1>6 DEF Others
  <2>7. \A i \in 1..n : m + i # 1
    BY <2>1
  <2>8. ToSet(t) \subseteq Others(r)
    BY <1>5, <1>6, <2>7 DEF ToSet, Others
  <2> QED
    BY <1>6, <2>1, <2>2, <2>3, <2>5, <2>6, <2>8
<1> QED
  BY <1>3, <1>4, <1>8, <1>9

(* A sequence of other nodes behind a sequence s. *)
Longer(r, s, t) ==
  /\ ToSet(r) = ToSet(s) \cup ToSet(t)
  /\ s # <<>> => /\ r # <<>> /\ Head(r) = Head(s)
                 /\ ToSet(Tail(r)) = ToSet(Tail(s)) \cup ToSet(t)

LEMMA Lengthened ==
  ASSUME NEW T, NEW s \in Seq(T), NEW t \in Seq(T)
  PROVE  s \o t \in Seq(T) /\ Longer(s \o t, s, t)
BY ConcatSet DEF Longer

LEMMA FlattenedSet ==
  ASSUME NEW T, NEW seqs \in Seq(Seq(T))
  PROVE  /\ FlattenSeq(seqs) \in Seq(T)
         /\ ToSet(FlattenSeq(seqs)) = UNION {ToSet(seqs[i]) : i \in DOMAIN seqs}
<1>1. PICK n \in Nat : n = Len(seqs)
  BY LenProperties
<1>2. DOMAIN seqs = 1..n /\ \A i \in 1..n : seqs[i] \in Seq(T)
  BY <1>1, LenProperties, ElementOfSeq
<1>3. CASE n = 0
  <2>1. FlattenSeq(seqs) = <<>> /\ seqs = <<>>
    BY <1>1, <1>3, EmptySeq DEF FlattenSeq
  <2> QED
    BY <2>1 DEF ToSet
<1>4. CASE n # 0
  <2>1. PICK f : IsFlattening(f, seqs) /\ FlattenSeq(seqs) = f[n]
    BY <1>1, <1>4, FlatteningExists DEF FlattenSeq, IsFlattening
  <2>2. \A i \in 1..n : f[i] = IF i = 1 THEN seqs[i] ELSE f[i - 1] \o seqs[i]
    BY <1>1, <2>1 DEF IsFlattening
  <2> DEFINE all(k) == UNION {ToSet(seqs[i]) : i \in 1..k}
             Good == {k \in Nat : k + 1 <= n =>
                        f[k + 1] \in Seq(T) /\ ToSet(f[k + 1]) = all(k + 1)}
  <2>3. 0 \in Good
    <3>1. 1 \in 1..n /\ 0 + 1 = 1
      BY <1>4
    <3>2. f[1] = seqs[1]
      BY <2>2, <3>1
    <3>3. all(1) = ToSet(seqs[1])
      OBVIOUS
    <3> QED
      BY <1>2, <3>1, <3>2, <3>3
  <2>4. ASSUME NEW k \in Nat, k \in Good PROVE k + 1 \in Good
    <3>1. SUFFICES ASSUME (k + 1) + 1 <= n
                   PROVE  /\ f[(k + 1) + 1] \in Seq(T)
                          /\ ToSet(f[(k + 1) + 1]) = all((k + 1) + 1)
      OBVIOUS
    <3>2. PICK m \in Nat : m = k + 1
      OBVIOUS
    <3>3. m \in 1..n /\ m + 1 \in 1..n /\ m + 1 # 1 /\ (m + 1) - 1 = m
      BY <3>1, <3>2
    <3>4. f[m] \in Seq(T) /\ ToSet(f[m]) = all(m)
      BY <2>4, <3>2, <3>3
    <3>5. f[m + 1] = f[m] \o seqs[m + 1]
      BY <2>2, <3>3
    <3>6. /\ f[m + 1] \in Seq(T)
          /\ ToSet(f[m + 1]) = ToSet(f[m]) \cup ToSet(seqs[m + 1])
      BY <1>2, <3>3, <3>4, <3>5, ConcatSet
    <3>7. all(m + 1) = all(m) \cup ToSet(seqs[m + 1])
      <4>1. \A i \in 1..(m + 1) : i \in 1..m \/ i = m + 1
        OBVIOUS
      <4>2. m + 1 \in 1..(m + 1) /\ \A i \in 1..m : i \in 1..(m + 1)
        OBVIOUS
      <4> QED
        BY <4>1, <4>2
    <3> HIDE DEF all
    <3> QED
      BY <3>2, <3>4, <3>6, <3>7
  <2> HIDE DEF Good
  <2>5. \A k \in Nat : k \in Good
    BY <2>3, <2>4, NatByInduction
  <2>6. PICK l \in Nat : l + 1 = n
    <3>1. n - 1 \in Nat /\ (n - 1) + 1 = n
      BY <1>4
    <3> QED
      BY <3>1
  <2> HIDE DEF all
  <2>7. f[n] \in Seq(T) /\ ToSet(f[n]) = all(n)
    <3>1. l \in Good /\ l + 1 <= n
      BY <2>5, <2>6
    <3> QED
      BY <2>6, <3>1 DEF Good
  <2> QED
    BY <1>2, <2>1, <2>7 DEF all
<1> QED
  BY <1>3, <1>4

LEMMA SameWhenFirst ==
  ASSUME AnyHeight, NEW x \in Trees, x.type = "WITHOUT", Whole[x],
         NEW y \in Trees, y.type = "WITHOUT", y.children # <<>>,
         \A c \in ToSet(y.children) : Whole[c],
         \A p \in Posts :
           (p \in Meaning[Head(y.children)]
              /\ \A c \in ToSet(Tail(y.children)) : p \notin Meaning[c]) <=>
           (p \in Meaning[Head(x.children)]
              /\ \A c \in ToSet(Tail(x.children)) : p \notin Meaning[c])
  PROVE  Same(x, y)
<1>1. ~IsHollow(y) /\ ~IsHollow(x)
  BY WholeBySet DEF IsHollow
<1>2. Whole[y]
  BY <1>1, WholeBySet
<1>3. Meaning[y] = {p \in Posts : p \in Meaning[Head(y.children)] /\
                       \A c \in ToSet(Tail(y.children)) : p \notin Meaning[c]}
  BY <1>1, MeansDifference
<1>4. Meaning[x] = {p \in Posts : p \in Meaning[Head(x.children)] /\
                       \A c \in ToSet(Tail(x.children)) : p \notin Meaning[c]}
  BY <1>1, MeansDifference
<1>5. Meaning[y] = Meaning[x]
  BY <1>3, <1>4
<1> QED
  BY <1>2, <1>5 DEF Same

LEMMA CombineDifferences ==
  ASSUME AnyHeight, NEW x \in Trees, Whole[x], x.type = "WITHOUT",
         x.children[1].type = "WITHOUT"
  PROVE  Same(x, [x.children[1] EXCEPT !.children =
                    SortedTail(@ \o Tail(x.children))])
<1> DEFINE ch == x.children
           inner == ch[1]
           s == inner.children \o Tail(ch)
           y == WithChildren(inner, SortedTail(s))
<1>1. /\ ~IsHollow(x) /\ \A c \in ToSet(ch) : Whole[c]
  BY WholeBySet
<1>2. /\ Head(ch) = inner /\ inner \in Trees /\ Tail(ch) \in Seq(Trees)
      /\ ToSet(ch) = {inner} \cup ToSet(Tail(ch))
  BY <1>1, MeansDifference
<1>3. Whole[inner] /\ \A c \in ToSet(Tail(ch)) : Whole[c]
  BY <1>1, <1>2
<1>4. inner.type = "WITHOUT"
  OBVIOUS
<1> HIDE DEF inner
<1>5. /\ ~IsHollow(inner) /\ \A c \in ToSet(inner.children) : Whole[c]
      /\ inner.children # <<>> /\ inner.children \in Seq(Trees)
  BY <1>2, <1>3, <1>4, WholeBySet, TreeParts DEF IsHollow
<1>6. /\ s \in Seq(Trees) /\ s # <<>> /\ Head(s) = Head(inner.children)
      /\ ToSet(s) = ToSet(inner.children) \cup ToSet(Tail(ch))
      /\ ToSet(Tail(s)) = ToSet(Tail(inner.children)) \cup ToSet(Tail(ch))
  <2>1. s \in Seq(Trees) /\ Longer(s, inner.children, Tail(ch))
    BY <1>2, <1>5, Lengthened, Zenon
  <2> HIDE DEF s
  <2> QED
    BY <1>5, <2>1 DEF Longer
<1> HIDE DEF s
<1>7. /\ SortedTail(s) \in Seq(Trees) /\ SortedTail(s) # <<>>
      /\ Head(SortedTail(s)) = Head(s)
      /\ ToSet(Tail(SortedTail(s))) = ToSet(Tail(s))
      /\ ToSet(SortedTail(s)) = {Head(s)} \cup ToSet(Tail(s))
  <2>1. /\ Head(s) \in Trees /\ Sorted(Tail(s)) \in Seq(Trees)
        /\ SortedTail(s) = <<Head(s)>> \o Sorted(Tail(s))
        /\ SortedTail(s) \in Seq(Trees)
        /\ ToSet(Sorted(Tail(s))) = ToSet(Tail(s))
    BY <1>6, SortedTailGives
  <2>2. Begun(<<Head(s)>> \o Sorted(Tail(s)), Head(s), Sorted(Tail(s)))
    BY <2>1, FirstBefore
  <2> QED
    BY <2>1, <2>2 DEF Begun
<1>8. ToSet(s) = {Head(s)} \cup ToSet(Tail(s))
  BY <1>6, FirstAndRest
<1>9. y \in Trees /\ y.type = "WITHOUT" /\ y.children = SortedTail(s)
  BY <1>2, <1>4, <1>7, NewChildren
<1>10. y = [ch[1] EXCEPT !.children = SortedTail(@ \o Tail(ch))]
  BY DEF WithChildren, inner, s
<1> HIDE DEF y
<1>11. \A c \in ToSet(y.children) : Whole[c]
  BY <1>3, <1>5, <1>6, <1>7, <1>8, <1>9
<1>12. Meaning[inner] =
         {p \in Posts : p \in Meaning[Head(inner.children)] /\
            \A c \in ToSet(Tail(inner.children)) : p \notin Meaning[c]}
  BY <1>2, <1>4, <1>5, MeansDifference
<1>13. ASSUME NEW p \in Posts
       PROVE  (p \in Meaning[Head(y.children)]
                 /\ \A c \in ToSet(Tail(y.children)) : p \notin Meaning[c]) <=>
              (p \in Meaning[Head(ch)]
                 /\ \A c \in ToSet(Tail(ch)) : p \notin Meaning[c])
  BY <1>2, <1>6, <1>7, <1>9, <1>12
<1>14. Same(x, y)
  BY <1>7, <1>9, <1>11, <1>13, SameWhenFirst
<1> QED
  BY <1>10, <1>14

Spread(x, c) == IF c.type = x.type THEN c.children ELSE <<c>>

SpreadOut(x) ==
  Sorted(FlattenSeq([i \in DOMAIN x.children |-> Spread(x, x.children[i])]))

LEMMA SpreadGives ==
  ASSUME AnyHeight, NEW x \in Trees
  PROVE  /\ \A c \in Trees : Spread(x, c) \in Seq(Trees)
         /\ SpreadOut(x) \in Seq(Trees)
         /\ ToSet(SpreadOut(x)) =
              UNION {ToSet(Spread(x, c)) : c \in ToSet(x.children)}
<1> DEFINE ch == x.children
           seqs == [i \in DOMAIN ch |-> Spread(x, ch[i])]
<1>1. ch \in Seq(Trees) /\ \A i \in DOMAIN ch : ch[i] \in Trees
  BY TreeParts
<1>2. ASSUME NEW c \in Trees PROVE Spread(x, c) \in Seq(Trees)
  <2>1. c.children \in Seq(Trees)
    BY TreeParts
  <2>2. <<c>> \in Seq(Trees)
    OBVIOUS
  <2> QED
    BY <2>1, <2>2 DEF Spread
<1>3. seqs \in Seq(Seq(Trees))
  <2>1. PICK n \in Nat : DOMAIN ch = 1..n
    BY <1>1, LenProperties
  <2>2. \A i \in 1..n : seqs[i] \in Seq(Trees)
    BY <1>1, <1>2, <2>1
  <2>3. seqs = [i \in 1..n |-> seqs[i]]
    BY <2>1
  <2> HIDE DEF seqs
  <2> QED
    BY <2>2, <2>3, IsASeq
<1>4. /\ FlattenSeq(seqs) \in Seq(Trees)
      /\ ToSet(FlattenSeq(seqs)) = UNION {ToSet(seqs[i]) : i \in DOMAIN seqs}
  BY <1>3, FlattenedSet
<1>5. UNION {ToSet(seqs[i]) : i \in DOMAIN seqs} =
        UNION {ToSet(Spread(x, c)) : c \in ToSet(ch)}
  <2>1. \A i \in DOMAIN ch : seqs[i] = Spread(x, ch[i])
    OBVIOUS
  <2>2. ToSet(ch) = {ch[i] : i \in DOMAIN ch} /\ DOMAIN seqs = DOMAIN ch
    BY DEF ToSet
  <2> HIDE DEF seqs
  <2> QED
    BY <2>1, <2>2
<1>6. SpreadOut(x) = Sorted(FlattenSeq(seqs))
  BY DEF SpreadOut
<1> HIDE DEF seqs
<1> QED
  BY <1>2, <1>4, <1>5, <1>6, SortedGives

LEMMA CombineChildren ==
  ASSUME AnyHeight, NEW x \in Trees, Whole[x], x.type \in {"AND", "OR"}
  PROVE  Same(x, [x EXCEPT !.children = SpreadOut(x)])
<1> DEFINE ch == x.children
           s == SpreadOut(x)
           y == WithChildren(x, s)
<1>1. /\ ch \in Seq(Trees) /\ \A i \in DOMAIN ch : ch[i] \in Trees /\ Whole[ch[i]]
  BY TreeParts, WholeStep
<1>2. ASSUME NEW c \in Trees
      PROVE  /\ Whole[c] => \A d \in ToSet(Spread(x, c)) : Whole[d]
             /\ x.type = "AND" => \A p \in Posts :
                  p \in Meaning[c] <=> \A d \in ToSet(Spread(x, c)) : p \in Meaning[d]
             /\ x.type = "OR" => \A p \in Posts :
                  p \in Meaning[c] <=> \E d \in ToSet(Spread(x, c)) : p \in Meaning[d]
  <2>1. CASE c.type = x.type
    <3>1. Spread(x, c) = c.children
      BY <2>1 DEF Spread
    <3>2. /\ c.children \in Seq(Trees)
          /\ Whole[c] => \A d \in ToSet(c.children) : Whole[d]
      BY TreeParts, WholeBySet
    <3>3. ASSUME x.type = "AND", NEW p \in Posts
          PROVE  p \in Meaning[c] <=> \A d \in ToSet(c.children) : p \in Meaning[d]
      <4>1. Meaning[c] =
              {q \in Posts : \A d \in ToSet(c.children) : q \in Meaning[d]}
        BY <2>1, <3>3, MeansAll
      <4> QED
        BY <4>1
    <3>4. ASSUME x.type = "OR", NEW p \in Posts
          PROVE  p \in Meaning[c] <=> \E d \in ToSet(c.children) : p \in Meaning[d]
      <4>1. Meaning[c] =
              {q \in Posts : \E d \in ToSet(c.children) : q \in Meaning[d]}
        BY <2>1, <3>4, MeansSome
      <4> QED
        BY <4>1
    <3> QED
      BY <3>1, <3>2, <3>3, <3>4
  <2>2. CASE c.type # x.type
    <3>1. Spread(x, c) = <<c>> /\ ToSet(<<c>>) = {c} /\ <<c>> \in Seq(Trees)
      BY <2>2 DEF Spread, ToSet
    <3> QED
      BY <3>1
  <2> QED
    BY <2>1, <2>2
<1>3. /\ s \in Seq(Trees)
      /\ ToSet(s) = UNION {ToSet(Spread(x, c)) : c \in ToSet(ch)}
  BY SpreadGives
<1> HIDE DEF s
<1>4. y \in Trees /\ y.type = x.type /\ y.children = s
  BY <1>3, NewChildren
<1>5. y = [x EXCEPT !.children = SpreadOut(x)]
  BY DEF WithChildren, s
<1> HIDE DEF y
<1>6. \A c \in ToSet(ch) : c \in Trees /\ Whole[c]
  BY <1>1 DEF ToSet
<1>7. \A d \in ToSet(y.children) : Whole[d]
  BY <1>2, <1>3, <1>4, <1>6
<1>8. CASE x.type = "AND"
  <2>1. ASSUME NEW p \in Posts
        PROVE  (\A d \in ToSet(y.children) : p \in Meaning[d]) <=>
               (\A c \in ToSet(ch) : p \in Meaning[c])
    BY <1>2, <1>3, <1>4, <1>6, <1>8
  <2> QED
    BY <1>4, <1>5, <1>7, <1>8, <2>1, SameAll
<1>9. CASE x.type = "OR"
  <2>1. ASSUME NEW p \in Posts
        PROVE  (\E d \in ToSet(y.children) : p \in Meaning[d]) <=>
               (\E c \in ToSet(ch) : p \in Meaning[c])
    BY <1>2, <1>3, <1>4, <1>6, <1>9
  <2> QED
    BY <1>4, <1>5, <1>7, <1>9, <2>1, SameSome
<1> QED
  BY <1>8, <1>9

LEMMA CombineKeeps ==
  ASSUME AnyHeight, NEW x \in Trees, Whole[x]
  PROVE  Same(x, CombineHierarchy(x))
<1> DEFINE ch == x.children
<1>1. ASSUME x.type = "WITHOUT", ch[1].type = "WITHOUT"
      PROVE  Same(x, [ch[1] EXCEPT !.children = SortedTail(@ \o Tail(ch))])
  BY <1>1, CombineDifferences
<1>2. ASSUME x.type \in {"AND", "OR"}
      PROVE  Same(x, [x EXCEPT !.children = Sorted(FlattenSeq(
                        [i \in DOMAIN ch |-> IF ch[i].type = x.type
                           THEN ch[i].children ELSE <<ch[i]>>]))])
  BY <1>2, CombineChildren DEF SpreadOut, Spread
<1>3. Same(x, x)
  BY SameTree
<1> QED
  BY <1>1, <1>2, <1>3 DEF CombineHierarchy

(* The children that are not n, sorted and without repetitions. *)
Cleared(n, s) ==
  /\ Dedupe(Without(s, n)) \in Seq(Trees)
  /\ ToSet(Dedupe(Without(s, n))) = ToSet(s) \ {n}

LEMMA ClearedGives ==
  ASSUME AnyHeight, NEW n, NEW s \in Seq(Trees)
  PROVE  Cleared(n, s)
<1>1. Without(s, n) \in Seq(Trees) /\ ToSet(Without(s, n)) = ToSet(s) \ {n}
  BY WithoutGives
<1> DEFINE rest == Without(s, n)
<1> HIDE DEF rest
<1>2. Dedupe(rest) \in Seq(Trees) /\ ToSet(Dedupe(rest)) = ToSet(rest)
  BY <1>1, DedupeKeepsNodes DEF rest
<1> QED
  BY <1>1, <1>2 DEF Cleared, rest

LEMMA SimplifyChildrenKeeps ==
  ASSUME AnyHeight, NEW x \in Trees, Whole[x]
  PROVE  Same(x, SimplifyChildren(x))
<1> DEFINE ch == x.children
<1>1. ch \in Seq(Trees) /\ \A c \in ToSet(ch) : Whole[c]
  BY TreeParts, WholeBySet
<1>2. ASSUME x.type = "OR"
      PROVE  Same(x, [x EXCEPT !.children = Dedupe(Without(ch, EmptyQueryNode))])
  <2> DEFINE s == Dedupe(Without(ch, EmptyQueryNode))
             y == WithChildren(x, s)
  <2>1. s \in Seq(Trees) /\ ToSet(s) = ToSet(ch) \ {EmptyQueryNode}
    BY <1>1, ClearedGives DEF Cleared
  <2>2. [x EXCEPT !.children = s] = y
    BY DEF WithChildren
  <2> HIDE DEF s
  <2>3. y \in Trees /\ y.type = x.type /\ y.children = s
    BY <1>2, <2>1, NewChildren
  <2> HIDE DEF y
  <2>4. Same(x, y)
    BY <1>1, <1>2, <2>1, <2>3, SpecialNodes, SameSome
  <2> QED
    BY <2>2, <2>4 DEF s
<1>3. ASSUME x.type = "AND"
      PROVE  Same(x, [x EXCEPT !.children = Dedupe(Without(ch, AllQueryNode))])
  <2> DEFINE s == Dedupe(Without(ch, AllQueryNode))
             y == WithChildren(x, s)
  <2>1. s \in Seq(Trees) /\ ToSet(s) = ToSet(ch) \ {AllQueryNode}
    BY <1>1, ClearedGives DEF Cleared
  <2>2. [x EXCEPT !.children = s] = y
    BY DEF WithChildren
  <2> HIDE DEF s
  <2>3. y \in Trees /\ y.type = x.type /\ y.children = s
    BY <1>3, <2>1, NewChildren
  <2> HIDE DEF y
  <2>4. Same(x, y)
    BY <1>1, <1>3, <2>1, <2>3, SpecialNodes, SameAll
  <2> QED
    BY <2>2, <2>4 DEF s
<1>4. ASSUME x.type = "WITHOUT"
      PROVE  Same(x, [x EXCEPT !.children =
                        <<Head(ch)>> \o Dedupe(Without(Tail(ch), EmptyQueryNode))])
  <2> DEFINE h == Head(ch)
             t == Dedupe(Without(Tail(ch), EmptyQueryNode))
             y == WithChildren(x, <<h>> \o t)
  <2>1. ch # <<>> /\ ~IsHollow(x)
    BY <1>4, WholeBySet DEF IsHollow
  <2>2. /\ Head(ch) \in Trees /\ Tail(ch) \in Seq(Trees)
        /\ ToSet(ch) = {Head(ch)} \cup ToSet(Tail(ch))
    BY <1>1, <2>1, FirstAndRest
  <2>3. t \in Seq(Trees) /\ ToSet(t) = ToSet(Tail(ch)) \ {EmptyQueryNode}
    BY <2>2, ClearedGives DEF Cleared
  <2>4. [x EXCEPT !.children = <<h>> \o t] = y
    BY DEF WithChildren
  <2> HIDE DEF t, h
  <2>5. <<h>> \o t \in Seq(Trees)
    BY <2>2, <2>3, FirstBefore DEF h
  <2>6. y \in Trees /\ y.type = x.type /\ y.children = <<h>> \o t
    BY <1>4, <2>5, NewChildren
  <2> HIDE DEF y
  <2>7. h \in Trees /\ Whole[h] /\ \A c \in ToSet(t) : Whole[c]
    BY <1>1, <2>2, <2>3 DEF h
  <2>8. ASSUME NEW p \in Posts
        PROVE  (p \in Meaning[h] /\ \A c \in ToSet(t) : p \notin Meaning[c]) <=>
               (p \in Meaning[Head(ch)]
                  /\ \A c \in ToSet(Tail(ch)) : p \notin Meaning[c])
    BY <2>3, SpecialNodes DEF h
  <2>9. Same(x, y)
    BY <1>4, <2>3, <2>6, <2>7, <2>8, SameDifference
  <2> QED
    BY <2>4, <2>9 DEF t, h
<1>5. Same(x, x)
  BY SameTree
<1> QED
  BY <1>2, <1>3, <1>4, <1>5 DEF SimplifyChildren

-----------------------------------------------------------------------------
(* A node whose children have been rewritten.                              *)
LEMMA NodeOverOthers ==
  ASSUME AnyHeight, NEW f, NEW x \in Trees,
         \A i \in DOMAIN x.children : f[x.children[i]] \in Trees
  PROVE  /\ WithBelow(f, x) \in Trees
         /\ WithBelow(f, x).type = x.type
         /\ DOMAIN WithBelow(f, x).children = DOMAIN x.children
         /\ \A i \in DOMAIN x.children :
              WithBelow(f, x).children[i] = f[x.children[i]]
         /\ x.children = <<>> => WithBelow(f, x) = x
         /\ IsHollow(WithBelow(f, x)) <=> IsHollow(x)
<1>1. PICK n \in Nat : n = Len(x.children)
  BY TreeParts
<1>2. /\ x = [type |-> x.type, query |-> x.query, children |-> x.children]
      /\ x.type \in NodeTypes /\ x.query \in Seq(Characters)
      /\ x.children \in Seq(Trees) /\ WellFormed(x)
      /\ DOMAIN x.children = 1..n
  BY <1>1, TreeParts
<1> DEFINE below == [i \in 1..n |-> f[x.children[i]]]
<1>3. /\ below \in Seq(Trees) /\ Len(below) = n /\ DOMAIN below = 1..n
      /\ \A i \in 1..n : below[i] = f[x.children[i]]
  <2>1. \A i \in 1..n : f[x.children[i]] \in Trees
    BY <1>2
  <2> QED
    BY <2>1
<1>4. Below(f, x) = below
  BY <1>2 DEF Below
<1> HIDE DEF below
<1>5. WithBelow(f, x) = [type |-> x.type, query |-> x.query, children |-> below]
  BY <1>2, <1>4 DEF WithBelow
<1>6. /\ x.children = <<>> <=> n = 0
      /\ below = <<>> <=> n = 0
  BY <1>1, <1>2, <1>3, EmptySeq
<1>7. x.children = <<>> => below = x.children
  BY <1>6
<1>8. x.type = "QUERY" => below = <<>>
  BY <1>2, <1>6 DEF WellFormed
<1>9. x.type = "NOT" => Len(below) = 1
  BY <1>1, <1>2, <1>3 DEF WellFormed
<1>10. WithBelow(f, x) \in Trees
  BY <1>2, <1>3, <1>5, <1>8, <1>9, TreeMade
<1>11. WithBelow(f, x).type = x.type /\ WithBelow(f, x).children = below
  BY <1>5
<1>12. x.children = <<>> => WithBelow(f, x) = x
  BY <1>2, <1>5, <1>7
<1>13. IsHollow(WithBelow(f, x)) <=> IsHollow(x)
  BY <1>6, <1>11 DEF IsHollow
<1> QED
  BY <1>2, <1>3, <1>10, <1>11, <1>12, <1>13

(* It stands for the same posts when its children do. *)
LEMMA MeansOverOthers ==
  ASSUME AnyHeight, NEW f, NEW x \in Trees,
         \A i \in DOMAIN x.children :
           /\ f[x.children[i]] \in Trees
           /\ Meaning[f[x.children[i]]] = Meaning[x.children[i]]
  PROVE  Meaning[WithBelow(f, x)] = Meaning[x]
<1> DEFINE y == WithBelow(f, x)
<1>1. /\ y \in Trees /\ y.type = x.type
      /\ DOMAIN y.children = DOMAIN x.children
      /\ \A i \in DOMAIN x.children : y.children[i] = f[x.children[i]]
      /\ x.children = <<>> => y = x
  BY NodeOverOthers
<1> HIDE DEF y
<1>2. CASE x.type = "QUERY"
  <2>1. x.children = <<>>
    BY <1>2, TreeParts DEF WellFormed
  <2> QED
    BY <1>1, <2>1 DEF y
<1>3. CASE x.type # "QUERY"
  <2>1. Below(Meaning, y) = Below(Meaning, x)
    BY <1>1 DEF Below
  <2>2. \A of : Means(y, of) = Means(x, of)
    <3>1. x.type \in {"AND", "OR", "WITHOUT", "NOT"} /\ y.type = x.type
      BY <1>1, <1>3, TreeParts DEF NodeTypes
    <3> QED
      BY <3>1 DEF Means
  <2>3. Meaning[y] = Means(y, Below(Meaning, y))
        /\ Meaning[x] = Means(x, Below(Meaning, x))
    BY <1>1, MeaningStep
  <2> QED
    BY <2>1, <2>2, <2>3 DEF y
<1> QED
  BY <1>2, <1>3

(* A rule that keeps what a node stands for keeps what the tree does.      *)
LEMMA WalkKeeps ==
  ASSUME AnyHeight, NEW r,
         \A x \in Trees : Whole[x] => Same(x, Rewritten(r, x))
  PROVE  \A x \in Trees : Whole[x] => Same(x, Walked(r)[x])
<1> DEFINE Good == {x \in Trees : Whole[x] => Same(x, Walked(r)[x])}
<1>1. ASSUME NEW x \in Trees,
             \A i \in DOMAIN x.children : x.children[i] \in Good
      PROVE  x \in Good
  <2>1. SUFFICES ASSUME Whole[x] PROVE Same(x, Walked(r)[x])
    OBVIOUS
  <2>2. ~IsHollow(x) /\ \A i \in DOMAIN x.children : Whole[x.children[i]]
    BY <2>1, WholeStep
  <2> DEFINE f == Walked(r)
             y == WithBelow(f, x)
  <2> HIDE DEF f
  <2>3. ASSUME NEW i \in DOMAIN x.children
        PROVE  /\ f[x.children[i]] \in Trees /\ Whole[f[x.children[i]]]
               /\ Meaning[f[x.children[i]]] = Meaning[x.children[i]]
    BY <1>1, <2>2 DEF Same, f
  <2>4. /\ y \in Trees
        /\ DOMAIN y.children = DOMAIN x.children
        /\ \A i \in DOMAIN x.children : y.children[i] = f[x.children[i]]
        /\ IsHollow(y) <=> IsHollow(x)
    BY <2>3, NodeOverOthers
  <2>5. Meaning[y] = Meaning[x]
    BY <2>3, MeansOverOthers
  <2> HIDE DEF y
  <2>6. Whole[y]
    BY <2>2, <2>3, <2>4, WholeStep
  <2>7. Walked(r)[x] = Rewritten(r, y)
    BY WalkedStep DEF f, y
  <2>8. Same(y, Rewritten(r, y))
    BY <2>4, <2>6
  <2> QED
    BY <2>5, <2>7, <2>8 DEF Same
<1> HIDE DEF Good
<1>2. \A x \in Trees : x \in Good
  BY <1>1, TreeInduction
<1> QED
  BY <1>2 DEF Good

LEMMA SortWalk ==
  ASSUME AnyHeight
  PROVE  \A x \in Trees :
           Whole[x] => Same(x, Walked("canonicalizeNodeSortOrder")[x])
<1> DEFINE r == "canonicalizeNodeSortOrder"
<1>1. \A x \in Trees : Whole[x] => Same(x, Rewritten(r, x))
  BY SortKeeps DEF Rewritten
<1> HIDE DEF r
<1>2. \A x \in Trees : Whole[x] => Same(x, Walked(r)[x])
  BY <1>1, WalkKeeps
<1> QED
  BY <1>2 DEF r

LEMMA FirstSixWalks ==
  ASSUME AnyHeight, NEW n \in 1..6
  PROVE  \A x \in Trees : Whole[x] => Same(x, Walked(Rules[n])[x])
<1> DEFINE r == Rules[n]
<1>1. ASSUME NEW x \in Trees, Whole[x] PROVE Same(x, Rewritten(r, x))
  <2>1. CASE n = 1
    <3>1. r = "RemoveUnnecessaryNodes"
      BY <2>1 DEF Rules
    <3> QED
      BY <1>1, <3>1, RemoveUnnecessaryKeeps DEF Rewritten
  <2>2. CASE n = 2
    <3>1. r = "SimplifyFlags"
      BY <2>2 DEF Rules
    <3> QED
      BY <1>1, <3>1, SimplifyFlagsKeeps DEF Rewritten
  <2>3. CASE n = 3
    <3>1. r = "ImplementNotUsingWithout"
      BY <2>3 DEF Rules
    <3> QED
      BY <1>1, <3>1, ImplementNotKeeps DEF Rewritten
  <2>4. CASE n = 4
    <3>1. r = "CombineHierarchy"
      BY <2>4 DEF Rules
    <3> QED
      BY <1>1, <3>1, CombineKeeps DEF Rewritten
  <2>5. CASE n = 5
    <3>1. r = "RemoveSelfCancelingWithout"
      BY <2>5 DEF Rules
    <3> QED
      BY <1>1, <3>1, RemoveSelfCancelingKeeps DEF Rewritten
  <2>6. CASE n = 6
    <3>1. r = "SimplifyChildren"
      BY <2>6 DEF Rules
    <3> QED
      BY <1>1, <3>1, SimplifyChildrenKeeps DEF Rewritten
  <2> QED
    BY <2>1, <2>2, <2>3, <2>4, <2>5, <2>6
<1> HIDE DEF r
<1>2. \A x \in Trees : Whole[x] => Same(x, Walked(r)[x])
  BY <1>1, WalkKeeps
<1> QED
  BY <1>2 DEF r

-----------------------------------------------------------------------------
LEMMA LooseStep ==
  ASSUME AnyHeight
  PROVE  \A x \in Trees :
           Loose[x] <=> \A i \in DOMAIN x.children :
                          /\ Loose[x.children[i]]
                          /\ x.type # "OR" => ~IsHollow(x.children[i])
<1> DEFINE G == [x \in Trees |-> [s \in Seq(BOOLEAN) |->
                   \A i \in DOMAIN x.children :
                     s[i] /\ Allows(x, x.children[i])]]
<1>1. G \in [Trees -> [Seq(BOOLEAN) -> BOOLEAN]]
  OBVIOUS
<1>2. PICK f \in [Trees -> BOOLEAN] : Follows(f, Trees, G)
  BY <1>1, TreeRecursion
<1>3. ASSUME NEW x \in Trees
      PROVE  f[x] = (\A i \in DOMAIN x.children :
                       f[x.children[i]] /\ Allows(x, x.children[i]))
  <2>1. Below(f, x) \in Seq(BOOLEAN)
    BY BelowParts
  <2>2. f[x] = G[x][Below(f, x)]
    BY <1>2 DEF Follows
  <2>3. \A i \in DOMAIN x.children : Below(f, x)[i] = f[x.children[i]]
    BY DEF Below
  <2> QED
    BY <2>1, <2>2, <2>3
<1>4. f = [x \in Trees |-> \A i \in DOMAIN x.children :
                             f[x.children[i]] /\ Allows(x, x.children[i])]
  BY <1>3
<1> HIDE DEF G
<1>5. Loose = [x \in Trees |-> \A i \in DOMAIN x.children :
                      Loose[x.children[i]] /\ Allows(x, x.children[i])]
  BY <1>4 DEF Loose
<1> QED
  BY <1>5 DEF Allows

LEMMA LooseBySet ==
  ASSUME AnyHeight, NEW x \in Trees
  PROVE  Loose[x] <=> \A c \in ToSet(x.children) :
                        Loose[c] /\ (x.type # "OR" => ~IsHollow(c))
BY LooseStep DEF ToSet

(* What a node finds has the word that the node contains for certain.      *)
LEMMA ContainsOnlyMeans ==
  ASSUME AnyHeight, NEW word
  PROVE  \A x \in Trees :
           ContainsOnly(word)[x] =>
             Meaning[x] \subseteq WordFinds(Index, QueryNode(word))
<1> DEFINE has == ContainsOnly(word)
           found == WordFinds(Index, QueryNode(word))
           Good == {x \in Trees : has[x] => Meaning[x] \subseteq found}
<1>1. \A x \in Trees :
        has[x] = (CASE x.type = "QUERY" -> x.query = word
                    [] x.type = "AND" ->
                         \E i \in DOMAIN x.children : has[x.children[i]]
                    [] x.type = "WITHOUT" /\ ~IsHollow(x) -> has[x.children[1]]
                    [] OTHER -> FALSE)
  BY ContainsOnlyStep
<1> HIDE DEF has, found
<1>2. ASSUME NEW x \in Trees,
             \A i \in DOMAIN x.children : x.children[i] \in Good
      PROVE  x \in Good
  <2>1. SUFFICES ASSUME has[x] PROVE Meaning[x] \subseteq found
    OBVIOUS
  <2>2. CASE x.type = "QUERY"
    <3>1. x.query = word
      BY <1>1, <2>1, <2>2
    <3>2. x = QueryNode(word)
      BY <2>2, <3>1, TreeParts DEF WellFormed, QueryNode
    <3> QED
      BY <2>2, <3>2, MeansWord DEF found
  <2>3. CASE x.type = "AND"
    <3>1. PICK i \in DOMAIN x.children : has[x.children[i]]
      BY <1>1, <2>1, <2>3
    <3>2. x.children[i] \in ToSet(x.children)
      BY DEF ToSet
    <3>3. Meaning[x] = {p \in Posts :
                          \A c \in ToSet(x.children) : p \in Meaning[c]}
      BY <2>3, MeansAll
    <3>4. Meaning[x] \subseteq Meaning[x.children[i]]
      BY <3>2, <3>3
    <3> QED
      BY <1>2, <3>1, <3>4
  <2>4. CASE x.type = "WITHOUT" /\ ~IsHollow(x)
    <3>1. has[x.children[1]]
      BY <1>1, <2>1, <2>4
    <3>2. /\ Head(x.children) = x.children[1] /\ 1 \in DOMAIN x.children
          /\ Meaning[x] =
               {p \in Posts : /\ p \in Meaning[Head(x.children)]
                              /\ \A c \in ToSet(Tail(x.children)) :
                                   p \notin Meaning[c]}
      BY <2>4, MeansDifference
    <3>3. Meaning[x] \subseteq Meaning[x.children[1]]
      BY <3>2
    <3> QED
      BY <1>2, <3>1, <3>2, <3>3
  <2> QED
    BY <1>1, <2>1, <2>2, <2>3, <2>4
<1> HIDE DEF Good
<1>3. \A x \in Trees : x \in Good
  BY <1>2, TreeInduction
<1> QED
  BY <1>3 DEF Good, has, found

(* Trees in which only an OR has a WITHOUT of nothing, and those of them   *)
(* that are none.                                                          *)
LooseTrees == {x \in Trees : Loose[x]}
FirmTrees == {x \in LooseTrees : ~IsHollow(x)}

LEMMA LooseChildren ==
  ASSUME AnyHeight, NEW x \in LooseTrees, x.type # "OR"
  PROVE  x.children \in Seq(FirmTrees)
<1>1. /\ x.children \in Seq(Trees)
      /\ x.children = [i \in 1..Len(x.children) |-> x.children[i]]
      /\ Len(x.children) \in Nat /\ DOMAIN x.children = 1..Len(x.children)
      /\ \A i \in DOMAIN x.children : x.children[i] \in Trees
  BY TreeParts DEF LooseTrees
<1>2. \A i \in DOMAIN x.children : x.children[i] \in FirmTrees
  BY <1>1, LooseStep DEF LooseTrees, FirmTrees
<1>3. PICK n \in Nat : n = Len(x.children)
  BY <1>1
<1>4. x.children = [i \in 1..n |-> x.children[i]]
      /\ \A i \in 1..n : x.children[i] \in FirmTrees
  BY <1>1, <1>2, <1>3
<1> QED
  BY <1>4

LEMMA LooseMade ==
  ASSUME AnyHeight, NEW x \in Trees, NEW T, T \subseteq LooseTrees,
         x.type # "OR" => T \subseteq FirmTrees, x.children \in Seq(T)
  PROVE  x \in LooseTrees
<1>1. \A i \in DOMAIN x.children : x.children[i] \in T
  BY LenProperties, ElementOfSeq
<1> QED
  BY <1>1, LooseStep DEF LooseTrees, FirmTrees

(* A term and its exclusions are removed. *)
DropFrom(child, term) ==
  IF Excludes(child, term)
  THEN [child EXCEPT !.children = Without(@, term)] ELSE child

LEMMA DropFromLoose ==
  ASSUME AnyHeight, NEW c \in LooseTrees, NEW term
  PROVE  DropFrom(c, term) \in LooseTrees
<1>1. CASE ~Excludes(c, term)
  BY <1>1 DEF DropFrom
<1>2. CASE Excludes(c, term)
  <2>1. c.type = "WITHOUT" /\ c \in Trees
    BY <1>2 DEF Excludes, LooseTrees
  <2>2. c.children \in Seq(FirmTrees)
    BY <2>1, LooseChildren
  <2> DEFINE s == Without(c.children, term)
             y == WithChildren(c, s)
  <2>3. s \in Seq(FirmTrees)
    BY <2>2, WithoutGives
  <2>4. DropFrom(c, term) = y
    BY <1>2 DEF DropFrom, WithChildren
  <2> HIDE DEF s
  <2>5. s \in Seq(Trees)
    <3>1. FirmTrees \subseteq Trees
      BY DEF FirmTrees, LooseTrees
    <3> QED
      BY <2>3, <3>1, SeqMonotonic
  <2>6. y \in Trees /\ y.type = "WITHOUT" /\ y.children = s
    BY <2>1, <2>5, NewChildren
  <2> HIDE DEF y
  <2>7. y \in LooseTrees
    <3>1. FirmTrees \subseteq LooseTrees
      BY DEF FirmTrees
    <3> QED
      BY <2>3, <2>6, <3>1, LooseMade
  <2> QED
    BY <2>4, <2>7
<1> QED
  BY <1>1, <1>2

LEMMA DropTermLoose ==
  ASSUME AnyHeight, NEW s \in Seq(LooseTrees), NEW term
  PROVE  DropTerm(s, term) \in Seq(LooseTrees)
<1> DEFINE rest == Without(s, term)
           after == [i \in DOMAIN rest |-> DropFrom(rest[i], term)]
<1>1. rest \in Seq(LooseTrees)
  BY WithoutGives
<1>2. DropTerm(s, term) \in {s, after}
  BY DEF DropTerm, DropFrom
<1> HIDE DEF rest
<1>3. PICK n \in Nat : n = Len(rest)
  BY <1>1, LenProperties
<1>4. DOMAIN rest = 1..n /\ \A i \in 1..n : rest[i] \in LooseTrees
  BY <1>1, <1>3, LenProperties, ElementOfSeq
<1>5. after = [i \in 1..n |-> DropFrom(rest[i], term)]
      /\ \A i \in 1..n : DropFrom(rest[i], term) \in LooseTrees
  BY <1>4, DropFromLoose
<1> HIDE DEF after
<1>6. after \in Seq(LooseTrees)
  BY <1>5
<1> QED
  BY <1>2, <1>6

(* DropTerms, one child after the other.                                   *)
LEMMA DropTermsGives ==
  ASSUME AnyHeight, NEW s \in Seq(LooseTrees)
  PROVE  /\ DropTerms(s) \in Seq(LooseTrees)
         /\ (\A i, j \in DOMAIN s :
               s[j].type # "WITHOUT" => ~Excludes(s[i], s[j])) => DropTerms(s) = s
<1>1. PICK n \in Nat : n = Len(s)
  BY LenProperties
<1>2. DOMAIN s = 1..n
  BY <1>1, LenProperties
<1> DEFINE S == Seq(LooseTrees)
           step(t, i) == IF s[i].type = "WITHOUT" THEN t ELSE DropTerm(t, s[i])
           g == [i \in 1..n |-> [t \in S |-> step(t, i)]]
<1>3. s \in S
  OBVIOUS
<1>4. ASSUME NEW t \in S, NEW i \in 1..n PROVE step(t, i) \in S
  BY DropTermLoose
<1>5. ASSUME \A i, j \in DOMAIN s : s[j].type # "WITHOUT" => ~Excludes(s[i], s[j]),
             NEW j \in 1..n
      PROVE  step(s, j) = s
  BY <1>2, <1>5 DEF DropTerm
<1> HIDE DEF S, step
<1>6. g \in [1..n -> [S -> S]]
  BY <1>4
<1>7. PICK f : Recursion(f, S, s, n, g)
  BY <1>3, <1>6, StepByStep
<1>8. f \in [0..n -> S]
  BY <1>7 DEF Recursion
<1>9. \A i \in 0..n : i # 0 => i \in 1..n /\ i - 1 \in 0..n
  OBVIOUS
<1>10. \A i \in 0..n : f[i] = IF i = 0 THEN s ELSE step(f[i - 1], i)
  BY <1>7, <1>8, <1>9 DEF Recursion
<1>11. f = [i \in 0..n |-> IF i = 0 THEN s ELSE step(f[i - 1], i)]
  BY <1>8, <1>10
<1> DEFINE h == CHOOSE h :
                  h = [i \in 0..n |-> IF i = 0 THEN s ELSE step(h[i - 1], i)]
<1>12. h = [i \in 0..n |-> IF i = 0 THEN s ELSE step(h[i - 1], i)]
  BY <1>11
<1>13. DropTerms(s) = h[n]
  <2> DEFINE d == CHOOSE d :
                    d = [i \in 0..n |-> IF i = 0 THEN s
                                        ELSE IF s[i].type = "WITHOUT" THEN d[i - 1]
                                        ELSE DropTerm(d[i - 1], s[i])]
  <2>1. DropTerms(s) = d[n]
    BY <1>1 DEF DropTerms, AfterTerms
  <2>2. d = h
    BY DEF step
  <2> QED
    BY <2>1, <2>2
<1> HIDE DEF h, g
<1>14. \A i \in 0..n : h[i] = IF i = 0 THEN s ELSE step(h[i - 1], i)
  BY <1>12
<1> DEFINE quiet == \A i, j \in DOMAIN s :
                      s[j].type # "WITHOUT" => ~Excludes(s[i], s[j])
<1> HIDE DEF quiet
<1> DEFINE Good == {i \in Nat : i <= n => h[i] \in S /\ (quiet => h[i] = s)}
<1>15. 0 \in Good
  <2>1. 0 \in 0..n
    OBVIOUS
  <2> QED
    BY <1>3, <1>14, <2>1
<1>16. ASSUME NEW i \in Nat, i \in Good PROVE i + 1 \in Good
  <2>1. SUFFICES ASSUME i + 1 <= n
                 PROVE  h[i + 1] \in S /\ (quiet => h[i + 1] = s)
    OBVIOUS
  <2>2. i + 1 \in 0..n /\ i + 1 \in 1..n /\ i + 1 # 0 /\ (i + 1) - 1 = i /\ i <= n
    BY <2>1
  <2>3. h[i + 1] = step(h[i], i + 1)
    BY <1>14, <2>2
  <2>4. h[i] \in S /\ (quiet => h[i] = s)
    BY <1>16, <2>2
  <2> QED
    BY <1>4, <1>5, <2>2, <2>3, <2>4 DEF quiet
<1> HIDE DEF Good
<1>17. \A i \in Nat : i \in Good
  BY <1>15, <1>16, NatByInduction
<1>18. h[n] \in S /\ (quiet => h[n] = s)
  BY <1>17 DEF Good
<1> QED
  BY <1>13, <1>18 DEF S, quiet

(* The rule 7 at a node with children that have none of their own lost.    *)
LEMMA CancelingGives ==
  ASSUME AnyHeight, NEW x \in FirmTrees
  PROVE  LET y == SimplifyCancelingOperationAndWithout(x)
         IN /\ y \in FirmTrees
            /\ (\A i, j \in DOMAIN x.children :
                  x.type = "OR" /\ x.children[j].type # "WITHOUT" =>
                    ~Excludes(x.children[i], x.children[j])) =>
               Meaning[y] = Meaning[x]
<1> DEFINE ch == x.children
           quiet == \A i, j \in DOMAIN ch :
                      x.type = "OR" /\ ch[j].type # "WITHOUT" =>
                        ~Excludes(ch[i], ch[j])
           Fine(y) == y \in FirmTrees /\ (quiet => Meaning[y] = Meaning[x])
<1>1. x \in Trees /\ x \in LooseTrees /\ ~IsHollow(x) /\ ch \in Seq(Trees)
  BY TreeParts DEF FirmTrees, LooseTrees
<1>2. ASSUME x.type = "WITHOUT", ch[1].type = "AND", NEW i \in 2..Len(ch),
             ch[i].type = "QUERY", ContainsOnly(ch[i].query)[ch[1]]
      PROVE  Fine(EmptyQueryNode)
  <2>1. i \in DOMAIN ch /\ i # 1
    <3>1. PICK n \in Nat : n = Len(ch) /\ DOMAIN ch = 1..n
      BY <1>1, TreeParts
    <3>2. i \in 2..n
      BY <3>1
    <3> QED
      BY <3>1, <3>2
  <2>2. /\ Head(ch) = ch[1] /\ ch[1] \in Trees
        /\ ch # <<>>
        /\ Meaning[x] = {p \in Posts : /\ p \in Meaning[Head(ch)]
                                       /\ \A c \in ToSet(Tail(ch)) : p \notin Meaning[c]}
    BY <1>1, <1>2, MeansDifference
  <2>3. ch[i] \in ToSet(Tail(ch)) /\ ch[i] \in Trees
    <3>1. ToSet(Tail(ch)) = Others(ch)
      BY <1>1, <2>2, FirstAndRest
    <3>2. ch[i] \in Others(ch)
      BY <2>1 DEF Others
    <3> QED
      BY <1>1, <2>1, <3>1, <3>2, TreeParts
  <2>4. ch[i] = QueryNode(ch[i].query)
    <3> DEFINE c == ch[i]
    <3>1. c \in Trees /\ c.type = "QUERY"
      BY <1>2, <2>3
    <3> HIDE DEF c
    <3>2. c = QueryNode(c.query)
      BY <3>1, TreeParts DEF WellFormed, QueryNode
    <3> QED
      BY <3>2 DEF c
  <2>5. Meaning[ch[i]] = WordFinds(Index, ch[i])
    BY <1>2, <2>3, MeansWord
  <2>6. Meaning[ch[1]] \subseteq Meaning[ch[i]]
    BY <1>2, <2>2, <2>4, <2>5, ContainsOnlyMeans
  <2>7. Meaning[x] = {}
    BY <2>2, <2>3, <2>6
  <2>8. EmptyQueryNode \in FirmTrees
    <3>1. EmptyQueryNode \in Trees /\ EmptyQueryNode.children = <<>>
          /\ ~IsHollow(EmptyQueryNode)
      BY SpecialNodes, WholeBySet DEF EmptyQueryNode, QueryNode
    <3> QED
      BY <3>1, LooseStep DEF FirmTrees, LooseTrees
  <2> QED
    BY <2>7, <2>8, SpecialNodes
<1>3. ASSUME x.type = "OR" PROVE Fine([x EXCEPT !.children = DropTerms(ch)])
  <2> DEFINE s == DropTerms(ch)
             y == WithChildren(x, s)
  <2>1. ch \in Seq(LooseTrees)
    <3>1. PICK n \in Nat : n = Len(ch) /\ DOMAIN ch = 1..n
                           /\ ch = [i \in 1..n |-> ch[i]]
      BY <1>1, TreeParts
    <3>2. \A i \in 1..n : ch[i] \in LooseTrees
      BY <1>1, <3>1, LooseStep, TreeParts DEF LooseTrees
    <3>3. [i \in 1..n |-> ch[i]] \in Seq(LooseTrees)
      BY <3>2
    <3> QED
      BY <3>1, <3>3
  <2>2. s \in Seq(LooseTrees) /\ (quiet => s = ch)
    BY <1>3, <2>1, DropTermsGives
  <2>3. [x EXCEPT !.children = s] = y
    BY DEF WithChildren
  <2> HIDE DEF s
  <2>4. s \in Seq(Trees)
    <3>1. LooseTrees \subseteq Trees
      BY DEF LooseTrees
    <3> QED
      BY <2>2, <3>1, SeqMonotonic
  <2>5. y \in Trees /\ y.type = "OR" /\ y.children = s
    BY <1>1, <1>3, <2>4, NewChildren
  <2>6. s = ch => y = x
    BY <1>1, TreeParts DEF WithChildren
  <2> HIDE DEF y
  <2>7. y \in LooseTrees /\ ~IsHollow(y)
    BY <2>2, <2>5, LooseMade DEF IsHollow
  <2> HIDE DEF quiet
  <2> QED
    BY <2>2, <2>3, <2>6, <2>7 DEF FirmTrees, s
<1>4. Fine(x)
  OBVIOUS
<1> HIDE DEF Fine
<1>5. Fine(SimplifyCancelingOperationAndWithout(x))
  BY <1>2, <1>3, <1>4 DEF SimplifyCancelingOperationAndWithout
<1> QED
  BY <1>5 DEF Fine

LEMMA CancelingWalk ==
  ASSUME AnyHeight
  PROVE  \A x \in Trees :
           Whole[x] => /\ Walked(Rules[7])[x] \in FirmTrees
                       /\ ~DropsTerm[x] =>
                            Meaning[Walked(Rules[7])[x]] = Meaning[x]
<1> DEFINE f == Walked(Rules[7])
           Good == {x \in Trees :
                      Whole[x] => /\ f[x] \in FirmTrees
                                  /\ ~DropsTerm[x] => Meaning[f[x]] = Meaning[x]}
<1>1. \A x \in Trees : f[x] = SimplifyCancelingOperationAndWithout(WithBelow(f, x))
  <2>1. Rules[7] = "SimplifyCancelingOperationAndWithout"
    BY DEF Rules
  <2>2. \A x \in Trees : f[x] = Rewritten(Rules[7], WithBelow(f, x))
    BY WalkedStep
  <2> HIDE DEF f
  <2> QED
    BY <2>1, <2>2 DEF Rewritten
<1>2. \A x \in Trees :
        DropsTerm[x] <=> \/ x.type = "OR"
                            /\ \E i, j \in DOMAIN x.children :
                                 /\ f[x.children[j]].type # "WITHOUT"
                                 /\ Excludes(f[x.children[i]], f[x.children[j]])
                         \/ \E i \in DOMAIN x.children : DropsTerm[x.children[i]]
  BY DropsTermStep DEF DropsHere, Below
<1> HIDE DEF f
<1>3. ASSUME NEW x \in Trees,
             \A i \in DOMAIN x.children : x.children[i] \in Good
      PROVE  x \in Good
  <2>1. SUFFICES ASSUME Whole[x]
                 PROVE  /\ f[x] \in FirmTrees
                        /\ ~DropsTerm[x] => Meaning[f[x]] = Meaning[x]
    OBVIOUS
  <2>2. ~IsHollow(x) /\ \A i \in DOMAIN x.children : Whole[x.children[i]]
    BY <2>1, WholeStep
  <2>3. ASSUME NEW i \in DOMAIN x.children
        PROVE  /\ f[x.children[i]] \in FirmTrees
               /\ ~DropsTerm[x.children[i]] =>
                    Meaning[f[x.children[i]]] = Meaning[x.children[i]]
    BY <1>3, <2>2
  <2> DEFINE y == WithBelow(f, x)
  <2>4. \A i \in DOMAIN x.children : f[x.children[i]] \in Trees
    BY <2>3 DEF FirmTrees, LooseTrees
  <2>5. /\ y \in Trees /\ y.type = x.type
        /\ DOMAIN y.children = DOMAIN x.children
        /\ \A i \in DOMAIN x.children : y.children[i] = f[x.children[i]]
        /\ IsHollow(y) <=> IsHollow(x)
    BY <2>4, NodeOverOthers
  <2>6. ~DropsTerm[x] => Meaning[y] = Meaning[x]
    BY <1>2, <2>3, <2>4, MeansOverOthers
  <2> HIDE DEF y
  <2>7. y \in FirmTrees
    BY <2>2, <2>3, <2>5, LooseStep DEF FirmTrees, LooseTrees
  <2>8. ~DropsTerm[x] =>
          \A i, j \in DOMAIN y.children :
            y.type = "OR" /\ y.children[j].type # "WITHOUT" =>
              ~Excludes(y.children[i], y.children[j])
    <3>1. SUFFICES ASSUME NEW i \in DOMAIN x.children,
                          NEW j \in DOMAIN x.children, x.type = "OR",
                          y.children[j].type # "WITHOUT",
                          Excludes(y.children[i], y.children[j])
                   PROVE  DropsTerm[x]
      BY <2>5
    <3>2. y.children[i] = f[x.children[i]] /\ y.children[j] = f[x.children[j]]
      BY <2>5
    <3>3. /\ f[x.children[j]].type # "WITHOUT"
          /\ Excludes(f[x.children[i]], f[x.children[j]])
      BY <3>1, <3>2
    <3> QED
      BY <1>2, <3>1, <3>3
  <2>9. /\ f[x] \in FirmTrees
        /\ ~DropsTerm[x] => Meaning[f[x]] = Meaning[y]
    <3>1. f[x] = SimplifyCancelingOperationAndWithout(y)
      BY <1>1 DEF y
    <3> QED
      BY <2>7, <2>8, <3>1, CancelingGives
  <2> QED
    BY <2>6, <2>9
<1> HIDE DEF Good
<1>4. \A x \in Trees : x \in Good
  BY <1>3, TreeInduction
<1> QED
  BY <1>4 DEF Good, f

(* Taking the k-th element out of a sequence leaves the others.            *)
Removal(r, s, k) == ToSet(r) = {s[i] : i \in DOMAIN s \ {k}}

LEMMA RemoveAtGives ==
  ASSUME NEW T, NEW s \in Seq(T), NEW k \in DOMAIN s
  PROVE  RemoveAt(s, k) \in Seq(T) /\ Removal(RemoveAt(s, k), s, k)
<1>1. PICK n \in Nat : n = Len(s)
  BY LenProperties
<1>2. DOMAIN s = 1..n /\ k \in 1..n /\ k \in Int /\ \A i \in 1..n : s[i] \in T
  BY <1>1, LenProperties, ElementOfSeq
<1> DEFINE a == SubSeq(s, 1, k - 1)
           b == SubSeq(s, k + 1, n)
<1>3. /\ a \in Seq(T) /\ Len(a) = k - 1
      /\ \A i \in 1..(k - 1) : a[i] = s[i]
  <2>1. \A i \in 1..(k - 1) : s[i] \in T /\ 1 + i - 1 = i
    BY <1>2
  <2>2. k - 1 \in Int /\ 1 \in Int /\ (k - 1) - 1 + 1 = k - 1
        /\ (~(1 <= k - 1) => k - 1 = 0)
    BY <1>2
  <2>3. /\ SubSeq(s, 1, k - 1) \in Seq(T)
        /\ Len(SubSeq(s, 1, k - 1)) =
             IF 1 <= k - 1 THEN (k - 1) - 1 + 1 ELSE 0
        /\ \A i \in 1..((k - 1) - 1 + 1) :
             SubSeq(s, 1, k - 1)[i] = s[1 + i - 1]
    BY <2>1, <2>2, SubSeqProperties
  <2> QED
    BY <2>1, <2>2, <2>3
<1>4. /\ b \in Seq(T) /\ Len(b) = n - k
      /\ \A i \in 1..(n - k) : b[i] = s[k + i]
  <2>1. \A i \in (k + 1)..n : s[i] \in T
    BY <1>2
  <2>2. \A i \in 1..(n - k) : (k + 1) + i - 1 = k + i
    BY <1>2
  <2>3. n - (k + 1) + 1 = n - k /\ k + 1 \in Int /\ n \in Int
        /\ (~(k + 1 <= n) => n - k = 0)
    BY <1>2
  <2>4. /\ b \in Seq(T)
        /\ Len(b) = IF k + 1 <= n THEN n - (k + 1) + 1 ELSE 0
        /\ \A i \in 1..(n - (k + 1) + 1) : b[i] = s[(k + 1) + i - 1]
    BY <2>1, <2>3, SubSeqProperties
  <2> QED
    BY <2>2, <2>3, <2>4
<1>5. RemoveAt(s, k) = a \o b
  BY <1>1 DEF RemoveAt
<1> HIDE DEF a, b
<1>6. a \o b \in Seq(T) /\ ToSet(a \o b) = ToSet(a) \cup ToSet(b)
  BY <1>3, <1>4, ConcatSet
<1>7. DOMAIN a = 1..(k - 1) /\ DOMAIN b = 1..(n - k)
  BY <1>3, <1>4, LenProperties
<1>8. ToSet(a) \cup ToSet(b) = {s[i] : i \in DOMAIN s \ {k}}
  <2>1. \A i \in 1..(k - 1) : i \in 1..n \ {k}
    BY <1>2
  <2>2. \A i \in 1..(n - k) : k + i \in 1..n \ {k}
    BY <1>2
  <2>3. ASSUME NEW i \in 1..n \ {k} PROVE s[i] \in ToSet(a) \cup ToSet(b)
    <3>1. CASE i \in 1..(k - 1)
      BY <1>3, <1>7, <3>1 DEF ToSet
    <3>2. CASE i \notin 1..(k - 1)
      <4>1. i - k \in 1..(n - k) /\ k + (i - k) = i
        BY <1>2, <3>2
      <4>2. PICK j \in 1..(n - k) : k + j = i
        BY <4>1
      <4> QED
        BY <1>4, <1>7, <4>2 DEF ToSet
    <3> QED
      BY <3>1, <3>2
  <2>4. ToSet(a) \subseteq {s[i] : i \in 1..n \ {k}}
    BY <1>3, <1>7, <2>1 DEF ToSet
  <2>5. ToSet(b) \subseteq {s[i] : i \in 1..n \ {k}}
    BY <1>4, <1>7, <2>2 DEF ToSet
  <2> QED
    BY <1>2, <2>3, <2>4, <2>5
<1> QED
  BY <1>5, <1>6, <1>8 DEF Removal

LEMMA FirstOfType ==
  ASSUME NEW s \in Seq(Trees), OfType(s, "WITHOUT")
  PROVE  LET k == SelectInSeq(s, LAMBDA n : n.type = "WITHOUT")
         IN k \in DOMAIN s /\ s[k].type = "WITHOUT"
<1>1. PICK n \in Nat : n = Len(s)
  BY LenProperties
<1> DEFINE I == {i \in 1..n : s[i].type = "WITHOUT"}
<1>2. DOMAIN s = 1..n /\ I # {} /\ I \in SUBSET (1..n) /\ 1 \in Int /\ n \in Int
  BY <1>1, LenProperties DEF OfType
<1>3. SelectInSeq(s, LAMBDA m : m.type = "WITHOUT") = Min(I)
  BY <1>1, <1>2 DEF SelectInSeq
<1>4. I \subseteq DOMAIN s /\ \A i \in I : s[i].type = "WITHOUT"
  BY <1>2
<1> HIDE DEF I
<1>5. \E i \in I : \A j \in I : i <= j
  BY <1>2, LeastInRange
<1>6. Min(I) \in I
  BY <1>5 DEF Min
<1> QED
  BY <1>3, <1>4, <1>6

(* a & (b - c) stands for what (a & b) - c does.                           *)
LEMMA MoveKeeps ==
  ASSUME AnyHeight, NEW x \in Trees, x.type = "AND",
         \A i \in DOMAIN x.children : ~IsHollow(x.children[i]),
         NEW k \in DOMAIN x.children, x.children[k].type = "WITHOUT",
         NEW inner, inner = [x EXCEPT !.children =
                      Sorted(Append(RemoveAt(x.children, k),
                                    Head(x.children[k].children)))],
         NEW y, y = OpNode("WITHOUT",
                           <<inner>> \o Tail(x.children[k].children))
  PROVE  y \in Trees /\ Meaning[y] = Meaning[x] /\ ~IsHollow(y)
<1> DEFINE ch == x.children
           c == ch[k]
           h == Head(c.children)
           t == Tail(c.children)
           rest == RemoveAt(ch, k)
           s == Sorted(Append(rest, h))
<1>1. ch \in Seq(Trees) /\ c \in Trees /\ \A i \in DOMAIN ch : ch[i] \in Trees
  BY TreeParts
<1>2. c.type = "WITHOUT" /\ ~IsHollow(c)
  OBVIOUS
<1> HIDE DEF c
<1>3. /\ h \in Trees /\ t \in Seq(Trees)
      /\ Meaning[c] = {p \in Posts : /\ p \in Meaning[h]
                                     /\ \A d \in ToSet(t) : p \notin Meaning[d]}
  BY <1>1, <1>2, MeansDifference
<1>4. rest \in Seq(Trees) /\ ToSet(rest) = {ch[i] : i \in DOMAIN ch \ {k}}
  BY <1>1, RemoveAtGives DEF Removal
<1> HIDE DEF rest, h, t
<1>5. s \in Seq(Trees) /\ ToSet(s) = ToSet(rest) \cup {h}
  <2>1. Append(rest, h) \in Seq(Trees) /\ ToSet(Append(rest, h)) = ToSet(rest) \cup {h}
    BY <1>3, <1>4, AppendedSet
  <2> DEFINE u == Append(rest, h)
  <2> HIDE DEF u
  <2>2. Sorted(u) \in Seq(Trees) /\ ToSet(Sorted(u)) = ToSet(u)
    BY <2>1, SortedGives DEF u
  <2> QED
    BY <2>1, <2>2 DEF u
<1>6. inner = WithChildren(x, s)
  BY DEF WithChildren, rest, h, c
<1> HIDE DEF s
<1>7. inner \in Trees /\ inner.type = "AND" /\ inner.children = s
  <2>1. /\ WithChildren(x, s) \in Trees /\ WithChildren(x, s).type = x.type
        /\ WithChildren(x, s).children = s
    BY <1>5, NewChildren
  <2> QED
    BY <1>6, <2>1
<1>8. Meaning[inner] = {p \in Posts : \A d \in ToSet(s) : p \in Meaning[d]}
  BY <1>7, MeansAll
<1> DEFINE v == <<inner>> \o t
<1>10. v \in Seq(Trees) /\ Begun(v, inner, t)
  BY <1>3, <1>7, FirstBefore
<1>9. y = OpNode("WITHOUT", v)
  BY DEF t, c
<1> HIDE DEF v
<1>11. y \in Trees /\ y.type = "WITHOUT" /\ y.children = v
  BY <1>9, <1>10, NewOp
<1>12. ~IsHollow(y)
  BY <1>10, <1>11, SMTT(30) DEF IsHollow, Begun
<1>13. Meaning[y] = {p \in Posts : p \in Meaning[inner] /\
                        \A d \in ToSet(t) : p \notin Meaning[d]}
  <2>1. Meaning[y] = {p \in Posts : p \in Meaning[Head(y.children)] /\
                        \A d \in ToSet(Tail(y.children)) : p \notin Meaning[d]}
    BY <1>11, <1>12, MeansDifference
  <2> QED
    BY <1>10, <1>11, <2>1, SMTT(30) DEF Begun
<1>14. Meaning[x] = {p \in Posts : \A d \in ToSet(ch) : p \in Meaning[d]}
  BY MeansAll
<1>15. ToSet(ch) = ToSet(rest) \cup {c}
  <2>1. ToSet(ch) = {ch[i] : i \in DOMAIN ch}
    BY DEF ToSet
  <2> QED
    BY <1>4, <2>1 DEF c
<1>16. ASSUME NEW p \in Posts
       PROVE  (p \in Meaning[inner] /\ \A d \in ToSet(t) : p \notin Meaning[d]) <=>
              (\A d \in ToSet(ch) : p \in Meaning[d])
  <2>1. p \in Meaning[inner] <=>
          (\A d \in ToSet(rest) : p \in Meaning[d]) /\ p \in Meaning[h]
    BY <1>5, <1>8
  <2>2. p \in Meaning[c] <=>
          p \in Meaning[h] /\ \A d \in ToSet(t) : p \notin Meaning[d]
    BY <1>3
  <2>3. (\A d \in ToSet(ch) : p \in Meaning[d]) <=>
          (\A d \in ToSet(rest) : p \in Meaning[d]) /\ p \in Meaning[c]
    BY <1>15
  <2> QED
    BY <2>1, <2>2, <2>3
<1>17. Meaning[y] = Meaning[x]
  BY <1>13, <1>14, <1>16
<1> QED
  BY <1>11, <1>12, <1>17

LEMMA MoveWithoutKeeps ==
  ASSUME AnyHeight, NEW x \in Trees,
         x.type = "AND" => \A i \in DOMAIN x.children : ~IsHollow(x.children[i])
  PROVE  LET y == MoveWithoutOutOfAnd(x)
         IN y \in Trees /\ Meaning[y] = Meaning[x] /\ (IsHollow(y) => IsHollow(x))
<1>1. CASE x.type = "AND" /\ OfType(x.children, "WITHOUT")
  <2> DEFINE k == SelectInSeq(x.children, LAMBDA n : n.type = "WITHOUT")
             inner == [x EXCEPT !.children =
                        Sorted(Append(RemoveAt(x.children, k),
                                      Head(x.children[k].children)))]
             y == OpNode("WITHOUT", <<inner>> \o Tail(x.children[k].children))
  <2>1. x.children \in Seq(Trees)
    BY TreeParts
  <2>2. k \in DOMAIN x.children /\ x.children[k].type = "WITHOUT"
    BY <1>1, <2>1, FirstOfType
  <2>3. MoveWithoutOutOfAnd(x) = y
    BY <1>1 DEF MoveWithoutOutOfAnd
  <2> HIDE DEF k
  <2>4. y \in Trees /\ Meaning[y] = Meaning[x] /\ ~IsHollow(y)
    BY <1>1, <2>2, MoveKeeps
  <2> QED
    BY <2>3, <2>4
<1>2. CASE ~(x.type = "AND" /\ OfType(x.children, "WITHOUT"))
  <2>1. MoveWithoutOutOfAnd(x) = x
    BY <1>2 DEF MoveWithoutOutOfAnd
  <2> QED
    BY <2>1
<1> QED
  BY <1>1, <1>2

LEMMA MoveWalk ==
  ASSUME AnyHeight
  PROVE  \A x \in Trees :
           Loose[x] => /\ Walked(Rules[8])[x] \in Trees
                       /\ Meaning[Walked(Rules[8])[x]] = Meaning[x]
                       /\ IsHollow(Walked(Rules[8])[x]) => IsHollow(x)
<1> DEFINE f == Walked(Rules[8])
           Good == {x \in Trees :
                      Loose[x] => /\ f[x] \in Trees /\ Meaning[f[x]] = Meaning[x]
                                  /\ IsHollow(f[x]) => IsHollow(x)}
<1>1. \A x \in Trees : f[x] = MoveWithoutOutOfAnd(WithBelow(f, x))
  <2>1. Rules[8] = "MoveWithoutOutOfAnd"
    BY DEF Rules
  <2>2. \A x \in Trees : f[x] = Rewritten(Rules[8], WithBelow(f, x))
    BY WalkedStep
  <2> HIDE DEF f
  <2> QED
    BY <2>1, <2>2 DEF Rewritten
<1> HIDE DEF f
<1>2. ASSUME NEW x \in Trees,
             \A i \in DOMAIN x.children : x.children[i] \in Good
      PROVE  x \in Good
  <2>1. SUFFICES ASSUME Loose[x]
                 PROVE  /\ f[x] \in Trees /\ Meaning[f[x]] = Meaning[x]
                        /\ IsHollow(f[x]) => IsHollow(x)
    OBVIOUS
  <2>2. \A i \in DOMAIN x.children :
          Loose[x.children[i]] /\ (x.type # "OR" => ~IsHollow(x.children[i]))
    BY <2>1, LooseStep
  <2>3. ASSUME NEW i \in DOMAIN x.children
        PROVE  /\ f[x.children[i]] \in Trees
               /\ Meaning[f[x.children[i]]] = Meaning[x.children[i]]
               /\ x.type # "OR" => ~IsHollow(f[x.children[i]])
    BY <1>2, <2>2
  <2> DEFINE y == WithBelow(f, x)
  <2>4. /\ y \in Trees /\ y.type = x.type
        /\ DOMAIN y.children = DOMAIN x.children
        /\ \A i \in DOMAIN x.children : y.children[i] = f[x.children[i]]
        /\ IsHollow(y) <=> IsHollow(x)
    BY <2>3, NodeOverOthers
  <2>5. Meaning[y] = Meaning[x]
    BY <2>3, MeansOverOthers
  <2>6. f[x] = MoveWithoutOutOfAnd(y)
    BY <1>1
  <2> HIDE DEF y
  <2>7. y.type = "AND" => \A i \in DOMAIN y.children : ~IsHollow(y.children[i])
    BY <2>3, <2>4
  <2> QED
    BY <2>4, <2>5, <2>6, <2>7, MoveWithoutKeeps
<1> HIDE DEF Good
<1>3. \A x \in Trees : x \in Good
  BY <1>2, TreeInduction
<1> QED
  BY <1>3 DEF Good, f

-----------------------------------------------------------------------------
(* What the walk with each of the rules makes of the tree. *)
Shaped(n, x) ==
  /\ n \in 1..7 => Whole[x]
  /\ n = 8 => Loose[x] /\ ~IsHollow(x)

LEMMA EveryRule ==
  ASSUME AnyHeight, NEW n \in 1..8, NEW x \in Trees, Shaped(n, x)
  PROVE  LET y == Walked(Rules[n])[x]
         IN /\ y \in Trees
            /\ n # 8 => Shaped(n + 1, y)
            /\ ~(n = 7 /\ DropsTerm[x]) => Meaning[y] = Meaning[x]
<1> DEFINE y == Walked(Rules[n])[x]
<1>1. CASE n \in 1..6
  <2>1. Same(x, y)
    BY <1>1, FirstSixWalks DEF Shaped
  <2>2. n # 7 /\ n # 8 /\ n + 1 \in 1..7 /\ n + 1 # 8
    BY <1>1
  <2> HIDE DEF y
  <2>3. Shaped(n + 1, y)
    BY <2>1, <2>2 DEF Shaped, Same
  <2> QED
    BY <2>1, <2>2, <2>3 DEF Same, y
<1>2. CASE n = 7
  <2>1. y \in FirmTrees /\ (~DropsTerm[x] => Meaning[y] = Meaning[x])
    BY <1>2, CancelingWalk DEF Shaped
  <2>2. n + 1 = 8 /\ n + 1 \notin 1..7
    BY <1>2
  <2> HIDE DEF y
  <2>3. y \in Trees /\ Shaped(n + 1, y)
    BY <2>1, <2>2 DEF Shaped, FirmTrees, LooseTrees
  <2> QED
    BY <1>2, <2>1, <2>3 DEF y
<1>3. CASE n = 8
  <2>1. y \in Trees /\ Meaning[y] = Meaning[x]
    BY <1>3, MoveWalk DEF Shaped
  <2> QED
    BY <1>3, <2>1
<1> QED
  BY <1>1, <1>2, <1>3

(* The inductive invariant. *)
PassInv == PassesTypeOK /\ FirstChildrenAreThere

LEMMA PassesInitially == ASSUME AnyHeight PROVE PassesInit => PassInv
<1>1. EmptyQueryNode \in Trees
  BY SpecialNodes
<1>2. 0 \in 0..MaxPasses /\ 0 \in 0..Len(Rules)
  BY PassesAssumption DEF Rules
<1> QED
  BY <1>1, <1>2
     DEF PassesInit, PassInv, PassesTypeOK, FirstChildrenAreThere, Stages

LEMMA RuleStep ==
  ASSUME AnyHeight, PassInv, ApplyRule
  PROVE  /\ PassInv'
         /\ ~(rule = 7 /\ DropsTerm[ast]) => Meaning[ast'] = Meaning[ast]
<1>1. /\ stage = "rules" /\ ast \in Trees
      /\ rule \in 1..8 /\ Len(Rules) = 8
      /\ pass \in 0..MaxPasses /\ changed \in BOOLEAN /\ MaxPasses \in Nat
  <2>1. Len(Rules) = 8
    BY DEF Rules
  <2>2. rule \in 0..8 /\ rule # 0
    BY <2>1 DEF PassInv, PassesTypeOK, ApplyRule
  <2> QED
    BY <2>1, <2>2, PassesAssumption DEF PassInv, PassesTypeOK, ApplyRule
<1>2. Shaped(rule, ast)
  <2>1. rule \in 1..7 => rule = 1 \/ rule \in 2..7
    OBVIOUS
  <2> QED
    BY <1>1, <2>1
       DEF PassInv, FirstChildrenAreThere, ApplyRule, RulePanics, Shaped
<1>3. /\ ast' \in Trees
      /\ rule # 8 => Shaped(rule + 1, ast')
      /\ ~(rule = 7 /\ DropsTerm[ast]) => Meaning[ast'] = Meaning[ast]
  <2>1. ast' = Walked(Rules[rule])[ast]
    BY DEF ApplyRule
  <2> QED
    BY <1>1, <1>2, <2>1, EveryRule
<1> DEFINE marked == changed \/ MarksChanged(Rules[rule], ast, ast')
<1>4. marked \in BOOLEAN
  BY <1>1 DEF MarksChanged
<1> HIDE DEF marked
<1>5. \/ /\ rule < 8 /\ rule' = rule + 1 /\ changed' = marked
         /\ pass' = pass /\ stage' = stage
      \/ /\ pass < MaxPasses
         /\ rule' = 1 /\ changed' = FALSE /\ pass' = pass + 1 /\ stage' = stage
      \/ /\ stage' = "optimized" /\ changed' = marked
         /\ pass' = pass /\ rule' = rule
  BY <1>1 DEF ApplyRule, marked
<1>6. PassInv'
  <2>1. CASE /\ rule < 8 /\ rule' = rule + 1 /\ changed' = marked
             /\ pass' = pass /\ stage' = stage
    <3>1. rule' \in 0..8 /\ rule' # 0 /\ rule # 8
          /\ (rule' \in 2..7 => rule' \in 1..7)
      BY <1>1, <2>1
    <3>2. Shaped(rule', ast')
      BY <1>3, <2>1, <3>1
    <3>3. PassesTypeOK'
      BY <1>1, <1>3, <1>4, <2>1, <3>1 DEF PassesTypeOK, Stages
    <3>4. FirstChildrenAreThere'
      BY <1>1, <2>1, <3>1, <3>2 DEF FirstChildrenAreThere, Shaped
    <3> QED
      BY <3>3, <3>4 DEF PassInv
  <2>2. CASE /\ pass < MaxPasses
             /\ rule' = 1 /\ changed' = FALSE /\ pass' = pass + 1 /\ stage' = stage
    <3>1. /\ rule' \in 0..8 /\ rule' # 0 /\ rule' \notin 2..7 /\ rule' # 8
          /\ changed' \in BOOLEAN
      <4>1. 1 \in 0..8 /\ 1 # 0 /\ 1 \notin 2..7 /\ 1 # 8 /\ FALSE \in BOOLEAN
        OBVIOUS
      <4>2. rule' = 1 /\ changed' = FALSE
        BY <2>2
      <4> QED
        BY <4>1, <4>2, Zenon
    <3>2. pass' \in 0..MaxPasses
      <4>1. \A m \in Nat : \A n \in 0..m : n < m => n + 1 \in 0..m
        OBVIOUS
      <4> QED
        BY <1>1, <2>2, <4>1
    <3>3. PassesTypeOK'
      BY <1>1, <1>3, <2>2, <3>1, <3>2 DEF PassesTypeOK, Stages
    <3>4. FirstChildrenAreThere'
      BY <1>1, <2>2, <3>1 DEF FirstChildrenAreThere
    <3> QED
      BY <3>3, <3>4 DEF PassInv
  <2>3. CASE /\ stage' = "optimized" /\ changed' = marked
             /\ pass' = pass /\ rule' = rule
    <3>1. rule' \in 0..8 /\ pass' \in 0..MaxPasses /\ changed' \in BOOLEAN
      BY <1>1, <1>4, <2>3
    <3>3. PassesTypeOK'
      BY <1>1, <1>3, <2>3, <3>1 DEF PassesTypeOK, Stages
    <3>4. FirstChildrenAreThere'
      BY <2>3 DEF FirstChildrenAreThere
    <3> QED
      BY <3>3, <3>4 DEF PassInv
  <2> QED
    BY <1>5, <2>1, <2>2, <2>3
<1> QED
  BY <1>3, <1>6

LEMMA StartStep ==
  ASSUME AnyHeight, PassInv, StartOptimizer
  PROVE  PassInv' /\ Meaning[ast'] = Meaning[ast]
<1>1. /\ ast \in Trees /\ Whole[ast] /\ Len(Rules) = 8
      /\ ast' = Walked("canonicalizeNodeSortOrder")[ast]
  BY DEF PassInv, PassesTypeOK, FirstChildrenAreThere, StartOptimizer, Rules
<1>2. Same(ast, ast')
  BY <1>1, SortWalk
<1>3. 1 \in 0..MaxPasses /\ 1 \in 0..8 /\ 1 \notin 2..7
  BY PassesAssumption
<1>4. PassesTypeOK'
  BY <1>1, <1>2, <1>3 DEF StartOptimizer, PassesTypeOK, Stages, Same
<1>5. FirstChildrenAreThere'
  BY <1>3 DEF StartOptimizer, FirstChildrenAreThere
<1> QED
  BY <1>2, <1>4, <1>5 DEF PassInv, Same

LEMMA PassesInductive ==
  ASSUME AnyHeight, PassInv, [PassesNext]_passVars
  PROVE  PassInv'
<1>1. CASE Receive
  <2>1. /\ ast' \in Trees /\ Whole[ast'] /\ stage' \in {"parsed", "rejected"}
        /\ pass' = pass /\ rule' = rule /\ changed' = changed
    BY <1>1 DEF Receive
  <2> QED
    BY <2>1 DEF PassInv, PassesTypeOK, FirstChildrenAreThere, Stages
<1>2. CASE StartOptimizer
  BY <1>2, StartStep
<1>3. CASE ApplyRule
  BY <1>3, RuleStep
<1>4. CASE OptimizerPanics
  BY <1>4 DEF OptimizerPanics, PassInv, PassesTypeOK, FirstChildrenAreThere, Stages
<1>5. CASE Leave
  BY <1>5 DEF Leave, PassInv, PassesTypeOK, FirstChildrenAreThere, Stages
<1>6. CASE UNCHANGED passVars
  BY <1>6 DEF passVars, PassInv, PassesTypeOK, FirstChildrenAreThere
<1> QED
  BY <1>1, <1>2, <1>3, <1>4, <1>5, <1>6 DEF PassesNext, Optimize

LEMMA PassesInvariant == ASSUME AnyHeight PROVE PassesSpec => []PassInv
<1>1. PassesInit => PassInv
  BY PassesInitially
<1>2. PassInv /\ [PassesNext]_passVars => PassInv'
  BY PassesInductive
<1> QED
  BY <1>1, <1>2, PTL DEF PassesSpec

(* Whatever is queried, the optimizer only ever makes trees of it again,   *)
(* in at most the passes that it is allowed (optimize.go:7).               *)
THEOREM PassesTypes == ASSUME AnyHeight PROVE PassesSpec => []PassesTypeOK
<1>1. PassInv => PassesTypeOK
  BY DEF PassInv
<1> QED
  BY <1>1, PassesInvariant, PTL

(* Whatever is queried, no rule but the first of a pass and the last but   *)
(* one can meet a WITHOUT of nothing (optimize.go:157, 214).               *)
THEOREM FirstChildrenStay ==
  ASSUME AnyHeight PROVE PassesSpec => []FirstChildrenAreThere
<1>1. PassInv => FirstChildrenAreThere
  BY DEF PassInv
<1> QED
  BY <1>1, PassesInvariant, PTL

(* For every tree, of any height and any words, and for every set of posts *)
(* of which each has one rating, no rule changes what the query finds, but *)
(* for the removal of a term beside its exclusion.                         *)
THEOREM RulesKeep == ASSUME AnyHeight PROVE PassesSpec => RulesKeepHits
<1> DEFINE Kept == (stage \in {"parsed", "rules"} /\ ~(rule = 7 /\ DropsTerm[ast]))
                     => Meaning[ast'] = Meaning[ast]
<1>1. ASSUME PassInv, [PassesNext]_passVars PROVE [Kept]_passVars
  <2>1. SUFFICES ASSUME stage \in {"parsed", "rules"},
                        ~(rule = 7 /\ DropsTerm[ast]), PassesNext
                 PROVE  Meaning[ast'] = Meaning[ast]
    BY <1>1
  <2>2. CASE StartOptimizer
    BY <1>1, <2>2, StartStep
  <2>3. CASE ApplyRule
    BY <1>1, <2>1, <2>3, RuleStep
  <2>4. CASE OptimizerPanics \/ Leave
    BY <2>4 DEF OptimizerPanics, Leave
  <2>5. CASE Receive
    BY <2>1, <2>5 DEF Receive
  <2> QED
    BY <2>1, <2>2, <2>3, <2>4, <2>5 DEF PassesNext, Optimize
<1>2. PassInv /\ [PassesNext]_passVars => [Kept]_passVars
  BY <1>1
<1>3. [][Kept]_passVars => RulesKeepHits
  BY DEF RulesKeepHits
<1> QED
  BY <1>2, <1>3, PassesInvariant, PTL DEF PassesSpec
-----------------------------------------------------------------------------
(* The case distinction of ToIterator, over what the children find.        *)
Finding(idx, x, of) ==
  CASE x.type = "QUERY" -> WordFinds(idx, x)
    [] x.type = "AND" ->
         {p \in DOMAIN idx : DOMAIN of # {} /\ \A i \in DOMAIN of : p \in of[i]}
    [] x.type = "OR" -> {p \in DOMAIN idx : \E i \in DOMAIN of : p \in of[i]}
    [] x.type = "WITHOUT" ->
         {p \in DOMAIN idx : /\ DOMAIN of # {} /\ p \in of[1]
                             /\ \A i \in DOMAIN of \ {1} : p \notin of[i]}
    [] x.type = "NOT" -> {p \in DOMAIN idx : AllWord \in idx[p]} \ of[1]

LEMMA FindsStep ==
  ASSUME AnyHeight, NEW idx
  PROVE  \A x \in Trees : Finds(idx)[x] = Finding(idx, x, Below(Finds(idx), x))
<1> DEFINE S == SUBSET DOMAIN idx
           G == [x \in Trees |-> [s \in Seq(S) |-> Finding(idx, x, s)]]
<1>1. ASSUME NEW x \in Trees, NEW s PROVE Finding(idx, x, s) \in S
  <2>1. x.type \in NodeTypes
    BY TreeParts
  <2>2. WordFinds(idx, x) \in S
    BY DEF WordFinds
  <2> QED
    BY <2>1, <2>2 DEF NodeTypes, Finding
<1>2. G \in [Trees -> [Seq(S) -> S]]
  BY <1>1
<1>3. PICK f \in [Trees -> S] : Follows(f, Trees, G)
  BY <1>2, TreeRecursion
<1>4. ASSUME NEW x \in Trees PROVE f[x] = Finding(idx, x, Below(f, x))
  <2>1. Below(f, x) \in Seq(S)
    BY BelowParts
  <2>2. f[x] = G[x][Below(f, x)]
    BY <1>3 DEF Follows
  <2> QED
    BY <2>1, <2>2
<1> HIDE DEF G
<1>5. f = [x \in Trees |-> Finding(idx, x, Below(f, x))]
  BY <1>4
<1>6. Finds(idx) = [x \in Trees |-> Finding(idx, x, Below(Finds(idx), x))]
  BY <1>5, ZenonT(40) DEF Finds, Finding, Below
<1> QED
  BY <1>6

(* A tree that has what the iterators ask for, as have those below it.     *)
Filled(x, T) ==
  /\ x.type = "AND" => x.children # <<>>
  /\ \A i \in DOMAIN x.children : x.children[i] \in T

(* A tree finds what it stands for, unless some AND in it is one of nothing*)
(* (execute.go:18-28): T holds with a tree all that is below it.            *)
THEOREM HitsAreMeaning ==
  ASSUME AnyHeight, NEW T \in SUBSET Trees, \A x \in T : Filled(x, T)
  PROVE  \A x \in T : Finds(Index)[x] = Meaning[x]
<1> DEFINE Good == {x \in Trees : x \in T => Finds(Index)[x] = Meaning[x]}
<1>1. ASSUME NEW x \in Trees, \A i \in DOMAIN x.children : x.children[i] \in Good
      PROVE  x \in Good
  <2>1. SUFFICES ASSUME x \in T PROVE Finds(Index)[x] = Meaning[x]
    OBVIOUS
  <2> DEFINE of == Below(Meaning, x)
  <2>2. Below(Finds(Index), x) = of
    <3>1. \A i \in DOMAIN x.children :
            Finds(Index)[x.children[i]] = Meaning[x.children[i]]
      BY <1>1, <2>1 DEF Filled
    <3> QED
      BY <3>1 DEF Below
  <2>3. Finds(Index)[x] = Finding(Index, x, of) /\ Meaning[x] = Means(x, of)
    BY <2>2, FindsStep, MeaningStep
  <2>4. x.type = "AND" => DOMAIN of # {}
    <3>1. x.children \in Seq(Trees) /\ DOMAIN of = DOMAIN x.children
      BY TreeParts DEF Below
    <3>2. x.children # <<>> => 1 \in DOMAIN x.children
      BY <3>1, EmptySeq, LenProperties
    <3> QED
      BY <2>1, <3>1, <3>2 DEF Filled
  <2>5. DOMAIN Index = Posts /\ {p \in Posts : AllWord \in Index[p]} = Posts
    BY DEF Index, KeysOf
  <2>6. x.type \in NodeTypes
    BY TreeParts
  <2> HIDE DEF of
  <2>7. Finding(Index, x, of) = Means(x, of)
    BY <2>4, <2>5, <2>6 DEF Finding, Means, NodeTypes
  <2> QED
    BY <2>3, <2>7
<1> HIDE DEF Good
<1>2. \A x \in Trees : x \in Good
  BY <1>1, TreeInduction
<1> QED
  BY <1>2 DEF Good
-----------------------------------------------------------------------------
(* After a pass that changes nothing the tree is one of the trees of which *)
(* no AND is one of nothing.                                               *)
FilledTrees == UNION {T \in SUBSET Trees : \A x \in T : Filled(x, T)}

LEMMA FilledParts == \A x \in FilledTrees : x \in Trees /\ Filled(x, FilledTrees)
<1>1. SUFFICES ASSUME NEW x \in FilledTrees
               PROVE  x \in Trees /\ Filled(x, FilledTrees)
  OBVIOUS
<1>2. PICK T \in SUBSET Trees : x \in T /\ \A y \in T : Filled(y, T)
  BY DEF FilledTrees
<1>3. T \subseteq FilledTrees
  BY <1>2 DEF FilledTrees
<1> QED
  BY <1>2, <1>3 DEF Filled

LEMMA FilledMade ==
  ASSUME NEW x \in Trees, Filled(x, FilledTrees)
  PROVE  x \in FilledTrees
<1> DEFINE T == FilledTrees \cup {x}
<1>1. T \in SUBSET Trees
  BY FilledParts
<1>2. \A y \in T : Filled(y, T)
  <2>1. \A y \in T : Filled(y, FilledTrees)
    BY FilledParts
  <2> QED
    BY <2>1 DEF Filled
<1> HIDE DEF T
<1>3. T \subseteq FilledTrees
  BY <1>1, <1>2 DEF FilledTrees
<1> QED
  BY <1>3 DEF T

LEMMA FilledHits ==
  ASSUME AnyHeight
  PROVE  \A x \in FilledTrees : Finds(Index)[x] = Meaning[x]
<1>1. FilledTrees \in SUBSET Trees /\ \A x \in FilledTrees : Filled(x, FilledTrees)
  BY FilledParts
<1> QED
  BY <1>1, HitsAreMeaning

LEMMA SpecialFilled ==
  ASSUME AnyHeight
  PROVE  AllQueryNode \in FilledTrees /\ EmptyQueryNode \in FilledTrees
<1>1. /\ Filled(AllQueryNode, FilledTrees)
      /\ Filled(EmptyQueryNode, FilledTrees)
  BY DEF Filled, AllQueryNode, EmptyQueryNode, QueryNode
<1> QED
  BY <1>1, SpecialNodes, FilledMade

(* The first rule leaves no AND of nothing, whatever it comes to.          *)
LEMMA UnnecessaryFills ==
  ASSUME AnyHeight, NEW x \in Trees,
         \A i \in DOMAIN x.children : x.children[i] \in FilledTrees
  PROVE  RemoveUnnecessaryNodes(x) \in FilledTrees
<1> DEFINE ch == x.children
           y == RemoveUnnecessaryNodes(x)
<1>1. /\ ch \in Seq(Trees) /\ DOMAIN ch = 1..Len(ch)
      /\ x.type = "NOT" => Len(ch) = 1
  BY TreeParts DEF WellFormed
<1>2. \/ y = AllQueryNode \/ y = EmptyQueryNode
      \/ Len(ch) = 1 /\ y = ch[1]
      \/ x.type = "NOT" /\ ch[1].type = "NOT" /\ y = ch[1].children[1]
      \/ y = x /\ ~(x.type = "AND" /\ ch = <<>>)
  BY DEF RemoveUnnecessaryNodes, OfNothing
<1>3. CASE y = AllQueryNode \/ y = EmptyQueryNode
  BY <1>3, SpecialFilled
<1>4. CASE Len(ch) = 1 /\ y = ch[1]
  <2>1. 1 \in DOMAIN ch
    BY <1>1, <1>4
  <2> QED
    BY <1>4, <2>1
<1>5. CASE x.type = "NOT" /\ ch[1].type = "NOT" /\ y = ch[1].children[1]
  <2>1. 1 \in DOMAIN ch
    BY <1>1, <1>5
  <2> DEFINE inner == ch[1]
  <2>2. inner \in FilledTrees /\ inner \in Trees
    BY <2>1, FilledParts
  <2> HIDE DEF inner
  <2>3. DOMAIN inner.children = 1..Len(inner.children)
        /\ (inner.type = "NOT" => Len(inner.children) = 1)
    BY <2>2, TreeParts DEF WellFormed
  <2>4. inner.type = "NOT"
    BY <1>5 DEF inner
  <2>5. 1 \in DOMAIN inner.children
    <3>1. DOMAIN inner.children = 1..1
      BY <2>3, <2>4
    <3> QED
      BY <3>1
  <2>6. inner.children[1] \in FilledTrees
    BY <2>2, <2>5, FilledParts DEF Filled
  <2> QED
    BY <1>5, <2>6 DEF inner
<1>6. CASE y = x /\ ~(x.type = "AND" /\ ch = <<>>)
  BY <1>6, FilledMade DEF Filled
<1> QED
  BY <1>2, <1>3, <1>4, <1>5, <1>6

LEMMA UnnecessaryWalk ==
  ASSUME AnyHeight
  PROVE  \A x \in Trees : Walked(Rules[1])[x] \in FilledTrees
<1> DEFINE f == Walked(Rules[1])
           Good == {x \in Trees : f[x] \in FilledTrees}
<1>1. \A x \in Trees : f[x] = RemoveUnnecessaryNodes(WithBelow(f, x))
  <2>1. Rules[1] = "RemoveUnnecessaryNodes"
    BY DEF Rules
  <2>2. \A x \in Trees : f[x] = Rewritten(Rules[1], WithBelow(f, x))
    BY WalkedStep
  <2> HIDE DEF f
  <2> QED
    BY <2>1, <2>2 DEF Rewritten
<1> HIDE DEF f
<1>2. ASSUME NEW x \in Trees,
             \A i \in DOMAIN x.children : x.children[i] \in Good
      PROVE  x \in Good
  <2>1. \A i \in DOMAIN x.children : f[x.children[i]] \in FilledTrees
    BY <1>2
  <2>2. \A i \in DOMAIN x.children : f[x.children[i]] \in Trees
    BY <2>1, FilledParts
  <2> DEFINE y == WithBelow(f, x)
  <2>3. /\ y \in Trees /\ DOMAIN y.children = DOMAIN x.children
        /\ \A i \in DOMAIN x.children : y.children[i] = f[x.children[i]]
    BY <2>2, NodeOverOthers
  <2>4. f[x] = RemoveUnnecessaryNodes(y)
    BY <1>1
  <2> HIDE DEF y
  <2>5. \A i \in DOMAIN y.children : y.children[i] \in FilledTrees
    BY <2>1, <2>3
  <2> QED
    BY <2>3, <2>4, <2>5, UnnecessaryFills
<1> HIDE DEF Good
<1>3. \A x \in Trees : x \in Good
  BY <1>2, TreeInduction
<1> QED
  BY <1>3 DEF Good, f

(* Where SimplifyChildren removes a child, so that it says so. *)
RemovesHere(x) ==
  Len(SimplifyChildren(WithBelow(Walked("SimplifyChildren"), x)).children)
    # Len(x.children)

LEMMA RemovesStep ==
  ASSUME AnyHeight
  PROVE  \A x \in Trees :
           RemovesChildren[x] <=> \/ RemovesHere(x)
                                  \/ \E i \in DOMAIN x.children :
                                       RemovesChildren[x.children[i]]
<1> DEFINE S == BOOLEAN
           G == [x \in Trees |-> [s \in Seq(S) |->
                   RemovesHere(x) \/ \E i \in DOMAIN x.children : s[i]]]
<1>1. G \in [Trees -> [Seq(S) -> S]]
  BY DEF RemovesHere
<1>2. PICK f \in [Trees -> S] : Follows(f, Trees, G)
  BY <1>1, TreeRecursion
<1>3. ASSUME NEW x \in Trees
      PROVE  f[x] = (\/ \E i \in DOMAIN x.children : f[x.children[i]]
                     \/ RemovesHere(x))
  <2>0. \A y \in Trees : f[y] \in S
    OBVIOUS
  <2> HIDE DEF S
  <2>1. Below(f, x) \in Seq(S)
    BY <2>0, BelowParts
  <2>3. \A i \in DOMAIN x.children : Below(f, x)[i] = f[x.children[i]]
    BY DEF Below
  <2>2. f[x] = G[x][Below(f, x)]
    BY <1>2 DEF Follows
  <2> QED
    BY <2>1, <2>2, <2>3 DEF S
<1> HIDE DEF G
<1>4. f = [x \in Trees |-> (\/ \E i \in DOMAIN x.children : f[x.children[i]]
                            \/ RemovesHere(x))]
  BY <1>3
<1>5. RemovesChildren =
        [x \in Trees |-> (\/ \E i \in DOMAIN x.children :
                              RemovesChildren[x.children[i]]
                          \/ RemovesHere(x))]
  BY <1>4, Zenon DEF RemovesChildren, RemovesHere, WithBelow, Below
<1> QED
  BY <1>5

(* A node keeps its kind, and has no children that it had not.             *)
LEMMA SimplifiedChildren ==
  ASSUME AnyHeight, NEW x \in Trees, x.type = "WITHOUT" => x.children # <<>>
  PROVE  /\ SimplifyChildren(x).type = x.type
         /\ ToSet(SimplifyChildren(x).children) \subseteq ToSet(x.children)
<1> DEFINE ch == x.children
<1>1. ch \in Seq(Trees)
  BY TreeParts
<1>2. ASSUME NEW s
      PROVE  [x EXCEPT !.children = s].type = x.type
             /\ [x EXCEPT !.children = s].children = s
  <2>1. x = [type |-> x.type, query |-> x.query, children |-> x.children]
    BY TreeParts
  <2> QED
    BY <2>1
<1>3. ToSet(Dedupe(Without(ch, EmptyQueryNode))) \subseteq ToSet(ch)
      /\ ToSet(Dedupe(Without(ch, AllQueryNode))) \subseteq ToSet(ch)
  BY <1>1, ClearedGives DEF Cleared
<1> DEFINE t == Dedupe(Without(Tail(ch), EmptyQueryNode))
<1>4. ASSUME ch # <<>> PROVE ToSet(<<Head(ch)>> \o t) \subseteq ToSet(ch)
  <2>1. /\ Head(ch) \in Trees /\ Tail(ch) \in Seq(Trees)
        /\ ToSet(ch) = {Head(ch)} \cup ToSet(Tail(ch))
    BY <1>1, <1>4, FirstAndRest
  <2>2. t \in Seq(Trees) /\ ToSet(t) \subseteq ToSet(Tail(ch))
    BY <2>1, ClearedGives DEF Cleared
  <2> DEFINE h == Head(ch)
  <2> HIDE DEF t, h
  <2>3. ToSet(<<h>> \o t) = {h} \cup ToSet(t)
    BY <2>1, <2>2, FirstBefore DEF h, Begun
  <2> QED
    BY <2>1, <2>2, <2>3 DEF h
<1> HIDE DEF ch, t
<1>5. \/ SimplifyChildren(x) = x
      \/ SimplifyChildren(x) =
           [x EXCEPT !.children = Dedupe(Without(ch, EmptyQueryNode))]
      \/ SimplifyChildren(x) =
           [x EXCEPT !.children = Dedupe(Without(ch, AllQueryNode))]
      \/ /\ x.type = "WITHOUT"
         /\ SimplifyChildren(x) = [x EXCEPT !.children = <<Head(ch)>> \o t]
  BY DEF SimplifyChildren, ch, t
<1> QED
  BY <1>2, <1>3, <1>4, <1>5 DEF ch

LEMMA SimplifyWalk ==
  ASSUME AnyHeight
  PROVE  \A x \in FilledTrees :
           Whole[x] /\ ~RemovesChildren[x] => Walked(Rules[6])[x] \in FilledTrees
<1> DEFINE f == Walked(Rules[6])
           Good == {x \in Trees :
                      x \in FilledTrees /\ Whole[x] /\ ~RemovesChildren[x]
                        => f[x] \in FilledTrees}
<1>1. /\ \A x \in Trees : f[x] = SimplifyChildren(WithBelow(f, x))
      /\ \A x \in Trees : RemovesHere(x) <=>
           Len(SimplifyChildren(WithBelow(f, x)).children) # Len(x.children)
      /\ \A x \in Trees : Whole[x] => Same(x, f[x])
  <2>1. Rules[6] = "SimplifyChildren" /\ 6 \in 1..6
    BY DEF Rules
  <2>2. \A x \in Trees : f[x] = Rewritten(Rules[6], WithBelow(f, x))
    BY WalkedStep
  <2>3. \A x \in Trees : Whole[x] => Same(x, f[x])
    BY <2>1, FirstSixWalks
  <2>4. f = Walked("SimplifyChildren")
    BY <2>1
  <2> HIDE DEF f
  <2> QED
    BY <2>1, <2>2, <2>3, <2>4 DEF Rewritten, RemovesHere
<1> HIDE DEF f
<1>2. ASSUME NEW x \in Trees,
             \A i \in DOMAIN x.children : x.children[i] \in Good
      PROVE  x \in Good
  <2>1. SUFFICES ASSUME x \in FilledTrees, Whole[x], ~RemovesChildren[x]
                 PROVE  f[x] \in FilledTrees
    OBVIOUS
  <2>2. /\ ~RemovesHere(x)
        /\ \A i \in DOMAIN x.children : ~RemovesChildren[x.children[i]]
    BY <2>1, RemovesStep
  <2>3. ~IsHollow(x) /\ \A i \in DOMAIN x.children : Whole[x.children[i]]
    BY <2>1, WholeStep
  <2>4. \A i \in DOMAIN x.children : x.children[i] \in FilledTrees
    BY <2>1, FilledParts DEF Filled
  <2>5. \A i \in DOMAIN x.children :
          f[x.children[i]] \in FilledTrees /\ f[x.children[i]] \in Trees
    BY <1>2, <2>2, <2>3, <2>4, FilledParts
  <2> DEFINE y == WithBelow(f, x)
             z == SimplifyChildren(y)
  <2>6. /\ y \in Trees /\ y.type = x.type
        /\ DOMAIN y.children = DOMAIN x.children
        /\ \A i \in DOMAIN x.children : y.children[i] = f[x.children[i]]
        /\ IsHollow(y) <=> IsHollow(x)
    BY <2>5, NodeOverOthers
  <2>7. z = f[x] /\ Len(z.children) = Len(x.children) /\ z \in Trees
    <3>1. z = f[x] /\ Len(z.children) = Len(x.children)
      BY <1>1, <2>2
    <3>2. Same(x, f[x])
      BY <1>1, <2>1
    <3> QED
      BY <3>1, <3>2 DEF Same
  <2> HIDE DEF y
  <2>8. y.type = "WITHOUT" => y.children # <<>>
    BY <2>3, <2>6 DEF IsHollow
  <2>9. z.type = y.type /\ ToSet(z.children) \subseteq ToSet(y.children)
    BY <2>6, <2>8, SimplifiedChildren
  <2> HIDE DEF z
  <2>10. ToSet(y.children) \subseteq FilledTrees
    BY <2>5, <2>6 DEF ToSet
  <2>11. \A i \in DOMAIN z.children : z.children[i] \in FilledTrees
    BY <2>9, <2>10 DEF ToSet
  <2>12. z.type = "AND" => z.children # <<>>
    <3>1. x.type = "AND" => x.children # <<>>
      BY <2>1, FilledParts DEF Filled
    <3>2. x.children \in Seq(Trees) /\ z.children \in Seq(Trees)
      BY <2>7, TreeParts
    <3>3. x.children # <<>> => z.children # <<>>
      BY <2>7, <3>2, EmptySeq
    <3> QED
      BY <2>6, <2>9, <3>1, <3>3
  <2>13. z \in FilledTrees
    BY <2>7, <2>11, <2>12, FilledMade DEF Filled
  <2> QED
    BY <2>7, <2>13
<1> HIDE DEF Good
<1>3. \A x \in Trees : x \in Good
  BY <1>2, TreeInduction
<1> QED
  BY <1>3, FilledParts DEF Good, f

(* As long as a pass changes nothing, the tree stays as its first rule has *)
(* left it.                                                                *)
SettledInv ==
  (stage = "rules" /\ rule # 1) \/ stage = "optimized"
    => changed \/ ast \in FilledTrees

LEMMA SettledRule ==
  ASSUME AnyHeight, PassInv, SettledInv, ApplyRule
  PROVE  SettledInv'
<1>1. /\ stage = "rules" /\ ast \in Trees /\ rule \in 1..8 /\ Len(Rules) = 8
      /\ changed \in BOOLEAN
  <2>1. Len(Rules) = 8
    BY DEF Rules
  <2>2. rule \in 0..8 /\ rule # 0
    BY <2>1 DEF PassInv, PassesTypeOK, ApplyRule
  <2> QED
    BY <2>1, <2>2 DEF PassInv, PassesTypeOK, ApplyRule
<1>2. ast' = Walked(Rules[rule])[ast]
  BY DEF ApplyRule
<1> DEFINE marked == changed \/ MarksChanged(Rules[rule], ast, ast')
<1>3. marked \/ ast' \in FilledTrees
  <2>1. CASE rule = 1
    BY <1>1, <1>2, <2>1, UnnecessaryWalk
  <2>2. CASE rule # 1
    <3>1. SUFFICES ASSUME ~marked PROVE ast' \in FilledTrees
      OBVIOUS
    <3>2. ast \in FilledTrees
      BY <1>1, <2>2, <3>1 DEF SettledInv
    <3>3. CASE rule = 6
      <4>1. Whole[ast]
        BY <1>1, <3>3 DEF PassInv, FirstChildrenAreThere
      <4>2. Rules[6] = "SimplifyChildren"
        BY DEF Rules
      <4>3. ~RemovesChildren[ast]
        BY <3>1, <3>3, <4>2 DEF MarksChanged
      <4> QED
        BY <1>2, <3>2, <3>3, <4>1, <4>3, SimplifyWalk
    <3>4. CASE rule # 6
      <4>1. Rules[rule] # "SimplifyChildren"
        BY <1>1, <3>4 DEF Rules
      <4> QED
        BY <3>1, <3>2, <4>1 DEF MarksChanged
    <3> QED
      BY <3>3, <3>4
  <2> QED
    BY <2>1, <2>2
<1>4. marked \in BOOLEAN
  BY <1>1 DEF MarksChanged
<1> HIDE DEF marked
<1>5. changed' = marked \/ (rule' = 1 /\ stage' = "rules")
  BY <1>1 DEF ApplyRule, marked
<1> QED
  BY <1>3, <1>4, <1>5 DEF SettledInv

LEMMA SettledStep ==
  ASSUME AnyHeight, PassInv, SettledInv, [PassesNext]_passVars
  PROVE  SettledInv'
<1>1. CASE ApplyRule
  BY <1>1, SettledRule
<1>2. CASE StartOptimizer
  BY <1>2 DEF StartOptimizer, SettledInv
<1>3. CASE Receive \/ OptimizerPanics \/ Leave
  BY <1>3 DEF Receive, OptimizerPanics, Leave, SettledInv
<1>4. CASE UNCHANGED passVars
  BY <1>4 DEF passVars, SettledInv
<1> QED
  BY <1>1, <1>2, <1>3, <1>4 DEF PassesNext, Optimize

(* When a pass has changed nothing, the iterators find what the tree stands*)
(* for: no rule has left an AND of nothing behind, which they would take   *)
(* for no post (optimize.go:31-36, execute.go:18-28).                      *)
THEOREM SettledFinds ==
  ASSUME AnyHeight
  PROVE  PassesSpec =>
           [](stage = "optimized" /\ ~changed => Finds(Index)[ast] = Meaning[ast])
<1>1. PassesInit => PassInv /\ SettledInv
  BY PassesInitially DEF PassesInit, SettledInv
<1>2. PassInv /\ SettledInv /\ [PassesNext]_passVars => PassInv' /\ SettledInv'
  BY PassesInductive, SettledStep
<1>3. SettledInv =>
        (stage = "optimized" /\ ~changed => Finds(Index)[ast] = Meaning[ast])
  BY FilledHits DEF SettledInv
<1> QED
  BY <1>1, <1>2, <1>3, PTL DEF PassesSpec
-----------------------------------------------------------------------------
(* Who asks for some words, and nothing else, gets an AND of words, or of  *)
(* such ANDs.  The rules leave it one.                                     *)
OfWords(x, W, T) ==
  \/ x.type = "QUERY" /\ x.query \in W
  \/ /\ x.type = "AND" /\ x.children # <<>>
     /\ \A i \in DOMAIN x.children : x.children[i] \in T

Conjunctions(W) == UNION {T \in SUBSET Trees : \A x \in T : OfWords(x, W, T)}

LEMMA ConjunctionParts ==
  ASSUME NEW W
  PROVE  \A x \in Conjunctions(W) : x \in Trees /\ OfWords(x, W, Conjunctions(W))
<1>1. SUFFICES ASSUME NEW x \in Conjunctions(W)
               PROVE  x \in Trees /\ OfWords(x, W, Conjunctions(W))
  OBVIOUS
<1>2. PICK T \in SUBSET Trees : x \in T /\ \A y \in T : OfWords(y, W, T)
  BY DEF Conjunctions
<1>3. T \subseteq Conjunctions(W)
  BY <1>2 DEF Conjunctions
<1> QED
  BY <1>2, <1>3 DEF OfWords

LEMMA ConjunctionMade ==
  ASSUME NEW W, NEW x \in Trees, OfWords(x, W, Conjunctions(W))
  PROVE  x \in Conjunctions(W)
<1> DEFINE T == Conjunctions(W) \cup {x}
<1>1. T \in SUBSET Trees
  BY ConjunctionParts
<1>2. \A y \in T : OfWords(y, W, T)
  <2>1. \A y \in T : OfWords(y, W, Conjunctions(W))
    BY ConjunctionParts
  <2> QED
    BY <2>1 DEF OfWords
<1> HIDE DEF T
<1>3. T \subseteq Conjunctions(W)
  BY <1>1, <1>2 DEF Conjunctions
<1> QED
  BY <1>3 DEF T

(* The sort and the rules leave a word alone. *)
Passes == {"canonicalizeNodeSortOrder"} \cup {Rules[n] : n \in 1..8}

LEMMA PassNames ==
  Passes = {"canonicalizeNodeSortOrder", "RemoveUnnecessaryNodes",
            "SimplifyFlags", "ImplementNotUsingWithout", "CombineHierarchy",
            "RemoveSelfCancelingWithout", "SimplifyChildren",
            "SimplifyCancelingOperationAndWithout", "MoveWithoutOutOfAnd"}
BY DEF Passes, Rules

LEMMA RewrittenWord ==
  ASSUME NEW r \in Passes, NEW x, x.type = "QUERY"
  PROVE  Rewritten(r, x) = x
BY PassNames DEF Rewritten, InSortOrder, RemoveUnnecessaryNodes, SimplifyFlags,
                 ImplementNotUsingWithout, CombineHierarchy,
                 RemoveSelfCancelingWithout, SimplifyChildren,
                 SimplifyCancelingOperationAndWithout, MoveWithoutOutOfAnd

LEMMA WalkedWord ==
  ASSUME AnyHeight, NEW r \in Passes, NEW x \in Trees, x.type = "QUERY"
  PROVE  Walked(r)[x] = x
<1>1. x.children = <<>>
  BY TreeParts DEF WellFormed
<1> DEFINE f == Walked(r)
<1>2. f[x] = Rewritten(r, WithBelow(f, x))
  BY WalkedStep
<1> HIDE DEF f
<1>3. WithBelow(f, x) = x
  BY <1>1, NodeOverOthers
<1> QED
  BY <1>2, <1>3, RewrittenWord DEF f

(* Other children of an AND, the same ones or those of children. *)
LEMMA OtherWords ==
  ASSUME AnyHeight, NEW W, NEW x \in Trees, x.type = "AND",
         NEW s \in Seq(Trees), ToSet(s) \subseteq Conjunctions(W), ToSet(s) # {}
  PROVE  [x EXCEPT !.children = s] \in Conjunctions(W)
<1> DEFINE y == WithChildren(x, s)
<1>1. y \in Trees /\ y.type = "AND" /\ y.children = s
  BY NewChildren
<1>2. s # <<>>
  BY DEF ToSet
<1>3. \A i \in DOMAIN s : s[i] \in Conjunctions(W)
  BY DEF ToSet
<1>4. y = [x EXCEPT !.children = s]
  BY DEF WithChildren
<1> HIDE DEF y
<1>5. OfWords(y, W, Conjunctions(W))
  BY <1>1, <1>2, <1>3 DEF OfWords
<1> QED
  BY <1>1, <1>4, <1>5, ConjunctionMade

LEMMA ConjunctionChildren ==
  ASSUME AnyHeight, NEW W, NEW x \in Conjunctions(W), x.type = "AND"
  PROVE  /\ x.children \in Seq(Trees) /\ x.children # <<>>
         /\ ToSet(x.children) # {} /\ ToSet(x.children) \subseteq Conjunctions(W)
<1>1. x \in Trees /\ OfWords(x, W, Conjunctions(W))
  BY ConjunctionParts
<1>2. x.children \in Seq(Trees)
  BY <1>1, TreeParts
<1>3. /\ x.children # <<>>
      /\ \A i \in DOMAIN x.children : x.children[i] \in Conjunctions(W)
  BY <1>1 DEF OfWords
<1>4. DOMAIN x.children # {}
  BY <1>2, <1>3, EmptySeq, LenProperties
<1> QED
  BY <1>2, <1>3, <1>4 DEF ToSet

PlainWords(W) == AllWord \notin W /\ <<"__empty">> \notin W

LEMMA NotAmongWords ==
  ASSUME NEW W, PlainWords(W)
  PROVE  /\ AllQueryNode \notin Conjunctions(W)
         /\ EmptyQueryNode \notin Conjunctions(W)
         /\ \A x \in Conjunctions(W) : x.type = "QUERY" \/ x.type = "AND"
<1>1. \A x \in Conjunctions(W) : OfWords(x, W, Conjunctions(W))
  BY ConjunctionParts
<1> QED
  BY <1>1 DEF OfWords, PlainWords, AllQueryNode, EmptyQueryNode, QueryNode

LEMMA ConjunctionCombined ==
  ASSUME AnyHeight, NEW W, NEW x \in Conjunctions(W), x.type = "AND"
  PROVE  [x EXCEPT !.children = SpreadOut(x)] \in Conjunctions(W)
<1>1. /\ ToSet(x.children) # {} /\ ToSet(x.children) \subseteq Conjunctions(W)
      /\ x \in Trees
  BY ConjunctionChildren, ConjunctionParts
<1>2. ASSUME NEW c \in ToSet(x.children)
      PROVE  /\ ToSet(Spread(x, c)) # {}
             /\ ToSet(Spread(x, c)) \subseteq Conjunctions(W)
  <2>1. c \in Conjunctions(W)
    BY <1>1
  <2>2. CASE c.type = "AND"
    <3>1. Spread(x, c) = c.children
      BY <2>2 DEF Spread
    <3> QED
      BY <2>1, <2>2, <3>1, ConjunctionChildren
  <2>3. CASE c.type # "AND"
    <3>1. Spread(x, c) = <<c>> /\ ToSet(<<c>>) = {c}
      BY <2>3 DEF Spread, ToSet
    <3> QED
      BY <2>1, <3>1
  <2> QED
    BY <2>2, <2>3
<1>3. /\ SpreadOut(x) \in Seq(Trees)
      /\ ToSet(SpreadOut(x)) =
           UNION {ToSet(Spread(x, c)) : c \in ToSet(x.children)}
  BY <1>1, SpreadGives
<1>4. /\ ToSet(SpreadOut(x)) # {}
      /\ ToSet(SpreadOut(x)) \subseteq Conjunctions(W)
  BY <1>1, <1>2, <1>3
<1> QED
  BY <1>1, <1>3, <1>4, OtherWords

LEMMA ConjunctionRewritten ==
  ASSUME AnyHeight, NEW W, PlainWords(W), NEW r \in Passes,
         NEW x \in Conjunctions(W)
  PROVE  Rewritten(r, x) \in Conjunctions(W)
<1> DEFINE ch == x.children
           CW == Conjunctions(W)
<1>1. x \in Trees /\ (x.type = "QUERY" \/ x.type = "AND")
  BY ConjunctionParts, NotAmongWords
<1>2. CASE x.type = "QUERY"
  BY <1>2, RewrittenWord
<1>3. CASE x.type = "AND"
  <2>1. /\ ch \in Seq(Trees) /\ ch # <<>>
        /\ ToSet(ch) # {} /\ ToSet(ch) \subseteq CW
    BY <1>3, ConjunctionChildren
  <2>2. ~OfType(ch, "WITHOUT") /\ EmptyQueryNode \notin ToSet(ch)
        /\ AllQueryNode \notin ToSet(ch)
    <3>1. \A i \in DOMAIN ch : ch[i] \in CW
      BY <2>1 DEF ToSet
    <3>2. \A i \in DOMAIN ch : ch[i].type # "WITHOUT"
      BY <3>1, NotAmongWords
    <3> QED
      BY <2>1, <3>2, NotAmongWords DEF OfType
  <2>3. InSortOrder(x) \in CW
    <3>1. Sorted(ch) \in Seq(Trees) /\ ToSet(Sorted(ch)) = ToSet(ch)
      BY <2>1, SortedGives
    <3>2. InSortOrder(x) = [x EXCEPT !.children = Sorted(ch)]
      BY <1>3 DEF InSortOrder
    <3> QED
      BY <1>1, <1>3, <2>1, <3>1, <3>2, OtherWords
  <2>4. RemoveUnnecessaryNodes(x) \in CW
    <3>1. RemoveUnnecessaryNodes(x) = x
            \/ (Len(ch) = 1 /\ RemoveUnnecessaryNodes(x) = ch[1])
      BY <1>3, <2>1, <2>2 DEF RemoveUnnecessaryNodes
    <3>2. Len(ch) = 1 => ch[1] \in CW
      <4>1. Len(ch) = 1 => 1 \in DOMAIN ch
        BY <2>1, LenProperties
      <4> QED
        BY <2>1, <4>1 DEF ToSet
    <3> QED
      BY <3>1, <3>2
  <2>5. CombineHierarchy(x) \in CW
    <3>1. \/ CombineHierarchy(x) = x
          \/ CombineHierarchy(x) = [x EXCEPT !.children = SpreadOut(x)]
      BY <1>3 DEF CombineHierarchy, SpreadOut, Spread
    <3> QED
      BY <1>3, <3>1, ConjunctionCombined
  <2>6. SimplifyChildren(x) \in CW
    <3> DEFINE s == Dedupe(Without(ch, AllQueryNode))
    <3>1. SimplifyChildren(x) = [x EXCEPT !.children = s]
      BY <1>3 DEF SimplifyChildren
    <3>2. s \in Seq(Trees) /\ ToSet(s) = ToSet(ch) \ {AllQueryNode}
      BY <2>1, ClearedGives DEF Cleared
    <3>3. ToSet(s) = ToSet(ch)
      BY <2>2, <3>2
    <3> HIDE DEF s
    <3> QED
      BY <1>1, <1>3, <2>1, <3>1, <3>2, <3>3, OtherWords
  <2>7. /\ SimplifyFlags(x) = x /\ ImplementNotUsingWithout(x) = x
        /\ RemoveSelfCancelingWithout(x) = x
        /\ SimplifyCancelingOperationAndWithout(x) = x
        /\ MoveWithoutOutOfAnd(x) = x
    BY <1>3, <2>2 DEF SimplifyFlags, ImplementNotUsingWithout,
        RemoveSelfCancelingWithout, SimplifyCancelingOperationAndWithout,
        MoveWithoutOutOfAnd
  <2> HIDE DEF CW
  <2> QED
    BY <2>3, <2>4, <2>5, <2>6, <2>7, PassNames DEF Rewritten, CW
<1> QED
  BY <1>1, <1>2, <1>3

LEMMA ConjunctionWalked ==
  ASSUME AnyHeight, NEW W, PlainWords(W), NEW r \in Passes
  PROVE  \A x \in Conjunctions(W) : Walked(r)[x] \in Conjunctions(W)
<1> DEFINE f == Walked(r)
           Good == {x \in Trees : x \in Conjunctions(W) => f[x] \in Conjunctions(W)}
<1>1. \A x \in Trees : f[x] = Rewritten(r, WithBelow(f, x))
  BY WalkedStep
<1>2. \A x \in Trees : x.type = "QUERY" => f[x] = x
  BY WalkedWord
<1> HIDE DEF f
<1>3. ASSUME NEW x \in Trees,
             \A i \in DOMAIN x.children : x.children[i] \in Good
      PROVE  x \in Good
  <2>1. SUFFICES ASSUME x \in Conjunctions(W) PROVE f[x] \in Conjunctions(W)
    OBVIOUS
  <2>2. OfWords(x, W, Conjunctions(W))
    BY <2>1, ConjunctionParts
  <2>3. CASE x.type = "QUERY"
    BY <1>2, <2>1, <2>3
  <2>4. CASE x.type = "AND"
    <3>1. /\ x.children # <<>>
          /\ \A i \in DOMAIN x.children : x.children[i] \in Conjunctions(W)
      BY <2>2, <2>4 DEF OfWords
    <3>2. \A i \in DOMAIN x.children :
            f[x.children[i]] \in Conjunctions(W) /\ f[x.children[i]] \in Trees
      BY <1>3, <3>1, ConjunctionParts
    <3> DEFINE y == WithBelow(f, x)
    <3>3. /\ y \in Trees /\ y.type = x.type
          /\ DOMAIN y.children = DOMAIN x.children
          /\ \A i \in DOMAIN x.children : y.children[i] = f[x.children[i]]
      BY <3>2, NodeOverOthers
    <3>4. f[x] = Rewritten(r, y)
      BY <1>1
    <3> HIDE DEF y
    <3>5. y.children # <<>>
      <4>1. x.children \in Seq(Trees) /\ y.children \in Seq(Trees)
        BY <3>3, TreeParts
      <4>2. Len(y.children) = Len(x.children)
        BY <3>3, <4>1, LenProperties
      <4> QED
        BY <3>1, <4>1, <4>2, EmptySeq
    <3>6. OfWords(y, W, Conjunctions(W))
      BY <2>4, <3>2, <3>3, <3>5 DEF OfWords
    <3>7. y \in Conjunctions(W)
      BY <3>3, <3>6, ConjunctionMade
    <3> QED
      BY <3>4, <3>7, ConjunctionRewritten
  <2> QED
    BY <2>2, <2>3, <2>4 DEF OfWords
<1> HIDE DEF Good
<1>4. \A x \in Trees : x \in Good
  BY <1>3, TreeInduction
<1> QED
  BY <1>4, ConjunctionParts DEF Good, f

(* It finds every post that has all of the words. *)
LEMMA ConjunctionFinds ==
  ASSUME AnyHeight, NEW W, PlainWords(W), NEW idx, NEW p \in DOMAIN idx,
         \A w \in W : QueryKey(w) \in idx[p]
  PROVE  \A x \in Conjunctions(W) : p \in Finds(idx)[x]
<1> DEFINE f == Finds(idx)
           Good == {x \in Trees : x \in Conjunctions(W) => p \in f[x]}
<1>1. \A x \in Trees : f[x] = Finding(idx, x, Below(f, x))
  BY FindsStep
<1> HIDE DEF f
<1>2. ASSUME NEW x \in Trees,
             \A i \in DOMAIN x.children : x.children[i] \in Good
      PROVE  x \in Good
  <2>1. SUFFICES ASSUME x \in Conjunctions(W) PROVE p \in f[x]
    OBVIOUS
  <2>2. OfWords(x, W, Conjunctions(W)) /\ x # EmptyQueryNode
    BY <2>1, ConjunctionParts, NotAmongWords
  <2> DEFINE of == Below(f, x)
  <2>3. f[x] = Finding(idx, x, of)
    BY <1>1
  <2>4. DOMAIN of = DOMAIN x.children
        /\ \A i \in DOMAIN x.children : of[i] = f[x.children[i]]
    BY DEF Below
  <2> HIDE DEF of
  <2>5. CASE x.type = "QUERY"
    <3>1. QueryKey(x.query) \in idx[p]
      BY <2>2, <2>5 DEF OfWords
    <3>2. p \in WordFinds(idx, x)
      BY <2>2, <3>1 DEF WordFinds
    <3> QED
      BY <2>3, <2>5, <3>2 DEF Finding
  <2>6. CASE x.type = "AND"
    <3>1. DOMAIN x.children # {}
      BY <2>1, <2>6, ConjunctionChildren DEF ToSet
    <3>2. \A i \in DOMAIN x.children : p \in f[x.children[i]]
      BY <1>2, <2>2, <2>6 DEF OfWords
    <3>3. f[x] = {q \in DOMAIN idx : DOMAIN of # {} /\ \A i \in DOMAIN of : q \in of[i]}
      BY <2>3, <2>6 DEF Finding
    <3> QED
      BY <2>4, <3>1, <3>2, <3>3
  <2> QED
    BY <2>2, <2>5, <2>6 DEF OfWords
<1> HIDE DEF Good
<1>3. \A x \in Trees : x \in Good
  BY <1>2, TreeInduction
<1> QED
  BY <1>3, ConjunctionParts DEF Good, f

LEMMA AllFinds ==
  ASSUME AnyHeight, NEW idx, NEW p \in DOMAIN idx, AllWord \in idx[p]
  PROVE  p \in Finds(idx)[AllQueryNode]
<1>1. AllQueryNode \in Trees /\ AllQueryNode # EmptyQueryNode
  BY SpecialNodes DEF AllQueryNode, EmptyQueryNode, QueryNode, AllWord
<1>2. AllQueryNode.type = "QUERY" /\ QueryKey(AllQueryNode.query) = AllWord
  BY DEF AllQueryNode, QueryNode, QueryKey
<1>3. p \in WordFinds(idx, AllQueryNode)
  BY <1>1, <1>2 DEF WordFinds
<1>4. Finds(idx)[AllQueryNode]
        = Finding(idx, AllQueryNode, Below(Finds(idx), AllQueryNode))
  BY <1>1, FindsStep
<1> QED
  BY <1>2, <1>3, <1>4 DEF Finding

(* No rule panics on it: there is no WITHOUT that may have lost its first  *)
(* child, and no OR from which terms are dropped.                          *)
PanicsHere(x) == x.type = "OR" /\ DropTermsPanics(Below(Walked(Rules[7]), x))

LEMMA PanicsStep ==
  ASSUME AnyHeight
  PROVE  \A x \in Trees :
           CancelingPanics[x] <=> \/ \E i \in DOMAIN x.children :
                                      CancelingPanics[x.children[i]]
                                 \/ PanicsHere(x)
<1> DEFINE S == BOOLEAN
           G == [x \in Trees |-> [s \in Seq(S) |->
                   (\E i \in DOMAIN x.children : s[i]) \/ PanicsHere(x)]]
<1>1. G \in [Trees -> [Seq(S) -> S]]
  BY DEF PanicsHere
<1>2. PICK f \in [Trees -> S] : Follows(f, Trees, G)
  BY <1>1, TreeRecursion
<1>3. ASSUME NEW x \in Trees
      PROVE  f[x] = (\/ \E i \in DOMAIN x.children : f[x.children[i]]
                     \/ PanicsHere(x))
  <2>1. \A y \in Trees : f[y] \in S
    OBVIOUS
  <2> HIDE DEF S
  <2>2. Below(f, x) \in Seq(S)
    BY <2>1, BelowParts
  <2>3. \A i \in DOMAIN x.children : Below(f, x)[i] = f[x.children[i]]
    BY DEF Below
  <2>4. f[x] = G[x][Below(f, x)]
    BY <1>2 DEF Follows
  <2> QED
    BY <2>2, <2>3, <2>4 DEF S
<1> HIDE DEF G
<1>4. f = [x \in Trees |-> (\/ \E i \in DOMAIN x.children : f[x.children[i]]
                            \/ PanicsHere(x))]
  BY <1>3
<1>5. CancelingPanics =
        [x \in Trees |-> (\/ \E i \in DOMAIN x.children :
                              CancelingPanics[x.children[i]]
                          \/ PanicsHere(x))]
  BY <1>4, Zenon DEF CancelingPanics, PanicsHere, Below
<1> QED
  BY <1>5

LEMMA ConjunctionSafe ==
  ASSUME AnyHeight, NEW W
  PROVE  \A x \in Conjunctions(W) : Whole[x] /\ ~CancelingPanics[x]
<1> DEFINE Good == {x \in Trees : x \in Conjunctions(W) =>
                      Whole[x] /\ ~CancelingPanics[x]}
<1>1. ASSUME NEW x \in Trees,
             \A i \in DOMAIN x.children : x.children[i] \in Good
      PROVE  x \in Good
  <2>1. SUFFICES ASSUME x \in Conjunctions(W)
                 PROVE  Whole[x] /\ ~CancelingPanics[x]
    OBVIOUS
  <2>2. x.type \in {"QUERY", "AND"}
        /\ \A i \in DOMAIN x.children : x.children[i] \in Conjunctions(W)
    <3>1. OfWords(x, W, Conjunctions(W))
      BY <2>1, ConjunctionParts
    <3>2. x.type = "QUERY" => x.children = <<>>
      BY TreeParts DEF WellFormed
    <3>3. DOMAIN <<>> = {}
      OBVIOUS
    <3> QED
      BY <3>1, <3>2, <3>3 DEF OfWords
  <2>3. \A i \in DOMAIN x.children :
          Whole[x.children[i]] /\ ~CancelingPanics[x.children[i]]
    BY <1>1, <2>2
  <2>4. ~IsHollow(x) /\ ~PanicsHere(x)
    BY <2>2 DEF IsHollow, PanicsHere
  <2> QED
    BY <2>3, <2>4, WholeStep, PanicsStep
<1> HIDE DEF Good
<1>2. \A x \in Trees : x \in Good
  BY <1>1, TreeInduction
<1> QED
  BY <1>2, ConjunctionParts DEF Good

(* The trees of the tags: AllQueryNode is that of an empty one.            *)
TagTrees(W) == Conjunctions(W) \cup {AllQueryNode}

LEMMA TagTreesStay ==
  ASSUME AnyHeight, NEW W, PlainWords(W), NEW x \in TagTrees(W)
  PROVE  /\ \A r \in Passes : Walked(r)[x] \in TagTrees(W)
         /\ Whole[x] /\ ~CancelingPanics[x]
<1>1. CASE x \in Conjunctions(W)
  BY <1>1, ConjunctionWalked, ConjunctionSafe DEF TagTrees
<1>2. CASE x = AllQueryNode
  <2>1. x \in Trees /\ Whole[x] /\ x.type = "QUERY" /\ DOMAIN x.children = {}
    BY <1>2, SpecialNodes DEF AllQueryNode, QueryNode
  <2>2. \A r \in Passes : Walked(r)[x] = x
    BY <2>1, WalkedWord
  <2>3. ~CancelingPanics[x]
    BY <2>1, PanicsStep DEF PanicsHere
  <2> QED
    BY <1>2, <2>1, <2>2, <2>3 DEF TagTrees
<1> QED
  BY <1>1, <1>2 DEF TagTrees

LEMMA TagTreesFind ==
  ASSUME AnyHeight, NEW W, PlainWords(W), NEW idx, NEW p \in DOMAIN idx,
         AllWord \in idx[p], \A w \in W : QueryKey(w) \in idx[p],
         NEW x \in TagTrees(W)
  PROVE  p \in Finds(idx)[x]
BY ConjunctionFinds, AllFinds DEF TagTrees
=============================================================================
