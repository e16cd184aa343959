----------------------------- MODULE QueryTree ------------------------------
(***************************************************************************)
(* The tree of a query (parser/node.go): its nodes, the order in which the *)
(* optimizer sorts them, and what a node finds once it is translated into  *)
(* iterators (parser/execute.go).  What goes down a tree is a recursive    *)
(* function over Trees.                                                    *)
(***************************************************************************)
EXTENDS Vocabulary

CONSTANTS
  ByteOrder,  \* the characters in use, in the order of their first bytes
  Heights     \* how high a tree may be: any number in the code

Characters == ToSet(ByteOrder)

(* The characters of the words that the optimizer itself puts into a tree. *)
ASSUME OrderAssumption ==
  /\ ByteOrder \in Seq(STRING)
  /\ \A i, j \in DOMAIN ByteOrder : ByteOrder[i] = ByteOrder[j] => i = j
  /\ {"__all", "__empty", "f", ":", "nsfl", "nsfp"} \subseteq Characters

ASSUME HeightsAssumption == Heights \subseteq Nat
-----------------------------------------------------------------------------
NodeTypes == {"AND", "OR", "WITHOUT", "NOT", "QUERY"}

QueryNode(word) == [type |-> "QUERY", query |-> word, children |-> <<>>]
OpNode(type, children) ==
  [type |-> type, query |-> <<>>, children |-> children]

AllQueryNode == QueryNode(AllWord)
EmptyQueryNode == QueryNode(<<"__empty">>)

(* NOT has the one child that is indexed (execute.go:29, optimize.go:150). *)
WellFormed(node) ==
  /\ node.type = "QUERY" => node.children = <<>>
  /\ node.type = "NOT" => Len(node.children) = 1

TreesUpTo[height \in Nat] ==
  IF height = 0 THEN {}
  ELSE {node \in [type : NodeTypes, query : Seq(Characters),
                  children : Seq(TreesUpTo[height - 1])] : WellFormed(node)}

Trees == UNION {TreesUpTo[height] : height \in Heights}

(* A WITHOUT has a first child, which the optimizer takes for granted.      *)
IsHollow(node) == node.type = "WITHOUT" /\ node.children = <<>>

Whole[node \in Trees] ==
  ~IsHollow(node) /\ \A i \in DOMAIN node.children : Whole[node.children[i]]

OfType(nodes, type) == \E i \in DOMAIN nodes : nodes[i].type = type
-----------------------------------------------------------------------------
(* LessThan.  A smaller type, a smaller query, or any smaller child makes  *)
(* a node the smaller one, so of two nodes each may be less than the other.*)
TypeRank == [AND |-> 1, NOT |-> 2, OR |-> 3, QUERY |-> 4, WITHOUT |-> 5]

CharRank == [c \in Characters |-> CHOOSE i \in DOMAIN ByteOrder :
                                    ByteOrder[i] = c]

(* At the first difference there is a smaller character, or none any more. *)
QueryLess(p, q) ==
  \E i \in DOMAIN q :
    /\ \A j \in 1..(i - 1) : j \in DOMAIN p /\ p[j] = q[j]
    /\ i \in DOMAIN p => CharRank[p[i]] < CharRank[q[i]]

SmallerItself(x, y) ==
  \/ TypeRank[x.type] < TypeRank[y.type]
  \/ QueryLess(x.query, y.query)
  \/ Len(x.children) < Len(y.children)

LessThan[x \in Trees] ==
  [y \in Trees |->
     \/ SmallerItself(x, y)
     \/ \E i \in DOMAIN x.children \cap DOMAIN y.children :
          LessThan[x.children[i]][y.children[i]]]

(* sort.Sort for the few children of a node: an insertion sort.  A node    *)
(* stops behind the last one that it is not less than.                     *)
Inserted(sorted, x) ==
  LET at == CHOOSE i \in 0..Len(sorted) :
              /\ i > 0 => ~LessThan[x][sorted[i]]
              /\ \A j \in (i + 1)..Len(sorted) : LessThan[x][sorted[j]]
  IN InsertAt(sorted, at + 1, x)

Sorted(nodes) ==
  LET sorted[n \in 0..Len(nodes)] ==
        IF n = 0 THEN <<>> ELSE Inserted(sorted[n - 1], nodes[n])
  IN sorted[Len(nodes)]

(* Dedupe of sortutil: in sorted order, a node is kept when the last one   *)
(* kept is less than it.                                                   *)
Deduped(sorted) ==
  LET kept[n \in 0..Len(sorted)] ==
        IF n = 0 THEN <<>>
        ELSE IF n > 1 /\ ~LessThan[Last(kept[n - 1])][sorted[n]]
        THEN kept[n - 1]
        ELSE Append(kept[n - 1], sorted[n])
  IN kept[Len(sorted)]

Dedupe(nodes) == Deduped(Sorted(nodes))

(* filterNodes: the nodes that are not x. *)
Without(nodes, x) ==
  LET rest[n \in 0..Len(nodes)] ==
        IF n = 0 THEN <<>>
        ELSE IF nodes[n] = x THEN rest[n - 1] ELSE Append(rest[n - 1], nodes[n])
  IN rest[Len(nodes)]

(* WITHOUT keeps its first child in front when it is sorted. *)
SortedTail(nodes) == <<Head(nodes)>> \o Sorted(Tail(nodes))
-----------------------------------------------------------------------------
(* The iterator of a word: the list of its key.                            *)
WordFinds(index, node) ==
  {p \in DOMAIN index : node # EmptyQueryNode
                           /\ QueryKey(node.query) \in index[p]}

(* ToIterator, over the index of some posts: the posts that its iterator   *)
(* gives.  Combined iterators of no children are empty.                    *)
Finds(index) ==
  LET found[node \in Trees] ==
        LET posts == DOMAIN index
            of == [i \in DOMAIN node.children |-> found[node.children[i]]]
            some == DOMAIN of
        IN CASE node.type = "QUERY" -> WordFinds(index, node)
             [] node.type = "AND" ->
                  {p \in posts : some # {} /\ \A i \in some : p \in of[i]}
             [] node.type = "OR" -> {p \in posts : \E i \in some : p \in of[i]}
             [] node.type = "WITHOUT" ->
                  {p \in posts : /\ some # {} /\ p \in of[1]
                                 /\ \A i \in some \ {1} : p \notin of[i]}
             [] node.type = "NOT" ->
                  {p \in posts : AllWord \in index[p]} \ of[1]
  IN found
=============================================================================
