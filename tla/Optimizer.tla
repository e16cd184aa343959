----------------------------- MODULE Optimizer ------------------------------
(***************************************************************************)
(* The optimizer (parser/optimize.go): eight rules, each applied to every  *)
(* node of the tree from the leaves up.  An operator of this module is one *)
(* rule at one node; Walked applies a rule to a tree.                      *)
(***************************************************************************)
EXTENDS QueryTree

(* canonicalizeNodeSortOrder at one node. *)
InSortOrder(node) ==
  CASE node.type \in {"AND", "OR"} -> [node EXCEPT !.children = Sorted(@)]
    [] node.type = "WITHOUT" -> [node EXCEPT !.children = SortedTail(@)]
    [] OTHER -> node
-----------------------------------------------------------------------------
(* A variant that leaves an AND of nothing as it is. *)
OfNothingButAnd(node) ==
  IF node.type = "AND" THEN node ELSE EmptyQueryNode

(* What an AND and an OR without children stand for. *)
OfNothing(node) ==
  IF node.type = "AND" THEN AllQueryNode ELSE EmptyQueryNode

(* Nodes with no or one child, double negations, and the nodes of all and  *)
(* of no posts among the children.                                         *)
RemoveUnnecessaryNodes(node) ==
  LET ch == node.children
      Among(x, nodes) == x \in ToSet(nodes)
  IN CASE node.type \in {"AND", "OR"} /\ ch = <<>> -> OfNothing(node)
       [] node.type \in {"AND", "OR", "WITHOUT"} /\ Len(ch) = 1 -> ch[1]
       [] node.type = "NOT" /\ ch[1].type = "NOT" -> ch[1].children[1]
       [] node.type = "WITHOUT"
            /\ (ch[1] = EmptyQueryNode \/ Among(AllQueryNode, Tail(ch))) ->
            EmptyQueryNode
       [] node.type = "AND" /\ Among(EmptyQueryNode, ch) -> EmptyQueryNode
       [] node.type = "OR" /\ Among(AllQueryNode, ch) -> AllQueryNode
       [] OTHER -> node

(* Three of the ratings are all but the fourth, for the two that are asked *)
(* for most.                                                               *)
FlagNode(name) == QueryNode(Label("f", <<name>>))

SimplifyFlags(node) ==
  LET Are(name) ==
        node.children = <<FlagNode(name), FlagNode("nsfw"), FlagNode("sfw")>>
  IN CASE node.type = "OR" /\ Are("nsfp") -> OpNode("NOT", <<FlagNode("nsfl")>>)
       [] node.type = "OR" /\ Are("nsfl") -> OpNode("NOT", <<FlagNode("nsfp")>>)
       [] OTHER -> node

(* A variant with the two children the other way round. *)
ImplementNotSwapped(node) ==
  IF node.type = "NOT"
  THEN OpNode("WITHOUT", <<node.children[1], AllQueryNode>>) ELSE node

ImplementNotUsingWithout(node) ==
  IF node.type = "NOT"
  THEN OpNode("WITHOUT", <<AllQueryNode, node.children[1]>>) ELSE node

(* A WITHOUT takes over the exclusions of a WITHOUT in front of it, an AND *)
(* and an OR the children of children of their type.                       *)
CombineHierarchy(node) ==
  LET ch == node.children
      Spread(child) ==
        IF child.type = node.type THEN child.children ELSE <<child>>
  IN CASE node.type = "WITHOUT" /\ ch[1].type = "WITHOUT" ->
            [ch[1] EXCEPT !.children = SortedTail(@ \o Tail(ch))]
       [] node.type \in {"AND", "OR"} /\ OfType(ch, node.type) ->
            [node EXCEPT !.children =
               Sorted(FlattenSeq([i \in DOMAIN ch |-> Spread(ch[i])]))]
       [] OTHER -> node

RemoveSelfCancelingWithout(node) ==
  IF node.type = "WITHOUT" /\ Head(node.children) \in ToSet(Tail(node.children))
  THEN EmptyQueryNode ELSE node

SimplifyChildren(node) ==
  LET ch == node.children
      excluded == Dedupe(Without(Tail(ch), EmptyQueryNode))
  IN CASE node.type = "OR" ->
            [node EXCEPT !.children = Dedupe(Without(ch, EmptyQueryNode))]
       [] node.type = "AND" ->
            [node EXCEPT !.children = Dedupe(Without(ch, AllQueryNode))]
       [] node.type = "WITHOUT" /\ Len(excluded) # Len(ch) - 1 ->
            [node EXCEPT !.children = <<Head(ch)>> \o excluded]
       [] OTHER -> node

(* Whether a post that the node finds has the word for certain. *)
ContainsOnly(word) ==
  LET only[node \in Trees] ==
        CASE node.type = "QUERY" -> node.query = word
          [] node.type = "AND" ->
               \E i \in DOMAIN node.children : only[node.children[i]]
          [] node.type = "WITHOUT" /\ ~IsHollow(node) ->
               only[node.children[1]]
          [] OTHER -> FALSE
  IN only

(* An exclusion of a term next to the term: the term is removed from both. *)
Excludes(node, term) ==
  node.type = "WITHOUT" /\ \E i \in 2..Len(node.children) : node.children[i] = term

DropTerm(children, term) ==
  IF \E i \in DOMAIN children : Excludes(children[i], term)
  THEN [i \in DOMAIN Without(children, term) |->
          LET child == Without(children, term)[i]
          IN IF Excludes(child, term)
             THEN [child EXCEPT !.children = Without(@, term)] ELSE child]
  ELSE children

(* Every child of an OR that is no WITHOUT is such a term: what is left of *)
(* the children after the first n of them.                                 *)
AfterTerms(children) ==
  LET after[n \in 0..Len(children)] ==
        IF n = 0 THEN children
        ELSE IF children[n].type = "WITHOUT" THEN after[n - 1]
        ELSE DropTerm(after[n - 1], children[n])
  IN after

DropTerms(children) == AfterTerms(children)[Len(children)]

(* A WITHOUT from which one term has taken all the children is asked for   *)
(* those behind the first one when the next term comes.                    *)
DropTermsPanics(children) ==
  \E n \in DOMAIN children :
    /\ children[n].type # "WITHOUT"
    /\ \E i \in DOMAIN AfterTerms(children)[n - 1] :
         IsHollow(AfterTerms(children)[n - 1][i])

SimplifyCancelingOperationAndWithout(node) ==
  LET ch == node.children
  IN CASE node.type = "WITHOUT" /\ ch[1].type = "AND"
            /\ \E i \in 2..Len(ch) : ch[i].type = "QUERY"
                                     /\ ContainsOnly(ch[i].query)[ch[1]] ->
            EmptyQueryNode
       [] node.type = "OR" ->
            [node EXCEPT !.children = DropTerms(ch)]
       [] OTHER -> node

(* a & (b - c) becomes (a & b) - c, for the first WITHOUT of an AND. *)
MoveWithoutOutOfAnd(node) ==
  LET ch == node.children
      first == SelectInSeq(ch, LAMBDA n : n.type = "WITHOUT")
      inner == [node EXCEPT !.children =
                  Sorted(Append(RemoveAt(ch, first), Head(ch[first].children)))]
  IN IF node.type = "AND" /\ OfType(ch, "WITHOUT")
     THEN OpNode("WITHOUT", <<inner>> \o Tail(ch[first].children))
     ELSE node
-----------------------------------------------------------------------------
(* A variant that looks for exclusions of the first child only when other  *)
(* rules have removed children.                                            *)
RulesSelfCancelingLate ==
  <<"RemoveUnnecessaryNodes", "SimplifyFlags", "ImplementNotUsingWithout",
    "CombineHierarchy", "SimplifyChildren",
    "SimplifyCancelingOperationAndWithout", "RemoveSelfCancelingWithout",
    "MoveWithoutOutOfAnd">>

Rules ==
  <<"RemoveUnnecessaryNodes", "SimplifyFlags", "ImplementNotUsingWithout",
    "CombineHierarchy", "RemoveSelfCancelingWithout", "SimplifyChildren",
    "SimplifyCancelingOperationAndWithout", "MoveWithoutOutOfAnd">>

Rewritten(rule, node) ==
  CASE rule = "canonicalizeNodeSortOrder" -> InSortOrder(node)
    [] rule = "RemoveUnnecessaryNodes" -> RemoveUnnecessaryNodes(node)
    [] rule = "SimplifyFlags" -> SimplifyFlags(node)
    [] rule = "ImplementNotUsingWithout" -> ImplementNotUsingWithout(node)
    [] rule = "CombineHierarchy" -> CombineHierarchy(node)
    [] rule = "RemoveSelfCancelingWithout" -> RemoveSelfCancelingWithout(node)
    [] rule = "SimplifyChildren" -> SimplifyChildren(node)
    [] rule = "SimplifyCancelingOperationAndWithout" ->
         SimplifyCancelingOperationAndWithout(node)
    [] rule = "MoveWithoutOutOfAnd" -> MoveWithoutOutOfAnd(node)

(* TreeWalk: the children first, then the node itself. *)
Walked(rule) ==
  LET walked[node \in Trees] ==
        Rewritten(rule,
          [node EXCEPT !.children = [i \in DOMAIN @ |-> walked[@[i]]]])
  IN walked

(* The walk with the last rule but one ends in a panic. *)
CancelingPanics[node \in Trees] ==
  LET ch == node.children
      rewritten == [i \in DOMAIN ch |-> Walked(Rules[7])[ch[i]]]
  IN \/ \E i \in DOMAIN ch : CancelingPanics[ch[i]]
     \/ node.type = "OR" /\ DropTermsPanics(rewritten)

(* The walk with SimplifyChildren removes a child somewhere.               *)
RemovesChildren[node \in Trees] ==
  LET ch == node.children
      rewritten == [i \in DOMAIN ch |-> Walked("SimplifyChildren")[ch[i]]]
  IN \/ \E i \in DOMAIN ch : RemovesChildren[ch[i]]
     \/ Len(SimplifyChildren([node EXCEPT !.children = rewritten]).children)
          # Len(ch)

(* Whether a rule has called markChanged.  SimplifyChildren does only when *)
(* it has removed something, not when it has sorted; the others do exactly *)
(* when the tree is another one.                                           *)
MarksChanged(rule, before, after) ==
  IF rule = "SimplifyChildren" THEN RemovesChildren[before] ELSE after # before
=============================================================================
