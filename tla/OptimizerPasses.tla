-------------------------- MODULE OptimizerPasses ---------------------------
(***************************************************************************)
(* The passes of Optimize (parser/optimize.go:7-39): the rules one after   *)
(* the other, each a walk through the whole tree, until a pass changes     *)
(* nothing.  The tree may be any; QueryEngine brings the one that it has   *)
(* parsed.                                                                 *)
(*                                                                         *)
(* What a tree stands for is decided over the index that a complete store  *)
(* has for a set of posts.  The posts need only differ in the keys that a  *)
(* query can tell apart.                                                   *)
(***************************************************************************)
EXTENDS Optimizer

CONSTANTS
  Posts,     \* the posts: their columns and their tags
  MaxPasses  \* passes of the optimizer, 16 in the code

Index == [p \in Posts |-> KeysOf(p)]

(* SimplifyFlags takes for granted that every post has one of the ratings. *)
ASSUME RatingAssumption ==
  \A p \in Posts : \E r \in {"sfw", "nsfw", "nsfl", "nsfp"} :
    \A name \in {"sfw", "nsfw", "nsfl", "nsfp"} :
      Label("f", <<name>>) \in Index[p] <=> name = r

ASSUME PassesAssumption == MaxPasses \in Nat \ {0}

VARIABLES
  stage,    \* how far the query is
  ast,      \* its tree
  pass, rule, changed  \* the loops of Optimize and ctx.changed

passVars == <<stage, ast, pass, rule, changed>>

Stages ==
  {"text", "parsed", "rejected", "rules", "optimized", "panicked", "done"}

PassesInit ==
  /\ stage = "text" /\ ast = EmptyQueryNode
  /\ pass = 0 /\ rule = 0 /\ changed = FALSE

(* A tree arrives. *)
Receive ==
  /\ stage = "text"
  /\ stage' \in {"parsed", "rejected"}
  /\ ast' \in Trees /\ Whole[ast']
  /\ UNCHANGED <<pass, rule, changed>>

(* The optimizer is switched on: Optimize sorts its copy of the tree.      *)
StartOptimizer ==
  /\ stage = "parsed"
  /\ stage' = "rules"
  /\ ast' = Walked("canonicalizeNodeSortOrder")[ast]
  /\ pass' = 1 /\ rule' = 1 /\ changed' = FALSE

(* The first rule of a pass asks every WITHOUT for its first child, the    *)
(* last but one those in an OR for the others.                             *)
RulePanics ==
  (rule = 1 /\ ~Whole[ast]) \/ (rule = 7 /\ CancelingPanics[ast])

(* withRecovery turns the panic into an error. *)
OptimizerPanics ==
  /\ stage = "rules" /\ RulePanics
  /\ stage' = "panicked"
  /\ UNCHANGED <<ast, pass, rule, changed>>

(* A variant whose loop over the rules ends one too late. *)
ApplyRuleAfterLast ==
  /\ stage = "rules" /\ rule' = rule + 1
  /\ ast' = Walked(Rules[rule])[ast]
  /\ stage' = IF rule > Len(Rules) THEN "optimized" ELSE stage
  /\ UNCHANGED <<pass, changed>>

(* The next rule of a pass; after the last one another pass, unless none   *)
(* of the rules has changed anything.                                      *)
ApplyRule ==
  /\ stage = "rules" /\ ~RulePanics
  /\ ast' = Walked(Rules[rule])[ast]
  /\ LET marked == changed \/ MarksChanged(Rules[rule], ast, ast')
         again == marked /\ pass < MaxPasses
     IN IF rule < Len(Rules)
        THEN rule' = rule + 1 /\ changed' = marked /\ UNCHANGED <<pass, stage>>
        ELSE IF again
        THEN rule' = 1 /\ changed' = FALSE /\ pass' = pass + 1
             /\ UNCHANGED stage
        ELSE stage' = "optimized" /\ changed' = marked
             /\ UNCHANGED <<pass, rule>>

Optimize == StartOptimizer \/ ApplyRule \/ OptimizerPanics

(* The tree is used, optimized or not. *)
Leave ==
  /\ stage \in {"parsed", "optimized"}
  /\ stage' = "done"
  /\ UNCHANGED <<ast, pass, rule, changed>>

PassesNext == Receive \/ Optimize \/ Leave

PassesSpec == PassesInit /\ [][PassesNext]_passVars
-----------------------------------------------------------------------------
(* The variables keep their types: whatever the rules make of a tree is a  *)
(* tree again, where a NOT has one child and a word has none.              *)
PassesTypeOK ==
  /\ stage \in Stages /\ ast \in Trees
  /\ pass \in 0..MaxPasses /\ rule \in 0..Len(Rules)
  /\ changed \in BOOLEAN
  /\ stage = "rules" => rule # 0

(* A WITHOUT that has lost all its children is a child of an OR.           *)
Allows(node, child) == node.type # "OR" => ~IsHollow(child)

Loose[node \in Trees] ==
  \A i \in DOMAIN node.children :
    Loose[node.children[i]] /\ Allows(node, node.children[i])

(* Only the last rule but one leaves a WITHOUT without the first child that*)
(* the rules take for granted (optimize.go:90, 103, 187, 200, 267), and it *)
(* does so below an OR, where the rule behind it does not look: of all the *)
(* rules the first of a pass and the last but one are left to panic.       *)
FirstChildrenAreThere ==
  /\ stage = "parsed" \/ (stage = "rules" /\ rule \in 2..7) => Whole[ast]
  /\ stage = "rules" /\ rule = 8 => Loose[ast] /\ ~IsHollow(ast)

(* What a tree stands for.  Other than the iterators it takes an AND of    *)
(* nothing for all posts: so the rules use it between two passes.          *)
Meaning[node \in Trees] ==
  LET of == [i \in DOMAIN node.children |-> Meaning[node.children[i]]]
      all == DOMAIN of
  IN CASE node.type = "QUERY" -> WordFinds(Index, node)
       [] node.type = "AND" -> {p \in Posts : \A i \in all : p \in of[i]}
       [] node.type = "OR" -> {p \in Posts : \E i \in all : p \in of[i]}
       [] node.type = "WITHOUT" ->
            {p \in Posts : /\ all # {} /\ p \in of[1]
                           /\ \A i \in all \ {1} : p \notin of[i]}
       [] node.type = "NOT" -> Posts \ of[1]

(* The walk with the rule 7 comes to an OR of a term and of a WITHOUT that *)
(* excludes the same term.                                                 *)
DropsTerm[node \in Trees] ==
  LET ch == node.children
      rewritten == [i \in DOMAIN ch |-> Walked(Rules[7])[ch[i]]]
  IN \/ \E i \in DOMAIN ch : DropsTerm[ch[i]]
     \/ /\ node.type = "OR"
        /\ \E i, j \in DOMAIN ch : /\ rewritten[j].type # "WITHOUT"
                                   /\ Excludes(rewritten[i], rewritten[j])

(* No rule of the optimizer (optimize.go:88-275), nor the sorting, changes *)
(* what the query finds, but for the removal of a term next to its own     *)
(* exclusion, which the run `terms` shows to be wrong.                     *)
RulesKeepHits ==
  [][(stage \in {"parsed", "rules"} /\ ~(rule = 7 /\ DropsTerm[ast])) =>
       Meaning[ast'] = Meaning[ast]]_passVars
=============================================================================
