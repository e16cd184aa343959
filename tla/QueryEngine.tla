---------------------------- MODULE QueryEngine -----------------------------
(***************************************************************************)
(* A query on its way from its text to its hits (actions.go, Search): it   *)
(* is parsed, optimized when POST /admin/config says so (restapi.go:86),   *)
(* and translated into iterators over the lists of the index.              *)
(*                                                                         *)
(* The index is the one that a complete store has for a set of posts.      *)
(***************************************************************************)
EXTENDS Parser, OptimizerPasses

CONSTANT
  Texts  \* the texts of the queries

(* No text spells the words that the parser and the optimizer put into a   *)
(* tree themselves: an underscore is no letter (scanner.go:33).            *)
ASSUME TextsAssumption == Texts \subseteq Seq(Characters \ {"__all", "__empty"})

VARIABLES
  text,    \* what is asked
  parsed,  \* history: the tree that the parser has made
  answer   \* the hits

vars == <<text, parsed, answer, passVars>>

Hits(node) == Finds(Index)[node]

Init ==
  /\ PassesInit
  /\ text \in Texts
  /\ parsed = EmptyQueryNode
  /\ answer = {}
-----------------------------------------------------------------------------
ParseQuery ==
  /\ stage = "text"
  /\ LET result == Parse(Tokens(text))
     IN /\ stage' = IF result.ok THEN "parsed" ELSE "rejected"
        /\ parsed' = result.node /\ ast' = result.node
  /\ UNCHANGED <<text, pass, rule, changed, answer>>

(* With the optimizer or without it. *)
OptimizeQuery == Optimize /\ UNCHANGED <<text, parsed, answer>>

(* ToIterator and IteratorToList; without the optimizer right away. *)
Execute ==
  /\ stage \in {"parsed", "optimized"}
  /\ stage' = "done"
  /\ answer' = Hits(ast)
  /\ UNCHANGED <<text, parsed, ast, pass, rule, changed>>

Next == ParseQuery \/ OptimizeQuery \/ Execute

Spec == Init /\ [][Next]_vars
-----------------------------------------------------------------------------
(* The variables keep their types. *)
TypeOK ==
  /\ PassesTypeOK
  /\ text \in Texts /\ parsed \in Trees /\ answer \subseteq Posts

(* The optimizer only ever gets trees on which it may rely: an engine is   *)
(* an instance of the passes over any tree (actions.go:136-145).           *)
Optimizes == PassesSpec

(* The grammar of README.md:17-33 and 47 as derivations: AND binds before  *)
(* OR, OR before minus, each from the left; a prefix binds first of all.   *)
(* These are the trees of the tokens between two positions.                *)
Spans(ts) == [level : 1..4, first : 1..(Len(ts) + 1), last : 0..Len(ts)]
Span(level, first, last) == [level |-> level, first |-> first, last |-> last]

Pairs(type, lefts, rights) ==
  {OpNode(type, <<l, r>>) : l \in lefts, r \in rights}

DerivedBase(trees, ts, i, j) ==
  (IF i = j /\ ts[i].tok = "WORD" THEN {QueryNode(ts[i].lit)} ELSE {})
    \cup (IF ts[i].tok = "(" /\ ts[j].tok = ")"
          THEN trees[Span(1, i + 1, j - 1)] ELSE {})
    \cup (IF ts[i].tok \in {"WITHOUT", "NOT"}
          THEN {OpNode("NOT", <<n>>) : n \in trees[Span(4, i + 1, j)]} ELSE {})

DerivedSplit(trees, ts, level, i, j) ==
  LET At(k, right) ==
        Pairs(Operators[level], trees[Span(level, i, k - 1)],
              trees[Span(level + 1, right, j)])
  IN (UNION {At(k, k + 1) : k \in {n \in i..j : ts[n].tok = Operators[level]}})
       \cup (UNION {At(k, k) : k \in {n \in i..j : /\ level = 3
                                                   /\ ts[n].tok = "WORD"}})

Derived(ts) ==
  LET trees[s \in Spans(ts)] ==
        IF s.first > s.last THEN {}
        ELSE IF s.level = 4 THEN DerivedBase(trees, ts, s.first, s.last)
        ELSE trees[Span(s.level + 1, s.first, s.last)]
               \cup DerivedSplit(trees, ts, s.level, s.first, s.last)
  IN trees

(* The parser (parser.go:66-143) accepts exactly the texts that have a    *)
(* derivation, which is then the only one, and returns its tree.           *)
ParserMatchesGrammar ==
  LET ts == Tokens(text)
      trees == IF Len(ts) = 1 THEN {AllQueryNode}
               ELSE Derived(ts)[Span(1, 1, Len(ts) - 1)]
  IN /\ stage = "rejected" => trees = {}
     /\ stage = "parsed" => trees = {parsed}

(* The passes end at a tree to which no rule applies any more, long before *)
(* the limit (optimize.go:11), and the iterators find what it stands for:  *)
(* the answer is not that of an AND without children.                      *)
Converges ==
  /\ stage = "optimized" => ~changed
  /\ stage = "done" => answer = Meaning[ast]

(* The tags that are cut into the same words wherever they are typed: only *)
(* letters, colons and spaces, and no field that is a keyword, a label or  *)
(* without any letter that CleanString keeps.                              *)
Typable(tag) ==
  /\ \A i \in DOMAIN tag : IsLetter(tag[i]) \/ tag[i] \in {" ", ":"}
  /\ \A f \in Fields(tag) :
       /\ IsLetter(f[1]) /\ ~IsLabel(f)
       /\ f \notin DOMAIN Keyword
       /\ CleanString(f) # <<>>

(* Who types a tag finds every post that has it ("Findet alle Posts mit    *)
(* dem Tag", README.md:50), though the tag and the query take different    *)
(* ways to their words: ExtractWords (updates.go:197) the one, the scanner *)
(* and then CleanString (actions.go:153) the other.                        *)
TagFound ==
  stage = "done" /\ Typable(text) =>
    Finds(<<{AllWord} \cup TagWords(text)>>)[ast] # {}

(* The special words of README.md:31-45, and what they promise to find; of *)
(* those with a number, a date or a name some.  README.md:40 names the     *)
(* qualities without their widths, which are those of updates.go:80.  Of   *)
(* several ratings the first counts (updates.go:129), so that a post has   *)
(* one.                                                                    *)
Documented ==
  LET With(P(_)) == {p \in Posts : P(p)}
  IN [w \in {<<"f", ":", n>> : n \in {"text", "top", "controversial", "sound"}}
        |-> With(LAMBDA p : p[w[3]])]
     @@ [w \in {<<"s", ":", n>> : n \in {"100", "200", "300"}} |->
           With(LAMBDA p : p.score >= (CASE w[3] = "100" -> 100
                                         [] w[3] = "200" -> 200
                                         [] w[3] = "300" -> 300))]
     @@ <<"s", ":", "shit">> :> With(LAMBDA p : p.score < -300)
     @@ <<"f", ":", "sfw">> :> With(LAMBDA p : 1 \in p.flags)
     @@ <<"f", ":", "nsfw">> :> With(LAMBDA p : p.flags \cap 1..2 = {2})
     @@ <<"f", ":", "nsfl">> :> With(LAMBDA p : p.flags \cap 1..4 = {4})
     @@ <<"f", ":", "nsfp">> :> With(LAMBDA p : p.flags \cap 1..8 = {8})
     @@ <<"q", ":", "4k">> :> With(LAMBDA p : p.width >= 3801)
     @@ <<"q", ":", "1080p">> :> With(LAMBDA p : p.width \in 1901..3800)
     @@ <<"q", ":", "hd">> :> With(LAMBDA p : p.width \in 1201..3800)
     @@ <<"q", ":", "sd">> :> With(LAMBDA p : p.width \in 601..1200)
     @@ <<"q", ":", "kartoffel">> :> With(LAMBDA p : p.width <= 600)
     @@ <<"f", ":", "repost">> :> With(LAMBDA p : <<"repost">> \in p.tags)
     @@ <<"d", ":", "2014">> :> With(LAMBDA p : p.year = 2014)
     @@ <<"d", ":", "2014", ":", "04">> :>
           With(LAMBDA p : p.year = 2014 /\ p.month = 4)
     @@ <<"m", ":", "ftb">> :> With(LAMBDA p : p.mark = 6)
     @@ <<"m", ":", "newfag">> :> With(LAMBDA p : p.mark = 1)
     @@ <<"u", ":", "a">> :> With(LAMBDA p : p.username = <<"a">>)

(* README.md:40 names this one too, and no post ever gets it.              *)
NeverPushed == <<"q", ":", "480p">>

(* A special word finds the posts that it is documented to find, no others:*)
(* the label pushed (updates.go:114-182) and the key looked up agree.      *)
(* The one that is never pushed finds nothing.                             *)
SpecialWordsFind ==
  stage = "done" =>
    /\ text \in DOMAIN Documented => answer = Documented[text]
    /\ text = NeverPushed => answer = {}

(* Whether the optimizer is on makes no difference to what is found: terms *)
(* that it removes have "no effect" (optimize.go:215-220).                 *)
SameHits == stage = "done" => answer = Hits(parsed)
=============================================================================
