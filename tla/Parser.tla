------------------------------- MODULE Parser -------------------------------
(***************************************************************************)
(* The scanner (parser/scanner.go) and the parser (parser/parser.go).  The *)
(* scanner reads one token ahead of the parser; as nothing else reads the  *)
(* text, the tokens are scanned first.  A panic of the parser is a result  *)
(* that is not ok.                                                         *)
(***************************************************************************)
EXTENDS QueryTree

SymbolToken ==
  [c \in Symbols |->
     CASE c = "&" -> "AND" [] c = "|" -> "OR" [] c = "-" -> "WITHOUT"
       [] c = "!" -> "NOT" [] OTHER -> c]

Keyword ==
  [w \in {<<c>> : c \in {"and", "or", "minus", "without", "not"}} |->
     CASE w = <<"and">> -> "AND" [] w = <<"or">> -> "OR" [] OTHER -> "WITHOUT"]

Token(tok, lit) == [tok |-> tok, lit |-> lit]

(* Where the word ends that starts with the letter at i: it goes on with    *)
(* letters, digits and colons.                                             *)
GoesOnWord(c) == IsLetter(c) \/ c = ":"

WordEnd(text, i) ==
  CHOOSE n \in i..Len(text) :
    /\ \A k \in (i + 1)..n : GoesOnWord(text[k])
    /\ n < Len(text) => ~GoesOnWord(text[n + 1])

(* The character behind a word is unread, unless it is taken for the end   *)
(* of the text: the rune 0.                                                *)
AfterWord(text, n) ==
  IF n < Len(text) /\ text[n + 1] = "nul" THEN n + 2 ELSE n + 1

WordToken(word) ==
  IF word \in DOMAIN Keyword THEN Token(Keyword[word], word)
  ELSE Token("WORD", word)

(* Scan: the token at i, and those from behind it on, up to EOF, where the *)
(* parser stops to ask.                                                    *)
Scan(from, text, i) ==
  IF i > Len(text) \/ text[i] = "nul" THEN <<Token("EOF", <<>>)>>
  ELSE LET c == text[i]
           n == WordEnd(text, i)
       IN CASE c = " " -> from[i + 1]
            [] c \in Symbols ->
                 <<Token(SymbolToken[c], <<c>>)>> \o from[i + 1]
            [] IsLetter(c) ->
                 <<WordToken(SubSeq(text, i, n))>> \o from[AfterWord(text, n)]
            [] OTHER -> <<Token("ILLEGAL", <<c>>)>> \o from[i + 1]

Tokens(text) ==
  LET from[i \in 1..(Len(text) + 1)] == Scan(from, text, i) IN from[1]
-----------------------------------------------------------------------------
(* What a call returns, and the token that it leaves for the next one.     *)
Parsed(node, at) == [ok |-> TRUE, node |-> node, at |-> at]
Rejected == [ok |-> FALSE, node |-> EmptyQueryNode, at |-> 1]

(* parseWithoutExpr, parseOrExpr and parseAndExpr are levels 1 to 3: an    *)
(* expression of the next level, then as many as follow their operator,    *)
(* combined from the left.  Level 4 is parseBaseExpr.                      *)
Operators == <<"WITHOUT", "OR", "AND">>

(* The tokens that go on with a level: a word needs no operator before it  *)
(* to be joined with AND.                                                  *)
GoesOn(level, tok) == tok = Operators[level] \/ (level = 3 /\ tok = "WORD")

(* The calls on some tokens: one begins at a token, or goes on there, in    *)
(* the loop of its level, with what it has so far.                         *)
Calls(tokens) == [level : 1..4, result : Seq(Trees), at : DOMAIN tokens]

Begin(level, at) == [level |-> level, result |-> <<>>, at |-> at]
GoOn(level, result, at) ==
  [level |-> level, result |-> <<result>>, at |-> at]

ParseExpr(parse, level, at) ==
  LET first == parse[Begin(level + 1, at)]
  IN IF first.ok THEN parse[GoOn(level, first.node, first.at)] ELSE first

(* A variant that combines the expressions of a level from the right.      *)
ParseRestFromRight(parse, tokens, level, result, at) ==
  LET tok == tokens[at].tok
      second == parse[Begin(level, IF tok = "WORD" THEN at ELSE at + 1)]
  IN IF ~GoesOn(level, tok) THEN Parsed(result, at)
     ELSE IF second.ok
     THEN Parsed(OpNode(Operators[level], <<result, second.node>>), second.at)
     ELSE second

(* The loop of a level. *)
ParseRest(parse, tokens, level, result, at) ==
  LET tok == tokens[at].tok
      second == parse[Begin(level + 1, IF tok = "WORD" THEN at ELSE at + 1)]
  IN IF ~GoesOn(level, tok) THEN Parsed(result, at)
     ELSE IF second.ok
     THEN parse[GoOn(level, OpNode(Operators[level], <<result, second.node>>),
                     second.at)]
     ELSE second

(* A variant in which a prefix minus is a WITHOUT that forgets its operand.*)
ParseBaseOperandLost(parse, tokens, at) ==
  LET tok == tokens[at].tok
      inner == parse[Begin(1, at + 1)]
      operand == parse[Begin(4, at + 1)]
  IN CASE tok = "(" ->
            IF inner.ok /\ tokens[inner.at].tok = ")"
            THEN Parsed(inner.node, inner.at + 1) ELSE Rejected
       [] tok = "WORD" -> Parsed(QueryNode(tokens[at].lit), at + 1)
       [] tok \in {"WITHOUT", "NOT"} ->
            IF operand.ok
            THEN Parsed(OpNode("WITHOUT", <<>>), operand.at)
            ELSE Rejected
       [] OTHER -> Rejected

ParseBase(parse, tokens, at) ==
  LET tok == tokens[at].tok
      inner == parse[Begin(1, at + 1)]
      operand == parse[Begin(4, at + 1)]
  IN CASE tok = "(" ->
            IF inner.ok /\ tokens[inner.at].tok = ")"
            THEN Parsed(inner.node, inner.at + 1) ELSE Rejected
       [] tok = "WORD" -> Parsed(QueryNode(tokens[at].lit), at + 1)
       [] tok \in {"WITHOUT", "NOT"} ->
            IF operand.ok
            THEN Parsed(OpNode("NOT", <<operand.node>>), operand.at)
            ELSE Rejected
       [] OTHER -> Rejected

Parsing(tokens) ==
  LET parse[call \in Calls(tokens)] ==
        IF call.level > Len(Operators) THEN ParseBase(parse, tokens, call.at)
        ELSE IF call.result = <<>> THEN ParseExpr(parse, call.level, call.at)
        ELSE ParseRest(parse, tokens, call.level, Head(call.result), call.at)
  IN parse

(* Parse: the empty query asks for all posts. *)
Parse(tokens) ==
  LET top == Parsing(tokens)[Begin(1, 1)]
  IN IF tokens[1].tok = "EOF" THEN Parsed(AllQueryNode, 1)
     ELSE IF top.ok /\ tokens[top.at].tok = "EOF" THEN top ELSE Rejected
=============================================================================
