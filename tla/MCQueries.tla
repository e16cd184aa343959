----------------------------- MODULE MCQueries ------------------------------
(* Every short text, every tree of two levels, ratings, tags and labels.   *)
EXTENDS QueryEngine

Alphabet ==
  {"a", "b", " ", "-", "|", "&", "(", ")", "!", ":", "_", "nul", "u-umlaut",
   "e-acute", "and", "or", "minus", "without", "not"}

ShortTexts == SeqOf(Alphabet, 3)

(* Trees over three words, with parentheses around every operator.         *)
Joined(left, right) ==
  {<<"(">> \o l \o <<o>> \o r \o <<")">> :
     l \in left, r \in right, o \in {"&", "|", "-"}}
Negated(operands) == {<<"!">> \o x : x \in operands}

Words == {<<"a">>, <<"b">>, <<"c">>}
OneLevel(words) == words \cup Joined(words, words) \cup Negated(words)
TwoLevels ==
  Joined(OneLevel({<<"a">>, <<"b">>}),
         OneLevel({<<"a">>, <<"b">>}) \cup OneLevel({<<"b">>, <<"c">>}))
ThreeLevels ==
  LET two == Joined(Joined(Words, Words), {<<"a">>, <<"b">>})
      not == Negated(Joined({<<"a">>}, {<<"a">>, <<"b">>}))
  IN Joined(two, {<<"a">>}) \cup Joined(Negated({<<"a">>}), two)
       \cup Joined(not, Joined(not, {<<"b">>}))
TreeTexts == TwoLevels \cup ThreeLevels

(* Three ratings in every order, alone, excluded, or with a word.          *)
Ratings == {"sfw", "nsfw", "nsfl", "nsfp"}
RatingTexts ==
  {before \o <<"(", "f", ":", x, "|", "f", ":", y, "|", "f", ":", z, ")">> :
     before \in {<<>>, <<"-">>, <<"a", "&">>, <<"a", "-">>, <<"a", "|">>},
     x \in Ratings, y \in Ratings, z \in Ratings}

Tags == SeqOf({"a", "b", " ", ":", "u-umlaut", "e-acute"}, 4)

(* A WITHOUT that loses all of its children, with and without another term *)
(* behind the one that takes them, and a term that only comes to look like *)
(* its exclusion when the children of both are rewritten.                  *)
Emptied ==
  <<"(", "a", " ", "a", ")", "|",
    "(", "(", "a", " ", "a", ")", "-", "(", "a", " ", "a", " ", "a", ")", ")">>

DroppedTexts ==
  {Emptied, Emptied \o <<"|", "(", "c", " ", "c", ")">>,
   <<"(", "c", "&", "(", "b", "-", "(", "100", "&",
     "(", "(", "a", "&", "b", ")", "-", "a", ")", ")", ")", ")", "|",
     "(", "a", "-", "(", "c", "&", "(", "b", "-", "(", "100", "&",
     "(", "a", "-", "a", ")", ")", ")", ")", ")">>}

QueryTexts ==
  ShortTexts \cup TreeTexts \cup RatingTexts \cup Tags \cup DroppedTexts
    \cup DOMAIN Documented \cup {NeverPushed}

Order == <<" ", "!", "&", "(", ")", "-", "04", "100", "1080p", "200", "2014",
  "300", "480p", "4k", ":", "__all", "__empty", "a", "and", "b", "c",
  "controversial", "d", "e", "f", "ftb", "hd", "kartoffel", "m", "minus",
  "newfag", "not", "nsfl", "nsfp", "nsfw", "or", "q", "repost", "s", "sd", "sfw",
  "shit", "sound", "text", "top", "u", "without", "|", "u-umlaut", "e-acute",
  "nul", "_">>

Plain ==
  [username |-> <<"c">>, flags |-> {1}, top |-> FALSE, text |-> FALSE,
   sound |-> FALSE, controversial |-> FALSE, mark |-> 0, width |-> 601,
   year |-> 2014, month |-> 4, score |-> 0, tags |-> {}]

(* Every set of words, and every rating with and without a word.           *)
WordPosts ==
  {[Plain EXCEPT !.tags = words] : words \in SUBSET Words}
    \cup {[Plain EXCEPT !.flags = {bit}, !.tags = words] :
            bit \in {2, 4, 8}, words \in SUBSET {<<"a">>}}

(* Both sides of every boundary of the scores and of the widths.           *)
Scores == <<-301, -300, -100, 99, 100, 199, 200, 299, 300>>
Widths == <<1, 600, 601, 1200, 1201, 1900, 1901, 3800, 3801>>

LabelPosts ==
  {[Plain EXCEPT !.score = Scores[i], !.width = Widths[i]] : i \in DOMAIN Scores}
    \cup {[Plain EXCEPT !.mark = m, !.month = 4 + m] : m \in {1, 6}}
    \cup {[Plain EXCEPT !.year = 2015, !.username = <<"a">>],
          [Plain EXCEPT !.top = TRUE, !.flags = {1, 8}],
          [Plain EXCEPT !.text = TRUE, !.flags = {2, 4}],
          [Plain EXCEPT !.sound = TRUE, !.controversial = TRUE],
          [Plain EXCEPT !.tags = {<<"repost">>}],
          [Plain EXCEPT !.tags = {<<"a", " ", "repost">>}]}

AllPosts == WordPosts \cup LabelPosts
=============================================================================
