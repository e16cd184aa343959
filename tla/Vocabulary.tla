----------------------------- MODULE Vocabulary -----------------------------
(***************************************************************************)
(* The words of the index: which keys a post gets for its tags and for its *)
(* columns (updates.go, FetchUpdates), and which key a word of a query is  *)
(* looked up with (actions.go, Search).  Both sides go through CleanString *)
(* (main.go), the queries after the scanner has cut them into words.       *)
(*                                                                         *)
(* A text is a sequence of characters in lower case: the database and      *)
(* Search both fold the case.  A character is a string; a run of letters   *)
(* that is always used as a whole, "sfw" or "2014", counts as one.  Two    *)
(* letters stand for those beyond a-z: "u-umlaut" for the ones that are    *)
(* spelled out, "e-acute" for the ones that CleanString drops.  A key is   *)
(* the word itself: hashes (main.go, HashWord) are taken to be distinct.   *)
(***************************************************************************)
EXTENDS Integers, SequencesExt

AllWord == <<"__all">>

Symbols == {"(", ")", "&", "|", "-", "!"}
NoLetters == Symbols \cup {" ", ":", "_", "nul"}

(* The characters that are one byte long: str[1] looks at bytes.           *)
SingleByte == {"a", "b", "c", "d", "f", "m", "q", "s", "u"}

IsLetter(c) == c \notin NoLetters
-----------------------------------------------------------------------------
(* CleanString: the umlauts are spelled out, a hyphen becomes a space, and *)
(* what is neither a letter, a digit nor a space is dropped.               *)
CleanCharacter(c) ==
  CASE c = "u-umlaut" -> <<"u", "e">>
    [] c = "-" -> <<" ">>
    [] c \in (NoLetters \ {"-", " "}) \cup {"e-acute"} -> <<>>
    [] OTHER -> <<c>>

CleanString(text) ==
  FlattenSeq([i \in DOMAIN text |-> CleanCharacter(text[i])])

(* The fields of a text: its longest pieces without a space. *)
Fields(text) ==
  LET Blank(i) == i \notin DOMAIN text \/ text[i] = " "
  IN {SubSeq(text, piece[1], piece[2]) : piece \in
        {r \in (1..Len(text)) \X (1..Len(text)) :
           /\ r[1] <= r[2] /\ Blank(r[1] - 1) /\ Blank(r[2] + 1)
           /\ \A k \in r[1]..r[2] : ~Blank(k)}}

ExtractWords(text) == Fields(CleanString(text))

(* What Search looks up: the virtual tag, a label as it is, and any other  *)
(* word cleaned.  A label is what has a colon as its second byte.          *)
IsLabel(word) == Len(word) >= 2 /\ word[1] \in SingleByte /\ word[2] = ":"

(* A variant that looks up every word as it was typed.                     *)
QueryKeyAsTyped(word) == word

QueryKey(word) ==
  IF word = AllWord \/ IsLabel(word) THEN word ELSE CleanString(word)
-----------------------------------------------------------------------------
(* The labels of a post.  The flags are a set of bits, the date of the     *)
(* creation a year and a month.                                            *)
Label(kind, name) == <<kind, ":">> \o name

(* The first of the four bits decides. *)
RatingName == 1 :> "sfw" @@ 2 :> "nsfw" @@ 4 :> "nsfl" @@ 8 :> "nsfp"

Rating(flags) ==
  {RatingName[bit] : bit \in {b \in flags \cap DOMAIN RatingName :
                               \A c \in flags : b <= c}}

FlagNames(post) ==
  Rating(post.flags)
    \cup {n \in {"top", "text", "sound", "controversial"} : post[n]}

(* A variant in which every category begins one too early.                 *)
SizeCategoriesInclusive(width) ==
  CASE width >= 3800 -> {"2160p", "4k"}
    [] 3800 > width /\ width >= 1900 -> {"1080p", "hd"}
    [] 1900 > width /\ width >= 1200 -> {"720p", "hd"}
    [] 1200 > width /\ width >= 600 -> {"sd"}
    [] OTHER -> {"kartoffel"}

SizeCategories(width) ==
  CASE width > 3800 -> {"2160p", "4k"}
    [] 3800 >= width /\ width > 1900 -> {"1080p", "hd"}
    [] 1900 >= width /\ width > 1200 -> {"720p", "hd"}
    [] 1200 >= width /\ width > 600 -> {"sd"}
    [] OTHER -> {"kartoffel"}

UserMarkToString(mark) ==
  CASE mark = 6 -> {"ftb"} [] mark = 1 -> {"newfag"} [] OTHER -> {}

TwoDigits(n) == IF n < 10 THEN "0" \o ToString(n) ELSE ToString(n)

DateNames(post) ==
  {<<ToString(post.year)>>,
   <<ToString(post.year), ":", TwoDigits(post.month)>>}

(* A variant in which the bins begin at 0 and end one too early.           *)
ScoreNamesFromZero(score) ==
  {ToString(100 * bin) : bin \in 0..(score \div 100 - 1)}
    \cup (IF score < -300 THEN {"shit"} ELSE {})

(* A post is in the bin of every hundred that its score reaches.           *)
ScoreNames(score) ==
  {ToString(100 * bin) : bin \in 1..(score \div 100)}
    \cup (IF score < -300 THEN {"shit"} ELSE {})

PostLabels(post) ==
  {Label("u", CleanString(post.username))}
    \cup {Label("f", <<n>>) : n \in FlagNames(post)}
    \cup {Label("m", <<n>>) : n \in UserMarkToString(post.mark)}
    \cup {Label("q", <<n>>) : n \in SizeCategories(post.width)}
    \cup {Label("d", n) : n \in DateNames(post)}
    \cup {Label("s", <<n>>) : n \in ScoreNames(post.score)}

(* The words pushed for one tag. *)
TagWords(tag) ==
  ExtractWords(tag)
    \cup (IF tag = <<"repost">> THEN {Label("f", <<"repost">>)} ELSE {})

(* Every key under which a post is found. *)
KeysOf(post) ==
  {AllWord} \cup PostLabels(post) \cup (UNION {TagWords(t) : t \in post.tags})
=============================================================================
