---------------------------- MODULE TagDatabase -----------------------------
(***************************************************************************)
(* The Postgres database that the service follows, and the two queries the *)
(* updater sends to it (updates.go, queryItems and queryTags).             *)
(*                                                                         *)
(* The database is not part of the repository.  It is modelled from the    *)
(* columns the queries select: a post has the time of its last update and  *)
(* the keys of the labels that the updater derives from its columns; a row *)
(* of the table tags has a post and the keys of the words of the tag.  The *)
(* label that is derived for a column is abstracted to its key.            *)
(*                                                                         *)
(* Two assumptions, which the cursors of the updater need: rows of tags    *)
(* become visible in the order of their ids, and an update of a post never *)
(* becomes visible with a time before that of one already visible.         *)
(***************************************************************************)
EXTENDS StoreBuilder, FiniteSets

CONSTANTS
  PostKeySets,  \* the sets of keys that a post's columns may lead to
  TagKeySets,   \* the sets of keys that a tag may lead to
  MaxTime,      \* bound: the last time at which a post is updated
  MaxTags,      \* bound: the number of rows of the table tags
  MaxTies,      \* how many posts may share one time of update
  ItemLimit,    \* LIMIT of queryItems, 10000 in the code
  TagLimit      \* LIMIT of queryTags, 50000 in the code

ASSUME DatabaseAssumption ==
  /\ PostKeySets \subseteq SUBSET Keys
  /\ TagKeySets \subseteq SUBSET Keys
  /\ MaxTime \in Nat /\ MaxTags \in Nat /\ MaxTies \in Nat
  /\ ItemLimit \in Nat \ {0} /\ TagLimit \in Nat \ {0, 1}

VARIABLES
  items,   \* items[p]: the row of post p, updated = 0 while there is none
  tags,    \* the rows of the table tags; the index is the id
  now,     \* the time of the latest update of a post
  facts    \* history: every <<key, post>> that a row has ever stated

dbVars == <<items, tags, now, facts>>

DBTypeOK ==
  /\ items \in [Posts -> [updated : Nat, keys : SUBSET Keys]]
  /\ tags \in Seq(Row)
  /\ now \in Nat
  /\ facts \subseteq Keys \X Posts

DBInit ==
  /\ items = [p \in Posts |-> [updated |-> 0, keys |-> {}]]
  /\ tags = <<>>
  /\ now = 0
  /\ facts = {}

(* What a row with these keys says of a post.  A post with a word is also  *)
(* one of the posts of the virtual tag.                                    *)
Stated(p, ks) == {<<k, p>> : k \in IF ks = {} THEN {} ELSE ks \cup {AllKey}}

(* A post is uploaded, or its row changes: its score, its flags...         *)
SavePost(p, ks, t) ==
  /\ t \in {now, now + 1} /\ t <= MaxTime /\ t > items[p].updated
  /\ Cardinality({q \in Posts : items[q].updated = t}) < MaxTies
  /\ items' = [items EXCEPT ![p] = [updated |-> t, keys |-> ks]]
  /\ now' = t
  /\ facts' = facts \cup Stated(p, ks)
  /\ UNCHANGED tags

(* A user tags a post. *)
AddTag(p, ks) ==
  /\ Len(tags) < MaxTags
  /\ tags' = Append(tags, [item |-> p, keys |-> ks])
  /\ facts' = facts \cup Stated(p, ks)
  /\ UNCHANGED <<items, now>>

DBNext ==
  \/ \E p \in Posts, ks \in PostKeySets, t \in 1..MaxTime : SavePost(p, ks, t)
  \/ \E p \in Posts, ks \in TagKeySets : AddTag(p, ks)
-----------------------------------------------------------------------------
(* WHERE items.updated >= $1 *)
ItemMatchesAfter(p, c) == items[p].updated > 0 /\ items[p].updated > c

ItemMatches(p, c) == items[p].updated > 0 /\ items[p].updated >= c

(* ORDER BY items.updated ASC; the order of ties is left open.             *)
AnyOrder(page) == TRUE

Ascending(page) ==
  \A i, h \in DOMAIN page :
    i < h => items[page[i]].updated <= items[page[h]].updated

(* The answers of queryItems for the cursor c. *)
IsItemPage(page, c) ==
  /\ \A i \in DOMAIN page : ItemMatches(page[i], c)
  /\ \A i, h \in DOMAIN page : i # h => page[i] # page[h]
  /\ Ascending(page)
  /\ \A p \in Posts :
       ItemMatches(p, c) /\ (\A i \in DOMAIN page : page[i] # p) =>
         /\ Len(page) = ItemLimit
         /\ items[page[Len(page)]].updated <= items[p].updated

ItemPages(c) ==
  {page \in UNION {[1..n -> Posts] : n \in 0..ItemLimit} : IsItemPage(page, c)}

(* WHERE id >= $1 ORDER BY id ASC LIMIT $2: the ids from FirstTag(c) to    *)
(* LastTag(c).                                                             *)
FirstTag(c) == IF c = 0 THEN 1 ELSE c

LastTag(c) ==
  IF Len(tags) < FirstTag(c) + TagLimit THEN Len(tags)
                                        ELSE FirstTag(c) + TagLimit - 1

TagPage(c) == SubSeq(tags, FirstTag(c), LastTag(c))
=============================================================================
