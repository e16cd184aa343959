---------------------------- MODULE StoreBuilder ----------------------------
(***************************************************************************)
(* The store builder (store/store_builder.go): it collects the rows of one *)
(* batch of updates and turns them into a small index, a list of posts for *)
(* every key.  A key is the 32 bit hash of a word (main.go, HashWord), so  *)
(* two words may share a key.  The key 0 also holds the virtual tag        *)
(* "__all", which the query engine uses as the list of every post.         *)
(*                                                                         *)
(* A row is what the updater pushes for one row of the database: the post  *)
(* and the set of the keys of its words.  A list is a set of posts: Build  *)
(* sorts and deduplicates it, and every list of the main store is sorted.  *)
(***************************************************************************)
EXTENDS Integers, Sequences

CONSTANTS
  Posts,    \* the identifiers of the posts
  Keys,     \* the hashes of the words in use, and 0
  AllKey    \* the key of the virtual tag "__all"

ASSUME KeysAssumption == Keys \subseteq Nat /\ AllKey = 0 /\ AllKey \in Keys

Row == [item : Posts, keys : SUBSET Keys]

Index == [Keys -> SUBSET Posts]

EmptyIndex == [k \in Keys |-> {}]

(* The posts that the rows push under a key. *)
Pushed(rows, k) ==
  {rows[i].item : i \in {n \in DOMAIN rows : k \in rows[n].keys}}

(* Push looks up the key before it adds the post: the key is "known" when  *)
(* an earlier row of the batch has pushed it, for whatever post.           *)
IsFirstPush(rows, i, k) ==
  /\ k \in rows[i].keys
  /\ \A h \in DOMAIN rows : h < i => k \notin rows[h].keys

(* The posts that Push adds to the virtual tag. *)
PushedToAll(rows) ==
  {rows[i].item : i \in {n \in DOMAIN rows :
                           \E k \in rows[n].keys : IsFirstPush(rows, n, k)}}

(* A variant of Build that files each post under its neighbour's keys.     *)
BuildOffByOne(rows) ==
  [k \in Keys |->
     {rows[i].item : i \in {n \in DOMAIN rows :
        \/ n = 1 /\ k \in rows[n].keys
        \/ n > 1 /\ k \in rows[n - 1].keys}}]

(* The index that Build returns. *)
Build(rows) ==
  [k \in Keys |-> Pushed(rows, k)
                    \cup (IF k = AllKey THEN PushedToAll(rows) ELSE {})]
=============================================================================
