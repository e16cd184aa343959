------------------------------- MODULE Search -------------------------------
(***************************************************************************)
(* The paging of search results (actions.go, Search; restapi.go, the       *)
(* search handler; store/shuffle.go).  A client asks for the first page of *)
(* the results of a query, then for the page of the posts older than the   *)
(* last one of the page before, until a page is not full.  Between two     *)
(* requests the updater merges posts into the lists that the query reads.  *)
(*                                                                         *)
(* A search runs under the read lock from the query to its last result, so *)
(* it is one step.  The iterator of the query is the set of its hits, as   *)
(* the theorem about CombinedIterator allows.  The query is a word, or a   *)
(* word without another one: a post that is tagged with the latter is no   *)
(* hit any more.  The client is external: the service only sees requests.  *)
(***************************************************************************)
EXTENDS Integers, FiniteSetsExt, SequencesExt

CONSTANTS
  Posts,       \* the ids of the posts, as the client knows them
  PageSize     \* 120 in the code

ASSUME SearchAssumption ==
  /\ Posts \subseteq Nat \ {0} /\ IsFiniteSet(Posts)
  /\ PageSize \in Nat \ {0}

VARIABLES
  exclusion, \* does the query exclude the posts with the other word?
  word,      \* the list of the word
  excluded,  \* the list of the other word
  page,      \* the last response, newest post first
  olderThan, \* the parameter of the next request, 0 when it is not given
  shown,     \* history: the posts of all the pages so far
  stayed,    \* history: the posts that were hits all the time
  ended,     \* the last page was not full
  astray,    \* history: olderThan was no hit any more in some request
  random     \* the last response to a request for random posts

lists == <<exclusion, word, excluded>>
session == <<page, olderThan, shown, stayed, ended, astray>>
vars == <<lists, session, random>>

Hits == IF exclusion THEN word \ excluded ELSE word

TypeOK ==
  /\ exclusion \in BOOLEAN
  /\ word \in SUBSET Posts /\ excluded \in SUBSET Posts
  /\ page \in Seq(Posts) /\ Len(page) <= PageSize
  /\ olderThan \in Posts \cup {0}
  /\ shown \in SUBSET Posts /\ stayed \in SUBSET Posts
  /\ ended \in BOOLEAN /\ astray \in BOOLEAN
  /\ random \in Seq(Posts) /\ Len(random) <= PageSize

Init ==
  /\ exclusion \in BOOLEAN
  /\ word \in SUBSET Posts /\ excluded \in SUBSET Posts
  /\ page = <<>> /\ olderThan = 0
  /\ shown = {} /\ stayed = Hits /\ ended = FALSE /\ astray = FALSE
  /\ random = <<>>
-----------------------------------------------------------------------------
(* The results in the order of the iterator: the ids are negated inside.   *)
NewestFirst(S) ==
  CHOOSE order \in [1..Cardinality(S) -> S] :
    \A i, j \in DOMAIN order : i < j => order[i] > order[j]

(* A variant of the limit iterator that counts from zero. *)
FirstAndOneMore(seq, n) ==
  SubSeq(seq, 1, IF n < Len(seq) THEN n + 1 ELSE Len(seq))

(* The limit iterator. *)
FirstOf(seq, n) == SubSeq(seq, 1, IF n < Len(seq) THEN n ELSE Len(seq))

(* Two variants of the skipping: one that keeps the post it has skipped    *)
(* to, and one that limits the results before it skips.                    *)
SearchPageInclusive(S, older) ==
  FirstOf(NewestFirst({p \in S : older = 0 \/ p <= older}), PageSize)

SearchPageLimitFirst(S, older) ==
  SelectSeq(FirstOf(NewestFirst(S), PageSize), LAMBDA p : older = 0 \/ p < older)

(* Search with olderThan: it skips to the first post that is not newer,    *)
(* and one post more, which is meant to be olderThan itself.               *)
SearchPage(S, older) ==
  LET from == NewestFirst({p \in S : p <= older})
  IN FirstOf(IF older = 0 THEN NewestFirst(S)
             ELSE IF from = <<>> THEN from ELSE Tail(from), PageSize)

(* A variant that draws each post anew. *)
RandomPagesWithRepeats(S) ==
  IF S = {} THEN {<<>>}
  ELSE [1..(IF Cardinality(S) - 1 < PageSize THEN Cardinality(S) - 1
                                             ELSE PageSize) -> S]

(* Search with random=true.  The constructor shuffles the first element    *)
(* into place and moves past it; Next shuffles the next one into place and *)
(* returns that one: any order of the hits, without the first.             *)
RandomPages(S) ==
  IF S = {} THEN {<<>>}
  ELSE {FirstOf(Tail(order), PageSize) : order \in SetToSeqs(S)}
-----------------------------------------------------------------------------
(* The client goes on to the next page. *)
RequestPage ==
  LET response == SearchPage(Hits, olderThan)
  IN /\ ~ended
     /\ page' = response
     /\ shown' = shown \cup ToSet(response)
     /\ olderThan' = IF response = <<>> THEN olderThan ELSE Last(response)
     /\ ended' = (Len(response) < PageSize)
     /\ astray' = (astray \/ olderThan \notin Hits \cup {0})
     /\ UNCHANGED <<lists, stayed, random>>

RequestRandom ==
  /\ \E response \in RandomPages(Hits) : random' = response
  /\ UNCHANGED <<lists, session>>

(* The updater merges the list of a word: it gets a post. *)
MergeWord ==
  /\ \E p \in Posts \ word : word' = word \cup {p}
  /\ UNCHANGED <<exclusion, excluded, session, random>>

MergeExcluded ==
  /\ \E p \in Posts \ excluded : excluded' = excluded \cup {p}
  /\ stayed' = IF exclusion THEN stayed \ excluded' ELSE stayed
  /\ UNCHANGED <<exclusion, word, page, olderThan, shown, ended, astray, random>>

(* An administrator deletes one of the words. *)
DeleteWord ==
  /\ \/ word' = {} /\ stayed' = {} /\ UNCHANGED excluded
     \/ excluded' = {} /\ UNCHANGED <<word, stayed>>
  /\ UNCHANGED <<exclusion, page, olderThan, shown, ended, astray, random>>

Next ==
  \/ RequestPage \/ RequestRandom
  \/ MergeWord \/ MergeExcluded
  \/ DeleteWord

Spec == Init /\ [][Next]_vars
-----------------------------------------------------------------------------
(* A client that has gone through the pages has seen every post that was a *)
(* hit all the time, though lists change between the requests and Search   *)
(* drops the first post that it skips to (actions.go:169-175).  It holds   *)
(* as long as the last post of every page stays a hit: otherwise Search    *)
(* drops a post that the client has not seen.                              *)
PagesComplete == ended /\ ~astray => stayed \subseteq shown

(* Whenever the next page is asked for, it does not show a post again that *)
(* an earlier one has shown, or a newer one than the page before, or one   *)
(* twice, whatever has become of olderThan in the meantime                 *)
(* (actions.go:167-175).                                                   *)
NoPostTwice ==
  LET next == SearchPage(Hits, olderThan)
  IN olderThan # 0 =>
       \A i \in DOMAIN next :
         /\ next[i] < olderThan /\ next[i] \notin shown
         /\ \A j \in DOMAIN next : next[i] = next[j] => i = j

(* A page of random posts has only hits and none of them twice, and there  *)
(* is no page that is not full while two of them are left out (shuffle.go).*)
RandomHitsOnce ==
  [][ random' # random =>
        /\ Cardinality(ToSet(random')) = Len(random')
        /\ ToSet(random') \subseteq Hits
        /\ Len(random') < PageSize =>
             Cardinality(Hits \ ToSet(random')) <= 1 ]_vars
=============================================================================
