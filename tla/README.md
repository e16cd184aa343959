# A verification project for pr0gramm-tags

pr0gramm-tags is a search service for the tags of posts. It keeps an inverted
index in memory (for every word the sorted list of the posts that have it),
follows a Postgres database to keep the index up to date, writes checkpoints of
the index to a file, and answers queries such as `webm - sound` with pages of
posts. This project models the service in TLA+, checks small instances of the
models with TLC, and proves theorems about them, for all instances, with TLAPS.

## 1. The system

| Component | Source | State | Operations |
|---|---|---|---|
| Updater | `updates.go`, `actions.go:38-113`, `main.go:55-63,133-157` | two cursors (`StoreState`), the guard of `updateJob`, `updateLock` | `updateJob` (started by main and by cron every 15 s), `UpdateOnce`, `FetchUpdates`, the merge |
| Store builder | `store/store_builder.go` | the lists of one batch | `Push`, `Build` |
| Store | `store/iter_store.go`, `byte_store.go`, `codecs.go`, C++ `map.cpp`, `sequence.cpp` | sorted vectors of keys and byte sequences | `GetIterator`, `Replace`, `PushInt`, `Keys` |
| Checkpoints | `store/checkpoint.go`, `actions.go:115-128`, `main.go:90-104` | a file | write (cron every 6 h, HTTP), read at the start |
| Locks | `actions.go:15-36` | a `sync.RWMutex` | read: search, checkpoint, state; write: replacing a list, the state |
| Administration | `restapi.go:53-100` | none | write-checkpoint, rebuild-items, rebuild-tags, parse, config, DELETE tag |
| Iterators | `store/iterators.go`, `int24.go`, `int32.go` | a position in each list of a query | `HasMore`, `Peek`, `Next`, `SkipUntil`, `ToSlice` |
| Search | `actions.go:130-186`, `store/shuffle.go`, `restapi.go:17-40` | none | a page of hits older than a post, a page of random hits |
| Query language | `parser/*.go` | a tree | scan, parse, optimize, make an iterator |
| Database | Postgres, not in the repository | items, tags | two queries with a cursor and a LIMIT |

How they interact. A job reads the two cursors under the read lock, asks the
database for one page of posts and one page of tags from the cursors on, pushes
the rows into a builder, and merges what it builds into the store. The merge
takes `updateLock`, goes through the keys in ascending order, reads the list of
a key *without a lock*, and replaces it under the write lock; at the end it
saves the new cursors, under the write lock again. A checkpoint holds the read
lock while it writes the cursors and all lists to a temporary file, and renames
it. A search holds the read lock from the query to the last hit. An
administrator may put a cursor back to the start, or delete words, under the
write lock.

What is hard in it: jobs, checkpoints, searches and administrators interleave
between the sections under locks; queries fail one at a time; the process dies
at any moment and starts with the file; posts with equal times lie across the
end of a page; the iterators have a protocol that no type expresses; a client
goes through pages of a result that changes between them.

What makes each part correct:

* updater: the cursors never run ahead of the lists, so no row is skipped for
  good; no list loses a post; one job at a time; a job ends; when the database
  rests, everything gets into the store;
* store builder: every row under its keys and nothing else, every post in the
  virtual tag;
* checkpoints: a file is the state of one moment, and whoever starts with it
  misses nothing;
* store: the bytes of a list are the posts that were meant for it, and nobody
  reads bytes that were freed;
* iterators: a combination of iterators is an iterator over the intersection,
  the union or the difference, and each call returns;
* search: no post twice, no post missed;
* query language: the parser follows the documented grammar, the optimizer
  changes no answer, and a query is cut into the words that a tag was cut into.

The hazards are listed at their lines in `PROJECT.json`.

## 2. The modules

| Module | Models | Kind |
|---|---|---|
| `StoreBuilder` | rows, indexes, `Push` and `Build` | operators |
| `TagDatabase` | the database (external) and the answers of the two queries | state machine |
| `StoreActions` | the service: jobs, merge, checkpoints, administration, crashes | state machine, extends `TagDatabase` |
| `TagIndex` | what the service promises of its index | abstract specification |
| `StoreActionsProofs` | types, mutual exclusion, snapshots; cursors and lists only grow; the index is sound and lacks nothing; `StoreActions` implements `TagIndex`, and what that comes to | proofs |
| `ItemIterator` | what an iterator promises | abstract specification |
| `CombinedIterator` | `andIterator`, `orIterator`, `diffIterator` | state machine, implements `ItemIterator` |
| `CombinedIteratorProofs` | the refinement and its invariant | proofs |
| `ListIterator` | the iterators of slices and of the three codecs | state machine, implements `ItemIterator` |
| `ListIteratorProofs` | nothing is lost, and the refinement | proofs, over `CodecsProofs` |
| `Search` | pages of results, random pages | state machine |
| `SearchProofs` | every page is right, for any number of posts | proofs |
| `Codecs` | the bytes of a list: 24 bits, 32 bits, varints | operators |
| `CodecsProofs` | which numbers survive their bytes, and where they are in a list | proofs |
| `IterStore` | the store down to its bytes, with the builder and the merge | state machine, over `StoreBuilder` and `Codecs` |
| `IterStoreProofs` | the bytes of the builder and of the store are the lists that were meant | proofs, over `CodecsProofs` |
| `Vocabulary` | the keys of a post, the key of a word of a query | operators |
| `QueryTree` | nodes, their order, sorting and deduplication, what their iterators find | operators |
| `Parser` | scanner and parser, as recursive functions over positions | operators |
| `Optimizer` | the eight rules, the walk through a tree, where a rule panics | operators |
| `OptimizerPasses` | the passes of the rules over any tree, and what a tree stands for | state machine |
| `OptimizerProofs` | the rules keep trees, first children and hits | proofs |
| `QueryEngine` | a query from its text to its hits | state machine, composes the modules from `Vocabulary` on, implements `OptimizerPasses` |
| `QueryEngineProofs` | the parser follows the grammar, the engine implements the passes | proofs, over `OptimizerProofs` |
| `MC...` | the values of the constants for TLC | instances |

### StoreActions

A variable per piece of state of the program:

| Variable | In the code |
|---|---|
| `items`, `tags`, `now` | the rows of the database (external) |
| `index`, `storeState` | `sa.store`, `sa.storeState` |
| `file`, `unsynced` | the checkpoint file; whether it has reached the disk |
| `guard`, `updateLock` | the guard of `preventConcurrency`, `sa.updateLock` |
| `pc`, `next`, `rows`, `updates`, `more`, `vals` | per job: where it is, its copy of the state, the rows pushed, the built index, `expectMore`, `storeValues` |
| `writing`, `buf`, `left` | per checkpointer: holds the read lock, its temporary file, the keys to write |
| `facts`, `dropped`, `misread` | history: what rows have ever said, what was deleted, whether a freed list was read |
| `faults`, `requests` | counters that bound the faults and the administrator's requests |

A job goes through `idle -> state -> items -> tags -> lock -> merge`, and for
every key `merge -> view -> merge` or `merge -> view -> write -> merge`. Each
step is what its goroutine does between two points where others can interfere.
The view is a step of its own because `GetIterator` returns the bytes of the
list (`byte_store.go:94`) and they are read after it, without a lock: a deletion
in between moves the job to `dangling`, where it may read any list or panic. The
`RWMutex` is not a variable: a section under the write lock is one step, enabled
when no checkpointer is writing; the short sections under the read lock are one
step as well.

A key is a hash; `AllKey` = 0 is the key of the virtual tag. A row is a post and
the set of keys of its words, which abstracts the names of labels. A list is a
set of posts. Times are numbers that the database gives out in order.

Failures: each of the two queries may fail (`QueryItemsFails`,
`QueryTagsFails`), Build panics when no word was pushed (`BuildPanics`, because
`Keys` of an empty store panics), writing the file may fail (`CkptFails`), the
process may crash (`CrashRestart`), and with `TornFiles` a power failure may
leave a part of a renamed file, or none (`PowerFailure`).

### TagIndex

A fact is a pair of a key and a post. `TagIndex` knows nothing of goroutines,
lists or files: the database states facts (`Say`), the index learns them
(`Learn`), counts rows as done, which means that it will not ask for them again
(`Acknowledge`), forgets what an administrator deletes (`Forget`), puts a cursor
back (`StartOver`), saves itself (`Save`) and starts again with what it has saved,
with nothing, or, after a power failure, with a part of what it knew
(`Restore`). `StoreActions` maps its variables to these: `known` are the pairs
that the lists make (`FactsOf(index)`), `done` is what the rows before the cursors
say (`FactsBefore(storeState)`), `saved` the same of the file. Most steps of the
service are stutters of `TagIndex`; what is hard is that the others are single
steps of it: a commit may acknowledge only what is known, though the rows were
read long before, and a rename saves one moment, though the file was written key
by key.

### Iterators

`ItemIterator` is the contract: a set `rest` of posts to come; after `HasMore`
has said yes, `Peek` shows the least and `Next` takes it; `SkipUntil` drops the
posts before its argument. `CombinedIterator` has two children, each one of them
the set of what it has still to give, that is, an iterator that keeps the
contract. The passes of the loops of `HasMore` are steps. Since a combination
keeps the contract when its children do, a whole tree of them does, of whatever
depth: the constructors for more than two iterators only nest them
(`iterators.go:235, 293, 379`). `ListIterator` is the bottom of the tree: the
iterator of one list over the bytes that the codec has written, where the codecs
differ in whether they decode the next element in advance.

### Bytes

`Codecs` has the arithmetic: three bytes with a sign, four bytes as they lie in
the memory of the machine, varints of differences in groups of seven bits (the
encoder is a library, hence external) with the decoder's own limit at the fifth
byte. `IterStore` uses it for the store of a batch and the store of the service:
a map from keys to sequences, a sequence being bytes that are kept in the object
(`inline`) or on the heap with a capacity. `Push`, `BuildLists`, `MergeKey` and
`Delete` are the code down to the bytes; the history variables `rows` and
`index` say what is meant. The two panics on lists that are too long are there:
`Get` refuses more than 2^24 bytes (`MergePanics`), and `Encode` of int32 panics
after the old list was cleared (`EncodePanics`), which leaves the byte of the
codec. `StoreActions` has sets of posts in the place of these bytes; the
properties of `IterStore` say when that is right.

### Queries

A text is a sequence of characters, where a run of letters that is always used
as a whole counts as one character (`sfw`, `2014`, `and`), and two characters
stand for the letters beyond a-z: those that `CleanString` spells out and those
that it drops. `Vocabulary` has both ways to a key: `KeysOf` what is pushed for a
post, `QueryKey` what is looked up for a word.

`Parser` is two recursive functions. `Tokens` goes through the text position by
position (`Scan`); the parser goes through the tokens call by call (`Parsing`). A call
begins on a level of precedence at a token, or goes on there in the loop of its level
with the tree that it has so far (`Calls`); `ParseExpr`, `ParseRest` and `ParseBase`
are the beginning of a level, one round of its loop, and `parseBaseExpr`. The scanner
reads one token ahead of the parser, but nothing else reads the text, so the tokens
are scanned first.

`QueryTree` has the trees: `Trees` are those of any height in `Heights`, where a
word has no children and a NOT has one. What goes down a tree, such as `LessThan`,
`Finds` or the walk of a rule, is a recursive function over them. TLC is given one
height that none of the queries reaches; the theorems take any height.

`OptimizerPasses` has the loop of `Optimize`: every application of a rule to the
whole tree is a step, and the tree it starts with may be any. The rules take for
granted that a WITHOUT has a first child, which not every tree that they make
keeps: when two of them do not find it, the query ends with the panic that
`withRecovery` catches (`OptimizerPanics`). `Meaning` is what a tree stands for.

`QueryEngine` is one query, through the stages `text -> parsed -> (rules ->
optimized) -> done`. Whether the optimizer is on is left open, as admin/config may
switch it between two queries. Its steps are those of `OptimizerPasses`, with the
tree that the parser has made. What a tree finds is a set of posts (`Finds`):
iterators combine sets, which is what `CombinedIterator` shows. The node pointers
of the code are values in the model; the only comparison of pointers
(`optimize.go:157`) is with a node that no query can spell.

### Search

`Search` has the two lists of a query `word` or `word - excluded`, which grow and
are deleted between requests, and a client that asks for the first page and then
for what is older than the last post of the page before, until a page is not
full. One search is one step, as it runs under the read lock. The lists grow one
post at a time, because a batch between two requests is the same as several
single posts.

## 3. What is checked

| Run | Question | Result |
|---|---|---|
| `follow` | 2 jobs, a checkpointer, 2 posts updated at up to 2 times, a tag, one failed query, failed write, crash or torn file | `CursorCovered`, `CheckpointCovered`, `IndexSound`, `OneUpdateAtATime`, `ListsGrow`, `CheckpointIsSnapshot`, `CursorsAdvance`, `KeepsPromise` hold |
| `admin` | a job, a checkpointer, a request that deletes a word or resets a cursor, one fault | `TypeOK`, `ListsGrow`, `KeepsPromise` hold |
| `live` | a job under fairness, 2 posts with one time, 2 tags, pages of 3 posts and 2 tags, one fault | `EventuallyComplete`, `JobsEnd` hold |
| `combined` | every and, or, diff of two lists over 4 posts, every order of calls | `TypeOK`, `StandsOnHit`, `Implements`, `CallsReturn` hold |
| `lists` | every list over 5 posts as a slice, as varints and as int24, every order of calls | `NothingLost`, `Implements` hold |
| `store` | batches of 2 rows over 4 posts and 3 keys, merged and deleted, with tiny limits | `TypeOK`, `BatchIsBuild`, `StoreIsIndex` hold |
| `queries` | all texts of up to 3 characters, tags, ratings, special words, trees of up to 3 levels | `TypeOK`, `FirstChildrenAreThere`, `ParserMatchesGrammar`, `RulesKeepHits`, `Optimizes`, `Converges`, `TagFound`, `SpecialWordsFind` hold |
| `pages` | 4 posts, pages of 2, with or without an exclusion | `TypeOK`, `PagesComplete`, `NoPostTwice`, `RandomHitsOnce` hold |
| `all_posts` | two posts with the same words in one batch | `AllHasEveryPost` is violated |
| `ties` | 3 posts, of which 2 may have one time, and pages of 2 | `EventuallyComplete` is violated |
| `large_lists` | the int32 iterator | `NothingLost` is violated |
| `terms` | the queries of `queries` | `SameHits` is violated |

What the properties mean:

* `CursorCovered`: every row before a cursor is in the lists, unless it was
  deleted or lost with the end of a torn file. A
  post with the very time of the cursor is not before it, since the query asks
  with `>=`. It takes a crash, a failed query, a panic or a rebuild in the wrong
  place to break it; it holds because the state is saved last
  (`actions.go:100`) and the failed query leaves its cursor alone.
* `CheckpointCovered`: the same of the file at every moment.
* `CheckpointIsSnapshot`: what a rename installs is the state of one moment,
  though it was written key by key. `ListsGrow`: no merge loses a post that
  another step has added between its read and its replacement.
* `IndexSound`: a post is in a list only when a row has said so.
* `KeepsPromise`: all of this at once, and what may happen in between. The service
  refines `TagIndex`, so a step that changes what is known or done is one of the
  seven kinds above. A deletion forgets exactly what it says, a restart restores
  exactly what was saved. `TagIndex` promises nothing after a freed list was read.
* `EventuallyComplete` and `JobsEnd`: see the fairness below.
* `Implements` (twice): the iterators refine `ItemIterator`. `NothingLost`: what
  was given and what is still in the bytes are together what was encoded.
* `BatchIsBuild`: the bytes that `Build` leaves are the lists of the abstract
  builder, ascending, whatever was pushed in which order. `StoreIsIndex`: the
  same of the store through any history of merges and deletions; and exactly
  when a list has too many posts it cannot be read any more.
* `ParserMatchesGrammar`: the parser accepts a text when the grammar of the README
  derives it, and returns the one tree that it derives. The reference definition
  (`Derived`) tries all ways to split a sequence of tokens and has no look-ahead.
* `FirstChildrenAreThere`: a WITHOUT has a first child whenever a rule looks at it,
  but for the first rule of a pass and the last but one, which may panic.
  `Optimizes`: the engine implements `OptimizerPasses`, so the trees that the parser
  makes and everything that becomes of them are among those of the theorems.
* `RulesKeepHits`: no application of a rule changes what the tree stands for,
  except the removal of a term next to its own exclusion (`DropsTerm`, exactly the
  walks in which that removal happens). `Converges`: the passes
  end before their limit, at a tree whose iterators find what it stands for.
  `SameHits` is the same question for the whole optimizer without the exception.
* `TagFound`: who types a tag finds the posts that have it. `SpecialWordsFind`:
  the special words of README.md:31-45 find the posts that it says, on both sides of
  every boundary of the sizes and of the scores up to 300. All flags, ratings,
  marks and qualities are among them, and some scores, dates and names. The README does not say
  how wide a quality is: the widths are those of `updates.go:80`. `q:480p`, which it
  names and the code never pushes, is the exception: the property says that it finds nothing.
* `PagesComplete`: a client that has scrolled to the end has seen every post
  that was a hit all the time, provided that the last post of each page was
  still a hit when the next page was asked for.

Every property of a passing run is broken by a variant of a definition in which
a plausible mistake was made (the operators with comments "a variant ..."): for
example `>` instead of `>=` in the query, saving the cursors before the merge,
replacing a list by the update alone, merging without the write lock.

### Bounds, and why they are enough

* Two posts, three keys (the virtual tag, a label of posts, a word of tags) let
  a batch share keys, let a merge have several keys, and let a list grow twice.
* Two times and at most two posts per time give ties, a cursor in the middle of a
  tie, and an update of a post that was already fetched.
* `ItemLimit` 2 and `TagLimit` 2 (10000 and 50000 in the code) make full pages,
  so `expectMore` becomes true. `TagLimit` = 1 is excluded by an assumption: the
  query asks for the last id again, and a page of one row would never go on.
* Two jobs are what the guard must keep apart, one job is enough where it is
  proved that there is never a second one (`MutualExclusion`). One checkpointer
  is enough, as `SnapshotTheorem` is proved for any number.
* One fault (with a request in `admin`, with torn files in `follow`) at any
  moment: the interesting faults are single ones in an unexpected place. `faults`
  and `requests` are also what the action properties use to exempt a restart. What
  several of them do together is proved.
* `live` has pages of three posts, because with the limit of the posts that share
  a time equal to the page the code does not terminate: see `ties`.
* `lists`: the five ids are at the limits of 24 bits, of one, two and three bytes
  of a varint, and of a byte of an int24.
* `store`: `InlineBytes` 1, `LargeCount` 1 and `MaxBytes` 12 stand for 15, 100000
  and 2^24. A sequence is in the object, moves to the heap and grows there; a list
  of one post is a varint list, two posts make an int32 list, three one that is a
  byte too long to be read, four one that cannot be encoded. The relations between
  the limits that the code relies on are the assumption `BoundsAssumption`.
* `queries`: three characters make every pair of neighbours that the scanner can
  meet, and every operator in every place of a small query; the trees have three
  words, so that rules meet duplicates, nested operators of the same type, and
  exclusions on both sides. `DroppedTexts` are longer queries that are needed to
  see both panics, and a term that only comes to look like its exclusion when the
  children of both are rewritten. The posts have every set of the three words, every
  rating, two ratings at a time, and scores and widths on both sides of each boundary
  (`Scores`, `Widths`). `MaxPasses` is 16, as
  in the code; `Heights` is 8, more than any tree of these queries has, so that
  `Trees` bounds nothing; sorting is modelled for nodes of up to 12 children, where
  `sort.Sort` is an insertion sort.
* Four posts for the combined iterators and the pages: two lists with all relations
  between three neighbours, and results of two full pages.
* In `follow` the posts and jobs are symmetric; the runs with liveness use no
  symmetry.

### Fairness

`FairSpec` is used only by `live` and `ties`. Cron starts a job every 15
seconds and goroutines run: weak fairness of each step of a job and of the
writing of a checkpoint. A job that waits for the write lock gets it although
checkpoints come again and again: a waiting writer of a `sync.RWMutex` keeps new
readers out, hence strong fairness of `MergeWrite` and `Commit`. The database,
administrators, faults and new checkpoints are not fair: they may stop.
`CombinedIterator` has weak fairness of the steps of a call that is at work.

## 4. What is proved

`StoreActionsProofs`, for every set of posts, keys, jobs, checkpointers and
every bound, from the assumptions named in the modules:

* `TypeCorrect`: `Spec => []TypeOK`. The strengthening is `HasKeyToMerge`: a job
  that views or writes a list has a key to merge, without which the least key
  would be no key.
* `MutualExclusion`: `Spec => []OneUpdateAtATime`. Inductive with the guard: it
  is open only when all jobs are idle (`Exclusive`).
* `SnapshotTheorem`: `Spec => CheckpointIsSnapshot`. The inductive invariant
  `FaithfulBuffers` says that while a checkpoint is written the store does not
  change, what is written equals what is stored, and what is not written yet is
  among the keys left.

The rest of this module has one inductive invariant, which grows:

* `CursorsAdvanceTheorem`: `Spec => CursorsAdvance`. A commit overwrites the
  cursors with those that its job has read some time ago, so it needs
  `CursorsKept` (between the read of the state and the commit the cursors do not
  move forward, as there is one job at a time; a rebuild may move them back),
  `NoCursorAhead` (no cursor is beyond the rows of the database, so a page never
  moves one back) and `Batches` (rows and updates are empty where a job has none).
  With the invariants of the first module they make up `Kept`.
* `ListsGrowTheorem`: `Spec => ListsGrow`, with `ValuesFresh`: until a job writes a
  list, the list has nothing that the job has not read.
* `IndexSoundTheorem`: `Spec => []IndexSound`. `Sound` follows a fact on its way: it
  was stated when it is in the database, in the rows of a job, in its updates, in
  the values it has read, in a list, or in the file.
* `CursorCoveredTheorem` and `CheckpointCoveredTheorem`. `Tracked` says of each pair
  of cursors, that of the store, of the file and of every job, where the facts
  before it are: in the lists, dropped, or, for a job, among its rows or in its
  updates. The lemmas `ItemsBefore` and `TagsBefore` are what the two queries owe to
  this: a page brings everything between the old cursor and the new one, ties
  included. `BeforeDatabase` says that what the database does is after every cursor,
  which is where the assumption about times and ids of section 6 is used.
* `PromiseKept`: `Spec => KeepsPromise`, the refinement, from all of them
  (`Trusted`): one lemma for each action of `TagIndex`, and `Stutter` for the rest.
* `HonestIndex`: `Spec => []Promise!Honest`, for the service itself: what it counts as
  done it knows, now and after a restart, unless that was deleted or lost, and what it
  knows was stated. It needs nothing but the refinement and `HonestStep`, one step of
  `TagIndex`.

`CombinedIteratorProofs`, for every set of ids that has a smallest number (ids
are `int32`):

* `TypeCorrect`, and `PeekIsAHit`: `Spec => []StandsOnHit`. Inductive: when
  HasMore has said yes, the children still show the hit (`AskedAndUnmoved`).
* `Refinement`: `Spec => Abstract!IteratorSpec`. Every pass of a loop leaves the
  combination as it is, every other step is a step of the contract. The lemmas
  are `HitIsLeast`, `EndIsEmpty`, `PassKeeps` and `MoveTakes`; the least element
  of a set of integers comes from the well-foundedness of the naturals.

`CodecsProofs`, for all numbers and all lists:

* `Int24RoundTrip`: a number comes back from its three bytes when and only when it
  fits, so an id above 8388608 becomes another post. `Int32RoundTrip`: every int32
  comes back from its four.
* `VarintRoundTrip`: what `PutVarint` wrote is read back by `fastVarint32`, with the
  number of its bytes and whatever follows it in the list, when and only when it is
  within 2^28. Differences of ids of 24 bits are.
* `ListRoundTrip`: every list of ids of 24 bits comes back from its bytes, whichever
  codec wrote them, and a number takes three, at most five or four bytes.
* `ThreesWritten`, `FoursWritten` and `VarintLayout` say where the numbers of a
  whole list are in its bytes. They rest on `FlattenProperties`, what a concatenation of pieces is made of.
  Induction is done over sets of numbers: `LeastNat` is an instance of the
  well-foundedness of the naturals that needs no operator parameter, and
  `NatByInduction` follows from it. That a recursive function exists
  (`FlatteningExists`) and that a set has an ascending order (`AscendingExists`) are
  such inductions as well.

`ListIteratorProofs`, for every set of ids of 24 bits, as long as the iterator is
not that of the large lists (`"int32" \notin Codecs`): with it `NothingLost` is
false, the `large_lists` run shows it.

* `NothingIsLost`: `Spec => []NothingLost`, and `IteratorsImplement`: `Spec =>
  Implements`, the refinement of `ItemIterator`.
* The inductive invariant `CursorInv` says where an iterator stands that has given m
  elements (`Given`): a slice at m, int24 at byte 3m with the next element decoded,
  varint behind the element m + 1, which it has decoded, at the end of its bytes. A
  HasMore that has said yes stays true until the iterator moves (`CallOK`).
  `AdvanceGives` is the step from m to m + 1, the only place where bytes are read.

`IterStoreProofs`, for every set of posts of 24 bits, every set of keys and all limits
that keep the relations of `BoundsAssumption`:

* `StoreTypes`: `Spec => []TypeOK`, the capacities of the sequences, `BuilderBuilds`:
  `Spec => []BatchIsBuild`, and `StoreHoldsIndex`: `Spec => []StoreIsIndex`. With them
  the sets of posts of `StoreActions` are what the bytes stand for.
* The inductive invariant is `StoreInv`. While rows are pushed, `Collected` says that
  the bytes of the batch are the int24 bytes of some lists, with every post in the
  order of the pushes, and that the sets of their posts are `Build(rows)`; so one
  more `Push` adds three bytes to each of its lists (`ThreesGrow`, `BuildGrows`).
* `PushedByteFits` is one byte, in the object, on the way to the heap, or on the
  heap; `AppendedBytes` is a whole list. `ReplaceGives` is a list that is written
  and read again: from `LimitsOfLists`, a list that is too long for `Get` is one of
  int32, so it cannot be read exactly when four times its length reaches `MaxBytes`.
* `OptimizedStoreGives` goes through the keys of the batch as `Build` does. The loops
  are recursive functions in the module, as nothing can be proved of folds without
  induction over an operator; `StepByStep` says that such a function exists.

`SearchProofs`, for every finite set of posts and every size of a page, from
`SearchAssumption`:

* `TypeCorrect`, `AllPagesShown` (`Spec => []PagesComplete`), `PostsShownOnce`
  (`Spec => []NoPostTwice`) and `RandomPostsOnce` (`Spec => RandomHitsOnce`). The
  inductive invariant is `Paging`: what has been shown is not older than
  `olderThan`, and, as long as the client has not gone astray, a post that stayed a
  hit has been shown or is older than `olderThan` in a session that has not ended.
* What a request owes to it is the lemma `SearchPageIsPage`: a page descends, is
  older than `olderThan` and, when that one is a hit, leaves out only what is
  older than its last post. It rests on `NewestFirstProperties`; that a set of
  posts has such an order at all (`OrderExists`) takes a smallest set that has
  none, as the library's induction theorems cannot be instantiated.

`OptimizerProofs`, for trees of every height over every alphabet in every order, and
for every set of posts of which each has one rating:

* `DedupeKeepsNodes`: sorting and `Dedupe` lose no node and bring no new one, though
  `LessThan` is no order (of two nodes each may be less than the other). `Dedupe`
  removes a node only when the one before it is not less than it; in the result of an
  insertion sort (`InOrder`) it is then not less than the one before either, and two
  nodes of which neither is less than the other are equal (`EqualNodes`). So this is a
  theorem about nodes of up to 12 children, where `sort.Sort` is an insertion sort.
* `PassesTypes`: `PassesSpec => []PassesTypeOK`. Every rule makes a tree of a tree: a
  NOT keeps its child, a word gets none, and the tree may get higher.
* `FirstChildrenStay`: `PassesSpec => []FirstChildrenAreThere`. Together they are the
  inductive invariant `PassInv`. Rules 1 to 6 and the last one make a `Whole` tree of
  a whole one. Rule 7 leaves a `Loose` tree, in which a WITHOUT of nothing is a child
  of an OR, and rule 8, which only asks the children of an AND, does not come to it.
* `RulesKeep`: `PassesSpec => RulesKeepHits`, with the invariant for the trees that
  the rules meet. One lemma per rule says that a node that is rewritten means the same
  when its children do (`Same`); the walk through the tree is an induction over it.
* `HitsAreMeaning`: a tree without an AND of nothing finds, by its iterators, what it
  stands for.
* `SettledFinds`: when a pass of all rules has changed nothing, the tree has no AND of
  nothing, so the iterators find what it stands for. The first rule leaves no AND of
  nothing behind (`UnnecessaryWalk`), a rule that reports no change leaves the tree as it
  is, and SimplifyChildren, the one that could empty an AND, reports it whenever it
  removes a child (`RemovesChildren`, `SimplifyWalk`). This rests on what the flag
  says and not on a limit of the passes.

`QueryEngineProofs`, for texts of any length over any alphabet, trees of every height
(`AnyHeight`), every limit of the passes and every set of posts of which each has one
rating:

* `ParserFollowsGrammar`: `Spec => []ParserMatchesGrammar`. The parser, which looks at one
  token and never goes back, accepts exactly the texts that have a derivation, and
  the derivation is the only one. Three parts:
  * that the functions exist. `MeasuredRecursion` says that a function defined by
    recursion exists when it only asks for smaller arguments; what is smaller is the
    rest of the text for the scanner (`TokensGiven`), the token and then the level for
    the parser (`ParsingGiven`, with `CalledAhead`: a call that succeeds goes ahead),
    and the piece of the tokens for the grammar (`DerivedGiven`). What the scanner
    returns ends with EOF, and has no other (`TokenLists`);
  * completeness (`DerivationsFound`): for every derivation of the tokens from i to j,
    when the token behind j does not go on with a later level, the parser that begins
    at i comes to this tree in front of j + 1. It is an induction over the piece and its
    level; a split at an operator is one more round of the loop (`OneMoreRound`);
  * soundness (`ParserSound`): what a call returns is a derivation of the tokens that
    it has consumed, wherever the tree that it went on with began.

  As the parser is a function, completeness says that there is no other derivation.
* `EngineTypes` and `EngineOptimizes`: `Spec => []TypeOK` and `Spec => Optimizes`. The
  inductive invariant is `EngineInv`. A tree that was parsed is `Whole`, because every
  derivation is (`DerivedTypes`); so the theorems about the passes over any tree are
  theorems about every query: `EngineFirstChildren` and `EngineKeepsHits`.
* `UnoptimizedFinds`: without the optimizer the answer is what the parsed tree stands
  for. The parser makes no AND of nothing (`ParsedHits`), which is what
  `HitsAreMeaning` asks for. What is made of words with the operators among the tokens
  holds of all derivations (`ParsedIn`).
* `SettledAnswers`: with the optimizer, the answer is what the last tree stands for,
  when the last pass changed nothing. This is the second half of `Converges`; the first
  says that the last pass never changes anything.
* `SameHitsWithoutDrops`: `SameHits`, which `terms` refutes, holds of every behaviour
  in which no walk drops a term beside its exclusion and the passes end before the
  limit. So that one rule, and a limit that is too low, are the only ways in which
  the optimizer could change what a query finds.
* `TypedTagFound`: `Spec => []TagFound`, for tags of any length; and
  `TypedTagAnswered`: such a query is never rejected, never makes the optimizer panic,
  and finds in the index of all posts every one that has the tag. The inductive
  invariant is `TypedInv`: from the parser on, the tree is one of `TagTrees`, a word of
  the text or an AND of such trees. Four parts:
  * the scanner makes one token of each field (`TypableScanned`), by induction over
    the places at which a field may begin or end (`Boundary`);
  * the parser takes what it gets for an AND, word by word (`WordsParsed`);
  * every rule makes such a tree of such a tree (`TagTreesStay`): it has no exclusion
    to drop and no OR to distribute. Which words are dropped as duplicates depends on
    `LessThan` and does not matter;
  * a field is cleaned to a field of the cleaned tag (`FieldCleaned`): `CleanString`
    works on one character after the other (`CleanConcat`) and keeps a blank, so what
    is around the field cannot join it. A hyphen would be cleaned to a blank, which
    is why `Typable` has none.

A recursive function over trees is a function that CHOOSE picks, so each of them needs a lemma
that such a function exists and obeys its equation (`TreeRecursion` and its
instances). That is an induction over the height of trees, which cannot be had from
the library, whose theorems take an operator: `NatByInduction` does it with sets.

Only model-checked:

* all liveness: fairness and ENABLED are out of the prover's reach;
* the first half of `Converges`. That 16 passes are enough is shown of the queries of the run and said of no
  other; that the passes would end without the limit takes a measure that goes down
  with every rule, while some rules make the tree larger;
* `SpecialWordsFind`. It compares the labels of a post with the documented words, which
  is a matter of numbers as strings (`ToString`: the bins of the score, the dates), of
  which the provers know nothing. A theorem would have to assume of the names what it
  is to show.

## 5. Where the code deviates from what is said of it

Shown by a run: the virtual tag lacks posts (`all_posts`), a page full of ties
stops the updater (`ties`), the int32 iterator starts at the second post
(`large_lists`), the optimizer drops a term that has an effect (`terms`).

Without a run of their own:

* A legal query can make the optimizer panic. `(a a) | ((a a) - (a a a))` becomes an
  OR of a term and a WITHOUT of the same term twice, from which the last rule but one
  removes both (`optimize.go:219`); the first rule of the next pass asks the empty
  WITHOUT for its first child (`optimize.go:157`). With another term in the OR, as in
  `(a a) | ((a a) - (a a a)) | (c c)`, the same rule does so at once
  (`optimize.go:214`). The search fails; nothing else is affected.
* A post stays in the list of a flag that it has lost, as a merge only adds
  (`actions.go:87`), though README.md:36 says that `f:sound` finds only posts
  that really have the flag.
* When the post `olderThan` is no hit any more, Search drops one that the client
  has not seen (`actions.go:171-175`): the condition `~astray` of
  `PagesComplete`.
* A random search never returns the post that is shuffled to the front
  (`shuffle.go:28`); with one hit the result is empty. `RandomHitsOnce` says that
  no more than one hit is left out when the page is not full.
* A view of a list outlives its bytes when a word is deleted during a merge
  (`actions.go:70`), against the comment at `byte_store.go:81`. The step is in
  `StoreActions`, `misread` marks the behaviours that it leads to.
* After a power failure the service goes on with the cursors of a torn file, and
  does not ask for the posts before them again (`main.go:97` only warns).
* Some words can never be found: `u:` with a name that has a `-`, `_` or umlaut
  (pushed cleaned at `updates.go:127`, looked up as typed at `actions.go:152`);
  `q:480p` of README.md:40, which `sizeCategories` never gives; a typed tag with a
  hyphen or an underscore, a letter that `CleanString` drops on its own, one that
  looks like a label or is a keyword: `TagFound` is about the others.
* A post with several rating bits is found under the first of them only
  (`updates.go:129`), though README.md:35 speaks of the filters that are set.
* Three ratings become an exclusion of the fourth, which takes for granted that
  every post has exactly one (`optimize.go:243`): it has not when its rating was
  changed (lists only grow), or when none of the four bits is set.
* A list of exactly 2^22 posts can be written and not read (`byte_store.go:86`). A
  longer one cannot be encoded (`codecs.go:88`), and by then the old list is cleared
  (`iter_store.go:47`). Either way its key then ends every merge.
* `fastVarint32` takes a fifth byte above 1 for "value larger than 32 bits
  (overflow)" (`iterators.go:138`, `:146`) though only one above 15 is. It refuses
  every difference of 29 bits and more (`VarintRoundTrip`); ids of 24 bits have none.
* DELETE /admin/tag does not fold the case of its word (`restapi.go:93`), so
  `CleanString` drops the capital letters.
* A rebuild request during an update is overwritten by the commit
  (`actions.go:102`), and a deletion may be undone by a merge (`actions.go:91`).

## 6. What is assumed of the outside

* Rows of tags become visible in the order of their ids, and an update of a post
  is never visible with a time before one already visible. Both are needed by
  cursors and neither is the service's to guarantee.
* The times survive the way through JSON, hashes of different words may collide
  (then two words are one key).
* The ids of posts are below 2^23, as 24 bits can hold.
* `TextsAssumption`: the characters of the texts are in `ByteOrder`, the order in which
  `LessThan` compares them; in the program every string has one. The two words that
  the parser and the optimizer put into a tree themselves (`node.go:86`, `:87`) are
  runs of letters that no text has: an underscore is not a letter, so the scanner takes
  what is typed apart.
* `RatingAssumption`: the posts of the query model have one of the ratings. Words
  of the query model are keys of their own.
* A rename is atomic when the process dies.

## 7. Plan

Done: every component that changes state; the abstract index and the proof that
the service implements it; the pages of a client, proved for any number of posts;
the bytes of a list, the iterators over them and the store of such bytes, proved for
lists of any length; the rules of the optimizer, proved for any tree; the parser, proved against the
grammar for texts of any length; the answers of the engine, proved to be what the optimized
tree stands for; the way of a tag through both, proved for tags of any length.

Not modelled: metrics, logging, flags, benchmarks, the HTTP client and the
userscript, which change no state that the rest depends on; `MergeIterStores`,
which nothing calls; `MaxSize`, which only reserves memory; the undefined
behaviour of `operator=` (`sequence.cpp:50`), of which the source cannot tell
what a compiler makes.
