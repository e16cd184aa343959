---------------------------- MODULE StoreActions ----------------------------
(***************************************************************************)
(* The service (actions.go, updates.go, main.go, restapi.go and            *)
(* store/checkpoint.go): an index in memory, a job that keeps merging the  *)
(* changes of the database into it, checkpoints of it in a file, and the   *)
(* requests of an administrator.                                           *)
(*                                                                         *)
(* A job is a goroutine that calls updateJob: one is started by main, one  *)
(* more by every tick of cron.  A checkpointer is a goroutine that calls   *)
(* WriteCheckpoint: cron's, or the one of an HTTP request.  Each step is   *)
(* what its goroutine does between two points where others can interfere:  *)
(* a query, or a section under a lock.  The lock of Locker is not a        *)
(* variable: a section under the write lock is one step, and the only      *)
(* section under the read lock that is not is the writing of a checkpoint, *)
(* so the lock can be written when nobody writes a checkpoint.             *)
(***************************************************************************)
EXTENDS TagDatabase

CONSTANTS
  Jobs,           \* the goroutines that call updateJob
  NoJob,          \* the holder of updateLock when it is free
  Checkpointers,  \* the goroutines that call WriteCheckpoint
  DeletableSets,  \* the sets of keys of the words of a DELETE /admin/tag
  TornFiles,      \* may a power failure lose a part of a renamed file?
  MaxFaults,      \* bound: failed queries, crashes and power failures
  MaxRequests     \* bound: requests to delete and to rebuild

ASSUME ServiceAssumption ==
  /\ NoJob \notin Jobs
  /\ DeletableSets \subseteq SUBSET Keys
  /\ TornFiles \in BOOLEAN
  /\ MaxFaults \in Nat /\ MaxRequests \in Nat

VARIABLES
  index,       \* the store: index[k] is the list of k, {} when k is absent
  storeState,  \* how far the store has followed the database
  file,        \* the checkpoint file; NoFile when there is none
  unsynced,    \* may a power failure still lose a part of the file?
  guard,       \* the guard of updateJob's preventConcurrency
  updateLock,  \* the job that holds updateLock, or NoJob
  pc,          \* where a job is
  next,        \* the local state of FetchUpdates, then newState
  rows,        \* the rows pushed into the builder
  updates,     \* the built index, a key is emptied once it is merged
  more,        \* expectMore
  vals,        \* storeValues
  writing,     \* the checkpointers at work, which hold the read lock
  buf,         \* what a checkpointer has written to its temporary file
  left,        \* the keys it has still to write
  dropped,     \* history: the facts that were deleted, or lost with a file
  misread,     \* history: has a job read the bytes of a list after its end?
  faults,      \* how many faults there were
  requests     \* how many requests there were

jobVars == <<guard, updateLock, pc, next, rows, updates, more, vals>>
ckptVars == <<writing, buf, left>>
storeVars == <<index, storeState>>
diskVars == <<file, unsynced>>
history == <<dropped, misread, faults, requests>>
vars == <<dbVars, storeVars, diskVars, jobVars, ckptVars, history>>

StoreState == [LastTagId : Nat, LastItemUpdateTime : Nat]
InitState == [LastTagId |-> 0, LastItemUpdateTime |-> 0]

Snapshot == [state : StoreState, index : Index]
NoFile == [state |-> InitState, index |-> EmptyIndex]

Steps == {"idle", "state", "items", "tags", "lock", "merge", "view",
          "dangling", "write"}
Merging == {"merge", "view", "dangling", "write"}

TypeOK ==
  /\ DBTypeOK
  /\ index \in Index /\ storeState \in StoreState
  /\ file \in Snapshot /\ unsynced \in BOOLEAN
  /\ guard \in {0, 1} /\ updateLock \in Jobs \cup {NoJob}
  /\ pc \in [Jobs -> Steps] /\ next \in [Jobs -> StoreState]
  /\ rows \in [Jobs -> Seq(Row)] /\ updates \in [Jobs -> Index]
  /\ more \in [Jobs -> BOOLEAN] /\ vals \in [Jobs -> SUBSET Posts]
  /\ writing \subseteq Checkpointers
  /\ buf \in [Checkpointers -> Snapshot]
  /\ left \in [Checkpointers -> SUBSET Keys]
  /\ dropped \subseteq Keys \X Posts /\ misread \in BOOLEAN
  /\ faults \in Nat /\ requests \in Nat

Init ==
  /\ DBInit
  /\ index = EmptyIndex /\ storeState = InitState
  /\ file = NoFile /\ unsynced = FALSE
  /\ guard = 0 /\ updateLock = NoJob
  /\ pc = [j \in Jobs |-> "idle"]
  /\ next = [j \in Jobs |-> InitState]
  /\ rows = [j \in Jobs |-> <<>>]
  /\ updates = [j \in Jobs |-> EmptyIndex]
  /\ more = [j \in Jobs |-> FALSE]
  /\ vals = [j \in Jobs |-> {}]
  /\ writing = {}
  /\ buf = [c \in Checkpointers |-> NoFile]
  /\ left = [c \in Checkpointers |-> {}]
  /\ dropped = {} /\ misread = FALSE /\ faults = 0 /\ requests = 0

Least(S) == CHOOSE k \in S : \A h \in S : k <= h

Listed(ix) == {k \in Keys : ix[k] # {}}

Fault == faults < MaxFaults /\ faults' = faults + 1
Request == requests < MaxRequests /\ requests' = requests + 1

Goto(j, step) == pc' = [pc EXCEPT ![j] = step]
-----------------------------------------------------------------------------
(* The database goes on by itself. *)
Database ==
  /\ DBNext
  /\ UNCHANGED <<storeVars, diskVars, jobVars, ckptVars, history>>
-----------------------------------------------------------------------------
(* updateJob, UpdateOnce and FetchUpdates. *)

(* A variant that does not look at the guard. *)
GuardTaken == TRUE

GuardFree == guard = 0

JobStart(j) ==
  /\ pc[j] = "idle" /\ GuardFree
  /\ guard' = 1
  /\ Goto(j, "state")
  /\ UNCHANGED <<dbVars, storeVars, diskVars, ckptVars, history,
                 updateLock, next, rows, updates, more, vals>>

(* The function returns or panics: the deferred store opens the guard. *)
JobEnd(j) ==
  /\ guard' = 0
  /\ Goto(j, "idle")
  /\ next' = [next EXCEPT ![j] = InitState]
  /\ rows' = [rows EXCEPT ![j] = <<>>]
  /\ updates' = [updates EXCEPT ![j] = EmptyIndex]
  /\ more' = [more EXCEPT ![j] = FALSE]
  /\ vals' = [vals EXCEPT ![j] = {}]

(* currentStoreState, under the read lock. *)
ReadState(j) ==
  /\ pc[j] = "state"
  /\ next' = [next EXCEPT ![j] = storeState]
  /\ Goto(j, "items")
  /\ UNCHANGED <<dbVars, storeVars, diskVars, ckptVars, history,
                 guard, updateLock, rows, updates, more, vals>>

(* A variant that expects more whenever it got something.                  *)
ConsumeItemsExpectMore(j, page) ==
  /\ rows' = [rows EXCEPT ![j] =
                [i \in DOMAIN page |-> [item |-> page[i],
                                        keys |-> items[page[i]].keys]]]
  /\ next' = [next EXCEPT ![j].LastItemUpdateTime =
                IF page = <<>> THEN @ ELSE items[page[Len(page)]].updated]
  /\ more' = [more EXCEPT ![j] = page # <<>>]

(* The consumer of queryItems pushes a post and moves the cursor to it.    *)
ConsumeItems(j, page) ==
  /\ rows' = [rows EXCEPT ![j] =
                [i \in DOMAIN page |-> [item |-> page[i],
                                        keys |-> items[page[i]].keys]]]
  /\ next' = [next EXCEPT ![j].LastItemUpdateTime =
                IF page = <<>> THEN @ ELSE items[page[Len(page)]].updated]
  /\ more' = [more EXCEPT ![j] = Len(page) = ItemLimit]

FetchItems(j) ==
  /\ pc[j] = "items"
  /\ \E page \in ItemPages(next[j].LastItemUpdateTime) : ConsumeItems(j, page)
  /\ Goto(j, "tags")
  /\ UNCHANGED <<dbVars, storeVars, diskVars, ckptVars, history,
                 guard, updateLock, updates, vals>>

(* A failed query is logged and the function goes on without its rows.     *)
QueryItemsFails(j) ==
  /\ pc[j] = "items"
  /\ Fault
  /\ Goto(j, "tags")
  /\ UNCHANGED <<dbVars, storeVars, diskVars, ckptVars, dropped, misread,
                 requests, guard, updateLock, next, rows, updates, more, vals>>

(* FetchUpdates ends: Build, and it panics when not one word was pushed,   *)
(* because Keys takes the address of the first of no keys.                 *)
BuildUpdates(j, pushed) ==
  /\ Listed(Build(pushed)) # {}
  /\ updates' = [updates EXCEPT ![j] = Build(pushed)]
  /\ rows' = [rows EXCEPT ![j] = <<>>]
  /\ Goto(j, "lock")
  /\ UNCHANGED <<guard, vals>>

BuildPanics(j, pushed) == Listed(Build(pushed)) = {} /\ JobEnd(j)

FetchTags(j) ==
  LET page == TagPage(next[j].LastTagId)
      pushed == rows[j] \o page
  IN /\ pc[j] = "tags"
     /\ \/ /\ BuildUpdates(j, pushed)
           /\ next' = [next EXCEPT ![j].LastTagId =
                         IF page = <<>> THEN @ ELSE LastTag(@)]
           /\ more' = [more EXCEPT ![j] = @ \/ Len(page) = TagLimit]
        \/ BuildPanics(j, pushed)
     /\ UNCHANGED <<dbVars, storeVars, diskVars, ckptVars, history, updateLock>>

QueryTagsFails(j) ==
  /\ pc[j] = "tags"
  /\ Fault
  /\ \/ BuildUpdates(j, rows[j]) /\ UNCHANGED <<next, more>>
     \/ BuildPanics(j, rows[j])
  /\ UNCHANGED <<dbVars, storeVars, diskVars, ckptVars, dropped, misread,
                 requests, updateLock>>

(* A variant that saves the new state before the merge instead of after.   *)
TakeUpdateLockCommitFirst(j) ==
  /\ pc[j] = "lock" /\ updateLock = NoJob
  /\ updateLock' = j
  /\ storeState' = next[j]
  /\ Goto(j, "merge")
  /\ UNCHANGED <<dbVars, index, diskVars, ckptVars, history,
                 guard, next, rows, updates, more, vals>>

TakeUpdateLock(j) ==
  /\ pc[j] = "lock" /\ updateLock = NoJob
  /\ updateLock' = j
  /\ Goto(j, "merge")
  /\ UNCHANGED <<dbVars, storeVars, diskVars, ckptVars, history,
                 guard, next, rows, updates, more, vals>>
-----------------------------------------------------------------------------
(* The merge: the keys of the updates in ascending order, one at a time.   *)

KeyToMerge(j) == Least(Listed(updates[j]))

Merged(j) == updates' = [updates EXCEPT ![j][KeyToMerge(j)] = {}]

(* GetIterator: a view of the bytes of the list.  No lock protects it.     *)
MergeView(j) ==
  /\ pc[j] = "merge" /\ Listed(updates[j]) # {}
  /\ Goto(j, "view")
  /\ UNCHANGED <<dbVars, storeVars, diskVars, ckptVars, history,
                 guard, updateLock, next, rows, updates, more, vals>>

(* IteratorToList: storeValues, and whether the key requires an update.    *)
MergeList(j, values) ==
  \/ /\ updates[j][KeyToMerge(j)] \subseteq values
     /\ Merged(j)
     /\ Goto(j, "merge")
     /\ UNCHANGED vals
  \/ /\ ~ updates[j][KeyToMerge(j)] \subseteq values
     /\ vals' = [vals EXCEPT ![j] = values]
     /\ Goto(j, "write")
     /\ UNCHANGED updates

MergeRead(j) ==
  /\ pc[j] = "view"
  /\ MergeList(j, index[KeyToMerge(j)])
  /\ UNCHANGED <<dbVars, storeVars, diskVars, ckptVars, history,
                 guard, updateLock, next, rows, more>>

(* The bytes were freed, or others moved to their place: any list, or the  *)
(* bytes are not a list and the decoder panics.                            *)
MergeReadDangling(j) ==
  /\ pc[j] = "dangling"
  /\ misread' = TRUE
  /\ \/ /\ \E values \in SUBSET Posts : MergeList(j, values)
        /\ UNCHANGED <<guard, updateLock, next, rows, more>>
     \/ updateLock' = NoJob /\ JobEnd(j)
  /\ UNCHANGED <<dbVars, storeVars, diskVars, ckptVars, dropped, faults,
                 requests>>

(* A variant that does not take the write lock. *)
NotChecked == TRUE

NoReaders == writing = {}

(* A variant that replaces the list by the updates alone.                  *)
MergeWriteUpdatesOnly(j) ==
  /\ pc[j] = "write" /\ NoReaders
  /\ index' = [index EXCEPT ![KeyToMerge(j)] = updates[j][KeyToMerge(j)]]
  /\ Merged(j)
  /\ vals' = [vals EXCEPT ![j] = {}]
  /\ Goto(j, "merge")
  /\ UNCHANGED <<dbVars, storeState, diskVars, ckptVars, history,
                 guard, updateLock, next, rows, more>>

(* Replace, under the write lock. *)
MergeWrite(j) ==
  /\ pc[j] = "write" /\ NoReaders
  /\ index' = [index EXCEPT ![KeyToMerge(j)] =
                 vals[j] \cup updates[j][KeyToMerge(j)]]
  /\ Merged(j)
  /\ vals' = [vals EXCEPT ![j] = {}]
  /\ Goto(j, "merge")
  /\ UNCHANGED <<dbVars, storeState, diskVars, ckptVars, history,
                 guard, updateLock, next, rows, more>>

(* The new state is saved, updateLock is released, and updateJob calls     *)
(* UpdateOnce again when it expects more.                                  *)
Commit(j) ==
  /\ pc[j] = "merge" /\ Listed(updates[j]) = {} /\ NoReaders
  /\ storeState' = next[j]
  /\ updateLock' = NoJob
  /\ \/ /\ more[j]
        /\ Goto(j, "state")
        /\ next' = [next EXCEPT ![j] = InitState]
        /\ more' = [more EXCEPT ![j] = FALSE]
        /\ UNCHANGED <<guard, rows, updates, vals>>
     \/ ~more[j] /\ JobEnd(j)
  /\ UNCHANGED <<dbVars, index, diskVars, ckptVars, history>>
-----------------------------------------------------------------------------
(* The administrator. *)

(* A deleted list is freed, and every list behind it moves in memory: a    *)
(* view of a list behind the first deleted one is left dangling.           *)
ViewSpoiled(j, ks) ==
  pc[j] = "view" /\ \E k \in ks : index[k] # {} /\ k <= KeyToMerge(j)

DeleteWords(ks) ==
  /\ NoReaders
  /\ Request
  /\ index' = [k \in Keys |-> IF k \in ks THEN {} ELSE index[k]]
  /\ dropped' = dropped \cup {f \in ks \X Posts : f[2] \in index[f[1]]}
  /\ pc' = [j \in Jobs |-> IF ViewSpoiled(j, ks) THEN "dangling" ELSE pc[j]]
  /\ UNCHANGED <<dbVars, storeState, diskVars, ckptVars, misread, faults,
                 guard, updateLock, next, rows, updates, more, vals>>

RebuildItems ==
  /\ NoReaders
  /\ Request
  /\ storeState' = [storeState EXCEPT !.LastItemUpdateTime = 0]
  /\ UNCHANGED <<dbVars, index, diskVars, ckptVars, jobVars, dropped, misread,
                 faults>>

(* A variant that puts the cursor before the first id there can be.        *)
RebuildTagsBelowZero ==
  /\ NoReaders
  /\ Request
  /\ storeState' = [storeState EXCEPT !.LastTagId = -1]
  /\ UNCHANGED <<dbVars, index, diskVars, ckptVars, jobVars, dropped, misread,
                 faults>>

RebuildTags ==
  /\ NoReaders
  /\ Request
  /\ storeState' = [storeState EXCEPT !.LastTagId = 0]
  /\ UNCHANGED <<dbVars, index, diskVars, ckptVars, jobVars, dropped, misread,
                 faults>>
-----------------------------------------------------------------------------
(* WriteCheckpointFile, under the read lock from its begin to its end.     *)

(* The header.  A store without a key makes Keys panic.                    *)
CkptBegin(c) ==
  /\ c \notin writing /\ Listed(index) # {}
  /\ writing' = writing \cup {c}
  /\ buf' = [buf EXCEPT ![c] = [NoFile EXCEPT !.state = storeState]]
  /\ left' = [left EXCEPT ![c] = Listed(index)]
  /\ UNCHANGED <<dbVars, storeVars, diskVars, jobVars, history>>

CkptKey(c) ==
  LET k == Least(left[c])
  IN /\ c \in writing /\ left[c] # {}
     /\ buf' = [buf EXCEPT ![c].index[k] = index[k]]
     /\ left' = [left EXCEPT ![c] = @ \ {k}]
     /\ UNCHANGED <<dbVars, storeVars, diskVars, jobVars, writing, history>>

CkptEnd(c) ==
  /\ writing' = writing \ {c}
  /\ buf' = [buf EXCEPT ![c] = NoFile]
  /\ left' = [left EXCEPT ![c] = {}]

(* Flush, Close and Rename. *)
CkptRename(c) ==
  /\ c \in writing /\ left[c] = {}
  /\ file' = buf[c]
  /\ unsynced' = TornFiles
  /\ CkptEnd(c)
  /\ UNCHANGED <<dbVars, storeVars, jobVars, history>>

(* The disk is full: the error is logged, the old file stays.              *)
CkptFails(c) ==
  /\ c \in writing
  /\ Fault
  /\ CkptEnd(c)
  /\ UNCHANGED <<dbVars, storeVars, diskVars, jobVars, dropped, misread,
                 requests>>
-----------------------------------------------------------------------------
(* main starts with the file's state and lists, and nothing else is left.  *)
Restart(snapshot) ==
  /\ index' = snapshot.index /\ storeState' = snapshot.state
  /\ guard' = 0 /\ updateLock' = NoJob
  /\ pc' = [j \in Jobs |-> "idle"]
  /\ next' = [j \in Jobs |-> InitState]
  /\ rows' = [j \in Jobs |-> <<>>]
  /\ updates' = [j \in Jobs |-> EmptyIndex]
  /\ more' = [j \in Jobs |-> FALSE]
  /\ vals' = [j \in Jobs |-> {}]
  /\ writing' = {}
  /\ buf' = [c \in Checkpointers |-> NoFile]
  /\ left' = [c \in Checkpointers |-> {}]

CrashRestart ==
  /\ Fault
  /\ Restart(file)
  /\ UNCHANGED <<dbVars, diskVars, dropped, misread, requests>>

(* The part of a file before the key k, which the reader can read: it has  *)
(* taken the state when it fails at the end of the part.                   *)
PartBefore(k) ==
  [file EXCEPT !.index = [h \in Keys |-> IF h < k THEN @[h] ELSE {}]]

(* The facts that a part has not, though its state has passed their rows.  *)
LostWith(part) ==
  {f \in Keys \X Posts :
     part # NoFile /\ f[2] \in file.index[f[1]] \ part.index[f[1]]}

(* The file was not synced before it was renamed: a power failure may      *)
(* leave a part of it, or nothing at all, which main takes for no file.    *)
(* main logs the error of ReadCheckpointFile and goes on with the state    *)
(* and the lists that it has read.                                         *)
PowerFailure ==
  /\ unsynced
  /\ Fault
  /\ \E part \in {NoFile} \cup {PartBefore(k) : k \in Keys} :
       /\ file' = part /\ Restart(part)
       /\ dropped' = dropped \cup LostWith(part)
  /\ unsynced' = FALSE
  /\ UNCHANGED <<dbVars, misread, requests>>

(* The system writes the file back to the disk. *)
Writeback ==
  /\ unsynced
  /\ unsynced' = FALSE
  /\ UNCHANGED <<dbVars, storeVars, file, jobVars, ckptVars, history>>
-----------------------------------------------------------------------------
Fetch(j) ==
  \/ FetchItems(j) \/ QueryItemsFails(j)
  \/ FetchTags(j) \/ QueryTagsFails(j)

Merge(j) ==
  \/ TakeUpdateLock(j)
  \/ MergeView(j) \/ MergeRead(j) \/ MergeReadDangling(j)
  \/ MergeWrite(j)
  \/ Commit(j)

UpdateJob(j) == JobStart(j) \/ ReadState(j) \/ Fetch(j) \/ Merge(j)

Admin ==
  \/ \E ks \in DeletableSets : DeleteWords(ks)
  \/ RebuildItems
  \/ RebuildTags

WriteCheckpoint(c) ==
  CkptBegin(c) \/ CkptKey(c) \/ CkptRename(c) \/ CkptFails(c)

Machine == CrashRestart \/ PowerFailure \/ Writeback

Next ==
  \/ Database
  \/ \E j \in Jobs : UpdateJob(j)
  \/ Admin
  \/ \E c \in Checkpointers : WriteCheckpoint(c)
  \/ Machine

Spec == Init /\ [][Next]_vars

(***************************************************************************)
(* Cron starts a job every 15 seconds, and goroutines and queries go on.   *)
(* The steps that wait for the write lock are strongly fair: a waiting     *)
(* writer of a sync.RWMutex keeps new readers out until it had its turn.   *)
(***************************************************************************)
Fairness ==
  /\ WF_vars(\E j \in Jobs : JobStart(j))
  /\ \A j \in Jobs :
       /\ WF_vars(ReadState(j))
       /\ WF_vars(FetchItems(j)) /\ WF_vars(FetchTags(j))
       /\ WF_vars(TakeUpdateLock(j))
       /\ WF_vars(MergeView(j))
       /\ WF_vars(MergeRead(j)) /\ WF_vars(MergeReadDangling(j))
       /\ SF_vars(MergeWrite(j)) /\ SF_vars(Commit(j))
  /\ \A c \in Checkpointers : WF_vars(CkptKey(c)) /\ WF_vars(CkptRename(c))

FairSpec == Spec /\ Fairness
-----------------------------------------------------------------------------
(* What the rows before the cursors of a state say, a fact for each key.   *)
(* A post with the very time of the cursor is not before it: the next      *)
(* query asks for it again.                                                *)
FactsBefore(st) ==
  LET passedItems == {p \in Posts : items[p].updated < st.LastItemUpdateTime}
      passedTags == {i \in DOMAIN tags : i <= st.LastTagId}
  IN (UNION {items[p].keys \X {p} : p \in passedItems})
       \cup (UNION {tags[i].keys \X {tags[i].item} : i \in passedTags})

FactsOf(ix) == UNION {{k} \X ix[k] : k \in Keys}

(* They are in an index, unless an administrator deleted them or they were *)
(* lost with a part of the file.                                           *)
Covers(st, ix) == FactsBefore(st) \subseteq FactsOf(ix) \cup dropped

(* The cursors of the store never run ahead of its lists: whatever the     *)
(* updater has passed and will not ask for again has been merged, in       *)
(* spite of failed queries, panics, concurrent updates of the database,    *)
(* rebuilds, crashes and reloads (actions.go:100 saves the state last); a  *)
(* deletion or a torn file takes no more than its own lists.               *)
CursorCovered == misread \/ Covers(storeState, index)

(* The same holds of the checkpoint file at every moment, so a process     *)
(* that loads it misses nothing (checkpoint.go:20, actions.go:115).        *)
CheckpointCovered == misread \/ Covers(file.state, file.index)

(* Every post in a list was once stated for that key by a row of the       *)
(* database: the merge and the checkpoint invent no hit (actions.go:67).   *)
IndexSound == misread \/ \A k \in Keys : \A p \in index[k] : <<k, p>> \in facts

(* updateJob never runs twice at a time, whoever calls it: an update holds *)
(* the guard until it has ended (main.go:55, actions.go:58).               *)
OneUpdateAtATime ==
  \A i, j \in Jobs : pc[i] # "idle" /\ pc[j] # "idle" => i = j

(* A list shrinks only when an administrator deletes it or the process     *)
(* restarts: no merge loses a post that another step has put into the list *)
(* between the read without a lock and the replacement (actions.go:70-91). *)
ListsGrow ==
  [][ misread' \/ requests' # requests \/ faults' # faults \/
      \A k \in Keys : index[k] \subseteq index'[k] ]_vars

(* What a rename puts in the place of the file is the whole state at one   *)
(* moment, of the cursors and of every list, though the lists are written  *)
(* one after the other (actions.go:116, the read lock).                    *)
CheckpointIsSnapshot ==
  [][ file' = file \/ faults' # faults \/
      file' = [state |-> storeState, index |-> index] ]_vars

(* A commit moves no cursor back, unless it was put back to the start      *)
(* (restapi.go:59-69) or a process has restarted.                          *)
CursorsAdvance ==
  [][ \/ requests' # requests \/ faults' # faults
      \/ /\ storeState.LastTagId <= storeState'.LastTagId
         /\ storeState.LastItemUpdateTime <= storeState'.LastItemUpdateTime
    ]_vars

Promise ==
  INSTANCE TagIndex
  WITH stated <- facts, lost <- dropped,
       known <- FactsOf(index), done <- FactsBefore(storeState),
       saved <- [known |-> FactsOf(file.index),
                 done |-> FactsBefore(file.state)]

(* All the parts together, lists, cursors, locks and file, are an index    *)
(* that keeps its promise: every step of a goroutine is one of the few     *)
(* things that may happen to known and acknowledged facts, or nothing      *)
(* (actions.go:38-128, restapi.go:53-100, main.go:90-104).                 *)
KeepsPromise == Promise!IndexSpec

(* Every row of the database is in the store. *)
Complete ==
  /\ \A p \in Posts : \A k \in items[p].keys : p \in index[k]
  /\ \A i \in DOMAIN tags : \A k \in tags[i].keys : tags[i].item \in index[k]

(* When the database rests, the store has everything in the end, whatever  *)
(* failed on the way: the job is started "to get the most recent state"    *)
(* (main.go:153) and again by every tick of cron (main.go:156).            *)
EventuallyComplete == <>[]Complete

(* A job ends: it does not call UpdateOnce for ever (main.go:141), and it  *)
(* is not kept from the write lock for ever by those who read.             *)
JobsEnd == \A j \in Jobs : pc[j] # "idle" ~> pc[j] = "idle"
-----------------------------------------------------------------------------
(* What follows is a claim of the sources that the code does not keep.     *)

(* The virtual tag "__all" has every post: README.md:26 promises of "-x"   *)
(* all the posts without x, which is what "__all" has and x has not.       *)
AllHasEveryPost == \A k \in Keys : index[k] \subseteq index[AllKey]
=============================================================================
