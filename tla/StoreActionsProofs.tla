------------------------ MODULE StoreActionsProofs --------------------------
(***************************************************************************)
(* Theorems about StoreActions, for every set of posts, keys, jobs and     *)
(* checkpointers, every limit and every bound: the types, one job at a     *)
(* time, a file that is the store of one moment, and what the service      *)
(* keeps in its cursors and lists.                                         *)
(***************************************************************************)
EXTENDS StoreActions, WellFoundedInduction, SequenceTheorems, TLAPS

-----------------------------------------------------------------------------
(* Lemmas about the operators that the actions are built from.             *)

(* A set of natural numbers that is not empty has a least element.         *)
LEMMA LeastNat ==
  ASSUME NEW S \in SUBSET Nat, S # {}
  PROVE  \E x \in S : \A y \in S : x <= y
<1> DEFINE R == {ss \in Nat \X Nat : ss[1] < ss[2]}
<1>1. IsWellFoundedOn(R, Nat)
  BY NatLessThanWellFounded DEF OpToRel
<1>2. \A x, y \in Nat : <<y, x>> \in R <=> y < x
  OBVIOUS
<1> HIDE DEF R
<1>3. PICK x \in S : \A y \in S : ~ (<<y, x>> \in R)
  BY <1>1, WFMin
<1>4. ASSUME NEW y \in S PROVE x <= y
  <2>1. ~ (y < x)
    BY <1>2, <1>3
  <2> QED
    BY <2>1
<1> QED
  BY <1>4

(* The least key of a set that is not empty is one of the set.             *)
LEMMA LeastKey ==
  ASSUME NEW S \in SUBSET Keys, S # {}
  PROVE  Least(S) \in S
<1>1. S \in SUBSET Nat
  BY KeysAssumption
<1>2. \E k \in S : \A h \in S : k <= h
  BY <1>1, LeastNat
<1> QED
  BY <1>2 DEF Least

(* The builder makes an index of whatever rows were pushed, and every row  *)
(* is in it under each of its keys.                                        *)
LEMMA BuildType ==
  ASSUME NEW pushed \in Seq(Row)
  PROVE  /\ Build(pushed) \in Index
         /\ \A k \in Keys : Pushed(pushed, k) \subseteq Build(pushed)[k]
<1>1. \A n \in DOMAIN pushed : pushed[n].item \in Posts
  <2>1. \A n \in DOMAIN pushed : pushed[n] \in Row
    BY ElementOfSeq, LenProperties
  <2> QED
    BY <2>1 DEF Row
<1>2. ASSUME NEW k \in Keys PROVE Pushed(pushed, k) \subseteq Posts
  BY <1>1 DEF Pushed
<1>3. PushedToAll(pushed) \subseteq Posts
  BY <1>1 DEF PushedToAll
<1> QED
  BY <1>2, <1>3 DEF Build, Index

(* A page of tags holds the rows of the ids from the cursor on.            *)
LEMMA TagPageType ==
  ASSUME NEW c \in Nat, DBTypeOK
  PROVE  /\ TagPage(c) \in Seq(Row)
         /\ FirstTag(c) \in Nat \ {0}
         /\ LastTag(c) \in Int /\ LastTag(c) <= Len(tags)
         /\ Len(TagPage(c)) = IF FirstTag(c) <= LastTag(c)
                                THEN LastTag(c) - FirstTag(c) + 1 ELSE 0
         /\ \A i \in 1..Len(TagPage(c)) :
              TagPage(c)[i] = tags[FirstTag(c) + i - 1]
<1>1. tags \in Seq(Row) /\ Len(tags) \in Nat
  BY DEF DBTypeOK
<1>2. FirstTag(c) \in Nat \ {0}
  BY DEF FirstTag
<1>3. LastTag(c) \in Int /\ LastTag(c) <= Len(tags)
  BY <1>1, <1>2, DatabaseAssumption DEF LastTag
<1>4. \A i \in FirstTag(c)..LastTag(c) : tags[i] \in Row
  BY <1>1, <1>2, <1>3
<1>5. /\ TagPage(c) \in Seq(Row)
      /\ Len(TagPage(c)) = IF FirstTag(c) <= LastTag(c)
                             THEN LastTag(c) - FirstTag(c) + 1 ELSE 0
      /\ \A i \in 1..LastTag(c) - FirstTag(c) + 1 :
           TagPage(c)[i] = tags[FirstTag(c) + i - 1]
  BY <1>2, <1>3, <1>4, SubSeqProperties DEF TagPage
<1> QED
  BY <1>2, <1>3, <1>5

(* A page of tags that is not empty moves the cursor to an id.             *)
LEMMA TagCursor ==
  ASSUME NEW c \in Nat, DBTypeOK, TagPage(c) # <<>>
  PROVE  LastTag(c) \in Nat
BY TagPageType, EmptySeq

(* A page of posts is a sequence of posts.                                 *)
LEMMA ItemPageType ==
  ASSUME NEW c \in Nat, NEW page \in ItemPages(c)
  PROVE  page \in Seq(Posts) /\ IsItemPage(page, c)
BY DEF ItemPages
-----------------------------------------------------------------------------
(* Type correctness.  It needs that a job which merges a key has one to    *)
(* merge: the least key of no keys could be anything.                      *)
HasKeyToMerge ==
  \A j \in Jobs :
    pc[j] \in {"view", "dangling", "write"} => Listed(updates[j]) # {}

(* The initial values are of their types. *)
LEMMA EmptyTypes ==
  /\ EmptyIndex \in Index /\ InitState \in StoreState /\ NoFile \in Snapshot
  /\ <<>> \in Seq(Row)
BY DEF EmptyIndex, Index, InitState, StoreState, NoFile, Snapshot

LEMMA InitType == Init => TypeOK
<1> SUFFICES ASSUME Init PROVE TypeOK
  OBVIOUS
<1>1. DBTypeOK
  BY DEF Init, DBInit, DBTypeOK
<1> QED
  BY <1>1, EmptyTypes DEF Init, TypeOK, Steps

(* What a row states is about keys and posts. *)
LEMMA StatedType ==
  ASSUME NEW p \in Posts, NEW ks \in SUBSET Keys
  PROVE  Stated(p, ks) \subseteq Keys \X Posts
<1> DEFINE K == IF ks = {} THEN {} ELSE ks \cup {AllKey}
<1>1. K \subseteq Keys
  BY KeysAssumption
<1>2. Stated(p, ks) = {<<k, p>> : k \in K}
  BY DEF Stated
<1> HIDE DEF K
<1> QED
  BY <1>1, <1>2

(* The database keeps its types. *)
LEMMA DatabaseType ==
  ASSUME DBTypeOK, DBNext PROVE DBTypeOK'
<1>1. ASSUME NEW p \in Posts, NEW ks \in PostKeySets, NEW t \in 1..MaxTime,
             SavePost(p, ks, t)
      PROVE  DBTypeOK'
  <2>1. t \in Nat /\ ks \in SUBSET Keys
    BY DatabaseAssumption
  <2>2. Stated(p, ks) \subseteq Keys \X Posts
    BY <2>1, StatedType
  <2>3. items' \in [Posts -> [updated : Nat, keys : SUBSET Keys]]
    BY <1>1, <2>1 DEF SavePost, DBTypeOK
  <2>4. facts' \subseteq Keys \X Posts
    BY <1>1, <2>2 DEF SavePost, DBTypeOK
  <2> QED
    BY <1>1, <2>1, <2>3, <2>4 DEF SavePost, DBTypeOK
<1>2. ASSUME NEW p \in Posts, NEW ks \in TagKeySets, AddTag(p, ks)
      PROVE  DBTypeOK'
  <2>1. ks \in SUBSET Keys
    BY DatabaseAssumption
  <2>2. Stated(p, ks) \subseteq Keys \X Posts
    BY <2>1, StatedType
  <2>3. [item |-> p, keys |-> ks] \in Row
    BY <2>1 DEF Row
  <2>4. tags' \in Seq(Row)
    BY <1>2, <2>3, AppendProperties DEF AddTag, DBTypeOK
  <2> QED
    BY <1>2, <2>2, <2>4 DEF AddTag, DBTypeOK
<1> QED
  BY <1>1, <1>2 DEF DBNext

(* The end of a job, whichever action it is a part of. *)
LEMMA JobEndType ==
  ASSUME TypeOK, NEW j \in Jobs, JobEnd(j)
  PROVE  /\ guard' \in {0, 1} /\ pc' \in [Jobs -> Steps]
         /\ next' \in [Jobs -> StoreState] /\ rows' \in [Jobs -> Seq(Row)]
         /\ updates' \in [Jobs -> Index] /\ more' \in [Jobs -> BOOLEAN]
         /\ vals' \in [Jobs -> SUBSET Posts]
BY EmptyTypes DEF TypeOK, JobEnd, Goto, Steps

(* A start from a snapshot, whichever action it is a part of. *)
LEMMA RestartType ==
  ASSUME TypeOK, NEW snapshot \in Snapshot, Restart(snapshot)
  PROVE  /\ index' \in Index /\ storeState' \in StoreState
         /\ guard' \in {0, 1} /\ updateLock' \in Jobs \cup {NoJob}
         /\ pc' \in [Jobs -> Steps] /\ next' \in [Jobs -> StoreState]
         /\ rows' \in [Jobs -> Seq(Row)] /\ updates' \in [Jobs -> Index]
         /\ more' \in [Jobs -> BOOLEAN] /\ vals' \in [Jobs -> SUBSET Posts]
         /\ writing' \subseteq Checkpointers
         /\ buf' \in [Checkpointers -> Snapshot]
         /\ left' \in [Checkpointers -> SUBSET Keys]
BY EmptyTypes DEF Restart, Snapshot, Steps

(* The steps of updateJob before the merge. *)
LEMMA FetchType ==
  ASSUME TypeOK, NEW j \in Jobs, JobStart(j) \/ ReadState(j) \/ Fetch(j)
  PROVE  TypeOK'
<1> USE DEF dbVars, storeVars, diskVars, ckptVars, history
<1>1. CASE JobStart(j)
  BY <1>1 DEF JobStart, TypeOK, DBTypeOK, Goto, Steps
<1>2. CASE ReadState(j)
  BY <1>2 DEF ReadState, TypeOK, DBTypeOK, Goto, Steps
<1>3. CASE FetchItems(j)
  <2>1. PICK page \in ItemPages(next[j].LastItemUpdateTime) :
          ConsumeItems(j, page)
    BY <1>3 DEF FetchItems
  <2>2. next[j] \in StoreState /\ page \in Seq(Posts)
    BY ItemPageType DEF TypeOK, StoreState
  <2>3. [i \in DOMAIN page |-> [item |-> page[i], keys |-> items[page[i]].keys]]
          \in Seq(Row)
    <3>1. \A i \in 1..Len(page) :
            [item |-> page[i], keys |-> items[page[i]].keys] \in Row
      BY <2>2, ElementOfSeq DEF TypeOK, DBTypeOK, Row
    <3>2. DOMAIN page = 1..Len(page) /\ Len(page) \in Nat
      BY <2>2, LenProperties
    <3> QED
      BY <3>1, <3>2, IsASeq
  <2>4. (IF page = <<>> THEN next[j].LastItemUpdateTime
                        ELSE items[page[Len(page)]].updated) \in Nat
    BY <2>2 DEF TypeOK, DBTypeOK, StoreState
  <2>5. rows' \in [Jobs -> Seq(Row)] /\ more' \in [Jobs -> BOOLEAN]
    BY <2>1, <2>3 DEF ConsumeItems, TypeOK
  <2>6. next' \in [Jobs -> StoreState]
    BY <2>1, <2>2, <2>4 DEF ConsumeItems, TypeOK, StoreState
  <2> QED
    BY <1>3, <2>5, <2>6 DEF FetchItems, TypeOK, DBTypeOK, Goto, Steps
<1>4. CASE QueryItemsFails(j)
  BY <1>4 DEF QueryItemsFails, TypeOK, DBTypeOK, Goto, Steps, Fault
<1>5. CASE FetchTags(j)
  <2> DEFINE page == TagPage(next[j].LastTagId)
             pushed == rows[j] \o page
  <2>1. next[j] \in StoreState /\ next[j].LastTagId \in Nat
    BY DEF TypeOK, StoreState
  <2>2. page \in Seq(Row) /\ pushed \in Seq(Row)
    BY <2>1, TagPageType DEF TypeOK
  <2>3. CASE BuildPanics(j, pushed)
    BY <1>5, <2>3, JobEndType DEF FetchTags, BuildPanics, TypeOK, DBTypeOK
  <2>4. CASE /\ BuildUpdates(j, pushed)
             /\ next' = [next EXCEPT ![j].LastTagId =
                           IF page = <<>> THEN @ ELSE LastTag(@)]
             /\ more' = [more EXCEPT ![j] = @ \/ Len(page) = TagLimit]
    <3>1. (IF page = <<>> THEN next[j].LastTagId
                          ELSE LastTag(next[j].LastTagId)) \in Nat
      BY <2>1, TagCursor DEF TypeOK
    <3>2. next' \in [Jobs -> StoreState] /\ more' \in [Jobs -> BOOLEAN]
      BY <2>1, <2>4, <3>1 DEF TypeOK, StoreState
    <3>3. updates' \in [Jobs -> Index] /\ rows' \in [Jobs -> Seq(Row)]
      BY <2>2, <2>4, BuildType, EmptyTypes DEF BuildUpdates, TypeOK
    <3> QED
      BY <1>5, <2>4, <3>2, <3>3
      DEF FetchTags, BuildUpdates, TypeOK, DBTypeOK, Goto, Steps
  <2> QED
    BY <1>5, <2>3, <2>4 DEF FetchTags
<1>6. CASE QueryTagsFails(j)
  <2>1. rows[j] \in Seq(Row)
    BY DEF TypeOK
  <2>2. CASE BuildPanics(j, rows[j])
    BY <1>6, <2>2, JobEndType
    DEF QueryTagsFails, BuildPanics, TypeOK, DBTypeOK, Fault
  <2>3. CASE BuildUpdates(j, rows[j]) /\ UNCHANGED <<next, more>>
    <3>1. updates' \in [Jobs -> Index] /\ rows' \in [Jobs -> Seq(Row)]
      BY <2>1, <2>3, BuildType, EmptyTypes DEF BuildUpdates, TypeOK
    <3> QED
      BY <1>6, <2>3, <3>1
      DEF QueryTagsFails, BuildUpdates, TypeOK, DBTypeOK, Goto, Steps, Fault
  <2> QED
    BY <1>6, <2>2, <2>3 DEF QueryTagsFails
<1> QED
  BY <1>1, <1>2, <1>3, <1>4, <1>5, <1>6 DEF Fetch

(* The steps of updateJob in the merge. *)
LEMMA MergeType ==
  ASSUME TypeOK, HasKeyToMerge, NEW j \in Jobs, Merge(j)
  PROVE  TypeOK'
<1> USE DEF dbVars, storeVars, diskVars, ckptVars, history
<1> DEFINE k == KeyToMerge(j)
<1>1. Listed(updates[j]) # {} => k \in Keys
  BY LeastKey DEF KeyToMerge, Listed
<1>2. ASSUME Merged(j) PROVE updates' \in [Jobs -> Index]
  BY <1>2 DEF Merged, TypeOK, Index
<1>3. ASSUME NEW values \in SUBSET Posts, MergeList(j, values)
      PROVE  /\ updates' \in [Jobs -> Index] /\ vals' \in [Jobs -> SUBSET Posts]
             /\ pc' \in [Jobs -> Steps]
  BY <1>2, <1>3 DEF MergeList, TypeOK, Goto, Steps
<1>4. CASE TakeUpdateLock(j)
  BY <1>4 DEF TakeUpdateLock, TypeOK, DBTypeOK, Goto, Steps
<1>5. CASE MergeView(j)
  BY <1>5 DEF MergeView, TypeOK, DBTypeOK, Goto, Steps
<1>6. CASE MergeRead(j)
  <2>1. k \in Keys /\ index[k] \in SUBSET Posts
    BY <1>1, <1>6 DEF MergeRead, HasKeyToMerge, TypeOK, Index
  <2>2. MergeList(j, index[k])
    BY <1>6 DEF MergeRead
  <2> QED
    BY <1>3, <1>6, <2>1, <2>2 DEF MergeRead, TypeOK, DBTypeOK
<1>7. CASE MergeReadDangling(j)
  <2>1. CASE /\ \E values \in SUBSET Posts : MergeList(j, values)
             /\ UNCHANGED <<guard, updateLock, next, rows, more>>
    BY <1>3, <1>7, <2>1 DEF MergeReadDangling, TypeOK, DBTypeOK
  <2>2. CASE updateLock' = NoJob /\ JobEnd(j)
    BY <1>7, <2>2, JobEndType DEF MergeReadDangling, TypeOK, DBTypeOK
  <2> QED
    BY <1>7, <2>1, <2>2 DEF MergeReadDangling
<1>8. CASE MergeWrite(j)
  <2>1. k \in Keys
    BY <1>1, <1>8 DEF MergeWrite, HasKeyToMerge
  <2>2. vals[j] \cup updates[j][k] \in SUBSET Posts
    BY <2>1 DEF TypeOK, Index
  <2>3. index' \in Index
    BY <1>8, <2>2 DEF MergeWrite, TypeOK, Index
  <2> QED
    BY <1>2, <1>8, <2>3 DEF MergeWrite, TypeOK, DBTypeOK, Goto, Steps
<1>9. CASE Commit(j)
  <2>1. CASE ~more[j] /\ JobEnd(j)
    BY <1>9, <2>1, JobEndType DEF Commit, TypeOK, DBTypeOK
  <2>2. CASE ~(~more[j] /\ JobEnd(j))
    BY <1>9, <2>2, EmptyTypes, ZenonT(40) DEF Commit, TypeOK, DBTypeOK, Goto, Steps
  <2> QED
    BY <2>1, <2>2
<1> QED
  BY <1>4, <1>5, <1>6, <1>7, <1>8, <1>9 DEF Merge

(* The requests of the administrator. *)
LEMMA AdminType ==
  ASSUME TypeOK, Admin
  PROVE  TypeOK'
<1> USE DEF dbVars, diskVars, ckptVars, jobVars, TypeOK, DBTypeOK
<1>1. ASSUME NEW ks \in DeletableSets, DeleteWords(ks) PROVE TypeOK'
  <2>1. ks \subseteq Keys
    BY ServiceAssumption
  <2>2. index' \in Index
    BY <1>1 DEF DeleteWords, Index
  <2>3. dropped' \subseteq Keys \X Posts
    BY <1>1, <2>1 DEF DeleteWords
  <2>4. pc' \in [Jobs -> Steps]
    BY <1>1 DEF DeleteWords, Steps
  <2> QED
    BY <1>1, <2>2, <2>3, <2>4 DEF DeleteWords, Request
<1>2. CASE RebuildItems
  <2>1. storeState' \in StoreState
    BY <1>2 DEF RebuildItems, StoreState
  <2> QED
    BY <1>2, <2>1 DEF RebuildItems, Request
<1>3. CASE RebuildTags
  <2>1. storeState' \in StoreState
    BY <1>3 DEF RebuildTags, StoreState
  <2> QED
    BY <1>3, <2>1 DEF RebuildTags, Request
<1> QED
  BY <1>1, <1>2, <1>3 DEF Admin

(* The steps of a checkpoint. *)
LEMMA CheckpointType ==
  ASSUME TypeOK, NEW c \in Checkpointers, WriteCheckpoint(c)
  PROVE  TypeOK'
<1> USE DEF dbVars, storeVars, diskVars, jobVars, history, DBTypeOK
<1>1. CASE CkptBegin(c)
  <2>1. [NoFile EXCEPT !.state = storeState] \in Snapshot
    BY EmptyTypes DEF TypeOK, Snapshot
  <2>2. Listed(index) \subseteq Keys
    BY DEF Listed
  <2> QED
    BY <1>1, <2>1, <2>2 DEF CkptBegin, TypeOK
<1>2. CASE CkptKey(c)
  <2>1. Least(left[c]) \in Keys
    BY <1>2, LeastKey DEF CkptKey, TypeOK
  <2>2. index[Least(left[c])] \in SUBSET Posts
    BY <2>1 DEF TypeOK, Index
  <2>3. buf' \in [Checkpointers -> Snapshot]
    BY <1>2, <2>2 DEF CkptKey, TypeOK, Snapshot, Index
  <2> QED
    BY <1>2, <2>3 DEF CkptKey, TypeOK
<1>3. CASE CkptRename(c)
  BY <1>3, EmptyTypes, ServiceAssumption DEF CkptRename, CkptEnd, TypeOK
<1>4. CASE CkptFails(c)
  BY <1>4, EmptyTypes DEF CkptFails, CkptEnd, TypeOK, Fault
<1> QED
  BY <1>1, <1>2, <1>3, <1>4 DEF WriteCheckpoint

(* Crashes, power failures and the system's own writing.                   *)
LEMMA PartType ==
  ASSUME TypeOK, NEW k \in Keys
  PROVE  PartBefore(k) \in Snapshot
BY DEF PartBefore, TypeOK, Snapshot, Index

LEMMA MachineType ==
  ASSUME TypeOK, Machine
  PROVE  TypeOK'
<1> USE DEF dbVars, storeVars, diskVars, jobVars, ckptVars, history, DBTypeOK
<1>1. CASE CrashRestart
  <2>1. Restart(file) /\ file \in Snapshot
    BY <1>1 DEF CrashRestart, TypeOK
  <2> QED
    BY <1>1, <2>1, RestartType DEF CrashRestart, TypeOK, Fault
<1>2. CASE PowerFailure
  <2>1. PICK part \in {NoFile} \cup {PartBefore(k) : k \in Keys} :
          /\ file' = part /\ Restart(part)
          /\ dropped' = dropped \cup LostWith(part)
    BY <1>2 DEF PowerFailure
  <2>2. part \in Snapshot
    BY PartType, EmptyTypes
  <2>3. file' \in Snapshot
    BY <2>1, <2>2
  <2>4. /\ faults' = faults + 1 /\ unsynced' = FALSE
        /\ UNCHANGED <<dbVars, misread, requests>>
    BY <1>2 DEF PowerFailure, Fault
  <2>5. unsynced' \in BOOLEAN /\ misread' \in BOOLEAN
    BY <2>4 DEF TypeOK
  <2>6. faults' \in Nat /\ requests' \in Nat
    BY <2>4 DEF TypeOK
  <2>7. DBTypeOK' /\ dropped' \subseteq Keys \X Posts
    BY <2>1, <2>4 DEF TypeOK, LostWith
  <2> HIDE DEF DBTypeOK
  <2> QED
    BY <2>1, <2>2, <2>3, <2>5, <2>6, <2>7, RestartType DEF TypeOK
<1>3. CASE Writeback
  BY <1>3 DEF Writeback, TypeOK
<1> QED
  BY <1>1, <1>2, <1>3 DEF Machine

(* A job never loses the key it is about to merge. *)
LEMMA KeyToMergeStep ==
  ASSUME TypeOK, HasKeyToMerge, [Next]_vars
  PROVE  HasKeyToMerge'
<1> DEFINE Steady(i) == pc'[i] = pc[i] /\ updates'[i] = updates[i]
           Fine(i) == pc'[i] \in {"view", "dangling", "write"} =>
                        Listed(updates'[i]) # {}
<1>1. SUFFICES ASSUME NEW i \in Jobs PROVE Fine(i)
  BY DEF HasKeyToMerge
<1>2. ASSUME Steady(i) PROVE Fine(i)
  BY <1>2 DEF HasKeyToMerge
<1>3. ASSUME UNCHANGED <<pc, updates>> PROVE Fine(i)
  BY <1>2, <1>3
<1>4. ASSUME NEW j \in Jobs, JobEnd(j) PROVE Fine(i)
  <2>1. i # j => Steady(i)
    BY <1>4 DEF JobEnd, Goto, TypeOK
  <2>2. i = j => pc'[i] = "idle"
    BY <1>4 DEF JobEnd, Goto, TypeOK
  <2> QED
    BY <1>2, <2>1, <2>2
<1>5. ASSUME NEW snapshot, Restart(snapshot) PROVE Fine(i)
  BY <1>5 DEF Restart
<1>6. ASSUME NEW j \in Jobs, NEW pushed, BuildUpdates(j, pushed)
      PROVE  Fine(i)
  <2>1. i # j => Steady(i)
    BY <1>6 DEF BuildUpdates, Goto, TypeOK
  <2>2. i = j => pc'[i] = "lock"
    BY <1>6 DEF BuildUpdates, Goto, TypeOK
  <2> QED
    BY <1>2, <2>1, <2>2
<1>7. ASSUME NEW j \in Jobs, NEW values, MergeList(j, values),
             pc[j] \in {"view", "dangling"}
      PROVE  Fine(i)
  <2>1. i # j => Steady(i)
    BY <1>7 DEF MergeList, Merged, Goto, TypeOK
  <2>2. i = j => \/ pc'[i] = "merge"
                 \/ updates'[i] = updates[i]
    BY <1>7 DEF MergeList, Goto, TypeOK
  <2> QED
    BY <1>2, <1>7, <2>1, <2>2 DEF HasKeyToMerge
<1>8. ASSUME NEW j \in Jobs, NEW step, Goto(j, step), UNCHANGED updates,
             step \notin {"view", "dangling", "write"}
      PROVE  Fine(i)
  <2>1. i # j => Steady(i)
    BY <1>8 DEF Goto, TypeOK
  <2>2. i = j => pc'[i] = step
    BY <1>8 DEF Goto, TypeOK
  <2> QED
    BY <1>2, <1>8, <2>1, <2>2
<1>9. ASSUME NEW j \in Jobs, UpdateJob(j) PROVE Fine(i)
  <2>1. CASE JobStart(j) \/ ReadState(j)
    BY <1>8, <2>1 DEF JobStart, ReadState
  <2>2. CASE FetchItems(j) \/ QueryItemsFails(j)
    BY <1>8, <2>2 DEF FetchItems, QueryItemsFails
  <2>3. CASE FetchTags(j) \/ QueryTagsFails(j)
    BY <1>4, <1>6, <2>3 DEF FetchTags, QueryTagsFails, BuildPanics
  <2>4. CASE TakeUpdateLock(j)
    BY <1>8, <2>4 DEF TakeUpdateLock
  <2>5. CASE MergeView(j)
    <3>1. i # j => Steady(i)
      BY <2>5 DEF MergeView, Goto, TypeOK
    <3> QED
      BY <1>2, <2>5, <3>1 DEF MergeView
  <2>6. CASE MergeRead(j) \/ MergeReadDangling(j)
    BY <1>4, <1>7, <2>6 DEF MergeRead, MergeReadDangling
  <2>7. CASE MergeWrite(j)
    <3>1. i # j => Steady(i)
      BY <2>7 DEF MergeWrite, Merged, Goto, TypeOK
    <3>2. i = j => pc'[i] = "merge"
      BY <2>7 DEF MergeWrite, Goto, TypeOK
    <3> QED
      BY <1>2, <3>1, <3>2
  <2>8. CASE Commit(j)
    BY <1>4, <1>8, <2>8 DEF Commit
  <2> QED
    BY <1>9, <2>1, <2>2, <2>3, <2>4, <2>5, <2>6, <2>7, <2>8
    DEF UpdateJob, Fetch, Merge
<1>10. CASE Admin
  <2>1. ASSUME NEW ks \in DeletableSets, DeleteWords(ks) PROVE Fine(i)
    <3>1. pc'[i] \in {pc[i], "dangling"} /\ (pc'[i] = pc[i] \/ pc[i] = "view")
      BY <2>1 DEF DeleteWords, ViewSpoiled
    <3>2. updates'[i] = updates[i]
      BY <2>1 DEF DeleteWords
    <3> QED
      BY <3>1, <3>2 DEF HasKeyToMerge
  <2>2. CASE RebuildItems \/ RebuildTags
    BY <1>3, <2>2 DEF RebuildItems, RebuildTags, jobVars
  <2> QED
    BY <1>10, <2>1, <2>2 DEF Admin
<1>11. CASE Database \/ \E c \in Checkpointers : WriteCheckpoint(c)
  BY <1>3, <1>11 DEF Database, WriteCheckpoint, CkptBegin, CkptKey, CkptRename,
                     CkptFails, jobVars
<1>12. CASE Machine
  BY <1>3, <1>5, <1>12
  DEF Machine, CrashRestart, PowerFailure, Writeback, jobVars
<1>13. CASE UNCHANGED vars
  BY <1>3, <1>13 DEF vars, jobVars
<1> QED
  BY <1>9, <1>10, <1>11, <1>12, <1>13 DEF Next

LEMMA TypeStep ==
  ASSUME TypeOK, HasKeyToMerge, [Next]_vars
  PROVE  TypeOK'
<1>1. CASE Database
  BY <1>1, DatabaseType
  DEF Database, TypeOK, storeVars, diskVars, jobVars, ckptVars, history
<1>2. ASSUME NEW j \in Jobs, UpdateJob(j) PROVE TypeOK'
  BY <1>2, FetchType, MergeType DEF UpdateJob
<1>3. CASE UNCHANGED vars
  BY <1>3 DEF TypeOK, DBTypeOK, vars, dbVars, storeVars, diskVars, jobVars,
              ckptVars, history
<1> QED
  BY <1>1, <1>2, <1>3, AdminType, CheckpointType, MachineType DEF Next

(* Every variable keeps its type, whatever the goroutines, the database    *)
(* and the machine do (actions.go, updates.go, store/checkpoint.go).       *)
THEOREM TypeCorrect == Spec => []TypeOK
<1>1. Init => TypeOK /\ HasKeyToMerge
  BY InitType DEF Init, HasKeyToMerge
<1>2. TypeOK /\ HasKeyToMerge /\ [Next]_vars => (TypeOK /\ HasKeyToMerge)'
  BY TypeStep, KeyToMergeStep
<1> QED
  BY <1>1, <1>2, PTL DEF Spec
-----------------------------------------------------------------------------
(* Mutual exclusion of the jobs.  The guard is what makes it inductive: it *)
(* is open only when every job is idle.                                    *)
Exclusive ==
  /\ guard = 0 => \A j \in Jobs : pc[j] = "idle"
  /\ OneUpdateAtATime

LEMMA ExclusiveStep ==
  ASSUME TypeOK, Exclusive, [Next]_vars
  PROVE  Exclusive'
<1> DEFINE SameIdle == \A i \in Jobs : pc'[i] = "idle" <=> pc[i] = "idle"
<1>1. ASSUME SameIdle, UNCHANGED guard PROVE Exclusive'
  BY <1>1 DEF Exclusive, OneUpdateAtATime
<1>2. ASSUME UNCHANGED <<pc, guard>> PROVE Exclusive'
  BY <1>1, <1>2
<1>3. ASSUME NEW j \in Jobs, NEW step, Goto(j, step), step # "idle",
             pc[j] # "idle", UNCHANGED guard
      PROVE  Exclusive'
  <2>1. SameIdle
    BY <1>3 DEF Goto, TypeOK
  <2> QED
    BY <1>1, <1>3, <2>1
<1>4. ASSUME NEW j \in Jobs, JobEnd(j), pc[j] # "idle" PROVE Exclusive'
  <2>1. \A i \in Jobs : i # j => pc[i] = "idle"
    BY <1>4 DEF Exclusive, OneUpdateAtATime
  <2>2. \A i \in Jobs : pc'[i] = "idle"
    BY <1>4, <2>1 DEF JobEnd, Goto, TypeOK
  <2> QED
    BY <2>2 DEF Exclusive, OneUpdateAtATime
<1>5. ASSUME NEW snapshot, Restart(snapshot) PROVE Exclusive'
  BY <1>5 DEF Restart, Exclusive, OneUpdateAtATime
<1>6. ASSUME NEW j \in Jobs, UpdateJob(j) PROVE Exclusive'
  <2>1. CASE JobStart(j)
    <3>1. \A i \in Jobs : i # j => pc'[i] = "idle"
      BY <2>1 DEF JobStart, GuardFree, Goto, Exclusive, TypeOK
    <3>2. guard' = 1
      BY <2>1 DEF JobStart
    <3> QED
      BY <3>1, <3>2 DEF Exclusive, OneUpdateAtATime
  <2>2. CASE ReadState(j) \/ FetchItems(j) \/ QueryItemsFails(j)
    BY <1>3, <2>2 DEF ReadState, FetchItems, QueryItemsFails
  <2>3. CASE FetchTags(j)
    BY <1>3, <1>4, <2>3 DEF FetchTags, BuildUpdates, BuildPanics
  <2>4. CASE QueryTagsFails(j)
    BY <1>3, <1>4, <2>4 DEF QueryTagsFails, BuildUpdates, BuildPanics
  <2>5. CASE TakeUpdateLock(j) \/ MergeView(j)
    BY <1>3, <2>5 DEF TakeUpdateLock, MergeView
  <2>6. CASE MergeRead(j) \/ MergeReadDangling(j)
    BY <1>3, <1>4, <2>6 DEF MergeRead, MergeReadDangling, MergeList
  <2>7. CASE MergeWrite(j) \/ Commit(j)
    BY <1>3, <1>4, <2>7 DEF MergeWrite, Commit
  <2> QED
    BY <1>6, <2>1, <2>2, <2>3, <2>4, <2>5, <2>6, <2>7
    DEF UpdateJob, Fetch, Merge
<1>7. CASE Admin
  <2>1. ASSUME NEW ks \in DeletableSets, DeleteWords(ks) PROVE Exclusive'
    <3>1. SameIdle
      BY <2>1 DEF DeleteWords, ViewSpoiled
    <3> QED
      BY <1>1, <2>1, <3>1 DEF DeleteWords
  <2>2. CASE RebuildItems \/ RebuildTags
    BY <1>2, <2>2 DEF RebuildItems, RebuildTags, jobVars
  <2> QED
    BY <1>7, <2>1, <2>2 DEF Admin
<1>8. CASE Database \/ \E c \in Checkpointers : WriteCheckpoint(c)
  BY <1>2, <1>8 DEF Database, WriteCheckpoint, CkptBegin, CkptKey, CkptRename,
                    CkptFails, jobVars
<1>9. CASE Machine
  BY <1>2, <1>5, <1>9
  DEF Machine, CrashRestart, PowerFailure, Writeback, jobVars
<1>10. CASE UNCHANGED vars
  BY <1>2, <1>10 DEF vars, jobVars
<1> QED
  BY <1>6, <1>7, <1>8, <1>9, <1>10 DEF Next

(* Two jobs never update at the same time (main.go:55, preventConcurrency),*)
(* however many goroutines cron has started.                               *)
THEOREM MutualExclusion == Spec => []OneUpdateAtATime
<1>1. Init => TypeOK /\ HasKeyToMerge /\ Exclusive
  BY InitType DEF Init, HasKeyToMerge, Exclusive, OneUpdateAtATime
<1>2. TypeOK /\ HasKeyToMerge /\ Exclusive /\ [Next]_vars
        => (TypeOK /\ HasKeyToMerge /\ Exclusive)'
  BY TypeStep, KeyToMergeStep, ExclusiveStep
<1>3. Exclusive => OneUpdateAtATime
  BY DEF Exclusive
<1> QED
  BY <1>1, <1>2, <1>3, PTL DEF Spec
-----------------------------------------------------------------------------
(* While a checkpoint is written, what is written equals what is stored:   *)
(* nobody writes the store while a checkpointer holds the read lock.       *)
FaithfulBuffers ==
  \A c \in writing :
    /\ buf[c].state = storeState
    /\ \A k \in Keys \ left[c] : buf[c].index[k] = index[k]

LEMMA BuffersStep ==
  ASSUME TypeOK, HasKeyToMerge, FaithfulBuffers, [Next]_vars
  PROVE  FaithfulBuffers'
<1>1. ASSUME UNCHANGED <<writing, buf, left, index, storeState>>
      PROVE  FaithfulBuffers'
  BY <1>1 DEF FaithfulBuffers
<1>2. ASSUME writing' = {} PROVE FaithfulBuffers'
  BY <1>2 DEF FaithfulBuffers
<1>3. ASSUME NEW c \in Checkpointers, CkptEnd(c),
             UNCHANGED <<index, storeState>>
      PROVE  FaithfulBuffers'
  BY <1>3 DEF CkptEnd, FaithfulBuffers, TypeOK
<1>4. ASSUME NEW c \in Checkpointers, CkptBegin(c) PROVE FaithfulBuffers'
  <2>1. ASSUME NEW k \in Keys \ Listed(index) PROVE EmptyIndex[k] = index[k]
    BY <2>1 DEF Listed, EmptyIndex
  <2>2. buf'[c].state = storeState /\ buf'[c].index = EmptyIndex
    BY <1>4 DEF CkptBegin, NoFile, TypeOK
  <2>3. left'[c] = Listed(index)
    BY <1>4 DEF CkptBegin, TypeOK
  <2>4. \A d \in writing' \ {c} : /\ d \in writing /\ buf'[d] = buf[d]
                                  /\ left'[d] = left[d]
    BY <1>4 DEF CkptBegin, TypeOK
  <2>5. UNCHANGED <<index, storeState>>
    BY <1>4 DEF CkptBegin, storeVars
  <2> QED
    BY <2>1, <2>2, <2>3, <2>4, <2>5 DEF FaithfulBuffers
<1>5. ASSUME NEW c \in Checkpointers, CkptKey(c) PROVE FaithfulBuffers'
  <2> DEFINE k == Least(left[c])
  <2>1. k \in Keys
    BY <1>5, LeastKey DEF CkptKey, TypeOK
  <2>2. /\ buf' = [buf EXCEPT ![c].index[k] = index[k]]
        /\ left' = [left EXCEPT ![c] = @ \ {k}]
        /\ UNCHANGED <<writing, index, storeState>>
    BY <1>5 DEF CkptKey, storeVars
  <2>3. /\ buf'[c].state = buf[c].state
        /\ \A h \in Keys : buf'[c].index[h] = IF h = k THEN index[k]
                                                       ELSE buf[c].index[h]
    BY <2>1, <2>2 DEF TypeOK, Snapshot, Index
  <2>4. left'[c] = left[c] \ {k}
    BY <2>2 DEF TypeOK
  <2>5. \A d \in writing \ {c} : buf'[d] = buf[d] /\ left'[d] = left[d]
    BY <2>2 DEF TypeOK
  <2> HIDE DEF k
  <2> QED
    BY <2>2, <2>3, <2>4, <2>5 DEF FaithfulBuffers
<1>6. ASSUME NEW j \in Jobs, UpdateJob(j) PROVE FaithfulBuffers'
  BY <1>1, <1>2, <1>6
  DEF UpdateJob, Fetch, Merge, JobStart, ReadState, FetchItems,
      QueryItemsFails, FetchTags, QueryTagsFails, TakeUpdateLock, MergeView,
      MergeRead, MergeReadDangling, MergeWrite, Commit, NoReaders,
      storeVars, ckptVars
<1>7. CASE Admin
  BY <1>2, <1>7 DEF Admin, DeleteWords, RebuildItems, RebuildTags, NoReaders,
                    ckptVars
<1>8. ASSUME NEW c \in Checkpointers, WriteCheckpoint(c) PROVE FaithfulBuffers'
  BY <1>3, <1>4, <1>5, <1>8 DEF WriteCheckpoint, CkptRename, CkptFails, storeVars
<1>9. CASE Machine
  BY <1>1, <1>2, <1>9 DEF Machine, CrashRestart, PowerFailure, Writeback,
                          Restart, ckptVars, storeVars
<1>10. CASE Database \/ UNCHANGED vars
  BY <1>1, <1>10 DEF Database, vars, ckptVars, storeVars
<1> QED
  BY <1>6, <1>7, <1>8, <1>9, <1>10 DEF Next

(* What CkptRename puts in the place of the file. *)
LEMMA RenamedFile ==
  ASSUME TypeOK, FaithfulBuffers, NEW c \in Checkpointers, CkptRename(c)
  PROVE  file' = [state |-> storeState, index |-> index]
<1>1. buf[c] \in Snapshot /\ c \in writing /\ left[c] = {} /\ file' = buf[c]
  BY DEF CkptRename, TypeOK
<1>2. buf[c].state = storeState /\ \A k \in Keys : buf[c].index[k] = index[k]
  BY <1>1 DEF FaithfulBuffers
<1>3. buf[c].index = index
  BY <1>1, <1>2 DEF TypeOK, Snapshot, Index
<1> QED
  BY <1>1, <1>2, <1>3 DEF Snapshot

(* A checkpoint file is the store at one moment: the one of the rename,    *)
(* for the lists and for the cursors alike (actions.go:116).               *)
THEOREM SnapshotTheorem == Spec => CheckpointIsSnapshot
<1> DEFINE Inv == TypeOK /\ HasKeyToMerge /\ FaithfulBuffers
           Step == \/ file' = file \/ faults' # faults
                   \/ file' = [state |-> storeState, index |-> index]
<1>1. Init => Inv
  BY InitType DEF Init, HasKeyToMerge, FaithfulBuffers
<1>2. Inv /\ [Next]_vars => Inv'
  BY TypeStep, KeyToMergeStep, BuffersStep
<1>3. Inv /\ [Next]_vars => [Step]_vars
  <2> SUFFICES ASSUME Inv, Next PROVE Step
    OBVIOUS
  <2>1. ASSUME NEW c \in Checkpointers, WriteCheckpoint(c) PROVE Step
    BY <2>1, RenamedFile
    DEF WriteCheckpoint, CkptBegin, CkptKey, CkptFails, diskVars
  <2>2. CASE Machine
    BY <2>2 DEF Machine, CrashRestart, PowerFailure, Writeback, Fault, diskVars,
                TypeOK
  <2>3. CASE Database \/ Admin
    BY <2>3 DEF Database, Admin, DeleteWords, RebuildItems, RebuildTags, diskVars
  <2>4. ASSUME NEW j \in Jobs, UpdateJob(j) PROVE Step
    BY <2>4
    DEF UpdateJob, Fetch, Merge, JobStart, ReadState, FetchItems,
        QueryItemsFails, FetchTags, QueryTagsFails, TakeUpdateLock, MergeView,
        MergeRead, MergeReadDangling, MergeWrite, Commit, diskVars
  <2> QED
    BY <2>1, <2>2, <2>3, <2>4 DEF Next
<1> QED
  BY <1>1, <1>2, <1>3, PTL DEF Spec, CheckpointIsSnapshot

-----------------------------------------------------------------------------
(* What a job has fetched is in its rows until it is built, then in its    *)
(* updates until it is merged, and nowhere else.                           *)
Building == {"lock"} \cup Merging

Batches ==
  \A j \in Jobs :
    /\ pc[j] # "tags" => rows[j] = <<>>
    /\ pc[j] \notin Building => updates[j] = EmptyIndex

(* An index without a list is the empty one. *)
LEMMA NothingListed ==
  ASSUME NEW ix \in Index, Listed(ix) = {}
  PROVE  ix = EmptyIndex
<1>1. \A k \in Keys : ix[k] = {}
  BY DEF Listed
<1> QED
  BY <1>1 DEF Index, EmptyIndex

LEMMA BatchesStep ==
  ASSUME TypeOK, HasKeyToMerge, Batches, [Next]_vars
  PROVE  Batches'
<1> USE DEF Building, Merging
<1> DEFINE Fine(i) == /\ pc'[i] # "tags" => rows'[i] = <<>>
                      /\ pc'[i] \notin Building => updates'[i] = EmptyIndex
           Steady(i) == /\ pc'[i] = pc[i] /\ rows'[i] = rows[i]
                        /\ updates'[i] = updates[i]
<1>1. SUFFICES ASSUME NEW i \in Jobs PROVE Fine(i)
  BY DEF Batches
<1>2. ASSUME Steady(i) PROVE Fine(i)
  BY <1>2 DEF Batches
<1>3. ASSUME UNCHANGED <<pc, rows, updates>> PROVE Fine(i)
  BY <1>2, <1>3
<1>4. ASSUME NEW j \in Jobs, JobEnd(j) PROVE Fine(i)
  <2>1. i # j => Steady(i)
    BY <1>4 DEF JobEnd, Goto, TypeOK
  <2>2. i = j => /\ pc'[i] = "idle" /\ rows'[i] = <<>>
                 /\ updates'[i] = EmptyIndex
    BY <1>4 DEF JobEnd, Goto, TypeOK
  <2> QED
    BY <1>2, <2>1, <2>2
<1>5. ASSUME NEW snapshot, Restart(snapshot) PROVE Fine(i)
  BY <1>5 DEF Restart
<1>6. ASSUME NEW j \in Jobs, NEW pushed, BuildUpdates(j, pushed)
      PROVE  Fine(i)
  <2>1. i # j => Steady(i)
    BY <1>6 DEF BuildUpdates, Goto, TypeOK
  <2>2. i = j => pc'[i] = "lock" /\ rows'[i] = <<>>
    BY <1>6 DEF BuildUpdates, Goto, TypeOK
  <2> QED
    BY <1>2, <2>1, <2>2
<1>7. ASSUME NEW j \in Jobs, UpdateJob(j) PROVE Fine(i)
  <2>1. CASE JobStart(j) \/ ReadState(j)
    BY <1>2, <2>1 DEF JobStart, ReadState, Goto, TypeOK, Batches
  <2>2. CASE FetchItems(j)
    <3>1. i # j => Steady(i)
      BY <2>2 DEF FetchItems, ConsumeItems, Goto, TypeOK
    <3>2. i = j => pc'[i] = "tags" /\ updates'[i] = EmptyIndex
      BY <2>2 DEF FetchItems, Goto, TypeOK, Batches
    <3> QED
      BY <1>2, <3>1, <3>2
  <2>3. CASE QueryItemsFails(j)
    BY <1>2, <2>3 DEF QueryItemsFails, Goto, TypeOK, Batches
  <2>4. CASE FetchTags(j) \/ QueryTagsFails(j)
    BY <1>4, <1>6, <2>4 DEF FetchTags, QueryTagsFails, BuildPanics
  <2>5. CASE TakeUpdateLock(j) \/ MergeView(j)
    BY <1>2, <2>5 DEF TakeUpdateLock, MergeView, Goto, TypeOK, Batches
  <2>6. ASSUME NEW values, MergeList(j, values), UNCHANGED rows,
               pc[j] \in {"view", "dangling"}
        PROVE  Fine(i)
    <3>1. i # j => Steady(i)
      BY <2>6 DEF MergeList, Merged, Goto, TypeOK
    <3>2. i = j => pc'[i] \in {"merge", "write"} /\ rows'[i] = <<>>
      BY <2>6 DEF MergeList, Goto, TypeOK, Batches
    <3> QED
      BY <1>2, <3>1, <3>2
  <2>7. CASE MergeRead(j) \/ MergeReadDangling(j)
    BY <1>4, <2>6, <2>7 DEF MergeRead, MergeReadDangling
  <2>8. CASE MergeWrite(j)
    <3>1. i # j => Steady(i)
      BY <2>8 DEF MergeWrite, Merged, Goto, TypeOK
    <3>2. i = j => pc'[i] = "merge" /\ rows'[i] = <<>>
      BY <2>8 DEF MergeWrite, Goto, TypeOK, Batches
    <3> QED
      BY <1>2, <3>1, <3>2
  <2>9. CASE Commit(j)
    <3>1. CASE JobEnd(j)
      BY <1>4, <3>1
    <3>2. CASE Goto(j, "state") /\ UNCHANGED <<rows, updates>>
      <4>1. i # j => Steady(i)
        BY <3>2 DEF Goto, TypeOK
      <4>2. updates[j] = EmptyIndex
        BY <2>9, NothingListed DEF Commit, TypeOK
      <4>3. i = j => rows'[i] = <<>> /\ updates'[i] = EmptyIndex
        BY <2>9, <3>2, <4>2 DEF Commit, Batches
      <4> QED
        BY <1>2, <3>2, <4>1, <4>3 DEF Goto, TypeOK
    <3> QED
      BY <2>9, <3>1, <3>2 DEF Commit
  <2> QED
    BY <1>7, <2>1, <2>2, <2>3, <2>4, <2>5, <2>7, <2>8, <2>9
    DEF UpdateJob, Fetch, Merge
<1>8. CASE Admin
  <2>1. ASSUME NEW ks \in DeletableSets, DeleteWords(ks) PROVE Fine(i)
    <3>1. pc'[i] = pc[i] \/ (pc'[i] = "dangling" /\ pc[i] = "view")
      BY <2>1 DEF DeleteWords, ViewSpoiled
    <3>2. rows'[i] = rows[i] /\ updates'[i] = updates[i]
      BY <2>1 DEF DeleteWords
    <3> QED
      BY <3>1, <3>2 DEF Batches
  <2>2. CASE RebuildItems \/ RebuildTags
    BY <1>3, <2>2 DEF RebuildItems, RebuildTags, jobVars
  <2> QED
    BY <1>8, <2>1, <2>2 DEF Admin
<1>9. CASE Database \/ \E c \in Checkpointers : WriteCheckpoint(c)
  BY <1>3, <1>9 DEF Database, WriteCheckpoint, CkptBegin, CkptKey, CkptRename,
                    CkptFails, jobVars
<1>10. CASE Machine
  BY <1>3, <1>5, <1>10
  DEF Machine, CrashRestart, PowerFailure, Writeback, jobVars
<1>11. CASE UNCHANGED vars
  BY <1>3, <1>11 DEF vars, jobVars
<1> QED
  BY <1>7, <1>8, <1>9, <1>10, <1>11 DEF Next
-----------------------------------------------------------------------------
(* No cursor is ahead of the database: a row that is saved or updated from *)
(* now on is not before a cursor.                                          *)
AtMost(st, time, id) ==
  st.LastItemUpdateTime <= time /\ st.LastTagId <= id

CursorsBehind(st) == AtMost(st, now, Len(tags))

(* A post that was never saved has no keys. *)
PostsSaved ==
  \A p \in Posts :
    /\ items[p].updated <= now
    /\ items[p].updated = 0 => items[p].keys = {}

NoCursorAhead ==
  /\ PostsSaved
  /\ CursorsBehind(storeState) /\ CursorsBehind(file.state)
  /\ \A j \in Jobs : CursorsBehind(next[j])

LEMMA StartBehind ==
  ASSUME DBTypeOK PROVE CursorsBehind(InitState) /\ CursorsBehind(NoFile.state)
BY LenProperties DEF DBTypeOK, CursorsBehind, AtMost, InitState, NoFile

(* Time goes on, and no row of the table tags goes away. *)
LEMMA DatabaseGrows ==
  ASSUME DBTypeOK, PostsSaved, DBNext
  PROVE  PostsSaved' /\ now <= now' /\ Len(tags) <= Len(tags')
<1>1. ASSUME NEW p \in Posts, NEW ks \in PostKeySets, NEW t \in 1..MaxTime,
             SavePost(p, ks, t)
      PROVE  PostsSaved' /\ now <= now' /\ Len(tags) <= Len(tags')
  <2>1. t \in Nat /\ now \in Nat /\ now <= t /\ t # 0 /\ now' = t
    BY <1>1, DatabaseAssumption DEF SavePost, DBTypeOK
  <2>2. /\ items'[p].updated = t
        /\ \A q \in Posts \ {p} : items'[q] = items[q]
    BY <1>1 DEF SavePost, DBTypeOK
  <2>3. \A q \in Posts : items[q].updated \in Nat
    BY DEF DBTypeOK
  <2>4. tags' = tags /\ Len(tags) \in Nat
    BY <1>1, LenProperties DEF SavePost, DBTypeOK
  <2> QED
    BY <2>1, <2>2, <2>3, <2>4 DEF PostsSaved
<1>2. ASSUME NEW p \in Posts, NEW ks \in TagKeySets, AddTag(p, ks)
      PROVE  PostsSaved' /\ now <= now' /\ Len(tags) <= Len(tags')
  <2>1. Len(tags) \in Nat /\ Len(tags') = Len(tags) + 1
    <3>1. [item |-> p, keys |-> ks] \in Row
      BY DatabaseAssumption DEF Row
    <3> QED
      BY <1>2, <3>1, AppendProperties, LenProperties DEF AddTag, DBTypeOK
  <2>2. UNCHANGED <<items, now>> /\ now \in Nat
    BY <1>2 DEF AddTag, DBTypeOK
  <2> QED
    BY <2>1, <2>2 DEF PostsSaved
<1> QED
  BY <1>1, <1>2 DEF DBNext

(* What a page of posts does to the cursor: it moves to the last one. *)
LEMMA ItemCursor ==
  ASSUME DBTypeOK, PostsSaved, NEW c \in Nat, c <= now, NEW page \in ItemPages(c)
  PROVE  LET d == IF page = <<>> THEN c ELSE items[page[Len(page)]].updated
         IN d \in Nat /\ c <= d /\ d <= now
<1> DEFINE d == IF page = <<>> THEN c ELSE items[page[Len(page)]].updated
<1>1. page \in Seq(Posts) /\ IsItemPage(page, c)
  BY ItemPageType
<1>2. CASE page = <<>>
  BY <1>2
<1>3. CASE page # <<>>
  <2>1. Len(page) \in DOMAIN page /\ page[Len(page)] \in Posts
    BY <1>1, <1>3, LenProperties, EmptySeq, ElementOfSeq
  <2>2. ItemMatches(page[Len(page)], c)
    BY <1>1, <2>1 DEF IsItemPage
  <2> QED
    BY <1>3, <2>1, <2>2 DEF ItemMatches, PostsSaved, DBTypeOK
<1> QED
  BY <1>2, <1>3

(* The same of a page of tags. *)
LEMMA TagCursorMoves ==
  ASSUME DBTypeOK, NEW c \in Nat, c <= Len(tags)
  PROVE  LET d == IF TagPage(c) = <<>> THEN c ELSE LastTag(c)
         IN d \in Nat /\ c <= d /\ d <= Len(tags)
<1>1. CASE TagPage(c) = <<>>
  BY <1>1
<1>2. CASE TagPage(c) # <<>>
  <2>1. LastTag(c) \in Nat /\ LastTag(c) <= Len(tags)
    BY <1>2, TagCursor, TagPageType
  <2>2. Len(TagPage(c)) # 0
    BY <1>2, TagPageType, EmptySeq
  <2>3. FirstTag(c) <= LastTag(c)
    BY <2>2, TagPageType
  <2>4. c <= FirstTag(c) /\ FirstTag(c) \in Nat
    BY DEF FirstTag
  <2> QED
    BY <1>2, <2>1, <2>3, <2>4
<1> QED
  BY <1>1, <1>2

(* What a step of a job does to its own cursors: nothing, the start of an  *)
(* update, or one of the two queries.  The cursors of the others stay.     *)
CursorStep(j) ==
  \/ next'[j] = next[j] /\ (pc'[j] \in {"idle", "state"} \/ pc[j] \notin {"idle", "state"})
  \/ next'[j] = InitState /\ pc'[j] \in {"idle", "state"}
  \/ next'[j] = storeState
  \/ /\ pc[j] \in {"items", "tags"} /\ CursorsBehind(next'[j])
     /\ AtMost(next[j], next'[j].LastItemUpdateTime, next'[j].LastTagId)

LEMMA JobCursors ==
  ASSUME TypeOK, NoCursorAhead, NEW j \in Jobs, UpdateJob(j)
  PROVE  /\ CursorStep(j)
         /\ \A i \in Jobs \ {j} : next'[i] = next[i] /\ pc'[i] = pc[i]
<1> USE DEF CursorStep
<1>1. ASSUME JobEnd(j)
      PROVE  /\ CursorStep(j)
             /\ \A i \in Jobs \ {j} : next'[i] = next[i] /\ pc'[i] = pc[i]
  BY <1>1 DEF JobEnd, Goto, TypeOK
<1>2. CASE JobStart(j)
  BY <1>2 DEF JobStart, Goto, TypeOK
<1>3. CASE ReadState(j)
  BY <1>3 DEF ReadState, Goto, TypeOK
<1>4. CASE FetchItems(j)
  <2>1. PICK page \in ItemPages(next[j].LastItemUpdateTime) :
          ConsumeItems(j, page)
    BY <1>4 DEF FetchItems
  <2> DEFINE c == next[j].LastItemUpdateTime
             d == IF page = <<>> THEN c ELSE items[page[Len(page)]].updated
  <2>2. next[j] \in StoreState /\ CursorsBehind(next[j])
    BY DEF TypeOK, NoCursorAhead
  <2>3. c \in Nat /\ c <= now /\ next[j].LastTagId \in Nat
        /\ next[j].LastTagId <= Len(tags)
    BY <2>2 DEF StoreState, CursorsBehind, AtMost
  <2>4. d \in Nat /\ c <= d /\ d <= now
    BY <2>3, ItemCursor DEF TypeOK, NoCursorAhead
  <2>5. /\ next'[j].LastItemUpdateTime = d
        /\ next'[j].LastTagId = next[j].LastTagId
        /\ \A i \in Jobs \ {j} : next'[i] = next[i]
    BY <2>1, <2>2 DEF ConsumeItems, TypeOK, StoreState
  <2>6. pc[j] = "items" /\ \A i \in Jobs \ {j} : pc'[i] = pc[i]
    BY <1>4 DEF FetchItems, Goto, TypeOK
  <2> HIDE DEF d
  <2>7. /\ CursorsBehind(next'[j])
        /\ AtMost(next[j], next'[j].LastItemUpdateTime, next'[j].LastTagId)
    BY <2>3, <2>4, <2>5 DEF CursorsBehind, AtMost
  <2> QED
    BY <2>5, <2>6, <2>7
<1>5. CASE QueryItemsFails(j)
  BY <1>5 DEF QueryItemsFails, Goto, TypeOK
<1>6. ASSUME NEW pushed, BuildUpdates(j, pushed), pc[j] = "tags"
      PROVE  \A i \in Jobs \ {j} : pc'[i] = pc[i]
  BY <1>6 DEF BuildUpdates, Goto, TypeOK
<1>7. CASE FetchTags(j)
  <2> DEFINE c == next[j].LastTagId
             page == TagPage(c)
             d == IF page = <<>> THEN c ELSE LastTag(c)
  <2>1. CASE BuildPanics(j, rows[j] \o page)
    BY <1>1, <2>1 DEF BuildPanics
  <2>2. CASE /\ BuildUpdates(j, rows[j] \o page)
             /\ next' = [next EXCEPT ![j].LastTagId = d]
    <3>1. next[j] \in StoreState /\ CursorsBehind(next[j])
      BY DEF TypeOK, NoCursorAhead
    <3>2. c \in Nat /\ c <= Len(tags) /\ next[j].LastItemUpdateTime \in Nat
          /\ next[j].LastItemUpdateTime <= now
      BY <3>1 DEF StoreState, CursorsBehind, AtMost
    <3>3. d \in Nat /\ c <= d /\ d <= Len(tags)
      BY <3>2, TagCursorMoves DEF TypeOK
    <3> HIDE DEF d
    <3>4. /\ next'[j].LastTagId = d
          /\ next'[j].LastItemUpdateTime = next[j].LastItemUpdateTime
          /\ \A i \in Jobs \ {j} : next'[i] = next[i]
      BY <2>2, <3>1 DEF TypeOK, StoreState
    <3>5. pc[j] = "tags"
      BY <1>7 DEF FetchTags
    <3>6. /\ CursorsBehind(next'[j])
          /\ AtMost(next[j], next'[j].LastItemUpdateTime, next'[j].LastTagId)
      BY <3>2, <3>3, <3>4 DEF CursorsBehind, AtMost
    <3> QED
      BY <1>6, <2>2, <3>4, <3>5, <3>6
  <2> QED
    BY <1>7, <2>1, <2>2 DEF FetchTags
<1>8. CASE QueryTagsFails(j)
  BY <1>1, <1>6, <1>8 DEF QueryTagsFails, BuildPanics
<1>9. CASE TakeUpdateLock(j) \/ MergeView(j)
  BY <1>9 DEF TakeUpdateLock, MergeView, Goto, TypeOK
<1>10. CASE MergeRead(j) \/ MergeReadDangling(j)
  BY <1>1, <1>10 DEF MergeRead, MergeReadDangling, MergeList, Goto, TypeOK
<1>11. CASE MergeWrite(j)
  BY <1>11 DEF MergeWrite, Goto, TypeOK
<1>12. CASE Commit(j)
  BY <1>1, <1>12 DEF Commit, Goto, TypeOK
<1> QED
  BY <1>2, <1>3, <1>4, <1>5, <1>7, <1>8, <1>9, <1>10, <1>11, <1>12
  DEF UpdateJob, Fetch, Merge

(* What a step of a job leaves alone. *)
LEMMA JobLeaves ==
  ASSUME NEW j \in Jobs, UpdateJob(j)
  PROVE  /\ UNCHANGED <<dbVars, diskVars, ckptVars, dropped, requests>>
         /\ storeState' = storeState \/ (Commit(j) /\ storeState' = next[j])
         /\ index' = index \/ MergeWrite(j)
         /\ misread' = misread \/ misread' = TRUE
BY DEF UpdateJob, Fetch, Merge, JobStart, ReadState, FetchItems,
       QueryItemsFails, FetchTags, QueryTagsFails, TakeUpdateLock, MergeView,
       MergeRead, MergeReadDangling, MergeWrite, Commit, storeVars, history

(* A state that is behind stays behind, whatever the database does. *)
LEMMA StaysBehind ==
  ASSUME TypeOK, TypeOK', NEW st \in StoreState, CursorsBehind(st),
         now <= now', Len(tags) <= Len(tags')
  PROVE  AtMost(st, now', Len(tags'))
<1>1. /\ now \in Nat /\ now' \in Nat
      /\ Len(tags) \in Nat /\ Len(tags') \in Nat
  BY LenProperties DEF TypeOK, DBTypeOK
<1> QED
  BY <1>1 DEF CursorsBehind, AtMost, StoreState

LEMMA NoCursorAheadStep ==
  ASSUME TypeOK, TypeOK', FaithfulBuffers, NoCursorAhead, [Next]_vars
  PROVE  NoCursorAhead'
<1> USE DEF NoCursorAhead
<1>1. ASSUME UNCHANGED dbVars,
             CursorsBehind(storeState'), CursorsBehind(file'.state),
             \A j \in Jobs : CursorsBehind(next'[j])
      PROVE  NoCursorAhead'
  BY <1>1 DEF dbVars, PostsSaved, CursorsBehind
<1>2. ASSUME UNCHANGED <<dbVars, storeState, file, next>> PROVE NoCursorAhead'
  BY <1>1, <1>2
<1>3. CursorsBehind(InitState) /\ CursorsBehind(NoFile.state)
  BY StartBehind DEF TypeOK
<1>4. ASSUME NEW snapshot, Restart(snapshot), UNCHANGED dbVars,
             CursorsBehind(snapshot.state), CursorsBehind(file'.state)
      PROVE  NoCursorAhead'
  BY <1>1, <1>3, <1>4 DEF Restart
<1>5. CASE Database
  <2>1. PostsSaved' /\ now <= now' /\ Len(tags) <= Len(tags')
    BY <1>5, DatabaseGrows DEF Database, TypeOK
  <2>2. /\ storeState \in StoreState /\ file.state \in StoreState
        /\ \A j \in Jobs : next[j] \in StoreState
    BY DEF TypeOK, Snapshot
  <2>3. UNCHANGED <<storeState, file, next>>
    BY <1>5 DEF Database, storeVars, diskVars, jobVars
  <2> QED
    BY <2>1, <2>2, <2>3, StaysBehind DEF CursorsBehind
<1>6. ASSUME NEW j \in Jobs, UpdateJob(j) PROVE NoCursorAhead'
  <2>1. /\ UNCHANGED dbVars /\ file' = file
        /\ storeState' = storeState \/ storeState' = next[j]
    BY <1>6, JobLeaves DEF diskVars
  <2>2. CursorsBehind(next'[j])
    BY <1>3, <1>6, JobCursors DEF CursorStep
  <2>3. \A i \in Jobs \ {j} : next'[i] = next[i]
    BY <1>6, JobCursors
  <2> QED
    BY <1>1, <2>1, <2>2, <2>3
<1>7. CASE Admin
  <2>1. UNCHANGED <<dbVars, file, next>>
    BY <1>7 DEF Admin, DeleteWords, RebuildItems, RebuildTags, diskVars, jobVars
  <2>2. \/ storeState' = storeState
        \/ storeState' = [storeState EXCEPT !.LastItemUpdateTime = 0]
        \/ storeState' = [storeState EXCEPT !.LastTagId = 0]
    BY <1>7 DEF Admin, DeleteWords, RebuildItems, RebuildTags
  <2>3. now \in Nat /\ Len(tags) \in Nat
    BY LenProperties DEF TypeOK, DBTypeOK
  <2>4. storeState \in StoreState /\ CursorsBehind(storeState)
    BY DEF TypeOK
  <2>5. CursorsBehind(storeState')
    BY <2>2, <2>3, <2>4 DEF CursorsBehind, AtMost, StoreState
  <2> QED
    BY <1>1, <2>1, <2>5
<1>8. ASSUME NEW c \in Checkpointers, WriteCheckpoint(c) PROVE NoCursorAhead'
  <2>1. CASE CkptRename(c)
    <3>1. file'.state = storeState
      BY <2>1, RenamedFile
    <3>2. UNCHANGED <<dbVars, storeState, next>>
      BY <2>1 DEF CkptRename, storeVars, jobVars
    <3> QED
      BY <1>1, <3>1, <3>2
  <2>2. CASE ~CkptRename(c)
    BY <1>2, <1>8, <2>2 DEF WriteCheckpoint, CkptBegin, CkptKey, CkptFails,
                            storeVars, diskVars, jobVars
  <2> QED
    BY <2>1, <2>2
<1>9. CASE Machine
  <2>1. CASE CrashRestart
    BY <1>4, <2>1 DEF CrashRestart, diskVars
  <2>2. CASE PowerFailure
    <3>1. PICK part \in {NoFile} \cup {PartBefore(k) : k \in Keys} :
            file' = part /\ Restart(part)
      BY <2>2 DEF PowerFailure
    <3>2. UNCHANGED dbVars
      BY <2>2 DEF PowerFailure
    <3>3. \A k \in Keys : PartBefore(k).state = file.state
      BY DEF PartBefore, TypeOK, Snapshot
    <3>4. CursorsBehind(part.state)
      BY <1>3, <3>1, <3>3
    <3> QED
      BY <1>4, <3>1, <3>2, <3>4
  <2>3. CASE Writeback
    BY <1>2, <2>3 DEF Writeback, storeVars, jobVars
  <2> QED
    BY <1>9, <2>1, <2>2, <2>3 DEF Machine
<1>10. CASE UNCHANGED vars
  BY <1>2, <1>10 DEF vars, storeVars, diskVars, jobVars
<1> QED
  BY <1>5, <1>6, <1>7, <1>8, <1>9, <1>10 DEF Next

(* The first row has an id of its own, and no post was saved at the start. *)
LEMMA NoCursorAheadInit == Init => NoCursorAhead /\ Batches
<1> SUFFICES ASSUME Init PROVE NoCursorAhead /\ Batches
  OBVIOUS
<1>1. TypeOK
  BY InitType
<1>2. CursorsBehind(InitState) /\ CursorsBehind(NoFile.state)
  BY <1>1, StartBehind DEF TypeOK
<1>3. items = [p \in Posts |-> [updated |-> 0, keys |-> {}]] /\ now = 0
  BY DEF Init, DBInit
<1>4. PostsSaved
  <2>1. \A p \in Posts : items[p].updated = 0 /\ items[p].keys = {}
    BY <1>3
  <2>2. now = 0 /\ 0 <= 0
    BY <1>3
  <2>3. \A p \in Posts : items[p].updated <= now
    BY <2>1, <2>2
  <2> QED
    BY <2>1, <2>3 DEF PostsSaved
<1> QED
  BY <1>2, <1>4 DEF Init, NoCursorAhead, Batches
-----------------------------------------------------------------------------
(* An update starts at the cursors of the store, and nobody else moves     *)
(* them while it runs, except back to the start.                           *)
CursorsKept ==
  \A j \in Jobs :
    pc[j] \notin {"idle", "state"} =>
      AtMost(storeState, next[j].LastItemUpdateTime, next[j].LastTagId)

LEMMA AtMostTransitive ==
  ASSUME NEW r \in StoreState, NEW s \in StoreState, NEW t \in StoreState,
         AtMost(r, s.LastItemUpdateTime, s.LastTagId),
         AtMost(s, t.LastItemUpdateTime, t.LastTagId)
  PROVE  AtMost(r, t.LastItemUpdateTime, t.LastTagId)
BY DEF AtMost, StoreState

(* After a commit no job is in the middle of an update. *)
LEMMA CommitEnds ==
  ASSUME TypeOK, Exclusive, NEW j \in Jobs, Commit(j)
  PROVE  \A i \in Jobs : pc'[i] \in {"idle", "state"}
<1>1. \A i \in Jobs \ {j} : pc[i] = "idle"
  BY DEF Commit, Exclusive, OneUpdateAtATime
<1>2. Goto(j, "state") \/ Goto(j, "idle")
  BY DEF Commit, JobEnd
<1>3. pc \in [Jobs -> Steps]
  BY DEF TypeOK
<1> QED
  BY <1>1, <1>2, <1>3 DEF Goto

LEMMA CursorsKeptStep ==
  ASSUME TypeOK, TypeOK', Exclusive, NoCursorAhead, CursorsKept, [Next]_vars
  PROVE  CursorsKept'
<1>1. ASSUME UNCHANGED <<storeState, pc, next>> PROVE CursorsKept'
  BY <1>1 DEF CursorsKept
<1>2. ASSUME \A i \in Jobs : pc'[i] \in {"idle", "state"} PROVE CursorsKept'
  BY <1>2 DEF CursorsKept
<1>3. ASSUME NEW j \in Jobs, UpdateJob(j) PROVE CursorsKept'
  <2>1. CASE Commit(j)
    BY <1>2, <2>1, CommitEnds
  <2>2. CASE ~Commit(j)
    <3>1. storeState' = storeState
      BY <1>3, <2>2, JobLeaves
    <3>2. \A i \in Jobs \ {j} : next'[i] = next[i] /\ pc'[i] = pc[i]
      BY <1>3, JobCursors
    <3>3. /\ storeState \in StoreState
          /\ next[j] \in StoreState /\ next'[j] \in StoreState
      BY DEF TypeOK
    <3>4. pc'[j] \notin {"idle", "state"} =>
            AtMost(storeState, next'[j].LastItemUpdateTime, next'[j].LastTagId)
      <4>1. AtMost(storeState, storeState.LastItemUpdateTime,
                   storeState.LastTagId)
        BY <3>3 DEF AtMost, StoreState
      <4>2. CursorStep(j)
        BY <1>3, JobCursors
      <4>3. CASE /\ pc[j] \in {"items", "tags"}
                 /\ AtMost(next[j], next'[j].LastItemUpdateTime,
                           next'[j].LastTagId)
        <5>1. AtMost(storeState, next[j].LastItemUpdateTime, next[j].LastTagId)
          BY <4>3 DEF CursorsKept
        <5> QED
          BY <3>3, <4>3, <5>1, AtMostTransitive
      <4> QED
        BY <4>1, <4>2, <4>3 DEF CursorStep, CursorsKept
    <3> QED
      BY <3>1, <3>2, <3>4 DEF CursorsKept
  <2> QED
    BY <2>1, <2>2
<1>4. CASE Admin
  <2>1. /\ next' = next
        /\ \A j \in Jobs : pc'[j] \in {"idle", "state"} <=> pc[j] \in {"idle", "state"}
    BY <1>4 DEF Admin, DeleteWords, ViewSpoiled, RebuildItems, RebuildTags, jobVars
  <2>2. \/ storeState' = storeState
        \/ storeState' = [storeState EXCEPT !.LastItemUpdateTime = 0]
        \/ storeState' = [storeState EXCEPT !.LastTagId = 0]
    BY <1>4 DEF Admin, DeleteWords, RebuildItems, RebuildTags
  <2>3. storeState \in StoreState /\ storeState' \in StoreState
    BY DEF TypeOK
  <2>4. AtMost(storeState', storeState.LastItemUpdateTime, storeState.LastTagId)
    BY <2>2, <2>3 DEF AtMost, StoreState
  <2>5. \A j \in Jobs : next[j] \in StoreState
    BY DEF TypeOK
  <2> QED
    BY <2>1, <2>3, <2>4, <2>5, AtMostTransitive DEF CursorsKept
<1>5. CASE Database \/ \E c \in Checkpointers : WriteCheckpoint(c)
  BY <1>1, <1>5 DEF Database, WriteCheckpoint, CkptBegin, CkptKey, CkptRename,
                    CkptFails, storeVars, jobVars
<1>6. CASE Machine
  BY <1>1, <1>2, <1>6 DEF Machine, CrashRestart, PowerFailure, Writeback,
                          Restart, storeVars, jobVars
<1>7. CASE UNCHANGED vars
  BY <1>1, <1>7 DEF vars, storeVars, jobVars
<1> QED
  BY <1>3, <1>4, <1>5, <1>6, <1>7 DEF Next

(* What the theorems of StoreActionsProofs and the two invariants above    *)
(* say together.                                                           *)
Kept ==
  /\ TypeOK /\ HasKeyToMerge /\ Exclusive /\ FaithfulBuffers
  /\ Batches /\ NoCursorAhead /\ CursorsKept

LEMMA KeptInit == Init => Kept
<1> SUFFICES ASSUME Init PROVE Kept
  OBVIOUS
<1>1. TypeOK
  BY InitType
<1>2. NoCursorAhead /\ Batches
  BY NoCursorAheadInit
<1>3. HasKeyToMerge /\ Exclusive /\ FaithfulBuffers /\ CursorsKept
  BY DEF Init, HasKeyToMerge, Exclusive, OneUpdateAtATime, FaithfulBuffers,
         CursorsKept
<1> QED
  BY <1>1, <1>2, <1>3 DEF Kept

LEMMA KeptStep == Kept /\ [Next]_vars => Kept'
<1> SUFFICES ASSUME Kept, [Next]_vars PROVE Kept'
  OBVIOUS
<1> USE DEF Kept
<1>1. TypeOK' /\ HasKeyToMerge'
  BY TypeStep, KeyToMergeStep
<1>2. Exclusive' /\ FaithfulBuffers' /\ Batches'
  BY ExclusiveStep, BuffersStep, BatchesStep
<1>3. NoCursorAhead' /\ CursorsKept'
  BY <1>1, NoCursorAheadStep, CursorsKeptStep
<1> QED
  BY <1>1, <1>2, <1>3

(* No update that commits moves a cursor back (actions.go:94-101): only an *)
(* administrator's rebuild (restapi.go:59-69) and a restart do.            *)
THEOREM CursorsAdvanceTheorem == Spec => CursorsAdvance
<1> DEFINE Step == \/ requests' # requests \/ faults' # faults
                   \/ /\ storeState.LastTagId <= storeState'.LastTagId
                      /\ storeState.LastItemUpdateTime
                           <= storeState'.LastItemUpdateTime
<1>1. Kept /\ [Next]_vars => [Step]_vars
  <2> SUFFICES ASSUME Kept, Next PROVE Step
    OBVIOUS
  <2>1. storeState \in StoreState /\ requests \in Nat /\ faults \in Nat
    BY DEF Kept, TypeOK
  <2>2. ASSUME storeState' = storeState PROVE Step
    BY <2>1, <2>2 DEF StoreState
  <2>3. ASSUME NEW j \in Jobs, UpdateJob(j) PROVE Step
    <3>1. CASE Commit(j) /\ storeState' = next[j]
      BY <3>1 DEF Commit, Kept, CursorsKept, AtMost
    <3> QED
      BY <2>2, <2>3, <3>1, JobLeaves
  <2>4. CASE Admin
    BY <2>1, <2>4 DEF Admin, DeleteWords, RebuildItems, RebuildTags, Request
  <2>5. CASE Database \/ \E c \in Checkpointers : WriteCheckpoint(c)
    BY <2>2, <2>5 DEF Database, WriteCheckpoint, CkptBegin, CkptKey, CkptRename,
                      CkptFails, storeVars
  <2>6. CASE Machine
    BY <2>1, <2>2, <2>6 DEF Machine, CrashRestart, PowerFailure, Writeback,
                            Fault, storeVars
  <2> QED
    BY <2>3, <2>4, <2>5, <2>6 DEF Next
<1> QED
  BY <1>1, KeptInit, KeptStep, PTL DEF Spec, CursorsAdvance
-----------------------------------------------------------------------------
(* What a job has read of a list is still there when it writes: only an    *)
(* administrator changes the lists besides the one job that merges.        *)
ValuesFresh ==
  \/ misread
  \/ \A j \in Jobs :
       pc[j] = "write" => index[KeyToMerge(j)] \subseteq vals[j]

(* The key a job is merging is a key. *)
LEMMA MergedKey ==
  ASSUME TypeOK, HasKeyToMerge, NEW j \in Jobs,
         pc[j] \in {"view", "dangling", "write"}
  PROVE  KeyToMerge(j) \in Keys
<1>1. Listed(updates[j]) # {} /\ Listed(updates[j]) \subseteq Keys
  BY DEF HasKeyToMerge, Listed
<1> QED
  BY <1>1, LeastKey DEF KeyToMerge

(* While a job takes a step, the others rest. *)
LEMMA OthersIdle ==
  ASSUME Exclusive, NEW j \in Jobs, UpdateJob(j)
  PROVE  \A i \in Jobs \ {j} : pc[i] = "idle"
<1>1. CASE JobStart(j)
  BY <1>1 DEF JobStart, GuardFree, Exclusive
<1>2. CASE ~JobStart(j)
  <2>1. pc[j] # "idle"
    BY <1>2 DEF UpdateJob, Fetch, Merge, ReadState, FetchItems,
                QueryItemsFails, FetchTags, QueryTagsFails, TakeUpdateLock,
                MergeView, MergeRead, MergeReadDangling, MergeWrite, Commit
  <2> QED
    BY <2>1 DEF Exclusive, OneUpdateAtATime
<1> QED
  BY <1>1, <1>2

(* How a job comes to write a list: it has just read it. *)
LEMMA WriteAfterRead ==
  ASSUME TypeOK, NEW j \in Jobs, UpdateJob(j), pc'[j] = "write"
  PROVE  \/ misread'
         \/ MergeRead(j) /\ vals'[j] = index[KeyToMerge(j)] /\ updates' = updates
<1>1. pc \in [Jobs -> Steps] /\ vals \in [Jobs -> SUBSET Posts]
  BY DEF TypeOK
<1>2. \A step : Goto(j, step) => step = "write"
  BY <1>1 DEF Goto
<1>3. ~JobEnd(j)
  BY <1>2 DEF JobEnd
<1>4. MergeRead(j) \/ MergeReadDangling(j)
  BY <1>2, <1>3
  DEF UpdateJob, Fetch, Merge, JobStart, ReadState, FetchItems,
      QueryItemsFails, FetchTags, QueryTagsFails, BuildUpdates, BuildPanics,
      TakeUpdateLock, MergeView, MergeWrite, Commit
<1>5. MergeReadDangling(j) => misread'
  BY DEF MergeReadDangling
<1>6. CASE MergeRead(j)
  BY <1>1, <1>2, <1>6 DEF MergeRead, MergeList
<1> QED
  BY <1>4, <1>5, <1>6

LEMMA ValuesFreshStep ==
  ASSUME Kept, ValuesFresh, [Next]_vars
  PROVE  ValuesFresh'
<1>1. ASSUME UNCHANGED <<misread, index, pc, updates, vals>>
      PROVE  ValuesFresh'
  BY <1>1 DEF ValuesFresh, KeyToMerge
<1>2. ASSUME NEW snapshot, Restart(snapshot) PROVE ValuesFresh'
  BY <1>2 DEF Restart, ValuesFresh
<1>3. ASSUME NEW j \in Jobs, UpdateJob(j) PROVE ValuesFresh'
  <2>1. \A i \in Jobs \ {j} : pc'[i] = "idle"
    <3>1. \A i \in Jobs \ {j} : pc[i] = "idle"
      BY <1>3, OthersIdle DEF Kept
    <3>2. \A i \in Jobs \ {j} : pc'[i] = pc[i]
      BY <1>3, JobCursors DEF Kept
    <3> QED
      BY <3>1, <3>2
  <2>2. CASE pc'[j] = "write" /\ ~misread'
    <3>1. /\ MergeRead(j) /\ vals'[j] = index[KeyToMerge(j)]
          /\ updates' = updates
      BY <1>3, <2>2, WriteAfterRead DEF Kept
    <3>2. index' = index
      BY <3>1 DEF MergeRead, storeVars
    <3> QED
      BY <2>1, <3>1, <3>2 DEF ValuesFresh, KeyToMerge
  <2> QED
    BY <2>1, <2>2 DEF ValuesFresh
<1>4. ASSUME NEW ks \in DeletableSets, DeleteWords(ks) PROVE ValuesFresh'
  <2>1. \A k \in Keys : index'[k] \subseteq index[k]
    BY <1>4 DEF DeleteWords
  <2>2. \A i \in Jobs : pc'[i] = "write" => pc[i] = "write"
    BY <1>4 DEF DeleteWords, ViewSpoiled
  <2>3. UNCHANGED <<misread, updates, vals>>
    BY <1>4 DEF DeleteWords
  <2>4. \A i \in Jobs : pc[i] = "write" => KeyToMerge(i) \in Keys
    BY MergedKey DEF Kept
  <2> QED
    BY <2>1, <2>2, <2>3, <2>4 DEF ValuesFresh, KeyToMerge
<1>5. CASE Database \/ RebuildItems \/ RebuildTags
  BY <1>1, <1>5 DEF Database, RebuildItems, RebuildTags, storeVars, jobVars,
                    history
<1>6. CASE \E c \in Checkpointers : WriteCheckpoint(c)
  BY <1>1, <1>6 DEF WriteCheckpoint, CkptBegin, CkptKey, CkptRename, CkptFails,
                    storeVars, jobVars, history
<1>7. CASE Machine
  BY <1>1, <1>2, <1>7 DEF Machine, CrashRestart, PowerFailure, Writeback,
                          storeVars, jobVars, history
<1>8. CASE UNCHANGED vars
  BY <1>1, <1>8 DEF vars, storeVars, jobVars, history
<1> QED
  BY <1>3, <1>4, <1>5, <1>6, <1>7, <1>8 DEF Next, Admin
(* The replacement of a list keeps what is in it. *)
LEMMA WriteGrows ==
  ASSUME Kept, ValuesFresh, ~misread, NEW j \in Jobs, MergeWrite(j)
  PROVE  /\ \A k \in Keys : index[k] \subseteq index'[k]
         /\ updates[j][KeyToMerge(j)] \subseteq index'[KeyToMerge(j)]
<1>1. KeyToMerge(j) \in Keys /\ index \in Index
  BY MergedKey DEF Kept, TypeOK, MergeWrite
<1>2. index[KeyToMerge(j)] \subseteq vals[j]
  BY DEF ValuesFresh, MergeWrite
<1>3. index' = [index EXCEPT ![KeyToMerge(j)] =
                  vals[j] \cup updates[j][KeyToMerge(j)]]
  BY DEF MergeWrite
<1> QED
  BY <1>1, <1>2, <1>3 DEF Index

(* No merge takes a post out of a list (actions.go:70-91), although the    *)
(* list is read in a section of its own before it is replaced: nobody else *)
(* merges, and an administrator only takes away.                           *)
THEOREM ListsGrowTheorem == Spec => ListsGrow
<1> DEFINE Inv == Kept /\ ValuesFresh
           Step == \/ misread' \/ requests' # requests \/ faults' # faults
                   \/ \A k \in Keys : index[k] \subseteq index'[k]
<1>1. Init => Inv
  BY KeptInit DEF Init, ValuesFresh
<1>2. Inv /\ [Next]_vars => Inv'
  BY KeptStep, ValuesFreshStep
<1>3. Inv /\ [Next]_vars => [Step]_vars
  <2> SUFFICES ASSUME Inv, Next PROVE Step
    OBVIOUS
  <2>1. requests \in Nat /\ faults \in Nat
    BY DEF Kept, TypeOK
  <2>2. ASSUME index' = index PROVE Step
    BY <2>2
  <2>3. ASSUME NEW j \in Jobs, UpdateJob(j) PROVE Step
    <3>1. CASE MergeWrite(j)
      <4>1. misread' = misread
        BY <3>1 DEF MergeWrite, history
      <4> QED
        BY <3>1, <4>1, WriteGrows
    <3> QED
      BY <2>2, <2>3, <3>1, JobLeaves
  <2>4. CASE Admin
    BY <2>1, <2>4 DEF Admin, DeleteWords, RebuildItems, RebuildTags, Request
  <2>5. CASE Database \/ \E c \in Checkpointers : WriteCheckpoint(c)
    BY <2>2, <2>5 DEF Database, WriteCheckpoint, CkptBegin, CkptKey, CkptRename,
                      CkptFails, storeVars
  <2>6. CASE Machine
    BY <2>1, <2>2, <2>6 DEF Machine, CrashRestart, PowerFailure, Writeback,
                            Fault, storeVars
  <2> QED
    BY <2>3, <2>4, <2>5, <2>6 DEF Next
<1> QED
  BY <1>1, <1>2, <1>3, PTL DEF Spec, ListsGrow

-----------------------------------------------------------------------------
(* The lists.  A list has no post that no row stated, no row that the      *)
(* cursors have passed is missing, and so the service keeps the promise of *)
(* TagIndex.                                                               *)

(* A step of a job touches nothing that is another job's. *)
LEMMA OthersRest ==
  ASSUME Kept, NEW j \in Jobs, UpdateJob(j)
  PROVE  \A i \in Jobs \ {j} :
           /\ pc'[i] = pc[i] /\ next'[i] = next[i] /\ rows'[i] = rows[i]
           /\ updates'[i] = updates[i] /\ vals'[i] = vals[i]
<1> DEFINE Rest == \A i \in Jobs \ {j} :
                     /\ rows'[i] = rows[i] /\ updates'[i] = updates[i]
                     /\ vals'[i] = vals[i]
<1>1. \A i \in Jobs \ {j} : pc'[i] = pc[i] /\ next'[i] = next[i]
  BY JobCursors DEF Kept
<1>2. /\ rows \in [Jobs -> Seq(Row)] /\ updates \in [Jobs -> Index]
      /\ vals \in [Jobs -> SUBSET Posts]
  BY DEF Kept, TypeOK
<1>3. ASSUME JobEnd(j) PROVE Rest
  BY <1>2, <1>3 DEF JobEnd
<1>4. ASSUME NEW pushed, BuildUpdates(j, pushed) \/ BuildPanics(j, pushed)
      PROVE  Rest
  BY <1>2, <1>3, <1>4 DEF BuildUpdates, BuildPanics
<1>5. ASSUME NEW values, MergeList(j, values), UNCHANGED rows PROVE Rest
  BY <1>2, <1>5 DEF MergeList, Merged
<1>6. Rest
  <2>1. CASE JobStart(j) \/ ReadState(j) \/ QueryItemsFails(j)
             \/ TakeUpdateLock(j) \/ MergeView(j)
    BY <2>1 DEF JobStart, ReadState, QueryItemsFails, TakeUpdateLock, MergeView
  <2>2. CASE FetchItems(j)
    BY <1>2, <2>2 DEF FetchItems, ConsumeItems
  <2>3. CASE FetchTags(j) \/ QueryTagsFails(j)
    BY <1>4, <2>3 DEF FetchTags, QueryTagsFails
  <2>4. CASE MergeRead(j) \/ MergeReadDangling(j)
    BY <1>3, <1>5, <2>4 DEF MergeRead, MergeReadDangling
  <2>5. CASE MergeWrite(j)
    BY <1>2, <2>5 DEF MergeWrite, Merged
  <2>6. CASE Commit(j)
    BY <1>3, <2>6 DEF Commit
  <2> QED
    BY <2>1, <2>2, <2>3, <2>4, <2>5, <2>6 DEF UpdateJob, Fetch, Merge
<1> QED
  BY <1>1, <1>6

(* A merged key is emptied, and only that one. *)
LEMMA MergedOnce ==
  ASSUME TypeOK, NEW j \in Jobs, Merged(j)
  PROVE  \A k \in Keys :
           updates'[j][k] = IF k = KeyToMerge(j) THEN {} ELSE updates[j][k]
<1>1. updates \in [Jobs -> Index] /\ updates[j] \in Index
  BY DEF TypeOK
<1>2. updates'[j] = [updates[j] EXCEPT ![KeyToMerge(j)] = {}]
  BY <1>1 DEF Merged
<1> QED
  BY <1>1, <1>2 DEF Index

(* What the end of a job leaves of it. *)
LEMMA JobEndLeaves ==
  ASSUME TypeOK, NEW j \in Jobs, JobEnd(j)
  PROVE  /\ pc'[j] = "idle" /\ next'[j] = InitState /\ rows'[j] = <<>>
         /\ updates'[j] = EmptyIndex
BY DEF TypeOK, JobEnd, Goto
-----------------------------------------------------------------------------
(* Everything that is on the way into a list was stated by a row. *)
SoundIndex(ix, fs) == \A k \in Keys : \A p \in ix[k] : <<k, p>> \in fs

SoundRows(rs, fs) ==
  \A i \in DOMAIN rs : Stated(rs[i].item, rs[i].keys) \subseteq fs

DatabaseSound ==
  /\ \A p \in Posts : Stated(p, items[p].keys) \subseteq facts
  /\ SoundRows(tags, facts)

SoundJob(j) ==
  /\ SoundRows(rows[j], facts)
  /\ SoundIndex(updates[j], facts)
  /\ pc[j] = "write" => \A p \in vals[j] : <<KeyToMerge(j), p>> \in facts

Sound ==
  /\ DatabaseSound
  /\ \/ misread
     \/ /\ SoundIndex(index, facts) /\ SoundIndex(file.index, facts)
        /\ \A j \in Jobs : SoundJob(j)

(* What a row states, key by key. *)
LEMMA StatedKeys ==
  ASSUME NEW p, NEW ks, NEW k
  PROVE  /\ k \in ks => <<k, p>> \in Stated(p, ks)
         /\ ks # {} => <<AllKey, p>> \in Stated(p, ks)
BY DEF Stated

(* The builder invents nothing (store_builder.go:24). *)
LEMMA BuildSound ==
  ASSUME NEW pushed, NEW fs, SoundRows(pushed, fs)
  PROVE  SoundIndex(Build(pushed), fs)
<1> SUFFICES ASSUME NEW k \in Keys, NEW p \in Build(pushed)[k]
             PROVE  <<k, p>> \in fs
  BY DEF SoundIndex
<1>1. CASE p \in Pushed(pushed, k)
  <2>1. PICK i \in DOMAIN pushed : k \in pushed[i].keys /\ p = pushed[i].item
    BY <1>1 DEF Pushed
  <2> QED
    BY <2>1, StatedKeys DEF SoundRows
<1>2. CASE k = AllKey /\ p \in PushedToAll(pushed)
  <2>1. PICK i \in DOMAIN pushed : pushed[i].keys # {} /\ p = pushed[i].item
    BY <1>2 DEF PushedToAll, IsFirstPush
  <2> QED
    BY <1>2, <2>1, StatedKeys DEF SoundRows
<1> QED
  BY <1>1, <1>2 DEF Build

LEMMA ConcatSound ==
  ASSUME NEW a \in Seq(Row), NEW b \in Seq(Row), NEW fs,
         SoundRows(a, fs), SoundRows(b, fs)
  PROVE  SoundRows(a \o b, fs)
<1> SUFFICES ASSUME NEW i \in 1..(Len(a) + Len(b))
             PROVE  Stated((a \o b)[i].item, (a \o b)[i].keys) \subseteq fs
  BY ConcatProperties, LenProperties DEF SoundRows
<1>1. Len(a) \in Nat /\ Len(b) \in Nat /\ DOMAIN a = 1..Len(a)
      /\ DOMAIN b = 1..Len(b)
  BY LenProperties
<1>2. CASE i <= Len(a)
  BY <1>1, <1>2, ConcatProperties DEF SoundRows
<1>3. CASE i > Len(a)
  <2>1. i - Len(a) \in DOMAIN b /\ (a \o b)[i] = b[i - Len(a)]
    BY <1>1, <1>3, ConcatProperties
  <2> QED
    BY <2>1 DEF SoundRows
<1> QED
  BY <1>1, <1>2, <1>3

LEMMA EmptySound ==
  ASSUME NEW fs
  PROVE  SoundIndex(EmptyIndex, fs) /\ SoundRows(<<>>, fs)
BY DEF SoundIndex, EmptyIndex, SoundRows

(* The rows that the two queries give were stated by the database. *)
LEMMA PagesSound ==
  ASSUME DBTypeOK, DatabaseSound, NEW c \in Nat
  PROVE  /\ SoundRows(TagPage(c), facts)
         /\ \A page \in ItemPages(c) :
              SoundRows([i \in DOMAIN page |->
                           [item |-> page[i], keys |-> items[page[i]].keys]],
                        facts)
<1>1. SoundRows(TagPage(c), facts)
  <2> SUFFICES ASSUME NEW i \in DOMAIN TagPage(c)
               PROVE  Stated(TagPage(c)[i].item, TagPage(c)[i].keys)
                        \subseteq facts
    BY DEF SoundRows
  <2>1. /\ i \in 1..Len(TagPage(c)) /\ Len(TagPage(c)) \in Nat
        /\ DOMAIN tags = 1..Len(tags) /\ Len(tags) \in Nat
    BY TagPageType, LenProperties DEF DBTypeOK
  <2>2. FirstTag(c) + i - 1 \in DOMAIN tags
    <3>1. /\ FirstTag(c) \in Nat \ {0} /\ LastTag(c) \in Int
          /\ LastTag(c) <= Len(tags)
          /\ Len(TagPage(c)) = IF FirstTag(c) <= LastTag(c)
                                 THEN LastTag(c) - FirstTag(c) + 1 ELSE 0
      BY TagPageType
    <3> QED
      BY <2>1, <3>1, SMTT(20)
  <2>3. TagPage(c)[i] = tags[FirstTag(c) + i - 1]
    BY <2>1, TagPageType
  <2> QED
    BY <2>2, <2>3 DEF DatabaseSound, SoundRows
<1>2. ASSUME NEW page \in ItemPages(c)
      PROVE  SoundRows([i \in DOMAIN page |->
                          [item |-> page[i], keys |-> items[page[i]].keys]],
                       facts)
  <2>1. \A i \in DOMAIN page : page[i] \in Posts
    BY <1>2, ItemPageType, ElementOfSeq, LenProperties
  <2> QED
    BY <2>1 DEF SoundRows, DatabaseSound
<1> QED
  BY <1>1, <1>2
(* Facts are never forgotten. *)
LEMMA SoundMonotone ==
  ASSUME NEW fs, NEW gs, fs \subseteq gs
  PROVE  /\ \A ix : SoundIndex(ix, fs) => SoundIndex(ix, gs)
         /\ \A rs : SoundRows(rs, fs) => SoundRows(rs, gs)
BY DEF SoundIndex, SoundRows

LEMMA DatabaseSoundStep ==
  ASSUME DBTypeOK, DatabaseSound, DBNext
  PROVE  DatabaseSound' /\ facts \subseteq facts'
<1>1. ASSUME NEW p \in Posts, NEW ks \in PostKeySets, NEW t \in 1..MaxTime,
             SavePost(p, ks, t)
      PROVE  DatabaseSound' /\ facts \subseteq facts'
  <2>1. facts' = facts \cup Stated(p, ks) /\ tags' = tags
    BY <1>1 DEF SavePost
  <2>2. /\ items'[p].keys = ks
        /\ \A q \in Posts \ {p} : items'[q] = items[q]
    BY <1>1 DEF SavePost, DBTypeOK
  <2>3. \A q \in Posts : Stated(q, items'[q].keys) \subseteq facts'
    BY <2>1, <2>2 DEF DatabaseSound
  <2> QED
    BY <2>1, <2>3, SoundMonotone DEF DatabaseSound
<1>2. ASSUME NEW p \in Posts, NEW ks \in TagKeySets, AddTag(p, ks)
      PROVE  DatabaseSound' /\ facts \subseteq facts'
  <2> DEFINE row == [item |-> p, keys |-> ks]
  <2>1. /\ facts' = facts \cup Stated(p, ks) /\ items' = items
        /\ tags' = Append(tags, row)
    BY <1>2 DEF AddTag
  <2>2. row \in Row /\ tags \in Seq(Row)
    BY DatabaseAssumption DEF Row, DBTypeOK
  <2>3. ASSUME NEW i \in DOMAIN tags'
        PROVE  Stated(tags'[i].item, tags'[i].keys) \subseteq facts'
    <3> HIDE DEF row
    <3>1. /\ i \in 1..(Len(tags) + 1) /\ Len(tags) \in Nat
          /\ DOMAIN tags = 1..Len(tags)
          /\ tags'[i] = IF i = Len(tags) + 1 THEN row ELSE tags[i]
      BY <2>1, <2>2, <2>3, AppendProperties, LenProperties
    <3>2. CASE i = Len(tags) + 1
      <4>1. tags'[i].item = p /\ tags'[i].keys = ks
        BY <3>1, <3>2 DEF row
      <4> QED
        BY <2>1, <4>1
    <3>3. CASE i # Len(tags) + 1
      BY <2>1, <3>1, <3>3 DEF DatabaseSound, SoundRows
    <3> QED
      BY <3>2, <3>3
  <2> QED
    BY <2>1, <2>3 DEF DatabaseSound, SoundRows
<1> QED
  BY <1>1, <1>2 DEF DBNext

(* A step of a job that has misread nothing. *)
LEMMA JobSoundStep ==
  ASSUME Kept, Sound, NEW j \in Jobs, UpdateJob(j), ~misread, ~misread'
  PROVE  SoundJob(j)' /\ SoundIndex(index', facts)
<1> DEFINE Fine == /\ SoundRows(rows'[j], facts)
                   /\ SoundIndex(updates'[j], facts)
                   /\ pc'[j] = "write" =>
                        \A p \in vals'[j] : <<KeyToMerge(j)', p>> \in facts
<1>1. /\ TypeOK /\ HasKeyToMerge /\ DatabaseSound
      /\ SoundIndex(index, facts) /\ SoundJob(j) /\ facts' = facts
  BY JobLeaves DEF Kept, Sound, dbVars
<1>2. /\ pc \in [Jobs -> Steps] /\ rows \in [Jobs -> Seq(Row)]
      /\ rows[j] \in Seq(Row) /\ updates \in [Jobs -> Index]
      /\ vals \in [Jobs -> SUBSET Posts] /\ index \in Index
      /\ next[j].LastTagId \in Nat /\ next[j].LastItemUpdateTime \in Nat
      /\ DBTypeOK
  BY <1>1 DEF TypeOK, StoreState
<1>3. \A step : Goto(j, step) => pc'[j] = step
  BY <1>2 DEF Goto
<1>4. JobEnd(j) => Fine
  BY <1>1, JobEndLeaves, EmptySound
<1>5. Merged(j) => SoundIndex(updates'[j], facts)
  BY <1>1, MergedOnce DEF SoundJob, SoundIndex
<1>6. ASSUME NEW pushed, SoundRows(pushed, facts),
             BuildUpdates(j, pushed) \/ BuildPanics(j, pushed)
      PROVE  Fine
  <2>1. CASE BuildUpdates(j, pushed)
    <3>1. pc'[j] = "lock" /\ rows'[j] = <<>> /\ updates'[j] = Build(pushed)
      BY <1>2, <1>3, <2>1 DEF BuildUpdates
    <3> QED
      BY <1>6, <3>1, BuildSound, EmptySound
  <2> QED
    BY <1>4, <1>6, <2>1 DEF BuildPanics
<1>7. Fine
  <2>1. CASE JobStart(j) \/ ReadState(j) \/ QueryItemsFails(j)
             \/ TakeUpdateLock(j) \/ MergeView(j)
    <3>1. UNCHANGED <<rows, updates>>
      BY <2>1 DEF JobStart, ReadState, QueryItemsFails, TakeUpdateLock, MergeView
    <3>2. pc'[j] # "write"
      BY <1>3, <2>1
      DEF JobStart, ReadState, QueryItemsFails, TakeUpdateLock, MergeView
    <3> QED
      BY <1>1, <3>1, <3>2 DEF SoundJob
  <2>2. CASE FetchItems(j)
    <3>1. PICK page \in ItemPages(next[j].LastItemUpdateTime) :
            ConsumeItems(j, page)
      BY <2>2 DEF FetchItems
    <3>2. SoundRows(rows'[j], facts)
      BY <1>1, <1>2, <3>1, PagesSound DEF ConsumeItems
    <3> QED
      BY <1>1, <1>3, <2>2, <3>2 DEF FetchItems, SoundJob
  <2>3. CASE FetchTags(j)
    <3> DEFINE page == TagPage(next[j].LastTagId)
    <3>1. page \in Seq(Row) /\ SoundRows(page, facts)
      BY <1>1, <1>2, TagPageType, PagesSound
    <3>2. SoundRows(rows[j] \o page, facts)
      BY <1>1, <1>2, <3>1, ConcatSound DEF SoundJob
    <3> QED
      BY <1>6, <2>3, <3>2 DEF FetchTags
  <2>4. CASE QueryTagsFails(j)
    BY <1>1, <1>6, <2>4 DEF QueryTagsFails, SoundJob
  <2>5. CASE MergeRead(j)
    <3>1. KeyToMerge(j) \in Keys
      BY <1>1, <2>5, MergedKey DEF MergeRead
    <3>2. rows' = rows /\ MergeList(j, index[KeyToMerge(j)])
      BY <2>5 DEF MergeRead
    <3>3. CASE Merged(j) /\ Goto(j, "merge")
      BY <1>1, <1>3, <1>5, <3>2, <3>3 DEF SoundJob
    <3>4. CASE vals'[j] = index[KeyToMerge(j)] /\ updates' = updates
      BY <1>1, <3>1, <3>2, <3>4 DEF SoundJob, SoundIndex, KeyToMerge
    <3> QED
      BY <1>2, <3>2, <3>3, <3>4 DEF MergeList
  <2>6. CASE MergeReadDangling(j)
    BY <2>6 DEF MergeReadDangling
  <2>7. CASE MergeWrite(j)
    BY <1>1, <1>3, <1>5, <2>7 DEF MergeWrite, SoundJob
  <2>8. CASE Commit(j)
    <3>1. CASE Goto(j, "state") /\ UNCHANGED <<rows, updates>>
      BY <1>1, <1>3, <3>1 DEF SoundJob
    <3> QED
      BY <1>4, <2>8, <3>1 DEF Commit
  <2> QED
    BY <2>1, <2>2, <2>3, <2>4, <2>5, <2>6, <2>7, <2>8
    DEF UpdateJob, Fetch, Merge
<1>8. SoundIndex(index', facts)
  <2>1. CASE MergeWrite(j)
    <3>1. KeyToMerge(j) \in Keys /\ pc[j] = "write"
      BY <1>1, <2>1, MergedKey DEF MergeWrite
    <3>2. index' = [index EXCEPT ![KeyToMerge(j)] =
                      vals[j] \cup updates[j][KeyToMerge(j)]]
      BY <2>1 DEF MergeWrite
    <3> QED
      BY <1>1, <1>2, <3>1, <3>2 DEF SoundIndex, SoundJob, Index
  <2> QED
    BY <1>1, <2>1, JobLeaves
<1> QED
  BY <1>1, <1>7, <1>8 DEF SoundJob

LEMMA SoundStep ==
  ASSUME Kept, Sound, [Next]_vars
  PROVE  Sound'
<1>1. ASSUME UNCHANGED <<dbVars, misread, index, file, pc, rows, updates, vals>>
      PROVE  Sound'
  BY <1>1 DEF Sound, DatabaseSound, SoundJob, KeyToMerge, dbVars
<1>2. ASSUME misread', UNCHANGED dbVars PROVE Sound'
  BY <1>2 DEF Sound, DatabaseSound, dbVars
<1>3. ASSUME NEW snapshot, Restart(snapshot), UNCHANGED <<dbVars, misread>>,
             ~misread => /\ SoundIndex(snapshot.index, facts)
                         /\ SoundIndex(file'.index, facts)
      PROVE  Sound'
  BY <1>3, EmptySound DEF Restart, Sound, DatabaseSound, SoundJob, dbVars
<1>4. CASE Database
  <2>1. DatabaseSound' /\ facts \subseteq facts'
    BY <1>4, DatabaseSoundStep DEF Database, Sound, Kept, TypeOK
  <2>2. UNCHANGED <<misread, index, file, pc, rows, updates, vals>>
    BY <1>4 DEF Database, storeVars, diskVars, jobVars, history
  <2> QED
    BY <2>1, <2>2, SoundMonotone DEF Sound, SoundJob, KeyToMerge
<1>5. ASSUME NEW j \in Jobs, UpdateJob(j) PROVE Sound'
  <2>1. UNCHANGED <<dbVars, file>> /\ misread' \in {misread, TRUE}
    BY <1>5, JobLeaves DEF diskVars
  <2>2. CASE ~misread /\ ~misread'
    <3>1. SoundJob(j)' /\ SoundIndex(index', facts)
      BY <1>5, <2>2, JobSoundStep
    <3>2. ASSUME NEW i \in Jobs \ {j} PROVE SoundJob(i)'
      <4>1. /\ pc'[i] = pc[i] /\ rows'[i] = rows[i]
            /\ updates'[i] = updates[i] /\ vals'[i] = vals[i]
        BY <1>5, <3>2, OthersRest
      <4>2. SoundJob(i) /\ facts' = facts
        BY <2>1, <2>2, <3>2 DEF Sound, dbVars
      <4> QED
        BY <4>1, <4>2 DEF SoundJob, KeyToMerge
    <3> QED
      BY <2>1, <2>2, <3>1, <3>2 DEF Sound, DatabaseSound, dbVars
  <2>3. CASE misread'
    BY <1>2, <2>1, <2>3
  <2> QED
    BY <2>1, <2>2, <2>3 DEF Kept, TypeOK
<1>6. CASE Admin
  <2>1. ASSUME NEW ks \in DeletableSets, DeleteWords(ks) PROVE Sound'
    <3>1. \A k \in Keys : index'[k] \subseteq index[k]
      BY <2>1 DEF DeleteWords
    <3>2. \A i \in Jobs : pc'[i] = "write" => pc[i] = "write"
      BY <2>1 DEF DeleteWords, ViewSpoiled
    <3>3. UNCHANGED <<dbVars, misread, file, rows, updates, vals>>
      BY <2>1 DEF DeleteWords, diskVars
    <3> QED
      BY <3>1, <3>2, <3>3
      DEF Sound, DatabaseSound, SoundJob, SoundIndex, KeyToMerge, dbVars
  <2>2. CASE RebuildItems \/ RebuildTags
    BY <1>1, <2>2 DEF RebuildItems, RebuildTags, diskVars, jobVars
  <2> QED
    BY <1>6, <2>1, <2>2 DEF Admin
<1>7. ASSUME NEW c \in Checkpointers, WriteCheckpoint(c) PROVE Sound'
  <2>1. CASE CkptRename(c)
    <3>1. file'.index = index
      BY <2>1, RenamedFile DEF Kept
    <3>2. UNCHANGED <<dbVars, misread, index, pc, rows, updates, vals>>
      BY <2>1 DEF CkptRename, storeVars, jobVars, history
    <3> QED
      BY <3>1, <3>2 DEF Sound, DatabaseSound, SoundJob, KeyToMerge, dbVars
  <2>2. CASE ~CkptRename(c)
    BY <1>1, <1>7, <2>2 DEF WriteCheckpoint, CkptBegin, CkptKey, CkptFails,
                            storeVars, diskVars, jobVars, history
  <2> QED
    BY <2>1, <2>2
<1>8. CASE Machine
  <2>1. CASE CrashRestart
    BY <1>3, <2>1 DEF CrashRestart, diskVars, Sound
  <2>2. CASE PowerFailure
    <3>1. PICK part \in {NoFile} \cup {PartBefore(k) : k \in Keys} :
            file' = part /\ Restart(part)
      BY <2>2 DEF PowerFailure
    <3>2. UNCHANGED <<dbVars, misread>>
      BY <2>2 DEF PowerFailure
    <3>3. ASSUME ~misread PROVE SoundIndex(part.index, facts)
      <4>1. CASE part = NoFile
        BY <4>1, EmptySound DEF NoFile
      <4>2. ASSUME NEW k \in Keys, part = PartBefore(k)
            PROVE  SoundIndex(part.index, facts)
        <5>1. \A h \in Keys : part.index[h] \subseteq file.index[h]
          BY <4>2 DEF PartBefore, Kept, TypeOK, Snapshot, Index
        <5> QED
          BY <3>3, <5>1 DEF Sound, SoundIndex
      <4> QED
        BY <3>1, <4>1, <4>2
    <3> QED
      BY <1>3, <3>1, <3>2, <3>3
  <2>3. CASE Writeback
    BY <1>1, <2>3 DEF Writeback, storeVars, jobVars, history
  <2> QED
    BY <1>8, <2>1, <2>2, <2>3 DEF Machine
<1>9. CASE UNCHANGED vars
  BY <1>1, <1>9 DEF vars, storeVars, diskVars, jobVars, history
<1> QED
  BY <1>4, <1>5, <1>6, <1>7, <1>8, <1>9 DEF Next

LEMMA SoundInit == Init => Sound
<1> SUFFICES ASSUME Init PROVE Sound
  OBVIOUS
<1>1. items = [p \in Posts |-> [updated |-> 0, keys |-> {}]] /\ tags = <<>>
  BY DEF Init, DBInit
<1>2. \A p \in Posts : items[p].keys = {}
  BY <1>1
<1>3. \A p \in Posts : Stated(p, items[p].keys) = {}
  BY <1>2 DEF Stated
<1>4. DatabaseSound
  BY <1>1, <1>3, EmptySound DEF DatabaseSound
<1>5. /\ SoundIndex(index, facts) /\ SoundIndex(file.index, facts)
      /\ \A j \in Jobs : SoundJob(j)
  BY EmptySound DEF Init, NoFile, SoundJob
<1> QED
  BY <1>4, <1>5 DEF Sound

(* No list has a post that no row of the database has ever stated for its  *)
(* key (actions.go:67-92, store_builder.go:24-54), unless a job has read   *)
(* bytes that a deletion had freed.                                        *)
THEOREM IndexSoundTheorem == Spec => []IndexSound
<1>1. Init => Kept /\ Sound
  BY KeptInit, SoundInit
<1>2. (Kept /\ Sound) /\ [Next]_vars => (Kept /\ Sound)'
  BY KeptStep, SoundStep
<1>3. Sound => IndexSound
  BY DEF Sound, SoundIndex, IndexSound
<1> QED
  BY <1>1, <1>2, <1>3, PTL DEF Spec
-----------------------------------------------------------------------------
(* FactsBefore and FactsOf, fact by fact. *)
Before(st, its, ts) ==
  {f \in Keys \X Posts :
     \/ its[f[2]].updated < st.LastItemUpdateTime /\ f[1] \in its[f[2]].keys
     \/ \E i \in DOMAIN ts : /\ i <= st.LastTagId /\ ts[i].item = f[2]
                             /\ f[1] \in ts[i].keys}

Held(F, ix, lost) == \A f \in F : f[2] \in ix[f[1]] \/ f \in lost

(* The same while a job is at work: a fact may be on its way to the list.  *)
OnTheWay(F, ix, lost, rs, up) ==
  \A f \in F : \/ f[2] \in ix[f[1]] \/ f \in lost
               \/ f[2] \in Pushed(rs, f[1]) \/ f[2] \in up[f[1]]

LEMMA FactsOfKeys ==
  ASSUME NEW ix \in Index
  PROVE  \A f : f \in FactsOf(ix) <=> f \in Keys \X Posts /\ f[2] \in ix[f[1]]
<1>1. \A k \in Keys : ix[k] \subseteq Posts
  BY DEF Index
<1>2. ASSUME NEW f, f \in FactsOf(ix)
      PROVE  f \in Keys \X Posts /\ f[2] \in ix[f[1]]
  <2>1. PICK k \in Keys : f \in {k} \X ix[k]
    BY <1>2 DEF FactsOf
  <2> QED
    BY <1>1, <2>1
<1>3. ASSUME NEW f \in Keys \X Posts, f[2] \in ix[f[1]]
      PROVE  f \in FactsOf(ix)
  <2>1. f \in {f[1]} \X ix[f[1]]
    BY <1>3
  <2> QED
    BY <2>1 DEF FactsOf
<1> QED
  BY <1>2, <1>3

LEMMA FactsBeforeRows ==
  ASSUME DBTypeOK, NEW st
  PROVE  FactsBefore(st) = Before(st, items, tags)
<1> DEFINE passedItems == {p \in Posts :
                             items[p].updated < st.LastItemUpdateTime}
           passedTags == {i \in DOMAIN tags : i <= st.LastTagId}
<1>1. \A p \in Posts : items[p].keys \subseteq Keys
  BY DEF DBTypeOK
<1>2. \A i \in DOMAIN tags : tags[i].item \in Posts /\ tags[i].keys \subseteq Keys
  <2>1. \A i \in DOMAIN tags : tags[i] \in Row
    BY ElementOfSeq, LenProperties DEF DBTypeOK
  <2> QED
    BY <2>1 DEF Row
<1>3. ASSUME NEW f, f \in FactsBefore(st) PROVE f \in Before(st, items, tags)
  <2>1. CASE \E p \in passedItems : f \in items[p].keys \X {p}
    BY <1>1, <2>1 DEF Before
  <2>2. CASE \E i \in passedTags : f \in tags[i].keys \X {tags[i].item}
    BY <1>2, <2>2 DEF Before
  <2> QED
    BY <1>3, <2>1, <2>2 DEF FactsBefore
<1>4. ASSUME NEW f, f \in Before(st, items, tags) PROVE f \in FactsBefore(st)
  <2>1. f \in Keys \X Posts
    BY <1>4 DEF Before
  <2>2. CASE f[2] \in passedItems /\ f[1] \in items[f[2]].keys
    <3>1. f \in items[f[2]].keys \X {f[2]}
      BY <2>1, <2>2
    <3> QED
      BY <2>2, <3>1 DEF FactsBefore
  <2>3. ASSUME NEW i \in passedTags, tags[i].item = f[2], f[1] \in tags[i].keys
        PROVE  f \in FactsBefore(st)
    <3>1. f \in tags[i].keys \X {tags[i].item}
      BY <2>1, <2>3
    <3> QED
      BY <3>1 DEF FactsBefore
  <2> QED
    BY <1>4, <2>1, <2>2, <2>3 DEF Before
<1> QED
  BY <1>3, <1>4

LEMMA HeldCovers ==
  ASSUME DBTypeOK, NEW st, NEW ix \in Index,
         Held(Before(st, items, tags), ix, dropped)
  PROVE  Covers(st, ix)
<1>1. FactsBefore(st) \subseteq Keys \X Posts
  BY FactsBeforeRows DEF Before
<1> QED
  BY <1>1, FactsBeforeRows, FactsOfKeys DEF Covers, Held

(* No row is before the start. *)
LEMMA BeforeStart ==
  ASSUME DBTypeOK PROVE Before(InitState, items, tags) = {}
<1>1. /\ \A p \in Posts : items[p].updated \in Nat
      /\ \A i \in DOMAIN tags : i \in Nat \ {0}
  BY LenProperties DEF DBTypeOK
<1> QED
  BY <1>1 DEF Before, InitState

(* A cursor that is put back has fewer rows before it. *)
LEMMA BeforeLess ==
  ASSUME DBTypeOK, NEW st \in StoreState, NEW lower \in StoreState,
         AtMost(lower, st.LastItemUpdateTime, st.LastTagId)
  PROVE  Before(lower, items, tags) \subseteq Before(st, items, tags)
<1>1. /\ \A p \in Posts : items[p].updated \in Nat
      /\ \A i \in DOMAIN tags : i \in Nat
  BY LenProperties DEF DBTypeOK
<1> QED
  BY <1>1 DEF Before, AtMost, StoreState

(* What the database does is after every cursor: a row that is saved again *)
(* leaves the rows before it.                                              *)
LEMMA BeforeDatabase ==
  ASSUME DBTypeOK, DBNext, NEW st \in StoreState, AtMost(st, now, Len(tags))
  PROVE  Before(st, items', tags') \subseteq Before(st, items, tags)
<1>0. now \in Nat /\ Len(tags) \in Nat /\ DOMAIN tags = 1..Len(tags)
  BY LenProperties DEF DBTypeOK
<1>1. ASSUME NEW p \in Posts, NEW ks \in PostKeySets, NEW t \in 1..MaxTime,
             SavePost(p, ks, t)
      PROVE  Before(st, items', tags') \subseteq Before(st, items, tags)
  <2>1. t \in Nat /\ now <= t /\ tags' = tags
    BY <1>0, <1>1, DatabaseAssumption DEF SavePost
  <2>2. /\ items'[p].updated = t
        /\ \A q \in Posts \ {p} : items'[q] = items[q]
    BY <1>1 DEF SavePost, DBTypeOK
  <2>3. ~(items'[p].updated < st.LastItemUpdateTime)
    BY <1>0, <2>1, <2>2 DEF AtMost, StoreState
  <2> QED
    BY <2>1, <2>2, <2>3 DEF Before
<1>2. ASSUME NEW p \in Posts, NEW ks \in TagKeySets, AddTag(p, ks)
      PROVE  Before(st, items', tags') \subseteq Before(st, items, tags)
  <2>1. [item |-> p, keys |-> ks] \in Row /\ tags \in Seq(Row)
    BY DatabaseAssumption DEF Row, DBTypeOK
  <2>2. /\ DOMAIN tags' = 1..(Len(tags) + 1)
        /\ \A i \in 1..Len(tags) : tags'[i] = tags[i]
    BY <1>0, <1>2, <2>1, AppendProperties, LenProperties DEF AddTag
  <2>3. items' = items
    BY <1>2 DEF AddTag
  <2>4. \A i \in DOMAIN tags' : i <= st.LastTagId =>
          i \in DOMAIN tags /\ tags'[i] = tags[i]
    BY <1>0, <2>2 DEF AtMost, StoreState
  <2> QED
    BY <2>3, <2>4 DEF Before
<1> QED
  BY <1>1, <1>2 DEF DBNext

(* A page of posts brings everything between the old cursor and the new    *)
(* one.                                                                    *)
LEMMA ItemsBefore ==
  ASSUME DBTypeOK, PostsSaved, NEW st \in StoreState, NEW new \in StoreState,
         NEW page \in ItemPages(st.LastItemUpdateTime),
         new.LastTagId = st.LastTagId,
         new.LastItemUpdateTime =
           IF page = <<>> THEN st.LastItemUpdateTime
                          ELSE items[page[Len(page)]].updated,
         NEW rs, DOMAIN rs = DOMAIN page,
         \A i \in DOMAIN page :
           rs[i].item = page[i] /\ rs[i].keys = items[page[i]].keys
  PROVE  \A f \in Before(new, items, tags) :
           \/ f \in Before(st, items, tags)
           \/ f[2] \in Pushed(rs, f[1])
<1> DEFINE c == st.LastItemUpdateTime
<1> SUFFICES ASSUME NEW f \in Before(new, items, tags),
                    f \notin Before(st, items, tags)
             PROVE  f[2] \in Pushed(rs, f[1])
  OBVIOUS
<1>1. page \in Seq(Posts) /\ IsItemPage(page, c) /\ c \in Nat
  BY ItemPageType DEF StoreState
<1>2. f \in Keys \X Posts /\ f[2] \in Posts /\ items[f[2]].updated \in Nat
  BY DEF Before, DBTypeOK
<1>3. /\ items[f[2]].updated < new.LastItemUpdateTime
      /\ f[1] \in items[f[2]].keys
      /\ ~(items[f[2]].updated < c)
  BY DEF Before
<1>4. page # <<>>
  BY <1>3
<1>5. items[f[2]].updated > 0
  BY <1>2, <1>3 DEF PostsSaved
<1>6. ItemMatches(f[2], c)
  BY <1>1, <1>2, <1>3, <1>5 DEF ItemMatches
<1>7. items[page[Len(page)]].updated \in Nat
  BY <1>1, <1>4, LenProperties, EmptySeq, ElementOfSeq DEF DBTypeOK
<1>8. ~(items[page[Len(page)]].updated <= items[f[2]].updated)
  BY <1>2, <1>3, <1>4, <1>7
<1>9. PICK i \in DOMAIN page : page[i] = f[2]
  BY <1>1, <1>2, <1>6, <1>8 DEF IsItemPage
<1>10. i \in DOMAIN rs /\ rs[i].item = f[2] /\ f[1] \in rs[i].keys
  BY <1>3, <1>9
<1> QED
  BY <1>10 DEF Pushed

(* A page of tags brings everything between the old cursor and the new one.*)
LEMMA TagsBefore ==
  ASSUME DBTypeOK, NEW st \in StoreState, NEW new \in StoreState,
         new.LastItemUpdateTime = st.LastItemUpdateTime,
         new.LastTagId = IF TagPage(st.LastTagId) = <<>>
                           THEN st.LastTagId ELSE LastTag(st.LastTagId)
  PROVE  \A f \in Before(new, items, tags) :
           \/ f \in Before(st, items, tags)
           \/ f[2] \in Pushed(TagPage(st.LastTagId), f[1])
<1> DEFINE c == st.LastTagId
           page == TagPage(c)
<1> SUFFICES ASSUME NEW f \in Before(new, items, tags),
                    f \notin Before(st, items, tags)
             PROVE  f[2] \in Pushed(page, f[1])
  OBVIOUS
<1>1. c \in Nat /\ tags \in Seq(Row) /\ Len(tags) \in Nat
      /\ DOMAIN tags = 1..Len(tags)
  BY LenProperties DEF StoreState, DBTypeOK
<1>2. PICK i \in DOMAIN tags : /\ i <= new.LastTagId /\ ~(i <= c)
                               /\ tags[i].item = f[2] /\ f[1] \in tags[i].keys
  BY DEF Before
<1>3. page # <<>> /\ i <= LastTag(c)
  BY <1>2
<1>4. /\ page \in Seq(Row) /\ FirstTag(c) \in Nat \ {0} /\ LastTag(c) \in Int
      /\ Len(page) = IF FirstTag(c) <= LastTag(c)
                       THEN LastTag(c) - FirstTag(c) + 1 ELSE 0
      /\ \A h \in 1..Len(page) : page[h] = tags[FirstTag(c) + h - 1]
  BY <1>1, TagPageType
<1>5. FirstTag(c) <= i
  BY <1>1, <1>2 DEF FirstTag
<1> DEFINE h == i - FirstTag(c) + 1
<1>6. h \in 1..Len(page) /\ FirstTag(c) + h - 1 = i
  BY <1>1, <1>2, <1>3, <1>4, <1>5
<1>7. h \in DOMAIN page /\ page[h] = tags[i]
  BY <1>4, <1>6, LenProperties
<1> QED
  BY <1>2, <1>7 DEF Pushed
-----------------------------------------------------------------------------
(* Nothing that a cursor has passed is nowhere. *)
JobTracked(j) ==
  OnTheWay(Before(next[j], items, tags), index, dropped, rows[j], updates[j])

Tracked ==
  \/ misread
  \/ /\ Held(Before(storeState, items, tags), index, dropped)
     /\ Held(Before(file.state, items, tags), file.index, dropped)
     /\ \A j \in Jobs : JobTracked(j)

(* Lists that grow and facts that are dropped lose nothing. *)
LEMMA HeldMonotone ==
  ASSUME NEW F, NEW G, F \subseteq G, F \subseteq Keys \X Posts,
         NEW ix, NEW jx, \A k \in Keys : ix[k] \subseteq jx[k],
         NEW d, NEW e, d \subseteq e
  PROVE  /\ Held(G, ix, d) => Held(F, jx, e)
         /\ \A rs, up : OnTheWay(G, ix, d, rs, up) => OnTheWay(F, jx, e, rs, up)
BY DEF Held, OnTheWay

LEMMA BeforeType ==
  ASSUME NEW st, NEW its, NEW ts
  PROVE  Before(st, its, ts) \subseteq Keys \X Posts
BY DEF Before

LEMMA PushedConcat ==
  ASSUME NEW a \in Seq(Row), NEW b \in Seq(Row), NEW k
  PROVE  /\ Pushed(a, k) \subseteq Pushed(a \o b, k)
         /\ Pushed(b, k) \subseteq Pushed(a \o b, k)
<1>1. Len(a) \in Nat /\ Len(b) \in Nat /\ DOMAIN a = 1..Len(a)
      /\ DOMAIN b = 1..Len(b) /\ DOMAIN (a \o b) = 1..(Len(a) + Len(b))
  BY ConcatProperties, LenProperties
<1>2. ASSUME NEW i \in DOMAIN a
      PROVE  i \in DOMAIN (a \o b) /\ (a \o b)[i] = a[i]
  BY <1>1, <1>2, ConcatProperties
<1>3. ASSUME NEW i \in DOMAIN b
      PROVE  /\ i + Len(a) \in DOMAIN (a \o b)
             /\ (a \o b)[i + Len(a)] = b[i]
  <2>1. i + Len(a) \in (Len(a) + 1)..(Len(a) + Len(b))
    BY <1>1, <1>3
  <2>2. (a \o b)[i + Len(a)] = b[(i + Len(a)) - Len(a)]
    BY <1>1, <2>1, ConcatProperties
  <2> QED
    BY <1>1, <1>3, <2>1, <2>2
<1> QED
  BY <1>2, <1>3 DEF Pushed

LEMMA EmptyPushed ==
  ASSUME NEW k
  PROVE  Pushed(<<>>, k) = {} /\ (k \in Keys => EmptyIndex[k] = {})
BY DEF Pushed, EmptyIndex

(* What was pushed is in what is built. *)
LEMMA BuildTracked ==
  ASSUME Kept, NEW j \in Jobs, NEW pushed \in Seq(Row),
         BuildUpdates(j, pushed),
         NEW F, F \subseteq Keys \X Posts,
         OnTheWay(F, index, dropped, pushed, EmptyIndex)
  PROVE  OnTheWay(F, index, dropped, rows'[j], updates'[j])
<1>1. updates'[j] = Build(pushed)
  BY DEF BuildUpdates, Kept, TypeOK
<1>2. \A f \in F : f[1] \in Keys
  OBVIOUS
<1>3. \A k \in Keys : EmptyIndex[k] = {}
  BY EmptyPushed
<1>4. \A k \in Keys : Pushed(pushed, k) \subseteq Build(pushed)[k]
  BY BuildType
<1> QED
  BY <1>1, <1>2, <1>3, <1>4 DEF OnTheWay

(* The two queries of an update. *)
LEMMA FetchTracked ==
  ASSUME Kept, Kept', NEW j \in Jobs, JobTracked(j), Fetch(j)
  PROVE  OnTheWay(Before(next'[j], items, tags), index, dropped,
                  rows'[j], updates'[j])
<1> DEFINE F == Before(next[j], items, tags)
           G == Before(next'[j], items, tags)
           Fine == OnTheWay(G, index, dropped, rows'[j], updates'[j])
<1> SUFFICES Fine
  OBVIOUS
<1>1. /\ TypeOK /\ DBTypeOK /\ PostsSaved /\ rows[j] \in Seq(Row)
      /\ next \in [Jobs -> StoreState] /\ next[j] \in StoreState
      /\ next'[j] \in StoreState /\ next[j].LastTagId \in Nat
      /\ rows \in [Jobs -> Seq(Row)] /\ updates \in [Jobs -> Index]
  BY DEF Kept, TypeOK, NoCursorAhead, StoreState
<1>2. OnTheWay(F, index, dropped, rows[j], updates[j])
  BY DEF JobTracked
<1>3. G \subseteq Keys \X Posts
  BY BeforeType
<1>4. pc[j] \in {"items", "tags"} /\ updates[j] = EmptyIndex
  <2>1. pc[j] \in {"items", "tags"}
    BY DEF Fetch, FetchItems, QueryItemsFails, FetchTags, QueryTagsFails
  <2> QED
    BY <2>1 DEF Kept, Batches, Building, Merging
<1> HIDE DEF F, G
<1>5. ASSUME NEW pushed, BuildPanics(j, pushed) PROVE Fine
  <2>1. next'[j] = InitState
    BY <1>1, <1>5, JobEndLeaves DEF BuildPanics
  <2>2. G = {}
    BY <1>1, <2>1, BeforeStart DEF G
  <2> QED
    BY <2>2 DEF OnTheWay
<1>6. CASE FetchItems(j)
  <2>1. PICK page \in ItemPages(next[j].LastItemUpdateTime) :
          ConsumeItems(j, page)
    BY <1>6 DEF FetchItems
  <2> DEFINE rs == rows'[j]
  <2>2. /\ next'[j].LastTagId = next[j].LastTagId
        /\ next'[j].LastItemUpdateTime =
             IF page = <<>> THEN next[j].LastItemUpdateTime
                            ELSE items[page[Len(page)]].updated
        /\ DOMAIN rs = DOMAIN page
        /\ \A i \in DOMAIN page :
             rs[i].item = page[i] /\ rs[i].keys = items[page[i]].keys
    BY <1>1, <2>1 DEF ConsumeItems, StoreState
  <2>3. \A f \in G : f \in F \/ f[2] \in Pushed(rs, f[1])
    BY <1>1, <2>2, ItemsBefore, ZenonT(40) DEF F, G
  <2>4. rows[j] = <<>> /\ updates' = updates
    BY <1>6 DEF FetchItems, Kept, Batches
  <2> QED
    BY <1>2, <2>3, <2>4, EmptyPushed DEF OnTheWay
<1>7. CASE QueryItemsFails(j)
  BY <1>2, <1>7 DEF QueryItemsFails, F, G
<1>8. CASE FetchTags(j)
  <2> DEFINE c == next[j].LastTagId
             page == TagPage(c)
             pushed == rows[j] \o page
  <2>1. page \in Seq(Row) /\ pushed \in Seq(Row)
    <3>1. c \in Nat /\ DBTypeOK /\ rows[j] \in Seq(Row)
      BY <1>1
    <3> HIDE DEF c, page, pushed
    <3>2. TagPage(c) \in Seq(Row)
      BY <3>1, TagPageType
    <3>3. page \in Seq(Row)
      BY <3>2 DEF page
    <3>4. rows[j] \o page \in Seq(Row)
      BY <3>1, <3>3, ConcatProperties, Zenon
    <3> QED
      BY <3>3, <3>4 DEF pushed
  <2>2. CASE /\ BuildUpdates(j, pushed)
             /\ next' = [next EXCEPT ![j].LastTagId =
                           IF page = <<>> THEN c ELSE LastTag(c)]
    <3>1. /\ next'[j].LastItemUpdateTime = next[j].LastItemUpdateTime
          /\ next'[j].LastTagId = IF page = <<>> THEN c ELSE LastTag(c)
      BY <1>1, <2>2 DEF StoreState
    <3>2. \A f \in G : f \in F \/ f[2] \in Pushed(page, f[1])
      BY <1>1, <3>1, TagsBefore DEF F, G
    <3>3. \A k : /\ Pushed(rows[j], k) \subseteq Pushed(pushed, k)
                 /\ Pushed(page, k) \subseteq Pushed(pushed, k)
      BY <1>1, <2>1, PushedConcat
    <3> HIDE DEF page, pushed
    <3>4. OnTheWay(G, index, dropped, pushed, EmptyIndex)
      BY <1>2, <1>4, <3>2, <3>3 DEF OnTheWay
    <3> QED
      BY <1>3, <2>1, <2>2, <3>4, BuildTracked
  <2> QED
    BY <1>5, <1>8, <2>2 DEF FetchTags
<1>9. CASE QueryTagsFails(j)
  <2>1. CASE BuildUpdates(j, rows[j]) /\ UNCHANGED next
    <3>1. G = F
      BY <2>1 DEF F, G
    <3> QED
      BY <1>1, <1>2, <1>3, <1>4, <2>1, <3>1, BuildTracked
  <2> QED
    BY <1>5, <1>9, <2>1 DEF QueryTagsFails
<1> QED
  BY <1>6, <1>7, <1>8, <1>9 DEF Fetch

(* A step of a job that has misread nothing. *)
LEMMA JobTrackedStep ==
  ASSUME Kept, Kept', ValuesFresh, Tracked, NEW j \in Jobs, UpdateJob(j),
         ~misread, ~misread'
  PROVE  /\ \A i \in Jobs : JobTracked(i)'
         /\ Held(Before(storeState', items, tags), index', dropped)
<1> DEFINE Fine(i) == OnTheWay(Before(next'[i], items, tags), index', dropped,
                               rows'[i], updates'[i])
<1>1. /\ TypeOK /\ DBTypeOK /\ HasKeyToMerge
      /\ Held(Before(storeState, items, tags), index, dropped)
      /\ \A i \in Jobs : OnTheWay(Before(next[i], items, tags), index, dropped,
                                  rows[i], updates[i])
  BY DEF Kept, TypeOK, Tracked, JobTracked
<1>2. UNCHANGED <<items, tags, dropped>>
  BY JobLeaves DEF dbVars
<1>3. \A k \in Keys : index[k] \subseteq index'[k]
  BY WriteGrows, JobLeaves
<1>4. ASSUME NEW st PROVE Before(st, items, tags) \subseteq Keys \X Posts
  BY BeforeType
<1>5. ASSUME NEW i \in Jobs, next'[i] = next[i], rows'[i] = rows[i],
             updates'[i] = updates[i]
      PROVE  Fine(i)
  BY <1>1, <1>3, <1>4, <1>5, HeldMonotone
<1>6. JobEnd(j) => Fine(j)
  <2>1. SUFFICES ASSUME JobEnd(j) PROVE Fine(j)
    OBVIOUS
  <2>2. Before(next'[j], items, tags) = {}
    BY <1>1, <2>1, JobEndLeaves, BeforeStart
  <2> QED
    BY <2>2 DEF OnTheWay
<1>7. ASSUME Merged(j), next'[j] = next[j], rows'[j] = rows[j],
             updates[j][KeyToMerge(j)] \subseteq index'[KeyToMerge(j)]
      PROVE  Fine(j)
  <2>1. \A f \in Before(next[j], items, tags) : f[1] \in Keys
    BY <1>4
  <2>2. \A k \in Keys :
          updates'[j][k] = IF k = KeyToMerge(j) THEN {} ELSE updates[j][k]
    BY <1>1, <1>7, MergedOnce
  <2> QED
    BY <1>1, <1>3, <1>7, <2>1, <2>2 DEF OnTheWay
<1>8. Fine(j)
  <2>1. CASE JobStart(j) \/ TakeUpdateLock(j) \/ MergeView(j)
    BY <1>5, <2>1 DEF JobStart, TakeUpdateLock, MergeView
  <2>2. CASE ReadState(j)
    <3>1. next'[j] = storeState /\ index' = index
      BY <1>1, <2>2 DEF ReadState, TypeOK, storeVars
    <3> QED
      BY <1>1, <3>1 DEF Held, OnTheWay
  <2>3. CASE Fetch(j)
    <3>1. index' = index
      BY <2>3 DEF Fetch, FetchItems, QueryItemsFails, FetchTags,
                  QueryTagsFails, storeVars
    <3> QED
      BY <1>1, <2>3, <3>1, FetchTracked DEF JobTracked
  <2>4. CASE MergeRead(j)
    <3>1. MergeList(j, index[KeyToMerge(j)]) /\ index' = index
          /\ UNCHANGED <<next, rows>>
      BY <2>4 DEF MergeRead, storeVars
    <3> QED
      BY <1>5, <1>7, <3>1 DEF MergeList
  <2>5. CASE MergeReadDangling(j)
    BY <2>5 DEF MergeReadDangling
  <2>6. CASE MergeWrite(j)
    <3>1. Merged(j) /\ UNCHANGED <<next, rows>>
      BY <2>6 DEF MergeWrite
    <3> QED
      BY <1>7, <2>6, <3>1, WriteGrows
  <2>7. CASE Commit(j)
    <3>1. CASE next' = [next EXCEPT ![j] = InitState]
      <4>1. next'[j] = InitState
        BY <1>1, <3>1 DEF TypeOK
      <4>2. Before(next'[j], items, tags) = {}
        BY <1>1, <4>1, BeforeStart
      <4> QED
        BY <4>2 DEF OnTheWay
    <3> QED
      BY <1>6, <2>7, <3>1 DEF Commit
  <2> QED
    BY <2>1, <2>2, <2>3, <2>4, <2>5, <2>6, <2>7 DEF UpdateJob, Merge
<1>9. ASSUME NEW i \in Jobs PROVE Fine(i)
  BY <1>5, <1>8, OthersRest
<1>10. Held(Before(storeState', items, tags), index', dropped)
  <2>1. CASE Commit(j)
    <3>1. updates[j] = EmptyIndex /\ rows[j] = <<>>
      BY <1>1, <2>1, NothingListed DEF Commit, TypeOK, Kept, Batches
    <3>2. storeState' = next[j] /\ index' = index
      BY <2>1 DEF Commit
    <3>3. \A f \in Before(next[j], items, tags) : f[1] \in Keys
      BY <1>4
    <3> QED
      BY <1>1, <3>1, <3>2, <3>3, EmptyPushed DEF Held, OnTheWay
  <2>2. CASE storeState' = storeState
    BY <1>1, <1>3, <1>4, <2>2, HeldMonotone
  <2> QED
    BY <2>1, <2>2, JobLeaves
<1> QED
  BY <1>2, <1>9, <1>10 DEF JobTracked

LEMMA TrackedStep ==
  ASSUME Kept, Kept', ValuesFresh, Tracked, [Next]_vars
  PROVE  Tracked'
<1>1. ASSUME UNCHANGED <<dbVars, dropped, misread, index, storeState, file,
                         next, rows, updates>>
      PROVE  Tracked'
  BY <1>1 DEF Tracked, JobTracked, dbVars
<1>2. /\ TypeOK /\ TypeOK' /\ DBTypeOK /\ NoCursorAhead
      /\ storeState \in StoreState /\ storeState' \in StoreState
      /\ file.state \in StoreState /\ \A j \in Jobs : next[j] \in StoreState
  BY DEF Kept, TypeOK, Snapshot
<1>3. ASSUME NEW st, NEW its, NEW ts
      PROVE  Before(st, its, ts) \subseteq Keys \X Posts
  BY BeforeType
<1>4. ASSUME NEW snapshot, Restart(snapshot), UNCHANGED <<dbVars, misread>>,
             misread \/ /\ Held(Before(snapshot.state, items, tags),
                                snapshot.index, dropped')
                        /\ Held(Before(file'.state, items, tags),
                                file'.index, dropped')
      PROVE  Tracked'
  <2>1. \A j \in Jobs : next'[j] = InitState
    BY <1>4 DEF Restart
  <2>2. Before(InitState, items, tags) = {}
    BY <1>2, BeforeStart
  <2>3. items' = items /\ tags' = tags
    BY <1>4 DEF dbVars
  <2>4. \A j \in Jobs : JobTracked(j)'
    BY <2>1, <2>2, <2>3 DEF JobTracked, OnTheWay
  <2> QED
    BY <1>4, <2>3, <2>4 DEF Restart, Tracked
<1>5. CASE Database
  <2>1. DBNext /\ UNCHANGED <<dropped, misread, index, storeState, file, next,
                              rows, updates>>
    BY <1>5 DEF Database, storeVars, diskVars, jobVars, history
  <2>2. ASSUME NEW st \in StoreState, AtMost(st, now, Len(tags))
        PROVE  Before(st, items', tags') \subseteq Before(st, items, tags)
    BY <1>2, <2>1, <2>2, BeforeDatabase
  <2>3. /\ Before(storeState, items', tags') \subseteq
             Before(storeState, items, tags)
        /\ Before(file.state, items', tags') \subseteq
             Before(file.state, items, tags)
        /\ \A j \in Jobs : Before(next[j], items', tags') \subseteq
                             Before(next[j], items, tags)
    BY <1>2, <2>2 DEF NoCursorAhead, CursorsBehind
  <2> QED
    BY <2>1, <2>3 DEF Tracked, JobTracked, Held, OnTheWay
<1>6. ASSUME NEW j \in Jobs, UpdateJob(j) PROVE Tracked'
  <2>1. UNCHANGED <<dbVars, file, dropped>> /\ misread' \in {misread, TRUE}
    BY <1>6, JobLeaves DEF diskVars
  <2>2. CASE ~misread /\ ~misread'
    BY <1>6, <2>1, <2>2, JobTrackedStep DEF Tracked, dbVars
  <2>3. CASE misread'
    BY <2>3 DEF Tracked
  <2> QED
    BY <1>2, <2>1, <2>2, <2>3 DEF TypeOK
<1>7. CASE Admin
  <2>1. ASSUME NEW ks \in DeletableSets, DeleteWords(ks) PROVE Tracked'
    <3>1. UNCHANGED <<dbVars, misread, storeState, file, next, rows, updates>>
      BY <2>1 DEF DeleteWords, diskVars
    <3>2. \A f \in Keys \X Posts :
            f[2] \in index[f[1]] => f[2] \in index'[f[1]] \/ f \in dropped'
      <4>1. \A k \in Keys : k \notin ks => index'[k] = index[k]
        BY <2>1 DEF DeleteWords
      <4>2. \A f \in ks \X Posts : f[2] \in index[f[1]] => f \in dropped'
        BY <2>1 DEF DeleteWords
      <4> QED
        BY <4>1, <4>2
    <3>3. dropped \subseteq dropped'
      BY <2>1 DEF DeleteWords
    <3> QED
      BY <1>3, <3>1, <3>2, <3>3
      DEF Tracked, JobTracked, Held, OnTheWay, dbVars
  <2>2. CASE RebuildItems \/ RebuildTags
    <3>1. UNCHANGED <<dbVars, dropped, misread, index, file, next, rows, updates>>
      BY <2>2 DEF RebuildItems, RebuildTags, diskVars, jobVars
    <3>2. AtMost(storeState', storeState.LastItemUpdateTime,
                 storeState.LastTagId)
      BY <1>2, <2>2 DEF RebuildItems, RebuildTags, AtMost, StoreState
    <3>3. Before(storeState', items, tags) \subseteq
            Before(storeState, items, tags)
      BY <1>2, <3>2, BeforeLess
    <3> QED
      BY <3>1, <3>3 DEF Tracked, JobTracked, Held, dbVars
  <2> QED
    BY <1>7, <2>1, <2>2 DEF Admin
<1>8. ASSUME NEW c \in Checkpointers, WriteCheckpoint(c) PROVE Tracked'
  <2>1. CASE CkptRename(c)
    <3>1. file'.state = storeState /\ file'.index = index
      BY <2>1, RenamedFile DEF Kept
    <3>2. UNCHANGED <<dbVars, dropped, misread, index, storeState, next, rows,
                      updates>>
      BY <2>1 DEF CkptRename, storeVars, jobVars, history
    <3> QED
      BY <3>1, <3>2 DEF Tracked, JobTracked, dbVars
  <2>2. CASE ~CkptRename(c)
    BY <1>1, <1>8, <2>2 DEF WriteCheckpoint, CkptBegin, CkptKey, CkptFails,
                            storeVars, diskVars, jobVars, history
  <2> QED
    BY <2>1, <2>2
<1>9. CASE Machine
  <2>1. CASE CrashRestart
    BY <1>4, <2>1 DEF CrashRestart, diskVars, Tracked
  <2>2. CASE PowerFailure
    <3>1. PICK part \in {NoFile} \cup {PartBefore(k) : k \in Keys} :
            /\ file' = part /\ Restart(part)
            /\ dropped' = dropped \cup LostWith(part)
      BY <2>2 DEF PowerFailure
    <3>2. UNCHANGED <<dbVars, misread>>
      BY <2>2 DEF PowerFailure
    <3>3. ASSUME ~misread
          PROVE  Held(Before(part.state, items, tags), part.index, dropped')
      <4>1. CASE part = NoFile
        BY <1>2, <4>1, BeforeStart DEF Held, NoFile
      <4>2. CASE part # NoFile
        <5>1. part.state = file.state
          BY <1>2, <3>1, <4>2 DEF PartBefore, TypeOK, Snapshot
        <5>2. \A f \in Keys \X Posts :
                f[2] \in file.index[f[1]] =>
                  f[2] \in part.index[f[1]] \/ f \in LostWith(part)
          BY <4>2 DEF LostWith
        <5> QED
          BY <1>3, <3>1, <3>3, <5>1, <5>2 DEF Tracked, Held
      <4> QED
        BY <4>1, <4>2
    <3> QED
      BY <1>4, <3>1, <3>2, <3>3
  <2>3. CASE Writeback
    BY <1>1, <2>3 DEF Writeback, storeVars, jobVars, history
  <2> QED
    BY <1>9, <2>1, <2>2, <2>3 DEF Machine
<1>10. CASE UNCHANGED vars
  BY <1>1, <1>10 DEF vars, storeVars, diskVars, jobVars, history
<1> QED
  BY <1>5, <1>6, <1>7, <1>8, <1>9, <1>10 DEF Next

LEMMA TrackedInit == Init => Tracked
<1> SUFFICES ASSUME Init PROVE Tracked
  OBVIOUS
<1>1. Before(InitState, items, tags) = {}
  BY InitType, BeforeStart DEF TypeOK
<1>2. /\ storeState = InitState /\ file.state = InitState
      /\ \A j \in Jobs : next[j] = InitState
  BY DEF Init, NoFile
<1> QED
  BY <1>1, <1>2 DEF Tracked, JobTracked, Held, OnTheWay

(* The invariant that tells where every fact is that a cursor has passed.  *)
LEMMA AlwaysTracked == Spec => [](Kept /\ Tracked)
<1> DEFINE Inv == Kept /\ ValuesFresh /\ Tracked
<1>1. Init => Inv
  BY KeptInit, TrackedInit DEF Init, ValuesFresh
<1>2. Inv /\ [Next]_vars => Inv'
  BY KeptStep, ValuesFreshStep, TrackedStep
<1>3. Inv => Kept /\ Tracked
  OBVIOUS
<1> QED
  BY <1>1, <1>2, <1>3, PTL DEF Spec

(* The store never lacks a row that its cursors have passed (actions.go:24,*)
(* actions.go:100), in spite of failed queries, panics, crashes, torn      *)
(* files and requests of an administrator.                                 *)
THEOREM CursorCoveredTheorem == Spec => []CursorCovered
<1>1. Kept /\ Tracked => CursorCovered
  BY HeldCovers DEF Kept, TypeOK, Tracked, CursorCovered
<1> QED
  BY <1>1, AlwaysTracked, PTL

(* Nor does the file that a restart would read (checkpoint.go:20,          *)
(* actions.go:115-124).                                                    *)
THEOREM CheckpointCoveredTheorem == Spec => []CheckpointCovered
<1>1. Kept /\ Tracked => CheckpointCovered
  BY HeldCovers DEF Kept, TypeOK, Snapshot, Tracked, CheckpointCovered
<1> QED
  BY <1>1, AlwaysTracked, PTL

-----------------------------------------------------------------------------
(* The facts that the mapping makes of the lists and the cursors. *)
Mapped ==
  /\ FactsBefore(storeState) = Before(storeState, items, tags)
  /\ FactsBefore(file.state) = Before(file.state, items, tags)

LEMMA AlwaysMapped == Kept => Mapped
BY FactsBeforeRows DEF Kept, TypeOK, Mapped

(* Everything that is known of a state that the service can be in. *)
Trusted == Kept /\ ValuesFresh /\ Sound /\ Tracked /\ Mapped

LEMMA TrustedInit == Init => Trusted
BY KeptInit, SoundInit, TrackedInit, AlwaysMapped
DEF Init, ValuesFresh, Trusted

LEMMA TrustedStep == Trusted /\ [Next]_vars => Trusted'
<1>1. Kept /\ [Next]_vars => Kept'
  BY KeptStep
<1>2. (Kept => Mapped)'
  BY AlwaysMapped, PTL
<1>3. Trusted /\ [Next]_vars => (ValuesFresh /\ Sound)'
  BY ValuesFreshStep, SoundStep DEF Trusted
<1>4. Trusted /\ Kept' /\ [Next]_vars => Tracked'
  BY TrackedStep DEF Trusted
<1> QED
  BY <1>1, <1>2, <1>3, <1>4 DEF Trusted

(* A step that touches none of the mapped variables is a stutter. *)
Untouched == UNCHANGED <<dbVars, index, storeState, file, dropped, misread>>

LEMMA Stutter ==
  ASSUME Trusted, Trusted', Untouched
  PROVE  UNCHANGED Promise!indexVars
<1>1. /\ FactsBefore(storeState)' = FactsBefore(storeState)
      /\ FactsBefore(file.state)' = FactsBefore(file.state)
  BY DEF Trusted, Mapped, Untouched, dbVars
<1> QED
  BY <1>1 DEF Promise!indexVars, Untouched, dbVars

(* The mapped lists and cursors of the next state. *)
LEMMA NextFacts ==
  ASSUME Trusted, Trusted'
  PROVE  /\ FactsOf(index)' = FactsOf(index')
         /\ FactsOf(file.index)' = FactsOf(file'.index)
         /\ FactsBefore(storeState) = Before(storeState, items, tags)
         /\ FactsBefore(file.state) = Before(file.state, items, tags)
         /\ FactsBefore(storeState)' = Before(storeState', items', tags')
         /\ FactsBefore(file.state)' = Before(file'.state, items', tags')
         /\ index \in Index /\ index' \in Index
         /\ file.index \in Index /\ file'.index \in Index
         /\ file.state \in StoreState /\ storeState \in StoreState
<1>1. TypeOK /\ TypeOK'
  BY DEF Trusted, Kept
<1> QED
  BY <1>1 DEF Trusted, Mapped, FactsOf, TypeOK, Snapshot
-----------------------------------------------------------------------------
(* The database states facts, and a row that it saves again leaves what is *)
(* done.                                                                   *)
LEMMA DatabaseSays ==
  ASSUME Trusted, Trusted', Database
  PROVE  Promise!Say
<1>1. /\ DBNext /\ DBTypeOK /\ DatabaseSound /\ NoCursorAhead
      /\ UNCHANGED <<index, storeState, file, dropped>>
  BY DEF Database, Trusted, Kept, TypeOK, Sound, storeVars, diskVars, history
<1>2. facts \subseteq facts'
  BY <1>1, DatabaseSoundStep
<1>3. /\ Before(storeState, items', tags') \subseteq
           Before(storeState, items, tags)
      /\ Before(file.state, items', tags') \subseteq
           Before(file.state, items, tags)
  BY <1>1, NextFacts, BeforeDatabase DEF NoCursorAhead, CursorsBehind
<1>4. FactsOf(index)' = FactsOf(index)
      /\ FactsOf(file.index)' = FactsOf(file.index)
  BY <1>1, NextFacts
<1>5. /\ FactsBefore(storeState)' \subseteq FactsBefore(storeState)
      /\ FactsBefore(file.state)' \subseteq FactsBefore(file.state)
  BY <1>1, <1>3, NextFacts
<1> QED
  BY <1>1, <1>2, <1>4, <1>5 DEF Promise!Say

(* The replacement of a list by more than it was. *)
LEMMA WriteLearns ==
  ASSUME Trusted, Trusted', ~misread, ~misread',
         NEW j \in Jobs, MergeWrite(j)
  PROVE  Promise!Learn
<1>1. UNCHANGED <<dbVars, storeState, file, dropped>>
  BY DEF MergeWrite, diskVars, history
<1>2. \A k \in Keys : index[k] \subseteq index'[k]
  BY WriteGrows DEF Trusted
<1>3. SoundIndex(index', facts)
  BY <1>1 DEF Trusted, Sound, dbVars
<1>4. FactsOf(index) \subseteq FactsOf(index')
  BY <1>2, NextFacts, FactsOfKeys
<1>5. FactsOf(index') \subseteq facts
  <2>1. \A k \in Keys : \A p \in index'[k] : <<k, p>> \in facts
    BY <1>3 DEF SoundIndex
  <2>2. \A f \in Keys \X Posts : f = <<f[1], f[2]>>
    OBVIOUS
  <2> QED
    BY <2>1, <2>2, NextFacts, FactsOfKeys
<1>6. /\ FactsBefore(storeState)' = FactsBefore(storeState)
      /\ FactsBefore(file.state)' = FactsBefore(file.state)
      /\ FactsOf(file.index)' = FactsOf(file.index)
  BY <1>1, NextFacts DEF dbVars
<1> QED
  BY <1>1, <1>4, <1>5, <1>6, NextFacts DEF Promise!Learn, dbVars

(* The commit, after the whole update was merged. *)
LEMMA CommitAcknowledges ==
  ASSUME Trusted, Trusted', ~misread, ~misread', NEW j \in Jobs, Commit(j)
  PROVE  Promise!Acknowledge
<1>1. /\ UNCHANGED <<dbVars, index, file, dropped>>
      /\ storeState' = next[j] /\ pc[j] = "merge"
  BY DEF Commit, diskVars, history
<1>2. /\ FactsOf(index)' = FactsOf(index)
      /\ FactsOf(file.index)' = FactsOf(file.index)
      /\ FactsBefore(file.state)' = FactsBefore(file.state)
  BY <1>1, NextFacts DEF dbVars
<1>3. FactsBefore(storeState) \subseteq FactsBefore(storeState)'
  <2>1. AtMost(storeState, next[j].LastItemUpdateTime, next[j].LastTagId)
    BY <1>1 DEF Trusted, Kept, CursorsKept
  <2>2. DBTypeOK /\ next[j] \in StoreState /\ storeState \in StoreState
    BY DEF Trusted, Kept, TypeOK
  <2>3. Before(storeState, items, tags) \subseteq Before(next[j], items, tags)
    BY <2>1, <2>2, BeforeLess
  <2> QED
    BY <1>1, <2>3, NextFacts DEF dbVars
<1>4. FactsBefore(storeState)' \subseteq FactsOf(index) \cup dropped
  <2>1. Held(Before(storeState', items', tags'), index', dropped')
    BY DEF Trusted, Tracked
  <2>2. \A f \in Before(storeState', items', tags') :
          f \in FactsOf(index') \/ f \in dropped'
    BY <2>1, BeforeType, FactsOfKeys, NextFacts DEF Held
  <2> QED
    BY <1>1, <2>2, NextFacts
<1> QED
  BY <1>1, <1>2, <1>3, <1>4 DEF Promise!Acknowledge, dbVars
-----------------------------------------------------------------------------
(* A deletion forgets what it says it has dropped. *)
LEMMA DeletionForgets ==
  ASSUME Trusted, Trusted', NEW ks \in DeletableSets, DeleteWords(ks)
  PROVE  Promise!Forget
<1>1. UNCHANGED <<dbVars, storeState, file>>
  BY DEF DeleteWords, diskVars
<1>2. /\ \A k \in Keys : index'[k] = IF k \in ks THEN {} ELSE index[k]
      /\ dropped' = dropped \cup {f \in ks \X Posts : f[2] \in index[f[1]]}
      /\ ks \subseteq Keys
  BY ServiceAssumption DEF DeleteWords
<1>3. /\ FactsBefore(storeState)' = FactsBefore(storeState)
      /\ FactsBefore(file.state)' = FactsBefore(file.state)
      /\ FactsOf(file.index)' = FactsOf(file.index)
  BY <1>1, NextFacts DEF dbVars
<1>4. \A f : f \in FactsOf(index') <=> f \in FactsOf(index) /\ f[1] \notin ks
  BY <1>2, NextFacts, FactsOfKeys
<1>5. {f \in ks \X Posts : f[2] \in index[f[1]]}
        = FactsOf(index) \ FactsOf(index')
  <2>1. \A f : f \in {g \in ks \X Posts : g[2] \in index[g[1]]}
                 <=> f \in Keys \X Posts /\ f[1] \in ks /\ f[2] \in index[f[1]]
    BY <1>2
  <2>2. \A f : f \in FactsOf(index) \ FactsOf(index')
                 <=> f \in FactsOf(index) /\ f[1] \in ks
    BY <1>4
  <2>3. \A f : f \in FactsOf(index)
                 <=> f \in Keys \X Posts /\ f[2] \in index[f[1]]
    BY NextFacts, FactsOfKeys
  <2> QED
    BY <2>1, <2>2, <2>3
<1> QED
  BY <1>1, <1>2, <1>3, <1>4, <1>5, NextFacts DEF Promise!Forget, dbVars

(* A rebuild puts one cursor back. *)
LEMMA RebuildStartsOver ==
  ASSUME Trusted, Trusted', RebuildItems \/ RebuildTags
  PROVE  Promise!StartOver
<1>1. UNCHANGED <<dbVars, index, file, dropped>>
  BY DEF RebuildItems, RebuildTags, diskVars
<1>2. DBTypeOK /\ storeState \in StoreState /\ storeState' \in StoreState
  BY DEF Trusted, Kept, TypeOK
<1>3. AtMost(storeState', storeState.LastItemUpdateTime, storeState.LastTagId)
  BY <1>2 DEF RebuildItems, RebuildTags, AtMost, StoreState
<1>4. FactsBefore(storeState)' \subseteq FactsBefore(storeState)
  BY <1>1, <1>2, <1>3, BeforeLess, NextFacts DEF dbVars
<1>5. /\ FactsOf(index)' = FactsOf(index)
      /\ FactsOf(file.index)' = FactsOf(file.index)
      /\ FactsBefore(file.state)' = FactsBefore(file.state)
  BY <1>1, NextFacts DEF dbVars
<1> QED
  BY <1>1, <1>4, <1>5 DEF Promise!StartOver, dbVars

(* The rename puts all of one moment into the file. *)
LEMMA RenameSaves ==
  ASSUME Trusted, Trusted', NEW c \in Checkpointers, CkptRename(c)
  PROVE  Promise!Save
<1>1. UNCHANGED <<dbVars, index, storeState, dropped>>
  BY DEF CkptRename, storeVars, history
<1>2. file'.state = storeState /\ file'.index = index
  BY RenamedFile DEF Trusted, Kept
<1>3. /\ FactsOf(index)' = FactsOf(index)
      /\ FactsBefore(storeState)' = FactsBefore(storeState)
      /\ FactsOf(file.index)' = FactsOf(index)
      /\ FactsBefore(file.state)' = FactsBefore(storeState)
  BY <1>1, <1>2, NextFacts DEF dbVars
<1> QED
  BY <1>1, <1>3 DEF Promise!Save, dbVars
-----------------------------------------------------------------------------
(* What a restart reads is what was saved. *)
LEMMA CrashRestores ==
  ASSUME Trusted, Trusted', CrashRestart
  PROVE  Promise!Restore
<1>1. UNCHANGED <<dbVars, file, dropped>>
  BY DEF CrashRestart, diskVars
<1>2. index' = file.index /\ storeState' = file.state
  BY DEF CrashRestart, Restart
<1>3. /\ FactsOf(index)' = FactsOf(file.index)
      /\ FactsOf(file.index)' = FactsOf(file.index)
      /\ FactsBefore(storeState)' = FactsBefore(file.state)
      /\ FactsBefore(file.state)' = FactsBefore(file.state)
  BY <1>1, <1>2, NextFacts DEF dbVars
<1> QED
  BY <1>1, <1>3 DEF Promise!Restore, dbVars

(* Or nothing of it, or all that was done and a part of what was known.    *)
LEMMA PowerRestores ==
  ASSUME Trusted, Trusted', PowerFailure
  PROVE  Promise!Restore
<1>1. PICK part \in {NoFile} \cup {PartBefore(k) : k \in Keys} :
        /\ file' = part /\ Restart(part)
        /\ dropped' = dropped \cup LostWith(part)
  BY DEF PowerFailure
<1>2. UNCHANGED dbVars
  BY DEF PowerFailure
<1>3. index' = file'.index /\ storeState' = file'.state
  BY <1>1 DEF Restart
<1>4. /\ FactsOf(index)' = FactsOf(file.index)'
      /\ FactsBefore(storeState)' = FactsBefore(file.state)'
  BY <1>3, NextFacts
<1>5. CASE part = NoFile
  <2>1. dropped' = dropped
    BY <1>1, <1>5 DEF LostWith
  <2>2. FactsOf(file.index)' = {}
    <3>1. file'.index = EmptyIndex
      BY <1>1, <1>5 DEF NoFile
    <3>2. \A k \in Keys : EmptyIndex[k] = {}
      BY DEF EmptyIndex
    <3>3. \A f : f \notin FactsOf(file'.index)
      BY <3>1, <3>2, NextFacts, FactsOfKeys
    <3> QED
      BY <3>3, NextFacts
  <2>3. FactsBefore(file.state)' = {}
    <3>1. file'.state = InitState /\ DBTypeOK
      BY <1>1, <1>5 DEF NoFile, Trusted, Kept, TypeOK
    <3> QED
      BY <1>2, <3>1, BeforeStart, NextFacts DEF dbVars
  <2> QED
    BY <1>2, <1>4, <2>1, <2>2, <2>3 DEF Promise!Restore, Promise!Nothing, dbVars
<1>6. CASE part # NoFile
  <2>1. PICK k \in Keys : part = PartBefore(k)
    BY <1>1, <1>6
  <2>2. /\ file'.state = file.state
        /\ \A h \in Keys : file'.index[h] \subseteq file.index[h]
    BY <1>1, <2>1 DEF PartBefore, Trusted, Kept, TypeOK, Snapshot, Index
  <2>3. FactsBefore(file.state)' = FactsBefore(file.state)
    BY <1>2, <2>2, NextFacts DEF dbVars
  <2>4. FactsOf(file'.index) \subseteq FactsOf(file.index)
    BY <2>2, NextFacts, FactsOfKeys
  <2>5. LostWith(part) = FactsOf(file.index) \ FactsOf(file'.index)
    <3>1. \A f : f \in LostWith(part)
                   <=> /\ f \in Keys \X Posts /\ f[2] \in file.index[f[1]]
                       /\ f[2] \notin file'.index[f[1]]
      BY <1>1, <1>6 DEF LostWith
    <3> QED
      BY <3>1, NextFacts, FactsOfKeys
  <2> QED
    BY <1>1, <1>2, <1>4, <2>3, <2>4, <2>5, NextFacts
    DEF Promise!Restore, dbVars
<1> QED
  BY <1>5, <1>6
-----------------------------------------------------------------------------
(* Every step of the service is a step of the promise, or none.            *)
LEMMA StepKeepsPromise ==
  ASSUME Trusted, Trusted', [Next]_vars
  PROVE  [Promise!IndexNext]_(Promise!indexVars)
<1> DEFINE Goal == [Promise!IndexNext]_(Promise!indexVars)
<1>1. ASSUME misread' PROVE Goal
  BY <1>1 DEF Promise!IndexNext
<1>2. ASSUME Untouched PROVE Goal
  BY <1>2, Stutter
<1>3. misread \in BOOLEAN
  BY DEF Trusted, Kept, TypeOK
<1>4. CASE Database
  BY <1>4, DatabaseSays DEF Promise!IndexNext, Database, history
<1>5. ASSUME NEW j \in Jobs, UpdateJob(j) PROVE Goal
  <2>1. /\ UNCHANGED <<dbVars, file, dropped>>
        /\ storeState' = storeState \/ Commit(j)
        /\ index' = index \/ MergeWrite(j)
        /\ misread' = misread \/ misread' = TRUE
    BY <1>5, JobLeaves DEF diskVars
  <2>2. CASE misread'
    BY <1>1, <2>2
  <2>3. CASE ~misread' /\ MergeWrite(j)
    BY <1>3, <2>1, <2>3, WriteLearns DEF Promise!IndexNext
  <2>4. CASE ~misread' /\ Commit(j)
    BY <1>3, <2>1, <2>4, CommitAcknowledges DEF Promise!IndexNext
  <2>5. CASE ~misread' /\ ~MergeWrite(j) /\ ~Commit(j)
    BY <1>2, <1>3, <2>1, <2>5 DEF Untouched
  <2> QED
    BY <2>2, <2>3, <2>4, <2>5
<1>6. CASE Admin
  <2>1. ASSUME NEW ks \in DeletableSets, DeleteWords(ks) PROVE Goal
    BY <2>1, DeletionForgets DEF Promise!IndexNext, DeleteWords
  <2>2. CASE RebuildItems \/ RebuildTags
    BY <2>2, RebuildStartsOver
    DEF Promise!IndexNext, RebuildItems, RebuildTags
  <2> QED
    BY <1>6, <2>1, <2>2 DEF Admin
<1>7. ASSUME NEW c \in Checkpointers, WriteCheckpoint(c) PROVE Goal
  <2>1. CASE CkptRename(c)
    BY <2>1, RenameSaves DEF Promise!IndexNext, CkptRename, history
  <2>2. CASE ~CkptRename(c)
    BY <1>2, <1>7, <2>2 DEF WriteCheckpoint, CkptBegin, CkptKey, CkptFails,
                            storeVars, diskVars, history, Untouched
  <2> QED
    BY <2>1, <2>2
<1>8. CASE Machine
  <2>1. CASE CrashRestart
    BY <2>1, CrashRestores DEF Promise!IndexNext, CrashRestart
  <2>2. CASE PowerFailure
    BY <2>2, PowerRestores DEF Promise!IndexNext, PowerFailure
  <2>3. CASE Writeback
    BY <1>2, <2>3 DEF Writeback, storeVars, history, Untouched
  <2> QED
    BY <1>8, <2>1, <2>2, <2>3 DEF Machine
<1>9. CASE UNCHANGED vars
  BY <1>2, <1>9 DEF vars, storeVars, diskVars, history, Untouched
<1> QED
  BY <1>4, <1>5, <1>6, <1>7, <1>8, <1>9 DEF Next

LEMMA InitKeepsPromise == Init => Promise!IndexInit
<1> SUFFICES ASSUME Init PROVE Promise!IndexInit
  OBVIOUS
<1>1. DBTypeOK /\ facts = {} /\ dropped = {} /\ misread = FALSE
      /\ index = EmptyIndex /\ file.index = EmptyIndex
      /\ storeState = InitState /\ file.state = InitState
  BY InitType DEF TypeOK, Init, DBInit, NoFile
<1>2. FactsOf(EmptyIndex) = {}
  BY DEF FactsOf, EmptyIndex
<1>3. FactsBefore(InitState) = {}
  BY <1>1, FactsBeforeRows, BeforeStart
<1> QED
  BY <1>1, <1>2, <1>3 DEF Promise!IndexInit, Promise!Nothing

(* The service implements the index of TagIndex (actions.go:38-128,        *)
(* restapi.go:53-100, main.go:90-104): its queries, merges, locks, files   *)
(* and restarts do nothing to the facts that the promise does not allow.   *)
THEOREM PromiseKept == Spec => KeepsPromise
<1>1. Init => Trusted /\ Promise!IndexInit
  BY TrustedInit, InitKeepsPromise
<1>2. Trusted /\ [Next]_vars => Trusted'
  BY TrustedStep
<1>3. Trusted /\ Trusted' /\ [Next]_vars
        => [Promise!IndexNext]_(Promise!indexVars)
  BY StepKeepsPromise
<1> QED
  BY <1>1, <1>2, <1>3, PTL DEF Spec, KeepsPromise, Promise!IndexSpec

LEMMA HonestStep ==
  ASSUME Promise!Honest, [Promise!IndexNext]_(Promise!indexVars)
  PROVE  Promise!Honest'
<1>1. SUFFICES ASSUME ~misread' PROVE Promise!Honest'
  BY DEF Promise!Honest
<1>2. CASE UNCHANGED Promise!indexVars
  BY <1>2 DEF Promise!indexVars, Promise!Honest
<1>3. CASE /\ UNCHANGED misread
           /\ Promise!Say \/ Promise!Learn \/ Promise!Acknowledge
                \/ Promise!StartOver
  BY <1>1, <1>3
     DEF Promise!Honest, Promise!Say, Promise!Learn, Promise!Acknowledge,
         Promise!StartOver
<1>4. CASE UNCHANGED misread /\ (Promise!Forget \/ Promise!Save)
  BY <1>1, <1>4 DEF Promise!Honest, Promise!Forget, Promise!Save
<1>5. CASE UNCHANGED misread /\ Promise!Restore
  BY <1>1, <1>5 DEF Promise!Honest, Promise!Restore, Promise!Nothing
<1> QED
  BY <1>1, <1>2, <1>3, <1>4, <1>5 DEF Promise!IndexNext

(* What the promise comes to: whatever crashes, merges and rebuilds happen,*)
(* the service has what it counts as done, now and after a restart, unless *)
(* that was deleted or lost with a part of a file, and what it has the     *)
(* database has stated (actions.go:38-128, main.go:90-104).                *)
THEOREM HonestIndex == Spec => []Promise!Honest
<1>1. Promise!IndexInit => Promise!Honest
  BY DEF Promise!IndexInit, Promise!Honest, Promise!Nothing
<1>2. Promise!Honest /\ [Promise!IndexNext]_(Promise!indexVars)
        => Promise!Honest'
  BY HonestStep
<1> QED
  BY <1>1, <1>2, PromiseKept, PTL DEF KeepsPromise, Promise!IndexSpec
=============================================================================
