\* A page is full of posts that were updated at the same time.
SPECIFICATION FairSpec
CONSTANTS
  p1 = p1  p2 = p2  p3 = p3  j1 = j1  j2 = j2  c1 = c1  c2 = c2
  NoJob = NoJob
  Posts <- ThreePosts
  Keys <- TwoKeys
  AllKey = 0
  PostKeySets <- OnlyLabel
  TagKeySets <- OnlyLabel
  MaxTime = 2
  MaxTags = 0
  MaxTies = 2
  ItemLimit = 2
  TagLimit = 2
  Jobs <- OneJob
  Checkpointers <- NoCheckpointer
  DeletableSets <- NoDeletes
  TornFiles = FALSE
  MaxFaults = 0
  MaxRequests = 0
PROPERTY EventuallyComplete
