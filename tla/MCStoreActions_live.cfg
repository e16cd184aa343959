\* The database rests in the end.
SPECIFICATION FairSpec
CONSTANTS
  p1 = p1  p2 = p2  p3 = p3  j1 = j1  j2 = j2  c1 = c1  c2 = c2
  NoJob = NoJob
  Posts <- MCPosts
  Keys <- TwoKeys
  AllKey = 0
  PostKeySets <- OnlyLabel
  TagKeySets <- OnlyLabel
  MaxTime = 1
  MaxTags = 2
  MaxTies = 2
  ItemLimit = 3
  TagLimit = 2
  Jobs <- OneJob
  Checkpointers <- OneCheckpointer
  DeletableSets <- NoDeletes
  TornFiles = FALSE
  MaxFaults = 1
  MaxRequests = 0
PROPERTIES EventuallyComplete JobsEnd
