\* The updater follows the database: failed queries, crashes, torn files.
SPECIFICATION Spec
CONSTANTS
  p1 = p1  p2 = p2  p3 = p3  j1 = j1  j2 = j2  c1 = c1  c2 = c2
  NoJob = NoJob
  Posts <- MCPosts
  Keys <- MCKeys
  AllKey = 0
  PostKeySets <- OnlyLabel
  TagKeySets <- OnlyWord
  MaxTime = 2
  MaxTags = 1
  MaxTies = 2
  ItemLimit = 2
  TagLimit = 2
  Jobs <- MCJobs
  Checkpointers <- OneCheckpointer
  DeletableSets <- NoDeletes
  TornFiles = TRUE
  MaxFaults = 1
  MaxRequests = 0
SYMMETRY Symmetry
INVARIANTS CursorCovered CheckpointCovered IndexSound OneUpdateAtATime
PROPERTIES ListsGrow CheckpointIsSnapshot CursorsAdvance KeepsPromise
