\* The lists of more than 100000 posts: the first post is lost.
CONSTANTS
  Ids <- FiveIds
  Codecs <- LargeCodec
SPECIFICATION Spec
INVARIANT NothingLost
