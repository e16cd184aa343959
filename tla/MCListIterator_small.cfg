\* Slices and the lists of up to 100000 posts.
CONSTANTS
  Ids <- FiveIds
  Codecs <- SmallCodecs
SPECIFICATION Spec
INVARIANT NothingLost
PROPERTY Implements
