\* Every combination of two lists is an iterator over the right set.
CONSTANT
  Ids <- FourIds
  MinId <- LeastId
SPECIFICATION FairSpec
INVARIANTS TypeOK StandsOnHit
PROPERTIES Implements CallsReturn
