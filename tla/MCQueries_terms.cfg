\* The optimizer drops a term next to its own exclusion.
CONSTANTS
  Texts <- QueryTexts
  Posts <- AllPosts
  ByteOrder <- Order
  Heights = {8}
  MaxPasses = 16
SPECIFICATION Spec
INVARIANT SameHits
CHECK_DEADLOCK FALSE
