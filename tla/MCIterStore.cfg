\* The store down to its bytes, up to lists that are too long.
CONSTANTS
  Posts <- FourPosts
  Keys <- TwoWords
  AllKey = 0
  MaxRows = 2
  InlineBytes = 1
  LargeCount = 1
  MaxBytes = 12
SPECIFICATION Spec
INVARIANTS TypeOK BatchIsBuild StoreIsIndex
