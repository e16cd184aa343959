\* A client pages through the results of a query while lists grow.
CONSTANTS
  Posts <- FourPosts
  PageSize = 2
SPECIFICATION Spec
INVARIANTS TypeOK PagesComplete NoPostTwice
PROPERTY RandomHitsOnce
