\* Queries from their texts to their hits, with and without the optimizer.
CONSTANTS
  Texts <- QueryTexts
  Posts <- AllPosts
  ByteOrder <- Order
  Heights = {8}
  MaxPasses = 16
SPECIFICATION Spec
INVARIANTS TypeOK FirstChildrenAreThere ParserMatchesGrammar Converges TagFound SpecialWordsFind
PROPERTIES RulesKeepHits Optimizes
CHECK_DEADLOCK FALSE
