SPECIFICATION FairSpec
CONSTANTS
  ThreadCounts = {1, 2, 3, 5}
  Sizes <- SmallOrWide
  Values = {100, 255}
CHECK_DEADLOCK FALSE
INVARIANTS
  SavedIsNegative
  SharesAreDisjoint
PROPERTIES
  Ends
