CONSTANTS
  Length = 3
  Depth = 2
  LargeSize = 2
  SmallSize = 1
  Others = TRUE
  Overclaims = TRUE
SPECIFICATION FairSpec
INVARIANT Partitioned
PROPERTIES KeepsContract Completes
