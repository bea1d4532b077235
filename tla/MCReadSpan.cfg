CONSTANTS
  Length = 4
  Depth = 2
  LargeSize = 2
  SmallSize = 1
  Others = TRUE
  FileLengths = {1, 4}
SPECIFICATION FairSpec
INVARIANTS JudgedRight EndIsReal
PROPERTY FillEnds
