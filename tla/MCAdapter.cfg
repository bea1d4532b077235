CONSTANTS
  FillSize = 3
  Capacity = 2
  SourceLength = 4
  Wants = {1, 3}
  OldLength = 1
  Start = 1
  MaxFaults = 2
SPECIFICATION Spec
CHECK_DEADLOCK FALSE
INVARIANTS ReadInOrder FlushMeansStored LengthHonest
