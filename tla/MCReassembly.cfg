CONSTANTS
  Asked <- MCAsked
  FragmentCap = 4
  EmptyTolerance = 1
  Payload = 2
SPECIFICATION Spec
INVARIANTS CoverageExact CompleteExactly WholeReply
