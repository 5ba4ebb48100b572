CONSTANTS
  Radix <- MCRadix
  GuidSize <- MCGuidSize
  TokenSpan <- MCTokenSpan
  OffsetLimit <- MCOffsetLimit
  Heaps <- MCHeaps
SPECIFICATION Spec
INVARIANTS
  IterationAgrees
  SignedIsRotated
  WrittenIsRead
PROPERTIES
  RefinesScan
CHECK_DEADLOCK FALSE
