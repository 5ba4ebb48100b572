CONSTANTS
  MaxInstructions = 4
  Codes <- MCCodes
  OffsetLimit = 20
  NoOffset = NoOffset
SPECIFICATION FairSpec
INVARIANTS
  PrefixesAreTheirs
  BoundaryExact
PROPERTIES
  RefinesScan
  ReadingEnds
CHECK_DEADLOCK FALSE
