CONSTANTS
  Lengths <- MCLengths
  Bytes <- MCBytes
  Tails <- MCTails
  recursion_limit = 2
  MAX_DEPTH = 3
  Regions <- MCRegions
  PlainRegion <- MCPlainRegion
  Slots <- MCSlots
  MethodSigs <- MCMethodSigs
  Shapes <- MCShapes
SPECIFICATION Spec
INVARIANTS
  DepthIsNesting
  EveryItemTakesAByte
  SentinelSplits
PROPERTIES
  NestedPinnedRejected
  ParseEnds
CHECK_DEADLOCK FALSE
