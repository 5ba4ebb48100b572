CONSTANTS
  MaxRows = 3
  Columns <- MCColumns
  Keys <- MCKeys
  MaxU32 <- MCMaxU32
  Contents <- MCContents
  KeyTables <- MCKeyTables
  TagBase <- MCTagBase
  RidBase <- MCRidBase
  Tokens <- MCTokens
  Rids <- MCRids
  TypeCount <- MCTypeCount
SPECIFICATION FairParentSpec
INVARIANTS
  SortedBitExact
  DisorderHandled
  CallsExact
  NameFollowsNesting
PROPERTIES
  RefinesKeyIndex
  CallsReturn
CHECK_DEADLOCK FALSE
