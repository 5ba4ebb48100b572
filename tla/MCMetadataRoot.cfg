CONSTANTS
  Names <- MCNames
  NameLength <- MCNameLength
  Regions <- MCRegions
SPECIFICATION RootSpec
INVARIANTS
  ListIsLongestPrefix
  FirstNameWins
  StrictIsConforming
CHECK_DEADLOCK FALSE
