CONSTANTS
  Names <- MCNames
  NameLength <- MCNameLength
  Regions <- MCRegions
SPECIFICATION RootSpec
INVARIANTS
  TruncationEndsTheList
CHECK_DEADLOCK FALSE
