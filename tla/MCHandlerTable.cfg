CONSTANTS
  OffsetMax = 6
  CodeLens = {4, 6}
  Tables <- MCTables
  Offsets = {0, 1, 2, 4}
  Lengths = {0, 1, 2, 4}
  Filters = {1, 5, 7}
SPECIFICATION ValidateSpec
INVARIANTS
  AcceptedIsSound
  RejectedIsFaulty
CHECK_DEADLOCK FALSE
