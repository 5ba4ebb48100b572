CONSTANTS
  MaxOwners = 3
  MaxRaw = 4
  MaxTarget = 3
  ListColumns <- MCListColumns
  RowCounts <- MCRowCounts
  Members <- MCMembers
  PtrColumns <- MCPtrColumns
  MaxU32 <- MCMaxU32
SPECIFICATION FairMemberSpec
INVARIANTS
  OwnerExact
  BisectionSuffices
  MembersPartition
  WalksStayInside
PROPERTY
  OwnerTerminates
CHECK_DEADLOCK FALSE
