CONSTANTS
  MaxLength = 60
  SlotCount = 4
  Known <- MCKnown
  Schema <- MCSchema
  PtrSource <- MCPtrSource
  NoTable <- MCNoTable
  Keyed = {2}
  NarrowRows = 4
  Heaps = {"strings"}
  Counts = {0, 1, 2, 4}
  Lengths <- MCLengths
SPECIFICATION Spec
INVARIANTS
  RowsInStream
  TablesDisjoint
  ColumnsTile
  NarrowIndexReaches
  StatedUnlessDiagnosed
CHECK_DEADLOCK FALSE
