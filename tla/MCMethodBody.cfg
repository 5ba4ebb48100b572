CONSTANTS
  MaxSections = 2
  MaxClauses = 2
  MaxLength = 60
  Bodies <- MCBodies
  AnySection <- MCAnySection
SPECIFICATION FairSpec
INVARIANTS
  ClausesApart
  ClausesRecovered
PROPERTY
  ParseEnds
CHECK_DEADLOCK FALSE
