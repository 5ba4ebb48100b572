CONSTANTS
  Images <- MCImages
  Rvas <- MCRvas
  MaxRva <- MCMaxRva
SPECIFICATION Spec
INVARIANTS
  TranslationBacked
  SlicesAreMapped
  RegionInFile
CHECK_DEADLOCK FALSE
