SPECIFICATION FairSpec
CONSTANTS
  Programs <- KnownPrograms
  Texts <- AllTexts
  Names = {"f", "g"}
  Wide = {"wide"}
  MaxLex = 4
  MaxScan = 4
INVARIANTS
  MaskAgrees
  FunctionsAreSound
  FindsAll
PROPERTIES
  ScanTerminates
CHECK_DEADLOCK FALSE
