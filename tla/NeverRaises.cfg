SPECIFICATION Spec
CONSTANTS
  Programs <- KnownPrograms
  Texts <- AllTexts
  Names = {"f", "g"}
  Wide = {"wide"}
  MaxLex = 4
  MaxScan = 4
INVARIANTS
  NeverRaises
CHECK_DEADLOCK FALSE
