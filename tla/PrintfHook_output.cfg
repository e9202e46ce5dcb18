SPECIFICATION Spec
CONSTANTS
  SizeMod = 4096
  IntValues <- MCIntValues
  Sizes <- MCSizes
  MaxText = 2
  MaxWidth = 2
  MaxReads = 5
  MaxPrints = 2
CHECK_DEADLOCK FALSE
INVARIANTS
  TypeOK
  OutputIsRight
  CursorKept
