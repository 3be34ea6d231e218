SPECIFICATION FairSpec
CONSTANTS
  Names = {a, b, c, d}
  MaxExisting = 2
  MaxRows = 3
INVARIANTS
  FlaggedOnCycles
  RejectsExactlyCycles
  EveryTangleFlagged
  WalkInv
PROPERTIES
  Terminates
