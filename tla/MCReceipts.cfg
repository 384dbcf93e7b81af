SPECIFICATION Spec
CONSTANTS
  MaxHeight = 4
  Backfill = 2
  MaxBlocks = 2
  Depth = 2
  Window = 2
  Limit = 1
INVARIANTS FlagsSound
PROPERTIES StatusesFilled
