SPECIFICATION Spec
CONSTANTS
  LsnSize = 3
  IntRange = 8
  ImageSize = 15
  MaxBlocks = 3
INVARIANTS
  ReadsTheBlocksAskedFor
