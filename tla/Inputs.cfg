SPECIFICATION InputsSpec
CONSTANTS
  LsnSize = 3
  IntRange = 16
  ImageSize = 15
  MaxBlocks = 3
  Total = 3
  MaxRead = 2
  MaxRejected = 1
  Discs <- MCDiscs
INVARIANTS
  ReadsTheBlocksAskedFor
  ReadsAreAnswered
  ClosingFreesWhatOpeningTook
  AreasAreWhatTheySay
PROPERTIES
  CallsReturn
