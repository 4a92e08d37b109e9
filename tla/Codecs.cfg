SPECIFICATION CodecsSpec
CONSTANTS
  NrOfChannels = 2
  MaxFrameLen = 3
  SIZE_CODEDPREDORDER = 2
  SIZE_PREDCOEF = 5
  AC_BITS = 4
  AC_HISBITS = 2
  SIZE_RICEMETHOD = 2
  SIZE_RICEM = 2
  MAXNROF_FSEGS = 3
  MAXNROF_PSEGS = 4
  MAXNROF_SEGS = 4
  MIN_FSEG_LEN = 8
  MIN_PSEG_LEN = 8
  NBITS = 4
  GROUP = 2
  Frames <- MCFrames
  Heads = {g, h}
  Nodes = {a, b, c}
  Null = Null
  Poison = Poison
INVARIANTS
  FramesAreDecoded
  AcceptedIsDecodable
  MessagesAreRight
  PointersHoldTogether
PROPERTY
  ListsAreSequences
