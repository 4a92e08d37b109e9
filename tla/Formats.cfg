SPECIFICATION FormatsSpec
CONSTANTS
  MaxDst = 6
  FrameSize = 2
  MaxPackets = 4
  Sectors <- MCSectors
  Channels = 2
  Block = 4
  FrameLens = {4, 5, 9, 10, 12}
  MaxFrames = 4
  Albums <- MCAlbums
  PieceLens = {4, 5}
  MaxPieces = 3
INVARIANTS
  FramesComeWhole
  BlocksHoldTheChannels
  FileCanBeRead
  TagIsReadAsWritten
