SPECIFICATION PlayerSpec
CONSTANTS
  Handles = {"a", "b"}
  MaxBatch = 2
  Start1 = 2
  End1 = 5
  Start2 = 8
  End2 = 10
  First <- MCFirst
  End <- MCEnd
  TagSize <- MCTagSize
  HeaderSize = 2
  BigTag = 3
  LowWater = 2
  Capacity = 5
  MaxPending = 2
  Discs <- MCEncryptedDiscs
  MaxRead = 3
  Rings = {a, b}
  MaxSize = 2
  Bytes = {x, y, z}
  Garbage = g
  Parts = {"file"}
INVARIANTS
  PlayerGetsTheFile
