SPECIFICATION Spec
CONSTANTS
  Procs = 2
  InLimit = 3
  MaxFrames = 4
  BadFrames <- MCBadFrames
  PauseOutlastsWorkers = TRUE
  Garbage <- MCGarbage
  Silence <- MCSilence
INVARIANTS
  TypeOK
  LocksDescribeLists
  EveryJobInOnePlace
  BuffersHaveOneOwner
  NoAssertionFails
PROPERTIES
  DeliversAsPromised
  CallsReturn
