SPECIFICATION Spec
CONSTANTS
  Procs = 2
  InLimit = 3
  MaxFrames = 2
  BadFrames <- MCBadFrames
  PauseOutlastsWorkers = FALSE
  Garbage <- MCGarbage
  Silence <- MCSilence
INVARIANTS
  AllThreadsCameBack
