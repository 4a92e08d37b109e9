SPECIFICATION Spec
CONSTANTS
  MaxBatch = 2
  Start1 = 2
  End1 = 5
  Start2 = 6
  End2 = 8
  Requests <- MCRequests
  TrackStart <- MCTrackStart
  DiscIsEncrypted = TRUE
  ProbedFormat = FALSE
INVARIANTS
  TypeOK
  CompleteOrGone
  CallbacksFindTheirTrack
  NothingLeftBehind
PROPERTIES
  InterruptIsObeyed
  DestroyReturns
CHECK_DEADLOCK FALSE
