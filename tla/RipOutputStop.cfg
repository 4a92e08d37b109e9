SPECIFICATION Spec
CONSTANTS
  MaxBatch = 2
  Start1 = 2
  End1 = 5
  Start2 = 6
  End2 = 8
  Requests <- MCTwoRequests
  TrackStart <- MCTrackStart
  DiscIsEncrypted = TRUE
  ProbedFormat = FALSE
PROPERTIES
  StopRequestStands
CHECK_DEADLOCK FALSE
