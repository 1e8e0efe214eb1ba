SPECIFICATION FairSpec
CONSTANTS
  RingFrames = 2
  Orderly = TRUE
  Failures = FALSE
  MaxBacklog = 1
  MaxFrames = 3
  MaxSessions = 2
  MaxRead = 6
PROPERTIES CallbackReturns
