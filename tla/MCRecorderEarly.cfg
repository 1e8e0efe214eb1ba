SPECIFICATION Spec
CONSTANTS
  RingFrames = 3
  Orderly = TRUE
  Failures = FALSE
  MaxBacklog = 2
  MaxFrames = 3
  MaxSessions = 1
  MaxRead = 8
PROPERTIES EncoderStaysUntilStop
