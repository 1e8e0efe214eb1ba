SPECIFICATION FairSpec
CONSTANTS
  RingFrames = 3
  Orderly = TRUE
  Failures = TRUE
  MaxBacklog = 2
  MaxFrames = 4
  MaxSessions = 3
  MaxRead = 8
INVARIANTS FrameIntact RecInv
PROPERTIES ImplementsStream EncoderLeaves FramesGetEncoded
