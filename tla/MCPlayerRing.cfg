SPECIFICATION Spec
CONSTANTS
  SPF = 3
  Frames = 6
  Kept = {2, 3}
  Short = {0, 1}
  Offsets = {2, 3}
  MaxLag = 2
  MaxLate = 1
  MaxFrames = 8
  FailsAt = {19}
INVARIANTS DeviceFrameIntact OnlyLapHeadStale ReferencePlayed ReferenceFaithful RingInv

