SPECIFICATION FairSpec
CONSTANTS
  Limit = 1
  Recovery = 2
  MaxFrames = 4
  MaxStarts = 2
INVARIANTS StallNoticed StallInv
PROPERTIES AlarmJustified RecoveryEnds
