SPECIFICATION FairSpec
CONSTANTS
  Capacity = 5
  DropLimit = 3
  RewindMargin = 1
  RecoveryMargin = 2
  RecoveryCount = 2
  CatchUp <- MCCatchUp
  SkipMax = 2
  InitialDebt = 1
  SamplesPerFrame = 4
  InOrder = FALSE
  MaxWrites = 5
  MaxBurst = 1
  MaxLag = 1
INVARIANTS CountInv
PROPERTIES BacklogDrains
