SPECIFICATION Spec
CONSTANTS
  Capacity = 7
  DropLimit = 4
  RewindMargin = 1
  RecoveryMargin = 2
  RecoveryCount = 3
  CatchUp <- MCCatchUp
  SkipMax = 1
  InitialDebt = 1
  SamplesPerFrame = 4
  InOrder = TRUE
  MaxWrites = 8
  MaxBurst = 2
  MaxLag = 1
INVARIANTS PendingFramesStored HeldFramesIntact
PROPERTIES ImplementsQueue OnlySilenceAdjusted
