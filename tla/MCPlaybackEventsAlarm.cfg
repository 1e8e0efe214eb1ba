SPECIFICATION Spec
CONSTANTS
  StartUp = 1
  EventGap = 2
  NoTrafficGap = 2
  MaxLag = 2
  MaxFrames = 10
INVARIANTS AlarmWithdrawn
