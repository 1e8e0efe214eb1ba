SPECIFICATION FairSpec
CONSTANTS
  StartUp = 1
  EventGap = 2
  NoTrafficGap = 2
  MaxLag = 2
  MaxFrames = 8
INVARIANTS OKPerOutage LongOutageNoticed EventsInv
PROPERTIES RequestsTaken
