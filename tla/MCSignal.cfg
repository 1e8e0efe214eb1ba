SPECIFICATION FairSpec
CONSTANTS
  Threads = {t1, t2, t3}
  NoThread = NoThread
  Second = 4
  Timeouts = {1, 6}
  ClockReadings = {3}
INVARIANTS NoLostWakeup DeadlineExact
PROPERTIES ImplementsEvent TimedWaitReturns NotifyReturns NotificationTaken
