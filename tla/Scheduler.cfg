CONSTANTS
  Tasks = {t1, t2}
  MinTicks = 1
  MaxDelay = 3
  MaxTime = 5
  MaxEventId = 2
SPECIFICATION FairSpec
INVARIANTS TypeOK NeverEarly StopInv NoOversleep
PROPERTIES EventuallyDelivered ImplementsTimerService
CHECK_DEADLOCK FALSE
