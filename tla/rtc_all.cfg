SPECIFICATION FairSpec
CONSTANTS
  Sleepers = {s1}
  Driver = driver
  Engine = engine
  Timer = timer
  None = None
  FifoSize = 2
  MaxDate = 1
  MaxTasks = 2
INVARIANTS Accounted ExclusiveUnlessSkipped TakenInOrder DestroyedLast
PROPERTY DueTasksRun
CHECK_DEADLOCK FALSE
