\* Three processes, one of them server/idle; timers of one tick or none, one interrupt vector.
CONSTANTS
  MaxProcs = 3
  BootProcs = 3
  IdleServer = 0
  Vectors = {v1}
  MaxSleep = 1
  MaxWakeups = 1
  Null = Null
SPECIFICATION MCSpec
INVARIANTS Scheduled NoDanglingProcess
PROPERTIES TimedSleepEnds IdleYields
CHECK_DEADLOCK FALSE
