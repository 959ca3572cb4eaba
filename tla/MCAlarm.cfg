SPECIFICATION AlarmSpec
CONSTANTS
  main = main
  a = a
  b = b
  c = c
  NULL = NULL
  Thread <- MCThread
  initial_thread = main
  PRI_MAX = 2
  PRI_DEFAULT = 1
  TIME_SLICE = 2
  NewPriority <- Higher
  SetPriorities <- Lowest
  Donated <- None
  Sleeps <- MCSleeps
  MaxTicks = 3
SYMMETRY Pages
INVARIANTS SleepListExact HighestRuns
PROPERTIES WokenOnTime AlarmImplementsThreads
