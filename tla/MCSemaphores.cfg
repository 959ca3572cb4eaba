SPECIFICATION SemaFairSpec
CONSTANTS
  main = main
  a = a
  b = b
  x = x
  y = y
  NULL = NULL
  Thread <- Pages3
  initial_thread = main
  PRI_MAX = 2
  PRI_DEFAULT = 1
  TIME_SLICE = 1
  NewPriority <- Default
  SetPriorities <- None
  Donated <- Highest
  Sema <- Two
  InitValue <- TwoZero
  MaxValue = 2
INVARIANTS NoLostWakeup ElemOnOneList
PROPERTIES WakesHighest SemaImplementsThreads  ReadyRuns
