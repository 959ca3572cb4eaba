SPECIFICATION ProcFairSpec
CONSTANTS
  main = main
  a = a
  b = b
  NULL = NULL
  Page <- MCPage
  initial_thread = main
  MaxTid = 3
  Status <- MCStatus
  MaxLoad = 2
INVARIANTS NoLostExit ReportsVerdict RunningOwnsInfo
 
CHECK_DEADLOCK FALSE
