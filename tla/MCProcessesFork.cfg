SPECIFICATION ProcSpec
CONSTANTS
  main = main
  a = a
  b = b
  NULL = NULL
  Page <- MCPage
  initial_thread = main
  MaxTid = 3
  Status <- MCStatus
  MaxLoad = 2
INVARIANT ErrorMeansNoChild
CHECK_DEADLOCK FALSE
