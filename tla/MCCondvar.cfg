SPECIFICATION CondFairSpec
CONSTANTS
  a = a
  b = b
  c = c
  NULL = NULL
  Thread <- MCThread
  Priorities <- MCPriorities
INVARIANT NoLostSignal
PROPERTIES ImplementsMonitor 
CHECK_DEADLOCK FALSE
