SPECIFICATION Spec
CONSTANTS
  main = main
  a = a
  b = b
  c = c
  NULL = NULL
  Thread <- MCThread
  initial_thread = main
  PRI_MAX = 2
  PRI_DEFAULT = 1
  TIME_SLICE = 2
  NewPriority <- Default
  SetPriorities <- Lowest
  Donated <- Highest
SYMMETRY Pages
INVARIANTS NoPanic ReadyQueuesExact DestructionSafe SliceBound
PROPERTY SwitchToHighest
