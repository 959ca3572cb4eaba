SPECIFICATION LocksSpec
CONSTANTS
  main = main
  a = a
  b = b
  c = c
  NULL = NULL
  Thread <- Pages
  initial_thread = main
  PRI_MAX = 2
  PRI_DEFAULT = 1
  TIME_SLICE = 1
  NewPriority <- Highest
  SetPriorities <- Lowest
  Donated <- AllThree
  Lock <- TwoLocks
  Setter <- MainOnly
  MaxCuts = 1
SYMMETRY Sym
INVARIANTS MutualExclusion  DonationReturned
PROPERTY LocksImplementThreads
