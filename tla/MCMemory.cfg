SPECIFICATION MemSpec
CONSTANTS
  s = s
  t = t
  small = small
  large = large
  NULL = NULL
  NONE = NONE
  Thread <- MCThread
  Desc <- MCDesc
  blocks_per_arena <- MCBlocks
  PageCnt = 2
  MaxPages = 2
SYMMETRY Sym
INVARIANTS MallocNeverPanics ArenasExact
PROPERTY ImplementsAllocator
