SPECIFICATION HeapSpec
CONSTANTS
  n1 = n1
  n2 = n2
  n3 = n3
  n4 = n4
  NoBlock = NoBlock
  Name <- MCName
  Sizes <- MCSizes
  InitUnits = 9
  ChunkUnits = 5
  MaxUnits = 16
  SmallAsize = 2
  FarLook = 2
  NearLook = 1
  AfterDamage = TRUE
SYMMETRY Sym
INVARIANT PayloadsDisjoint
CHECK_DEADLOCK FALSE
