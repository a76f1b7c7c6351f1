SPECIFICATION ArenaSpec
CONSTANTS
  Mem = {m1, m2, m3, m4}
  NoMem = NoMem
  Request = {0, 1, 3, 4, 6, 27, 30, 31}
  minBlockSize_ = 5
  sizeLimit_ = 23
  maxAlign_ = 2
  BlockOverhead = 2
  SizeMax = 31
INVARIANTS
  ArenaTypeOK
  LiveDisjoint
  LiveBacked
  TotalIsOwned
PROPERTIES
  NewBlockOnlyWhenAllUsed
CHECK_DEADLOCK FALSE
