SPECIFICATION ContextSpec
CONSTANTS
  Thread = {t1, t2}
  Type = {y1, y2}
  Obj = {o1, o2, o3}
  ArenaId = {a1, a2}
  None = None
  MaxAllocs = 1
SYMMETRY MCSymmetry
INVARIANTS
  ContextTypeOK
  OwnedExactlyOnce
  ClosedLeavesNothing
PROPERTIES
  ResetReclaims
CHECK_DEADLOCK FALSE
