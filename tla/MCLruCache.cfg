SPECIFICATION LruSpec
CONSTANTS
  Key = {k1, k2, k3, k4}
  Value = {v1, v2}
  Missing = Missing
  Capacity = 3
INVARIANTS
  ListMatchesMap
  EvictsNothingOnlyAtZero
PROPERTIES
  GrowsWithinCapacity
  EvictsLeastRecentlyUsed
CHECK_DEADLOCK FALSE
