SPECIFICATION ListSpec
CONSTANTS
  Thread = {t1, t2, t3}
  Node = {n1, n2, n3, n4}
  Null = Null
SYMMETRY MCSymmetry
INVARIANTS
  ListTypeOK
  HeadIsStack
  NoneLostNoneTwice
PROPERTY
  ImplementsCleanupList
