SPECIFICATION TableSpec
CONSTANTS
  Tab = {t1, t2}
  NumSchemas = 2
  Obj <- MCObj
  Col = {"id", "tag"}
  ColSchema <- MCColSchema
  Field <- MCField
  Batch <- MCBatch
  KeySources = {"copy", "own", "name"}
  MaxRows = 2
  Null = Null
SYMMETRY MCSymmetry
CHECK_DEADLOCK FALSE
INVARIANTS
  ColumnsMatchRows
