SPECIFICATION TableSpec
CONSTANTS
  Tab = {t1, t2}
  NumSchemas = 2
  Obj <- MCObj
  Col = {"id", "tag"}
  ColSchema <- MCColSchema
  Field <- MCField
  Batch <- MCBatch
  KeySources = {"copy"}
  MaxRows = 3
  Null = Null
SYMMETRY MCSymmetry
INVARIANTS
  TableTypeOK
  RowsAligned
  ColumnsMatchRows
  GroupsAreClasses
  DistinctKeys
