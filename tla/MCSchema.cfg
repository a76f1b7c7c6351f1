SPECIFICATION Spec
CONSTANTS
    RegTypes <- MCRegTypes
    MemberNames = {"get", "x"}
    FieldTypes <- MCFieldTypes
    Threads = {t1, t2}
    SchemaNames = {"A"}
    FieldNames = {"f", "g"}
    ObjFieldTypes <- MCObjFieldTypes
    RowSources <- MCRowSources
    ColumnOptions <- MCColumnOptions
    Slots <- MCSlots
    TableHeader = 64
    MaxRegs = 2
    MaxFields = 3
    MaxObjects = 1
    t1 = t1
    t2 = t2
INVARIANTS
    FieldsKeepTheirValues
    OnePublishedSchema
    ColumnReadsItsField
    MemberCallsRightMethod
SYMMETRY ThreadSymmetry
CHECK_DEADLOCK FALSE
