SPECIFICATION ExprSpec
CONSTANTS
    Factory <- MCFactory
    Members <- MCMembers
    Schemas <- MCSchemas
    FuncArgs <- MCFuncArgs
    FuncRet <- MCFuncRet
    Statements <- MCStatements
    Returns <- MCReturns
    MaxStatements = 2
    MaxRunStatements = 1
    Unit = 3
    MaxSize = 7
INVARIANTS
    ValuesAsWritten
    TypedAsValidated
    ValidatedBuilds
    EachElementOnce
CHECK_DEADLOCK FALSE
