SPECIFICATION CompilerSpec
CONSTANTS
    Factory <- MCFactory
    Members = {}
    Schemas <- MCSchemas
    Sources <- MCSources
    Expressions <- MCExpressions
    Names = {"f", "g", "h", "rapidudf_expresion"}
    Holders = {h1, h2}
    MaxCompiles = 3
INVARIANTS
    CodeStays
    LoadedIsCompiled
    CompilesAsAlone
CHECK_DEADLOCK FALSE
