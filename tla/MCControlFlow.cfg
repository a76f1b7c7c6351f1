SPECIFICATION FlowSpec
CONSTANTS
    MaxTokens = 7
    MaxElif = 1
INVARIANTS
    ExecutesAsWritten
    NeverReadsUnset
    RejectsOnlyUnsupported
CHECK_DEADLOCK FALSE
