SPECIFICATION Spec
CONSTANTS
    Humans <- Two
    Keys <- One
    Txs = {t1, t2, t3}
    Scenarios <- AllScenarios
SYMMETRY Symmetric
INVARIANTS
    TypeOK
    DisabledHasNoSession
    NoWaitCycle
PROPERTIES
    NothingOnDeleted
    WritesAuthorised
    KeepsIdempotence
