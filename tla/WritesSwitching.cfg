SPECIFICATION Spec
CONSTANTS
    Humans <- Two
    Keys <- One
    Txs = {t1, t2}
    Scenarios <- SwitchingScenarios
SYMMETRY Symmetric
INVARIANTS
    NoWaitCycle
