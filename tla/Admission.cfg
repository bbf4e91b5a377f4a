SPECIFICATION Spec
CONSTANTS
    Posts <- OnePost
    Txs = {t1, t2, t3}
    Scenarios <- AllScenarios
SYMMETRY Symmetric
INVARIANTS
    TypeOK
    QuotasStand
    ChainStands
    PublicationsSpaced
    NoWaitCycle
PROPERTIES
    AdmittedWhileEnabled
