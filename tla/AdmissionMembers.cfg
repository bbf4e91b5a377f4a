SPECIFICATION Spec
CONSTANTS
    Posts <- OnePost
    Txs = {t1}
    Scenarios <- MemberScenarios
SYMMETRY Symmetric
INVARIANTS
    MembersStand
