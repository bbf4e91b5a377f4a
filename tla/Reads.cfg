SPECIFICATION Spec
CONSTANTS
    Viewers <- TwoViewers
    Scenarios <- AllScenarios
INVARIANTS
    TypeOK
    NothingRepeated
    NothingSkipped
    RepliesComplete
    NothingNewer
    PageOfOneInstant
    OneAudience
