CONSTANTS
    j1 = j1
    j2 = j2
    w1 = w1
    w2 = w2
    a1 = a1
    a2 = a2
    s1 = s1
    NoJob = NoJob
    NoSource = NoSource
    Jobs = {j1}
    Workers = {w1}
    Agents = {a1}
    Sources = {}
    AgentOf <- OneAgent
    TriggerKind <- ScheduledTrigger
    SourceOf <- NoSourceOf
    ParentOf <- NoParent
    Lifetime = 3
    LeaseDuration = 1
    Outcomes <- RetryOutcomes
    RetryHints = {0, 2}
    DayLength = 20
    DailyTokenBudget = 100
    AgentTokenBudget <- SharedBudget
    CleanupBatch = 1
    CommitDelay = 0
    MaxTime = 4
    MaxPauses = 0
    MaxGenerationAttempts = 3
    MaxGenerationInvalidRegenerations = 1
    RetryBackoff <- FlatBackoff
    MaxRetryJitter = 0
    MaxLeaseVersion = 5
    ReservedTokens = 2
SPECIFICATION FairSpec
INVARIANTS
    AttemptsInOrder
    RepairBeforeRetry
PROPERTIES
    JobsClose
    ReservationsResolve
