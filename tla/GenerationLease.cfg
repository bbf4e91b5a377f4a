CONSTANTS
    j1 = j1
    j2 = j2
    w1 = w1
    w2 = w2
    a1 = a1
    a2 = a2
    s1 = s1
    NoJob = NoJob
    NoSource = NoSource
    Jobs = {j1}
    Workers = {w1, w2}
    Agents = {a1}
    Sources = {}
    AgentOf <- OneAgent
    TriggerKind <- ScheduledTrigger
    SourceOf <- NoSourceOf
    ParentOf <- NoParent
    Lifetime = 4
    LeaseDuration = 2
    Outcomes <- LeaseOutcomes
    RetryHints = {0}
    DayLength = 20
    DailyTokenBudget = 100
    AgentTokenBudget <- SharedBudget
    CleanupBatch = 1
    CommitDelay = 1
    MaxTime = 5
    MaxPauses = 1
    MaxGenerationAttempts = 2
    MaxGenerationInvalidRegenerations = 1
    RetryBackoff <- MCRetryBackoff
    MaxRetryJitter = 0
    MaxLeaseVersion = 5
    ReservedTokens = 2
SPECIFICATION Spec
SYMMETRY WorkerSymmetry
INVARIANTS
    SoleLeaseHolder
    CallsBounded
    PublishedOnce
    PublicationAuthority
PROPERTIES
    AttemptStepsAccepted
