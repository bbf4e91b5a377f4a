CONSTANTS
    j1 = j1
    j2 = j2
    w1 = w1
    w2 = w2
    a1 = a1
    a2 = a2
    s1 = s1
    NoJob = NoJob
    NoSource = NoSource
    Jobs = {j1, j2}
    Workers = {w1}
    Agents = {a1, a2}
    Sources = {s1}
    AgentOf <- AgentEach
    TriggerKind <- ConversationTrigger
    SourceOf <- J1AnswersS1
    ParentOf <- J2ContinuesJ1
    Lifetime = 3
    LeaseDuration = 1
    Outcomes <- BudgetOutcomes
    RetryHints = {0}
    DayLength = 3
    DailyTokenBudget = 3
    AgentTokenBudget <- SmallerBudget
    CleanupBatch = 1
    CommitDelay = 0
    MaxTime = 4
    MaxPauses = 0
    MaxGenerationAttempts = 2
    MaxGenerationInvalidRegenerations = 1
    RetryBackoff <- MCRetryBackoff
    MaxRetryJitter = 0
    MaxLeaseVersion = 5
    ReservedTokens = 2
SPECIFICATION Spec
INVARIANTS
    WithinBudget
PROPERTIES
    JobStepsAccepted
    KeepsPromise
