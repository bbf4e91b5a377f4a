CONSTANTS
    p1 = p1
    Probes = {p1}
    CycleInterval = 2
    FailureBackoff = 3
    CleanupTimeout = 2
    ScheduleTimeout = 2
    ExecutionTimeout = 3
    StatusTimeout = 4
    StatusLogInterval = 3
    Slack = 2
    ReadyTimeout = 2
    QueryTimeout = 1
    ShutdownTimeout = 1
CHECK_DEADLOCK FALSE
SPECIFICATION FairSpec
INVARIANTS
    FreshWhileHealthy
    HonestExit
PROPERTIES
    ReadyAnswers
    NothingUnlogged
    StopsWhenAsked
