SPECIFICATION FairSpec
CONSTANTS
    w1 = w1
    w2 = w2
    s1 = s1
    s2 = s2
    None = None
    Workers = {w1, w2}
    Schedules = {s1}
    Recurring = {s1}
    Undecodable = {}
    Store = "Sql"
    BatchSize = 1
    MaxAttempts = 2
    Lease = 2
    DispatchTimeout = 1
    RetryDelays <- MCJittered
    Period = 1
    LastOccurrence = 1
    ClockAhead = 1
    Timely = FALSE
    MaxFaults = 1
    MaxOps = 3
INVARIANTS
    FenceNamesClaim
    DeadIsSpent
    DispatchesWithinBudget
PROPERTIES
    OutcomeIsFinal
    ImplementsContract
    EventuallyResolved
