SPECIFICATION FairSpec
CONSTANTS
    w1 = w1
    w2 = w2
    e1 = e1
    e2 = e2
    e3 = e3
    None = None
    Workers = {w1}
    Events = {e1}
    Idempotent = {}
    Undecodable = {}
    Dialect = "Postgres"
    HasDeadLetter = TRUE
    BatchSize = 1
    MaxAttempts = 1
    DispatchTimeout = 1
    RetryDelays <- MCJittered
    Timely = FALSE
    WordBits = 4
    DurationMax = 60
    Durations = {0, 1, 2, 3, 5, 8, 13, 20, 29, 44, 59, 60}
    LastAttempt = 10
    MaxFaults = 1
CHECK_DEADLOCK FALSE
PROPERTIES
    ExhaustedLeavesTheTable
