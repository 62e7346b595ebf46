SPECIFICATION Spec
CONSTANTS
    w1 = w1
    w2 = w2
    s1 = s1
    s2 = s2
    None = None
    Workers = {w1}
    Schedules = {s1, s2}
    Recurring = {}
    Undecodable = {s1}
    Store = "Sql"
    BatchSize = 2
    MaxAttempts = 2
    Lease = 2
    DispatchTimeout = 1
    RetryDelays <- MCJittered
    Period = 1
    LastOccurrence = 1
    ClockAhead = 0
    Timely = TRUE
    MaxFaults = 0
    MaxOps = 0
SYMMETRY WorkerSymmetry
INVARIANTS
    EveryAttemptDispatched
