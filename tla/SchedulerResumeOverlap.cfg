SPECIFICATION Spec
CONSTANTS
    w1 = w1
    w2 = w2
    s1 = s1
    s2 = s2
    None = None
    Workers = {w1, w2}
    Schedules = {s1}
    Recurring = {}
    Undecodable = {}
    Store = "Sql"
    BatchSize = 1
    MaxAttempts = 2
    Lease = 2
    DispatchTimeout = 1
    RetryDelays <- MCJittered
    Period = 1
    LastOccurrence = 1
    ClockAhead = 0
    Timely = TRUE
    MaxFaults = 0
    MaxOps = 2
SYMMETRY WorkerSymmetry
INVARIANTS
    NoOverlapWhileLeased
