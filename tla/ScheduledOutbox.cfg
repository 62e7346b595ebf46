SPECIFICATION SOSpec
CONSTANTS
    w1 = w1
    w2 = w2
    s1 = s1
    s2 = s2
    None = None
    Workers = {w1, w2}
    Schedules = {s1, s2}
    Recurring = {}
    Undecodable = {}
    Store = "Memory"
    BatchSize = 2
    MaxAttempts = 2
    Lease = 2
    DispatchTimeout = 1
    RetryDelays <- MCExact
    Period = 1
    LastOccurrence = 0
    ClockAhead = 0
    Timely = TRUE
    MaxFaults = 0
    MaxOps = 2
    ToOutbox = {s1}
    MaxBurials = 1
SYMMETRY WorkerSymmetry
INVARIANTS
    NoOverlapWhileLeased
    EveryAttemptDispatched
    OneRowUnlessBuried
    HandedOver
