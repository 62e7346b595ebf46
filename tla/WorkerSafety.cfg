SPECIFICATION Spec
CONSTANTS
    w1 = w1
    w2 = w2
    m1 = m1
    m2 = m2
    Workers = {w1, w2}
    Messages = {m1, m2}
    Poison = {m2}
    Modes = {"Manual", "AckOnReceive", "Unacknowledged"}
    HasDeadLetter = TRUE
    MaxAttempts = 2
    Prefetch = 2
    MaxBuffered = 1
    MaxTwins = 2
    MaxFaults = 1
    MaxCancels = 1
SYMMETRY Symmetry
INVARIANTS
    ManualNeverLoses
    PrefetchIsWorkedOn
    BudgetIsSpent
    AtMostOnce
    RunsWithinBudget
CHECK_DEADLOCK FALSE
