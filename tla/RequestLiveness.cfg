SPECIFICATION FairSpec
CONSTANTS
    c1 = c1
    c2 = c2
    k1 = k1
    Calls = {c1, c2}
    Closers = {k1}
    MaxInFlight = 1
    MaxInboxes = 1
    MaxAnswers = 1
INVARIANTS
    RefusalsAreUnsent
PROPERTIES
    CallsReturn
    CloseTerminates
CHECK_DEADLOCK FALSE
