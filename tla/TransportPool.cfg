SPECIFICATION FairSpec
CONSTANTS
    p1 = p1
    p2 = p2
    Publishers = {p1, p2}
    MaxSize = 1
    Attempts = 2
    MaxFaults = 2
INVARIANTS
    LiveWithinCap
    StoredAsReported
PROPERTIES
    NoSlotWaitsForAConfirm
CHECK_DEADLOCK FALSE
