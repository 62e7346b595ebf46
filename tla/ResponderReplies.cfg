SPECIFICATION RFairSpec
CONSTANTS
    w1 = w1
    m1 = m1
    Workers = {w1}
    Messages = {m1}
    Poison = {}
    Modes = {"Manual", "Unacknowledged"}
    HasDeadLetter = FALSE
    MaxAttempts = 2
    Prefetch = 2
    MaxBuffered = 1
    MaxTwins = 2
    MaxFaults = 1
    MaxCancels = 1
    Timeouts = {1, 2}
    Horizon = 1
    Tolerance = 1
    MaxTime = 2
    Skews <- MCSkews
    MaxHiccups = 1
INVARIANTS
    AcknowledgedWasAnswered
    RerunOnlyAfterFault
PROPERTIES
    EventuallySettled
    ShutdownEnds
CHECK_DEADLOCK FALSE
