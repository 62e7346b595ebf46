SPECIFICATION Spec
CONSTANTS
    c1 = c1
    c2 = c2
    k1 = k1
    k2 = k2
    Calls = {c1, c2}
    Closers = {k1, k2}
    MaxInFlight = 2
    MaxInboxes = 2
    MaxAnswers = 2
SYMMETRY Symmetry
INVARIANTS
    SlotsMatchCalls
    NoWaitOnALostInbox
    TokenOutlivesPublications
    CloseIsComplete
    RetirementIsTruthful
PROPERTIES
    DrainIsRemembered
CHECK_DEADLOCK FALSE
