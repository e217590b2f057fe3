SPECIFICATION FairSpec
CONSTANTS
    None = None
    N = 3
    Workers = {k1, k2}
    MaxAttempts = 3
    Limit = 2
    Unregistered = {1}
    Faults = TRUE
CHECK_DEADLOCK FALSE
INVARIANTS
    DoneMeansHandled
    FailedMeansExhausted
PROPERTY EveryEventSettles
