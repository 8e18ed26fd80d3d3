SPECIFICATION FairSpec
CONSTANTS
    Requests = {r1, r2}
    LastMonth = 2
    Caps = {2, 4}
    Estimates = {1, 2}
    Bills = {1, 3}
    MaxRetries = 1
    Faults = {"redis", "client", "provider", "crash"}
INVARIANTS
    TypeOK
    SpendWithinCap
    DriftBounded
PROPERTIES
    EveryRequestEnds
CHECK_DEADLOCK FALSE
