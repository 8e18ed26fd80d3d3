SPECIFICATION Spec
CONSTANTS
    Requests = {r1, r2, r3}
    LastMonth = 2
    Caps = {2, 4}
    Estimates = {2}
    Bills = {1, 3}
    MaxRetries = 0
    Faults = {"client", "provider", "crash"}
SYMMETRY Symmetry
INVARIANTS
    LedgerExact
    OverspendBounded
PROPERTIES
    ClosedMonthMovedByItsOwn
    ImplementsHolds
CHECK_DEADLOCK FALSE
