SPECIFICATION Spec
CONSTANTS
    Requests = {r1, r2}
    Labelled = {r1, r2}
    Models = {m1}
    Estimates = {2}
    Costs = {1, 2}
    Limits <- SpendOnly
    Length <- OneTick
    LastTick = 1
    MaxRetries = 1
    Unreliable = TRUE
SYMMETRY Symmetry
INVARIANTS
    OvershootBounded
    MonthIsItsDays
    RecordedAsPrefix
    TypeOK
CHECK_DEADLOCK FALSE
