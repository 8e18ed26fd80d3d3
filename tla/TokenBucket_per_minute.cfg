SPECIFICATION BucketSpec
CONSTANTS
    Calls = {c1, c2, c3}
    RateLimitPerMinute = 1
    Steps = {1000}
    Skews <- NoSkew
    LastTime = 3000
    MaxRetries = 0
SYMMETRY Symmetry
INVARIANTS
    PerMinuteRate
CHECK_DEADLOCK FALSE
