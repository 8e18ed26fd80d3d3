SPECIFICATION BucketSpec
CONSTANTS
    Calls = {c1, c2, c3, c4}
    RateLimitPerMinute = 2
    Steps = {500}
    Skews <- HalfSecond
    LastTime = 1000
    MaxRetries = 1
SYMMETRY Symmetry
INVARIANTS
    WindowBounded
CHECK_DEADLOCK FALSE
