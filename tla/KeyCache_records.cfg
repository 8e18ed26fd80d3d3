SPECIFICATION Spec
CONSTANTS
    Keys = {k1, k2}
    Prefix <- SharedPrefix
    Validations = {q1, q2}
    Revoked = {1}
    TTL = 2
    Patience = 1
    LastVersion = 2
    MaxTime = 4
SYMMETRY Symmetry
INVARIANTS
    OldRecordsEnd
    OwnRecordOnly
    RefusalsAreCurrent
CHECK_DEADLOCK FALSE
