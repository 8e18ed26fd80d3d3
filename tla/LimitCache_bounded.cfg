SPECIFICATION Spec
CONSTANTS
    Gateways = {g1, g2}
    Readers = {q1, q2}
    Writers = {w1}
    TTL = 1
    QueryTime = 1
    LastVersion = 2
    MaxTime = 3
SYMMETRY Symmetry
INVARIANTS
    StalenessBounded
    InvalidationTakesEffect
    TypeOK
CHECK_DEADLOCK FALSE
