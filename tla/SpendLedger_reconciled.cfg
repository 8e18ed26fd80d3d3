SPECIFICATION Spec
CONSTANTS
    Requests = {r1}
    LastMonth = 1
    Caps = {2}
    Estimates = {1}
    Bills = {3}
    MaxRetries = 0
    Faults = {}
INVARIANTS
    Reconciled
CHECK_DEADLOCK FALSE
