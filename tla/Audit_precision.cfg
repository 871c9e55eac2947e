SPECIFICATION Spec
CONSTANTS
    Scopes = {s1}
    Requests = {r1, r2}
    Purgers = {w1, w2}
    Archiving = {w1, w2}
    Skews = {0, 1}
    Fractions = {0, 1}
    Retention = 1
    MaxTime = 3
    MaxFaults = 1
INVARIANT ChainVerifies
CHECK_DEADLOCK FALSE
