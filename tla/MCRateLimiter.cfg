CONSTANTS
    Key = {k1, k2}
    Caller = {a, b}
    NoCheck = NoCheck
    NoBucket = NoBucket
    Never = Never
    RATE_LIMIT_BURST = 4
    TOKEN = 2
    SECOND = 2
    MAX_TRACKED_CLIENTS = 1
    MaxTime = 4
SYMMETRY MCSymmetry
SPECIFICATION Spec
CHECK_DEADLOCK FALSE
INVARIANT TypeOK
INVARIANT RateIsBounded
INVARIANT RetryAfterIsEnough
PROPERTY OthersAreUntouched
