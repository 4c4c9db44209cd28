CONSTANTS
    j1 = j1
    j2 = j2
    c1 = c1
    Job = {j1, j2}
    Claim = {c1}
    NoClaim = NoClaim
    NoJob = NoJob
    ClaimOf <- MCSameClaim
    MAX_ATTEMPTS = 2
    MaxCrashes = 1
    MaxStakeMoves = 2
SPECIFICATION Spec
SYMMETRY MCSymmetry
CHECK_DEADLOCK FALSE
INVARIANT TypeOK
INVARIANT RecordsAreTrue
INVARIANT NoSleepOnNewWork
PROPERTY DecidedRowsStay
