CONSTANTS
    j1 = j1
    j2 = j2
    c1 = c1
    Job = {j1}
    Claim = {c1}
    NoClaim = NoClaim
    NoJob = NoJob
    ClaimOf <- MCOneJob
    MAX_ATTEMPTS = 3
    MaxCrashes = 2
    MaxStakeMoves = 2
SPECIFICATION FairSpec
CHECK_DEADLOCK FALSE
PROPERTY EveryRowIsDecided
