CONSTANTS
    Request = {r1, r2, r3}
    Builds = {1, 2}
    MAX_OUTSTANDING_JOBS = 2
    MAX_CONCURRENT_BUILDS = 1
    MaxFaults = 2
SPECIFICATION Spec
CHECK_DEADLOCK FALSE
INVARIANT TypeOK
INVARIANT PermitsAccounted
INVARIANT GaugeBalances
INVARIANT PendingIsLive
INVARIANT JobsKeepTheirRows
INVARIANT ServesItsSchema
PROPERTY AnswersStand
PROPERTY EveryJobEnds
