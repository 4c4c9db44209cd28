CONSTANTS
    Verifier = {v1, v2, v3, v4}
    RegistryAddr = registry
    Treasury = treasury
    Claim = {c1}
    Hash = {h1, h2}
    NoHash = NoHash
    FundPer = 4
    FundTreasury = 0
    Funds <- MCFunds
    WasmHash <- MCWasmHash
    Amount <- MCWholeStake
    MinStake = 2
    Quorum = 3
    AttestWindow = 1
    UnbondPeriod = 1
    SlashBps = 5000
    Horizon = 2
SYMMETRY MCSymmetry
SPECIFICATION Spec
CHECK_DEADLOCK FALSE
INVARIANT GreenIsUnanimous
INVARIANT SlashedWereOutvoted
PROPERTY VerdictIsFinal
PROPERTY OnlyASlashCosts
PROPERTY ImplementsClaimVote
