CONSTANTS
    Verifier = {v1, v2, v3}
    RegistryAddr = registry
    Treasury = treasury
    Claim = {c1}
    Hash = {h1, h2}
    NoHash = NoHash
    FundPer = 2
    FundTreasury = 0
    Funds <- MCFunds
    WasmHash <- MCWasmHash
    Amount <- MCAmount
    MinStake = 2
    Quorum = 3
    AttestWindow = 1
    UnbondPeriod = 1
    SlashBps = 10000
    Horizon = 1
SYMMETRY MCSymmetry
SPECIFICATION Spec
CHECK_DEADLOCK FALSE
INVARIANT DissenterCanBeSlashed
