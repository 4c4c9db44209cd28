CONSTANTS
    Verifier = {v1, v2, v3}
    RegistryAddr = registry
    Treasury = treasury
    Claim = {c1}
    Hash = {h1, h2}
    NoHash = NoHash
    FundPer = 2
    FundTreasury = 1
    Funds <- MCFunds
    WasmHash <- MCWasmHash
    Amount <- MCAmount
    MinStake = 1
    Quorum = 3
    AttestWindow = 1
    UnbondPeriod = 2
    SlashBps = 5000
    Horizon = 2
SYMMETRY MCSymmetry
SPECIFICATION Spec
CHECK_DEADLOCK FALSE
INVARIANT TypeOK
INVARIANT Solvent
INVARIANT AttesterStaysAtRisk
