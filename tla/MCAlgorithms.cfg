CONSTANTS
    Hash = {h1, h2, h3}
    MaxAtts = 6
    Byte = {0, 1}
    MaxOpts = 2
    MaxLen = 2
    Crate = {a1, a2}
    Path <- MCPath
    SymTarget <- MCSymTarget
    MaxEntries = 3
    MAX_PAGE = 2
    PAGE = 2
    MaxRows = 5
    w1 = w1
    w2 = w2
    Contract = {pool, token}
    Target = {pool, token}
    Pool = {pool}
    Claim = {c1, c2}
    Descriptor = {c2}
    Wasm = {w1, w2}
    NoWasm = NoWasm
    ClaimHash <- MCClaimHash
    Conclusion = {"Verified", "Disputed"}
    Call = {k1}
    None = None
    MaxUpgrades = 2
SPECIFICATION Spec
CHECK_DEADLOCK FALSE
INVARIANT LoopMatchesTally
INVARIANT DigestNamesTheQuestion
INVARIANT TheDeployedIsSelected
INVARIANT StagedTreeIsTheSource
INVARIANT WalkSeesEveryRow
INVARIANT DepositsFollowTheGate
