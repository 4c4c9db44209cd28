CONSTANTS
    Job = {j1, j2}
    None = None
    MAX_CONCURRENT_BUILDS = 2
    MAX_REDIRECTS = 1
    PidReused = FALSE
    MaxFaults = 1
    MaxKills = 1
SPECIFICATION Spec
CHECK_DEADLOCK FALSE
INVARIANT TypeOK
INVARIANT VerdictsAreOfWholeBuilds
INVARIANT NothingIsLeftBehind
INVARIANT VolumesArePerJob
PROPERTY WaitsAndRedirectsEnd
