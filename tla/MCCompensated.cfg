\* The same sweeps, with removals that succeed, asked what the mark claims.
SPECIFICATION Spec
CONSTANTS
    Issues = {i1}
    MaxTick = 2
    MaxTime = 5
    LeaseTTL = 2
    MaxMissed = 1
    MaxExits = 1
    MaxFaults = 0
    MaxRecovers = 0
    ReapsBranch = FALSE
    SilentReaps = FALSE
    NoIssue = NoIssue
PROPERTY CompensatedMeansUndone
CHECK_DEADLOCK FALSE
