SPECIFICATION FairSpec
CONSTANTS
    Issues = {i1}
    MaxTick = 2
    MaxTime = 6
    LeaseTTL = 2
    MaxMissed = 1
    MaxExits = 2
    MaxFaults = 2
    MaxRecovers = 1
    ReapsBranch = TRUE
    SilentReaps = TRUE
    NoIssue = NoIssue
PROPERTY LeasedSagaDrains
CHECK_DEADLOCK FALSE
