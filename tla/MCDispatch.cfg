\* The sweeps as boot.py and the CLI run them: no reap_branch, silent removals.
SPECIFICATION Spec
CONSTANTS
    Issues = {i1, i2}
    MaxTick = 2
    MaxTime = 5
    LeaseTTL = 2
    MaxMissed = 1
    MaxExits = 1
    MaxFaults = 1
    MaxRecovers = 0
    ReapsBranch = FALSE
    SilentReaps = TRUE
    NoIssue = NoIssue
SYMMETRY Symmetric
INVARIANTS TypeOK LiveWorktree LeaseOfTheLiving
PROPERTY CompensatesTheDead
CHECK_DEADLOCK FALSE
