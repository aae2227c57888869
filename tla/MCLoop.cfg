SPECIFICATION Spec
CONSTANTS
    Signatures = {a, b}
    Installed <- OperatorSites
    max_ticks = 3
    drift_halt = TRUE
    MaxActs = 2
    MaxFaults = 1
    MaxTicks = 3
    Subs <- SubsOf
    root <- RootOf
    Plain = {"i1"}
    Aged = {"e1", "e2"}
    FIRST = 1
    Worktrees = {"t1", "a1"}
    MIN_AGE = 1
    MaxSurprises = 2
PROPERTIES LoopIsGoverned SweepsTakeWhatIsDone LoopSettles
CHECK_DEADLOCK FALSE
