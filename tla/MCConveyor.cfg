CONSTANTS
    Issues = {1}
    Parallel = 2
    MaxIterations = 2
    StuckThreshold = 1
    BlockOnSev2 = FALSE
    MergeStates = {"CLEAN", "BLOCKED", "DIRTY"}
    Opinions = {"approve", "request_changes", "block"}
    Severities = {"none", "sev2", "sev1"}
    Faulty = {"listing", "unlabel", "label", "disarm", "record", "issue_state", "critic_error", "critic_raises"}
    Acts = 1
SPECIFICATION Spec
INVARIANT TypeOK
PROPERTIES LandsWhatWasApproved BlockedNotArmed
