CONSTANTS
    Issues = {1, 2}
    Parallel = 2
    MaxIterations = 1
    StuckThreshold = 2
    BlockOnSev2 = FALSE
    MergeStates = {"BLOCKED"}
    Opinions = {"approve", "block"}
    Severities = {"none"}
    Faulty = {}
    Acts = 0
SPECIFICATION FairSpec
PROPERTY EachHasItsTurn
