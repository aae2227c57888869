SPECIFICATION Spec
CONSTANTS
    ROTATE_LINES = 1
    MAX_ARCHIVES = 2
    KEEP = 2
    MaxLines = 4
    MaxIoErrors = 1
    MaxKills = 1
    Said <- RunnerSaid
    MaxTick = 2
    MaxSaid = 4
    MaxStarts = 2
    MaxMirrorErrors = 1
    Tickets = {1}
    Prs = {"none", "p1", "p2"}
    NoPr = "none"
    Cards <- CardsOf
    Commits = {"c1"}
    min_leaves = 2
    MaxMerges = 2
    MaxKnowledgeOdd = 2
    Norm <- NormOf
    Axes = {"x", "y"}
    Cosmetic <- CosmeticOf
    Reports <- ReportsOf
    Frontier = {"y"}
    Limit = 2
    MaxCommands = 2
    MaxPeople = 1
    MaxBacklogOdd = 1
    Units <- UnitsOf
    Probes <- ProbesOf
    Cap <- CapOf
    Sizes = {2, 3, 4}
    ListLimit = 2
    MaxPasses = 2
    MaxTouched = 1
    MaxAuditFaults = 1
    Pulls = {1, 2, 3}
    BATCH_CHUNK = 2
    RepairLimit = 2
    ListedMost = 3
    Starts <- StartsOf
    MaxGhFaults = 2
    MaxGhMoves = 1
    MaxMethods = 2
    Askers = {"w1", "w2"}
    Options = {"yes"}
    timeout_s = 5
    poll_interval_s = 2
    Skews <- SkewsOf
    PageSize = 2
    MaxNow = 6
    MaxSays = 1
    MaxAsks = 2
    MaxMishaps = 1
INVARIANTS FilesInv MirrorInv AskInv GitHubInv
PROPERTIES KnowledgeSafe BacklogSafe AuditSafe
CHECK_DEADLOCK FALSE
