SPECIFICATION Spec
CONSTANTS
    Ready = {1, 2, 3}
    Parallel = 3
    PoSlots = {"p1"}
    WorkerSlots = {"w1", "w2"}
    CriticSlots = {"c1"}
    QueueCap = 2
    async_max_ticks = 2
    MaxAsyncTicks = 2
    MaxOdd = 2
    NumTasks = 3
    QueueHosts = {"h1", "h2"}
    MaxAttempts = 2
    MaxQueueDeaths = 1
    Files <- AllFiles
    Edits <- Later
    Labels = {"l"}
    critic_enabled = TRUE
    Handled = {"po", "worker", "critic", "sec", "merge"}
    NumIssues = 2
    MaxFileEdits = 1
INVARIANTS QueueInv PipeInv
PROPERTIES EachItemAccounted PipelineSettles ImplementsContract
CHECK_DEADLOCK FALSE
