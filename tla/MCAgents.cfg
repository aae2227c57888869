SPECIFICATION Spec
CONSTANTS
    Issues = {1}
    Providers = {"claude", "codex"}
    SameThread = TRUE
    Cap = 1
    MaxSessions = 3
    MaxVerdicts = 2
    MaxDeaths = 2
    MaxFaults = 1
    Texts <- SaidTexts
    FactSets <- SeenFacts
    Threshold = 2
    CriticProviders = {"claude", "codex"}
    MaxSecond = 4
    RunIssues = {1, 2}
    Knobs = {"thinking_budget", "allowed_tools", "resume"}
    Bundled = {"b"}
    Configured = {{}, {"typo"}}
    Loaded = {{"b", "o"}}
    Paths <- PathsOf
    Declared <- DeclaredOf
    Has <- HasTools
    Required = {"pyright"}
    Extended = 1
    MaxFileLines = 4
    MaxSdkFaults = 1
INVARIANTS SessionInv CriticInv
PROPERTIES ImplementsFsm AgentsLeave RunIsToldAndResumable
CHECK_DEADLOCK FALSE
