SPECIFICATION FairSpec
CONSTANTS
    Paths <- MCPaths
    Present = {"own", "doc", "other"}
    Owned = {"own", "new"}
    SiblingOwned = {"other", "new"}
    Context = {"doc"}
    Tooling = {"tool"}
    Skipped = {"dist"}
    Roles = {"implementation", "review"}
    Handoffs <- MCHandoffs
    MaxAttempts = 2
    MaxExecutions = 2
    MaxEdits = 1
    MaxFaults = 1
CHECK_DEADLOCK FALSE
INVARIANTS IntegratedIsExact
PROPERTIES OthersWorkSurvives CleanupSparesTheLiving LastWorkspaceGoes
