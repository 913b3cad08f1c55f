SPECIFICATION FairSpec
CONSTANTS
    Stages = {"product-discovery", "technical-refinement", "quality-assurance", "implementation"}
    RepairPasses = 2
    SynthesisPasses = 2
    Models = 1
    Requests = 1
    MaxAttempts = 2
    MaxCrashes = 1
CHECK_DEADLOCK FALSE
INVARIANTS ReviewedPlanIsCompiled ReceiptsAreOfThisProcess AgentRunsOncePerAttempt ReviewSurvivesRepair
PROPERTIES TaskSettles
