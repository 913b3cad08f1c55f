SPECIFICATION FairSpec
CONSTANTS
    Runs = {1, 2}
    LegacyRuns = {1}
    UnheardRuns = {2}
    Earlier <- EndedBefore
    Handlers = {h1, h2}
    RepairLimit = 1
    Disturbances = {"crash", "stall", "redeliver", "http", "database", "collision", "cancel", "pass_failure"}
    MaxDisturbances = 1
CHECK_DEADLOCK FALSE
INVARIANTS PromptOnce RowsTellTheTruth
 
