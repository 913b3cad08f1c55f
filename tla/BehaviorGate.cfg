SPECIFICATION FairSpec
CONSTANTS
    MaxExecutions = 2
    MaxCommands = 2
    MaxRequested = 2
    LeaseTicks = 1
    MaxClock = 1
    Reaps = 2
    Labelled = {"a", "b"}
    Disturbances = {"cancel", "worker_crash", "gateway_crash", "store", "http", "setup", "docker", "rebuild", "agent", "descriptor", "limit", "client"}
    MaxDisturbances = 1
INVARIANTS  PassedIsEarned NoOrphan
PROPERTIES GateSettles
