SPECIFICATION Spec
CONSTANTS
    Tasks <- MCTasks
    Bootstrap <- MCBootstrap
    Lead = "lead"
    Deps <- MCDeps
    Services <- MCServices
    Profile <- MCProfile
    Dynamic = {"w2"}
    Hashes <- MCHashes
    PortRange = 4
    Exits = {"nonzero", "agent_fallback"}
    MaxParallel = 2
    MaxAttempts = 2
    Disturbances = {"store", "toolchain", "docker", "service", "agent", "compile", "integration", "signal", "cancel"}
    MaxDisturbances = 2
CHECK_DEADLOCK FALSE
INVARIANTS NothingIsLeftBehind  
