SPECIFICATION FairSpec
CONSTANTS
    Drivers = {d1}
    Runs = {1, 2}
    ReconcileParallel = 1
    SweepLimit = 2
    MaxChanges = 1
    Disturbances = {"start_failure", "listen_failure", "listener_lost", "sweep_failure", "pass_failure", "release_failure", "rival", "crash", "stop"}
    MaxDisturbances = 2
CHECK_DEADLOCK FALSE
INVARIANTS NoStrandedWake StoreOpenWhileUsed
PROPERTIES EveryChangeReconciled
