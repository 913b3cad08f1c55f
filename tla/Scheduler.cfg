SPECIFICATION FairSpec
CONSTANTS
    Reviews = {1, 2}
    Evidence = {1}
    Operational = {1}
    Facts = {"authority", "availability", "cost"}
    Provides <- MCProvides
    WorkItems = {1, 2}
    Owns <- MCOwns
    Executable = {"test", "lint", "probe"}
    Trusted = {"test", "probe"}
    HostOnly = {"probe"}
    Focused = {"test"}
    ProductHandoffs <- MCProductHandoffs
    Plans <- MCPlans
    Intents = {"execute", "plan-only"}
    Parallelism = {1, 2}
    MaxAttempts = 2
    Outcomes = {"accepted", "blocked", "changes"}
    Disturbances = {"pass_failure", "worker_crash", "preparation_failure", "cancel"}
    MaxDisturbances = 1
CHECK_DEADLOCK FALSE
INVARIANTS DispatchIsSound StatusIsRight
PROPERTIES QaRepairIsContained RunEnds
