SPECIFICATION FairSpec
CONSTANTS
  Workers = {w1}
  Reconcilers = {r1, r2}
  NoOwner = NoOwner
  MaxAttempts = 2
  ExitOutcomes = {"accepted", "retryable"}
  Disturbances = {"relay_crash", "worker_crash", "preparation_failure",
                  "reconcile_failure", "reconcile_overrun", "cancel"}
  MaxDisturbances = 1
PROPERTIES StartsOnce RunEnds
\* A run that has ended has nothing left to do.
CHECK_DEADLOCK FALSE
