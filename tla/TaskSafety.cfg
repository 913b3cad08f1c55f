SPECIFICATION Spec
CONSTANTS
  Workers = {w1, w2}
  Reconcilers = {r1}
  NoOwner = NoOwner
  MaxAttempts = 2
  ExitOutcomes = {"accepted", "retryable", "blocked"}
  Disturbances = {"relay_crash", "dead_letter", "worker_crash", "lease_lapse",
                  "preparation_failure", "bookkeeping_failure",
                  "reconcile_failure", "cancel"}
  MaxDisturbances = 2
SYMMETRY Symmetry
\* A run that has ended has nothing left to do.
CHECK_DEADLOCK FALSE
INVARIANTS ClaimIsFresh OneIntegration FinishedRunIsSettled
PROPERTIES FencingPromise
