SPECIFICATION CacheSpec
CONSTANTS
  Members = {m1, m2}
  Requests = {r1, r2}
  Contents = {1, 2}
  MaxRequests = 2
  MaxLate = 1
  MaxEvents = 2
CHECK_DEADLOCK FALSE
SYMMETRY Symmetry
INVARIANTS PackIsWhatItClaims
PROPERTIES ServedDocumentIsCurrent ExactHitIsLastWrite
