SPECIFICATION DemandSpec
CONSTANTS
  Callers = {c1, c2, c3}
  FailureThreshold = 2
  RecoveryTimeout = 2
  MaxRetries = 1
  HasFallback = TRUE
  FallbackParams = 1
  MaxFailures = 5
INVARIANTS
  TypeOK
  ClosedIffBelowThreshold
  HalfOpenWasQuiet
PROPERTIES
  LateResultsDoNotUnblock
  CircuitRecovers
