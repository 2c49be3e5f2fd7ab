CONSTANTS
  Key <- MCKey
  Limit <- MCLimit
  Window <- MCWindow
  Single <- MCSingle
  Group <- MCGroup
  MaxKeys = 2
  CleanupInterval = 2
  Second = 2
  Caller = {a, b}
  MaxTime = 2
  MaxDelay = 1
  None = None
SYMMETRY Symmetry
SPECIFICATION Spec
INVARIANTS TypeOK RateHolds RefusalsAreEarned RetryIsEnough
PROPERTY EvictsOnlyStalest
CHECK_DEADLOCK FALSE
