SPECIFICATION Spec
CONSTANTS
  MaxBucket = 2
  Retention = 1
  RollupSize = 2
  Scopes <- OutageScopes
INVARIANT NothingLost
CHECK_DEADLOCK FALSE
