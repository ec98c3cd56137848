SPECIFICATION FairSpec
CONSTANTS
  MaxBucket = 2
  Retention = 1
  RollupSize = 2
  Scopes <- ArchiveScopes
INVARIANTS OnlyExposedLost StoredOnce Answers
PROPERTIES Archives
CHECK_DEADLOCK FALSE
