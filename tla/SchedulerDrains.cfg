SPECIFICATION FairSpec
CONSTANTS
  MaxVersion = 2
  MaxReports = 3
  MaxTime = 0
  MaxBoots = 2
  DrainTimeout = 1
INVARIANTS IInv Settled
PROPERTIES Refines DrainEnds
CHECK_DEADLOCK FALSE
