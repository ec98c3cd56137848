SPECIFICATION Spec
CONSTANTS
  MaxVersion = 3
  MaxReports = 3
  MaxTime = 0
  MaxBoots = 2
  DrainTimeout = 1
INVARIANTS Stabilizes AtMostOneServing RecreateAlone DrainingHasSuccessor PinnedVersionRetained PlacedOnce
PROPERTIES ForwardOnly NoServingGap
CHECK_DEADLOCK FALSE
