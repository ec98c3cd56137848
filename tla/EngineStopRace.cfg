SPECIFICATION Spec
CONSTANTS
    MaxRun = 4
    Scopes <- StopScopes
    None = None
INVARIANTS
    StoppedMeansGone
CHECK_DEADLOCK FALSE
