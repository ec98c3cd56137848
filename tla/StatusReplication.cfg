SPECIFICATION FairSpec
CONSTANTS
    N = 2
    OutboxSize = 1
    SubBuffer = 1
    Scopes <- ReplicationScopes
    None = None
INVARIANTS
    NothingMissed
PROPERTIES
    StatusForward
    CatchesUp
CHECK_DEADLOCK FALSE
