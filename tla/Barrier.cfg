SPECIFICATION FairSpec
CONSTANTS
    Secondaries = {s1}
    Primary = p
    Slots = {a, b}
    QueueSize = 1
    MaxSeq = 2
    Scopes <- BarrierScopes
    None = None
INVARIANTS
    InForce
    StreamComplete
PROPERTIES
    KernelForward
    Converges
CHECK_DEADLOCK FALSE
