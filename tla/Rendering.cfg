SPECIFICATION Spec
CONSTANTS
    Nodes = {1, 2, 3}
    Addresses = {"a", "b"}
    PolicyIds = {1, 2}
    Scopes <- RenderingScopes
INVARIANTS
    Folded
    Current
    BothEnds
    OnlyReachable
CHECK_DEADLOCK FALSE
