SPECIFICATION Spec
CONSTANTS
    Nodes = {1, 2, 3}
    Addresses = {"a", "b"}
    PolicyIds = {1, 2}
    Scopes <- MoveScopes
INVARIANTS
    Current
CHECK_DEADLOCK FALSE
