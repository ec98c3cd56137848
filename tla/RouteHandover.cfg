SPECIFICATION LiveSpec
CONSTANTS
    Old = Old
    New = New
    Slots = 2
    MaxRun = 4
    Scopes <- HandoverScopes
    None = None
INVARIANTS
    Settled
    SlotFree
PROPERTIES
    HandedOver
    Serves
CHECK_DEADLOCK FALSE
