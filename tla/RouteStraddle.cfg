SPECIFICATION LiveSpec
CONSTANTS
    Old = Old
    New = New
    Slots = 2
    MaxRun = 3
    Scopes <- StraddleScopes
    None = None
PROPERTIES
    Serves
CHECK_DEADLOCK FALSE
