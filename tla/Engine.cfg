SPECIFICATION LiveSpec
CONSTANTS
    MaxRun = 4
    Scopes <- EngineScopes
    None = None
INVARIANTS
    Supervised
    RunningWasReady
    OneContainer
PROPERTIES
    RepairFresh
    TerminatedQuiet
    Terminates
    Finalizes
    CandidateReleased
    Progress
CHECK_DEADLOCK FALSE
