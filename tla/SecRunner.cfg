SPECIFICATION Spec
CONSTANTS
    Callers = {c1, c2}
    Signals = {sigterm, sigint}
    MaxRepeaters = 3
    Overlap = FALSE
INVARIANTS
    OneSession
    ClearRemovesRepeaters
    ClearUndoesInit
PROPERTIES
    SessionsKeepContract
CHECK_DEADLOCK FALSE
