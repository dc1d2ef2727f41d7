SPECIFICATION Spec
CONSTANTS
    Callers = {c1, c2}
    Signals = {sigterm, sigint}
    MaxRepeaters = 1
    Overlap = TRUE
INVARIANTS
    ClearRemovesRepeaters
CHECK_DEADLOCK FALSE
