SPECIFICATION FairSpec
CONSTANTS
    Callers = {c1, c2}
    Providers = {1, 2}
    MaxLoads = 2
INVARIANTS
    FailuresForgotten
PROPERTIES
    LoadedOnce
    CallersAnswered
CHECK_DEADLOCK FALSE
