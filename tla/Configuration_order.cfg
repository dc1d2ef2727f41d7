SPECIFICATION Spec
CONSTANTS
    Callers = {c1, c2}
    Providers = {1, 2}
    MaxLoads = 2
INVARIANTS
    EarlierProvidersFirst
CHECK_DEADLOCK FALSE
