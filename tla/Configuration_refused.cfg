SPECIFICATION Spec
CONSTANTS
    Callers = {c1, c2}
    Providers = {1, 2}
    MaxLoads = 2
PROPERTIES
    LoadingCredentialsHelps
CHECK_DEADLOCK FALSE
