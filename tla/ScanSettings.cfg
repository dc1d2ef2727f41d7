SPECIFICATION Spec
CONSTANTS
    TestNames = {"xss", "broken_access_control"}
    Auths = {"a", "b"}
    MaxTests = 3
INVARIANTS
    TypeOK
    EntryPointIsTarget
    TestsReachBackend
    PartsAttacked
CHECK_DEADLOCK FALSE
