SPECIFICATION Spec
CONSTANTS
    TestNames = {"xss", "broken_access_control"}
    Auths = {"a", "b"}
    MaxTests = 1
INVARIANTS
    StringBodyAsGiven
CHECK_DEADLOCK FALSE
