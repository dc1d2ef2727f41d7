SPECIFICATION ServiceFairSpec
CONSTANTS
    Requests = {r1, r2}
    MaxSockets = 1
    MaxConnections = 2
    Varied = {r1}
    DefaultLimit = 2
    Limits = {0, 1}
    OwnLimits = {1}
INVARIANTS
    TimedOutWithoutHead
    SocketsReturned
    EveryOutcomeAnswered
    BodyWithinLimits
PROPERTIES
    RunSettles
CHECK_DEADLOCK FALSE
