SPECIFICATION FairSpec
CONSTANTS
    MaxStarts = 3
    MaxReconnections = 2
    MaxStrays = 1
INVARIANTS
    TypeOK
    RunningIsReconnecting
    EventsHandledOnce
    NoStrayCallback
PROPERTIES
    OnlyRestartReplaces
    ImplementsSession
    StartSettlesUnlessGivenUp
    LostConnectionSettles
CHECK_DEADLOCK FALSE
