SPECIFICATION FairSpec
CONSTANTS
    MaxRetries = 2
    MaxRedirects = 2
    BaseDelay = 1000
    MaxDelay = 1500
    Seconds = {0, 2, 1234567890}
INVARIANTS
    AppliedOnce
    AnsweredNotResent
    StaysAway
PROPERTIES
    AbortStopsSending
    CallSettles
CHECK_DEADLOCK FALSE
