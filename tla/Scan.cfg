SPECIFICATION FairSpec
CONSTANTS
    Callers = {c1, c2}
    HasTimeout = TRUE
INVARIANTS
    FinalStateIsTrue
    VerdictIsTrue
PROPERTIES
    ExpectEnds
    ImplementsLife
