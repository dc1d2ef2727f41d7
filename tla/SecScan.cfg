SPECIFICATION FairSpec
CONSTANTS
    Runs = {r1, r2}
    Functions = {r1}
    Formats = {"own", "quality"}
INVARIANTS
    ResolvedMeansClean
    NoScanLeft
    TargetClosed
    ReportAgrees
    OwnEntryPoint
PROPERTIES
    UsesLife
    RunEnds
CHECK_DEADLOCK FALSE
