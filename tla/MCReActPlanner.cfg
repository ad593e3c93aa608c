SPECIFICATION Spec
CONSTANTS
    r1 = r1
    r2 = r2
    a = a
    NoRun = NoRun
    Run <- MCRun
    Call <- MCCall
    MaxSteps = 1
    MaxCalls = 1
    ErrorLimit = 1
    HardUnits = 0
    MaxAnalyses = 2
INVARIANTS
    BreakerNotStale
    RowTellsOutcome
PROPERTIES
    RequestEnds
CHECK_DEADLOCK FALSE
