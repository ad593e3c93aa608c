SPECIFICATION ExecSpec
CONSTANTS
    r1 = r1
    a = a
    b = b
    NoRun = NoRun
    Run <- MCRun
    Call <- MCCall
    MaxSteps = 4
    MaxCalls = 2
    ErrorLimit = 3
    HardUnits = 2
INVARIANTS
    Guarded
    StoppedForOwnErrors
PROPERTIES
    LoopGuardExact
CHECK_DEADLOCK FALSE
