SPECIFICATION Spec
CONSTANTS
    t1 = t1
    t2 = t2
    t3 = t3
    Thread <- MCThread
    Threshold = 2
    Window = 2
    MaxCount = 3
    MaxClock = 6
    MaxBurst = 3
SYMMETRY Threads
CHECK_DEADLOCK FALSE
INVARIANTS
    CountIsBurst
    QuietHeals
