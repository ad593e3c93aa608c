SPECIFICATION Spec
CONSTANTS
    c1 = c1
    c2 = c2
    s1 = s1
    Sync <- MCSync
    Stream <- MCStream
    NoClient = NoClient
    QueueCap = 2
    ChanCap = 2
    MaxSteps = 3
    Pool = 2
INVARIANTS
    CompletedIsResponse
    NoHeadOfLine
PROPERTIES
    NothingAfterTimeout
    TasksAreAnswered
CHECK_DEADLOCK FALSE
