SPECIFICATION SwarmSpec
CONSTANTS
    m1 = m1
    m2 = m2
    l2 = l2
    l1 = l1
    Message <- MCMessage
    Listener <- MCListener
    Capacity = 1
    MaxJoins = 2
INVARIANTS
    OneChannel
    InOrderUnlessDisplaced
    SentIsKept
PROPERTIES
    CatchesUp
    FailureEndsRun
CHECK_DEADLOCK FALSE
