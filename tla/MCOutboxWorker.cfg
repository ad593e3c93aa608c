SPECIFICATION OutboxSpec
CONSTANTS
    p1 = p1
    p2 = p2
    w1 = w1
    w2 = w2
    u1 = u1
    store1 = store1
    delete1 = delete1
    null1 = null1
    other1 = other1
    t1 = t1
    NoText = NoText
    NoRow = NoRow
    Base = Base
    Task = {w1, w2, u1}
    ProcessOf <- MCProcessOf
    Collection = {Base}
    MaxFaults = 1
    MaxTools = 1
    Row = {store1, delete1, null1, other1}
    RowOp <- MCRowOp
    RowText <- MCRowText
    RowInto <- MCRowInto
    Worker <- MCWorker
    Limit = 2
    MaxRows = 3
CHECK_DEADLOCK FALSE
INVARIANTS SyncedHasEffect WrittenTwiceOnlyByRace
PROPERTIES RowsSettle
