SPECIFICATION Spec
CONSTANTS
    c1 = c1
    c2 = c2
    t1 = t1
    t2 = t2
    long = long
    NoFile = NoFile
    Torn = Torn
    NoDoc = NoDoc
    Unknown = Unknown
    Text = {t1, t2, long}
    Near <- MCNear
    OverFetch = 2
    Call = {c1, c2}
    LongText = {long}
    MaxItems = 2
    Enough = 1
    Fact = {t1}
    Query = {t2}
    Role = {scout, worker}
    scout = scout
    worker = worker
    Penalty = {60}
    MaxId = 3
    MaxLives = 1
    MaxReports = 2
SYMMETRY Symmetry
CHECK_DEADLOCK FALSE
INVARIANTS ToldIsKept MissedOnlyWhenCrowded FindableAfterLoad PenaltyNeedsQuorum
