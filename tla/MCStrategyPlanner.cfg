SPECIFICATION StrategySpec
CONSTANTS
    p1 = p1
    p2 = p2
    p3 = p3
    p4 = p4
    k1 = k1
    k2 = k2
    k3 = k3
    Caller = {c1, c2}
    Reader = {c1}
    Retries = 2
    MaxTrips = 1
    Prompt = {p1, p2, p3, p4}
    KeyOf <- MCKeyOf
    Ttl = 1
    MaxCache = 1
    MaxTime = 2
    MaxInvalid = 1
    NoKey = NoKey
INVARIANTS StopsWhenTripped CacheBounded
PROPERTIES PlansAreGiven
