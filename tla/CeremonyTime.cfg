SPECIFICATION Spec
CHECK_DEADLOCK FALSE
CONSTANTS
    w1 = w1
    w2 = w2
    Workers = {w1, w2}
    Client = "app"
    Purposes = {"account.login"}
    NumSubjects = 1
    NumCeremonies = 1
    CacheKeys = {1, 2}
    Second = 2
    MaxEntries = 1
    MaxKey = 2
    MaxTime = 4
    TTL = 2
SYMMETRY Symmetry
INVARIANTS TypeOK NeverHalfRequired
PROPERTIES PassesAsIssued LiveClaimsKept
