SPECIFICATION Spec
CHECK_DEADLOCK FALSE
CONSTANTS
    w1 = w1
    w2 = w2
    Workers = {w1, w2}
    Client = "browser"
    Purposes = {"account.login", "account.authenticate"}
    NumSubjects = 2
    NumCeremonies = 1
    CacheKeys = {1, 2, 3}
    Second = 1
    MaxEntries = 1
    MaxKey = 2
    MaxTime = 1
    TTL = 1
SYMMETRY Symmetry
INVARIANTS CompletedAsIssued BoundedOvershoot
PROPERTIES PassesAsIssued
