\* Two requests in progress, a frozen clock, no maintenance.  A behaviour stops when its
\* keys are used up and every session has ended.
SPECIFICATION Spec
CHECK_DEADLOCK FALSE
CONSTANTS
    NumKeys = 3
    Tokens = {1, 2}
    Cookies = {3}
    Carries <- TwoBrowsers
    w1 = w1
    w2 = w2
    Workers = {w1, w2}
    Handlers = {"list", "jwt", "logout", "revoke", "listed", "others", "password", "refresh"}
    MaxJti = 2
    MaxTime = 1
    SessionTTL = 1
    RefreshTTL = 2
    SessionRetention = 3
    TokenRetention = 2
    RequestTimeout = 1
    CleanupInterval = 2
SYMMETRY Symmetry
INVARIANTS TypeOK BarredStaysOut SpentTokensUnmapped
PROPERTIES BarredPairsFrozen OthersEnded UnmixedCallerKept TouchedLogoutEnds
