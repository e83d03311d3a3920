\* One request at a time, the clock, maintenance, and what ends everything at once: account
\* deletion, deactivation and the cut-over of invalidate_legacy_auth_sessions.  A behaviour
\* stops at the end of time.
SPECIFICATION Spec
CHECK_DEADLOCK FALSE
CONSTANTS
    NumKeys = 2
    Tokens = {1}
    Cookies = {2}
    Carries <- OneToken
    w1 = w1
    w2 = w2
    Workers = {w1}
    Handlers = {"jwt", "logout", "save", "refresh", "delete", "admin", "legacy"}
    MaxJti = 2
    MaxTime = 4
    SessionTTL = 1
    RefreshTTL = 2
    SessionRetention = 2
    TokenRetention = 0
    CleanupInterval = 1
    RequestTimeout = 1
INVARIANTS BarredStaysOut SpentTokensBlacklisted SpentTokensUnmapped LivePairUsable
PROPERTY CleanupKeepsLivePairs
