\* Lost answers, a reload, a replaced token: does everything come to an end?
SPECIFICATION FairSpec
CONSTANTS
    MaxSessions = 2
    Calls = {c1, c2}
    MaxLosses = 1
    MaxRotations = 1
    MaxActions = 2
    MaxEndings = 2
PROPERTIES CallsEnd LoadingEnds
