\* Three calls at once: what late answers do to the tokens and the header.
SPECIFICATION Spec
CONSTANTS
    MaxSessions = 2
    Calls = {c1, c2, c3}
    MaxLosses = 0
    MaxRotations = 0
    MaxActions = 4
    MaxEndings = 1
SYMMETRY Symmetry
INVARIANTS ShownIsLoggedIn ShownIsStored
PROPERTIES LiveSessionKept
