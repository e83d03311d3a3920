SPECIFICATION Spec
CONSTANTS
    CanonicalFlags <- MCCanonicalFlags
    RetiredKeys = {"header", "header_v2"}
    ContactKey = "contact"
    MaxFlags = 6
    MaxRules = 4
    MaxEdits = 2
CHECK_DEADLOCK FALSE
INVARIANTS UniqueKeys
PROPERTIES FlagsRestored ContactRestored
