SPECIFICATION Spec
CONSTANTS
    r1 = r1
    r2 = r2
    b1 = b1
    b2 = b2
    a1 = a1
    a2 = a2
    Requests = {r1, r2}
    Browsers = {b1, b2}
    Addresses = {a1, a2}
    AddressOf <- MCAddressOf
    TotpCodes = {"totp1"}
    RecoveryCodes = {"spare1"}
    Wrong = "wrong"
    Passkey = "passkey"
    Garbled = "garbled"
    NoOne = "none"
    Limit = 1
    OptionsLimit = 1
    Window = 1
    EpochTimeout = 1
    PendingTTL = 1
    AssuranceTTL = 0
    MaxTime = 2
    NumFlows = 2
    NumLogins = 4
    Budgets <- MCBudgets
INVARIANTS TypeOK GuessesBounded OneLoginPerCode StagesApart RefusedStaysOut
PROPERTY CodeFactorHeld
SYMMETRY Symmetry
