SPECIFICATION SessionsSpec
CONSTANTS
    Device = {d1, d2}
    Call = {c1, c2}
    SignedIn = {d1, d2}
    Renewal = TRUE
    Period = 1
    MaxTime = 2
    MaxTokens = 6
SYMMETRY Calls
CHECK_DEADLOCK FALSE
PROPERTY LogoutEnds
