SPECIFICATION AddressSpec
CONSTANTS
    Caller = {c1, c2}
    Address = {a1, a2}
    Password = {p1, p2}
    AccountId = {k1, k2}
    MaxUser = 1
    Hashes = TRUE
    Delegated = FALSE
SYMMETRY Alike
CHECK_DEADLOCK FALSE
INVARIANT ChangeReachesIam
