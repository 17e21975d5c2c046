SPECIFICATION MemberSpec
CONSTANTS
    p = p
    q = q
    c1 = c1
    c2 = c2
    User = {u1}
    Call = {c1}
    Hierarchy <- Levels
    Reserved = {}
    NoRole = NoRole
    Replica = {p}
    Home <- OneHome
    Lookup = {l1}
    Redis = FALSE
    Ttl = 2
    QueryTime = 1
    MaxTime = 1
CHECK_DEADLOCK FALSE
INVARIANT ImmediateDenial
