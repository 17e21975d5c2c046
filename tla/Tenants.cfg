SPECIFICATION MCSpec
CONSTANTS
    podA = podA
    podB = podB
    call1 = call1
    call2 = call2
    call3 = call3
    user1 = user1
    user2 = user2
    User = {user1, user2}
    Call = {call1, call2, call3}
    Hierarchy <- Levels
    Reserved = {"admin"}
    NoRole = NoRole
    Replica = {podA, podB}
    Home <- Homes
    Lookup = {l1}
    Redis = TRUE
    Ttl = 2
    QueryTime = 1
    MaxTime = 2
    tenant1 = tenant1
    tenant2 = tenant2
    Tenant = {tenant1, tenant2}
    None = None
    Level <- Levels
    OtherRole = {"admin", "editor"}
    GlobalOnly = {"admin"}
    TenantRole = {"member", "owner"}
    Strict = FALSE
    AdminBypass = TRUE
    IamSkip = TRUE
    Route <- Routes
    Caller <- Callers
    Asking = {k1}
    MaxAge = 1
CHECK_DEADLOCK FALSE
INVARIANTS TenantsInv BoundedStaleness StaleOnlyIfRaced ScopeBacked
PROPERTIES AloneIsAtomic OnlyAddRestores
