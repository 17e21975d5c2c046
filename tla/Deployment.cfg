SPECIFICATION MCSpec
CONSTANTS
    MaxTime = 5
    x1 = x1
    x2 = x2
    x3 = x3
    x4 = x4
    boot1 = boot1
    boot2 = boot2
    http = http
    Creator = {boot1, boot2, http}
    Booting = {boot1, boot2}
    Email <- Addresses
    Skew <- Skews
    Stale = 3
    Span = 1
    Device = {d1, d2}
    Call = {x1, x2, x3}
    SignedIn = {d1}
    Renewal = TRUE
    Period = 1
    MaxTokens = 4
    r1 = r1
    r2 = r2
    Replica = {r1, r2}
    Client = {x1, x2, x3}
    slot = slot
    Slot = {slot}
    SlotOf <- Folds
    Shared = shared
    Capacity <- Caps
    Limit = 1
    Window = 2
    Fires = {1}
    Lag = 1
    LeaseTtl = 2
    InitTtl = 1
    DrainTime = 1
    RunParallel = 1
    Request = {x1, x2, x3}
    Size = 1
    LockTtl = 1
    MaxAge = 1
    Listener = {x1, x2, x3, x4}
    file1 = f1
    file2 = f2
    File = {f1, f2, f3}
    Old <- Uploads
    Person = {ann, nobody}
    Anonymous = nobody
    Admin = {}
    TenantOf <- OneTenant
    Preset = "owner"
    Transfer = {x1, x2}
CHECK_DEADLOCK FALSE
INVARIANTS DeploymentTypeOK OneAdmin NeverNoLimit NoTickLost OneWriter UploadKept DeafOnlyIfOvertaken OnlyTheirOwn AsIfAlone BytesBehindInfo
PROPERTIES RefusedByFreshClaim LostOnlyMeanwhile AnswersValid WonOnce
