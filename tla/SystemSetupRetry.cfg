SPECIFICATION SetupSpec
CONSTANTS
    boot1 = boot1
    boot2 = boot2
    http = http
    Creator = {boot1}
    Booting = {boot1}
    Email <- Addresses
    Skew <- Skews
    Stale = 3
    Span = 1
    MaxTime = 1
CHECK_DEADLOCK FALSE
INVARIANT RetryPossible
