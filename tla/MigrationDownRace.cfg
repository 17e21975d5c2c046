SPECIFICATION RunnerSpec
CONSTANTS
    r1 = r1
    r2 = r2
    r3 = r3
    Run = {r2, r3}
    Nobody = Nobody
    OldRelease = OldRelease
    Skew <- NoSkew
    Stale = 1
    Beat = 1
    Wait = 1
    Latency = 0
    Lateness = 0
    MaxGap = 1
    LastStart = 1
    MaxTime = 1
    Kind <- Kinds
    Files <- Images
    Strict <- StrictR1
    Recorded0 <- FirstDone
INVARIANT OneMachineAtATime
