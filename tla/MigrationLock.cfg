SPECIFICATION FairSpec
CONSTANTS
    r1 = r1
    r2 = r2
    r3 = r3
    Run = {r1, r2}
    Nobody = Nobody
    OldRelease = OldRelease
    Skew <- OneSkew
    Stale = 4
    Beat = 1
    Wait = 5
    Latency = 1
    Lateness = 0
    MaxGap = 3
    LastStart = 2
    MaxTime = 7
INVARIANTS SafetyInv MutualExclusion
PROPERTIES RemovedByOwnerOrStale AskingEnds DeadLockRemoved
