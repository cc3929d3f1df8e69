SPECIFICATION FairSpec
CONSTANTS
    Run = {r1, r2}
    File = {f1, f2}
    Nobody = Nobody
    NoDir = NoDir
    MaxFaults = 0
INVARIANT ReadyMeansComplete
CHECK_DEADLOCK FALSE
