SPECIFICATION FairSpec
CONSTANTS
    Run = {r1, r2}
    File = {f1, f2}
    Nobody = Nobody
    NoDir = NoDir
    MaxFaults = 2
INVARIANT PublishedIsWhole
INVARIANT ReportsNameThePublished
PROPERTY PublishedIsForGood
PROPERTY EventuallySealed
CHECK_DEADLOCK FALSE
