CONSTANTS
    Release = {1, 2}
    NoRelease = 0
    NoRun = NoRun
    NoRetry = NoRetry
    Young = 1
    Old = 2
    Soon = 1
    Later = 2
    Seldom = 3
    MaxDuration = 1
    MaxTime = 1
    MaxRuns = 3
    MayRejectPush = TRUE
SPECIFICATION FairSpec
INVARIANTS
    DocumentIsReadable
    OneAutomaticRun
PROPERTIES
    PublishedNeverGoesBack
    CycleKeepsItsStart
    
CHECK_DEADLOCK FALSE
