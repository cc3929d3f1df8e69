SPECIFICATION FairSpec
CONSTANTS
    Role = {downloader, publisher}
    MaxFaults = 2
INVARIANTS
    VmDeletedIsTrue
    NoRunnerIsLeft
PROPERTIES
    CleanupIsReached
    TimerIsEnough
    ReconcilerFindsIt
