SPECIFICATION Spec
CONSTANTS
    Histories <- MCHistories
    GoodHistories <- MCGood
    MaxRedirects = 1
    MaxRefreshes = 1
    AllowHttp = FALSE
    HttpAttempts = 2
    MaxRot = 2
INVARIANT SnapshotIsWhatTheClientReads
INVARIANT ProvenanceIsTrue
INVARIANT RefusedForAReason
INVARIANT GoodIsNotRefused
INVARIANT PinnedIsOneRelease
INVARIANT PlanIsOfThePinned
PROPERTY SealedBytesAreAsDeclared
CHECK_DEADLOCK FALSE
