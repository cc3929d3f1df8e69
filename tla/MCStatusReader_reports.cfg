CONSTANTS
    NumStages = 2
    Proc = {p1}
    Reader = {r1}
    Version = {v1}
    v1 = v1
    Build <- OneBuild
    Accepting <- OneBuild
    Damageable = {2}
    MaxAttempts = 2
    NoProc = NoProc
    NoInput = NoInput
SPECIFICATION FairSpecWithReaders
INVARIANTS
    QuietReportIsRight
    LiveCommandIsNotInterrupted
PROPERTIES
    LockIsReleased
    RunCompletes
    ImplementsPipelineRun
CHECK_DEADLOCK FALSE
