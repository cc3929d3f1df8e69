CONSTANTS
    NumStages = 3
    Proc = {p1, p2}
    Version = {v1, v2}
    v1 = v1
    v2 = v2
    Build <- TwoBuilds
    Accepting <- OneBuild
    Damageable <- AllStages
    MaxAttempts = 2
    NoProc = NoProc
    NoInput = NoInput
SPECIFICATION Spec
SYMMETRY ProcSymmetry
INVARIANTS
    IInv
    AtMostOneRunning
    CommittedIntegrity
    FinishedPrefixIsChained
PROPERTIES
    
    NoNeedlessExecution
    ImplementsPinnedChain
CHECK_DEADLOCK FALSE
