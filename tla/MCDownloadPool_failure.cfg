SPECIFICATION FairSpec
CONSTANTS
    Artifact = {a1, a2, a3}
    MaxWorkers = 2
    Signalled = TRUE
    MaxRetries = 1
    Nothing = Nothing
    Closed = Closed
    Sigterm = Sigterm
 
PROPERTY CommandEnds
CHECK_DEADLOCK FALSE
