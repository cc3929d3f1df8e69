SPECIFICATION FairSpec
CONSTANTS
    u1 = u1
    good = good  other = other
    v1 = v1  v2 = v2  v3 = v3
    Url = {u1}
    Sources <- OneSource
    Attempts = 1
    NumBlocks = 2
    Content = {good, other}
    Declared = good
    Rep <- Servable
    MaxFaults = 1
    Hole = Hole
    NoFile = NoFile
    NoValidator = NoValidator
PROPERTY CompletionSurvives
