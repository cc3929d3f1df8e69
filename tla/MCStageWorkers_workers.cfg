SPECIFICATION FairSpec
CONSTANTS
    Command = {c1, c2}
    Worker = {w1, w2}
    Item = {i1, i2}
    NoFile = NoFile
    NoItem = NoItem
    MaxFaults = 2
INVARIANT PublishedTreeIsWhole
PROPERTY EventuallyStored
CHECK_DEADLOCK FALSE
