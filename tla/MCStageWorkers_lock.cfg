SPECIFICATION Spec
CONSTANTS
    Command = {c1, c2}
    Worker = {w1}
    Item = {i1, i2}
    NoFile = NoFile
    NoItem = NoItem
    MaxFaults = 1
INVARIANT LockIsOfACommand
CHECK_DEADLOCK FALSE
