SPECIFICATION MirrorFairSpec
CONSTANTS
    Parts = {a1}
    Users = {u1}
    MaxQuantity = 2
    MirrorLines = 1
    MaxCartId = 1
    MaxClicks = 2
    MaxSignIns = 1
    MaxReads = 0
PROPERTIES WhenSettledResolves
CHECK_DEADLOCK FALSE
