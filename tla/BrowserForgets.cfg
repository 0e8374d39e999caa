SPECIFICATION MirrorSpec
CONSTANTS
    Parts = {a1}
    Users = {u1}
    MaxQuantity = 2
    MirrorLines = 1
    MaxCartId = 1
    MaxClicks = 2
    MaxSignIns = 2
    MaxReads = 0
INVARIANTS ForgottenStaysForgotten
CHECK_DEADLOCK FALSE
