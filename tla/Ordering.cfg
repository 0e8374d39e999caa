SPECIFICATION MCSpec
CONSTANTS
    Articles = {a1, a2, a3}
    CartRequests = {q1, q2}
    MaxLines = 2
    MaxCarts = 2
    MaxVersion = 2
INVARIANTS
    OneOwner
    LinesWithinLimit
PROPERTIES
    KeepsPurchases
    VersionMovesWithContents
SYMMETRY Symmetry
CHECK_DEADLOCK FALSE
