SPECIFICATION CartsSpec
CONSTANTS
    Articles = {a1}
    CartRequests = {q1, q2}
    MaxLines = 1
    MaxCarts = 2
    MaxVersion = 2
SYMMETRY Symmetry
INVARIANTS
    MergedElsewhere
CHECK_DEADLOCK FALSE
