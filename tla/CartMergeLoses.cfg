SPECIFICATION CartsSpec
CONSTANTS
    Articles = {a1}
    CartRequests = {q1, q2}
    MaxLines = 1
    MaxCarts = 2
    MaxVersion = 3
SYMMETRY Symmetry
PROPERTIES
    MergeKeepsLines
CHECK_DEADLOCK FALSE
