SPECIFICATION MCSpec
CONSTANTS
    orderPlaced = orderPlaced
    unknownType = unknownType
    customerEmail = customerEmail
    shopEmail = shopEmail
    Events = {orderPlaced}
    Handlers = {customerEmail, shopEmail}
    Subscribers <- MCOneEvent
    Relays = {r1}
    BatchSize = 1
    MaxAttempts = 2
    MaxResets = 0
    Destinations = {d1}
    MaxMoves = 0
    MaxOutages = 0
INVARIANTS
    GiveUpIsLogged
CHECK_DEADLOCK FALSE
