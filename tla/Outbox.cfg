SPECIFICATION MCSpec
CONSTANTS
    orderPlaced = orderPlaced
    unknownType = unknownType
    customerEmail = customerEmail
    shopEmail = shopEmail
    Events = {orderPlaced, unknownType}
    Handlers = {customerEmail, shopEmail}
    Subscribers <- MCSubscribers
    Relays = {r1, r2}
    BatchSize = 2
    MaxAttempts = 2
    MaxResets = 1
    Destinations = {d1, d2}
    MaxMoves = 2
    MaxOutages = 1
INVARIANTS
    TypesOK
    OrderedAsShown
    LeaseExclusive
    NoRepeatUnderLease
    CompletedWasDelivered
PROPERTIES
    DeliversAtLeastOnce
    EventuallySettled
    OrderGoesThrough
CHECK_DEADLOCK FALSE
