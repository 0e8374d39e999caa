SPECIFICATION MCSpec
CONSTANTS
    Requests = {q1}
    Deliveries = {d1, d2}
    MaxAttempts = 1
    MaxSessions = 2
    Copies = 2
    MaxCrashes = 1
    customerEmail = customerEmail
    shopEmail = shopEmail
    orderPlaced = orderPlaced
    Rows = {orderPlaced}
    Handlers = {customerEmail, shopEmail}
    Subscribers <- MCSubscribers
    Relays = {r1}
    BatchSize = 1
    MaxDeliveries = 2
    MaxResets = 0
    Rules = {1, 2, 3}
    Prices = {0, 1}
    MaxStock = 1
    MaxRows = 2
    MaxWanted = 2
INVARIANTS
    ProcessingIsPaid
    PageBlocksWhatIsRefused
    SlowestReached
    NeverUndercuts
PROPERTIES
    KeepsTheOrder
    PaymentConfirmed
    PriceIgnoresRowOrder
CHECK_DEADLOCK FALSE
