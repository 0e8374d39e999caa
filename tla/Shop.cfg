SPECIFICATION MCSpec
CONSTANTS
    Requests = {q1, q2}
    Deliveries = {d1}
    MaxAttempts = 2
    MaxSessions = 2
    Copies = 1
    MaxCrashes = 0
    Accounts = {k1, k2}
    Emails = {e1}
    Filings = {q1, q2}
    MaxChanges = 1
    MaxLosses = 1
    Keys = {k1, k2}
    Instances = {q1, q2}
    Ttl = 2
    MissTtl = 1
    LoadTime = 1
    MaxWorks = 2
    MaxTicks = 5
    MaxUpdates = 1
INVARIANTS
    TypesOK
    OneLiveSession
    ChargedIsOnRecord
    GuaranteeHolds
    FlightsAreShared
    AnswersPairUp
    StalenessIsBounded
PROPERTIES
    LoserFindsTheRow
SYMMETRY Symmetry
CHECK_DEADLOCK FALSE
