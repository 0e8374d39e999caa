SPECIFICATION MCSpec
CONSTANTS
    OpenHour = 9
    WeekdayClose = 18
    SaturdayClose = 14
    SameDayCutoff = 11
    ProcessingCutoff = 17
    CourierDays = 1
    Hours = {8, 10, 11, 14, 17, 18}
    LastDay = 2
    HolidayDays = {1, 2}
    MaxHolidays = 2
    MaxBasket = 2
    TypedTexts = {"number", "prose"}
    MaxAnswers = 2
    MaxTyping = 3
    Listed = {w1, w2}
    Brands = {b1, b2}
    Types = {t1, t2}
    ValueLimit = 1
    MaxNavigations = 2
    MaxEvents = 4
    Parts = {p1}
    Users = {u1}
    MaxQuantity = 2
    MirrorLines = 1
    MaxCartId = 2
    MaxClicks = 2
    MaxSignIns = 2
    MaxReads = 1
INVARIANTS
    TypesOK
    SubstitutesAreDistinct
    FasterIsNotLater
    PromiseIsKept
    UnflaggedIsFresh
    RowsAnswerTheBox
    NeverFewerThanOffered
    BlockFollowsTheSearch
    VersionTellsLines
    MirrorIsOfTheSession
PROPERTIES
    LaterIsNotSooner
    SearchIsAsShown
    WrittenByItsOwner
CHECK_DEADLOCK FALSE
