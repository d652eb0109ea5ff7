\* Users, one-time passwords, tokens, cars, reminders and prices, each alone.
\* Clocks stop at their bounds, so the last states have no successor.
CONSTANTS
    call1 = call1
    call2 = call2
    \* users
    UserIds = {u0, u1, u2, u3}
    FirstAdmin = u0
    Emails = {e1}
    Phones = {p1}
    ApiRequests = {call1, call2}
    Nobody = Nobody
    \* one-time passwords
    OtpCalls = {call1, call2}
    OtpSeconds = 1
    LastTick = 3
    LastCode = 2
    NoOtp = NoOtp
    \* tokens
    SessionCalls = {call1, call2}
    TokenSeconds = 1
    RefreshSeconds = 2
    LastHalf = 4
    \* cars
    Cars = {1, 2}
    Owners = {o1}
    Plates = {plate1}
    AskedStatuses = {"BOOKED"}
    FleetRequests = {call1, call2}
    NoCar = NoCar
    \* reminders
    Dates = {18, 45, 66, 67}
    Pickups <- MCPickups
    AskedAt = {0, 13}
    LastHalfHour = 94
    NoRental = NoRental
    \* prices
    CarRates <- MCCarRates
    FeeRates <- MCFeeRates
    Whole = 1000
    AddonRates = {33}
    LegCounts = {2}
    CacheDays = 1
    LastDay = 2
    Quotes = {q1}
    NoRate = NoRate
SPECIFICATION Spec
SYMMETRY Symmetry
VIEW Moving
CHECK_DEADLOCK FALSE
INVARIANTS
    TypeOK
    ListsAgree
    ChauffeursIdentified
    OnboardingWhole
    OtpHoldsUnlessRaced
    CodeDiesOnTime
    RevokedIsRefused
    CarListsFresh
    RegistrationsDistinct
    LegsTileThePeriod
    RemindersKeepTime
    PricesRecent
    PartsAddUp
PROPERTIES
    DecisionsStand
