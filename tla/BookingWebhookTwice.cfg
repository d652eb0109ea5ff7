\* One booking, the provider delivers the webhook more than once.
\* The clock stops at Horizon, so the last state has no successor.
CONSTANTS
    Bookings = {b1}
    leg1 = leg1
    leg2 = leg2
    Legs = {leg1}
    Chauffeurs = {c1}
    Payments = {p1}
    Requests = {r1, r2}
    None = None
    LegStart <- OneNightStart
    LegEnd <- OneNightEnd
    StartDateTime = 3
    EndDateTime = 4
    TicksPerDay = 4
    CancelNotice = 2
    Horizon = 4
    Duplicates = TRUE
    Failures = FALSE
SPECIFICATION Spec
CHECK_DEADLOCK FALSE
PROPERTIES
    LegalTransitions
