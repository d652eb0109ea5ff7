\* One booking of two legs; webhooks are redelivered, writes fail and the server crashes anywhere.
\* The clock stops at Horizon, so the last state has no successor.
CONSTANTS
    Bookings = {b1}
    leg1 = leg1
    leg2 = leg2
    Legs = {leg1, leg2}
    Chauffeurs = {c1}
    Payments = {p1, p2}
    Requests = {r1, r2}
    None = None
    LegStart <- TwoDayStart
    LegEnd <- TwoDayEnd
    StartDateTime = 5
    EndDateTime = 11
    TicksPerDay = 4
    CancelNotice = 2
    Horizon = 10
    Duplicates = TRUE
    Failures = TRUE
SPECIFICATION Spec
SYMMETRY Symmetry
CHECK_DEADLOCK FALSE
INVARIANTS
    TypeOK
    MoneyMatchesStatus
    LegsTrailBooking
    LegsConfirmedUnlessInterrupted
PROPERTIES
    CancelledNeverStarts
    OnlyRedeliveryReverts
