\* One booking, nothing fails: what a started leg looks like in the database.
\* The clock stops at Horizon, so the last state has no successor.
CONSTANTS
    Bookings = {b1}
    leg1 = leg1
    leg2 = leg2
    Legs = {leg1, leg2}
    Chauffeurs = {c1}
    Payments = {p1}
    Requests = {r1, r2}
    None = None
    LegStart <- TwoDayStart
    LegEnd <- TwoDayEnd
    StartDateTime = 5
    EndDateTime = 11
    TicksPerDay = 4
    CancelNotice = 2
    Horizon = 10
    Duplicates = FALSE
    Failures = FALSE
SPECIFICATION Spec
CHECK_DEADLOCK FALSE
INVARIANTS
    StartedLegIsActive
