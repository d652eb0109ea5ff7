\* Two bookings of one leg that share the worker; writes fail and the server crashes anywhere.
\* The clock stops at Horizon, so the last state has no successor.
CONSTANTS
    Bookings = {b1, b2}
    leg1 = leg1
    leg2 = leg2
    Legs = {leg1}
    Chauffeurs = {c1}
    Payments = {p1, p2}
    Requests = {r1, r2}
    None = None
    LegStart <- OneNightStart
    LegEnd <- OneNightEnd
    StartDateTime = 3
    EndDateTime = 4
    TicksPerDay = 4
    CancelNotice = 2
    Horizon = 4
    Duplicates = FALSE
    Failures = TRUE
SPECIFICATION Spec
SYMMETRY Symmetry
CHECK_DEADLOCK FALSE
PROPERTIES
    FollowsProtocol
    ChauffeurIsKept
