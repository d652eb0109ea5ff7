\* Two calls and the worker on a booking's and an extension's payouts;
\* answers get lost, writes fail, the server crashes.  The table has the column
\* the committed schema lacks, or no write would ever succeed.
CONSTANTS
    Bookings = {b1}
    Extensions = {x1}
    PayoutIds = {p1, p2, p3}
    TransferIds = {t1, t2, t3}
    Requests = {r1, r2}
    Workers = {w1}
    NoBank = {}
    None = None
    Undefined = Undefined
    TableColumns <- CompletedColumns
    Failures = TRUE
SPECIFICATION Spec
SYMMETRY Symmetry
INVARIANTS
    TypeOK
    ProcessingHasTransfer
    OnePayoutPerBooking
    TransfersAccounted
    PaidIsStored
PROPERTIES
    FollowsProtocol
