\* One call and the worker with the committed schema; nothing else fails.  A call that
\* finds no unused id stops: CHECK_DEADLOCK.
CONSTANTS
    Bookings = {b1}
    Extensions = {x1}
    PayoutIds = {p1, p2}
    TransferIds = {t1, t2}
    Requests = {r1}
    Workers = {w1}
    NoBank = {}
    None = None
    Undefined = Undefined
    TableColumns <- SchemaColumns
    Failures = FALSE
SPECIFICATION FairSpec
PROPERTIES
    InitiatedIsStored
CHECK_DEADLOCK FALSE
