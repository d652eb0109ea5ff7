\* Two notifications, two callers and the pending job; providers fail in every
\* way and the server restarts.  No id is left in the end: CHECK_DEADLOCK.
CONSTANTS
    Notifications = {n1, n2}
    Callers = {c1, c2}
    Workers = {w1}
    None = None
    Crashes = TRUE
SPECIFICATION Spec
SYMMETRY Symmetry
INVARIANTS
    TypeOK
    SentIsDelivered
    PendingIsHeld
    DeliveredOnce
    AttemptsLimited
PROPERTIES
    SentIsFinal
    FollowsProtocol
CHECK_DEADLOCK FALSE
