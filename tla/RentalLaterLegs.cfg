\* A rental of two days that starts on the hour: who is reminded of the second day.
\* The clock stops at LastHalfHour, so the last state has no successor.
CONSTANTS
    Dates = {18, 66}
    Pickups <- MCPickups
    AskedAt = {0}
    LastHalfHour = 94
    NoRental = NoRental
SPECIFICATION RentalSpec
CHECK_DEADLOCK FALSE
INVARIANTS
    EveryLegReminded
