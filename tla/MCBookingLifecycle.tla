------------------------- MODULE MCBookingLifecycle --------------------------
(* Small instances of BookingLifecycle for TLC.                             *)
EXTENDS BookingLifecycle, TLC

CONSTANTS leg1, leg2

(* A two-day DAY booking in ticks of six hours: pickup in the second tick    *)
(* of day 1 and of day 2, twelve hours each.                                *)
TwoDayStart == (leg1 :> 5) @@ (leg2 :> 9)
TwoDayEnd   == (leg1 :> 7) @@ (leg2 :> 11)

(* A one-night booking: 23:00 of day 0 to 05:00 of day 1.                    *)
OneNightStart == (leg1 :> 3)
OneNightEnd   == (leg1 :> 4)

Symmetry == Permutations(Bookings) \cup Permutations(Requests) \cup Permutations(Payments)
=============================================================================
