---------------------------- MODULE BookingRules ----------------------------
(***************************************************************************)
(* What a booking may ask for, and the legs it is cut into: the value        *)
(* objects of src/src/booking/domain and the services that put a new booking  *)
(* together.  Nothing here has state.                                       *)
(*                                                                         *)
(* Times are half-hours since a midnight.                                   *)
(***************************************************************************)
EXTENDS Naturals, Sequences

HalfHoursPerDay == 48

\* date-fns.
DayOf(t) == t \div HalfHoursPerDay
TimeOfDay(t) == t % HalfHoursPerDay
HourOf(t) == TimeOfDay(t) \div 2
At(day, time) == day * HalfHoursPerDay + time
DifferenceInHours(later, earlier) == (later - earlier) \div 2

BookingTypes == {"DAY", "NIGHT", "FULL_DAY"}

\* A pickup time is asked for on a clock of twelve hours.
PickupTimes == [hour : 1..12, half : 0..1, pm : BOOLEAN]
To24Hour(pickup) == 2 * ((pickup.hour % 12) + (IF pickup.pm THEN 12 ELSE 0)) + pickup.half

\* The dates of a request; addresses and the guest's details are left out.
CreateBookingSchema(req, now) ==
    /\ IF req.type = "FULL_DAY" THEN req.to > req.from ELSE req.to >= req.from
    /\ req.from > now

-----------------------------------------------------------------------------
(* Periods.                                                                 *)

Period(type, start, end) == [type |-> type, start |-> start, end |-> end]

\* Twelve hours on each day of the dates asked for, from the pickup time on.
DayPeriod(from, to, pickup) ==
    Period("DAY", At(DayOf(from), pickup), At(DayOf(to), pickup + 24))

DayAccepted(from, to, pickup, now) ==
    /\ HourOf(pickup) \in 7..11
    /\ DayOf(to) >= DayOf(from)
    /\ At(DayOf(from), pickup) > now

\* From 23:00 to 05:00, whatever pickup time and last date were asked for.
NightPeriod(from) == Period("NIGHT", At(DayOf(from), 46), At(DayOf(from) + 1, 10))
NightAccepted(from, now) == At(DayOf(from), 46) > now

\* Whole days by the hours that fit in; what is over in minutes is not looked at.
FullDayAccepted(from, to, now) ==
    /\ from >= now
    /\ HourOf(from) \in 7..22
    /\ DifferenceInHours(to, from) >= 24
    /\ DifferenceInHours(to, from) % 24 = 0

PeriodOf(req) ==
    CASE req.type = "DAY"      -> DayPeriod(req.from, req.to, To24Hour(req.pickup))
      [] req.type = "NIGHT"    -> NightPeriod(req.from)
      [] req.type = "FULL_DAY" -> Period("FULL_DAY", req.from, req.to)

PeriodAccepted(req, now) ==
    CASE req.type = "DAY"      -> DayAccepted(req.from, req.to, To24Hour(req.pickup), now)
      [] req.type = "NIGHT"    -> NightAccepted(req.from, now)
      [] req.type = "FULL_DAY" -> FullDayAccepted(req.from, req.to, now)

SecurityDetailMultiplier(type) == IF type = "FULL_DAY" THEN 2 ELSE 1

-----------------------------------------------------------------------------
(* Legs.                                                                    *)

\* How many dates the period is cut into: nights between the two days, days of 24
\* hours, or calendar days touched.
NumberOfDates(period) ==
    CASE period.type = "NIGHT"    -> DayOf(period.end) - DayOf(period.start)
      [] period.type = "FULL_DAY" -> (DifferenceInHours(period.end, period.start) + 23) \div 24
      [] period.type = "DAY"      ->
            DayOf(IF TimeOfDay(period.end) = 0 THEN period.end - 1 ELSE period.end)
              - DayOf(period.start) + 1

\* Mutant: every calendar day the period touches gives a date.
DatePerDayTouched(period) ==
    [i \in 1..(DayOf(period.end) - DayOf(period.start) + 1) |->
        At(DayOf(period.start) + i - 1, TimeOfDay(period.start))]
GenerateBookingDates(period) ==
    [i \in 1..NumberOfDates(period) |->
        IF period.type = "FULL_DAY" THEN period.start + (i - 1) * HalfHoursPerDay
                                    ELSE At(DayOf(period.start) + i - 1, 0)]

\* BookingDomainService.createBookingLegs, for one date.
LegOn(period, date) ==
    LET day == DayOf(date) IN
    CASE period.type = "DAY" ->
            [date |-> date, start |-> At(day, TimeOfDay(period.start)),
             end |-> At(day, TimeOfDay(period.start) + 24)]
      [] period.type = "NIGHT" ->
            [date |-> date, start |-> At(day, 2 * HourOf(period.start)),
             end |-> At(day + 1, 2 * HourOf(period.end))]
      [] period.type = "FULL_DAY" ->
            [date |-> date, start |-> At(day, TimeOfDay(period.start)),
             end |-> At(day + 1, TimeOfDay(period.start))]

BookingLegs(period) ==
    LET dates == GenerateBookingDates(period) IN
    [i \in DOMAIN dates |-> LegOn(period, dates[i])]

\* Booking.addLeg and BookingLeg.create refuse a leg by its day and by its times.
LegAccepted(period, leg) ==
    /\ leg.start < leg.end
    /\ DayOf(leg.date) \in DayOf(period.start)..DayOf(period.end)

\* Whether createPendingBooking comes to the point where it saves.
BookingAccepted(req, now) ==
    /\ CreateBookingSchema(req, now)
    /\ PeriodAccepted(req, now)
    /\ LET legs == BookingLegs(PeriodOf(req)) IN
       \A i \in DOMAIN legs : LegAccepted(PeriodOf(req), legs[i])
=============================================================================
