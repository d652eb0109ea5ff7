----------------------------- MODULE TripProofs -----------------------------
(***************************************************************************)
(* What Rental.tla, Orchestration.tla and Pricing.tla promise, proved for    *)
(* any requests, clocks, rates and number of handlers: the legs of a booking  *)
(* and their reminders, what people are told, and what they are charged.     *)
(***************************************************************************)
EXTENDS Rental, Orchestration, Pricing, SequenceTheorems, TLAPS

-----------------------------------------------------------------------------
(* Days and the time of day.                                                *)

LEMMA DayAndTime ==
    ASSUME NEW t \in Nat
    PROVE  /\ DayOf(t) \in Nat /\ TimeOfDay(t) \in 0..47
           /\ t = DayOf(t) * 48 + TimeOfDay(t)
  BY SMT DEF DayOf, TimeOfDay, HalfHoursPerDay

LEMMA AtDayAndTime ==
    ASSUME NEW day \in Nat, NEW time \in 0..47
    PROVE  /\ At(day, time) = day * 48 + time /\ At(day, time) \in Nat
           /\ DayOf(At(day, time)) = day
           /\ TimeOfDay(At(day, time)) = time
  BY SMT DEF At, DayOf, TimeOfDay, HalfHoursPerDay

LEMMA Pickup ==
    ASSUME NEW pickup \in PickupTimes
    PROVE  To24Hour(pickup) \in 0..47
<1> DEFINE hour == pickup.hour
           half == pickup.half
<1>1. hour \in 1..12 /\ half \in 0..1 /\ pickup.pm \in BOOLEAN
  BY DEF PickupTimes
<1> HIDE DEF hour, half
<1>2. hour % 12 \in 0..11
  BY <1>1, SMT
<1>3. To24Hour(pickup) = 2 * ((hour % 12) + (IF pickup.pm THEN 12 ELSE 0)) + half
  BY DEF To24Hour, hour, half
<1> QED
  BY <1>1, <1>2, <1>3, SMT

-----------------------------------------------------------------------------
(* Legs of a period.                                                        *)

\* Leg after leg begins a day later and lasts six hours at least; together they tile the
\* period.
Tiles(period, legs, n) ==
    /\ n \in Nat \ {0}
    /\ legs \in [1..n -> [date : Nat, start : Nat, end : Nat]]
    /\ \A i \in 1..n :
          /\ legs[i].start = period.start + (i - 1) * 48
          /\ legs[i].end >= legs[i].start + 12
          /\ legs[i].end <= legs[i].start + 48
    /\ legs[n].end <= period.end /\ period.end - legs[n].end < 2

LEMMA NightLegs ==
    ASSUME NEW req, req.type = "NIGHT", req.from \in Nat
    PROVE  /\ PeriodOf(req) \in [type : {"NIGHT"}, start : Nat, end : Nat]
           /\ Tiles(PeriodOf(req), BookingLegs(PeriodOf(req)), 1)
<1> DEFINE day == DayOf(req.from)
           period == PeriodOf(req)
           legs == BookingLegs(period)
<1>1. day \in Nat
  BY DayAndTime
<1>2. period = Period("NIGHT", At(day, 46), At(day + 1, 10))
  BY DEF PeriodOf, NightPeriod
<1>3. /\ period.type = "NIGHT"
      /\ period.start = At(day, 46) /\ period.end = At(day + 1, 10)
  BY <1>2 DEF Period
<1>4. /\ period.start = day * 48 + 46 /\ period.end = day * 48 + 58
      /\ DayOf(period.start) = day /\ TimeOfDay(period.start) = 46
      /\ DayOf(period.end) = day + 1 /\ TimeOfDay(period.end) = 10
  <2>1. day + 1 \in Nat /\ 46 \in 0..47 /\ 10 \in 0..47
    BY <1>1
  <2>2. /\ At(day, 46) = day * 48 + 46
        /\ DayOf(At(day, 46)) = day /\ TimeOfDay(At(day, 46)) = 46
    BY <1>1, <2>1, AtDayAndTime
  <2>3. /\ At(day + 1, 10) = (day + 1) * 48 + 10
        /\ DayOf(At(day + 1, 10)) = day + 1 /\ TimeOfDay(At(day + 1, 10)) = 10
    BY <2>1, AtDayAndTime
  <2>4. (day + 1) * 48 + 10 = day * 48 + 58
    BY <1>1
  <2> HIDE DEF day, period
  <2> QED
    BY <1>3, <2>2, <2>3, <2>4
<1>5. HourOf(period.start) = 23 /\ HourOf(period.end) = 5
  BY <1>4, SMT DEF HourOf
<1>6. period \in [type : {"NIGHT"}, start : Nat, end : Nat]
  BY <1>1, <1>2, <1>3, <1>4 DEF Period
<1> HIDE DEF day, period
<1>7. NumberOfDates(period) = 1
  BY <1>1, <1>3, <1>4 DEF NumberOfDates
<1>8. GenerateBookingDates(period) = [i \in 1..1 |-> At(day + i - 1, 0)]
  BY <1>3, <1>4, <1>7 DEF GenerateBookingDates
<1>9. legs = [i \in 1..1 |-> LegOn(period, At(day + i - 1, 0))]
  BY <1>8 DEF BookingLegs
<1>10. At(day, 0) = day * 48 /\ DayOf(At(day, 0)) = day
  <2>1. 0 \in 0..47 /\ day * 48 + 0 = day * 48
    BY <1>1
  <2> QED
    BY <1>1, <2>1, AtDayAndTime
<1>11. LegOn(period, At(day, 0)) =
         [date |-> At(day, 0), start |-> At(day, 46), end |-> At(day + 1, 10)]
  BY <1>3, <1>5, <1>10 DEF LegOn
<1>12. legs[1] = [date |-> day * 48, start |-> day * 48 + 46, end |-> day * 48 + 58]
  BY <1>1, <1>3, <1>4, <1>9, <1>10, <1>11
<1> HIDE DEF legs
<1>13. Tiles(period, legs, 1)
  <2>1. legs \in [1..1 -> [date : Nat, start : Nat, end : Nat]]
    BY <1>1, <1>9, <1>12
  <2>2. \A i \in 1..1 : i = 1
    OBVIOUS
  <2> QED
    BY <1>1, <1>4, <1>12, <2>1, <2>2 DEF Tiles
<1> QED
  BY <1>6, <1>13 DEF legs, period

LEMMA DayLegs ==
    ASSUME NEW req, req.type = "DAY", req.from \in Nat, req.to \in Nat,
           req.pickup \in PickupTimes, NEW now \in Nat, PeriodAccepted(req, now)
    PROVE  /\ PeriodOf(req) \in [type : {"DAY"}, start : Nat, end : Nat]
           /\ \E n \in Nat : Tiles(PeriodOf(req), BookingLegs(PeriodOf(req)), n)
<1> DEFINE first == DayOf(req.from)
           last == DayOf(req.to)
           p == To24Hour(req.pickup)
           n == last - first + 1
           period == PeriodOf(req)
           legs == BookingLegs(period)
<1>1. first \in Nat /\ last \in Nat
  BY DayAndTime
<1>2. p \in 0..47
  BY Pickup
<1>3. HourOf(p) \in 7..11 /\ last >= first
  BY DEF PeriodAccepted, DayAccepted
<1>4. period = Period("DAY", At(first, p), At(last, p + 24))
  BY DEF PeriodOf, DayPeriod
<1> HIDE DEF first, last, p
<1>5. p \in 14..23
  BY <1>2, <1>3, SMT DEF HourOf, TimeOfDay, HalfHoursPerDay
<1>6. p \in 0..47 /\ p + 24 \in 0..47 /\ 0 \in 0..47
  BY <1>5
<1>7. n \in Nat \ {0}
  BY <1>1, <1>3
<1>8. /\ period.type = "DAY"
      /\ period.start = At(first, p) /\ period.end = At(last, p + 24)
  BY <1>4 DEF Period
<1>9. /\ At(first, p) = first * 48 + p /\ At(first, p) \in Nat
      /\ DayOf(At(first, p)) = first /\ TimeOfDay(At(first, p)) = p
  BY <1>1, <1>6, AtDayAndTime
<1>10. /\ At(last, p + 24) = last * 48 + (p + 24) /\ At(last, p + 24) \in Nat
       /\ DayOf(At(last, p + 24)) = last /\ TimeOfDay(At(last, p + 24)) = p + 24
  BY <1>1, <1>6, AtDayAndTime
<1>11. period \in [type : {"DAY"}, start : Nat, end : Nat]
  BY <1>4, <1>9, <1>10 DEF Period
<1> HIDE DEF period
<1>12. NumberOfDates(period) = n
  BY <1>5, <1>8, <1>9, <1>10 DEF NumberOfDates
<1> HIDE DEF n
<1>13. GenerateBookingDates(period) = [i \in 1..n |-> At(first + i - 1, 0)]
  BY <1>8, <1>9, <1>12 DEF GenerateBookingDates
<1>14. legs = [i \in 1..n |-> LegOn(period, At(first + i - 1, 0))]
  BY <1>13 DEF BookingLegs
<1>15. ASSUME NEW i \in 1..n
       PROVE  /\ legs[i] \in [date : Nat, start : Nat, end : Nat]
              /\ legs[i].start = (first + i - 1) * 48 + p
              /\ legs[i].end = (first + i - 1) * 48 + (p + 24)
  <2> DEFINE day == first + i - 1
  <2>1. day \in Nat
    BY <1>1, <1>7
  <2> HIDE DEF day
  <2>2. /\ At(day, 0) \in Nat /\ DayOf(At(day, 0)) = day
        /\ At(day, p) = day * 48 + p /\ At(day, p) \in Nat
        /\ At(day, p + 24) = day * 48 + (p + 24) /\ At(day, p + 24) \in Nat
    BY <1>6, <2>1, AtDayAndTime
  <2>3. legs[i] = LegOn(period, At(day, 0))
    BY <1>14 DEF day
  <2>4. LegOn(period, At(day, 0)) =
          [date |-> At(day, 0), start |-> At(day, p), end |-> At(day, p + 24)]
    BY <1>8, <1>9, <2>2 DEF LegOn
  <2>5. /\ legs[i] \in [date : Nat, start : Nat, end : Nat]
        /\ legs[i].start = day * 48 + p
        /\ legs[i].end = day * 48 + (p + 24)
    BY <2>2, <2>3, <2>4
  <2> QED
    BY <2>5 DEF day
<1> HIDE DEF legs
<1>16. legs \in [1..n -> [date : Nat, start : Nat, end : Nat]]
  BY <1>14, <1>15 DEF legs
<1>17. \A i \in 1..n :
          /\ legs[i].start = period.start + (i - 1) * 48
          /\ legs[i].end >= legs[i].start + 12
          /\ legs[i].end <= legs[i].start + 48
  <2> TAKE i \in 1..n
  <2>1. (first + i - 1) * 48 + p = (first * 48 + p) + (i - 1) * 48
    BY <1>1, <1>2, <1>7, SMT
  <2>2. (first + i - 1) * 48 + (p + 24) = (first * 48 + p) + (i - 1) * 48 + 24
    BY <1>1, <1>2, <1>7, SMT
  <2>3. legs[i].start \in Nat
    BY <1>16
  <2>4. /\ legs[i].start = (first * 48 + p) + (i - 1) * 48
        /\ legs[i].end = legs[i].start + 24
    BY <1>15, <2>1, <2>2
  <2> QED
    BY <1>8, <1>9, <2>3, <2>4
<1>18. legs[n].end = period.end
  <2>1. n \in 1..n /\ first + n - 1 = last
    BY <1>1, <1>7 DEF n
  <2> QED
    BY <1>8, <1>10, <1>15, <2>1
<1>19. Tiles(period, legs, n)
  <2>1. period.end \in Nat
    BY <1>8, <1>10
  <2>2. legs[n].end <= period.end /\ period.end - legs[n].end < 2
    BY <1>18, <2>1
  <2> QED
    BY <1>7, <1>16, <1>17, <2>2 DEF Tiles
<1> QED
  BY <1>7, <1>11, <1>19 DEF legs, period

\* Days from the hour of the pickup on; the hours count, what is over in minutes is less
\* than one.
LEMMA FullDayLegs ==
    ASSUME NEW req, req.type = "FULL_DAY", req.from \in Nat, req.to \in Nat, req.to > req.from,
           NEW now \in Nat, PeriodAccepted(req, now)
    PROVE  /\ PeriodOf(req) \in [type : {"FULL_DAY"}, start : Nat, end : Nat]
           /\ \E n \in Nat : Tiles(PeriodOf(req), BookingLegs(PeriodOf(req)), n)
<1> DEFINE from == req.from
           to == req.to
           hours == DifferenceInHours(to, from)
           n == hours \div 24
           period == PeriodOf(req)
           legs == BookingLegs(period)
<1>1. hours >= 24 /\ hours % 24 = 0
  BY DEF PeriodAccepted, FullDayAccepted
<1>2. from \in Nat /\ to \in Nat /\ to > from
  OBVIOUS
<1>3. period = Period("FULL_DAY", from, to)
  BY DEF PeriodOf
<1>4. /\ period.type = "FULL_DAY"
      /\ period.start = from /\ period.end = to
  BY <1>3 DEF Period
<1>5. period \in [type : {"FULL_DAY"}, start : Nat, end : Nat]
  BY <1>3 DEF Period
<1> HIDE DEF period, from, to
<1>6. hours \in Nat /\ to - from - 2 * hours \in 0..1
  BY <1>2, SMT DEF DifferenceInHours
<1> HIDE DEF hours
<1>7. n \in Nat \ {0} /\ hours = 24 * n /\ (hours + 23) \div 24 = n
  BY <1>1, <1>6, SMT
<1>8. NumberOfDates(period) = n
  BY <1>4, <1>7 DEF NumberOfDates, hours
<1> HIDE DEF n
<1>9. legs = [i \in 1..n |-> LegOn(period, from + (i - 1) * 48)]
  BY <1>4, <1>8 DEF BookingLegs, GenerateBookingDates, HalfHoursPerDay
<1>10. ASSUME NEW i \in 1..n
       PROVE  /\ legs[i] \in [date : Nat, start : Nat, end : Nat]
              /\ legs[i].start = from + (i - 1) * 48
              /\ legs[i].end = from + (i - 1) * 48 + 48
  <2> DEFINE date == from + (i - 1) * 48
             day == DayOf(date)
             time == TimeOfDay(from)
  <2>1. date \in Nat
    BY <1>2, <1>7
  <2>2. day \in Nat /\ time \in 0..47 /\ TimeOfDay(date) = time /\ date = day * 48 + time
    <3>1. TimeOfDay(date) = time
      BY <1>2, <1>7, SMT DEF TimeOfDay, HalfHoursPerDay
    <3> HIDE DEF date
    <3> QED
      BY <1>2, <2>1, <3>1, DayAndTime
  <2> HIDE DEF day, time
  <2>3. day + 1 \in Nat
    BY <2>2
  <2>4. At(day, time) = day * 48 + time /\ At(day + 1, time) = (day + 1) * 48 + time
    BY <2>2, <2>3, AtDayAndTime
  <2>5. At(day, time) = date /\ At(day + 1, time) = date + 48
    <3> HIDE DEF date
    <3> QED
      BY <2>1, <2>2, <2>4, SMT
  <2>6. legs[i] = LegOn(period, date)
    BY <1>9
  <2> HIDE DEF date
  <2>7. LegOn(period, date) =
          [date |-> date, start |-> At(day, time), end |-> At(day + 1, time)]
    BY <1>4 DEF LegOn, day, time
  <2>8. /\ legs[i] \in [date : Nat, start : Nat, end : Nat]
        /\ legs[i].start = date
        /\ legs[i].end = date + 48
    BY <2>1, <2>5, <2>6, <2>7
  <2> QED
    BY <2>8 DEF date
<1> HIDE DEF legs
<1>11. legs \in [1..n -> [date : Nat, start : Nat, end : Nat]]
  BY <1>9, <1>10 DEF legs
<1>12. legs[n].end = from + 2 * hours
  <2>1. n \in 1..n /\ from + (n - 1) * 48 + 48 = from + 2 * (24 * n)
    BY <1>2, <1>7, SMT
  <2> QED
    BY <1>7, <1>10, <2>1
<1>13. \A i \in 1..n :
          /\ legs[i].start = period.start + (i - 1) * 48
          /\ legs[i].end >= legs[i].start + 12
          /\ legs[i].end <= legs[i].start + 48
  <2> TAKE i \in 1..n
  <2>1. legs[i].start \in Nat /\ legs[i].end = legs[i].start + 48
    BY <1>10, <1>11
  <2> QED
    BY <1>4, <1>10, <2>1
<1>14. Tiles(period, legs, n)
  BY <1>2, <1>4, <1>6, <1>7, <1>11, <1>12, <1>13 DEF Tiles
<1> QED
  BY <1>5, <1>7, <1>14 DEF legs, period

\* Whatever is accepted is cut into legs that tile its period.
LEMMA AcceptedTiles ==
    ASSUME NEW req \in BookingRequests, NEW now \in Nat, BookingAccepted(req, now)
    PROVE  /\ PeriodOf(req) \in [type : BookingTypes, start : Nat, end : Nat]
           /\ \E n \in Nat : Tiles(PeriodOf(req), BookingLegs(PeriodOf(req)), n)
<1>1. /\ req.type \in {"DAY", "NIGHT", "FULL_DAY"}
      /\ req.from \in Nat /\ req.to \in Nat /\ req.pickup \in PickupTimes
  BY RentalAssumption DEF BookingRequests, BookingTypes
<1>2. PeriodAccepted(req, now) /\ (req.type = "FULL_DAY" => req.to > req.from)
  BY DEF BookingAccepted, CreateBookingSchema
<1>3. CASE req.type = "DAY"
  BY <1>1, <1>2, <1>3, DayLegs DEF BookingTypes
<1>4. CASE req.type = "NIGHT"
  BY <1>1, <1>2, <1>4, NightLegs DEF BookingTypes
<1>5. CASE req.type = "FULL_DAY"
  BY <1>1, <1>2, <1>5, FullDayLegs DEF BookingTypes
<1> QED
  BY <1>1, <1>3, <1>4, <1>5

LEMMA LegsAreSequence ==
    ASSUME NEW S, NEW n \in Nat, NEW legs \in [1..n -> S]
    PROVE  legs \in Seq(S) /\ Len(legs) = n
<1>1. legs \in Seq(S)
  BY DEF Seq
<1>2. DOMAIN legs = 1..Len(legs) /\ Len(legs) \in Nat
  BY <1>1
<1>3. 1..n = 1..Len(legs)
  BY <1>2
<1> QED
  BY <1>1, <1>2, <1>3

-----------------------------------------------------------------------------
(* The rental: types, and its legs.                                         *)

Tiled(period, legs) == \E n \in Nat : Tiles(period, legs, n) /\ n <= MaxLegs

LEMMA TiledLegs ==
    ASSUME NEW period \in [type : BookingTypes, start : Nat, end : Nat],
           NEW legs, Tiled(period, legs)
    PROVE  /\ legs \in Seq([date : Nat, start : Nat, end : Nat])
           /\ DOMAIN legs = 1..Len(legs) /\ Len(legs) \in 1..MaxLegs
           /\ \A i \in DOMAIN legs :
                /\ legs[i] \in [date : Nat, start : Nat, end : Nat]
                /\ legs[i].start = period.start + (i - 1) * 48
                /\ legs[i].end >= legs[i].start + 12
                /\ legs[i].end <= legs[i].start + 48
           /\ legs[Len(legs)].end <= period.end
           /\ period.end - legs[Len(legs)].end < 2
<1> PICK n \in Nat : Tiles(period, legs, n) /\ n <= MaxLegs
  BY DEF Tiled
<1>1. n \in 1..MaxLegs /\ legs \in [1..n -> [date : Nat, start : Nat, end : Nat]]
  <2>1. n \in Nat \ {0} /\ legs \in [1..n -> [date : Nat, start : Nat, end : Nat]]
    BY DEF Tiles
  <2>2. n <= MaxLegs
    OBVIOUS
  <2>3. n \in 1..MaxLegs
    BY <2>1, <2>2 DEF MaxLegs
  <2> QED
    BY <2>1, <2>3
<1>2. legs \in Seq([date : Nat, start : Nat, end : Nat]) /\ Len(legs) = n
  BY <1>1, LegsAreSequence
<1> QED
  BY <1>1, <1>2 DEF Tiles

RentalTiled == rental # NoRental => Tiled(rental.period, rental.legs)

\* The rental is as it was, or has another status or a chauffeur.
RentalKept ==
    \/ rental' = rental
    \/ /\ rental # NoRental
       /\ \/ \E s \in {"CONFIRMED", "ACTIVE", "CANCELLED"} :
                rental' = [rental EXCEPT !.status = s]
          \/ rental' = [rental EXCEPT !.chauffeur = TRUE]

LEMMA Kept ==
    ASSUME RentalTypeOK, RentalKept
    PROVE  /\ (rental \in Rentals \cup {NoRental})'
           /\ rental # NoRental <=> rental' # NoRental
           /\ rental # NoRental => rental'.period = rental.period /\ rental'.legs = rental.legs
<1>1. CASE rental' = rental
  BY <1>1 DEF RentalTypeOK
<1>2. CASE rental' # rental
  <2>1. rental \in Rentals
    BY <1>2 DEF RentalKept, RentalTypeOK
  <2>2. /\ rental' \in Rentals
        /\ rental'.period = rental.period /\ rental'.legs = rental.legs
    <3>1. CASE \E s \in {"CONFIRMED", "ACTIVE", "CANCELLED"} :
                  rental' = [rental EXCEPT !.status = s]
      BY <2>1, <3>1 DEF Rentals
    <3>2. CASE rental' = [rental EXCEPT !.chauffeur = TRUE]
      BY <2>1, <3>2 DEF Rentals
    <3> QED
      BY <1>2, <3>1, <3>2 DEF RentalKept
  <2> QED
    BY <2>1, <2>2, NoRentalAssumption
<1> QED
  BY <1>1, <1>2

LEMMA OthersKeep ==
    ASSUME RentalNext, ~(\E req \in BookingRequests : CreateRental(req))
    PROVE  RentalKept
  BY DEF RentalNext, RentalKept, PayRental, GiveChauffeur, CancelRental, RunStartReminders,
         RunEndReminders, RunActivations, HourlyJobFails, TickHalfHour, RentalIs, StartingLegs

LEMMA CreatesRental ==
    ASSUME RentalTypeOK, NEW req \in BookingRequests, CreateRental(req)
    PROVE  /\ rental' \in Rentals
           /\ rental'.status = "PENDING"
           /\ Tiled(rental'.period, rental'.legs)
<1> DEFINE period == PeriodOf(req)
           legs == BookingLegs(period)
<1>1. /\ BookingAccepted(req, halfHour) /\ halfHour \in Nat
      /\ Len(legs) <= MaxLegs
      /\ rental' = [period |-> period, legs |-> legs, status |-> "PENDING", chauffeur |-> FALSE]
  BY DEF CreateRental, RentalTypeOK
<1>2. /\ period \in [type : BookingTypes, start : Nat, end : Nat]
      /\ \E n \in Nat : Tiles(period, legs, n)
  BY <1>1, AcceptedTiles
<1> HIDE DEF legs, period
<1> PICK n \in Nat : Tiles(period, legs, n)
  BY <1>2
<1>3. legs \in Seq([date : Nat, start : Nat, end : Nat]) /\ Len(legs) = n
  BY LegsAreSequence DEF Tiles
<1>4. Tiled(period, legs)
  BY <1>1, <1>3 DEF Tiled
<1>5. rental' \in Rentals
  BY <1>1, <1>2, <1>3 DEF Rentals
<1> QED
  BY <1>1, <1>4, <1>5

LEMMA RentalTypeStep ==
    ASSUME RentalTypeOK, RentalTiled, [RentalNext]_rentalVars
    PROVE  RentalTypeOK' /\ RentalTiled'
<1>1. CASE UNCHANGED rentalVars
  BY <1>1 DEF rentalVars, RentalTypeOK, RentalTiled
<1>2. CASE RentalNext
  <2>1. (rental \in Rentals \cup {NoRental})' /\ RentalTiled'
    <3>1. CASE \E req \in BookingRequests : CreateRental(req)
      BY <3>1, CreatesRental DEF RentalTiled
    <3>2. CASE RentalKept
      BY <3>2, Kept DEF RentalTiled
    <3> QED
      BY <1>2, <3>1, <3>2, OthersKeep
  <2>2. (halfHour \in 0..LastHalfHour)'
    <3>1. halfHour' = halfHour \/ (halfHour < LastHalfHour /\ halfHour' = halfHour + 1)
      BY <1>2 DEF RentalNext, CreateRental, PayRental, GiveChauffeur, CancelRental,
         RunStartReminders, RunEndReminders, RunActivations, HourlyJobFails, TickHalfHour
    <3>2. halfHour \in 0..LastHalfHour /\ LastHalfHour \in Nat
      BY RentalAssumption DEF RentalTypeOK
    <3> QED
      BY <3>1, <3>2
  <2>3. (hourly \subseteq HourlyJobs)'
    BY <1>2 DEF RentalNext, RentalTypeOK, CreateRental, PayRental, GiveChauffeur,
       CancelRental, RunStartReminders, RunEndReminders, RunActivations, HourlyJobFails,
       TickHalfHour, JobEnds
  <2>4. /\ (startsSent \in [LegNumbers -> 0..MaxSent])'
        /\ (endsSent \in [LegNumbers -> 0..MaxSent])'
    <3>1. ASSUME NEW count \in [LegNumbers -> 0..MaxSent], NEW legs,
                 \A i \in legs : count[i] < MaxSent
          PROVE  Sent(count, legs) \in [LegNumbers -> 0..MaxSent]
      BY <3>1 DEF Sent, MaxSent
    <3>2. /\ startsSent' \in {startsSent, Sent(startsSent, StartReminderLegs)}
          /\ startsSent' # startsSent => \A i \in StartReminderLegs : startsSent[i] < MaxSent
          /\ endsSent' \in {endsSent, Sent(endsSent, EndReminderLegs)}
          /\ endsSent' # endsSent => \A i \in EndReminderLegs : endsSent[i] < MaxSent
      BY <1>2 DEF RentalNext, CreateRental, PayRental, GiveChauffeur, CancelRental,
         RunStartReminders, RunEndReminders, RunActivations, HourlyJobFails, TickHalfHour
    <3> QED
      BY <3>1, <3>2 DEF RentalTypeOK
  <2>5. (paidInTime \in BOOLEAN)' /\ (missed \in BOOLEAN)'
    <3>1. paidInTime' = paidInTime \/ PayRental
      BY <1>2 DEF RentalNext, CreateRental, GiveChauffeur, CancelRental, RunStartReminders,
         RunEndReminders, RunActivations, HourlyJobFails, TickHalfHour, Unhurt
    <3>2. (paidInTime \in BOOLEAN)'
      <4>1. CASE paidInTime' = paidInTime
        BY <4>1 DEF RentalTypeOK
      <4>2. CASE PayRental
        <5> DEFINE ahead == halfHour + 2 < rental.period.start
        <5>1. paidInTime' = ahead
          BY <4>2 DEF PayRental
        <5>2. ahead \in BOOLEAN
          BY SMT
        <5> QED
          BY <5>1, <5>2
      <4> QED
        BY <3>1, <4>1, <4>2
    <3>3. \/ missed' = missed \/ missed' = TRUE
          \/ \E again \in BOOLEAN : missed' = (missed \/ again)
          \/ \E up \in BOOLEAN : missed' = (missed \/ ~up \/ hourly' \cap hourly # {})
      BY <1>2, Zenon DEF RentalNext, CreateRental, PayRental, GiveChauffeur, CancelRental,
         RunStartReminders, RunEndReminders, RunActivations, HourlyJobFails, TickHalfHour,
         JobEnds, Unhurt
    <3>4. (missed \in BOOLEAN)'
      BY <3>3, Zenon DEF RentalTypeOK
    <3> QED
      BY <3>2, <3>4
  <2> QED
    BY <2>1, <2>2, <2>3, <2>4, <2>5 DEF RentalTypeOK
<1> QED
  BY <1>1, <1>2

LEMMA RentalTyped == RentalSpec => [](RentalTypeOK /\ RentalTiled)
<1>1. RentalInit => RentalTypeOK /\ RentalTiled
  <2>1. 0 \in 0..LastHalfHour /\ 0 \in 0..MaxSent
    BY RentalAssumption DEF MaxSent
  <2> QED
    BY <2>1 DEF RentalInit, RentalTypeOK, RentalTiled
<1>2. RentalTypeOK /\ RentalTiled /\ [RentalNext]_rentalVars => (RentalTypeOK /\ RentalTiled)'
  BY RentalTypeStep
<1> QED
  BY <1>1, <1>2, PTL DEF RentalSpec

\* The type invariant of Rental.
THEOREM RentalTypeCorrect == RentalSpec => []RentalTypeOK
  BY RentalTyped, PTL

\* The legs of whatever is accepted tile its period, for any dates, pickup times and
\* moments of asking.
THEOREM LegsAlwaysTile == RentalSpec => []LegsTileThePeriod
<1>1. ASSUME RentalTypeOK, RentalTiled PROVE LegsTileThePeriod
  <2> SUFFICES ASSUME rental # NoRental PROVE LegsTileThePeriod
    BY DEF LegsTileThePeriod
  <2> DEFINE legs == rental.legs
             period == rental.period
  <2>1. period \in [type : BookingTypes, start : Nat, end : Nat]
    BY <1>1 DEF RentalTypeOK, Rentals
  <2>2. Tiled(period, legs)
    BY <1>1 DEF RentalTiled
  <2> HIDE DEF legs, period
  <2>3. /\ legs \in Seq([date : Nat, start : Nat, end : Nat])
        /\ DOMAIN legs = 1..Len(legs) /\ Len(legs) \in 1..3
        /\ \A i \in 1..Len(legs) :
             /\ legs[i] \in [date : Nat, start : Nat, end : Nat]
             /\ legs[i].start = period.start + (i - 1) * 48
             /\ legs[i].end <= legs[i].start + 48
        /\ legs[Len(legs)].end <= period.end /\ period.end - legs[Len(legs)].end < 2
    BY <2>1, <2>2, TiledLegs DEF MaxLegs
  <2>4. legs # <<>> /\ legs[1].start = period.start
    BY <2>1, <2>3
  <2>5. ASSUME NEW i \in 2..Len(legs)
        PROVE  /\ legs[i - 1].end <= legs[i].start
               /\ legs[i].start = legs[i - 1].start + 48
    <3> DEFINE n == Len(legs)
    <3>4. n \in 1..3 /\ i \in 2..n
      BY <2>3
    <3>1. i \in 1..Len(legs) /\ i - 1 \in 1..Len(legs)
      <4> HIDE DEF n
      <4>1. i \in 1..n /\ i - 1 \in 1..n
        BY <3>4
      <4> QED
        BY <4>1 DEF n
    <3>2. /\ legs[i].start \in Nat /\ legs[i - 1].start \in Nat /\ legs[i - 1].end \in Nat
          /\ legs[i].start = period.start + (i - 1) * 48
          /\ legs[i - 1].start = period.start + ((i - 1) - 1) * 48
          /\ legs[i - 1].end <= legs[i - 1].start + 48
      <4> PICK j \in 1..Len(legs) : j = i - 1
        BY <3>1
      <4> QED
        BY <2>3, <3>1
    <3>3. period.start \in Nat
      BY <2>1
    <3> QED
      BY <3>1, <3>2, <3>3
  <2> QED
    BY <2>3, <2>4, <2>5 DEF LegsTileThePeriod, HalfHoursPerDay, legs, period
<1> QED
  BY <1>1, RentalTyped, PTL

-----------------------------------------------------------------------------
(* Reminders.                                                               *)

LEMMA LegFacts ==
    ASSUME RentalTypeOK, RentalTiled, rental # NoRental
    PROVE  /\ rental.period.start \in Nat
           /\ LegsOfRental \subseteq LegNumbers /\ 1 \in LegsOfRental
           /\ rental.legs[1].start = rental.period.start
           /\ \A i \in LegsOfRental :
                /\ i \in Nat
                /\ rental.legs[i].start \in Nat /\ rental.legs[i].end \in Nat
                /\ rental.legs[i].start = rental.period.start + (i - 1) * 48
                /\ rental.legs[i].end >= rental.period.start + 12
<1> DEFINE legs == rental.legs
           period == rental.period
<1>1. period \in [type : BookingTypes, start : Nat, end : Nat] /\ Tiled(period, legs)
  BY DEF RentalTypeOK, RentalTiled, Rentals
<1>2. LegsOfRental = DOMAIN legs
  BY DEF LegsOfRental
<1> HIDE DEF legs, period
<1>3. /\ DOMAIN legs = 1..Len(legs) /\ Len(legs) \in 1..3
      /\ \A i \in DOMAIN legs :
           /\ legs[i] \in [date : Nat, start : Nat, end : Nat]
           /\ legs[i].start = period.start + (i - 1) * 48
           /\ legs[i].end >= legs[i].start + 12
  BY <1>1, TiledLegs DEF MaxLegs
<1>4. period.start \in Nat
  BY <1>1
<1>5. DOMAIN legs \subseteq LegNumbers /\ 1 \in DOMAIN legs
  BY <1>3 DEF LegNumbers, MaxLegs
<1>6. legs[1].start = period.start
  BY <1>3, <1>4, <1>5
<1>7. ASSUME NEW i \in DOMAIN legs
      PROVE  /\ i \in Nat /\ legs[i].start \in Nat /\ legs[i].end \in Nat
             /\ legs[i].end >= period.start + 12
  BY <1>3, <1>4
<1> QED
  BY <1>2, <1>3, <1>4, <1>5, <1>6, <1>7 DEF legs, period

LEMMA OddAndEven ==
    ASSUME NEW t \in Nat, OnTheHour(t), NEW now \in Nat, ~OnTheHour(now)
    PROVE  now + 2 # t
  BY SMT DEF OnTheHour

LEMMA NextIsOdd ==
    ASSUME NEW t \in Nat, ~OnTheHour(t + 1)
    PROVE  OnTheHour(t)
  BY SMT DEF OnTheHour

\* The hour passes: whoever is due at t in the new half-hour was due in the last one.
LEMMA TickRuns ==
    ASSUME RentalTypeOK, RemindersInv, NEW up \in BOOLEAN, TickHalfHour(up), ~missed',
           NEW t \in Nat, NEW job \in HourlyJobs
    PROVE  /\ hourly = {} /\ JobsInv' /\ ~missed
           /\ RunFor(t, job) => RunFor(t, job)'
           /\ OnTheHour(t) /\ RunFor(t, job)' => RunFor(t, job)
<1>1. halfHour \in Nat /\ halfHour' = halfHour + 1
  BY DEF RentalTypeOK, TickHalfHour
<1>2. ~missed /\ up /\ hourly' \cap hourly = {}
  BY Zenon DEF TickHalfHour
<1>3. CASE OnTheHour(halfHour')
  <2>1. hourly = {} /\ hourly' = HourlyJobs
    BY <1>2, <1>3 DEF TickHalfHour
  <2>2. JobsInv'
    BY <1>3 DEF JobsInv
  <2>3. RunFor(t, job) <=> halfHour + 2 >= t
    BY <1>1, <2>1 DEF RunFor
  <2>4. RunFor(t, job)' <=> halfHour + 3 > t
    BY <1>1, <2>1 DEF RunFor
  <2> QED
    BY <1>1, <1>2, <2>1, <2>2, <2>3, <2>4
<1>4. CASE ~OnTheHour(halfHour')
  <2>1. hourly = {} /\ hourly' = {}
    BY <1>2, <1>4 DEF TickHalfHour
  <2>2. JobsInv'
    BY <2>1 DEF JobsInv
  <2>3. RunFor(t, job) <=> halfHour + 2 >= t
    BY <1>1, <2>1 DEF RunFor
  <2>4. RunFor(t, job)' <=> halfHour + 3 >= t
    BY <1>1, <2>1 DEF RunFor
  <2>5. OnTheHour(t) => halfHour + 3 # t
    <3>1. halfHour' \in Nat /\ halfHour' + 2 = halfHour + 3
      BY <1>1
    <3> QED
      BY <1>4, <3>1, OddAndEven
  <2> QED
    BY <1>1, <1>2, <2>1, <2>2, <2>3, <2>4, <2>5
<1> QED
  BY <1>3, <1>4

LEMMA RemindersTick ==
    ASSUME RentalTypeOK, RentalTiled, RemindersInv, NEW up \in BOOLEAN, TickHalfHour(up)
    PROVE  RemindersInv'
<1> DEFINE startJob == "booking-leg-start-reminder"
           endJob == "booking-leg-end-reminder"
<1>1. /\ halfHour \in Nat /\ halfHour' = halfHour + 1 /\ rental' = rental
      /\ startsSent' = startsSent /\ endsSent' = endsSent /\ paidInTime' = paidInTime
  BY DEF RentalTypeOK, TickHalfHour
<1>2. BeginsInv'
  <2>1. BeginsInv
    BY DEF RemindersInv
  <2>2. rental # NoRental => rental.period.start \in Nat
    BY LegFacts
  <2> QED
    BY <1>1, <2>1, <2>2 DEF BeginsInv, RentalIs
<1>3. ASSUME ~missed' PROVE (JobsInv /\ CountsInv /\ StartsInv /\ EndsInv)'
  <2>1. startJob \in HourlyJobs /\ endJob \in HourlyJobs
    BY DEF HourlyJobs
  <2>2. \A t \in Nat, job \in HourlyJobs :
          /\ JobsInv' /\ ~missed
          /\ RunFor(t, job) => RunFor(t, job)'
          /\ OnTheHour(t) /\ RunFor(t, job)' => RunFor(t, job)
    BY <1>3, TickRuns
  <2>3. JobsInv' /\ ~missed
    BY <2>1, <2>2
  <2>4. CountsInv /\ StartsInv /\ EndsInv
    BY <2>3 DEF RemindersInv
  <2>5. ASSUME rental # NoRental, NEW i \in LegsOfRental
        PROVE  /\ StartRunFor(i) => StartRunFor(i)' 
               /\ EndRunFor(i) => EndRunFor(i)'
               /\ OnTheHour(rental.legs[i].end) /\ EndRunFor(i)' => EndRunFor(i)
               /\ OnTheHour(rental.legs[i].start) /\ StartRunFor(i)' => StartRunFor(i)
    <3> PICK start, end : start = rental.legs[i].start /\ end = rental.legs[i].end
      OBVIOUS
    <3>1. start \in Nat /\ end \in Nat
      BY <2>5, LegFacts
    <3>2. /\ RunFor(start, startJob) => RunFor(start, startJob)'
          /\ RunFor(end, endJob) => RunFor(end, endJob)'
          /\ OnTheHour(end) /\ RunFor(end, endJob)' => RunFor(end, endJob)
          /\ OnTheHour(start) /\ RunFor(start, startJob)' => RunFor(start, startJob)
      BY <2>1, <2>2, <3>1
    <3>3. /\ rental'.legs[i].start = start /\ rental'.legs[i].end = end
      BY <1>1
    <3> QED
      BY <3>2, <3>3 DEF StartRunFor, EndRunFor, RunFor
  <2>6. CountsInv'
    BY <1>1, <2>4, <2>5 DEF CountsInv, LegsOfRental, RentalIs
  <2>7. StartsInv'
    <3>1. rental # NoRental => 1 \in LegsOfRental /\ rental.legs[1].start = rental.period.start
      BY LegFacts
    <3> QED
      BY <1>1, <2>4, <2>5, <3>1 DEF StartsInv, Underway, RentalIs
  <2>8. EndsInv'
    BY <1>1, <2>4, <2>5 DEF EndsInv, LegsOfRental, RentalIs
  <2> QED
    BY <2>3, <2>6, <2>7, <2>8
<1> QED
  BY <1>2, <1>3 DEF RemindersInv

LEMMA RemindersFrame ==
    ASSUME RemindersInv, UNCHANGED rentalVars
    PROVE  RemindersInv'
  BY DEF rentalVars, RemindersInv, BeginsInv, JobsInv, CountsInv, StartsInv, EndsInv,
     Underway, RentalIs, LegsOfRental, StartRunFor, EndRunFor, RunFor

LEMMA RemindersCreate ==
    ASSUME RentalTypeOK, RemindersInv, NEW req \in BookingRequests, CreateRental(req)
    PROVE  RemindersInv'
<1>1. /\ rental = NoRental /\ rental' # NoRental /\ rental'.status = "PENDING"
      /\ UNCHANGED <<halfHour, hourly, startsSent, endsSent, paidInTime, missed>>
  BY CreatesRental, NoRentalAssumption DEF CreateRental, Unhurt
<1>2. BeginsInv'
  BY <1>1 DEF RemindersInv, BeginsInv, RentalIs
<1>3. ASSUME ~missed' PROVE (JobsInv /\ CountsInv /\ StartsInv /\ EndsInv)'
  <2>1. JobsInv /\ CountsInv
    BY <1>1, <1>3 DEF RemindersInv
  <2>2. \A i \in LegNumbers : startsSent[i] # 1 /\ endsSent[i] # 1
    BY <1>1, <2>1 DEF CountsInv, RentalIs
  <2>3. JobsInv' /\ CountsInv'
    BY <1>1, <2>1, <2>2 DEF JobsInv, CountsInv
  <2>4. StartsInv' /\ EndsInv'
    BY <1>1 DEF StartsInv, EndsInv, Underway, RentalIs
  <2> QED
    BY <2>3, <2>4
<1> QED
  BY <1>2, <1>3 DEF RemindersInv

\* The first reminder is still to come when the payment was on time.
LEMMA RemindersPay ==
    ASSUME RentalTypeOK, RentalTiled, RemindersInv, PayRental
    PROVE  RemindersInv'
<1>1. /\ rental \in Rentals /\ rental # NoRental /\ rental.status = "PENDING"
      /\ paidInTime' = (halfHour + 2 < rental.period.start)
      /\ UNCHANGED <<halfHour, hourly, startsSent, endsSent, missed>>
  BY DEF PayRental, RentalIs, RentalTypeOK
<1>2. /\ rental' # NoRental /\ rental'.status = "CONFIRMED"
      /\ rental'.period = rental.period /\ rental'.legs = rental.legs
  <2>1. rental' = [rental EXCEPT !.status = "CONFIRMED"]
    BY DEF PayRental
  <2> QED
    BY <1>1, <2>1, NoRentalAssumption DEF Rentals
<1>3. BeginsInv'
  BY <1>2 DEF BeginsInv, RentalIs
<1>4. ASSUME ~missed' PROVE (JobsInv /\ CountsInv /\ StartsInv /\ EndsInv)'
  <2>1. JobsInv /\ CountsInv
    BY <1>1, <1>4 DEF RemindersInv
  <2>2. JobsInv'
    BY <1>1, <2>1 DEF JobsInv
  <2>3. CountsInv'
    BY <1>1, <1>2, <2>1 DEF CountsInv, RentalIs, LegsOfRental, StartRunFor, EndRunFor, RunFor
  <2>4. StartsInv'
    <3>1. halfHour \in Nat /\ rental.period.start \in Nat
          /\ rental.legs[1].start = rental.period.start
      BY <1>1, LegFacts DEF RentalTypeOK
    <3>2. StartRunFor(1)' => halfHour + 2 >= rental.period.start
      BY <1>1, <1>2, <3>1 DEF StartRunFor, RunFor
    <3>3. CASE halfHour + 2 >= rental.period.start
      <4>1. (halfHour + 2 < rental.period.start) = FALSE
        BY <3>1, <3>3
      <4> QED
        BY <1>1, <4>1 DEF StartsInv
    <3>4. CASE ~StartRunFor(1)'
      BY <3>4 DEF StartsInv
    <3> QED
      BY <3>2, <3>3, <3>4
  <2>5. EndsInv'
    BY <1>2 DEF EndsInv, RentalIs
  <2> QED
    BY <2>2, <2>3, <2>4, <2>5
<1> QED
  BY <1>3, <1>4 DEF RemindersInv

LEMMA RemindersChauffeur ==
    ASSUME RentalTypeOK, RemindersInv, GiveChauffeur
    PROVE  RemindersInv'
<1>1. /\ rental \in Rentals /\ rental # NoRental
      /\ rental' = [rental EXCEPT !.chauffeur = TRUE]
      /\ UNCHANGED <<halfHour, hourly, startsSent, endsSent, paidInTime, missed>>
  BY DEF GiveChauffeur, RentalIs, RentalTypeOK, Unhurt
<1>2. /\ rental' # NoRental /\ rental'.status = rental.status
      /\ rental'.period = rental.period /\ rental'.legs = rental.legs
  BY <1>1, NoRentalAssumption DEF Rentals
<1> QED
  BY <1>1, <1>2 DEF RemindersInv, BeginsInv, JobsInv, CountsInv, StartsInv, EndsInv, Underway,
     RentalIs, LegsOfRental, StartRunFor, EndRunFor, RunFor

LEMMA RemindersCancel ==
    ASSUME RentalTypeOK, RemindersInv, CancelRental
    PROVE  RemindersInv'
<1>1. /\ rental \in Rentals /\ rental # NoRental /\ rental.status = "CONFIRMED"
      /\ rental' = [rental EXCEPT !.status = "CANCELLED"]
      /\ UNCHANGED <<halfHour, hourly, startsSent, endsSent, paidInTime, missed>>
  BY DEF CancelRental, RentalIs, RentalTypeOK, Unhurt
<1>2. /\ rental' # NoRental /\ rental'.status = "CANCELLED"
      /\ rental'.period = rental.period /\ rental'.legs = rental.legs
  BY <1>1, NoRentalAssumption DEF Rentals
<1> QED
  BY <1>1, <1>2 DEF RemindersInv, BeginsInv, JobsInv, CountsInv, StartsInv, EndsInv, Underway,
     RentalIs, LegsOfRental, StartRunFor, EndRunFor, RunFor

LEMMA SentTo ==
    ASSUME NEW count \in [LegNumbers -> 0..MaxSent], NEW legs, NEW i \in LegNumbers
    PROVE  /\ count[i] \in 0..2
           /\ i \in legs => Sent(count, legs)[i] = count[i] + 1
           /\ i \notin legs => Sent(count, legs)[i] = count[i]
  BY DEF Sent, MaxSent

\* Whoever is due in an hour has not been reminded: the job for it has not run.
LEMMA RemindersStarts ==
    ASSUME RentalTypeOK, RentalTiled, RemindersInv, NEW again \in BOOLEAN,
           RunStartReminders(again)
    PROVE  RemindersInv'
<1> DEFINE job == "booking-leg-start-reminder"
<1>1. /\ job \in hourly /\ startsSent' = Sent(startsSent, StartReminderLegs)
      /\ hourly' = IF again THEN hourly ELSE hourly \ {job}
      /\ UNCHANGED <<halfHour, rental, endsSent, paidInTime>>
  BY DEF RunStartReminders, JobEnds
<1>2. halfHour \in Nat
  BY DEF RentalTypeOK
<1>3. BeginsInv'
  BY <1>1 DEF RemindersInv, BeginsInv, RentalIs
<1>4. ASSUME ~missed' PROVE (JobsInv /\ CountsInv /\ StartsInv /\ EndsInv)'
  <2>1. ~missed /\ ~again
    BY <1>4, Zenon DEF RunStartReminders, JobEnds
  <2>2. BeginsInv /\ JobsInv /\ CountsInv /\ StartsInv /\ EndsInv
    BY <2>1 DEF RemindersInv
  <2>3. hourly' = hourly \ {job}
    BY <1>1, <2>1
  <2>4. JobsInv'
    BY <1>1, <2>2, <2>3 DEF JobsInv
  <2>5. ASSUME rental # NoRental, NEW i \in LegsOfRental
        PROVE  /\ StartRunFor(i)' <=> halfHour + 2 >= rental.legs[i].start
               /\ StartRunFor(i) <=> halfHour + 2 > rental.legs[i].start
               /\ EndRunFor(i)' <=> EndRunFor(i)
    <3>1. rental.legs[i].start \in Nat
      BY <2>5, LegFacts
    <3>2. "booking-leg-end-reminder" \in hourly' <=> "booking-leg-end-reminder" \in hourly
      BY <2>3
    <3> QED
      BY <1>1, <1>2, <2>3, <3>1, <3>2 DEF StartRunFor, EndRunFor, RunFor
  <2>6. ASSUME NEW i \in StartReminderLegs
        PROVE  /\ rental # NoRental /\ rental.status = "CONFIRMED" /\ i \in LegsOfRental
               /\ rental.legs[i].start = halfHour + 2
    BY DEF StartReminderLegs, RentalIs, ReminderWindow
  <2>7. CountsInv'
    <3>1. ASSUME NEW i \in LegNumbers
          PROVE  /\ startsSent'[i] <= 1
                 /\ startsSent'[i] = 1 =>
                      rental # NoRental /\ i \in LegsOfRental /\ StartRunFor(i)'
      <4>1. /\ startsSent[i] \in 0..2 /\ startsSent[i] <= 1
            /\ i \in StartReminderLegs => startsSent'[i] = startsSent[i] + 1
            /\ i \notin StartReminderLegs => startsSent'[i] = startsSent[i]
        BY <1>1, <2>2, SentTo DEF CountsInv, RentalTypeOK
      <4>2. CASE i \in StartReminderLegs
        <5>1. rental # NoRental /\ i \in LegsOfRental /\ rental.legs[i].start = halfHour + 2
          BY <2>6, <4>2
        <5>2. ~StartRunFor(i) /\ StartRunFor(i)'
          BY <1>2, <2>5, <5>1
        <5>3. startsSent[i] # 1
          BY <2>2, <5>2 DEF CountsInv
        <5> QED
          BY <4>1, <4>2, <5>1, <5>2, <5>3
      <4>3. CASE i \notin StartReminderLegs
        <5>1. startsSent'[i] = startsSent[i] /\ startsSent[i] <= 1
          BY <4>1, <4>3
        <5>2. CASE startsSent[i] = 1
          <6>1. rental # NoRental /\ i \in LegsOfRental /\ StartRunFor(i)
            BY <2>2, <5>2 DEF CountsInv
          <6>2. rental.legs[i].start \in Nat
            BY <6>1, LegFacts
          <6>3. StartRunFor(i)'
            BY <1>2, <2>5, <6>1, <6>2
          <6> QED
            BY <5>1, <6>1, <6>3
        <5> QED
          BY <5>1, <5>2
      <4> QED
        BY <4>2, <4>3
    <3>2. ASSUME NEW i \in LegNumbers
          PROVE  /\ endsSent[i] <= 1
                 /\ endsSent[i] = 1 =>
                      RentalIs({"ACTIVE"}) /\ i \in LegsOfRental /\ EndRunFor(i)'
      BY <2>2, <2>5 DEF CountsInv, RentalIs
    <3> QED
      BY <1>1, <3>1, <3>2 DEF CountsInv, RentalIs, LegsOfRental
  <2>8. StartsInv'
    <3> SUFFICES ASSUME Underway, paidInTime, OnTheHour(rental.period.start), StartRunFor(1)'
                 PROVE  startsSent'[1] = 1
      BY <1>1 DEF StartsInv, Underway, RentalIs
    <3>1. rental # NoRental /\ rental.status \in {"CONFIRMED", "ACTIVE"}
      BY DEF Underway, RentalIs
    <3>2. /\ 1 \in LegsOfRental /\ 1 \in LegNumbers /\ rental.period.start \in Nat
          /\ rental.legs[1].start = rental.period.start
      BY <3>1, LegFacts
    <3>3. halfHour + 2 >= rental.period.start
      BY <2>5, <3>1, <3>2
    <3>4. CASE StartRunFor(1)
      <4>1. startsSent[1] = 1
        BY <2>2, <3>4 DEF StartsInv
      <4>2. 1 \notin StartReminderLegs
        BY <1>2, <2>5, <2>6, <3>1, <3>2, <3>4
      <4> QED
        BY <1>1, <3>2, <4>1, <4>2, SentTo DEF RentalTypeOK
    <3>5. CASE ~StartRunFor(1)
      <4>1. halfHour + 2 = rental.period.start
        BY <1>2, <2>5, <3>1, <3>2, <3>3, <3>5
      <4>2. rental.status = "CONFIRMED"
        BY <1>2, <2>2, <3>1, <3>2, <4>1 DEF BeginsInv, RentalIs
      <4>3. 1 \in StartReminderLegs
        BY <3>1, <3>2, <4>1, <4>2 DEF StartReminderLegs, RentalIs, ReminderWindow
      <4>4. startsSent[1] # 1 /\ startsSent[1] <= 1
        BY <2>2, <3>2, <3>5 DEF CountsInv
      <4>5. startsSent[1] \in 0..2 /\ startsSent'[1] = startsSent[1] + 1
        BY <1>1, <3>2, <4>3, SentTo DEF RentalTypeOK
      <4> QED
        BY <4>4, <4>5
    <3> QED
      BY <3>4, <3>5
  <2>9. EndsInv'
    BY <1>1, <2>2, <2>5 DEF EndsInv, RentalIs, LegsOfRental
  <2> QED
    BY <2>4, <2>7, <2>8, <2>9
<1> QED
  BY <1>3, <1>4 DEF RemindersInv

LEMMA RemindersEnds ==
    ASSUME RentalTypeOK, RentalTiled, RemindersInv, NEW again \in BOOLEAN,
           RunEndReminders(again)
    PROVE  RemindersInv'
<1> DEFINE job == "booking-leg-end-reminder"
<1>1. /\ job \in hourly /\ endsSent' = Sent(endsSent, EndReminderLegs)
      /\ hourly' = IF again THEN hourly ELSE hourly \ {job}
      /\ UNCHANGED <<halfHour, rental, startsSent, paidInTime>>
  BY DEF RunEndReminders, JobEnds
<1>2. halfHour \in Nat
  BY DEF RentalTypeOK
<1>3. BeginsInv'
  BY <1>1 DEF RemindersInv, BeginsInv, RentalIs
<1>4. ASSUME ~missed' PROVE (JobsInv /\ CountsInv /\ StartsInv /\ EndsInv)'
  <2>1. ~missed /\ ~again
    BY <1>4, Zenon DEF RunEndReminders, JobEnds
  <2>2. BeginsInv /\ JobsInv /\ CountsInv /\ StartsInv /\ EndsInv
    BY <2>1 DEF RemindersInv
  <2>3. hourly' = hourly \ {job}
    BY <1>1, <2>1
  <2>4. JobsInv'
    BY <1>1, <2>2, <2>3 DEF JobsInv
  <2>5. ASSUME rental # NoRental, NEW i \in LegsOfRental
        PROVE  /\ EndRunFor(i)' <=> halfHour + 2 >= rental.legs[i].end
               /\ EndRunFor(i) <=> halfHour + 2 > rental.legs[i].end
               /\ StartRunFor(i)' <=> StartRunFor(i)
    <3>1. rental.legs[i].end \in Nat
      BY <2>5, LegFacts
    <3>2. "booking-leg-start-reminder" \in hourly' <=> "booking-leg-start-reminder" \in hourly
      BY <2>3
    <3> QED
      BY <1>1, <1>2, <2>3, <3>1, <3>2 DEF StartRunFor, EndRunFor, RunFor
  <2>6. ASSUME NEW i \in EndReminderLegs
        PROVE  /\ rental # NoRental /\ rental.status = "ACTIVE" /\ i \in LegsOfRental
               /\ rental.legs[i].end = halfHour + 2
    BY DEF EndReminderLegs, RentalIs, ReminderWindow
  <2>7. CountsInv'
    <3>1. ASSUME NEW i \in LegNumbers
          PROVE  /\ endsSent'[i] <= 1
                 /\ endsSent'[i] = 1 =>
                      RentalIs({"ACTIVE"}) /\ i \in LegsOfRental /\ EndRunFor(i)'
      <4>1. /\ endsSent[i] \in 0..2 /\ endsSent[i] <= 1
            /\ i \in EndReminderLegs => endsSent'[i] = endsSent[i] + 1
            /\ i \notin EndReminderLegs => endsSent'[i] = endsSent[i]
        BY <1>1, <2>2, SentTo DEF CountsInv, RentalTypeOK
      <4>2. CASE i \in EndReminderLegs
        <5>1. /\ rental # NoRental /\ i \in LegsOfRental
              /\ rental.legs[i].end = halfHour + 2 /\ RentalIs({"ACTIVE"})
          BY <2>6, <4>2 DEF RentalIs
        <5>2. ~EndRunFor(i) /\ EndRunFor(i)'
          BY <1>2, <2>5, <5>1
        <5>3. endsSent[i] # 1
          BY <2>2, <5>2 DEF CountsInv
        <5> QED
          BY <4>1, <4>2, <5>1, <5>2, <5>3
      <4>3. CASE i \notin EndReminderLegs
        <5>1. endsSent'[i] = endsSent[i] /\ endsSent[i] <= 1
          BY <4>1, <4>3
        <5>2. CASE endsSent[i] = 1
          <6>1. rental # NoRental /\ RentalIs({"ACTIVE"}) /\ i \in LegsOfRental /\ EndRunFor(i)
            BY <2>2, <5>2 DEF CountsInv, RentalIs
          <6>2. rental.legs[i].end \in Nat
            BY <6>1, LegFacts
          <6>3. EndRunFor(i)'
            BY <1>2, <2>5, <6>1, <6>2
          <6> QED
            BY <5>1, <6>1, <6>3
        <5> QED
          BY <5>1, <5>2
      <4> QED
        BY <4>2, <4>3
    <3>2. ASSUME NEW i \in LegNumbers
          PROVE  /\ startsSent[i] <= 1
                 /\ startsSent[i] = 1 =>
                      rental # NoRental /\ i \in LegsOfRental /\ StartRunFor(i)'
      BY <2>2, <2>5 DEF CountsInv
    <3> QED
      BY <1>1, <3>1, <3>2 DEF CountsInv, RentalIs, LegsOfRental
  <2>8. StartsInv'
    <3>1. rental # NoRental => 1 \in LegsOfRental
      BY LegFacts
    <3> QED
      BY <1>1, <2>2, <2>5, <3>1 DEF StartsInv, Underway, RentalIs
  <2>9. EndsInv'
    <3> SUFFICES ASSUME RentalIs({"ACTIVE"}), NEW i \in LegsOfRental,
                        OnTheHour(rental.legs[i].end), EndRunFor(i)'
                 PROVE  endsSent'[i] = 1
      BY <1>1 DEF EndsInv, RentalIs, LegsOfRental
    <3>1. rental # NoRental /\ i \in LegNumbers /\ rental.legs[i].end \in Nat
      BY LegFacts DEF RentalIs
    <3>2. halfHour + 2 >= rental.legs[i].end
      BY <2>5, <3>1
    <3>3. CASE EndRunFor(i)
      <4>1. endsSent[i] = 1
        BY <2>2, <3>3 DEF EndsInv
      <4>2. i \notin EndReminderLegs
        BY <1>2, <2>5, <2>6, <3>1, <3>3
      <4> QED
        BY <1>1, <3>1, <4>1, <4>2, SentTo DEF RentalTypeOK
    <3>4. CASE ~EndRunFor(i)
      <4>1. halfHour + 2 = rental.legs[i].end
        BY <1>2, <2>5, <3>1, <3>2, <3>4
      <4>2. i \in EndReminderLegs
        BY <4>1 DEF EndReminderLegs, ReminderWindow
      <4>3. endsSent[i] # 1 /\ endsSent[i] <= 1
        BY <2>2, <3>1, <3>4 DEF CountsInv
      <4>4. endsSent[i] \in 0..2 /\ endsSent'[i] = endsSent[i] + 1
        BY <1>1, <3>1, <4>2, SentTo DEF RentalTypeOK
      <4> QED
        BY <4>3, <4>4
    <3> QED
      BY <3>3, <3>4
  <2> QED
    BY <2>4, <2>7, <2>8, <2>9
<1> QED
  BY <1>3, <1>4 DEF RemindersInv

\* Only the first leg begins on the day the period begins: the trip is started at its
\* start, when no end reminder is due for hours.
LEMMA StartedOnTime ==
    ASSUME RentalTypeOK, RentalTiled, NEW booked, StartingLegs(booked) # {},
           DayOf(halfHour) = DayOf(rental.period.start)
    PROVE  halfHour = rental.period.start
<1> PICK i : i \in StartingLegs(booked)
  OBVIOUS
<1>1. rental # NoRental /\ i \in LegsOfRental /\ rental.legs[i].start = halfHour
  BY DEF StartingLegs, RentalIs, MinuteWindow
<1> PICK start : start = rental.period.start
  OBVIOUS
<1>2. start \in Nat /\ i \in 1..3 /\ halfHour = start + (i - 1) * 48
  BY <1>1, LegFacts DEF LegNumbers, MaxLegs
<1>3. halfHour \in Nat
  BY DEF RentalTypeOK
<1>4. halfHour \div 48 = start \div 48
  BY DEF DayOf, HalfHoursPerDay
<1> QED
  BY <1>2, <1>3, <1>4, SMT

LEMMA RemindersActivations ==
    ASSUME RentalTypeOK, RentalTiled, RemindersInv, NEW booked \in BOOLEAN,
           RunActivations(booked)
    PROVE  RemindersInv'
<1> DEFINE job == "confirmed-to-active"
           starts == StartingLegs(booked) # {} /\ DayOf(halfHour) = DayOf(rental.period.start)
<1>1. /\ rental' = IF starts THEN [rental EXCEPT !.status = "ACTIVE"] ELSE rental
      /\ hourly' = hourly \ {job}
      /\ UNCHANGED <<halfHour, startsSent, endsSent, paidInTime>>
  BY DEF RunActivations, JobEnds
<1>2. missed => missed'
  BY Zenon DEF RunActivations, JobEnds
<1>3. /\ "booking-leg-start-reminder" \in hourly' <=> "booking-leg-start-reminder" \in hourly
      /\ "booking-leg-end-reminder" \in hourly' <=> "booking-leg-end-reminder" \in hourly
      /\ hourly = {} => hourly' = {}
  BY <1>1
<1>4. CASE ~starts
  <2>1. rental' = rental
    BY <1>1, <1>4
  <2>2. BeginsInv'
    BY <1>1, <2>1 DEF RemindersInv, BeginsInv, RentalIs
  <2>3. ASSUME ~missed' PROVE (JobsInv /\ CountsInv /\ StartsInv /\ EndsInv)'
    <3>1. JobsInv /\ CountsInv /\ StartsInv /\ EndsInv
      BY <1>2, <2>3 DEF RemindersInv
    <3>2. JobsInv'
      BY <1>1, <1>3, <3>1 DEF JobsInv
    <3>3. \A i : (StartRunFor(i)' <=> StartRunFor(i)) /\ (EndRunFor(i)' <=> EndRunFor(i))
      BY <1>1, <1>3, <2>1 DEF StartRunFor, EndRunFor, RunFor
    <3> QED
      BY <1>1, <2>1, <3>1, <3>2, <3>3 DEF CountsInv, StartsInv, EndsInv, Underway, RentalIs,
         LegsOfRental
  <2> QED
    BY <2>2, <2>3 DEF RemindersInv
<1>5. CASE starts
  <2>1. /\ rental \in Rentals /\ rental # NoRental
        /\ rental.status \in {"CONFIRMED", "ACTIVE"}
    BY <1>5 DEF StartingLegs, RentalIs, RentalTypeOK
  <2>2. /\ rental' # NoRental /\ rental'.status = "ACTIVE"
        /\ rental'.period = rental.period /\ rental'.legs = rental.legs
    <3>1. rental' = [rental EXCEPT !.status = "ACTIVE"]
      BY <1>1, <1>5
    <3> QED
      BY <2>1, <3>1, NoRentalAssumption DEF Rentals
  <2>3. halfHour = rental.period.start /\ halfHour \in Nat
    BY <1>5, StartedOnTime DEF RentalTypeOK
  <2>4. BeginsInv'
    BY <1>1, <2>2, <2>3 DEF BeginsInv, RentalIs
  <2>5. ASSUME ~missed' PROVE (JobsInv /\ CountsInv /\ StartsInv /\ EndsInv)'
    <3>1. JobsInv /\ CountsInv /\ StartsInv /\ EndsInv
      BY <1>2, <2>5 DEF RemindersInv
    <3>2. JobsInv'
      BY <1>1, <1>3, <3>1 DEF JobsInv
    <3>3. \A i : (StartRunFor(i)' <=> StartRunFor(i)) /\ (EndRunFor(i)' <=> EndRunFor(i))
      BY <1>1, <1>3, <2>2 DEF StartRunFor, EndRunFor, RunFor
    <3>4. LegsOfRental' = LegsOfRental /\ RentalIs({"ACTIVE"})'
      BY <2>2 DEF LegsOfRental, RentalIs
    <3>5. CountsInv'
      BY <1>1, <2>2, <3>1, <3>3, <3>4 DEF CountsInv
    <3>6. StartsInv'
      BY <1>1, <2>1, <2>2, <3>1, <3>3 DEF StartsInv, Underway, RentalIs
    <3>7. ASSUME NEW i \in LegsOfRental PROVE ~EndRunFor(i)
      <4> PICK end : end = rental.legs[i].end
        OBVIOUS
      <4>1. end \in Nat /\ end >= halfHour + 12
        BY <2>1, <2>3, LegFacts
      <4>2. ~(halfHour + 2 > end) /\ halfHour + 2 # end
        BY <2>3, <4>1
      <4> QED
        BY <4>2 DEF EndRunFor, RunFor
    <3>8. EndsInv'
      BY <3>3, <3>4, <3>7 DEF EndsInv
    <3> QED
      BY <3>2, <3>5, <3>6, <3>8
  <2> QED
    BY <2>4, <2>5 DEF RemindersInv
<1> QED
  BY <1>4, <1>5

LEMMA RemindersFails ==
    ASSUME RemindersInv, NEW name \in HourlyJobs, HourlyJobFails(name)
    PROVE  RemindersInv'
<1>1. missed' /\ UNCHANGED <<halfHour, rental, paidInTime>>
  BY DEF HourlyJobFails
<1> QED
  BY <1>1 DEF RemindersInv, BeginsInv, RentalIs

LEMMA RemindersStep ==
    ASSUME RentalTypeOK, RentalTiled, RemindersInv, [RentalNext]_rentalVars
    PROVE  RemindersInv'
<1>1. CASE UNCHANGED rentalVars
  BY <1>1, RemindersFrame
<1>2. ASSUME NEW req \in BookingRequests, CreateRental(req) PROVE RemindersInv'
  BY <1>2, RemindersCreate
<1>3. CASE PayRental
  BY <1>3, RemindersPay
<1>4. CASE GiveChauffeur
  BY <1>4, RemindersChauffeur
<1>5. CASE CancelRental
  BY <1>5, RemindersCancel
<1>6. ASSUME NEW again \in BOOLEAN, RunStartReminders(again) PROVE RemindersInv'
  BY <1>6, RemindersStarts
<1>7. ASSUME NEW again \in BOOLEAN, RunEndReminders(again) PROVE RemindersInv'
  BY <1>7, RemindersEnds
<1>8. ASSUME NEW booked \in BOOLEAN, RunActivations(booked) PROVE RemindersInv'
  BY <1>8, RemindersActivations
<1>9. ASSUME NEW name \in HourlyJobs, HourlyJobFails(name) PROVE RemindersInv'
  BY <1>9, RemindersFails
<1>10. ASSUME NEW up \in BOOLEAN, TickHalfHour(up) PROVE RemindersInv'
  BY <1>10, RemindersTick
<1> QED
  BY <1>1, <1>2, <1>3, <1>4, <1>5, <1>6, <1>7, <1>8, <1>9, <1>10 DEF RentalNext

\* The inductive invariant behind the reminders.
THEOREM RemindersInvariant == RentalSpec => []RemindersInv
<1>1. RentalInit => RemindersInv
  <2> SUFFICES ASSUME RentalInit PROVE RemindersInv
    OBVIOUS
  <2>1. /\ rental = NoRental /\ hourly = {} /\ paidInTime = FALSE
        /\ \A i \in LegNumbers : startsSent[i] = 0 /\ endsSent[i] = 0
    BY DEF RentalInit
  <2> QED
    BY <2>1 DEF RemindersInv, BeginsInv, JobsInv, CountsInv, StartsInv, EndsInv, Underway,
       RentalIs
<1>2. RentalTypeOK /\ RentalTiled /\ RemindersInv /\ [RentalNext]_rentalVars => RemindersInv'
  BY RemindersStep
<1> QED
  BY <1>1, <1>2, RentalTyped, PTL DEF RentalSpec

\* As long as cron and the jobs keep their hours, nobody is reminded twice, whoever paid
\* in time is reminded of the first leg, and every trip that was started of its ends.
THEOREM RemindersAlwaysKeepTime == RentalSpec => []RemindersKeepTime
<1>1. ASSUME RentalTypeOK, RentalTiled, RemindersInv PROVE RemindersKeepTime
  <2>1. halfHour \in Nat
    BY <1>1 DEF RentalTypeOK
  <2>2. Underway /\ paidInTime /\ OnTime(rental.period.start) => startsSent[1] = 1
    <3> SUFFICES ASSUME Underway, paidInTime, OnTime(rental.period.start)
                 PROVE  startsSent[1] = 1
      OBVIOUS
    <3>1. /\ rental # NoRental /\ ~missed /\ halfHour >= rental.period.start
          /\ OnTheHour(rental.period.start)
      BY DEF Underway, RentalIs, OnTime
    <3>2. rental.period.start \in Nat /\ rental.legs[1].start = rental.period.start
      BY <1>1, <3>1, LegFacts
    <3>3. StartRunFor(1)
      BY <2>1, <3>1, <3>2 DEF StartRunFor, RunFor
    <3> QED
      BY <1>1, <3>1, <3>3 DEF RemindersInv, StartsInv
  <2>3. ASSUME RentalIs({"ACTIVE"}), NEW i \in LegsOfRental, OnTime(rental.legs[i].end)
        PROVE  endsSent[i] = 1
    <3>1. /\ rental # NoRental /\ ~missed /\ halfHour >= rental.legs[i].end
          /\ OnTheHour(rental.legs[i].end)
      BY <2>3 DEF RentalIs, OnTime
    <3>2. rental.legs[i].end \in Nat
      BY <1>1, <3>1, LegFacts
    <3>3. EndRunFor(i)
      BY <2>1, <3>1, <3>2 DEF EndRunFor, RunFor
    <3> QED
      BY <1>1, <2>3, <3>1, <3>3 DEF RemindersInv, EndsInv
  <2>4. ~missed => \A i \in LegNumbers : startsSent[i] <= 1 /\ endsSent[i] <= 1
    BY <1>1 DEF RemindersInv, CountsInv
  <2> QED
    BY <2>2, <2>3, <2>4 DEF RemindersKeepTime
<1> QED
  BY <1>1, RentalTyped, RemindersInvariant, PTL

-----------------------------------------------------------------------------
(* Messages.                                                                *)

\* The messages a handler still has to send: two at the most.
Brief(S) == {todo \in Seq(S) : Len(todo) <= 2}

LEMMA BriefLists ==
    ASSUME NEW S
    PROVE  /\ <<>> \in Brief(S)
           /\ \A a \in S : /\ <<a>> \in Brief(S) /\ <<a>> # <<>>
                           /\ <<a>> \o <<>> \in Brief(S) /\ <<a>> \o <<>> # <<>>
                           /\ <<>> \o <<a>> \in Brief(S)
           /\ \A a, b \in S : <<a>> \o <<b>> \in Brief(S) /\ <<a>> \o <<b>> # <<>>
           /\ <<>> \o <<>> \in Brief(S)
<1>1. <<>> \in Seq(S) /\ Len(<<>>) = 0 /\ Len(<<>>) <= 1
  BY EmptySeq
<1>2. ASSUME NEW a \in S
      PROVE  <<a>> \in Seq(S) /\ Len(<<a>>) = 1 /\ Len(<<a>>) <= 1 /\ <<a>> # <<>>
  OBVIOUS
<1>3. ASSUME NEW s \in Seq(S), NEW t \in Seq(S), Len(s) <= 1, Len(t) <= 1
      PROVE  s \o t \in Brief(S) /\ (s # <<>> => s \o t # <<>>)
  <2>1. Len(s) \in Nat /\ Len(t) \in Nat /\ s \o t \in Seq(S) /\ Len(s \o t) = Len(s) + Len(t)
    BY ConcatProperties, LenProperties
  <2>2. s # <<>> => Len(s) # 0
    BY EmptySeq
  <2>3. s \o t = <<>> => Len(s \o t) = 0
    BY EmptySeq
  <2> QED
    BY <1>3, <2>1, <2>2, <2>3 DEF Brief
<1>4. <<>> \in Brief(S)
  BY <1>1 DEF Brief
<1>5. \A a \in S : <<a>> \in Brief(S) /\ <<a>> # <<>>
  BY <1>2 DEF Brief
<1>6. \A a \in S : /\ <<a>> \o <<>> \in Brief(S) /\ <<a>> \o <<>> # <<>>
                   /\ <<>> \o <<a>> \in Brief(S)
  <2> TAKE a \in S
  <2> PICK one, none : one = <<a>> /\ none = <<>>
    OBVIOUS
  <2>1. one \in Seq(S) /\ Len(one) <= 1 /\ one # <<>> /\ none \in Seq(S) /\ Len(none) <= 1
    BY <1>1, <1>2
  <2>2. one \o none \in Brief(S) /\ one \o none # <<>> /\ none \o one \in Brief(S)
    BY <1>3, <2>1
  <2> QED
    BY <2>2
<1>7. \A a, b \in S : <<a>> \o <<b>> \in Brief(S) /\ <<a>> \o <<b>> # <<>>
  <2> TAKE a, b \in S
  <2> PICK one, other : one = <<a>> /\ other = <<b>>
    OBVIOUS
  <2>1. /\ one \in Seq(S) /\ Len(one) <= 1 /\ one # <<>>
        /\ other \in Seq(S) /\ Len(other) <= 1
    BY <1>2
  <2>2. one \o other \in Brief(S) /\ one \o other # <<>>
    BY <1>3, <2>1
  <2> QED
    BY <2>2
<1>8. <<>> \o <<>> \in Brief(S)
  <2> PICK none : none = <<>>
    OBVIOUS
  <2>1. none \in Seq(S) /\ Len(none) <= 1
    BY <1>1
  <2>2. none \o none \in Brief(S)
    BY <1>3, <2>1
  <2> QED
    BY <2>2
<1> QED
  BY <1>4, <1>5, <1>6, <1>7, <1>8

LEMMA BriefTail ==
    ASSUME NEW S, NEW todo \in Brief(S), todo # <<>>
    PROVE  Head(todo) \in S /\ Tail(todo) \in Brief(S)
<1>1. todo \in Seq(S) /\ Len(todo) <= 2 /\ Len(todo) \in Nat
  BY LenProperties DEF Brief
<1>2. Head(todo) \in S /\ Tail(todo) \in Seq(S) /\ Len(Tail(todo)) = Len(todo) - 1
  BY <1>1, HeadTailProperties
<1> QED
  BY <1>1, <1>2 DEF Brief

LEMMA BriefGrows ==
    ASSUME NEW S, NEW T, S \subseteq T, NEW todo \in Seq(S)
    PROVE  todo \in Seq(T)
<1>1. Len(todo) \in Nat /\ todo \in [1..Len(todo) -> S]
  BY LenProperties
<1>2. todo \in [1..Len(todo) -> T]
  BY <1>1
<1> QED
  BY <1>1, <1>2 DEF Seq

\* Every blank of the templates is filled, but for the reminders of an end.
LEMMA MessagesFilled ==
    /\ \A to \in People, status \in Words :
         /\ BookingStatusUpdate(to, status) \in Messages
         /\ BookingStatusUpdate(to, status).to = to
         /\ BookingStatusUpdate(to, status).says = status
         /\ BookingStatusUpdate(to, status).blanks = {}
    /\ /\ FleetOwnerBookingAlert \in Messages
       /\ FleetOwnerBookingAlert.says = "BookingAlert"
       /\ FleetOwnerBookingAlert.blanks = {}
    /\ \A to \in People : /\ LegStartReminder(to) \in Messages
                          /\ LegStartReminder(to).says = "StartReminder"
                          /\ LegStartReminder(to).blanks = {}
    /\ \A to \in {"customer", "chauffeur"} : /\ LegEndReminder(to) \in Messages
                                             /\ LegEndReminder(to).says = "EndReminder"
    /\ /\ OtpNotification \in Messages
       /\ OtpNotification.to = "customer" /\ OtpNotification.says = "Otp"
       /\ OtpNotification.blanks = {}
<1>1. \A to : DetermineChannel(to) \in SUBSET {"EMAIL", "SMS"}
  BY DEF DetermineChannel
<1>2. \A to, says, blanks :
        to \in People /\ says \in Words /\ blanks \in SUBSET Blanks =>
          Message(to, DetermineChannel(to), says, blanks) \in Messages
  BY <1>1 DEF Message, Messages
<1>3. ASSUME NEW to \in People, NEW status \in Words
      PROVE  /\ BookingStatusUpdate(to, status) \in Messages
             /\ BookingStatusUpdate(to, status).to = to
             /\ BookingStatusUpdate(to, status).says = status
             /\ BookingStatusUpdate(to, status).blanks = {}
  <2>1. Interpolate(StatusUpdateTemplate,
                    {"customerName", "carName", "status", "startDate", "endDate",
                     "pickupLocation", "returnLocation", "bookingReference"}) = {}
    BY DEF Interpolate, StatusUpdateTemplate
  <2>2. BookingStatusUpdate(to, status) = Message(to, DetermineChannel(to), status, {})
    BY <2>1 DEF BookingStatusUpdate
  <2> QED
    BY <1>2, <2>2 DEF Message
<1>4. /\ FleetOwnerBookingAlert \in Messages
      /\ FleetOwnerBookingAlert.says = "BookingAlert"
      /\ FleetOwnerBookingAlert.blanks = {}
  <2>1. Interpolate(OwnerAlertTemplate,
                    {"fleetOwnerName", "customerName", "carName", "startDate", "endDate",
                     "pickupLocation", "returnLocation", "bookingReference"}) = {}
    BY DEF Interpolate, OwnerAlertTemplate
  <2>2. FleetOwnerBookingAlert = Message("owner", DetermineChannel("owner"), "BookingAlert", {})
    BY <2>1 DEF FleetOwnerBookingAlert
  <2>3. "owner" \in People /\ "BookingAlert" \in Words
    BY DEF People, Words
  <2> QED
    BY <1>2, <2>2, <2>3 DEF Message
<1>5. ASSUME NEW to \in People
      PROVE  /\ LegStartReminder(to) \in Messages
             /\ LegStartReminder(to).says = "StartReminder"
             /\ LegStartReminder(to).blanks = {}
  <2>1. Interpolate(StartReminderTemplate(to), LegVariables) = {}
    BY DEF Interpolate, StartReminderTemplate, LegVariables
  <2>2. LegStartReminder(to) = Message(to, DetermineChannel(to), "StartReminder", {})
    BY <2>1 DEF LegStartReminder
  <2>3. "StartReminder" \in Words
    BY DEF Words
  <2> QED
    BY <1>2, <2>2, <2>3 DEF Message
<1>6. ASSUME NEW to \in {"customer", "chauffeur"}
      PROVE  LegEndReminder(to) \in Messages /\ LegEndReminder(to).says = "EndReminder"
  <2> DEFINE blanks == Interpolate(EndReminderTemplate(to), LegVariables \cup {"bookingReference"})
  <2>1. blanks \subseteq Blanks
    BY DEF Interpolate, Blanks
  <2>2. LegEndReminder(to) = Message(to, DetermineChannel(to), "EndReminder", blanks)
    BY DEF LegEndReminder
  <2>3. "EndReminder" \in Words /\ to \in People
    BY DEF Words, People
  <2> HIDE DEF blanks
  <2> QED
    BY <1>2, <2>1, <2>2, <2>3 DEF Message
<1>7. /\ OtpNotification \in Messages
      /\ OtpNotification.to = "customer" /\ OtpNotification.says = "Otp"
      /\ OtpNotification.blanks = {}
  <2>1. Interpolate(OtpTemplate, {"email", "otpCode", "otpType", "expiresAt"}) = {}
    BY DEF Interpolate, OtpTemplate
  <2>2. "customer" \in People /\ "Otp" \in Words
    BY DEF People, Words
  <2> QED
    BY <2>1, <2>2 DEF OtpNotification, Message, Messages
<1> QED
  BY <1>3, <1>4, <1>5, <1>6, <1>7

\* What is sent on an event that is current is true.
LEMMA OrchestratedIsTrue ==
    ASSUME trip \in TripStatuses, NEW event \in Current, NEW found
    PROVE  Orchestrated(event, found) \in Brief(Sayable)
<1>1. CASE event \in OtherEvents
  <2>1. Orchestrated(event, found) = <<>>
    BY <1>1 DEF OtherEvents, Orchestrated, UnassignmentNotifications,
       PayoutCompletionNotifications, PayoutFailureNotifications, OtpGeneratedNotifications,
       RegistrationNotifications, ChauffeurAddedNotifications, OwnerApprovalNotifications
  <2> QED
    BY <2>1, BriefLists
<1>2. CASE event = "BookingPaymentConfirmed"
  <2>1. trip # "PENDING" /\ cancellation # "alone"
    BY <1>2 DEF Current, OtherEvents
  <2>2. /\ BookingStatusUpdate("customer", "CONFIRMED") \in Sayable
        /\ FleetOwnerBookingAlert \in Sayable
    <3>1. "customer" \in People /\ "CONFIRMED" \in Words
      BY DEF People, Words, TripStatuses
    <3> QED
      BY <2>1, <3>1, MessagesFilled DEF Sayable
  <2>3. Orchestrated(event, found) = PaymentConfirmationNotifications(found)
    BY <1>2 DEF Orchestrated
  <2> QED
    BY <2>2, <2>3, BriefLists DEF PaymentConfirmationNotifications
<1>3. CASE event = "BookingCancelled"
  <2>1. trip # "PENDING" /\ cancellation # "none"
    BY <1>3 DEF Current, OtherEvents
  <2>2. BookingStatusUpdate("customer", "CANCELLED") \in Sayable
    <3>1. "customer" \in People /\ "CANCELLED" \in Words
      BY DEF People, Words, TripStatuses
    <3> QED
      BY <2>1, <3>1, MessagesFilled DEF Sayable
  <2>3. Orchestrated(event, found) = CancellationNotifications(found)
    BY <1>3 DEF Orchestrated
  <2> QED
    BY <2>2, <2>3, BriefLists DEF CancellationNotifications
<1>4. CASE event = "BookingChauffeurAssigned"
  <2>1. trip # "PENDING" /\ cancellation # "alone"
    BY <1>4 DEF Current, OtherEvents
  <2>2. BookingStatusUpdate("chauffeur", "ASSIGNED") \in Sayable
    <3>1. "chauffeur" \in People /\ "ASSIGNED" \in Words
      BY DEF People, Words
    <3> QED
      BY <2>1, <3>1, MessagesFilled DEF Sayable
  <2>3. Orchestrated(event, found) = AssignmentNotifications(found)
    BY <1>4 DEF Orchestrated
  <2> QED
    BY <2>2, <2>3, BriefLists DEF AssignmentNotifications
<1> QED
  BY <1>1, <1>2, <1>3, <1>4 DEF Current, LookupEvents

-----------------------------------------------------------------------------
(* The handlers.                                                            *)

\* A handler whose progress is as it should be, when the booking is as it is.
Sound(progress) ==
    /\ progress \in Progress
    /\ progress.todo \in Brief(Sayable)
    /\ progress.step = "send" <=> progress.todo # <<>>
    /\ progress.step \in {"confirm", "save"} => progress.event = "BookingPaymentConfirmed"
    /\ progress.step = "cancel" => progress.event = "BookingCancelled"
    /\ progress.step \in {"save", "cancel"} => cancellation # "alone"
    /\ progress.step = "lookup" => progress.event \in Current

HandlersTyped ==
    /\ handler \in [Handlers -> Progress]
    /\ \A h \in Handlers : Len(handler[h].todo) <= 2

LEMMA SoundHandlers ==
    HandlersTyped /\ HandlersInv <=>
      handler \in [Handlers -> Progress] /\ \A h \in Handlers : Sound(handler[h])
  BY DEF HandlersTyped, HandlersInv, Sound, Brief

LEMMA SoundHandlersNext ==
    (HandlersTyped /\ HandlersInv)' <=>
      (handler \in [Handlers -> Progress] /\ \A h \in Handlers : Sound(handler[h]))'
  BY SoundHandlers, PTL

LEMMA RestingIsSound == Sound(Resting)
<1>1. Resting \in Progress
  BY EmptySeq DEF Resting, Progress
<1> QED
  BY <1>1, BriefLists DEF Sound, Resting

LEMMA RestingStaysSound == Sound(Resting)'
<1>1. Resting \in Progress
  BY EmptySeq DEF Resting, Progress
<1> QED
  BY <1>1, BriefLists DEF Sound, Resting

\* What was true stays true as the booking goes on, unless it is cancelled with nothing
\* else under way.
TruthStays ==
    /\ Sayable \subseteq Sayable' /\ Current \subseteq Current'
    /\ cancellation' = "alone" => cancellation = "alone"

LEMMA SoundStays ==
    ASSUME TruthStays, NEW progress, Sound(progress)
    PROVE  Sound(progress)'
<1>1. progress.todo \in Seq(Sayable')
  BY BriefGrows DEF Sound, Brief, TruthStays
<1>2. progress.todo \in Brief(Sayable')
  BY <1>1 DEF Sound, Brief
<1> QED
  BY <1>2 DEF Sound, TruthStays

LEMMA UnchangedTruth ==
    ASSUME trip' = trip, cancellation' = cancellation
    PROVE  TruthStays
  BY DEF TruthStays, Sayable, Current

\* One handler goes on.
LEMMA OneHandler ==
    ASSUME HandlersTyped, HandlersInv, TruthStays, NEW h \in Handlers, NEW progress,
           Sound(progress)', handler' = [handler EXCEPT ![h] = progress]
    PROVE  (HandlersTyped /\ HandlersInv)'
<1>1. handler \in [Handlers -> Progress] /\ \A g \in Handlers : Sound(handler[g])
  BY SoundHandlers
<1>2. progress \in Progress
  BY DEF Sound
<1>3. handler' \in [Handlers -> Progress]
  BY <1>1, <1>2
<1>4. ASSUME NEW g \in Handlers PROVE Sound(handler[g])'
  <2> PICK now : now = handler'[g]
    OBVIOUS
  <2>1. now = progress \/ now = handler[g]
    BY <1>1
  <2>2. Sound(now)'
    BY <1>1, <2>1, SoundStays
  <2> QED
    BY <2>2
<1> QED
  BY <1>3, <1>4, SoundHandlersNext

LEMMA Starts ==
    ASSUME HandlersTyped, HandlersInv, TruthStays, NEW h \in Handlers,
           NEW event, NEW step, NEW todo, StartHandler(h, event, step, todo),
           Sound([event |-> event, step |-> step, todo |-> todo])'
    PROVE  (HandlersTyped /\ HandlersInv)'
<1> PICK progress : progress = [event |-> event, step |-> step, todo |-> todo]
  OBVIOUS
<1>1. handler' = [handler EXCEPT ![h] = progress]
  BY DEF StartHandler
<1> QED
  BY <1>1, OneHandler

LEMMA Rests ==
    ASSUME HandlersTyped, HandlersInv, TruthStays, NEW h \in Handlers,
           handler' = [handler EXCEPT ![h] = Resting]
    PROVE  (HandlersTyped /\ HandlersInv)'
<1> PICK progress : progress = Resting
  OBVIOUS
<1>1. Sound(progress)' 
  BY RestingStaysSound
<1> QED
  BY <1>1, OneHandler

LEMMA Sends ==
    ASSUME HandlersTyped, HandlersInv, trip' = trip, cancellation' = cancellation,
           NEW h \in Handlers, NEW todo \in Brief(Sayable), Sending(h, todo)
    PROVE  (HandlersTyped /\ HandlersInv)'
<1>1. TruthStays
  BY UnchangedTruth
<1>2. CASE todo = <<>>
  <2>1. handler' = [handler EXCEPT ![h] = Resting]
    BY <1>2 DEF Sending
  <2> QED
    BY <1>1, <2>1, Rests
<1>3. CASE todo # <<>>
  <2> DEFINE progress == [event |-> handler[h].event, step |-> "send", todo |-> todo]
  <2>1. handler' = [handler EXCEPT ![h] = progress]
    BY <1>3 DEF Sending
  <2>2. Sound(progress)
    <3>1. handler[h].event \in LookupEvents \cup {"BookingLegStarted", "BookingLegStartReminder",
                                                  "BookingLegEndReminder", "otp", Nothing}
      BY DEF HandlersTyped, Progress
    <3>2. Sayable \subseteq Messages
      BY DEF Sayable
    <3>3. todo \in Seq(Messages)
      BY <3>2, BriefGrows DEF Brief
    <3> QED
      BY <1>3, <3>1, <3>3 DEF Sound, Progress
  <2> PICK now : now = progress
    OBVIOUS
  <2>3. Sound(now)'
    BY <1>1, <2>2, SoundStays
  <2> QED
    BY <1>1, <2>1, <2>3, OneHandler
<1> QED
  BY <1>2, <1>3

\* The pending job's list.
CarriedRight == carried \in [Handlers -> Messages \cup {Nothing}] /\ CarriedInv

LEMMA CarriedStays ==
    ASSUME CarriedRight, TruthStays, carried' = carried
    PROVE  CarriedRight'
  BY DEF CarriedRight, CarriedInv, TruthStays

LEMMA EmptyListIsRight == carried = EmptyList => CarriedRight
  BY DEF EmptyList, CarriedRight, CarriedInv

LEMMA EmptyListIsRightNext == carried' = EmptyList => CarriedRight'
  BY DEF EmptyList, CarriedRight, CarriedInv

\* Messages that may wait have no blanks.
Unblanked == \A h \in Handlers : \A i \in 1..Len(handler[h].todo) :
    handler[h].todo[i].blanks = {} \/ handler[h].todo[i].says = "EndReminder"

LEMMA BlanksFilled == HandlersInv => Unblanked
<1> SUFFICES ASSUME HandlersInv, NEW h \in Handlers, NEW i \in 1..Len(handler[h].todo)
             PROVE  handler[h].todo[i].blanks = {} \/ handler[h].todo[i].says = "EndReminder"
  BY DEF Unblanked
<1> PICK todo : todo = handler[h].todo
  OBVIOUS
<1>1. todo \in Seq(Sayable)
  BY DEF HandlersInv
<1>2. todo[i] \in Sayable
  BY <1>1, ElementOfSeq
<1> QED
  BY <1>2 DEF Sayable

LEMMA BlanksFilledNext == HandlersInv' => Unblanked'
  BY BlanksFilled, PTL

\* The rest of the state, while nobody is told anything.
TellingKept ==
    /\ phones' = phones /\ heard' = heard /\ lastWord' = lastWord /\ cancelTold' = cancelTold
    /\ trip' \in TripStatuses /\ chauffeured' \in BOOLEAN
    /\ \/ trip' = trip /\ cancellation' = cancellation
       \/ /\ trip' \notin {"PENDING", "CANCELLED"}
          /\ cancellation' = cancellation /\ cancellation # "alone"
       \/ /\ trip' = "CANCELLED" /\ cancellation' \in {"alone", "crossed"}
          /\ cancellation' = "alone" => cancellation = "none"

LEMMA NobodyTold ==
    ASSUME OrchestrationTypeOK, OrchestrationInv, TellingKept,
           (HandlersTyped /\ HandlersInv)', CarriedRight'
    PROVE  OrchestrationTypeOK' /\ OrchestrationInv'
<1>1. cancellation' \in {"none", "alone", "crossed"}
  BY DEF OrchestrationTypeOK, TellingKept
<1>2. OrchestrationTypeOK'
  BY <1>1 DEF OrchestrationTypeOK, TellingKept, HandlersTyped, CarriedRight
<1>3. /\ cancellation = "alone" => trip = "CANCELLED"
      /\ trip = "CANCELLED" => cancellation # "none"
      /\ lastWord = "CANCELLED" => cancellation # "none"
      /\ trip = "PENDING" => lastWord = Nothing /\ heard = {}
      /\ cancelTold => cancellation # "none"
      /\ cancelTold /\ cancellation = "alone" => trip = "CANCELLED" /\ lastWord = "CANCELLED"
  BY DEF OrchestrationInv, ToldTruly
<1>4. (/\ cancellation = "alone" => trip = "CANCELLED"
       /\ trip = "CANCELLED" => cancellation # "none"
       /\ lastWord = "CANCELLED" => cancellation # "none")'
  BY <1>3 DEF TellingKept
<1>5. ToldTruly'
  <2>1. Unblanked'
    BY BlanksFilledNext
  <2> QED
    BY <1>3, <2>1 DEF TellingKept, ToldTruly, Unblanked
<1> QED
  BY <1>2, <1>4, <1>5 DEF OrchestrationInv, CarriedRight

\* An event that leaves the booking alone starts a handler.
LEMMA HandlerStarts ==
    ASSUME OrchestrationTypeOK, OrchestrationInv, NEW h \in Handlers,
           NEW event, NEW step, NEW todo, StartHandler(h, event, step, todo),
           Sound([event |-> event, step |-> step, todo |-> todo]),
           UNCHANGED <<trip, chauffeured, phones, carried, heard, lastWord, cancelTold,
                       cancellation>>
    PROVE  OrchestrationTypeOK' /\ OrchestrationInv'
<1>1. TellingKept /\ TruthStays /\ CarriedRight'
  <2>1. TellingKept /\ TruthStays
    BY UnchangedTruth DEF TellingKept, OrchestrationTypeOK
  <2> QED
    BY <2>1, CarriedStays DEF OrchestrationTypeOK, OrchestrationInv, CarriedRight
<1> PICK progress : progress = [event |-> event, step |-> step, todo |-> todo]
  OBVIOUS
<1>2. Sound(progress)'
  BY <1>1, SoundStays
<1>3. (HandlersTyped /\ HandlersInv)'
  BY <1>1, <1>2, Starts DEF OrchestrationTypeOK, OrchestrationInv, HandlersTyped
<1> QED
  BY <1>1, <1>3, NobodyTold

\* A handler goes on to its next step, while the booking is read or written.
LEMMA StepsOn ==
    ASSUME OrchestrationTypeOK, OrchestrationInv, NEW h \in Handlers,
           NEW step \in {"save", "lookup"},
           handler' = [handler EXCEPT ![h].step = step], carried' = carried,
           handler[h].step # "send", TellingKept, TruthStays,
           step = "save" => handler[h].event = "BookingPaymentConfirmed"
                            /\ cancellation' # "alone",
           step = "lookup" => handler[h].event \in Current'
    PROVE  OrchestrationTypeOK' /\ OrchestrationInv'
<1>1. HandlersTyped /\ HandlersInv /\ CarriedRight
  BY DEF OrchestrationTypeOK, OrchestrationInv, HandlersTyped, CarriedRight
<1> PICK old : old = handler[h]
  OBVIOUS
<1> PICK progress : progress = [old EXCEPT !.step = step]
  OBVIOUS
<1>2. handler' = [handler EXCEPT ![h] = progress]
  BY <1>1 DEF HandlersTyped
<1>3. Sound(old)
  BY <1>1, SoundHandlers
<1>4. /\ progress \in Progress /\ progress.step = step
      /\ progress.event = old.event /\ progress.todo = old.todo
  BY <1>3 DEF Sound, Progress
<1>5. Sound(old)'
  BY <1>3, SoundStays
<1>6. Sound(progress)'
  BY <1>4, <1>5 DEF Sound
<1>7. (HandlersTyped /\ HandlersInv)'
  BY <1>1, <1>2, <1>6, OneHandler
<1>8. CarriedRight'
  BY <1>1, CarriedStays
<1> QED
  BY <1>7, <1>8, NobodyTold

LEMMA ConfirmStep ==
    ASSUME OrchestrationTypeOK, OrchestrationInv, NEW h \in Handlers, ConfirmTrip(h)
    PROVE  OrchestrationTypeOK' /\ OrchestrationInv'
<1>1. /\ HandlersTyped /\ HandlersInv /\ CarriedRight /\ handler[h].step = "confirm"
      /\ UNCHANGED <<trip, chauffeured, phones, carried, heard, lastWord, cancelTold,
                     cancellation>>
  BY DEF OrchestrationTypeOK, OrchestrationInv, HandlersTyped, CarriedRight, ConfirmTrip
<1>2. TellingKept /\ TruthStays
  BY <1>1, UnchangedTruth DEF TellingKept, OrchestrationTypeOK
<1>3. CASE trip = "PENDING"
  <2>1. handler' = [handler EXCEPT ![h].step = "save"]
    BY <1>1, <1>3 DEF ConfirmTrip, HandlersTyped
  <2>2. handler[h].event = "BookingPaymentConfirmed"
    BY <1>1 DEF HandlersInv
  <2>3. cancellation' # "alone"
    BY <1>1, <1>3 DEF OrchestrationInv
  <2> QED
    BY <1>1, <1>2, <2>1, <2>2, <2>3, StepsOn
<1>4. CASE trip # "PENDING"
  <2>1. handler' = [handler EXCEPT ![h] = Resting]
    BY <1>4 DEF ConfirmTrip
  <2> QED
    BY <1>1, <1>2, <2>1, Rests, CarriedStays, NobodyTold
<1> QED
  BY <1>3, <1>4

\* Whatever the booking has become, it is not one that was cancelled with nothing else
\* under way.
LEMMA SaveStep ==
    ASSUME OrchestrationTypeOK, OrchestrationInv, NEW h \in Handlers, SaveTrip(h)
    PROVE  OrchestrationTypeOK' /\ OrchestrationInv'
<1>1. /\ HandlersInv /\ handler[h].step = "save"
      /\ trip' = "CONFIRMED" /\ chauffeured' = FALSE
      /\ handler' = [handler EXCEPT ![h].step = "lookup"]
      /\ UNCHANGED <<phones, carried, heard, lastWord, cancelTold, cancellation>>
  BY DEF OrchestrationInv, SaveTrip
<1>2. cancellation # "alone" /\ handler[h].event = "BookingPaymentConfirmed"
  BY <1>1 DEF HandlersInv
<1>3. TruthStays
  BY <1>1, <1>2 DEF TruthStays, Sayable, Current
<1>4. TellingKept
  BY <1>1, <1>2 DEF TellingKept, TripStatuses
<1>5. "BookingPaymentConfirmed" \in Current'
  BY <1>1, <1>2 DEF Current, LookupEvents
<1> QED
  BY <1>1, <1>2, <1>3, <1>4, <1>5, StepsOn

LEMMA LookUpStep ==
    ASSUME OrchestrationTypeOK, OrchestrationInv, NEW h \in Handlers, NEW found,
           LookUp(h, found)
    PROVE  OrchestrationTypeOK' /\ OrchestrationInv'
<1>1. /\ HandlersTyped /\ HandlersInv /\ CarriedRight /\ trip \in TripStatuses
      /\ UNCHANGED <<trip, chauffeured, phones, carried, heard, lastWord, cancelTold,
                     cancellation>>
  BY DEF OrchestrationTypeOK, OrchestrationInv, HandlersTyped, CarriedRight, LookUp
<1> PICK event : event = handler[h].event
  OBVIOUS
<1> PICK todo : todo = Orchestrated(event, found)
  OBVIOUS
<1>2. event \in Current
  BY <1>1 DEF HandlersInv, LookUp
<1>3. todo \in Brief(Sayable)
  BY <1>1, <1>2, OrchestratedIsTrue
<1>4. Sending(h, todo)
  BY DEF LookUp
<1>5. (HandlersTyped /\ HandlersInv)'
  BY <1>1, <1>3, <1>4, Sends
<1>6. TellingKept /\ TruthStays
  BY <1>1, UnchangedTruth DEF TellingKept, OrchestrationTypeOK
<1> QED
  BY <1>1, <1>5, <1>6, CarriedStays, NobodyTold

LEMMA StopStep ==
    ASSUME OrchestrationTypeOK, OrchestrationInv, NEW h \in Handlers, HandlerStops(h)
    PROVE  OrchestrationTypeOK' /\ OrchestrationInv'
<1>1. /\ HandlersTyped /\ HandlersInv /\ CarriedRight
      /\ handler' = [handler EXCEPT ![h] = Resting]
      /\ UNCHANGED <<trip, chauffeured, phones, carried, heard, lastWord, cancelTold,
                     cancellation>>
  BY DEF OrchestrationTypeOK, OrchestrationInv, HandlersTyped, CarriedRight, HandlerStops
<1>2. TellingKept /\ TruthStays
  BY <1>1, UnchangedTruth DEF TellingKept, OrchestrationTypeOK
<1> QED
  BY <1>1, <1>2, Rests, CarriedStays, NobodyTold

LEMMA CancelStep ==
    ASSUME OrchestrationTypeOK, OrchestrationInv, NEW h \in Handlers, CancelTrip(h)
    PROVE  OrchestrationTypeOK' /\ OrchestrationInv'
<1>1. cancellation # "alone"
  BY DEF OrchestrationInv, CancelTrip
<1>2. Sound([event |-> "BookingCancelled", step |-> "cancel", todo |-> <<>>])
  BY <1>1, BriefLists, EmptySeq DEF Sound, Progress, LookupEvents
<1> QED
  BY <1>2, HandlerStarts DEF CancelTrip

\* A cancellation that crosses something leaves true what was; one with nothing else under
\* way finds nothing else to be said.
LEMMA SaveCancelledStep ==
    ASSUME OrchestrationTypeOK, OrchestrationInv, NEW h \in Handlers, SaveCancelled(h)
    PROVE  OrchestrationTypeOK' /\ OrchestrationInv'
<1>1. /\ HandlersTyped /\ HandlersInv /\ handler[h].step = "cancel"
      /\ trip' = "CANCELLED" /\ cancellation' = IF Alone(h) THEN "alone" ELSE "crossed"
      /\ handler' = [handler EXCEPT ![h].step = "lookup"]
      /\ UNCHANGED <<chauffeured, phones, carried, heard, lastWord, cancelTold>>
  BY DEF OrchestrationTypeOK, OrchestrationInv, HandlersTyped, SaveCancelled
<1>2. /\ handler[h].event = "BookingCancelled" /\ cancellation # "alone"
      /\ handler[h].todo = <<>>
  BY <1>1 DEF HandlersInv
<1>3. TellingKept
  BY <1>1 DEF TellingKept, TripStatuses, OrchestrationTypeOK, Alone
<1>4. "BookingCancelled" \in Current'
  BY <1>1 DEF Current, LookupEvents
<1>5. CASE ~Alone(h)
  <2>1. cancellation' = "crossed"
    BY <1>1, <1>5
  <2>2. TruthStays
    BY <1>1, <1>2, <2>1 DEF TruthStays, Sayable, Current
  <2> QED
    BY <1>1, <1>2, <1>3, <1>4, <2>2, StepsOn
<1>6. CASE Alone(h)
  <2> PICK progress : progress = [handler[h] EXCEPT !.step = "lookup"]
    OBVIOUS
  <2>1. handler' = [handler EXCEPT ![h] = progress] /\ handler[h] \in Progress
    BY <1>1 DEF HandlersTyped
  <2>2. /\ progress \in Progress /\ progress.step = "lookup"
        /\ progress.event = "BookingCancelled" /\ progress.todo = <<>>
    BY <1>2, <2>1 DEF Progress
  <2>3. <<>> \in Brief(Sayable')
    BY BriefLists
  <2>4. Sound(progress)'
    BY <1>4, <2>2, <2>3 DEF Sound
  <2>5. \A g \in Handlers : g # h => handler[g] = Resting
    BY <1>6 DEF Alone, Busy
  <2>6. ASSUME NEW g \in Handlers PROVE Sound(handler[g])'
    <3> PICK now : now = handler'[g]
      OBVIOUS
    <3>1. now = progress \/ now = Resting
      BY <1>1, <2>1, <2>5 DEF HandlersTyped
    <3>2. Sound(now)'
      <4>1. CASE now = progress
        BY <2>4, <4>1
      <4>2. CASE now = Resting
        BY <4>2, RestingStaysSound
      <4> QED
        BY <3>1, <4>1, <4>2
    <3> QED
      BY <3>2
  <2>7. handler' \in [Handlers -> Progress]
    BY <1>1, <2>1, <2>2 DEF HandlersTyped
  <2>8. (HandlersTyped /\ HandlersInv)'
    BY <2>6, <2>7, SoundHandlersNext
  <2>9. CarriedRight'
    BY <1>1, <1>6, EmptyListIsRightNext DEF Alone
  <2> QED
    BY <1>3, <2>8, <2>9, NobodyTold
<1> QED
  BY <1>5, <1>6

LEMMA WebhookStep ==
    ASSUME OrchestrationTypeOK, OrchestrationInv, NEW h \in Handlers, NEW call,
           FlutterwaveWebhook(h, call)
    PROVE  OrchestrationTypeOK' /\ OrchestrationInv'
<1>1. Sound([event |-> "BookingPaymentConfirmed", step |-> "confirm", todo |-> <<>>])
  BY BriefLists, EmptySeq DEF Sound, Progress, LookupEvents
<1> QED
  BY <1>1, HandlerStarts DEF FlutterwaveWebhook

LEMMA AssignStep ==
    ASSUME OrchestrationTypeOK, OrchestrationInv, NEW h \in Handlers, AssignTrip(h)
    PROVE  OrchestrationTypeOK' /\ OrchestrationInv'
<1>1. "BookingChauffeurAssigned" \in Current
  BY DEF OrchestrationInv, Current, LookupEvents, AssignTrip
<1>2. Sound([event |-> "BookingChauffeurAssigned", step |-> "lookup", todo |-> <<>>])
  BY <1>1, BriefLists, EmptySeq DEF Sound, Progress, LookupEvents
<1> QED
  BY <1>2, HandlerStarts DEF AssignTrip

LEMMA OtherStep ==
    ASSUME OrchestrationTypeOK, OrchestrationInv, NEW h \in Handlers,
           NEW event \in OtherEvents, OtherEvent(h, event)
    PROVE  OrchestrationTypeOK' /\ OrchestrationInv'
<1>1. event \in Current
  BY DEF Current, LookupEvents, OtherEvents
<1>2. Sound([event |-> event, step |-> "lookup", todo |-> <<>>])
  BY <1>1, BriefLists, EmptySeq DEF Sound, Progress, LookupEvents
<1> QED
  BY <1>2, HandlerStarts DEF OtherEvent

\* A handler that starts with what it has to send.
LEMMA SendingIsSound ==
    ASSUME NEW event \in {"BookingLegStarted", "BookingLegStartReminder",
                          "BookingLegEndReminder", "otp"},
           NEW todo \in Brief(Sayable), todo # <<>>
    PROVE  Sound([event |-> event, step |-> "send", todo |-> todo])
<1>1. Sayable \subseteq Messages
  BY DEF Sayable
<1>2. todo \in Seq(Messages)
  BY <1>1, BriefGrows DEF Brief
<1> QED
  BY <1>2 DEF Sound, Progress

LEMMA StartReminderStep ==
    ASSUME OrchestrationTypeOK, OrchestrationInv, NEW h \in Handlers, StartReminderDue(h)
    PROVE  OrchestrationTypeOK' /\ OrchestrationInv'
<1>1. /\ trip = "CONFIRMED" /\ cancellation # "alone"
      /\ "customer" \in People /\ "chauffeur" \in People
  BY DEF OrchestrationInv, StartReminderDue, People
<1>2. LegStartReminder("customer") \in Sayable /\ LegStartReminder("chauffeur") \in Sayable
  BY <1>1, MessagesFilled DEF Sayable
<1>3. LegStartReminders \in Brief(Sayable) /\ LegStartReminders # <<>>
  BY <1>2, BriefLists DEF LegStartReminders
<1>4. Sound([event |-> "BookingLegStartReminder", step |-> "send", todo |-> LegStartReminders])
  BY <1>3, SendingIsSound
<1> PICK todo : todo = LegStartReminders
  OBVIOUS
<1> QED
  BY <1>4, HandlerStarts DEF StartReminderDue

LEMMA EndReminderStep ==
    ASSUME OrchestrationTypeOK, OrchestrationInv, NEW h \in Handlers, EndReminderDue(h)
    PROVE  OrchestrationTypeOK' /\ OrchestrationInv'
<1>1. trip = "ACTIVE" /\ cancellation # "alone"
  BY DEF OrchestrationInv, EndReminderDue
<1>2. LegEndReminder("customer") \in Sayable /\ LegEndReminder("chauffeur") \in Sayable
  BY <1>1, MessagesFilled DEF Sayable
<1>3. LegEndReminders \in Brief(Sayable) /\ LegEndReminders # <<>>
  BY <1>2, BriefLists DEF LegEndReminders
<1>4. Sound([event |-> "BookingLegEndReminder", step |-> "send", todo |-> LegEndReminders])
  BY <1>3, SendingIsSound
<1> PICK todo : todo = LegEndReminders
  OBVIOUS
<1> QED
  BY <1>4, HandlerStarts DEF EndReminderDue

LEMMA OtpStep ==
    ASSUME OrchestrationTypeOK, OrchestrationInv, NEW h \in Handlers, SendOtp(h)
    PROVE  OrchestrationTypeOK' /\ OrchestrationInv'
<1>1. OtpNotification \in Sayable
  BY MessagesFilled DEF Sayable
<1>2. <<OtpNotification>> \in Brief(Sayable) /\ <<OtpNotification>> # <<>>
  BY <1>1, BriefLists
<1>3. Sound([event |-> "otp", step |-> "send", todo |-> <<OtpNotification>>])
  BY <1>2, SendingIsSound
<1> QED
  BY <1>3, HandlerStarts DEF SendOtp

LEMMA LegStartsStep ==
    ASSUME OrchestrationTypeOK, OrchestrationInv, NEW h \in Handlers, LegStarts(h)
    PROVE  OrchestrationTypeOK' /\ OrchestrationInv'
<1>1. /\ HandlersTyped /\ HandlersInv /\ CarriedRight
      /\ trip \in {"CONFIRMED", "ACTIVE"} /\ trip' = "ACTIVE" /\ cancellation # "alone"
      /\ UNCHANGED <<chauffeured, phones, carried, heard, lastWord, cancelTold, cancellation>>
  BY DEF OrchestrationTypeOK, OrchestrationInv, HandlersTyped, CarriedRight, LegStarts
<1>2. TruthStays
  BY <1>1 DEF TruthStays, Sayable, Current
<1>3. TellingKept
  BY <1>1 DEF TellingKept, TripStatuses, OrchestrationTypeOK
<1> PICK todo : todo = <<BookingStatusUpdate("customer", "ACTIVE")>>
  OBVIOUS
<1>4. todo \in Brief(Sayable) /\ todo # <<>>
  <2>1. "customer" \in People /\ "ACTIVE" \in Words
    BY DEF People, Words, TripStatuses
  <2>2. BookingStatusUpdate("customer", "ACTIVE") \in Sayable
    BY <1>1, <2>1, MessagesFilled DEF Sayable
  <2> QED
    BY <2>2, BriefLists
<1> PICK progress : progress = [event |-> "BookingLegStarted", step |-> "send", todo |-> todo]
  OBVIOUS
<1>5. Sound(progress)
  BY <1>4, SendingIsSound
<1>6. Sound(progress)'
  BY <1>2, <1>5, SoundStays
<1>7. handler' = [handler EXCEPT ![h] = progress]
  BY DEF LegStarts, StartHandler
<1>8. (HandlersTyped /\ HandlersInv)'
  BY <1>1, <1>2, <1>6, <1>7, OneHandler
<1> QED
  BY <1>1, <1>2, <1>3, <1>8, CarriedStays, NobodyTold

\* What is delivered is true, and so is the last word the customer has then.
LEMMA TellingTheTruth ==
    ASSUME OrchestrationTypeOK, OrchestrationInv, NEW message \in Sayable, NEW answer,
           Told(message, answer), UNCHANGED <<trip, chauffeured, phones, cancellation>>,
           (HandlersTyped /\ HandlersInv)', CarriedRight'
    PROVE  OrchestrationTypeOK' /\ OrchestrationInv'
<1> PICK on : on = Delivered(message, answer)
  OBVIOUS
<1>1. /\ heard' = IF on = {} \/ message.says = "Otp" THEN heard ELSE heard \cup {message.to}
      /\ lastWord' = IF on # {} /\ message.to = "customer" /\ message.says \in TripStatuses
                     THEN message.says ELSE lastWord
      /\ cancelTold' = (cancelTold \/ lastWord' = "CANCELLED")
  BY DEF Told
<1>2. /\ message.to \in People
      /\ trip = "PENDING" => message.says = "Otp"
      /\ message.says = "CANCELLED" => cancellation # "none"
      /\ cancellation = "alone" => message.says \in {"CANCELLED", "Otp"}
  BY DEF Sayable, Messages
<1>3. lastWord' = lastWord \/ (lastWord' = message.says /\ message.says \in TripStatuses)
  BY <1>1
<1>4. cancelTold' \in BOOLEAN /\ (cancelTold' => cancelTold \/ lastWord' = "CANCELLED")
  <2>1. cancelTold \in BOOLEAN
    BY DEF OrchestrationTypeOK
  <2> QED
    BY <1>1, <2>1, Zenon
<1>5. OrchestrationTypeOK'
  <2>1. heard' \subseteq People
    BY <1>1, <1>2 DEF OrchestrationTypeOK
  <2>2. lastWord' \in TripStatuses \cup {Nothing}
    BY <1>3 DEF OrchestrationTypeOK
  <2> QED
    BY <1>4, <2>1, <2>2 DEF OrchestrationTypeOK, HandlersTyped, CarriedRight
<1>6. /\ cancellation = "alone" => trip = "CANCELLED"
      /\ trip = "CANCELLED" => cancellation # "none"
      /\ lastWord = "CANCELLED" => cancellation # "none"
      /\ trip = "PENDING" => lastWord = Nothing /\ heard = {}
      /\ cancelTold => cancellation # "none"
      /\ cancelTold /\ cancellation = "alone" => trip = "CANCELLED" /\ lastWord = "CANCELLED"
  BY DEF OrchestrationInv, ToldTruly
<1>7. (/\ cancellation = "alone" => trip = "CANCELLED"
       /\ trip = "CANCELLED" => cancellation # "none"
       /\ lastWord = "CANCELLED" => cancellation # "none")'
  BY <1>2, <1>3, <1>6
<1>8. ToldTruly'
  <2>1. (trip = "PENDING" => lastWord = Nothing /\ heard = {})'
    BY <1>1, <1>2, <1>3, <1>6 DEF TripStatuses
  <2>2. (cancelTold => cancellation # "none")'
    BY <1>4, <1>6, <1>7
  <2>3. (cancelTold /\ cancellation = "alone" => trip = "CANCELLED" /\ lastWord = "CANCELLED")'
    <3>1. message.says \in TripStatuses /\ cancellation = "alone" => message.says = "CANCELLED"
      BY <1>2 DEF TripStatuses
    <3> QED
      BY <1>3, <1>4, <1>6, <3>1
  <2>4. Unblanked'
    BY BlanksFilledNext
  <2> QED
    BY <2>1, <2>2, <2>3, <2>4 DEF ToldTruly, Unblanked
<1> QED
  BY <1>5, <1>7, <1>8 DEF OrchestrationInv, CarriedRight

\* The first of what a handler has to send may be said.
LEMMA FirstIsTrue ==
    ASSUME OrchestrationTypeOK, OrchestrationInv, NEW h \in Handlers, handler[h].step = "send"
    PROVE  Head(handler[h].todo) \in Sayable /\ Tail(handler[h].todo) \in Brief(Sayable)
<1> PICK todo : todo = handler[h].todo
  OBVIOUS
<1>1. HandlersTyped /\ HandlersInv
  BY DEF OrchestrationTypeOK, OrchestrationInv, HandlersTyped
<1>2. todo \in Brief(Sayable) /\ todo # <<>>
  BY <1>1, SoundHandlers DEF Sound
<1> QED
  BY <1>2, BriefTail

LEMMA DeliverStep ==
    ASSUME OrchestrationTypeOK, OrchestrationInv, NEW h \in Handlers, NEW answer,
           DeliverNotification(h, answer)
    PROVE  OrchestrationTypeOK' /\ OrchestrationInv'
<1> PICK message, rest, on :
      /\ message = Head(handler[h].todo) /\ rest = Tail(handler[h].todo)
      /\ on = Delivered(message, answer)
  OBVIOUS
<1>1. /\ HandlersTyped /\ HandlersInv /\ CarriedRight /\ handler[h].step = "send"
      /\ UNCHANGED <<trip, chauffeured, phones, carried, cancellation>>
      /\ IF on = message.channels
         THEN Sending(h, rest) ELSE handler' = [handler EXCEPT ![h] = Resting]
      /\ Told(message, answer)
  BY DEF OrchestrationTypeOK, OrchestrationInv, HandlersTyped, CarriedRight,
     DeliverNotification
<1>2. message \in Sayable /\ rest \in Brief(Sayable)
  BY <1>1, FirstIsTrue
<1>3. TruthStays
  BY <1>1, UnchangedTruth
<1>4. (HandlersTyped /\ HandlersInv)'
  <2>1. CASE on = message.channels
    BY <1>1, <1>2, <2>1, Sends
  <2>2. CASE on # message.channels
    BY <1>1, <1>3, <2>2, Rests
  <2> QED
    BY <2>1, <2>2
<1>5. CarriedRight'
  BY <1>1, <1>3, CarriedStays
<1> QED
  BY <1>1, <1>2, <1>4, <1>5, TellingTheTruth

LEMMA HandlersStay ==
    ASSUME HandlersTyped, HandlersInv, handler' = handler, TruthStays
    PROVE  (HandlersTyped /\ HandlersInv)'
<1>1. handler \in [Handlers -> Progress] /\ \A g \in Handlers : Sound(handler[g])
  BY SoundHandlers
<1>2. ASSUME NEW g \in Handlers PROVE Sound(handler[g])'
  <2> PICK now : now = handler[g]
    OBVIOUS
  <2>1. Sound(now)'
    BY <1>1, SoundStays
  <2> QED
    BY <2>1
<1> QED
  BY <1>1, <1>2, SoundHandlersNext

LEMMA ProcessPendingStep ==
    ASSUME OrchestrationTypeOK, OrchestrationInv, NEW found \in SUBSET Handlers,
           ProcessPending(found)
    PROVE  OrchestrationTypeOK' /\ OrchestrationInv'
<1>1. /\ HandlersTyped /\ HandlersInv
      /\ \A h \in found : handler[h].step = "send"
      /\ carried' = [h \in Handlers |-> IF h \in found THEN Head(handler[h].todo) ELSE Nothing]
      /\ UNCHANGED <<trip, chauffeured, phones, handler, heard, lastWord, cancelTold,
                     cancellation>>
  BY DEF OrchestrationTypeOK, OrchestrationInv, HandlersTyped, ProcessPending
<1>2. TellingKept /\ TruthStays
  BY <1>1, UnchangedTruth DEF TellingKept, OrchestrationTypeOK
<1>3. (HandlersTyped /\ HandlersInv)'
  BY <1>1, <1>2, HandlersStay
<1>4. CarriedRight'
  <2>1. \A h \in found : Head(handler[h].todo) \in Sayable
    BY <1>1, FirstIsTrue
  <2>2. Sayable \subseteq Messages /\ Sayable \subseteq Sayable'
    BY <1>2 DEF Sayable, TruthStays
  <2> QED
    BY <1>1, <2>1, <2>2 DEF CarriedRight, CarriedInv
<1> QED
  BY <1>2, <1>3, <1>4, NobodyTold

LEMMA DeliverPendingStep ==
    ASSUME OrchestrationTypeOK, OrchestrationInv, NEW h \in Handlers, NEW answer,
           DeliverPending(h, answer)
    PROVE  OrchestrationTypeOK' /\ OrchestrationInv'
<1> PICK message : message = carried[h]
  OBVIOUS
<1>1. /\ HandlersTyped /\ HandlersInv /\ CarriedRight
      /\ message # Nothing /\ Told(message, answer)
      /\ carried' = [carried EXCEPT ![h] = Nothing]
      /\ UNCHANGED <<trip, chauffeured, phones, handler, cancellation>>
  BY DEF OrchestrationTypeOK, OrchestrationInv, HandlersTyped, CarriedRight, DeliverPending
<1>2. message \in Sayable
  BY <1>1 DEF CarriedRight, CarriedInv
<1>3. TruthStays
  BY <1>1, UnchangedTruth
<1>4. (HandlersTyped /\ HandlersInv)'
  BY <1>1, <1>3, HandlersStay
<1>5. CarriedRight'
  BY <1>1, <1>3 DEF CarriedRight, CarriedInv, TruthStays
<1> QED
  BY <1>1, <1>2, <1>4, <1>5, TellingTheTruth

LEMMA JobStopsStep ==
    ASSUME OrchestrationTypeOK, OrchestrationInv, PendingJobStops
    PROVE  OrchestrationTypeOK' /\ OrchestrationInv'
<1>1. /\ HandlersTyped /\ HandlersInv /\ carried' = EmptyList
      /\ UNCHANGED <<trip, chauffeured, phones, handler, heard, lastWord, cancelTold,
                     cancellation>>
  BY DEF OrchestrationTypeOK, OrchestrationInv, HandlersTyped, PendingJobStops
<1>2. TellingKept /\ TruthStays
  BY <1>1, UnchangedTruth DEF TellingKept, OrchestrationTypeOK
<1> QED
  BY <1>1, <1>2, HandlersStay, EmptyListIsRightNext, NobodyTold

\* The page says what the row says, or nothing.
LEMMA CallbackStep ==
    ASSUME OrchestrationTypeOK, OrchestrationInv, NEW transaction \in BOOLEAN,
           PaymentStatusCallback(transaction)
    PROVE  OrchestrationTypeOK' /\ OrchestrationInv'
<1>1. /\ HandlersTyped /\ HandlersInv /\ CarriedRight
      /\ trip \in TripStatuses /\ cancelTold \in BOOLEAN
      /\ UNCHANGED <<trip, chauffeured, phones, handler, carried, heard, cancellation>>
  BY DEF OrchestrationTypeOK, OrchestrationInv, HandlersTyped, CarriedRight,
     PaymentStatusCallback
<1>2. /\ trip = "PENDING" => lastWord' = lastWord
      /\ trip \in {"CONFIRMED", "ACTIVE"} => lastWord' = "CONFIRMED"
      /\ trip = "CANCELLED" => lastWord' = "CANCELLED"
  BY DEF PaymentStatusCallback, PaymentStatus
<1>3. cancelTold' = (cancelTold \/ lastWord' = "CANCELLED")
  BY DEF PaymentStatusCallback
<1>4. cancelTold' \in BOOLEAN /\ (cancelTold' => cancelTold \/ lastWord' = "CANCELLED")
  BY <1>1, <1>3, Zenon
<1>5. (HandlersTyped /\ HandlersInv)' /\ CarriedRight'
  BY <1>1, UnchangedTruth, HandlersStay, CarriedStays
<1>6. OrchestrationTypeOK'
  <2>1. lastWord' \in TripStatuses \cup {Nothing}
    BY <1>1, <1>2 DEF OrchestrationTypeOK, TripStatuses
  <2> QED
    BY <1>1, <1>4, <1>5, <2>1 DEF OrchestrationTypeOK, HandlersTyped, CarriedRight
<1>7. /\ cancellation = "alone" => trip = "CANCELLED"
      /\ trip = "CANCELLED" => cancellation # "none"
      /\ lastWord = "CANCELLED" => cancellation # "none"
      /\ trip = "PENDING" => lastWord = Nothing /\ heard = {}
      /\ cancelTold => cancellation # "none"
      /\ cancelTold /\ cancellation = "alone" => trip = "CANCELLED" /\ lastWord = "CANCELLED"
  BY DEF OrchestrationInv, ToldTruly
<1>8. (/\ cancellation = "alone" => trip = "CANCELLED"
       /\ trip = "CANCELLED" => cancellation # "none"
       /\ lastWord = "CANCELLED" => cancellation # "none")'
  BY <1>1, <1>2, <1>7 DEF TripStatuses
<1>9. ToldTruly'
  <2>1. (cancelTold => cancellation # "none")'
    BY <1>1, <1>4, <1>7, <1>8
  <2>2. Unblanked'
    BY <1>5, BlanksFilledNext
  <2> QED
    BY <1>1, <1>2, <1>7, <2>1, <2>2 DEF ToldTruly, Unblanked
<1> QED
  BY <1>5, <1>6, <1>8, <1>9 DEF OrchestrationInv, CarriedRight

LEMMA StoreStep ==
    ASSUME OrchestrationTypeOK, OrchestrationInv, StoreChauffeur
    PROVE  OrchestrationTypeOK' /\ OrchestrationInv'
<1>1. /\ HandlersTyped /\ HandlersInv /\ CarriedRight /\ chauffeured' = TRUE
      /\ UNCHANGED <<trip, phones, handler, carried, heard, lastWord, cancelTold, cancellation>>
  BY DEF OrchestrationTypeOK, OrchestrationInv, HandlersTyped, CarriedRight, StoreChauffeur
<1>2. TellingKept /\ TruthStays
  BY <1>1, UnchangedTruth DEF TellingKept, OrchestrationTypeOK
<1> QED
  BY <1>1, <1>2, HandlersStay, CarriedStays, NobodyTold

LEMMA StutterStep ==
    ASSUME OrchestrationTypeOK, OrchestrationInv, UNCHANGED orchestrationVars
    PROVE  OrchestrationTypeOK' /\ OrchestrationInv'
<1>1. /\ HandlersTyped /\ HandlersInv /\ CarriedRight
      /\ UNCHANGED <<trip, chauffeured, phones, handler, carried, heard, lastWord, cancelTold,
                     cancellation>>
  BY DEF OrchestrationTypeOK, OrchestrationInv, HandlersTyped, CarriedRight,
     orchestrationVars
<1>2. TellingKept /\ TruthStays
  BY <1>1, UnchangedTruth DEF TellingKept, OrchestrationTypeOK
<1> QED
  BY <1>1, <1>2, HandlersStay, CarriedStays, NobodyTold

\* The inductive invariant of the handlers and of what they tell.
THEOREM OrchestrationInvariant == OrchestrationSpec => [](OrchestrationTypeOK /\ OrchestrationInv)
<1>1. OrchestrationInit => OrchestrationTypeOK /\ OrchestrationInv
  <2> SUFFICES ASSUME OrchestrationInit PROVE OrchestrationTypeOK /\ OrchestrationInv
    OBVIOUS
  <2>1. /\ trip = "PENDING" /\ lastWord = Nothing /\ cancelTold = FALSE
        /\ cancellation = "none" /\ chauffeured = FALSE /\ phones \in PhoneBooks
        /\ handler = [h \in Handlers |-> Resting] /\ carried = EmptyList /\ heard = {}
    BY DEF OrchestrationInit
  <2>2. HandlersTyped /\ HandlersInv
    <3>1. Resting \in Progress
      BY RestingIsSound DEF Sound
    <3>2. \A h \in Handlers : handler[h] = Resting
      BY <2>1
    <3> QED
      BY <2>1, <3>1, <3>2, RestingIsSound, SoundHandlers
  <2>3. CarriedRight
    BY <2>1, EmptyListIsRight
  <2>4. OrchestrationTypeOK
    BY <2>1, <2>2, <2>3, PhoneBooksAssumption
    DEF OrchestrationTypeOK, HandlersTyped, CarriedRight, TripStatuses
  <2>5. ToldTruly
    BY <2>1, <2>2, BlanksFilled DEF ToldTruly, Unblanked
  <2>6. lastWord # "CANCELLED"
    BY <2>1, NothingAssumption DEF TripStatuses
  <2> QED
    BY <2>1, <2>2, <2>3, <2>4, <2>5, <2>6 DEF OrchestrationInv, CarriedRight
<1>2. ASSUME OrchestrationTypeOK, OrchestrationInv, [OrchestrationNext]_orchestrationVars
      PROVE  OrchestrationTypeOK' /\ OrchestrationInv'
  <2>1. CASE UNCHANGED orchestrationVars
    BY <1>2, <2>1, StutterStep
  <2>2. ASSUME NEW h \in Handlers, NEW call, FlutterwaveWebhook(h, call)
        PROVE  OrchestrationTypeOK' /\ OrchestrationInv'
    BY <1>2, <2>2, WebhookStep
  <2>3. ASSUME NEW h \in Handlers, CancelTrip(h)
        PROVE  OrchestrationTypeOK' /\ OrchestrationInv'
    BY <1>2, <2>3, CancelStep
  <2>4. ASSUME NEW h \in Handlers, AssignTrip(h)
        PROVE  OrchestrationTypeOK' /\ OrchestrationInv'
    BY <1>2, <2>4, AssignStep
  <2>5. ASSUME NEW h \in Handlers, NEW event \in OtherEvents, OtherEvent(h, event)
        PROVE  OrchestrationTypeOK' /\ OrchestrationInv'
    BY <1>2, <2>5, OtherStep
  <2>6. ASSUME NEW h \in Handlers, LegStarts(h)
        PROVE  OrchestrationTypeOK' /\ OrchestrationInv'
    BY <1>2, <2>6, LegStartsStep
  <2>7. ASSUME NEW h \in Handlers, StartReminderDue(h)
        PROVE  OrchestrationTypeOK' /\ OrchestrationInv'
    BY <1>2, <2>7, StartReminderStep
  <2>8. ASSUME NEW h \in Handlers, EndReminderDue(h)
        PROVE  OrchestrationTypeOK' /\ OrchestrationInv'
    BY <1>2, <2>8, EndReminderStep
  <2>9. ASSUME NEW h \in Handlers, SendOtp(h)
        PROVE  OrchestrationTypeOK' /\ OrchestrationInv'
    BY <1>2, <2>9, OtpStep
  <2>10. ASSUME NEW h \in Handlers, ConfirmTrip(h)
        PROVE  OrchestrationTypeOK' /\ OrchestrationInv'
    BY <1>2, <2>10, ConfirmStep
  <2>11. ASSUME NEW h \in Handlers, NEW found, LookUp(h, found)
        PROVE  OrchestrationTypeOK' /\ OrchestrationInv'
    BY <1>2, <2>11, LookUpStep
  <2>12. ASSUME NEW h \in Handlers, NEW answer, DeliverNotification(h, answer)
        PROVE  OrchestrationTypeOK' /\ OrchestrationInv'
    BY <1>2, <2>12, DeliverStep
  <2>13. ASSUME NEW h \in Handlers, HandlerStops(h)
        PROVE  OrchestrationTypeOK' /\ OrchestrationInv'
    BY <1>2, <2>13, StopStep
  <2>14. ASSUME NEW transaction \in BOOLEAN, PaymentStatusCallback(transaction)
        PROVE  OrchestrationTypeOK' /\ OrchestrationInv'
    BY <1>2, <2>14, CallbackStep
  <2>15. CASE StoreChauffeur
    BY <1>2, <2>15, StoreStep
  <2>16. ASSUME NEW h \in Handlers, SaveTrip(h)
         PROVE  OrchestrationTypeOK' /\ OrchestrationInv'
    BY <1>2, <2>16, SaveStep
  <2>17. ASSUME NEW h \in Handlers, SaveCancelled(h)
         PROVE  OrchestrationTypeOK' /\ OrchestrationInv'
    BY <1>2, <2>17, SaveCancelledStep
  <2>18. ASSUME NEW found \in SUBSET Handlers, ProcessPending(found)
         PROVE  OrchestrationTypeOK' /\ OrchestrationInv'
    BY <1>2, <2>18, ProcessPendingStep
  <2>19. ASSUME NEW h \in Handlers, NEW answer, DeliverPending(h, answer)
         PROVE  OrchestrationTypeOK' /\ OrchestrationInv'
    BY <1>2, <2>19, DeliverPendingStep
  <2>20. CASE PendingJobStops
    BY <1>2, <2>20, JobStopsStep
  <2> QED
    BY <1>2, <2>1, <2>2, <2>3, <2>4, <2>5, <2>6, <2>7, <2>8, <2>9, <2>10, <2>11, <2>12, <2>13,
       <2>14, <2>15, <2>16, <2>17, <2>18, <2>19, <2>20 DEF OrchestrationNext
<1> QED
  BY <1>1, <1>2, PTL DEF OrchestrationSpec

\* The type invariant of Orchestration.
THEOREM OrchestrationTypeCorrect == OrchestrationSpec => []OrchestrationTypeOK
  BY OrchestrationInvariant, PTL

\* Nobody hears of a booking before a confirmation of it is stored nor of a cancellation
\* that never was, and a cancellation stored with nothing else under way stands and stays the
\* customer's last word, whoever asks, however many handlers are under way and however much
\* the pending job delivers once more.  Of one that crosses something it says no more.
THEOREM AlwaysToldTruly == OrchestrationSpec => []ToldTruly
<1>1. OrchestrationInv => ToldTruly
  BY DEF OrchestrationInv
<1> QED
  BY <1>1, OrchestrationInvariant, PTL

-----------------------------------------------------------------------------
(* Rounding.                                                                *)

LEMMA Division ==
    ASSUME NEW a \in Nat, NEW d \in Nat \ {0}
    PROVE  a \div d \in Nat /\ d * (a \div d) <= a /\ a < d * (a \div d) + d
  BY SMT

LEMMA EvenProduct ==
    ASSUME NEW a \in Nat, a % 2 = 0, NEW b \in Nat
    PROVE  (a * b) % 2 = 0
<1> PICK k \in Nat : a = 2 * k
  BY SMT
<1>1. a * b = 2 * (k * b) /\ k * b \in Nat
  BY SMT
<1> QED
  BY <1>1, SMT

LEMMA Cancel ==
    ASSUME NEW a \in Nat \ {0}, NEW x \in Int, NEW y \in Int, a * x < a * y
    PROVE  x < y
<1>1. x >= y => a * x >= a * y
  BY SMT
<1> QED
  BY <1>1, SMT

\* Half a unit up or down; the half itself goes up.
LEMMA RoundedIs ==
    ASSUME NEW a \in Nat, NEW u \in Nat \ {0}
    PROVE  /\ Rounded(a, u) \in Nat
           /\ u % 2 = 0 => /\ 2 * (u * Rounded(a, u)) <= 2 * a + u
                           /\ 2 * a < 2 * (u * Rounded(a, u)) + u
<1> DEFINE half == u \div 2
           r == (a + half) \div u
<1>1. half \in Nat /\ (u % 2 = 0 => u = 2 * half)
  BY SMT
<1> HIDE DEF half
<1>2. a + half \in Nat
  BY <1>1
<1>3. r \in Nat /\ u * r <= a + half /\ a + half < u * r + u
  BY <1>2, Division
<1>4. Rounded(a, u) = r
  BY DEF Rounded, r, half
<1> HIDE DEF r
<1>5. u * r \in Nat
  BY <1>3
<1>6. ASSUME u % 2 = 0 PROVE 2 * (u * r) <= 2 * a + u /\ 2 * a < 2 * (u * r) + u
  BY <1>1, <1>3, <1>5, <1>6
<1> QED
  BY <1>3, <1>4, <1>6

\* The total and its parts, each rounded alone.
LEMMA TotalOfParts ==
    ASSUME NEW w \in Nat \ {0}, w % 2 = 0, NEW n \in Nat, NEW a \in Nat, NEW b \in Nat,
           NEW total, total = (w * w) * n + w * a + b
    PROVE  Rounded(total, w * w) - (n + Rounded(a, w) + Rounded(b, w * w)) \in -1..1
<1> DEFINE v == w * w
           t == Rounded(total, v)
           f == Rounded(a, w)
           g == Rounded(b, v)
<1>1. v \in Nat \ {0}
  BY SMT
<1>2. v % 2 = 0
  BY EvenProduct
<1>3. v * n \in Nat /\ w * a \in Nat
  BY <1>1, SMT
<1>4. total = v * n + w * a + b
  OBVIOUS
<1> HIDE DEF v
<1>5. total \in Nat
  BY <1>3, <1>4
<1>6. t \in Nat /\ 2 * (v * t) <= 2 * total + v /\ 2 * total < 2 * (v * t) + v
  BY <1>1, <1>2, <1>5, RoundedIs
<1>7. g \in Nat /\ 2 * (v * g) <= 2 * b + v /\ 2 * b < 2 * (v * g) + v
  BY <1>1, <1>2, RoundedIs
<1>8. f \in Nat /\ 2 * (w * f) <= 2 * a + w /\ 2 * a < 2 * (w * f) + w
  BY RoundedIs
<1> HIDE DEF t, f, g
<1>9. 2 * (v * f) <= 2 * (w * a) + v /\ 2 * (w * a) < 2 * (v * f) + v
  <2> PICK x \in Nat : x = w * f
    BY <1>8
  <2>1. 2 * x <= 2 * a + w /\ 2 * a < 2 * x + w
    BY <1>8
  <2>2. w * (2 * x) <= w * (2 * a + w) /\ w * (2 * a) < w * (2 * x + w)
    BY <2>1, SMT
  <2>3. /\ w * (2 * x) = 2 * (w * x) /\ w * (2 * a + w) = 2 * (w * a) + w * w
        /\ w * (2 * a) = 2 * (w * a) /\ w * (2 * x + w) = 2 * (w * x) + w * w
    BY SMT
  <2>4. w * x = v * f
    BY <1>8, SMT DEF v
  <2>5. v = w * w
    BY DEF v
  <2> QED
    BY <2>2, <2>3, <2>4, <2>5
<1> DEFINE d == t - (n + f + g)
<1>10. d \in Int
  BY <1>6, <1>7, <1>8
<1>11. v * d = v * t - v * n - v * f - v * g
  BY <1>1, <1>6, <1>7, <1>8, SMT
<1> HIDE DEF d
<1>12. v * t \in Nat /\ v * f \in Nat /\ v * g \in Nat /\ v * d \in Int
  BY <1>1, <1>6, <1>7, <1>8, <1>10, SMT
<1>13. 2 * (v * d) < 3 * v /\ -(3 * v) < 2 * (v * d)
  <2> PICK vt, vn, vf, vg, vd, wa : /\ vt = v * t /\ vn = v * n /\ vf = v * f /\ vg = v * g
                                    /\ vd = v * d /\ wa = w * a
    OBVIOUS
  <2>1. /\ vt \in Nat /\ vn \in Nat /\ vf \in Nat /\ vg \in Nat /\ vd \in Int /\ wa \in Nat
        /\ vd = vt - vn - vf - vg /\ total = vn + wa + b
        /\ 2 * vt <= 2 * total + v /\ 2 * total < 2 * vt + v
        /\ 2 * vf <= 2 * wa + v /\ 2 * wa < 2 * vf + v
        /\ 2 * vg <= 2 * b + v /\ 2 * b < 2 * vg + v
    BY <1>3, <1>4, <1>6, <1>7, <1>9, <1>11, <1>12
  <2>2. 2 * vd < 3 * v /\ -(3 * v) < 2 * vd
    BY <1>1, <1>5, <2>1, SMT
  <2> QED
    BY <2>2
<1>14. v * (2 * d) < v * 3 /\ v * (-3) < v * (2 * d)
  BY <1>1, <1>10, <1>13, SMT
<1>15. 2 * d < 3 /\ -3 < 2 * d
  BY <1>1, <1>10, <1>14, Cancel
<1>16. d \in -1..1
  BY <1>10, <1>15
<1> QED
  BY <1>16 DEF d, t, f, g, v

\* The owner's payout, and what the legs earn of it.
LEMMA PayoutOfLegs ==
    ASSUME NEW w \in Nat \ {0}, w % 2 = 0, NEW n \in Nat \ {0}, NEW p \in Nat
    PROVE  /\ Near(2 * n * Rounded(p, w * n), 2 * Rounded(p, w), n + 1)
           /\ \A net \in Nat : p <= w * net => Rounded(p, w) <= net
<1> DEFINE u == w * n
           e == Rounded(p, u)
           r == Rounded(p, w)
<1>1. u \in Nat \ {0}
  BY SMT
<1>2. u % 2 = 0
  BY EvenProduct
<1> HIDE DEF u
<1>3. e \in Nat /\ 2 * (u * e) <= 2 * p + u /\ 2 * p < 2 * (u * e) + u
  BY <1>1, <1>2, RoundedIs
<1>4. r \in Nat /\ 2 * (w * r) <= 2 * p + w /\ 2 * p < 2 * (w * r) + w
  BY RoundedIs
<1> HIDE DEF e, r
<1> DEFINE d == 2 * n * e - 2 * r
<1>5. d \in Int /\ n + 1 \in Nat
  BY <1>3, <1>4
<1>6. w * d = 2 * (u * e) - 2 * (w * r) /\ w * (n + 1) = u + w /\ w * (-(n + 1)) = -(u + w)
  BY <1>3, <1>4, SMT DEF u
<1> HIDE DEF d
<1>7. w * d < w * (n + 1) /\ w * (-(n + 1)) < w * d
  <2> PICK ue, wr, wd : ue = u * e /\ wr = w * r /\ wd = w * d
    OBVIOUS
  <2>1. ue \in Nat /\ wr \in Nat
    BY <1>1, <1>3, <1>4, SMT
  <2>2. wd = 2 * ue - 2 * wr
    BY <1>6
  <2>3. 2 * ue <= 2 * p + u /\ 2 * p < 2 * ue + u /\ 2 * wr <= 2 * p + w /\ 2 * p < 2 * wr + w
    BY <1>3, <1>4
  <2>4. wd < u + w /\ -(u + w) < wd
    BY <1>1, <2>1, <2>2, <2>3, SMT
  <2> QED
    BY <1>6, <2>4
<1>8. d < n + 1 /\ -(n + 1) < d
  <2>1. -(n + 1) \in Int /\ n + 1 \in Int
    BY <1>5
  <2> QED
    BY <1>5, <1>7, <2>1, Cancel
<1>9. d \in -(n + 1)..(n + 1)
  BY <1>5, <1>8
<1>10. ASSUME NEW net \in Nat, p <= w * net PROVE r <= net
  <2>1. w * net \in Nat /\ w * r \in Nat
    BY <1>4, SMT
  <2>2. 2 * (w * r) <= 2 * (w * net) + w
    BY <1>4, <1>10, <2>1
  <2>3. w * (2 * r) < w * (2 * net + 2)
    BY <1>4, <2>1, <2>2, SMT
  <2>4. 2 * r < 2 * net + 2
    BY <1>4, <2>3, Cancel
  <2> QED
    BY <1>4, <2>4
<1> QED
  BY <1>9, <1>10 DEF Near, d, e, r, u

-----------------------------------------------------------------------------
(* What is stored of a quote.                                               *)

LEMMA Priced ==
    ASSUME NEW q \in [step : {"verify"}, type : BookingTypes, legs : LegCounts, car : CarRates,
                      fees : FeeTable, addon : AddonRates],
           ValidFinancials(q)
    PROVE  /\ StoredAmounts(q) \in Amounts
           /\ LET stored == StoredAmounts(q) IN
              /\ Near(stored.total, stored.net + stored.security + stored.fee + stored.vat, 1)
              /\ Near(2 * stored.legs * stored.legEarns, 2 * stored.payout, stored.legs + 1)
              /\ stored.legs * stored.legPrice = stored.net
              /\ stored.payout <= stored.net
<1> PICK legs, price, net, security, s, c, v :
      /\ legs = q.legs /\ price = LegPrice(q.car, q.type)
      /\ net = NetTotal(q) /\ security = SecurityDetailCost(q)
      /\ s = q.fees.service /\ c = q.fees.commission /\ v = q.fees.vat
  OBVIOUS
<1>1. /\ legs \in Nat \ {0} /\ q.addon \in Nat /\ q.car \in [BookingTypes -> Nat]
      /\ q.fees \in [FeeNames -> Nat] /\ q.type \in BookingTypes
  BY PricingAssumption DEF FeeTable
<1>2. price \in Nat
  BY <1>1 DEF LegPrice
<1>3. s \in Nat /\ c \in Nat /\ v \in Nat
  <2>1. q.fees["service"] \in Nat /\ q.fees["commission"] \in Nat /\ q.fees["vat"] \in Nat
    BY <1>1 DEF FeeNames
  <2> QED
    BY <2>1
<1>4. Whole \in Nat \ {0} /\ Whole % 2 = 0
  BY PricingAssumption
<1>5. net = legs * price /\ net \in Nat
  <2>1. net = legs * price
    BY DEF NetTotal
  <2> QED
    BY <1>1, <1>2, <2>1, SMT
<1>6. security \in Nat
  <2> PICK twice : twice = SecurityDetailMultiplier(q.type)
    OBVIOUS
  <2>1. twice \in Nat
    BY DEF SecurityDetailMultiplier
  <2> PICK addon : addon = q.addon
    OBVIOUS
  <2>2. security = addon * legs * twice /\ addon \in Nat
    BY <1>1 DEF SecurityDetailCost
  <2> QED
    BY <1>1, <2>1, <2>2, SMT
<1> PICK w, n, a, b, total, payout :
      /\ w = Whole /\ n = NetWithSecurity(q) /\ a = ServiceFee(q) /\ b = Vat(q)
      /\ total = TotalAmount(q) /\ payout = OwnerPayout(q)
  OBVIOUS
<1>7. /\ n = net + security /\ a = n * s /\ b = (n * w + a) * v
      /\ total = (n * w + a) * w + b /\ payout = net * (w - c)
  BY DEF NetWithSecurity, ServiceFee, Vat, SubtotalBeforeVat, TotalAmount, OwnerPayout
<1>8. n \in Nat /\ a \in Nat /\ b \in Nat
  BY <1>3, <1>4, <1>5, <1>6, <1>7, SMT
<1>9. total = (w * w) * n + w * a + b /\ total \in Nat
  <2> PICK m : m = n * w + a
    OBVIOUS
  <2>1. m \in Nat
    BY <1>4, <1>8, SMT
  <2>2. total = m * w + b
    BY <1>7
  <2>3. m * w = (w * w) * n + w * a
    BY <1>4, <1>8, <2>1, SMT
  <2>4. m * w \in Nat
    BY <1>4, <2>1, SMT
  <2> QED
    BY <1>8, <2>2, <2>3, <2>4
<1>10. payout \in Nat
  <2>1. payout \in Int
    BY <1>3, <1>4, <1>5, <1>7, SMT
  <2>2. payout >= 0
    BY DEF ValidFinancials
  <2> QED
    BY <2>1, <2>2
<1>11. payout <= w * net
  BY <1>3, <1>4, <1>5, <1>7, SMT
<1> DEFINE t == Rounded(total, w * w)
           f == Rounded(a, w)
           g == Rounded(b, w * w)
           p == Rounded(payout, w)
           e == Rounded(payout, w * legs)
           l == Rounded(net, legs)
<1>12. StoredAmounts(q) =
         [total |-> t, net |-> net, security |-> security, fee |-> f, vat |-> g, payout |-> p,
          legs |-> legs, legPrice |-> price, legNet |-> l, legEarns |-> e]
  BY DEF StoredAmounts
<1>13. /\ t \in Nat /\ f \in Nat /\ g \in Nat /\ p \in Nat /\ e \in Nat /\ l \in Nat
  <2>1. w \in Nat \ {0} /\ w * w \in Nat \ {0} /\ w * legs \in Nat \ {0}
    BY <1>1, <1>4, SMT
  <2> QED
    BY <1>1, <1>5, <1>8, <1>9, <1>10, <2>1, RoundedIs
<1>14. t - (n + f + g) \in -1..1
  BY <1>4, <1>8, <1>9, TotalOfParts
<1>15. Near(2 * legs * e, 2 * p, legs + 1) /\ p <= net
  BY <1>1, <1>4, <1>5, <1>10, <1>11, PayoutOfLegs
<1> HIDE DEF t, f, g, p, e, l
<1>16. Near(t, net + security + f + g, 1)
  BY <1>5, <1>6, <1>7, <1>13, <1>14 DEF Near
<1>17. StoredAmounts(q) \in Amounts
  BY <1>1, <1>2, <1>5, <1>6, <1>12, <1>13 DEF Amounts
<1> QED
  BY <1>5, <1>12, <1>15, <1>16, <1>17

-----------------------------------------------------------------------------
(* The types of what is cached and quoted.                                  *)

LEMMA QuoteAt ==
    ASSUME NEW state \in QuoteStates
    PROVE  /\ state.step \in {"storeCar", "fees"} => state \in [step : {"storeCar", "fees"}, car : CarRates]
           /\ state.step \in ReadingFees \cup {"addon"} =>
                state \in [step : ReadingFees \cup {"addon"}, car : CarRates, fees : FeeTable]
           /\ state.step = "verify" =>
                state \in [step : {"verify"}, type : BookingTypes, legs : LegCounts, car : CarRates,
                           fees : FeeTable, addon : AddonRates]
           /\ state.step = "saved" => state \in [step : {"saved"}, amounts : Amounts]
  BY DEF QuoteStates, ReadingFees

\* A quote that goes on leaves the others as they are.
LEMMA OneQuote ==
    ASSUME PricingTypeOK, NEW q \in Quotes, NEW state, Step(q, state)
    PROVE  /\ quote'[q] = state
           /\ \A other \in Quotes : other # q => quote'[other] = quote[other]
           /\ state \in QuoteStates => (quote \in [Quotes -> QuoteStates])'
  BY DEF PricingTypeOK, Step

CachesTyped ==
    /\ carCache \in [rates : CarRates, left : 0..CacheDays] \cup {NoRate}
    /\ feeCache \in [rates : FeeTable, left : 0..CacheDays] \cup {NoRate}

LEMMA QuoteTyped ==
    ASSUME PricingTypeOK, Rates, CachesTyped', NEW q \in Quotes, NEW state \in QuoteStates,
           Step(q, state)
    PROVE  PricingTypeOK'
<1>1. (quote \in [Quotes -> QuoteStates])'
  BY OneQuote
<1> QED
  BY <1>1 DEF PricingTypeOK, Rates, CachesTyped

-----------------------------------------------------------------------------
(* Rates that were in force.                                                *)

LEMMA TimesTyped ==
    ASSUME PricingTypeOK
    PROVE  /\ today \in Nat /\ CacheDays \in Nat \ {0}
           /\ \A r \in CarRates \cup FeeRates : lastSet[r] # NoRate => lastSet[r] \in Nat
  BY PricingAssumption DEF PricingTypeOK

LEMMA LongerAgo ==
    ASSUME PricingTypeOK, NEW less \in Int, NEW more \in Int, less <= more
    PROVE  /\ \A rates : CarWas(less, rates) => CarWas(more, rates)
           /\ \A fees : FeesWere(less, fees) => FeesWere(more, fees)
<1>1. ASSUME NEW r \in CarRates \cup FeeRates, SetWithin(less, r) PROVE SetWithin(more, r)
  BY <1>1, TimesTyped DEF SetWithin
<1> QED
  BY <1>1 DEF CarWas, FeesWere, FeeWas

LEMMA RatesStand ==
    ASSUME Rates
    PROVE  /\ \A days, rates : CarWas(days, rates)' <=> CarWas(days, rates)
           /\ \A days, fees : FeesWere(days, fees)' <=> FeesWere(days, fees)
  BY DEF Rates, CarWas, FeesWere, FeeWas, SetWithin

LEMMA QuotesStand ==
    ASSUME Rates, NEW state, QuoteInv(state)
    PROVE  QuoteInv(state)'
  BY RatesStand DEF QuoteInv

LEMMA CachesStand ==
    ASSUME Rates, CachesInv, UNCHANGED <<carCache, feeCache>>
    PROVE  CachesInv'
<1>1. ASSUME carCache # NoRate
      PROVE  (CarWas(CacheDays - carCache.left, carCache.rates))'
  <2> PICK days, rates : days = CacheDays - carCache.left /\ rates = carCache.rates
    OBVIOUS
  <2>1. CarWas(days, rates)'
    BY <1>1, RatesStand DEF CachesInv
  <2> QED
    BY <2>1
<1>2. ASSUME feeCache # NoRate
      PROVE  (FeesWere(CacheDays - feeCache.left, feeCache.rates))'
  <2> PICK days, rates : days = CacheDays - feeCache.left /\ rates = feeCache.rates
    OBVIOUS
  <2>1. FeesWere(days, rates)'
    BY <1>2, RatesStand DEF CachesInv
  <2> QED
    BY <2>1
<1> QED
  BY <1>1, <1>2 DEF CachesInv

\* One quote goes on, at the rates there are.
LEMMA QuoteGoes ==
    ASSUME PricingTypeOK, PricesInv, Rates, CachesTyped', CachesInv', NEW q \in Quotes,
           NEW state \in QuoteStates, QuoteInv(state), Step(q, state)
    PROVE  PricingTypeOK' /\ PricesInv'
<1>1. PricingTypeOK'
  BY QuoteTyped
<1>2. ASSUME NEW other \in Quotes PROVE QuoteInv(quote[other])'
  <2> PICK now : now = quote'[other]
    OBVIOUS
  <2>1. now = state \/ now = quote[other]
    BY OneQuote
  <2>2. QuoteInv(now)
    BY <2>1 DEF PricesInv
  <2>3. QuoteInv(now)'
    BY <2>2, QuotesStand
  <2> QED
    BY <2>3
<1> QED
  BY <1>1, <1>2 DEF PricesInv

LEMMA QuoteGoesAlone ==
    ASSUME PricingTypeOK, PricesInv, Rates, UNCHANGED <<carCache, feeCache>>, NEW q \in Quotes,
           NEW state \in QuoteStates, QuoteInv(state), Step(q, state)
    PROVE  PricingTypeOK' /\ PricesInv'
<1>1. CachesTyped'
  BY DEF CachesTyped, PricingTypeOK
<1>2. CachesInv'
  BY CachesStand DEF PricesInv
<1> QED
  BY <1>1, <1>2, QuoteGoes

LEMMA FindCarStep ==
    ASSUME PricingTypeOK, PricesInv, NEW q \in Quotes, FindCar(q)
    PROVE  PricingTypeOK' /\ PricesInv'
<1>1. Rates /\ UNCHANGED <<carCache, feeCache>>
  BY DEF FindCar
<1>2. ASSUME NEW rates \in CarRates, CarWas(CacheDays, rates),
             Step(q, [step |-> "fees", car |-> rates])
      PROVE  PricingTypeOK' /\ PricesInv'
  <2> PICK state : state = [step |-> "fees", car |-> rates]
    OBVIOUS
  <2>1. state \in QuoteStates /\ QuoteInv(state)
    BY <1>2 DEF QuoteStates, QuoteInv, ReadingFees
  <2> QED
    BY <1>1, <1>2, <2>1, QuoteGoesAlone
<1>3. CASE carCache # NoRate /\ Step(q, [step |-> "fees", car |-> carCache.rates])
  <2> PICK rates, days : rates = carCache.rates /\ days = CacheDays - carCache.left
    OBVIOUS
  <2>1. rates \in CarRates /\ carCache.left \in 0..CacheDays
    BY <1>3 DEF PricingTypeOK
  <2>2. CarWas(days, rates)
    BY <1>3 DEF PricesInv, CachesInv
  <2>3. days \in Int /\ CacheDays \in Int /\ days <= CacheDays
    BY <2>1, TimesTyped
  <2>4. CarWas(CacheDays, rates)
    BY <2>2, <2>3, LongerAgo
  <2> QED
    BY <1>2, <1>3, <2>1, <2>4
<1>4. CASE Step(q, [step |-> "readCar"])
  <2> PICK state : state = [step |-> "readCar"]
    OBVIOUS
  <2>1. state \in QuoteStates /\ QuoteInv(state)
    BY DEF QuoteStates, QuoteInv, ReadingFees
  <2> QED
    BY <1>1, <1>4, <2>1, QuoteGoesAlone
<1>5. CASE Step(q, [step |-> "fees", car |-> carRates])
  <2> PICK rates : rates = carRates
    OBVIOUS
  <2>1. rates \in CarRates /\ CarWas(CacheDays, rates)
    BY DEF PricingTypeOK, CarWas
  <2> QED
    BY <1>2, <1>5, <2>1
<1> QED
  BY <1>3, <1>4, <1>5 DEF FindCar

LEMMA ReadCarStep ==
    ASSUME PricingTypeOK, PricesInv, NEW q \in Quotes, ReadCar(q)
    PROVE  PricingTypeOK' /\ PricesInv'
<1> PICK state : state = [step |-> "storeCar", car |-> carRates]
  OBVIOUS
<1>1. state \in QuoteStates /\ QuoteInv(state)
  BY DEF PricingTypeOK, QuoteStates, QuoteInv, ReadingFees, CarWas
<1> QED
  BY <1>1, QuoteGoesAlone DEF ReadCar

LEMMA StoreCarStep ==
    ASSUME PricingTypeOK, PricesInv, NEW q \in Quotes, StoreCar(q)
    PROVE  PricingTypeOK' /\ PricesInv'
<1> PICK old, car : old = quote[q] /\ car = quote[q].car
  OBVIOUS
<1>1. old \in [step : {"storeCar", "fees"}, car : CarRates] /\ old.step = "storeCar"
  <2>1. old \in QuoteStates /\ old.step = "storeCar"
    BY DEF PricingTypeOK, StoreCar, At_
  <2> QED
    BY <2>1, QuoteAt
<1>2. car \in CarRates /\ CarWas(0, car)
  BY <1>1 DEF PricesInv, QuoteInv
<1>3. CarWas(CacheDays, car)
  BY <1>2, TimesTyped, LongerAgo
<1> PICK state : state = [old EXCEPT !.step = "fees"]
  OBVIOUS
<1>4. state.step = "fees" /\ state.car = car /\ state \in QuoteStates
  BY <1>1 DEF QuoteStates
<1>5. QuoteInv(state)
  BY <1>3, <1>4 DEF QuoteInv, ReadingFees
<1>6. Step(q, state) /\ Rates /\ feeCache' = feeCache /\ carCache' \in {carCache, Fresh(car)}
  BY DEF StoreCar
<1>7. CASE carCache' = carCache
  BY <1>4, <1>5, <1>6, <1>7, QuoteGoesAlone
<1>8. CASE carCache' = Fresh(car)
  <2>1. carCache'.rates = car /\ carCache'.left = CacheDays /\ CacheDays - CacheDays = 0
    BY <1>8, TimesTyped DEF Fresh
  <2>2. CachesTyped'
    BY <1>2, <1>6, <1>8, TimesTyped DEF CachesTyped, PricingTypeOK, Fresh
  <2>3. CachesInv'
    <3>1. CarWas(0, car)'
      BY <1>2, <1>6, RatesStand
    <3>2. ASSUME feeCache # NoRate
          PROVE  (FeesWere(CacheDays - feeCache.left, feeCache.rates))'
      <4> PICK days, rates : days = CacheDays - feeCache.left /\ rates = feeCache.rates
        OBVIOUS
      <4>1. FeesWere(days, rates)'
        BY <1>6, <3>2, RatesStand DEF PricesInv, CachesInv
      <4> QED
        BY <1>6, <4>1
    <3> QED
      BY <1>6, <2>1, <3>1, <3>2 DEF CachesInv
  <2> QED
    BY <1>4, <1>5, <1>6, <2>2, <2>3, QuoteGoes
<1> QED
  BY <1>6, <1>7, <1>8

\* A quote whose car is priced, and fees that were read.
LEMMA WithFees ==
    ASSUME PricingTypeOK, PricesInv, NEW q \in Quotes,
           quote[q].step \in {"fees"} \cup ReadingFees
    PROVE  /\ quote[q].car \in CarRates /\ CarWas(CacheDays, quote[q].car)
           /\ quote[q].step \in ReadingFees =>
                quote[q].fees \in FeeTable /\ FeesWere(0, quote[q].fees)
<1> PICK state : state = quote[q]
  OBVIOUS
<1>1. state \in QuoteStates /\ QuoteInv(state)
  BY DEF PricingTypeOK, PricesInv
<1>2. CASE state.step = "fees"
  <2>1. state \in [step : {"storeCar", "fees"}, car : CarRates]
    BY <1>1, <1>2, QuoteAt
  <2> QED
    BY <1>1, <1>2, <2>1 DEF QuoteInv, ReadingFees
<1>3. CASE state.step \in ReadingFees
  <2>1. state \in [step : ReadingFees \cup {"addon"}, car : CarRates, fees : FeeTable]
    BY <1>1, <1>3, QuoteAt
  <2> QED
    BY <1>1, <1>3, <2>1 DEF QuoteInv
<1> QED
  BY <1>2, <1>3

\* The fees read are in force now.
LEMMA FeesGoOn ==
    ASSUME PricingTypeOK, PricesInv, NEW q \in Quotes,
           quote[q].step \in {"fees"} \cup ReadingFees,
           NEW step \in ReadingFees, NEW fees \in FeeTable, FeesWere(0, fees)
    PROVE  LET state == [step |-> step, car |-> quote[q].car, fees |-> fees]
           IN  state \in QuoteStates /\ QuoteInv(state)
<1> PICK car : car = quote[q].car
  OBVIOUS
<1>1. car \in CarRates /\ CarWas(CacheDays, car)
  BY WithFees
<1> PICK state : state = [step |-> step, car |-> car, fees |-> fees]
  OBVIOUS
<1>2. state.step = step /\ state.car = car /\ state.fees = fees
  OBVIOUS
<1>3. state \in QuoteStates
  BY <1>1 DEF QuoteStates
<1>4. QuoteInv(state)
  BY <1>1, <1>2 DEF QuoteInv, ReadingFees
<1> QED
  BY <1>3, <1>4

\* The fees are as they will be charged.
LEMMA FeesDone ==
    ASSUME PricingTypeOK, PricesInv, NEW q \in Quotes,
           quote[q].step \in {"fees"} \cup ReadingFees,
           NEW fees \in FeeTable, FeesWere(CacheDays, fees)
    PROVE  LET state == [step |-> "addon", car |-> quote[q].car, fees |-> fees]
           IN  state \in QuoteStates /\ QuoteInv(state)
<1> PICK car : car = quote[q].car
  OBVIOUS
<1>1. car \in CarRates /\ CarWas(CacheDays, car)
  BY WithFees
<1> PICK state : state = [step |-> "addon", car |-> car, fees |-> fees]
  OBVIOUS
<1>2. state.step = "addon" /\ state.car = car /\ state.fees = fees
  OBVIOUS
<1>3. state \in QuoteStates
  BY <1>1 DEF QuoteStates
<1>4. QuoteInv(state)
  BY <1>1, <1>2 DEF QuoteInv, ReadingFees
<1> QED
  BY <1>3, <1>4

LEMMA GetFeesStep ==
    ASSUME PricingTypeOK, PricesInv, NEW q \in Quotes, GetFees(q)
    PROVE  PricingTypeOK' /\ PricesInv'
<1>1. Rates /\ UNCHANGED <<carCache, feeCache>> /\ quote[q].step = "fees"
  BY DEF GetFees, At_
<1>2. CASE feeCache # NoRate /\ With(q, "addon", feeCache.rates)
  <2> PICK fees, days : fees = feeCache.rates /\ days = CacheDays - feeCache.left
    OBVIOUS
  <2>1. fees \in FeeTable /\ feeCache.left \in 0..CacheDays
    BY <1>2 DEF PricingTypeOK
  <2>2. FeesWere(days, fees)
    BY <1>2 DEF PricesInv, CachesInv
  <2>3. days \in Int /\ CacheDays \in Int /\ days <= CacheDays
    BY <2>1, TimesTyped
  <2>4. FeesWere(CacheDays, fees)
    BY <2>2, <2>3, LongerAgo
  <2> PICK state : state = [step |-> "addon", car |-> quote[q].car, fees |-> fees]
    OBVIOUS
  <2>5. state \in QuoteStates /\ QuoteInv(state)
    BY <1>1, <2>1, <2>4, FeesDone
  <2>6. Step(q, state)
    BY <1>2 DEF With
  <2> QED
    BY <1>1, <2>5, <2>6, QuoteGoesAlone
<1>3. CASE With(q, "service", feeRates)
  <2> PICK fees : fees = feeRates
    OBVIOUS
  <2>1. fees \in FeeTable /\ FeesWere(0, fees)
    BY PricingAssumption DEF PricingTypeOK, FeeTable, FeesWere, FeeWas
  <2> PICK state : state = [step |-> "service", car |-> quote[q].car, fees |-> fees]
    OBVIOUS
  <2>2. "service" \in ReadingFees
    BY DEF ReadingFees
  <2>3. state \in QuoteStates /\ QuoteInv(state)
    BY <1>1, <2>1, <2>2, FeesGoOn
  <2>4. Step(q, state)
    BY <1>3 DEF With
  <2> QED
    BY <1>1, <2>3, <2>4, QuoteGoesAlone
<1> QED
  BY <1>2, <1>3 DEF GetFees

LEMMA ReadFeeStep ==
    ASSUME PricingTypeOK, PricesInv, NEW q \in Quotes, NEW name \in FeeNames,
           NEW next \in ReadingFees, ReadFee(q, name, next)
    PROVE  PricingTypeOK' /\ PricesInv'
<1>1. /\ Rates /\ UNCHANGED <<carCache, feeCache>>
      /\ quote[q].step = name /\ name \in ReadingFees
  BY DEF ReadFee, At_, FeeNames, ReadingFees
<1> PICK old : old = quote[q].fees
  OBVIOUS
<1>2. old \in [FeeNames -> Nat] /\ FeesWere(0, old)
  BY <1>1, WithFees DEF FeeTable
<1> PICK fees : fees = [old EXCEPT ![name] = feeRates[name]]
  OBVIOUS
<1>3. feeRates \in [FeeNames -> Nat]
  BY PricingAssumption DEF PricingTypeOK
<1>4. /\ fees \in [FeeNames -> Nat] /\ fees[name] = feeRates[name]
      /\ \A other \in FeeNames : other # name => fees[other] = old[other]
  BY <1>2, <1>3
<1>5. FeesWere(0, fees)
  BY <1>2, <1>4 DEF FeesWere, FeeWas
<1> PICK state : state = [step |-> next, car |-> quote[q].car, fees |-> fees]
  OBVIOUS
<1>6. state \in QuoteStates /\ QuoteInv(state)
  BY <1>1, <1>4, <1>5, FeesGoOn DEF FeeTable
<1>7. Step(q, state)
  BY DEF ReadFee, With
<1> QED
  BY <1>1, <1>6, <1>7, QuoteGoesAlone

LEMMA StoreFeesStep ==
    ASSUME PricingTypeOK, PricesInv, NEW q \in Quotes, StoreFees(q)
    PROVE  PricingTypeOK' /\ PricesInv'
<1> PICK fees : fees = quote[q].fees
  OBVIOUS
<1>1. /\ Rates /\ carCache' = carCache /\ feeCache' \in {feeCache, Fresh(fees)}
      /\ quote[q].step = "storeFees" /\ "storeFees" \in ReadingFees
      /\ With(q, "addon", fees)
  BY DEF StoreFees, At_, ReadingFees
<1>2. fees \in FeeTable /\ FeesWere(0, fees)
  BY <1>1, WithFees
<1>3. FeesWere(CacheDays, fees)
  BY <1>2, TimesTyped, LongerAgo
<1> PICK state : state = [step |-> "addon", car |-> quote[q].car, fees |-> fees]
  OBVIOUS
<1>4. state \in QuoteStates /\ QuoteInv(state)
  BY <1>1, <1>2, <1>3, FeesDone
<1>5. Step(q, state)
  BY <1>1 DEF With
<1>6. CASE feeCache' = feeCache
  BY <1>1, <1>4, <1>5, <1>6, QuoteGoesAlone
<1>7. CASE feeCache' = Fresh(fees)
  <2>1. feeCache'.rates = fees /\ feeCache'.left = CacheDays /\ CacheDays - CacheDays = 0
    BY <1>7, TimesTyped DEF Fresh
  <2>2. CachesTyped'
    BY <1>1, <1>2, <1>7, TimesTyped DEF CachesTyped, PricingTypeOK, Fresh
  <2>3. CachesInv'
    <3>1. FeesWere(0, fees)'
      BY <1>1, <1>2, RatesStand
    <3>2. ASSUME carCache # NoRate
          PROVE  (CarWas(CacheDays - carCache.left, carCache.rates))'
      <4> PICK days, rates : days = CacheDays - carCache.left /\ rates = carCache.rates
        OBVIOUS
      <4>1. CarWas(days, rates)'
        BY <1>1, <3>2, RatesStand DEF PricesInv, CachesInv
      <4> QED
        BY <1>1, <4>1
    <3> QED
      BY <1>1, <2>1, <3>1, <3>2 DEF CachesInv
  <2> QED
    BY <1>1, <1>4, <1>5, <2>2, <2>3, QuoteGoes
<1> QED
  BY <1>1, <1>6, <1>7

LEMMA AddonStep ==
    ASSUME PricingTypeOK, PricesInv, NEW q \in Quotes,
           NEW type \in BookingTypes, NEW legs \in LegCounts, NEW addon \in AddonRates,
           FindAddonRate(q, type, legs, addon)
    PROVE  PricingTypeOK' /\ PricesInv'
<1> PICK old, car, fees : old = quote[q] /\ car = quote[q].car /\ fees = quote[q].fees
  OBVIOUS
<1>1. old \in QuoteStates /\ QuoteInv(old) /\ old.step = "addon"
  BY DEF PricingTypeOK, PricesInv, FindAddonRate, At_
<1>2. /\ car \in CarRates /\ fees \in FeeTable
      /\ CarWas(CacheDays, car) /\ FeesWere(CacheDays, fees)
  <2>1. old \in [step : ReadingFees \cup {"addon"}, car : CarRates, fees : FeeTable]
    BY <1>1, QuoteAt
  <2> QED
    BY <1>1, <2>1 DEF QuoteInv
<1> PICK state : state = [step |-> "verify", type |-> type, legs |-> legs, car |-> car,
                          fees |-> fees, addon |-> addon]
  OBVIOUS
<1>3. state.step = "verify" /\ state.car = car /\ state.fees = fees
  OBVIOUS
<1>4. state \in QuoteStates
  BY <1>2 DEF QuoteStates
<1>5. QuoteInv(state)
  BY <1>2, <1>3 DEF QuoteInv, ReadingFees
<1> QED
  BY <1>4, <1>5, QuoteGoesAlone DEF FindAddonRate

LEMMA SaveQuoteStep ==
    ASSUME PricingTypeOK, PricesInv, NEW q \in Quotes, NEW client, SaveQuote(q, client)
    PROVE  PricingTypeOK' /\ PricesInv'
<1> PICK old : old = quote[q]
  OBVIOUS
<1>1. /\ old \in [step : {"verify"}, type : BookingTypes, legs : LegCounts, car : CarRates,
                  fees : FeeTable, addon : AddonRates]
      /\ ValidFinancials(old)
  <2>1. old \in QuoteStates /\ old.step = "verify" /\ ValidFinancials(old)
    BY DEF PricingTypeOK, SaveQuote, At_
  <2> QED
    BY <2>1, QuoteAt
<1>2. StoredAmounts(old) \in Amounts
  BY <1>1, Priced
<1> PICK state : state = [step |-> "saved", amounts |-> StoredAmounts(old)]
  OBVIOUS
<1>3. state \in QuoteStates
  BY <1>2 DEF QuoteStates
<1>4. QuoteInv(state)
  BY DEF QuoteInv, ReadingFees
<1> QED
  BY <1>3, <1>4, QuoteGoesAlone DEF SaveQuote

LEMMA EndQuoteStep ==
    ASSUME PricingTypeOK, PricesInv, NEW q \in Quotes, EndQuote(q)
    PROVE  PricingTypeOK' /\ PricesInv'
<1>1. NoQuote \in QuoteStates /\ QuoteInv(NoQuote)
  BY DEF NoQuote, QuoteStates, QuoteInv, ReadingFees
<1> PICK state : state = NoQuote
  OBVIOUS
<1> QED
  BY <1>1, QuoteGoesAlone DEF EndQuote

LEMMA QuoteSteps ==
    ASSUME PricingTypeOK, PricesInv, NEW q \in Quotes, QuoteStep(q)
    PROVE  PricingTypeOK' /\ PricesInv'
<1>1. /\ "service" \in FeeNames /\ "commission" \in FeeNames /\ "vat" \in FeeNames
      /\ "commission" \in ReadingFees /\ "vat" \in ReadingFees /\ "storeFees" \in ReadingFees
  BY DEF FeeNames, ReadingFees
<1>2. CASE FindCar(q) \/ ReadCar(q) \/ StoreCar(q) \/ GetFees(q) \/ StoreFees(q) \/ EndQuote(q)
  BY <1>2, FindCarStep, ReadCarStep, StoreCarStep, GetFeesStep, StoreFeesStep, EndQuoteStep
<1>3. CASE \/ ReadFee(q, "service", "commission") \/ ReadFee(q, "commission", "vat")
           \/ ReadFee(q, "vat", "storeFees")
  BY <1>1, <1>3, ReadFeeStep
<1>4. ASSUME NEW type \in BookingTypes, NEW legs \in LegCounts, NEW addon \in AddonRates,
             FindAddonRate(q, type, legs, addon)
      PROVE  PricingTypeOK' /\ PricesInv'
  BY <1>4, AddonStep
<1>5. ASSUME NEW off, SaveQuote(q, StoredAmounts(quote[q]).total + off)
      PROVE  PricingTypeOK' /\ PricesInv'
  <2> PICK client : client = StoredAmounts(quote[q]).total + off
    OBVIOUS
  <2> QED
    BY <1>5, SaveQuoteStep
<1> QED
  BY <1>2, <1>3, <1>4, <1>5 DEF QuoteStep

\* What was in force stays so long ago when a rate is changed: what is replaced is in force
\* until then.
HistoryStands ==
    /\ \A days \in Nat : \A rates : CarWas(days, rates) => CarWas(days, rates)'
    /\ \A days \in Nat : \A fees : FeesWere(days, fees) => FeesWere(days, fees)'

LEMMA RatesChange ==
    ASSUME PricingTypeOK, UNCHANGED <<today, carCache, feeCache, quote>>,
           \/ /\ feeRates' = feeRates /\ carRates' \in CarRates
              /\ lastSet' = [lastSet EXCEPT ![carRates] = today]
           \/ /\ carRates' = carRates /\ feeRates' \in FeeRates
              /\ lastSet' = [lastSet EXCEPT ![feeRates] = today]
    PROVE  PricingTypeOK' /\ HistoryStands
<1>1. /\ today \in 0..LastDay /\ carRates \in CarRates /\ feeRates \in FeeRates
      /\ lastSet \in [CarRates \cup FeeRates -> (0..LastDay) \cup {NoRate}]
  BY DEF PricingTypeOK
<1> PICK replaced \in CarRates \cup FeeRates :
      /\ replaced \in {carRates, feeRates}
      /\ lastSet' = [lastSet EXCEPT ![replaced] = today]
      /\ carRates' = carRates \/ replaced = carRates
      /\ feeRates' = feeRates \/ replaced = feeRates
  BY <1>1
<1>2. PricingTypeOK'
  BY <1>1 DEF PricingTypeOK
<1>3. today # NoRate /\ today - today = 0
  BY <1>1, PricingAssumption
<1>4. ASSUME NEW days \in Nat PROVE SetWithin(days, replaced)'
  BY <1>1, <1>3 DEF SetWithin
<1>5. ASSUME NEW days \in Nat, NEW r \in CarRates \cup FeeRates, SetWithin(days, r)
      PROVE  SetWithin(days, r)'
  <2>1. CASE r = replaced
    BY <1>4, <2>1
  <2>2. CASE r # replaced
    BY <1>1, <1>5, <2>2 DEF SetWithin
  <2> QED
    BY <2>1, <2>2
<1>6. ASSUME NEW days \in Nat, NEW rates, CarWas(days, rates) PROVE CarWas(days, rates)'
  <2>1. CASE rates = carRates
    BY <1>1, <1>4, <2>1 DEF CarWas
  <2>2. CASE rates \in CarRates /\ SetWithin(days, rates)
    BY <1>5, <2>2 DEF CarWas
  <2> QED
    BY <1>6, <2>1, <2>2 DEF CarWas
<1>7. ASSUME NEW days \in Nat, NEW name, NEW fee, FeeWas(days, name, fee)
      PROVE  FeeWas(days, name, fee)'
  <2>1. CASE feeRates[name] = fee
    BY <1>1, <1>4, <2>1 DEF FeeWas
  <2>2. ASSUME NEW r \in FeeRates, r[name] = fee, SetWithin(days, r)
        PROVE  FeeWas(days, name, fee)'
    BY <1>5, <2>2 DEF FeeWas
  <2> QED
    BY <1>7, <2>1, <2>2 DEF FeeWas
<1>8. HistoryStands
  BY <1>6, <1>7 DEF HistoryStands, FeesWere
<1> QED
  BY <1>2, <1>8

LEMMA SetRatesStep ==
    ASSUME PricingTypeOK, PricesInv,
           \/ \E rates \in CarRates \ {carRates} : SetCarRates(rates)
           \/ \E rates \in FeeRates \ {feeRates} : SetFeeRates(rates)
    PROVE  PricingTypeOK' /\ PricesInv'
<1>1. UNCHANGED <<carCache, feeCache, quote>>
  BY DEF SetCarRates, SetFeeRates
<1>2. PricingTypeOK' /\ HistoryStands
  BY RatesChange DEF SetCarRates, SetFeeRates
<1>3. 0 \in Nat /\ CacheDays \in Nat
  BY PricingAssumption
<1>4. ASSUME NEW q \in Quotes PROVE QuoteInv(quote[q])'
  <2> PICK state : state = quote[q]
    OBVIOUS
  <2>1. QuoteInv(state)
    BY DEF PricesInv
  <2>2. QuoteInv(state)'
    BY <1>2, <1>3, <2>1 DEF QuoteInv, HistoryStands
  <2> QED
    BY <1>1, <2>2
<1>5. CachesInv'
  <2>1. ASSUME carCache # NoRate
        PROVE  (CarWas(CacheDays - carCache.left, carCache.rates))'
    <3> PICK days, rates : days = CacheDays - carCache.left /\ rates = carCache.rates
      OBVIOUS
    <3>1. days \in Nat /\ CarWas(days, rates)
      BY <1>3, <2>1 DEF PricesInv, CachesInv, PricingTypeOK
    <3> QED
      BY <1>1, <1>2, <3>1 DEF HistoryStands
  <2>2. ASSUME feeCache # NoRate
        PROVE  (FeesWere(CacheDays - feeCache.left, feeCache.rates))'
    <3> PICK days, rates : days = CacheDays - feeCache.left /\ rates = feeCache.rates
      OBVIOUS
    <3>1. days \in Nat /\ FeesWere(days, rates)
      BY <1>3, <2>2 DEF PricesInv, CachesInv, PricingTypeOK
    <3> QED
      BY <1>1, <1>2, <3>1 DEF HistoryStands
  <2> QED
    BY <1>1, <2>1, <2>2 DEF CachesInv
<1> QED
  BY <1>2, <1>4, <1>5 DEF PricesInv

LEMMA ExpireStep ==
    ASSUME PricingTypeOK, PricesInv, EntryExpires
    PROVE  PricingTypeOK' /\ PricesInv'
<1>1. /\ Rates /\ quote' = quote
      /\ carCache' \in {carCache, NoRate} /\ feeCache' \in {feeCache, NoRate}
  BY DEF EntryExpires
<1>2. PricingTypeOK'
  BY <1>1 DEF PricingTypeOK, Rates
<1>3. ASSUME NEW q \in Quotes PROVE QuoteInv(quote[q])'
  <2> PICK state : state = quote[q]
    OBVIOUS
  <2>1. QuoteInv(state)'
    BY <1>1, QuotesStand DEF PricesInv
  <2> QED
    BY <1>1, <2>1
<1>4. CachesInv'
  <2>1. ASSUME carCache' # NoRate
        PROVE  (CarWas(CacheDays - carCache.left, carCache.rates))'
    <3> PICK days, rates : days = CacheDays - carCache.left /\ rates = carCache.rates
      OBVIOUS
    <3>1. carCache' = carCache
      BY <1>1, <2>1
    <3>2. CarWas(days, rates)'
      BY <1>1, <2>1, <3>1, RatesStand DEF PricesInv, CachesInv
    <3> QED
      BY <3>1, <3>2
  <2>2. ASSUME feeCache' # NoRate
        PROVE  (FeesWere(CacheDays - feeCache.left, feeCache.rates))'
    <3> PICK days, rates : days = CacheDays - feeCache.left /\ rates = feeCache.rates
      OBVIOUS
    <3>1. feeCache' = feeCache
      BY <1>1, <2>2
    <3>2. FeesWere(days, rates)'
      BY <1>1, <2>2, <3>1, RatesStand DEF PricesInv, CachesInv
    <3> QED
      BY <3>1, <3>2
  <2> QED
    BY <2>1, <2>2 DEF CachesInv
<1> QED
  BY <1>2, <1>3, <1>4 DEF PricesInv

LEMMA EntryAges ==
    ASSUME NEW S, NEW entry \in [rates : S, left : 0..CacheDays] \cup {NoRate},
           DayOlder(entry) # NoRate
    PROVE  /\ entry # NoRate /\ entry.left \in 1..CacheDays
           /\ DayOlder(entry) \in [rates : S, left : 0..CacheDays]
           /\ DayOlder(entry).rates = entry.rates
           /\ CacheDays - DayOlder(entry).left = (CacheDays - entry.left) + 1
<1>1. CacheDays \in Nat
  BY PricingAssumption
<1>2. entry # NoRate /\ entry \in [rates : S, left : 0..CacheDays] /\ entry.left # 0
  BY DEF DayOlder
<1>3. entry.left \in 1..CacheDays
  BY <1>1, <1>2
<1>4. DayOlder(entry) = [entry EXCEPT !.left = entry.left - 1]
  BY <1>2 DEF DayOlder
<1> PICK left : left = entry.left
  OBVIOUS
<1>5. left - 1 \in 0..CacheDays /\ CacheDays - (left - 1) = (CacheDays - left) + 1
  BY <1>1, <1>3
<1> QED
  BY <1>2, <1>3, <1>4, <1>5

LEMMA NextDayStep ==
    ASSUME PricingTypeOK, PricesInv, NextDay
    PROVE  PricingTypeOK' /\ PricesInv'
<1>1. /\ today' = today + 1 /\ today < LastDay
      /\ carCache' = DayOlder(carCache) /\ feeCache' = DayOlder(feeCache)
      /\ UNCHANGED <<carRates, feeRates, quote, lastSet>>
      /\ \A q \in Quotes : quote[q].step = "none"
  BY DEF NextDay, At_
<1>2. ASSUME NEW days \in Int
      PROVE  /\ \A rates : CarWas(days, rates) => CarWas(days + 1, rates)'
             /\ \A fees : FeesWere(days, fees) => FeesWere(days + 1, fees)'
  <2>1. ASSUME NEW r \in CarRates \cup FeeRates, SetWithin(days, r)
        PROVE  SetWithin(days + 1, r)'
    <3>1. lastSet[r] # NoRate /\ lastSet[r] \in Nat /\ today \in Nat /\ today - lastSet[r] <= days
      BY <2>1, TimesTyped DEF SetWithin
    <3>2. (today + 1) - lastSet[r] <= days + 1
      BY <3>1
    <3> QED
      BY <1>1, <3>1, <3>2 DEF SetWithin
  <2> QED
    BY <1>1, <2>1 DEF CarWas, FeesWere, FeeWas
<1>3. PricingTypeOK'
  <2>1. today' \in 0..LastDay
    BY <1>1, PricingAssumption DEF PricingTypeOK
  <2>2. CachesTyped'
    BY <1>1, EntryAges DEF PricingTypeOK, CachesTyped
  <2> QED
    BY <1>1, <2>1, <2>2 DEF PricingTypeOK, CachesTyped
<1>4. ASSUME NEW q \in Quotes PROVE QuoteInv(quote[q])'
  BY <1>1 DEF QuoteInv, ReadingFees
<1>5. CachesInv'
  <2>1. ASSUME carCache' # NoRate
        PROVE  (CarWas(CacheDays - carCache.left, carCache.rates))'
    <3> PICK days, rates : days = CacheDays - carCache.left /\ rates = carCache.rates
      OBVIOUS
    <3>1. /\ carCache # NoRate /\ carCache.left \in 1..CacheDays
          /\ carCache'.rates = rates /\ CacheDays - carCache'.left = days + 1
      BY <1>1, <2>1, EntryAges DEF PricingTypeOK
    <3>2. CarWas(days, rates) /\ days \in Int
      BY <3>1, PricingAssumption DEF PricesInv, CachesInv
    <3>3. CarWas(days + 1, rates)'
      BY <1>2, <3>2
    <3> QED
      BY <3>1, <3>3
  <2>2. ASSUME feeCache' # NoRate
        PROVE  (FeesWere(CacheDays - feeCache.left, feeCache.rates))'
    <3> PICK days, rates : days = CacheDays - feeCache.left /\ rates = feeCache.rates
      OBVIOUS
    <3>1. /\ feeCache # NoRate /\ feeCache.left \in 1..CacheDays
          /\ feeCache'.rates = rates /\ CacheDays - feeCache'.left = days + 1
      BY <1>1, <2>2, EntryAges DEF PricingTypeOK
    <3>2. FeesWere(days, rates) /\ days \in Int
      BY <3>1, PricingAssumption DEF PricesInv, CachesInv
    <3>3. FeesWere(days + 1, rates)'
      BY <1>2, <3>2
    <3> QED
      BY <3>1, <3>3
  <2> QED
    BY <2>1, <2>2 DEF CachesInv
<1> QED
  BY <1>3, <1>4, <1>5 DEF PricesInv

\* The inductive invariant of rates, caches and quotes.
THEOREM PricingInvariant == PricingSpec => [](PricingTypeOK /\ PricesInv)
<1>1. PricingInit => PricingTypeOK /\ PricesInv
  <2> SUFFICES ASSUME PricingInit PROVE PricingTypeOK /\ PricesInv
    OBVIOUS
  <2>1. /\ today = 0 /\ carRates \in CarRates /\ feeRates \in FeeRates
        /\ carCache = NoRate /\ feeCache = NoRate
        /\ quote = [q \in Quotes |-> NoQuote]
        /\ lastSet = [r \in CarRates \cup FeeRates |-> NoRate]
    BY DEF PricingInit
  <2>2. NoQuote \in QuoteStates /\ QuoteInv(NoQuote)
    BY DEF NoQuote, QuoteStates, QuoteInv, ReadingFees
  <2>3. 0 \in 0..LastDay
    BY PricingAssumption
  <2>4. \A q \in Quotes : quote[q] = NoQuote
    BY <2>1
  <2> QED
    BY <2>1, <2>2, <2>3, <2>4 DEF PricingTypeOK, PricesInv, CachesInv
<1>2. ASSUME PricingTypeOK, PricesInv, [PricingNext]_pricingVars
      PROVE  PricingTypeOK' /\ PricesInv'
  <2>1. CASE UNCHANGED pricingVars
    BY <1>2, <2>1 DEF pricingVars, PricingTypeOK, PricesInv, CachesInv, QuoteInv, CarWas,
       FeesWere, FeeWas, SetWithin
  <2>2. ASSUME NEW q \in Quotes, QuoteStep(q) PROVE PricingTypeOK' /\ PricesInv'
    BY <1>2, <2>2, QuoteSteps
  <2>3. CASE \/ \E rates \in CarRates \ {carRates} : SetCarRates(rates)
             \/ \E rates \in FeeRates \ {feeRates} : SetFeeRates(rates)
    BY <1>2, <2>3, SetRatesStep
  <2>4. CASE EntryExpires
    BY <1>2, <2>4, ExpireStep
  <2>5. CASE NextDay
    BY <1>2, <2>5, NextDayStep
  <2> QED
    BY <1>2, <2>1, <2>2, <2>3, <2>4, <2>5 DEF PricingNext
<1> QED
  BY <1>1, <1>2, PTL DEF PricingSpec

\* The type invariant of Pricing.
THEOREM PricingTypeCorrect == PricingSpec => []PricingTypeOK
  BY PricingInvariant, PTL

\* Whatever a booking is charged was in force at most CacheDays days ago, for any rates,
\* caches that keep any number of days, and requests under way.
THEOREM PricesStayRecent == PricingSpec => []PricesRecent
<1>1. ASSUME PricingTypeOK, PricesInv PROVE PricesRecent
  <2>1. ASSUME NEW q \in Quotes, At_(q, "verify")
        PROVE  CarWas(CacheDays, quote[q].car) /\ FeesWere(CacheDays, quote[q].fees)
    BY <1>1, <2>1 DEF PricesInv, QuoteInv, At_
  <2>2. DOMAIN lastSet = CarRates \cup FeeRates
    BY <1>1 DEF PricingTypeOK
  <2>3. ASSUME NEW q \in Quotes, At_(q, "verify")
        PROVE  InForceWithin(CacheDays, LAMBDA r : r = quote[q].car)
    BY <2>1, <2>2, <2>3 DEF InForceWithin, CarWas, SetWithin
  <2>4. ASSUME NEW q \in Quotes, At_(q, "verify"), NEW name \in FeeNames
        PROVE  InForceWithin(CacheDays, LAMBDA r :
                  r \in FeeRates /\ r[name] = quote[q].fees[name])
    <3>1. feeRates \in FeeRates
      BY <1>1 DEF PricingTypeOK
    <3> QED
      BY <2>1, <2>2, <2>4, <3>1 DEF InForceWithin, FeesWere, FeeWas, SetWithin
  <2> QED
    BY <2>3, <2>4 DEF PricesRecent
<1> QED
  BY <1>1, PricingInvariant, PTL

\* What a quote does that is saved.
PartsOf(state) == state.step = "saved" =>
    LET stored == state.amounts IN
    /\ Near(stored.total, stored.net + stored.security + stored.fee + stored.vat, 1)
    /\ Near(2 * stored.legs * stored.legEarns, 2 * stored.payout, stored.legs + 1)
    /\ stored.legs * stored.legPrice = stored.net
    /\ stored.payout <= stored.net

LEMMA PartsMean == PartsAddUp <=> \A q \in Quotes : PartsOf(quote[q])
  BY DEF PartsAddUp, PartsOf, At_

LEMMA PartsMeanNext == PartsAddUp' <=> (\A q \in Quotes : PartsOf(quote[q]))'
  BY PartsMean, PTL

\* A quote is saved by SaveQuote only.
LEMMA QuoteParts ==
    ASSUME PricingTypeOK, PartsAddUp, NEW q \in Quotes, QuoteStep(q)
    PROVE  PartsAddUp'
<1>1. \A other \in Quotes : PartsOf(quote[other])
  BY PartsMean
<1>2. ASSUME NEW state, Step(q, state), PartsOf(state) PROVE PartsAddUp'
  <2>1. ASSUME NEW other \in Quotes PROVE PartsOf(quote'[other])
    BY <1>1, <1>2, OneQuote
  <2>2. (\A other \in Quotes : PartsOf(quote[other]))'
    BY <2>1
  <2> QED
    BY <2>2, PartsMeanNext
<1>3. CASE \E client : SaveQuote(q, client)
  <2> PICK old : old = quote[q]
    OBVIOUS
  <2>1. /\ old \in [step : {"verify"}, type : BookingTypes, legs : LegCounts, car : CarRates,
                    fees : FeeTable, addon : AddonRates]
        /\ ValidFinancials(old)
    <3>1. old \in QuoteStates /\ old.step = "verify" /\ ValidFinancials(old)
      BY <1>3 DEF PricingTypeOK, SaveQuote, At_
    <3> QED
      BY <3>1, QuoteAt
  <2> PICK state : state = [step |-> "saved", amounts |-> StoredAmounts(old)]
    OBVIOUS
  <2>2. state.amounts = StoredAmounts(old)
    OBVIOUS
  <2>3. PartsOf(state)
    BY <2>1, <2>2, Priced DEF PartsOf
  <2>4. Step(q, state)
    BY <1>3 DEF SaveQuote
  <2> QED
    BY <1>2, <2>3, <2>4
<1>4. CASE FindCar(q)
  <2>1. \E state : Step(q, state) /\ state.step \in {"fees", "readCar"}
    BY <1>4 DEF FindCar
  <2> QED
    BY <1>2, <2>1 DEF PartsOf
<1>5. CASE ReadCar(q)
  <2>1. \E state : Step(q, state) /\ state.step = "storeCar"
    BY <1>5 DEF ReadCar
  <2> QED
    BY <1>2, <2>1 DEF PartsOf
<1>6. CASE StoreCar(q)
  <2> PICK old : old = quote[q]
    OBVIOUS
  <2>1. old \in [step : {"storeCar", "fees"}, car : CarRates]
    <3>1. old \in QuoteStates /\ old.step = "storeCar"
      BY <1>6 DEF PricingTypeOK, StoreCar, At_
    <3> QED
      BY <3>1, QuoteAt
  <2> PICK state : state = [old EXCEPT !.step = "fees"]
    OBVIOUS
  <2>2. Step(q, state) /\ state.step = "fees"
    BY <1>6, <2>1 DEF StoreCar
  <2> QED
    BY <1>2, <2>2 DEF PartsOf
<1>7. CASE \E step, fees : With(q, step, fees) /\ step # "saved"
  <2> PICK step, fees : With(q, step, fees) /\ step # "saved"
    BY <1>7
  <2> PICK state : state = [step |-> step, car |-> quote[q].car, fees |-> fees]
    OBVIOUS
  <2>1. Step(q, state) /\ state.step # "saved"
    BY DEF With
  <2> QED
    BY <1>2, <2>1 DEF PartsOf
<1>8. CASE \E type, legs, addon : FindAddonRate(q, type, legs, addon)
  <2>1. \E state : Step(q, state) /\ state.step = "verify"
    BY <1>8 DEF FindAddonRate
  <2> QED
    BY <1>2, <2>1 DEF PartsOf
<1>9. CASE EndQuote(q)
  <2>1. Step(q, NoQuote) /\ PartsOf(NoQuote)
    BY <1>9 DEF EndQuote, NoQuote, PartsOf
  <2> PICK state : state = NoQuote
    OBVIOUS
  <2> QED
    BY <1>2, <2>1
<1>10. \/ \E client : SaveQuote(q, client)
       \/ FindCar(q) \/ ReadCar(q) \/ StoreCar(q) \/ EndQuote(q)
       \/ \E step, fees : With(q, step, fees) /\ step # "saved"
       \/ \E type, legs, addon : FindAddonRate(q, type, legs, addon)
  BY DEF QuoteStep, GetFees, ReadFee, StoreFees
<1> QED
  BY <1>3, <1>4, <1>5, <1>6, <1>7, <1>8, <1>9, <1>10

\* The parts of what is stored add up, for any rates, and percentages of any precision.
THEOREM PartsAlwaysAddUp == PricingSpec => []PartsAddUp
<1>1. PricingInit => PartsAddUp
  <2> SUFFICES ASSUME PricingInit PROVE PartsAddUp
    OBVIOUS
  <2>1. \A q \in Quotes : quote[q] = NoQuote
    BY DEF PricingInit
  <2>2. PartsOf(NoQuote)
    BY DEF NoQuote, PartsOf
  <2> QED
    BY <2>1, <2>2, PartsMean
<1>2. ASSUME PricingTypeOK, PartsAddUp, [PricingNext]_pricingVars PROVE PartsAddUp'
  <2>1. CASE quote' = quote
    BY <1>2, <2>1, PartsMean, PartsMeanNext
  <2>2. ASSUME NEW q \in Quotes, QuoteStep(q) PROVE PartsAddUp'
    BY <1>2, <2>2, QuoteParts
  <2>3. quote' = quote \/ \E q \in Quotes : QuoteStep(q)
    BY <1>2 DEF PricingNext, pricingVars, SetCarRates, SetFeeRates, EntryExpires, NextDay
  <2> QED
    BY <2>1, <2>2, <2>3
<1> QED
  BY <1>1, <1>2, PricingTypeCorrect, PTL DEF PricingSpec
=============================================================================
