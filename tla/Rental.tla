-------------------------------- MODULE Rental --------------------------------
(***************************************************************************)
(* One rental and the clock: a booking is asked for, paid, given a chauffeur  *)
(* and started by the jobs that cron adds on the hour, and the legs of it are  *)
(* found for reminders by the minute the jobs run in.                        *)
(*                                                                         *)
(* BookingLifecycle.tla has the interleavings inside these steps; here each   *)
(* is one action and the times are the code's own.  A leg is never stored as   *)
(* ACTIVE (saveWithTransaction writes no legs), so the job that completes       *)
(* legs finds none and has no action.                                       *)
(***************************************************************************)
EXTENDS BookingRules

CONSTANTS
    Dates,        \* moments customers ask for, from and to
    Pickups,      \* pickup times they ask for
    AskedAt,      \* half-hours in which requests arrive
    LastHalfHour, \* bound of the clock
    NoRental

ASSUME RentalAssumption ==
    /\ Dates \subseteq Nat /\ AskedAt \subseteq Nat /\ LastHalfHour \in Nat
    /\ Pickups \subseteq PickupTimes

VARIABLES
    halfHour,     \* the half-hour it is
    rental,       \* the booking with its legs, or NoRental
    hourly,       \* jobs of this hour that have not run
    startsSent,   \* [LegNumbers -> times the start reminder went out]
    endsSent,     \* [LegNumbers -> times the end reminder went out]
    paidInTime,   \* history: paid more than an hour before the first leg
    missed        \* history: cron missed an hour, or a job failed, ran late or ran again

rentalVars == <<halfHour, rental, hourly, startsSent, endsSent, paidInTime, missed>>

MaxLegs == 3
MaxSent == 2
LegNumbers == 1..MaxLegs
HourlyJobs == {"booking-leg-start-reminder", "booking-leg-end-reminder", "confirmed-to-active"}

Rentals ==
    [period : [type : BookingTypes, start : Nat, end : Nat],
     legs : Seq([date : Nat, start : Nat, end : Nat]),
     status : {"PENDING", "CONFIRMED", "ACTIVE", "CANCELLED"}, chauffeur : BOOLEAN]

ASSUME NoRentalAssumption == NoRental \notin Rentals

BookingRequests == [type : BookingTypes, from : Dates, to : Dates, pickup : Pickups]

OnTheHour(t) == t % 2 = 0
LegsOfRental == DOMAIN rental.legs
Unhurt == UNCHANGED <<paidInTime, missed>>

-----------------------------------------------------------------------------
(* The booking.                                                             *)

CreateRental(req) ==
    /\ rental = NoRental
    /\ halfHour \in AskedAt
    /\ BookingAccepted(req, halfHour)
    /\ Len(BookingLegs(PeriodOf(req))) <= MaxLegs
    /\ rental' = [period |-> PeriodOf(req), legs |-> BookingLegs(PeriodOf(req)),
                  status |-> "PENDING", chauffeur |-> FALSE]
    /\ UNCHANGED <<halfHour, hourly, startsSent, endsSent>> /\ Unhurt

RentalIs(statuses) == rental # NoRental /\ rental.status \in statuses

\* The payment is confirmed, and with it the booking and its legs.
PayRental ==
    /\ RentalIs({"PENDING"})
    /\ rental' = [rental EXCEPT !.status = "CONFIRMED"]
    /\ paidInTime' = (halfHour + 2 < rental.period.start)
    /\ UNCHANGED <<halfHour, hourly, startsSent, endsSent, missed>>

GiveChauffeur ==
    /\ RentalIs({"CONFIRMED"})
    /\ ~rental.chauffeur
    /\ rental' = [rental EXCEPT !.chauffeur = TRUE]
    /\ UNCHANGED <<halfHour, hourly, startsSent, endsSent>> /\ Unhurt

\* Up to twelve hours before the start.
CancelRental ==
    /\ RentalIs({"CONFIRMED"})
    /\ halfHour + 24 <= rental.period.start
    /\ rental' = [rental EXCEPT !.status = "CANCELLED"]
    /\ UNCHANGED <<halfHour, hourly, startsSent, endsSent>> /\ Unhurt

-----------------------------------------------------------------------------
(* Cron and its jobs.                                                       *)

\* Windows are a minute wide, and begin now or an hour from now.
MinuteWindow == halfHour
\* Mutant: an hour and a half ahead.
LateReminderWindow == halfHour + 3
ReminderWindow == halfHour + 2

StartReminderLegs ==
    IF RentalIs({"CONFIRMED"})
    THEN {i \in LegsOfRental : rental.legs[i].start = ReminderWindow} ELSE {}

EndReminderLegs ==
    IF RentalIs({"ACTIVE"})
    THEN {i \in LegsOfRental : rental.legs[i].end = ReminderWindow} ELSE {}

\* The legs are stored as CONFIRMED from payment on; "booked" is whether the owner
\* has the car as BOOKED.
StartingLegs(booked) ==
    IF RentalIs({"CONFIRMED", "ACTIVE"}) /\ rental.chauffeur /\ booked
    THEN {i \in LegsOfRental : rental.legs[i].start = MinuteWindow} ELSE {}

\* A job that was run is gone, unless the process died before it could say so.
JobEnds(name, again) ==
    /\ hourly' = IF again THEN hourly ELSE hourly \ {name}
    /\ missed' = (missed \/ again)

Sent(count, legs) ==
    [i \in LegNumbers |-> IF i \in legs THEN count[i] + 1 ELSE count[i]]

RunStartReminders(again) ==
    /\ "booking-leg-start-reminder" \in hourly
    /\ \A i \in StartReminderLegs : startsSent[i] < MaxSent
    /\ startsSent' = Sent(startsSent, StartReminderLegs)
    /\ JobEnds("booking-leg-start-reminder", again)
    /\ UNCHANGED <<halfHour, rental, endsSent, paidInTime>>

RunEndReminders(again) ==
    /\ "booking-leg-end-reminder" \in hourly
    /\ \A i \in EndReminderLegs : endsSent[i] < MaxSent
    /\ endsSent' = Sent(endsSent, EndReminderLegs)
    /\ JobEnds("booking-leg-end-reminder", again)
    /\ UNCHANGED <<halfHour, rental, startsSent, paidInTime>>

\* activateLeg makes the booking ACTIVE on the day its period starts.
RunActivations(booked) ==
    /\ "confirmed-to-active" \in hourly
    /\ rental' = IF StartingLegs(booked) # {} /\ DayOf(halfHour) = DayOf(rental.period.start)
                 THEN [rental EXCEPT !.status = "ACTIVE"] ELSE rental
    /\ JobEnds("confirmed-to-active", FALSE)
    /\ UNCHANGED <<halfHour, startsSent, endsSent, paidInTime>>

\* Three attempts, each of them failing.
HourlyJobFails(name) ==
    /\ name \in hourly
    /\ hourly' = hourly \ {name}
    /\ missed' = TRUE
    /\ UNCHANGED <<halfHour, rental, startsSent, endsSent, paidInTime>>

\* On the hour cron adds the jobs, unless the server is down then.  A job does not wait
\* for the next of its kind.
TickHalfHour(up) ==
    /\ halfHour < LastHalfHour
    /\ halfHour' = halfHour + 1
    /\ IF OnTheHour(halfHour')
       THEN hourly = {} /\ hourly' = IF up THEN HourlyJobs ELSE {}
       ELSE up /\ hourly' = hourly
    /\ missed' = (missed \/ ~up \/ hourly' \cap hourly # {})
    /\ UNCHANGED <<rental, startsSent, endsSent, paidInTime>>

-----------------------------------------------------------------------------
RentalInit ==
    /\ halfHour = 0
    /\ rental = NoRental
    /\ hourly = {}
    /\ startsSent = [i \in LegNumbers |-> 0]
    /\ endsSent = [i \in LegNumbers |-> 0]
    /\ paidInTime = FALSE /\ missed = FALSE

RentalNext ==
    \/ \E req \in BookingRequests : CreateRental(req)
    \/ PayRental
    \/ GiveChauffeur
    \/ CancelRental
    \/ \E again \in BOOLEAN : RunStartReminders(again) \/ RunEndReminders(again)
    \/ \E booked \in BOOLEAN : RunActivations(booked)
    \/ \E name \in HourlyJobs : HourlyJobFails(name)
    \/ \E up \in BOOLEAN : TickHalfHour(up)

RentalSpec == RentalInit /\ [][RentalNext]_rentalVars

-----------------------------------------------------------------------------
RentalTypeOK ==
    /\ halfHour \in 0..LastHalfHour
    /\ rental \in Rentals \cup {NoRental}
    /\ hourly \subseteq HourlyJobs
    /\ startsSent \in [LegNumbers -> 0..MaxSent] /\ endsSent \in [LegNumbers -> 0..MaxSent]
    /\ paidInTime \in BOOLEAN /\ missed \in BOOLEAN

\* Whatever a customer asks for and gets, the legs (which earn the owner money and are
\* what gets started and reminded of) tile the period: the first begins with it, each is
\* over before the next begins and no later than the next day, and the last leaves less
\* than an hour of the period.
LegsTileThePeriod ==
    rental # NoRental =>
        LET legs == rental.legs period == rental.period IN
        /\ legs # <<>>
        /\ legs[1].start = period.start
        /\ \A i \in 2..Len(legs) :
             legs[i - 1].end <= legs[i].start /\ legs[i].start = legs[i - 1].start + HalfHoursPerDay
        /\ legs[Len(legs)].end <= period.end /\ period.end - legs[Len(legs)].end < 2

OnTime(t) == ~missed /\ OnTheHour(t) /\ halfHour >= t
Underway == RentalIs({"CONFIRMED", "ACTIVE"})

\* As long as cron and the jobs keep their hours: whoever has paid more than an hour
\* ahead is reminded once of the first leg, a trip that was started is reminded once of
\* the end of each leg, and nobody is reminded twice.
RemindersKeepTime ==
    /\ Underway /\ paidInTime /\ OnTime(rental.period.start) => startsSent[1] = 1
    /\ RentalIs({"ACTIVE"}) => \A i \in LegsOfRental :
         OnTime(rental.legs[i].end) => endsSent[i] = 1
    /\ ~missed => \A i \in LegNumbers : startsSent[i] <= 1 /\ endsSent[i] <= 1

\* What reminder.processor.ts and booking-leg-reminder.handler.ts say of start reminders:
\* they go out an hour before each leg, so that customers are reminded for each day's
\* journey.
EveryLegReminded ==
    Underway /\ paidInTime => \A i \in LegsOfRental :
        OnTime(rental.legs[i].start) => startsSent[i] = 1

-----------------------------------------------------------------------------
(* What the clock, the jobs and the rental keep to between two steps.         *)

\* The job that reminds of what happens at t has run.
RunFor(t, job) == halfHour + 2 > t \/ (halfHour + 2 = t /\ job \notin hourly)
StartRunFor(i) == RunFor(rental.legs[i].start, "booking-leg-start-reminder")
EndRunFor(i) == RunFor(rental.legs[i].end, "booking-leg-end-reminder")

\* Payment is on time when it is on time for the first leg; the trip begins when it is due.
BeginsInv ==
    /\ rental = NoRental \/ RentalIs({"PENDING"}) => ~paidInTime
    /\ RentalIs({"ACTIVE"}) => halfHour >= rental.period.start

\* Jobs are done in the first half of their hour.
JobsInv == ~OnTheHour(halfHour) => hourly = {}

\* Nobody is reminded twice, or before the job has run.
CountsInv == \A i \in LegNumbers :
    /\ startsSent[i] <= 1 /\ endsSent[i] <= 1
    /\ startsSent[i] = 1 => rental # NoRental /\ i \in LegsOfRental /\ StartRunFor(i)
    /\ endsSent[i] = 1 => RentalIs({"ACTIVE"}) /\ i \in LegsOfRental /\ EndRunFor(i)

\* After the job has run, whoever was due is reminded.
StartsInv ==
    Underway /\ paidInTime /\ OnTheHour(rental.period.start) /\ StartRunFor(1) =>
        startsSent[1] = 1

EndsInv ==
    RentalIs({"ACTIVE"}) => \A i \in LegsOfRental :
        OnTheHour(rental.legs[i].end) /\ EndRunFor(i) => endsSent[i] = 1

RemindersInv ==
    BeginsInv /\ (~missed => JobsInv /\ CountsInv /\ StartsInv /\ EndsInv)
=============================================================================
