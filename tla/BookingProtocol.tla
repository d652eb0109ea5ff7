--------------------------- MODULE BookingProtocol ---------------------------
(***************************************************************************)
(* What the booking component promises about one booking, with no          *)
(* requests, no database writes that can fall apart, and no clock: a        *)
(* booking moves through the table in booking-status.vo.ts, its money       *)
(* moves in the same step, and the outside world is told about it only      *)
(* while it is true.  BookingLifecycle.tla, where every service call is     *)
(* several steps and calls interleave, is checked to implement this.        *)
(***************************************************************************)
EXTENDS FiniteSets

CONSTANTS Bookings,   \* booking ids
          Legs        \* leg ids; each booking has all of them

VARIABLES
    status,    \* [Bookings -> booking status], "NONE" before creation
    money,     \* [Bookings -> payment status]
    started    \* legs whose "leg started" event has been published

vars == <<status, money, started>>

(***************************************************************************)
(* BookingStatus.canTransitionTo: COMPLETED, CANCELLED and REJECTED are     *)
(* final, and a booking can be cancelled only while it is CONFIRMED.        *)
(***************************************************************************)
Transitions ==
    { <<"PENDING",   "CONFIRMED">>, <<"PENDING",   "REJECTED">>,
      <<"CONFIRMED", "ACTIVE">>,    <<"CONFIRMED", "CANCELLED">>,
      <<"ACTIVE",    "COMPLETED">> }

PaidStatuses == {"CONFIRMED", "ACTIVE", "COMPLETED"}

\* The payment status that goes with a booking status.
MoneyOf(s) == CASE s \in PaidStatuses  -> "PAID"
                [] s = "CANCELLED"     -> "REFUNDED"
                [] OTHER               -> "UNPAID"

Init ==
    /\ status  = [b \in Bookings |-> "NONE"]
    /\ money   = [b \in Bookings |-> "UNPAID"]
    /\ started = {}

Create(b) ==
    /\ status[b] = "NONE"
    /\ status' = [status EXCEPT ![b] = "PENDING"]
    /\ UNCHANGED <<money, started>>

Move(b, to) ==
    /\ <<status[b], to>> \in Transitions
    /\ status' = [status EXCEPT ![b] = to]
    /\ money'  = [money EXCEPT ![b] = MoneyOf(to)]
    /\ UNCHANGED started

\* Several bookings may be activated or completed by one batch.
MoveBatch(S, to) ==
    /\ S # {}
    /\ \A b \in S : <<status[b], to>> \in Transitions
    /\ status' = [b \in Bookings |-> IF b \in S THEN to ELSE status[b]]
    /\ money'  = [b \in Bookings |-> IF b \in S THEN MoneyOf(to) ELSE money[b]]
    /\ UNCHANGED started

\* The start of a leg is announced only while the trip is paid for.
AnnounceStart(b, l) ==
    /\ status[b] \in PaidStatuses
    /\ started' = started \cup {<<b, l>>}
    /\ UNCHANGED <<status, money>>

Next ==
    \/ \E b \in Bookings : Create(b)
    \/ \E b \in Bookings, to \in {"CONFIRMED", "REJECTED", "CANCELLED"} : Move(b, to)
    \/ \E S \in SUBSET Bookings, to \in {"ACTIVE", "COMPLETED"} : MoveBatch(S, to)
    \/ \E b \in Bookings, l \in Legs : AnnounceStart(b, l)

Spec == Init /\ [][Next]_vars
=============================================================================
