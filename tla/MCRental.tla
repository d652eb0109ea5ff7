------------------------------ MODULE MCRental -------------------------------
(* One rental of several days, for what is said of its reminders.             *)
EXTENDS Rental

(* Nine o'clock and half past nine.                                          *)
MCPickups ==
    {[hour |-> 9, half |-> 0, pm |-> FALSE], [hour |-> 9, half |-> 1, pm |-> FALSE]}
=============================================================================
