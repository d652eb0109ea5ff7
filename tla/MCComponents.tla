---------------------------- MODULE MCComponents -----------------------------
(* The components around the lifecycle of a booking, checked in one run.  They *)
(* share no variable, so their interleavings would show nothing that each of   *)
(* them does not show alone: the initial state chooses one, and that one moves. *)
EXTENDS Users, OneTimePassword, Session, Fleet, Rental, Pricing, TLC

VARIABLE component

vars == <<usersVars, otpVars, sessionVars, fleetVars, rentalVars, pricingVars,
          component>>

-----------------------------------------------------------------------------
CONSTANTS call1, call2

Symmetry == Permutations({call1, call2})

(* Nine o'clock, half past nine, and midnight written as 12 AM.               *)
MCPickups ==
    {[hour |-> 9, half |-> 0, pm |-> FALSE], [hour |-> 9, half |-> 1, pm |-> FALSE],
     [hour |-> 12, half |-> 0, pm |-> FALSE]}

(* Rates that leave fractions everywhere.                                     *)
OldCarRates == [DAY |-> 333, NIGHT |-> 200, FULL_DAY |-> 401]
NewCarRates == [DAY |-> 107, NIGHT |-> 51, FULL_DAY |-> 199]
MCCarRates == {OldCarRates, NewCarRates}
OldFeeRates == [service |-> 75, commission |-> 155, vat |-> 75]
NewFeeRates == [service |-> 100, commission |-> 155, vat |-> 77]
MCFeeRates == {OldFeeRates, NewFeeRates}

-----------------------------------------------------------------------------
Init ==
    /\ UsersInit /\ OtpInit /\ SessionInit /\ FleetInit
    /\ RentalInit /\ PricingInit
    /\ carRates = OldCarRates /\ feeRates = OldFeeRates
    /\ component \in {"users", "otp", "session", "fleet", "rental", "pricing"}

Next ==
    \/ /\ component = "users" /\ UsersNext
       /\ UNCHANGED <<otpVars, sessionVars, fleetVars, rentalVars, pricingVars, component>>
    \/ /\ component = "otp" /\ OtpNext
       /\ UNCHANGED <<usersVars, sessionVars, fleetVars, rentalVars, pricingVars, component>>
    \/ /\ component = "session" /\ SessionNext
       /\ UNCHANGED <<usersVars, otpVars, fleetVars, rentalVars, pricingVars, component>>
    \/ /\ component = "fleet" /\ FleetNext
       /\ UNCHANGED <<usersVars, otpVars, sessionVars, rentalVars, pricingVars, component>>
    \/ /\ component = "rental" /\ RentalNext
       /\ UNCHANGED <<usersVars, otpVars, sessionVars, fleetVars, pricingVars, component>>
    \/ /\ component = "pricing" /\ PricingNext
       /\ UNCHANGED <<usersVars, otpVars, sessionVars, fleetVars, rentalVars, component>>

Spec == Init /\ [][Next]_vars

\* States are told apart by what moves.
Moving ==
    <<component,
      CASE component = "users"   -> usersVars
        [] component = "otp"     -> otpVars
        [] component = "session" -> sessionVars
        [] component = "fleet"   -> fleetVars
        [] component = "rental"  -> rentalVars
        [] component = "pricing" -> pricingVars>>

\* The variables of the component that moves have their types.
TypeOK ==
    /\ component = "users" => UsersTypeOK
    /\ component = "otp" => OtpTypeOK
    /\ component = "session" => SessionTypeOK
    /\ component = "fleet" => FleetTypeOK
    /\ component = "rental" => RentalTypeOK
    /\ component = "pricing" => PricingTypeOK
=============================================================================
