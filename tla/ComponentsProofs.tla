-------------------------- MODULE ComponentsProofs --------------------------
(***************************************************************************)
(* The components that MCComponents puts side by side: each of them, seen    *)
(* by itself, does there what its own specification allows.  What is proved  *)
(* of a component by itself therefore holds of the composed specification,   *)
(* for every value of the constants, and not for the instance of the run     *)
(* only.                                                                   *)
(***************************************************************************)
EXTENDS MCComponents, IamProofs, FleetProofs, TripProofs

-----------------------------------------------------------------------------
(* One component at a time.                                                 *)

\* A step of the composition is a step of a component or leaves it alone: its variables
\* are its own, no action of another one writes them.
LEMMA ComponentSteps ==
    ASSUME [Next]_vars
    PROVE  /\ [UsersNext]_usersVars
           /\ [OtpNext]_otpVars
           /\ [SessionNext]_sessionVars
           /\ [FleetNext]_fleetVars
           /\ [RentalNext]_rentalVars
           /\ [PricingNext]_pricingVars
BY DEF Next, vars

\* The composed specification implements that of each component.
THEOREM ComponentsByThemselves ==
    Spec => /\ UsersSpec /\ OtpSpec /\ SessionSpec /\ FleetSpec
            /\ RentalSpec /\ PricingSpec
<1>1. Init => /\ UsersInit /\ OtpInit /\ SessionInit /\ FleetInit
              /\ RentalInit /\ PricingInit
  BY DEF Init
<1> QED
  BY <1>1, ComponentSteps, PTL
     DEF Spec, UsersSpec, OtpSpec, SessionSpec, FleetSpec, RentalSpec, PricingSpec

\* The variables of the component that moves, and of those that do not, have their types.
THEOREM ComponentsTypeCorrect == Spec => []TypeOK
<1>1. /\ UsersTypeOK /\ OtpTypeOK /\ SessionTypeOK /\ FleetTypeOK
      /\ RentalTypeOK /\ PricingTypeOK
      => TypeOK
  BY DEF TypeOK
<1> QED
  BY <1>1, ComponentsByThemselves, UsersTypeCorrect, OtpTypeCorrect, SessionTypeCorrect,
     FleetTypeCorrect, RentalTypeCorrect, PricingTypeCorrect, PTL

\* Every property the run checks holds of the composition: accounts, codes and tokens,
\* cars, trips and their reminders, and prices.
THEOREM ComponentsKeepTheirPromises ==
    Spec => /\ [](ListsAgree /\ ChauffeursIdentified /\ OnboardingWhole) /\ DecisionsStand
            /\ [](OtpHoldsUnlessRaced /\ CodeDiesOnTime /\ RevokedIsRefused)
            /\ [](CarListsFresh /\ RegistrationsDistinct)
            /\ [](LegsTileThePeriod /\ RemindersKeepTime)
            /\ [](PricesRecent /\ PartsAddUp)
BY ComponentsByThemselves, ListsAlwaysAgree, ChauffeursStayIdentified, OnboardingStaysWhole,
   DecisionsStandAlways, OtpHolds, CodesDie, RevokedSafe, ListsStayFresh,
   RegistrationsStayDistinct, LegsAlwaysTile, RemindersAlwaysKeepTime, PricesStayRecent,
   PartsAlwaysAddUp, PTL
=============================================================================
