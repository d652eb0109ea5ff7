------------------------------- MODULE Pricing -------------------------------
(***************************************************************************)
(* What a booking costs: the rates of the car and of the platform, each read  *)
(* through a cache of CacheDays days that nothing clears, and the amounts that  *)
(* are stored.                                                              *)
(*                                                                         *)
(* Time is days; a request takes less than one.  Amounts are kobo, stored      *)
(* columns whole ones (Decimal(10, 2)); percentages are parts of Whole, which  *)
(* is 10000 in the columns (Decimal(5, 2)).                                  *)
(***************************************************************************)
EXTENDS BookingRules, Integers, FiniteSets

CONSTANTS
    CarRates,      \* rates an owner sets: [DAY, NIGHT, FULL_DAY -> kobo]
    FeeRates,      \* rates an administrator sets: [service, commission, vat -> parts of Whole]
    Whole,         \* a hundred percent
    AddonRates,    \* rates of a day of security detail, 0 when there is none
    LegCounts,     \* legs of the bookings asked for
    CacheDays,     \* the 604800 seconds an entry is kept, in days
    LastDay,       \* bound of the calendar
    Quotes,        \* bookings being priced at one time
    NoRate

FeeNames == {"service", "commission", "vat"}

\* The DTOs of a car ask for positive rates.  Nobody checks the percentages, which are put
\* into the tables by hand; they are taken not to be negative.
ASSUME PricingAssumption ==
    /\ CacheDays \in Nat \ {0} /\ LastDay \in Nat
    /\ Whole \in Nat \ {0} /\ Whole % 2 = 0
    /\ CarRates \subseteq [BookingTypes -> Nat]
    /\ FeeRates \subseteq [FeeNames -> Nat]
    /\ AddonRates \subseteq Nat /\ LegCounts \subseteq Nat \ {0}
    /\ NoRate \notin CarRates \cup FeeRates /\ NoRate \notin Nat

VARIABLES
    today,
    carRates,      \* the car's row
    feeRates,      \* the platform fee and tax tables
    carCache,      \* [rates, left] or NoRate: left is the days the entry still has
    feeCache,
    quote,         \* [Quotes -> progress of a booking request]
    lastSet        \* history: [rates replaced at some time -> the last day they were in force]

pricingVars == <<today, carRates, feeRates, carCache, feeCache, quote, lastSet>>

NoQuote == [step |-> "none"]
At_(q, step) == quote[q].step = step
Step(q, state) == quote' = [quote EXCEPT ![q] = state]
Rates == UNCHANGED <<today, carRates, feeRates, lastSet>>

-----------------------------------------------------------------------------
(* The cost of a booking.                                                   *)

Rounded(amount, unit) == (amount + unit \div 2) \div unit

LegPrice(rates, type) == rates[type]

\* Amounts times Whole for each percentage taken of them.
NetTotal(q) == q.legs * LegPrice(q.car, q.type)
SecurityDetailCost(q) == q.addon * q.legs * SecurityDetailMultiplier(q.type)
NetWithSecurity(q) == NetTotal(q) + SecurityDetailCost(q)
ServiceFee(q) == NetWithSecurity(q) * q.fees.service
\* Mutant: the security detail is charged in the fee only.
SubtotalWithoutSecurity(q) == NetTotal(q) * Whole + ServiceFee(q)
SubtotalBeforeVat(q) == NetWithSecurity(q) * Whole + ServiceFee(q)
Vat(q) == SubtotalBeforeVat(q) * q.fees.vat
TotalAmount(q) == SubtotalBeforeVat(q) * Whole + Vat(q)
OwnerPayout(q) == NetTotal(q) * (Whole - q.fees.commission)

\* A leg has its share of the net total and of the payout.
StoredAmounts(q) ==
    [total    |-> Rounded(TotalAmount(q), Whole * Whole),
     net      |-> NetTotal(q),
     security |-> SecurityDetailCost(q),
     fee      |-> Rounded(ServiceFee(q), Whole),
     vat      |-> Rounded(Vat(q), Whole * Whole),
     payout   |-> Rounded(OwnerPayout(q), Whole),
     legs     |-> q.legs,
     legPrice |-> LegPrice(q.car, q.type),
     legNet   |-> Rounded(NetTotal(q), q.legs),
     legEarns |-> Rounded(OwnerPayout(q), Whole * q.legs)]

\* A kobo more or less is let through.
VerifyAmount(client, total) ==
    LET kobo == Whole * Whole
        difference == client * kobo - total IN
    difference \in -kobo..kobo

\* BookingFinancials refuses a booking that costs nothing.
ValidFinancials(q) == NetTotal(q) > 0 /\ TotalAmount(q) > 0 /\ OwnerPayout(q) >= 0

-----------------------------------------------------------------------------
(* The caches.                                                              *)

Fresh(rates) == [rates |-> rates, left |-> CacheDays]
DayOlder(entry) ==
    IF entry = NoRate \/ entry.left = 0 THEN NoRate ELSE [entry EXCEPT !.left = @ - 1]

\* findById looks in the cache; when Redis fails it reads the car and stores nothing.
\* Mutant: a hit starts the entry's days again.
FindCarSliding(q) ==
    /\ At_(q, "none")
    /\ \/ /\ carCache # NoRate
          /\ Step(q, [step |-> "fees", car |-> carCache.rates])
          /\ carCache' = Fresh(carCache.rates)
       \/ /\ carCache = NoRate
          /\ Step(q, [step |-> "readCar"])
          /\ UNCHANGED carCache
    /\ UNCHANGED feeCache /\ Rates
FindCar(q) ==
    /\ At_(q, "none")
    /\ \/ /\ carCache # NoRate
          /\ Step(q, [step |-> "fees", car |-> carCache.rates])
       \/ /\ carCache = NoRate
          /\ Step(q, [step |-> "readCar"])
       \/ Step(q, [step |-> "fees", car |-> carRates])
    /\ UNCHANGED <<carCache, feeCache>> /\ Rates

ReadCar(q) ==
    /\ At_(q, "readCar")
    /\ Step(q, [step |-> "storeCar", car |-> carRates])
    /\ UNCHANGED <<carCache, feeCache>> /\ Rates

\* A car that cannot be stored is priced all the same.
StoreCar(q) ==
    /\ At_(q, "storeCar")
    /\ carCache' \in {carCache, Fresh(quote[q].car)}
    /\ Step(q, [quote[q] EXCEPT !.step = "fees"])
    /\ UNCHANGED feeCache /\ Rates

With(q, step, fees) ==
    Step(q, [step |-> step, car |-> quote[q].car, fees |-> fees])

\* When Redis fails the rates are read though an entry may exist.  The code stores none
\* of them then; here StoreFees may, or may not.
GetFees(q) ==
    /\ At_(q, "fees")
    /\ \/ feeCache # NoRate /\ With(q, "addon", feeCache.rates)
       \/ With(q, "service", feeRates)
    /\ UNCHANGED <<carCache, feeCache>> /\ Rates

\* One query for each rate; what changes in between makes a mixture.
ReadFee(q, name, next) ==
    /\ At_(q, name)
    /\ With(q, next, [quote[q].fees EXCEPT ![name] = feeRates[name]])
    /\ UNCHANGED <<carCache, feeCache>> /\ Rates

StoreFees(q) ==
    /\ At_(q, "storeFees")
    /\ feeCache' \in {feeCache, Fresh(quote[q].fees)}
    /\ With(q, "addon", quote[q].fees)
    /\ UNCHANGED carCache /\ Rates

\* The type and the legs are the request's; they matter from here on.
FindAddonRate(q, type, legs, addon) ==
    /\ At_(q, "addon")
    /\ Step(q, [step |-> "verify", type |-> type, legs |-> legs,
                car |-> quote[q].car, fees |-> quote[q].fees, addon |-> addon])
    /\ UNCHANGED <<carCache, feeCache>> /\ Rates

\* The client's total is compared with the one computed here, which is stored.
SaveQuote(q, client) ==
    /\ At_(q, "verify")
    /\ ValidFinancials(quote[q]) /\ VerifyAmount(client, TotalAmount(quote[q]))
    /\ Step(q, [step |-> "saved", amounts |-> StoredAmounts(quote[q])])
    /\ UNCHANGED <<carCache, feeCache>> /\ Rates

\* Answered, or refused.
EndQuote(q) ==
    /\ At_(q, "verify") \/ At_(q, "saved")
    /\ Step(q, NoQuote)
    /\ UNCHANGED <<carCache, feeCache>> /\ Rates

-----------------------------------------------------------------------------
(* Changes, and days.                                                       *)

\* FleetApplicationService.updateCar: this module's cache is left as it is.
SetCarRates(rates) ==
    /\ carRates' = rates
    /\ lastSet' = [lastSet EXCEPT ![carRates] = today]
    /\ UNCHANGED <<today, feeRates, carCache, feeCache, quote>>

\* An administrator, in the tables.
SetFeeRates(rates) ==
    /\ feeRates' = rates
    /\ lastSet' = [lastSet EXCEPT ![feeRates] = today]
    /\ UNCHANGED <<today, carRates, carCache, feeCache, quote>>

\* On its last day an entry expires at some time.
EntryExpires ==
    /\ \/ carCache # NoRate /\ carCache.left = 0 /\ carCache' = NoRate /\ UNCHANGED feeCache
       \/ feeCache # NoRate /\ feeCache.left = 0 /\ feeCache' = NoRate /\ UNCHANGED carCache
    /\ UNCHANGED quote /\ Rates

NextDay ==
    /\ today < LastDay
    /\ \A q \in Quotes : At_(q, "none")
    /\ today' = today + 1
    /\ carCache' = DayOlder(carCache)
    /\ feeCache' = DayOlder(feeCache)
    /\ UNCHANGED <<carRates, feeRates, quote, lastSet>>

-----------------------------------------------------------------------------
PricingInit ==
    /\ today = 0
    /\ carRates \in CarRates /\ feeRates \in FeeRates
    /\ carCache = NoRate /\ feeCache = NoRate
    /\ quote = [q \in Quotes |-> NoQuote]
    /\ lastSet = [r \in CarRates \cup FeeRates |-> NoRate]

QuoteStep(q) ==
    \/ FindCar(q)
    \/ ReadCar(q) \/ StoreCar(q)
    \/ GetFees(q)
    \/ ReadFee(q, "service", "commission")
    \/ ReadFee(q, "commission", "vat")
    \/ ReadFee(q, "vat", "storeFees")
    \/ StoreFees(q)
    \/ \E type \in BookingTypes, legs \in LegCounts, addon \in AddonRates :
          FindAddonRate(q, type, legs, addon)
    \/ /\ At_(q, "verify")
       /\ \E off \in -1..2 : SaveQuote(q, StoredAmounts(quote[q]).total + off)
    \/ EndQuote(q)

PricingNext ==
    \/ \E q \in Quotes : QuoteStep(q)
    \/ \E rates \in CarRates \ {carRates} : SetCarRates(rates)
    \/ \E rates \in FeeRates \ {feeRates} : SetFeeRates(rates)
    \/ EntryExpires
    \/ NextDay

PricingSpec == PricingInit /\ [][PricingNext]_pricingVars

-----------------------------------------------------------------------------
FeeTable == [FeeNames -> Nat]
Amounts ==
    [total : Nat, net : Nat, security : Nat, fee : Nat, vat : Nat, payout : Nat,
     legs : Nat, legPrice : Nat, legNet : Nat, legEarns : Nat]
ReadingFees == {"service", "commission", "vat", "storeFees"}
QuoteStates ==
    [step : {"none", "readCar"}]
        \cup [step : {"storeCar", "fees"}, car : CarRates]
        \cup [step : ReadingFees \cup {"addon"}, car : CarRates, fees : FeeTable]
        \cup [step : {"verify"}, type : BookingTypes, legs : LegCounts, car : CarRates,
              fees : FeeTable, addon : AddonRates]
        \cup [step : {"saved"}, amounts : Amounts]

PricingTypeOK ==
    /\ today \in 0..LastDay
    /\ carRates \in CarRates /\ feeRates \in FeeRates
    /\ carCache \in [rates : CarRates, left : 0..CacheDays] \cup {NoRate}
    /\ feeCache \in [rates : FeeTable, left : 0..CacheDays] \cup {NoRate}
    /\ quote \in [Quotes -> QuoteStates]
    /\ lastSet \in [CarRates \cup FeeRates -> (0..LastDay) \cup {NoRate}]

\* Whether rates that satisfy inForce were in force at some time in the last days.
InForceWithin(days, inForce(_)) ==
    \/ inForce(carRates) \/ inForce(feeRates)
    \/ \E r \in DOMAIN lastSet : inForce(r) /\ lastSet[r] # NoRate /\ today - lastSet[r] <= days

\* Nothing clears the caches when a rate changes, so a booking may be charged an old rate;
\* but one that was in force at most CacheDays days ago, the car's as well as each fee
\* of the platform, though the fees need never have been in force together.
PricesRecent ==
    \A q \in Quotes : At_(q, "verify") =>
        /\ InForceWithin(CacheDays, LAMBDA r : r = quote[q].car)
        /\ \A name \in FeeNames :
             InForceWithin(CacheDays, LAMBDA r :
                r \in FeeRates /\ r[name] = quote[q].fees[name])

Near(a, b, n) == a - b \in -n..n

\* The columns are rounded one by one, yet the parts of a stored total are the total but
\* for a kobo, and what the legs earn the owner is the owner's payout but for half a kobo
\* a leg.
PartsAddUp ==
    \A q \in Quotes : At_(q, "saved") =>
        LET stored == quote[q].amounts IN
        /\ Near(stored.total, stored.net + stored.security + stored.fee + stored.vat, 1)
        /\ Near(2 * stored.legs * stored.legEarns, 2 * stored.payout, stored.legs + 1)
        /\ stored.legs * stored.legPrice = stored.net
        /\ stored.payout <= stored.net

-----------------------------------------------------------------------------
(* What the caches and the quotes keep to between two steps.                  *)

SetWithin(days, r) == lastSet[r] # NoRate /\ today - lastSet[r] <= days
CarWas(days, rates) == rates = carRates \/ (rates \in CarRates /\ SetWithin(days, rates))
FeeWas(days, name, fee) ==
    \/ feeRates[name] = fee
    \/ \E r \in FeeRates : r[name] = fee /\ SetWithin(days, r)
FeesWere(days, fees) == \A name \in FeeNames : FeeWas(days, name, fees[name])

\* An entry that has days left was in force within the days it has had.
CachesInv ==
    /\ carCache # NoRate => CarWas(CacheDays - carCache.left, carCache.rates)
    /\ feeCache # NoRate => FeesWere(CacheDays - feeCache.left, feeCache.rates)

\* What a request has read itself was in force on the day.
QuoteInv(state) ==
    /\ state.step = "storeCar" => CarWas(0, state.car)
    /\ state.step \in {"fees", "addon", "verify"} \cup ReadingFees =>
         CarWas(CacheDays, state.car)
    /\ state.step \in ReadingFees => FeesWere(0, state.fees)
    /\ state.step \in {"addon", "verify"} => FeesWere(CacheDays, state.fees)

PricesInv == CachesInv /\ \A q \in Quotes : QuoteInv(quote[q])
=============================================================================
