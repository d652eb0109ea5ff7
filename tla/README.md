# TLA+ models of hyre-api

hyre-api is the server of a car-hire platform: a NestJS application over
PostgreSQL (Prisma), Redis (cache and BullMQ queues), the Flutterwave payment
gateway, an email and an SMS provider.  One process (`src/fly.toml`,
`min_machines_running = 1`) serves HTTP requests and runs the queue workers, so
every `await` is a place where another request or job may run.

This directory holds models of its core logic, the TLC configurations that check
them on small instances and TLAPS proofs for all instances.  `PROJECT.json` maps
each definition to the lines it models and lists runs, hazards and theorems.
Operators marked `Mutant` are plausible mistakes in the definition that follows them:
no specification uses them, and putting one in its place breaks the property that
`PROJECT.json` names for it.

## 1. Inventory

| component | state | operations | hard behaviour | correct when |
|---|---|---|---|---|
| Booking lifecycle (`booking/application/services`, `domain/entities`, the Prisma repository) | Booking and BookingLeg rows | create, attach intent, confirm, cancel, assign and unassign chauffeur, activate and complete legs | load - await - save on whole rows, no version check; legs saved one by one; both save methods write null for what a copy lacks; events after the commit | status and payment columns agree; legs follow the row; nobody hears that a cancelled trip starts; a charged customer is confirmed |
| Payment webhook (`payment`, `shared/orchestration`) | none of its own | deliver, swallow errors, answer 200 | duplicated and late deliveries | same as above |
| Payouts (`payment`) | PayoutTransaction rows, transfers at the gateway | initiate, retry, work off pending rows | cron job racing calls, lost answers, fresh reference per attempt, crash between transfer and save, a row that cannot be read, a write the client rejects | money goes out once, for a stored row, and the row says so; one row per booking |
| Payment verification callback | none: the intent is never saved | tell the customer where the payment stands | a verification path whose event nobody publishes | nobody reads of a confirmation that is not stored |
| Booking creation rules (`booking/domain`) | none | accept a period, cut it into legs, price it | midnight, periods of part hours, rounding | legs tile the period, parts add up |
| Booking reminders (`booking`, `scheduling`) | none | find legs in a window, publish | windows of minutes, jobs of an hour, a status that changes in between | each leg is reminded once |
| Scheduling (`scheduling`) | BullMQ queues | cron produces, three processors consume | redelivery, unknown job names | every job has an effect |
| Notifications (`communication`) | a Map in memory | send, pending job, retry | job racing a handler on a shared object, two channels of which one fails | SENT only if delivered, delivered once |
| Texts, orchestration (`communication/domain`, `shared/orchestration`) | none | turn an event into messages | handlers side by side, lookups that fail, templates that ask for what nobody gives | what people hear is so |
| One-time passwords (`iam`) | a Redis key with expiry | generate, verify, clear | read-modify-write of the attempt counter | a code is accepted once, after at most three guesses, and dies on time |
| Tokens (`iam`) | a Redis key per revoked token | issue, refresh, check, revoke | whole seconds, several awaits | a revoked token is refused |
| Users, approval, onboarding (`iam`) | User, BankDetails, DocumentApproval rows | register, approve, reject, onboard | racing decisions, whole-row writes, several tables without a transaction, two columns for one status | a decision stands, an onboarding is whole, lists agree |
| Fleets and cars (`fleet`) | Car rows, two lists in Redis, files | upload, approve, update, delete | check long before insert, lists deleted key by key | registrations differ, lists show the table |
| Rates and fees (`booking`) | copies in Redis for seven days | read through | fill after change; copies nobody invalidates | a price is at most seven days old |
| Files, clients, HTTP layer, health | - | - | input and output | see section 7 |

Components talk through domain events that are published after the commit and
handled in the same process (`@nestjs/cqrs`), through the shared tables, and
through the queues.  A handler that throws loses the event.

`PROJECT.json` lists all components with their files under "components" and what
can go wrong in them, line by line, under "hazards".

## 2. Modules

| module | what it is |
|---|---|
| `BookingProtocol` | abstract: a booking moves through the table of `booking-status.vo.ts`, its money moves in the same step, starts are announced only for paid bookings |
| `BookingLifecycle` | detailed: requests, webhook deliveries and the status worker between their awaits |
| `MCBookingLifecycle` | schedules and symmetry for TLC |
| `BookingLifecycleProofs` | TLAPS proofs about `BookingLifecycle`: money, notice |
| `BookingProtocolProofs` | TLAPS proofs about `BookingLifecycle`: legs, that it implements `BookingProtocol`, and what repeated webhooks can do |
| `PayoutProtocol` | abstract: one payout is opened, paid at most once while it is pending, recorded or failed, retried only after a failure; what an excuse permits |
| `Payout` | payouts: callers, the queue worker, the gateway, the table |
| `MCPayout` | symmetry for TLC |
| `PayoutProofs` | TLAPS proofs about `Payout`, and that it implements `PayoutProtocol` |
| `NotificationProtocol` | abstract: one notification is delivered in attempts, one at a time and three at most; what is left of that once two tasks share it |
| `Notification` | sending notifications: handlers, retries and the pending job on shared objects |
| `MCNotification` | symmetry for TLC |
| `NotificationProofs` | TLAPS proofs about `Notification`, and that it implements `NotificationProtocol` |
| `Users` | user rows, registration, approval decisions, onboarding |
| `OneTimePassword` | the key of one address in Redis, command by command |
| `Session` | access and refresh tokens of one user and the blacklist |
| `Fleet` | cars, their approval, the cached lists of cars |
| `BookingRules` | what a booking may ask for and its legs: operators, no state |
| `Rental` | one rental, the clock, the hourly jobs and their windows |
| `MCRental` | the pickup times of run `RentalLaterLegs` |
| `Pricing` | rates and fees behind caches, and the amounts of a booking |
| `Orchestration` | handlers under way, their messages, webhook and status page |
| `IamProofs` | TLAPS proofs about `OneTimePassword`, `Session` and `Users` |
| `FleetProofs` | TLAPS proofs about `Fleet` |
| `TripProofs` | TLAPS proofs about `Rental`, `Orchestration` and `Pricing` |
| `MCOrchestration` | the instance of `Orchestration` for the run `Messages` |
| `MCComponents` | `Users` to `Pricing`, six components in one run, one moving at a time |
| `ComponentsProofs` | TLAPS: the composition implements each of the six, and keeps what each promises |

### BookingLifecycle

`db` and `legStatus` are the two tables, with the columns the properties tell
apart.  A request occupies a slot of `op` that holds what the handler holds across
an await: the booking it works on, the aggregate it loaded and changed, the events
that aggregate has yet to publish and the legs still to write.  One action is the
code between two awaits that touch shared state:

- `CreatePendingBooking`, `AttachPaymentIntent` - `booking-creation.service.ts`.
  The intent is attached in memory only, as in the code.
- `Webhook`, `ConfirmBooking` / `ConfirmRejected`, `ConfirmWriteRow`,
  `ConfirmWriteLeg` - `confirmBookingWithPayment`: load and check, then the row,
  then one statement per leg.
- `CancelBooking`, `CancelWriteRow`, `PublishEvents` - `cancelBooking`.
- `AssignChauffeur`, `UnassignChauffeur` - load, change, publish; nothing saves.
- `JobQuery`, `JobLoad`, `JobSave`, `JobPublish` - `processBookingActivations`
  and `processBookingCompletions`: the query's DTOs, a second load, one
  transaction of `saveWithTransaction`, one event per leg.
- `RequestFails`, `JobFails`, `Crash` - any query throws, the process restarts.
- `CustomerPays` and `DispatchChauffeur` are outside the code: the gateway's page,
  and whoever writes `chauffeurId` (the start query requires it, no code in
  `src/` stores it).

`SavedRow` is the row an update leaves: Prisma keeps a column whose value is
`undefined`, as a missing payment is.  A missing chauffeur is `null`
(`getChauffeurId`), which both saves write.

Time is a count of ticks.  The code's time rules are comparisons with the start,
"twelve hours before", "same day" and "this very minute"; a tick is the least step
that tells them apart.  An await ends in the tick it began in or the next one:
`Tick` waits for older ones.  That is an assumption about the deployment, not
something the code enforces: no request takes as long as the twelve hours of
`isEligibleForCancellation` (`TimeAssumption`: the notice is at least two ticks).

### Payout

`rows` is the table, `transfers` what the gateway has really paid.  A call of
`initiatePayout` or `retryFailedPayout` is a slot of `op`, a run of
`processPendingPayouts` an element of `job` with the list it queried and the
payout the gateway has answered for.  The gateway's answer (`Outcomes`) is a
transfer, a refusal, or a transfer whose answer is lost: the client maps a
timeout to a failure.  `Saved` keeps `providerReference` when it is `undefined`,
as Prisma does.  `UniqueBooking` is the unique index on `bookingId`
(`extensionId` has none).  `Readable` is `toDomain`, which throws for an owner
without bank details, within the map over the whole result.

`excuses` is a history variable that only properties read.  It collects the
payouts that met something that may cost money twice: a retry after a failure
(fresh reference), an answer or a write that was lost, or the worker's query
finding a payout that somebody is paying.

`save()` names the column `updatedAt`, and the Prisma client rejects a write that names a
column the table lacks.  `TableColumns` is what the client knows, `SaveAccepted` whether
it takes the write: with `SchemaColumns`, the committed schema, every save fails; with
`CompletedColumns` it may succeed.  The theorems hold for both.

Nothing in `src/` calls `initiatePayout`, `retryFailedPayout` or
`markAsCompleted`.  The first two are the service's interface and are modelled as
calls that may come at any time; the last has no caller and no action.

### Notification

The repository hands out the objects it holds, so `note` is one object per
notification that every task reads and writes; `saved` is the Map.  A `task` is a
call of the service: a handler sending the notifications of an event (`send`), the
five-minute job (`pending`) or `retryFailedNotifications` (`retry`, the service's
interface; nothing in `src/` calls it).  It knows the notifications its loop has
yet to reach, the one it delivers and what it waits for.  One action is the code
between two awaits: `SaveNext`, `FindPendingNotifications`,
`FindNotificationsToRetry`, `RetryNext` / `RetryRefused`, `DeliverSaved` /
`DeliverPending` (`recordAttempt` and the call of the first provider), and
`ProviderAnswers`, which goes on to the SMS or settles the object (`markAsSent`,
which throws unless it is PENDING, or `markAsFailed`).  A throw ends a handler's
loop and not those of the two jobs.  A provider accepts, refuses, or accepts and
its answer is lost.  A crash empties the Map; objects keep their last state in the
model, nobody reads them any more.

`accepted` counts what providers took, up to two, and `picked` and `retried` say
which notifications the pending job and retries took up; only properties read them.
`DELIVERED` is left out: nothing calls `markAsDelivered`.  An error that is
reported has a message, so `markAsFailed` does not throw.

### Users

A request (`api`) reads rows, decides on what it read and awaits each lookup and
write; `step` names what it awaits, `user` is the entity it holds.  `userRow` has the
columns that the repository writes: `MapUserToPrisma` and `MapPrismaToUser` are the
conversions, with the two status columns (`FleetOwnerColumn`, `ChauffeurColumn`) and
without the columns no code stores (the type of a guest among them, so a guest who
returns is refused).  The queries are operators over the rows.  `StoreUser` is the
update branch: all columns but the roles.  `CreateRow` is the insert; the table holds
addresses apart and nothing else.  Onboarding is `ProcessOnboarding`,
`BankAccountAnswered`, `CertificateUploaded` and three writes.  `interfered` collects
users whose onboarding was cut between two writes or overwritten by an older copy.

### OneTimePassword and Session

Each call computes and sends Redis one command; the command takes effect in a step of
its own.  `Verdict` is what `verifyOtpByKey` makes of what it read.  Time runs in half
seconds since Redis and tokens count whole ones: the fractions are what rounding
loses.  `raced` gives up the tally of codes whose verifications overlapped, were
overtaken by another write, or were cut short.  In `Session` a token is the second it
was signed in, as the payload is the same otherwise.

### Fleet

`UploadCar` looks the number up, `InsertCar` follows after the uploads.  A change is
saved as a whole row, then `DeleteAvailableList` and `DeletePendingList` delete the
two keys.  Readers are `FetchList` and `StoreList`.  `FleetOf` takes the owner of a
fleet from a column only chauffeurs have, as `mapToFleet` does, so a removal is
refused.  `torn` collects lists that a late reader stored or whose deletion was cut,
`rivals` the numbers two uploads asked for at one time.

### BookingRules, Rental, Pricing

`BookingRules` has the periods and legs, in half-hours since a midnight.  `Rental`
lets one customer ask for any of them, pays it and runs the jobs that cron adds on
the hour.  Jobs may fail, run late, or run again.  `Pricing` reads the car's rates
and the platform's three rates through their caches, computes the cost in kobo times
the powers of ten its percentages need, and rounds where the columns do.

### Orchestration

A handler is started by an event, looks things up (each lookup may fail) and has its
messages delivered one by one.  A template is the set of variables it asks for, a
factory the set it gives, and a message carries what is left blank.  A confirmation and a
cancellation read the row in one step and write it in another (`ConfirmTrip`, `SaveTrip`;
`CancelTrip`, `SaveCancelled`), so a repeated webhook may write over a cancellation.
`ProcessPending` is the job that finds what a handler is delivering, `carried` its list,
and `DeliverPending` delivers one of it once more, however late.  `cancellation` says
whether anything else was under way when a cancellation was written: "alone", or
"crossed".

## 3. Runs

| run | instance | distinct states | shows |
|---|---|---|---|
| `BookingSafety` | one booking of two days, two requests, two charges, webhooks redelivered, failures | 453 k | `MoneyMatchesStatus`, `LegsTrailBooking`, `LegsConfirmedUnlessInterrupted`, `CancelledNeverStarts`, `OnlyRedeliveryReverts`, `TypeOK` |
| `BookingBatch` | two one-night bookings in one batch, two requests, failures | 548 k | `FollowsProtocol` (refinement of `BookingProtocol`), `ChauffeurIsKept` |
| `BookingLiveness` | one booking of two days, no failures, fairness | 84 k | `ChargedIsConfirmed`, `CancellationIsAnnounced` |
| `PayoutSafety` | a booking and an extension, three payouts and transfers, two calls, a worker, failures | 709 k | `ProcessingHasTransfer`, `OnePayoutPerBooking`, `TransfersAccounted`, `PaidIsStored`, `FollowsProtocol` (refinement of `PayoutProtocol`), `TypeOK` |
| `NotificationSafety` | two notifications, two handlers or retries, the pending job, restarts | 1.85 M | `SentIsDelivered`, `PendingIsHeld`, `DeliveredOnce`, `AttemptsLimited`, `SentIsFinal`, `FollowsProtocol` (refinement of `NotificationProtocol`), `TypeOK` |
| `Components` | six components, each by itself: four users, two codes, two cars, a rental of up to two legs, one quote; two calls at a time | 1.09 M | fourteen properties, below |
| `Messages` | one booking, two handlers or services at a time, the pending job, failures | 807 k | `ToldTruly`, `OrchestrationTypeOK` |
| `BookingLegStatusLost` | violation | | finding 1 |
| `BookingChauffeurLost` | violation | | finding 2 |
| `BookingWebhookTwice` | violation | | finding 3 |
| `PayoutNeverStored` | violation | | finding 4 |
| `RentalLaterLegs` | violation | | finding 5 |

Bounds.  Races between requests need two slots: a load, a foreign write, a save.
Two legs are what it takes for a save to be cut short between them and for a
second day; two bookings are what it takes for a batch to carry a stale copy of
one while working on the other.  In the one-night runs `Horizon` is the last tick
any guard mentions; the two-day runs stop one tick before the end of the second day,
`EndDateTime`, when the worker would look for ending legs and, by finding 1, find none.
`PayoutSafety` gives the table the column that `save()` wants (`CompletedColumns`),
otherwise there would be nothing in it; every write may fail there as well, so that the
behaviours with the committed schema are among those it explores.  Every owner has bank
details there (`NoBank = {}`); the theorems hold for any `NoBank`.  Three payouts allow a refused one, its successor, and one of another
subject; three transfers allow a double payment and a further one; a transfer
needs an unused id, so `TransferIds` bounds how often money goes out.  With more
of each the same patterns repeat.  Two notifications are what one event creates at
most, and two callers plus the job are enough for a handler, a retry and the job to
meet on one object; attempts stay below a bound of their own accord, and
`accepted` is capped at two (`OneMore`) because no property asks for more.  The
interesting cases are reached: the mutants of `PROJECT.json` break every property in
this instance, and section 5 proves the safety properties for all sizes.

`Components` lets the initial state choose one component and only that one moves:
they share no variable, and `VIEW Moving` tells states apart by what moves, so the run
is the sum of six runs.  Two requests are a race, and a third adds none that two
do not have; of four users one is the administrator, and three are an owner, a
chauffeur and a rival.  A code lives one second, that is two steps of its clock, and
the clock runs one step beyond; tokens live one second, and the clock allows a second
that begins in the middle.  Rentals are asked for at midnight and early in the
morning of the first day, for dates that give one leg or two, at a
full hour and at half past, and for a last date within an hour of the first: the clock
runs to 23:00 of the second day, when the last leg by day is over.  Caches keep a day
instead of seven, on a calendar of three, with rates that leave fractions everywhere;
percentages are in tenths there (`Whole = 1000`) and in hundredths in the columns,
because TLC's integers have 32 bits.

In `Messages` two slots are what it takes for a repeated webhook to meet a cancellation.
One telephone book, in which only the customer has a number, gives messages of two
channels and of one.  The pending job finds one message at a time (`ListBound = 1`); a
longer list is delivered one by one as well.

`CHECK_DEADLOCK FALSE` is set for the booking runs because the clock stops at
`Horizon`, and for `PayoutNeverStored`, where a call that finds no unused id stops:
both are bounds of the models.  The clocks of `Components` and of `RentalLaterLegs`
stop at their bounds too.  So is the end of the notification run, where every
object has been used.  `PayoutSafety` and `Messages` check deadlock.

Symmetry is used in safety runs only.

Fairness.  Node runs every continuation whose await has ended, hence weak fairness
of `RequestStep`, `JobStep` and `WorkerStep`; the worker's includes starting a
job because cron queues one every fifteen minutes and BullMQ runs what is queued.
Delivery of a webhook is strongly fair: slots are a bound of the model, the server
accepts a request whenever it comes, so a delivery that finds a free slot again
and again gets through.  Customers, callers, the cron job of the status worker and
the clock owe nothing.  The liveness runs assume no failures: with them the
properties do not hold, since nothing in the code resumes a confirmation or a
publication that was cut short.  In `PayoutNeverStored` a write the client rejects is a
step that must be taken as well.

What the less obvious properties say:

- `LegsConfirmedUnlessInterrupted` - a failed or crashed confirmation between the
  row and its last leg is the *only* way to a paid booking with a pending leg (a
  leg the start query never returns).  `interrupted` records exactly those.
- `CancelledNeverStarts` - the worker announces from DTOs of its query, several
  awaits old; what keeps it right is the twelve-hour notice, not a check.
- `FollowsProtocol` - concurrent whole-row writes never take a booking along an
  illegal edge nor split status and money, as long as webhooks are not duplicated.
- `OnlyRedeliveryReverts` - what is left of the table of transitions when webhooks
  repeat.  Finding 3 is the only way out of it: a row goes back to CONFIRMED, from ACTIVE
  or CANCELLED, by a confirmation that is about the very payment the row names.
- `ChauffeurIsKept` - copies loaded before a chauffeur was dispatched may be written
  after, and would take the chauffeur away.  While each webhook is delivered once only a
  cancellation does: a chauffeur comes after the one confirmation, and the worker's
  copies are of bookings that have one.  A repeated confirmation would, too.
- `TransfersAccounted` - apart from `excuses`, no payout is paid twice, and a
  transfer is either recorded in the row or about to be by exactly one payer.
- `PaidIsStored` - no transfer for a payout the table does not know: it rests on the
  order of insert and transfer and on a call ending where its insert fails.

- `FollowsProtocol` of `Payout` - calls and workers write copies that may be several
  awaits old, and yet a payout without an excuse is paid only while its row is pending
  and nothing was paid, and is recorded or failed accordingly.  An excused one may be
  paid again and written out of turn; its row still names only its own transfers, and it
  is never opened anew.
- `FollowsProtocol` of `Notification` - loops, copies and the Map are gone: a
  notification is `waiting` for its deliverer or with one provider, until the pending job
  takes it up (`shared`), which it only does with what somebody is delivering already.

- `SentIsDelivered` - two tasks on one object may each reach `markAsSent`; the one
  that gets there first has had every channel's answer itself.
- `PendingIsHeld` - between two awaits a stored PENDING notification has a
  deliverer.  The Map being in memory, there are no orphans for the pending job to
  find: whatever it finds, it delivers a second time.  `DeliveredOnce`,
  `AttemptsLimited` and `SentIsFinal` hold for the notifications it never took up;
  without that exception TLC finds a counterexample to each of the three.

Run `Components`:

- `ListsAgree` - the status an entity has after it was read back, and five queries on
  two columns, say the same of every user: each maps six statuses by its own table.
- `ChauffeursIdentified` - two requests that both found a phone number free do not
  both create a chauffeur; what stops them is the address made of the number.
- `OnboardingWhole` - bank details, flag and certificate come together, unless an
  onboarding ended between its writes or an older copy of the user was written.
- `DecisionsStand` - what is decided changes only by a request that had read the
  user before.
- `OtpHoldsUnlessRaced` - a code that met no overlap is compared with at most three
  guesses and lets one caller in; without the exception TLC finds more of both.
- `CodeDiesOnTime` - nobody is let in by a code after its lifetime, however often it is
  written back and although the rounded TTL may keep its key a little longer.
- `RevokedIsRefused` - once a logout is answered the guard refuses the token, but for
  its last second: the blacklist rounds down.
- `CarListsFresh`, `RegistrationsDistinct` - lists and numbers are right up to `torn`
  and `rivals`, and the next change puts a torn list right.
- `LegsTileThePeriod` - for every accepted request the legs begin with the period,
  follow each other by a day and leave less than an hour.
- `RemindersKeepTime` - what reminders of the first leg and of ends do as long as
  cron and jobs are on time; only for legs on the hour.
- `PricesRecent` - each rate in a price was in force within the cache's days;
  the rates need never have been in force together.
- `PartsAddUp` - the rounded columns add up to the rounded total but for a kobo; each
  part has a basis of its own, the total is built up from the subtotal and its tax.
Run `Messages`:

- `ToldTruly` - nobody hears of a booking before a confirmation is stored nor of a
  cancellation that never was; a cancellation that was stored with nothing else under
  way stands and stays the customer's last word, and only reminders of an end come with
  blanks.  Of a cancellation that crosses a handler, another request or the pending job
  it says no more: then finding 3 may undo it, and an older message may come last.

## 4. Findings

1. **A started leg is never stored as started.**  `processBookingActivations`
   saves with `saveWithTransaction`, whose update branch writes no legs; the leg
   stays CONFIRMED, the completion query never finds it and no booking becomes
   COMPLETED (`BookingLegStatusLost`).
2. **An assigned chauffeur is announced and not stored** (`BookingChauffeurLost`).
3. **Two deliveries of a webhook racing a cancellation** write CONFIRMED and PAID
   over CANCELLED and REFUNDED (`BookingWebhookTwice`).
4. **No payout is ever stored.**  `save()` of the payout repository names `updatedAt`,
   which `PayoutTransaction` does not have, so the Prisma client rejects every write:
   no row, no transfer and nothing to track or retry (`PayoutNeverStored`; `NothingPaid`
   for all instances).  Nothing in `src/` calls `initiatePayout` yet.

5. **Later legs get no reminder of their start.**  Comments promise one for each
   day's journey; the query asks for CONFIRMED bookings, and a booking is ACTIVE
   from its first leg on (`RentalLaterLegs`).

Other behaviour the models have because the code has it, and that no doc of the
repository contradicts in so many words:

- A returning guest is refused: the type of a guest is not stored.
- A retry of an onboarding that failed after its first write is refused for good.
- A logout leaves refresh tokens good; two tokens signed for one user within one
  second are the same, so revoking one revokes both.
- A car cannot be removed and a fleet not created: the owner of a fleet is read from
  a column that owners have empty.
- A booking of a NIGHT is one night, whatever last date was asked for; a FULL_DAY is
  counted in whole hours.
- A change of rates reaches prices when the cache of seven days runs out.
- A trip that begins at half past is never started, since jobs run on the hour and
  windows are a minute wide.
- A repeated confirmation also takes the chauffeur from the row, since `save()` writes
  null for a copy that has none.
- Once payouts can be stored, two calls for one extension may both find none in progress
  and both insert one: `extensionId` is not unique.  A payout whose owner has no bank
  details stops the job for all pending ones as long as it is pending.
- The owner's alert waits for the customer's message and is skipped when that fails.
- Reminders of an end ask for `endTime`, which no variable fills.
- Cancellations, payouts, registrations and approvals are written to the log for
  everybody but the customer.

## 5. Proofs

Every safety invariant and every action property of a passing run is proved for all
values of the constants, with and without failures; redelivered webhooks are excluded
where a theorem says so.  The three refinements are proved as well.  The proofs use the named assumptions of the
modules only:

- values that stand for null are none of the values they stand beside
  (`NoneAssumption`, `ValueAssumption`, `TaskAssumption`, `UsersAssumption`,
  `NobodyAssumption`, `FleetAssumption`, `NullAssumption`, `NoRentalAssumption`,
  `NothingAssumption`);
- parameters are of their kind: a schedule is a schedule (`ScheduleAssumption`),
  bookings are no extensions (`SubjectAssumption`), phone books are sets of people
  (`PhoneBooksAssumption`), switches are Boolean (`SwitchAssumption`), lifetimes and clocks are natural numbers (`OtpAssumption`, `SessionAssumption`,
  `RentalAssumption`);
- a request fits into the notice (`TimeAssumption`), the assumption about the
  deployment of section 2;
- rates and percentages are not negative and a hundred percent is an even number of
  the units they are stored in (`PricingAssumption`; it is 10000).

`BookingLifecycleProofs`

- `TypeCorrect`: `Spec => []TypeOK`.
- `MoneySafe`, `LegsSafe` from `MoneyInvariant`.  `MoneyMatchesStatus` is not
  inductive: a stale copy in a slot could break it.  `MoneyInv` says that every
  row is untouched by money or *settled* for a charge that was made, that every
  copy about to be written is settled already, and that a row whose legs are being
  written is settled; a settled row only ever becomes another settled row, so it
  does not matter whose write comes last.
- `NoCancelledStart` from `NoticeInvariant`: a cancellation still to be written
  began at least the notice before the start and ends within a tick, the worker has
  legs only from the start on, hence the two never overlap and what the worker
  holds is not cancelled.

`PayoutProofs`

- `CopiesInvariant`, `TypeCorrect`: a copy in memory refers to a stored row of the
  same subject, an answer in memory to a transfer that was made; no two calls
  create the same id.
- `RowsHaveTransfers` and `BookingsPaidByOneRow` (`ProcessingHasTransfer`,
  `OnePayoutPerBooking`): `Writers` reduces a step to "the tables only grow" or
  "one such copy is saved".
- `PaidStored` (`PaidIsStored`): what the gateway is asked to pay is in the table, and
  nothing leaves it.  `NothingPaid`: if the client rejects what `save()` writes, the
  table stays empty and the gateway is never asked.
- `MoneyAccounted` (`TransfersAccounted`) from `Ledger`: a payout without an
  excuse has one payer, has cost nothing before it is tried and after a refusal,
  and its one transfer is held or recorded.  `Untouched` is the part of the argument
  common to all steps: a step that neither gives a payout a new payer nor money,
  nor takes an answer for it, keeps its ledger; each action then is about a single
  payout.
- `ImplementsProtocol` (`FollowsProtocol`) from `LedgerInvariant`, which adds to the
  ledger the rows that are awaited (`Awaits`): while somebody pays a payout without an
  excuse, or holds the answer for it, its row is pending, and while somebody is about to
  retry it, failed.  So a write for such a payout is a step of the protocol, however old
  the copy; for any other the protocol asks only that the transfer named was made for it.

`NotificationProofs`

- `IInvInvariant`: `IInv` says of each task what it may assume of the
  notifications it queues or holds (`TaskOK`), that what a handler has yet to save is
  its own (`OwnQueues`), and of each notification the pending job never took up that
  it has at most one deliverer, is PENDING as long as it has one, and has used up at
  most its `Quota` (`SoleDelivery`).  None of the properties is inductive alone: a
  second deliverer would break each.  A retry only takes up what is FAILED, hence has
  no deliverer; that is why concurrent retries are harmless.
- `SentNotificationsDelivered`, `PendingNotificationsHeld`, `NothingDeliveredTwice`,
  `AttemptsBounded` follow from it, `SentNotificationsFinal` from it and one step.
- `ImplementsProtocol` (`FollowsProtocol`), restarts included.  The refinement mapping
  (`Phase`) reads off the tasks whether a notification is waiting, with a provider, or
  shared.  By `IInv` what was not picked up has one deliverer, so its phase moves with
  that task only; a task that ends a loop early drops the others from waiting.  Of a
  shared one the steps keep what `SentIsDelivered` says, and that it was created
  (`SeenInvariant`).

`BookingProtocolProofs`

- `LegsConfirmed` (`LegsConfirmedUnlessInterrupted`) from `LegsInvariant`: a
  confirmation has written every leg that is not in its list any more, and whoever
  else writes a row does so for a booking past its confirmation, hence cannot make a
  pending leg one of a paid booking.
- `ImplementsProtocol` (`FollowsProtocol`) from `ProtocolInvariant`, both for webhooks
  that are delivered once.  The whole-row writes are what makes it hard: a write is a
  legal step only if the row still is what the copy was made from.  `ProtocolInv` says
  why: a booking has one successful charge, hence one confirmation, and its row waits
  for that one; a cancellation ends before the trip begins; the worker's copies are one
  status ahead of their rows.  The step then is one of three kinds, a creation, a
  confirmation or cancellation, or a batch of the worker, each a step of the protocol.
- `LegalWhenDeliveredOnce`: under the same hypothesis no row makes an illegal
  transition.  With finding 3 this says that redelivery is the cause of that finding.
- `RedeliveryOnly` (`OnlyRedeliveryReverts`) from `RedeliveryInvariant`, with any number
  of deliveries: every confirmation under way, the first or a repeated one, is about the
  booking's one successful charge, so what it writes over a started or cancelled row is
  the payment that row has.  The worker holds copies of confirmed or started bookings
  only, and while it does no cancellation is under way (the notice again).
- `ChauffeurStays` (`ChauffeurIsKept`) from `ChauffeurInvariant`, on top of the former,
  again for webhooks that are delivered once: a repeated confirmation writes null.
- `NothingEnds`: no booking is ever COMPLETED, finding 1 for all instances.

`IamProofs`

- `RevokedSafe` (`RevokedIsRefused`) from `SessionInvariant`: what a logout computed
  from what was left of the token covers it up to its last second whenever the command
  takes effect, and a call that finds a logged-out token missing from the blacklist
  finds it in that second.
- `CodesDie` (`CodeDiesOnTime`) from `DatesInvariant`: every copy of a code, stored or
  held, has the expiry it was generated with, so writing it back prolongs nothing.
- `OtpHolds` (`OtpHoldsUnlessRaced`) from `OtpInvariant`: a code that met no overlap is
  about to be stored, or stored, or held by one verification, or gone, and the guesses
  made of it are those the key counts or one more.
- `UsersInvariant`: `ColumnsInv` (a status column is filled exactly for its role),
  `IdentityInv` (addresses differ, a chauffeur's is made of the number, a request that
  read a row still agrees with it on who the user is), `VerdictsInv` (what a request
  writes is the status it read or a verdict on one that was open) and `OnboardingInv`
  (how far an onboarding has come, in the request and in the rows).
- `ListsAlwaysAgree`, `ChauffeursStayIdentified`, `OnboardingStaysWhole` and the action
  property `DecisionsStandAlways` follow.  `ListsAgree` needs `ColumnsInv` since the
  queries look at one column where the mapping looks at the role first;
  `ChauffeursIdentified` needs the address, because two requests may both have found
  the number free.

`FleetProofs`

- `FleetInvariant`: a request that changes a car holds a stored one and its number, and
  an upload without a rival is of a number no car has and nobody else asks for.
- `RegistrationsStayDistinct`, `ListsStayFresh` (`CarListsFresh`) follow, and
  `CarsStayStored`: no step takes a car out of the table, the removals included, which
  no run checks since the code offers removal (section 4).

`TripProofs`

- `LegsAlwaysTile` (`LegsTileThePeriod`): arithmetic of days and half-hours for the three
  types of booking, for any dates and pickup times.
- `RemindersAlwaysKeepTime` (`RemindersKeepTime`) from `RemindersInvariant`: for each
  leg, the job of the hour before has run or is still to run; once it has, whoever was
  due is reminded, and before it nobody is.  The windows of different hours do not
  overlap, which is why no one is reminded twice.
- `AlwaysToldTruly` (`ToldTruly`) from `OrchestrationInvariant`: what handlers and the
  pending job have yet to say (`Sayable`) and what handlers have yet to look up
  (`Current`) only ever grow, but for a cancellation that is written alone; and then
  nobody has anything left to say, to look up or to write.
- `PricesStayRecent` (`PricesRecent`) from `PricingInvariant`: an entry with days left
  was in force within the days it has used up; what a request has read itself was in
  force on the day.  `PartsAlwaysAddUp` (`PartsAddUp`) is the rounding of the columns:
  bounds of each quotient, for any rates and any number of legs.

`ComponentsProofs`

- `ComponentsByThemselves`: a step of `MCComponents` is a step of one component and
  leaves the variables of the others alone, hence the composition implements the
  specification of each.  `ComponentsTypeCorrect` (`TypeOK` of `MCComponents`) and
  `ComponentsKeepTheirPromises` carry over what is proved of the components.

Only model-checked: the liveness properties `ChargedIsConfirmed` and
`CancellationIsAnnounced`, which need fairness and `ENABLED`, out of the reach of
TLAPS, and the counterexamples of section 4, which are single
behaviours.

## 6. Plan

1. `BookingLifecycle` with its protocol and proofs - done.
2. `Payout` with its protocol and proofs - done.
3. `Notification` with its protocol and proofs - done.
4. `OneTimePassword`, `Session`, `Users`, `Fleet`, `BookingRules`, `Rental`,
   `Pricing`, checked in `Components`, and `Orchestration`, checked in `Messages`, with
   their proofs - done.

Composition: 3 consumes the events 1 publishes; the jobs of `Rental` are those of 1
seen by the clock, `BookingRules` feeds `Rental` and `Pricing`, and `Orchestration`
has in one or two steps what 1 and 3 have in several.  What is left to prove are
liveness properties, once a prover takes them, and what the models say without an
exception, where a property has one: a torn list is put right by the next change.

## 7. Not modelled

- The verification handlers behind `PaymentVerificationRequested`: nothing publishes
  that event and the intent they need is not stored.
- Completion of legs and bookings in `Rental`: no leg is ever stored as ACTIVE.  It is
  in `BookingLifecycle`, where the leg statuses are.
- Trip-start and trip-end jobs, whose names the processor does not know: they fail.
- The cache of car searches, the services that clear caches (no caller), the
  assignment of chauffeurs to fleets (writes nothing), putting users on hold and
  upgrading guests (no caller), tokens for passwords and addresses (no caller).
- Wording and HTML of texts, WhatsApp templates, validation of shapes, error
  formatting, the health check, file storage; queue priorities and back-off.
- Two bookings of one car: creation asks nobody whether the car is free, so there is
  nothing to get right between them.

A failed transaction is all or nothing, as PostgreSQL promises; isolation anomalies
inside one transaction are not explored.  Several server processes are not modelled:
the deployment runs one, though the interleavings between awaits already include those
of two processes on the tables.
