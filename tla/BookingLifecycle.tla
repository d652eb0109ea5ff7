-------------------------- MODULE BookingLifecycle ---------------------------
(***************************************************************************)
(* The life of a booking in src/src/booking: creation, payment              *)
(* confirmation by the provider's webhook, cancellation, chauffeur          *)
(* assignment, and the scheduled job that starts and ends legs.             *)
(*                                                                         *)
(* A service method is one atomic action only between two awaits.  A        *)
(* request therefore lives in a slot of "op" (or in "job" for the status    *)
(* worker), holding the aggregate it loaded; other requests may write the   *)
(* same rows before it writes its own copy back.                            *)
(*                                                                         *)
(* Time is a count of ticks of 24 / TicksPerDay hours; an await lasts at    *)
(* most until the end of the tick after the one it began in.                *)
(***************************************************************************)
EXTENDS Naturals, FiniteSets

CONSTANTS
    Bookings, Legs, Chauffeurs,
    Payments,        \* gateway transaction ids
    Requests,        \* slots for requests the server works on at a time
    None,            \* undefined / null
    LegStart, LegEnd,              \* [Legs -> Nat], the tick of each leg time
    StartDateTime, EndDateTime,    \* the booking period, in ticks
    TicksPerDay,
    CancelNotice,    \* the 12 hours of isEligibleForCancellation, in ticks
    Horizon,         \* last tick explored
    Duplicates,      \* the provider may deliver a webhook more than once
    Failures         \* writes may fail and the server may crash

ASSUME ScheduleAssumption ==
    /\ Legs # {}
    /\ LegStart \in [Legs -> Nat]
    /\ LegEnd \in [Legs -> Nat]
    /\ StartDateTime \in Nat /\ EndDateTime \in Nat
    /\ \A l \in Legs : StartDateTime <= LegStart[l] /\ LegStart[l] < LegEnd[l]

\* A request is over within the cancellation notice.
ASSUME TimeAssumption ==
    /\ TicksPerDay \in Nat \ {0}
    /\ CancelNotice \in Nat \ {0, 1}
    /\ Horizon \in Nat

ASSUME NoneAssumption == None \notin Bookings \cup Payments \cup Chauffeurs \cup Legs

ASSUME SwitchAssumption == Duplicates \in BOOLEAN /\ Failures \in BOOLEAN

VARIABLES
    db,           \* Booking table: [Bookings -> row], NoRow when absent
    legStatus,    \* BookingLeg table: [Bookings -> [Legs -> leg status]]
    checkout,     \* bookings whose customer holds a checkout URL
    charges,      \* charges the payment gateway has made
    delivered,    \* charges whose webhook has been delivered
    op,           \* [Requests -> the request's progress]
    job,          \* the status-update worker (one job at a time)
    published,    \* domain events published so far
    interrupted,  \* history: bookings whose confirmation was cut short
    now

vars == <<db, legStatus, checkout, charges, delivered, op, job, published,
          interrupted, now>>

-----------------------------------------------------------------------------
(* Values.                                                                  *)

BookingStatus == {"PENDING", "CONFIRMED", "ACTIVE", "COMPLETED", "CANCELLED", "REJECTED"}
PaymentStatus == {"UNPAID", "PAID", "REFUNDED", "REFUND_PROCESSING", "REFUND_FAILED",
                  "PARTIALLY_REFUNDED"}
BookingLegStatus == {"PENDING", "CONFIRMED", "ACTIVE", "COMPLETED"}

\* BookingStatus.canTransitionTo and BookingLegStatus.canTransitionTo.
BookingTransitions ==
    { <<"PENDING", "CONFIRMED">>, <<"PENDING", "REJECTED">>,
      <<"CONFIRMED", "ACTIVE">>, <<"CONFIRMED", "CANCELLED">>,
      <<"ACTIVE", "COMPLETED">> }
LegTransitions ==
    { <<"PENDING", "CONFIRMED">>, <<"CONFIRMED", "ACTIVE">>, <<"ACTIVE", "COMPLETED">> }

\* The columns of a booking row that the properties tell apart.
Row == [status        : BookingStatus \cup {"NONE"},
        paymentStatus : PaymentStatus,
        paymentId     : Payments \cup {None},
        chauffeurId   : Chauffeurs \cup {None}]

NoRow == [status |-> "NONE", paymentStatus |-> "UNPAID",
          paymentId |-> None, chauffeurId |-> None]

Charge == [id : Payments, booking : Bookings, ok : BOOLEAN]

\* Booking.create: a new booking is PENDING and UNPAID, and so are its legs.
NewBooking == [NoRow EXCEPT !.status = "PENDING"]

Event == [type : {"BookingCreated", "BookingCancelled", "LegStarted", "LegEnded",
                  "ChauffeurAssigned", "ChauffeurUnassigned"},
          booking : Bookings, subject : Legs \cup Chauffeurs \cup {None}]

\* A request slot: the step it has reached, the booking and payment it is
\* about, the aggregate it loaded with the events that aggregate has not
\* published yet, the legs still to write, and the tick its await began in.
Steps == {"idle", "intent", "confirm", "confirmRow", "confirmLegs", "cancelRow", "publish"}
Busy == [step : Steps \ {"idle"}, b : Bookings, payment : Payments \cup {None},
         row : Row, events : SUBSET Event, todo : SUBSET Legs, since : Nat]
Idle == [step |-> "idle", b |-> None, payment |-> None, row |-> NoRow,
         events |-> {}, todo |-> {}, since |-> 0]
Op == {Idle} \cup Busy

\* The worker: which job it runs, the legs its query returned, the rows it
\* holds after running the aggregates, and the legs it processed.
Kinds == {"activate", "complete"}
Job == [step : {"idle", "queried", "loaded", "publish"}, kind : Kinds,
        due : SUBSET (Bookings \X Legs), rows : [Bookings -> Row],
        processed : SUBSET (Bookings \X Legs), since : Nat]
NoJob == [step |-> "idle", kind |-> "activate", due |-> {},
          rows |-> [b \in Bookings |-> NoRow], processed |-> {}, since |-> 0]

Init ==
    /\ db = [b \in Bookings |-> NoRow]
    /\ legStatus = [b \in Bookings |-> [l \in Legs |-> "PENDING"]]
    /\ checkout = {} /\ charges = {} /\ delivered = {}
    /\ op = [r \in Requests |-> Idle]
    /\ job = NoJob
    /\ published = {} /\ interrupted = {}
    /\ now = 0

-----------------------------------------------------------------------------
(* The aggregate in memory (booking.entity.ts) and the repository.          *)

CanTransitionTo(row, to) == <<row.status, to>> \in BookingTransitions

\* Mutant: the payment column gets the booking's status.
ConfirmMixesColumns(row, p) ==
    [row EXCEPT !.status = "PAID", !.paymentStatus = "PAID", !.paymentId = p]

ConfirmWithPayment(row, p) ==
    [row EXCEPT !.status = "CONFIRMED", !.paymentStatus = "PAID", !.paymentId = p]

Cancel(row) == [row EXCEPT !.status = "CANCELLED", !.paymentStatus = "REFUNDED"]

\* Mutant: no notice is needed to cancel.
EligibleAnyTime(row) == row.status = "CONFIRMED"

IsEligibleForCancellation(row) ==
    /\ row.status = "CONFIRMED"
    /\ now + CancelNotice <= StartDateTime

SameDay(t, u) == t \div TicksPerDay = u \div TicksPerDay

\* activateLeg: a CONFIRMED booking becomes ACTIVE on the day its period starts.
ActivateLeg(row) ==
    IF row.status = "CONFIRMED" /\ SameDay(now, StartDateTime)
    THEN [row EXCEPT !.status = "ACTIVE"] ELSE row

\* completeLeg: an ACTIVE booking becomes COMPLETED on the day its period ends.
CompleteLeg(row) ==
    IF row.status = "ACTIVE" /\ SameDay(now, EndDateTime)
    THEN [row EXCEPT !.status = "COMPLETED"] ELSE row

\* Prisma leaves a column alone when its new value is undefined.
Keep(new, old) == IF new = None THEN old ELSE new

\* save() of an existing booking: the row.  The legs follow one by one.  A copy without a
\* payment leaves that column alone; its chauffeur is written, null when it has none.
SavedRow(old, row) == [row EXCEPT !.paymentId = Keep(row.paymentId, old.paymentId)]

\* Mutant: the batch save forgets the payment column.
SavedWithoutPaymentStatus(old, row) ==
    [row EXCEPT !.paymentId = Keep(row.paymentId, old.paymentId),
                !.paymentStatus = old.paymentStatus]

\* saveWithTransaction() of an existing booking: the same columns, and no leg.
SavedWithTransaction(old, row) == SavedRow(old, row)

EventOf(type, b, subject) == [type |-> type, booking |-> b, subject |-> subject]

\* Slots.
Free(r) == op[r].step = "idle"
Proceed(r, o) == op' = [op EXCEPT ![r] = [o EXCEPT !.since = now]]
Finish(r) == op' = [op EXCEPT ![r] = Idle]

-----------------------------------------------------------------------------
(* Creation: POST /bookings.                                                *)

\* createPendingBooking: one transaction inserts the row and its legs; the
\* booking period has to begin in the future.
CreatePendingBooking(r, b) ==
    /\ Free(r) /\ db[b].status = "NONE"
    /\ now < StartDateTime
    /\ db' = [db EXCEPT ![b] = NewBooking]
    /\ legStatus' = [legStatus EXCEPT ![b] = [l \in Legs |-> "PENDING"]]
    /\ Proceed(r, [Idle EXCEPT !.step = "intent", !.b = b])
    /\ UNCHANGED <<checkout, charges, delivered, job, published, interrupted, now>>

\* After the commit: publish BookingCreated, then ask the gateway for a
\* payment intent.  The intent is set on the aggregate in memory and never
\* saved; on failure the request ends in an error and the booking stays.
AttachPaymentIntent(r) ==
    /\ op[r].step = "intent"
    /\ published' = published \cup {EventOf("BookingCreated", op[r].b, None)}
    /\ \/ checkout' = checkout \cup {op[r].b}
       \/ UNCHANGED checkout
    /\ Finish(r)
    /\ UNCHANGED <<db, legStatus, charges, delivered, job, interrupted, now>>

-----------------------------------------------------------------------------
(* Payment: the gateway charges the customer and calls the webhook.         *)

\* The customer tries to pay on the gateway's page, at any later time.  An
\* intent is settled by one successful charge.
CustomerPays(b, p, ok) ==
    /\ b \in checkout
    /\ \A c \in charges : c.id # p /\ ~(c.booking = b /\ c.ok)
    /\ charges' = charges \cup {[id |-> p, booking |-> b, ok |-> ok]}
    /\ UNCHANGED <<db, legStatus, checkout, delivered, op, job, published, interrupted, now>>

\* Mutant: a payment is confirmed whatever the status.
WebhookIgnoresStatus(r, c) ==
    /\ c \notin delivered \/ Duplicates
    /\ Free(r)
    /\ delivered' = delivered \cup {c}
    /\ Proceed(r, [Idle EXCEPT !.step = "confirm", !.b = c.booking, !.payment = c.id])
    /\ UNCHANGED <<db, legStatus, checkout, charges, job, published, interrupted, now>>

\* Mutant: a delivery is acknowledged and its event not handled.
WebhookDropsEvent(r, c) ==
    /\ c \notin delivered \/ Duplicates
    /\ Free(r)
    /\ delivered' = delivered \cup {c}
    /\ UNCHANGED <<db, legStatus, checkout, charges, op, job, published, interrupted, now>>

\* The controller answers 200 whatever happens; only a successful charge
\* publishes the event that starts a confirmation.
Webhook(r, c) ==
    /\ c \notin delivered \/ Duplicates
    /\ Free(r)
    /\ delivered' = delivered \cup {c}
    /\ IF c.ok THEN Proceed(r, [Idle EXCEPT !.step = "confirm", !.b = c.booking,
                                          !.payment = c.id])
               ELSE UNCHANGED op
    /\ UNCHANGED <<db, legStatus, checkout, charges, job, published, interrupted, now>>

\* Mutant: legs are written before their booking.
ConfirmLegsFirst(r) ==
    LET o == op[r] row == db[o.b] IN
    /\ o.step = "confirm"
    /\ row.status = "PENDING"
    /\ Proceed(r, [o EXCEPT !.step = "confirmLegs",
                            !.row = ConfirmWithPayment(row, o.payment),
                            !.todo = Legs])
    /\ UNCHANGED <<db, legStatus, checkout, charges, delivered, job, published,
                   interrupted, now>>

\* confirmBookingWithPayment, up to the save: load, reject unless PENDING,
\* confirm the aggregate and every leg of it.
ConfirmBooking(r) ==
    LET o == op[r] row == db[o.b] IN
    /\ o.step = "confirm"
    /\ row.status = "PENDING"
    /\ \A l \in Legs : <<legStatus[o.b][l], "CONFIRMED">> \in LegTransitions
    /\ Proceed(r, [o EXCEPT !.step = "confirmRow",
                             !.row = ConfirmWithPayment(row, o.payment),
                             !.todo = Legs])
    /\ UNCHANGED <<db, legStatus, checkout, charges, delivered, job, published,
                   interrupted, now>>

\* The rejections of the same method; the orchestrator swallows the error.
ConfirmRejected(r) ==
    /\ op[r].step = "confirm"
    /\ \/ db[op[r].b].status # "PENDING"
       \/ \E l \in Legs : <<legStatus[op[r].b][l], "CONFIRMED">> \notin LegTransitions
    /\ Finish(r)
    /\ UNCHANGED <<db, legStatus, checkout, charges, delivered, job, published,
                   interrupted, now>>

\* save(): the booking row, in a statement of its own ...
ConfirmWriteRow(r) ==
    /\ op[r].step = "confirmRow"
    /\ db' = [db EXCEPT ![op[r].b] = SavedRow(@, op[r].row)]
    /\ Proceed(r, [op[r] EXCEPT !.step = "confirmLegs"])
    /\ UNCHANGED <<legStatus, checkout, charges, delivered, job, published,
                   interrupted, now>>

\* Mutant: only the first leg is confirmed.
ConfirmFirstLegOnly(r, l) ==
    /\ op[r].step = "confirmLegs" /\ l \in op[r].todo
    /\ legStatus' = [legStatus EXCEPT ![op[r].b][l] = "CONFIRMED"]
    /\ Finish(r)
    /\ UNCHANGED <<db, checkout, charges, delivered, job, published, interrupted, now>>

\* ... then each leg.  The request is over with the last one.
ConfirmWriteLeg(r, l) ==
    /\ op[r].step = "confirmLegs" /\ l \in op[r].todo
    /\ legStatus' = [legStatus EXCEPT ![op[r].b][l] = "CONFIRMED"]
    /\ IF op[r].todo = {l} THEN Finish(r)
       ELSE Proceed(r, [op[r] EXCEPT !.todo = @ \ {l}])
    /\ UNCHANGED <<db, checkout, charges, delivered, job, published, interrupted, now>>

-----------------------------------------------------------------------------
(* Cancellation: PUT /bookings/:id/cancel.                                  *)

\* Mutant: the cancellation is not published.
CancelSilently(r, b) ==
    /\ Free(r) /\ db[b].status # "NONE"
    /\ IsEligibleForCancellation(db[b])
    /\ CanTransitionTo(db[b], "CANCELLED")
    /\ Proceed(r, [Idle EXCEPT !.step = "cancelRow", !.b = b, !.row = Cancel(db[b])])
    /\ UNCHANGED <<db, legStatus, checkout, charges, delivered, job, published,
                   interrupted, now>>

\* Load, authorise, check eligibility and cancel the aggregate.
CancelBooking(r, b) ==
    /\ Free(r) /\ db[b].status # "NONE"
    /\ IsEligibleForCancellation(db[b])
    /\ CanTransitionTo(db[b], "CANCELLED")
    /\ Proceed(r, [Idle EXCEPT !.step = "cancelRow", !.b = b, !.row = Cancel(db[b]),
                             !.events = {EventOf("BookingCancelled", b, None)}])
    /\ UNCHANGED <<db, legStatus, checkout, charges, delivered, job, published,
                   interrupted, now>>

CancelWriteRow(r) ==
    /\ op[r].step = "cancelRow"
    /\ db' = [db EXCEPT ![op[r].b] = SavedWithTransaction(@, op[r].row)]
    /\ Proceed(r, [op[r] EXCEPT !.step = "publish"])
    /\ UNCHANGED <<legStatus, checkout, charges, delivered, job, published,
                   interrupted, now>>

-----------------------------------------------------------------------------
(* Chauffeurs: PUT /bookings/:id/assign-chauffeur and unassign-chauffeur.   *)

\* The aggregate is changed and its events are published; nothing saves it.
AssignChauffeur(r, b, c) ==
    LET old == db[b].chauffeurId IN
    /\ Free(r)
    /\ db[b].status \notin {"NONE", "COMPLETED", "CANCELLED", "PENDING"}
    /\ old # c
    /\ Proceed(r, [Idle EXCEPT !.step = "publish", !.b = b,
                             !.row = [db[b] EXCEPT !.chauffeurId = c],
                             !.events = {EventOf("ChauffeurAssigned", b, c)} \cup
                                        (IF old = None THEN {}
                                         ELSE {EventOf("ChauffeurUnassigned", b, old)})])
    /\ UNCHANGED <<db, legStatus, checkout, charges, delivered, job, published,
                   interrupted, now>>

UnassignChauffeur(r, b) ==
    /\ Free(r)
    /\ db[b].chauffeurId # None
    /\ db[b].status \notin {"COMPLETED", "ACTIVE"}
    /\ Proceed(r, [Idle EXCEPT !.step = "publish", !.b = b,
                             !.row = [db[b] EXCEPT !.chauffeurId = None],
                             !.events = {EventOf("ChauffeurUnassigned", b, db[b].chauffeurId)}])
    /\ UNCHANGED <<db, legStatus, checkout, charges, delivered, job, published,
                   interrupted, now>>

\* domainEventPublisher.publish(booking), the last step of a request.
PublishEvents(r) ==
    /\ op[r].step = "publish"
    /\ published' = published \cup op[r].events
    /\ Finish(r)
    /\ UNCHANGED <<db, legStatus, checkout, charges, delivered, job, interrupted, now>>

\* The start query wants a chauffeur in the row, and no code writes one:
\* someone with access to the database dispatches the booking.
DispatchChauffeur(b, c) ==
    /\ db[b].status \in {"CONFIRMED", "ACTIVE"} /\ db[b].chauffeurId = None
    /\ db' = [db EXCEPT ![b].chauffeurId = c]
    /\ UNCHANGED <<legStatus, checkout, charges, delivered, op, job, published,
                   interrupted, now>>

-----------------------------------------------------------------------------
(* The status worker: confirmed-to-active and active-to-completed.          *)

\* Mutant: the start query does not ask for a chauffeur.
LegsDueUndriven(kind, booked) ==
    { d \in booked \X Legs :
        LET row == db[d[1]] leg == legStatus[d[1]][d[2]] IN
        /\ row.paymentStatus = "PAID"
        /\ kind = "activate" /\ leg = "CONFIRMED" /\ LegStart[d[2]] = now
        /\ row.status \in {"CONFIRMED", "ACTIVE"} }

\* findStartingLegsForNotification / findEndingLegsForNotification: the legs
\* whose time is this very minute.  "booked" stands for the bookings whose
\* car the fleet owner has marked BOOKED when the query runs.
LegsDue(kind, booked) ==
    { d \in booked \X Legs :
        LET row == db[d[1]] leg == legStatus[d[1]][d[2]] IN
        /\ row.paymentStatus = "PAID"
        /\ \/ /\ kind = "activate" /\ leg = "CONFIRMED" /\ LegStart[d[2]] = now
              /\ row.status \in {"CONFIRMED", "ACTIVE"}
              /\ row.chauffeurId # None
           \/ /\ kind = "complete" /\ leg = "ACTIVE" /\ LegEnd[d[2]] = now
              /\ row.status \in {"ACTIVE", "COMPLETED"} }

JobQuery(kind, booked) ==
    /\ job.step = "idle"
    /\ LegsDue(kind, booked) # {}
    /\ job' = [NoJob EXCEPT !.step = "queried", !.kind = kind,
                            !.due = LegsDue(kind, booked), !.since = now]
    /\ UNCHANGED <<db, legStatus, checkout, charges, delivered, op, published,
                   interrupted, now>>

\* findByIds, then the loop that runs each leg through its aggregate; a leg
\* whose transition is refused is logged and skipped.
Processed ==
    LET to == IF job.kind = "activate" THEN "ACTIVE" ELSE "COMPLETED" IN
    { d \in job.due : <<legStatus[d[1]][d[2]], to>> \in LegTransitions }

Modified(processed) == { d[1] : d \in processed }

JobLoad ==
    /\ job.step = "queried"
    /\ job' = [job EXCEPT
         !.step = "loaded", !.processed = Processed, !.since = now,
         !.rows = [b \in Bookings |->
                     IF b \notin Modified(Processed) THEN NoRow
                     ELSE IF job.kind = "activate" THEN ActivateLeg(db[b])
                          ELSE CompleteLeg(db[b])]]
    /\ UNCHANGED <<db, legStatus, checkout, charges, delivered, op, published,
                   interrupted, now>>

\* saveAll: one transaction over the modified bookings, rows only.
JobSave ==
    /\ job.step = "loaded"
    /\ db' = [b \in Bookings |->
                IF b \in Modified(job.processed)
                THEN SavedWithTransaction(db[b], job.rows[b]) ELSE db[b]]
    /\ job' = IF job.processed = {} THEN NoJob
              ELSE [job EXCEPT !.step = "publish", !.since = now]
    /\ UNCHANGED <<legStatus, checkout, charges, delivered, op, published,
                   interrupted, now>>

\* One event per processed leg, one at a time.
JobPublish(d) ==
    /\ job.step = "publish" /\ d \in job.processed
    /\ published' = published \cup
         {EventOf(IF job.kind = "activate" THEN "LegStarted" ELSE "LegEnded", d[1], d[2])}
    /\ job' = IF job.processed = {d} THEN NoJob
              ELSE [job EXCEPT !.processed = @ \ {d}, !.since = now]
    /\ UNCHANGED <<db, legStatus, checkout, charges, delivered, op, interrupted, now>>

-----------------------------------------------------------------------------
(* Failures and time.                                                       *)

\* Confirmations among the slots S that have written the row and not all legs.
CutShort(S) == { op[r].b : r \in { q \in S : op[q].step = "confirmLegs" } }

\* A query fails: the request ends with an error and nothing compensates.
RequestFails(r) ==
    /\ Failures /\ ~Free(r)
    /\ Finish(r)
    /\ interrupted' = interrupted \cup CutShort({r})
    /\ UNCHANGED <<db, legStatus, checkout, charges, delivered, job, published, now>>

\* The job throws; BullMQ may run it again, which is another JobQuery.
JobFails ==
    /\ Failures /\ job.step # "idle"
    /\ job' = NoJob
    /\ UNCHANGED <<db, legStatus, checkout, charges, delivered, op, published,
                   interrupted, now>>

\* The only server process restarts; what it was doing is lost.
Crash ==
    /\ Failures
    /\ op' = [r \in Requests |-> Idle] /\ job' = NoJob
    /\ op' # op \/ job' # job
    /\ interrupted' = interrupted \cup CutShort(Requests)
    /\ UNCHANGED <<db, legStatus, checkout, charges, delivered, published, now>>

Tick ==
    /\ now < Horizon
    /\ \A r \in Requests : Free(r) \/ op[r].since = now
    /\ job.step = "idle" \/ job.since = now
    /\ now' = now + 1
    /\ UNCHANGED <<db, legStatus, checkout, charges, delivered, op, job, published,
                   interrupted>>

-----------------------------------------------------------------------------

RequestStep(r) ==
    \/ AttachPaymentIntent(r)
    \/ ConfirmBooking(r) \/ ConfirmRejected(r) \/ ConfirmWriteRow(r)
    \/ \E l \in Legs : ConfirmWriteLeg(r, l)
    \/ CancelWriteRow(r)
    \/ PublishEvents(r)

JobStep == JobLoad \/ JobSave \/ \E d \in job.processed : JobPublish(d)

Arrival ==
    \/ \E r \in Requests, b \in Bookings :
         \/ CreatePendingBooking(r, b)
         \/ CancelBooking(r, b)
         \/ UnassignChauffeur(r, b)
         \/ \E c \in Chauffeurs : AssignChauffeur(r, b, c)
    \/ \E r \in Requests, c \in charges : Webhook(r, c)
    \/ \E kind \in Kinds, booked \in SUBSET Bookings : JobQuery(kind, booked)

Outside ==
    \/ \E b \in Bookings, p \in Payments, ok \in BOOLEAN : CustomerPays(b, p, ok)
    \/ \E b \in Bookings, c \in Chauffeurs : DispatchChauffeur(b, c)

Next ==
    \/ Arrival
    \/ \E r \in Requests : RequestStep(r) \/ RequestFails(r)
    \/ JobStep \/ JobFails
    \/ Outside
    \/ Crash
    \/ Tick

Spec == Init /\ [][Next]_vars

\* Node runs every request and job it has started, and the provider's webhook
\* gets through however busy the server is (a slot is free again and again);
\* customers, cron and the clock owe nothing.
Deliver(c) == c \in charges \ delivered /\ \E r \in Requests : Webhook(r, c)

Fairness ==
    /\ \A r \in Requests : WF_vars(RequestStep(r))
    /\ WF_vars(JobStep)
    /\ \A c \in [id : Payments, booking : Bookings, ok : {TRUE}] : SF_vars(Deliver(c))

FairSpec == Spec /\ Fairness

-----------------------------------------------------------------------------
(* Properties.                                                              *)

TypeOK ==
    /\ db \in [Bookings -> Row]
    /\ legStatus \in [Bookings -> [Legs -> BookingLegStatus]]
    /\ checkout \subseteq Bookings
    /\ charges \subseteq Charge /\ delivered \subseteq charges
    /\ op \in [Requests -> Op]
    /\ job \in Job
    /\ published \subseteq Event
    /\ interrupted \subseteq Bookings
    /\ now \in Nat

PaidStatuses == {"CONFIRMED", "ACTIVE", "COMPLETED"}

\* The two status columns agree whatever interleaves: a booking is PAID
\* exactly while it is confirmed, active or completed, REFUNDED exactly when
\* cancelled, and each of these was bought with a successful charge for it.
MoneyMatchesStatus ==
    \A b \in Bookings : LET row == db[b] IN
        /\ row.paymentStatus = "PAID" <=> row.status \in PaidStatuses
        /\ row.paymentStatus = "REFUNDED" <=> row.status = "CANCELLED"
        /\ row.paymentStatus # "UNPAID" =>
             \E c \in charges : c.id = row.paymentId /\ c.booking = b /\ c.ok

\* A leg is never confirmed before its booking row is: save() writes the row
\* first, so a reader that trusts a confirmed leg finds a paid booking.
LegsTrailBooking ==
    \A b \in Bookings, l \in Legs :
        legStatus[b][l] # "PENDING" => db[b].paymentStatus \in {"PAID", "REFUNDED"}

Confirming(b) == \E r \in Requests : op[r].b = b /\ op[r].step = "confirmLegs"

\* The only way to a paid booking with a leg left PENDING - a leg the start
\* query will never return - is a confirmation cut short between its writes.
LegsConfirmedUnlessInterrupted ==
    \A b \in Bookings :
        db[b].status \in PaidStatuses \cup {"CANCELLED"} =>
            \/ \A l \in Legs : legStatus[b][l] # "PENDING"
            \/ Confirming(b)
            \/ b \in interrupted

Started(b, l) == EventOf("LegStarted", b, l) \in published

\* Nobody is told that a trip has started when it has been cancelled, though
\* the worker publishes from a list it queried several steps earlier.
CancelledNeverStarts ==
    [][\A b \in Bookings, l \in Legs :
          ~Started(b, l) /\ Started(b, l)' => db[b].status # "CANCELLED"]_vars

\* Each booking, seen through the database and the published starts, behaves
\* as BookingProtocol allows.
Protocol == INSTANCE BookingProtocol WITH
    status  <- [b \in Bookings |-> db[b].status],
    money   <- [b \in Bookings |-> db[b].paymentStatus],
    started <- { d \in Bookings \X Legs : Started(d[1], d[2]) }

FollowsProtocol == Protocol!Spec

\* A row goes back only to CONFIRMED, from ACTIVE or CANCELLED, and only by the write of a
\* confirmation that loaded it before the first one wrote: of the one payment it has, by a
\* webhook the provider delivered again.  Every other change is in the table.
OnlyRedeliveryReverts ==
    [][\A b \in Bookings :
          LET from == db[b].status to == db[b].status' IN
          from # to => \/ from = "NONE" /\ to = "PENDING"
                       \/ <<from, to>> \in BookingTransitions
                       \/ /\ Duplicates
                          /\ from \in {"ACTIVE", "CANCELLED"} /\ to = "CONFIRMED"
                          /\ \E r \in Requests : /\ op[r].step = "confirmRow" /\ op[r].b = b
                                               /\ op[r].payment = db[b].paymentId
                          /\ db[b].paymentId' = db[b].paymentId]_vars

\* While the provider delivers each webhook once, a chauffeur somebody dispatched to a booking
\* is not lost to a whole-row write of a request or of the worker that had loaded the row
\* before, unless that write cancels the booking.  Both saves write the copy's chauffeur,
\* null included: the worker is harmless because its query wants a chauffeur in the row, and
\* a confirmation because nobody drives a pending booking.  A confirmation the provider
\* delivers again, and late, does take the chauffeur away.
ChauffeurIsKept ==
    [][\A b \in Bookings :
          db[b].chauffeurId # None /\ db[b].status' # "CANCELLED"
            => db[b].chauffeurId' = db[b].chauffeurId]_vars

\* A customer who has been charged does not keep waiting on a PENDING booking:
\* the webhook leads to a confirmation that is written, legs and all.
ChargedIsConfirmed ==
    \A b \in Bookings :
        (\E c \in charges : c.booking = b /\ c.ok)
            ~> /\ db[b].status # "PENDING"
               /\ \A l \in Legs : legStatus[b][l] # "PENDING"

\* A stored cancellation is announced to the handlers that tell the customer
\* and the fleet owner.
CancellationIsAnnounced ==
    \A b \in Bookings :
        (db[b].status = "CANCELLED") ~> (EventOf("BookingCancelled", b, None) \in published)

\* What the code says of itself, and the runs refute.

\* booking-leg-status.vo.ts: a leg is ACTIVE once started.
StartedLegIsActive ==
    \A b \in Bookings, l \in Legs :
        Started(b, l) => legStatus[b][l] \in {"ACTIVE", "COMPLETED"}

\* booking-status.vo.ts and booking.entity.spec.ts: CANCELLED, COMPLETED and
\* REJECTED are final, and nothing goes back to CONFIRMED.
LegalTransitions ==
    [][\A b \in Bookings :
          LET from == db[b].status to == db[b].status' IN
          from # to => \/ from = "NONE" /\ to = "PENDING"
                       \/ <<from, to>> \in BookingTransitions]_vars

\* chauffeur-assignment.service.ts: "Chauffeur assigned successfully".  A
\* booking with an announced assignment and no unassignment has a chauffeur.
AssignedChauffeurIsStored ==
    \A b \in Bookings :
        /\ \E c \in Chauffeurs : EventOf("ChauffeurAssigned", b, c) \in published
        /\ ~ \E c \in Chauffeurs : EventOf("ChauffeurUnassigned", b, c) \in published
        => db[b].chauffeurId # None

-----------------------------------------------------------------------------
(* The inductive invariant behind the safety properties.  A row is either    *)
(* untouched by money or settled: paid or refunded, for a charge that was    *)
(* made.  What a request or the worker is about to write is settled          *)
(* already, and a settled row stays settled.                                 *)

Bought(ch, b, p) == \E c \in ch : c.id = p /\ c.booking = b /\ c.ok

Settled(ch, b, row) ==
    /\ Bought(ch, b, row.paymentId)
    /\ \/ row.paymentStatus = "PAID" /\ row.status \in PaidStatuses
       \/ row.paymentStatus = "REFUNDED" /\ row.status = "CANCELLED"

Untouched(row) == row.paymentStatus = "UNPAID" /\ row.status \in {"NONE", "PENDING"}

RowOK(ch, b, row) == Untouched(row) \/ Settled(ch, b, row)

SlotOK(ch, d, o) ==
    /\ o.step = "confirm" => Bought(ch, o.b, o.payment)
    /\ o.step \in {"confirmRow", "cancelRow"} => Settled(ch, o.b, o.row)
    /\ o.step = "confirmLegs" => Settled(ch, o.b, d[o.b])

JobOK(ch, j) ==
    j.step = "loaded" => \A e \in j.processed : Settled(ch, e[1], j.rows[e[1]])

MoneyInv ==
    /\ \A b \in Bookings : RowOK(charges, b, db[b])
    /\ \A b \in Bookings, l \in Legs :
          legStatus[b][l] # "PENDING" => Settled(charges, b, db[b])
    /\ \A r \in Requests : SlotOK(charges, db, op[r])
    /\ JobOK(charges, job)

\* The 12-hour notice keeps cancellations and the worker apart: a cancellation
\* still to be written began that long before the start, and the worker has
\* something to do only from the start on, about bookings not cancelled.
SlotNotice(o, t) ==
    /\ o.step = "cancelRow" => o.since + CancelNotice <= StartDateTime /\ t <= o.since + 1
    /\ o.step = "confirmRow" => o.row.status # "CANCELLED"
    /\ \A e \in o.events : e.type # "LegStarted"

JobNotice(j, d, t) ==
    /\ j.step # "idle" => /\ StartDateTime <= t
                          /\ j.processed \subseteq j.due
                          /\ \A e \in j.due : d[e[1]].status # "CANCELLED"
    /\ j.step = "loaded" => \A e \in j.processed : j.rows[e[1]].status # "CANCELLED"

NoticeInv ==
    /\ \A r \in Requests : SlotNotice(op[r], now)
    /\ JobNotice(job, db, now)

\* The legs of a booking wait for the confirmation that wrote its row: what that one
\* has not to write any more is confirmed, and nothing sends a leg back.  Requests that
\* write a row without its legs do so for a booking that is past its confirmation.
Secured(row) == row.status \in PaidStatuses \cup {"CANCELLED"}

SlotLegs(o, d, legs) ==
    /\ o.step = "confirmRow" => o.todo = Legs
    /\ o.step = "confirmLegs" => \A l \in Legs \ o.todo : legs[o.b][l] # "PENDING"
    /\ o.step = "cancelRow" => Secured(d[o.b])

JobLegs(j, legs) ==
    j.step \in {"loaded", "publish"} => \A e \in j.processed : legs[e[1]][e[2]] # "PENDING"

LegsInv ==
    /\ \A r \in Requests : SlotLegs(op[r], db, legStatus)
    /\ JobLegs(job, legStatus)
    /\ LegsConfirmedUnlessInterrupted

\* What the refinement needs.  A booking has one successful charge, whose webhook starts
\* one confirmation; until that one writes, the row waits for it, and afterwards there is
\* none.  Trips are under way from their start on, hence after every cancellation.  The
\* worker's copies are one step ahead of the rows they were made from.
InConfirmation(o, b) == o.step \in {"confirm", "confirmRow"} /\ o.b = b

SlotProtocol(o, d, del) ==
    /\ o.step \in {"confirm", "confirmRow"} =>
          \E c \in del : c.ok /\ c.booking = o.b
    /\ o.step = "confirm" => Untouched(d[o.b])
    /\ o.step = "confirmRow" => /\ d[o.b].status = "PENDING"
                                /\ o.row.status = "CONFIRMED" /\ o.row.paymentStatus = "PAID"
    /\ o.step = "cancelRow" => o.row.status = "CANCELLED" /\ o.row.paymentStatus = "REFUNDED"

JobProtocol(j, d) ==
    j.step = "loaded" => \A e \in j.processed :
        LET old == d[e[1]] new == j.rows[e[1]] IN
        /\ new.paymentStatus = old.paymentStatus
        /\ \/ new.status = old.status
           \/ j.kind = "activate" /\ old.status = "CONFIRMED" /\ new.status = "ACTIVE"
           \/ j.kind = "complete" /\ old.status = "ACTIVE" /\ new.status = "COMPLETED"

ProtocolInv ==
    /\ \A c, e \in charges : c.ok /\ e.ok /\ c.booking = e.booking => c = e
    /\ \A c \in charges \ delivered : c.ok => Untouched(db[c.booking])
    /\ \A r, q \in Requests, b \in Bookings :
          InConfirmation(op[r], b) /\ InConfirmation(op[q], b) => r = q
    /\ \A r \in Requests : SlotProtocol(op[r], db, delivered)
    /\ \A b \in Bookings : db[b].status \in {"ACTIVE", "COMPLETED"} => StartDateTime <= now
    /\ JobProtocol(job, db)

\* What holds of the rows however often a webhook is delivered.  A booking has one
\* successful charge, whatever a confirmation still has to write names it; a cancellation
\* is written over a confirmed or cancelled row; and the worker, which starts legs and
\* never gets to end one because no leg is ever stored as ACTIVE, starts bookings that are
\* confirmed and leaves those it does not start.
SlotRedelivery(o, d, del) ==
    /\ o.step \in {"confirm", "confirmRow"} =>
          \E c \in del : c.ok /\ c.booking = o.b /\ c.id = o.payment
    /\ o.step = "confirmRow" => /\ o.row.status = "CONFIRMED" /\ o.row.paymentId = o.payment
                                /\ d[o.b].status # "NONE"
    /\ o.step = "cancelRow" => /\ o.row.status = "CANCELLED"
                               /\ d[o.b].status \in {"CONFIRMED", "CANCELLED"}

JobRedelivery(j, d) ==
    /\ j.kind = "activate"
    /\ j.step = "loaded" => \A e \in j.processed :
          LET old == d[e[1]] new == j.rows[e[1]] IN
          \/ new.status = "ACTIVE" /\ old.status \in {"CONFIRMED", "ACTIVE"}
          \/ new.status = "CONFIRMED" /\ old.status = "CONFIRMED"

RedeliveryInv ==
    /\ \A c, e \in charges : c.ok /\ e.ok /\ c.booking = e.booking => c = e
    /\ \A b \in Bookings : db[b].status # "COMPLETED"
    /\ \A b \in Bookings, l \in Legs : legStatus[b][l] \in {"PENDING", "CONFIRMED"}
    /\ \A r \in Requests : SlotRedelivery(op[r], db, delivered)
    /\ JobRedelivery(job, db)

\* Who drives.  A row that is not confirmed yet has no chauffeur; the worker has legs of
\* rows with one, and its copies have the same.
ChauffeurInv ==
    /\ \A b \in Bookings : db[b].status \in {"NONE", "PENDING"} => db[b].chauffeurId = None
    /\ \A r \in Requests : op[r].step = "confirmRow" => op[r].row.chauffeurId = None
    /\ job.step # "idle" => \A e \in job.due : db[e[1]].chauffeurId # None
    /\ job.step = "loaded" => \A e \in job.processed :
          job.rows[e[1]].chauffeurId = db[e[1]].chauffeurId

=============================================================================
