------------------------------- MODULE Payout --------------------------------
(***************************************************************************)
(* Paying fleet owners: PayoutService in src/src/payment and the cron job   *)
(* that works off pending payouts.                                          *)
(*                                                                         *)
(* A payout is a row of PayoutTransaction.  A caller of initiatePayout or   *)
(* retryFailedPayout holds a slot of "op", a queue worker an element of     *)
(* "job"; both hold copies of payouts they loaded, ask the gateway for a    *)
(* transfer and only then store what the gateway answered.  Every request   *)
(* to the gateway carries a fresh reference, so each one that gets through  *)
(* moves money.                                                             *)
(*                                                                         *)
(* The Prisma client rejects a write that names a column the table lacks.   *)
(* save() names "updatedAt", which the committed schema does not have: with *)
(* that schema every save fails.  What the module promises about safety     *)
(* holds for any TableColumns, so also once the column is there.            *)
(***************************************************************************)
EXTENDS Naturals, FiniteSets

CONSTANTS
    Bookings, Extensions,  \* what a payout is for
    PayoutIds,
    TransferIds,           \* ids the gateway gives to transfers
    Requests, Workers,
    NoBank,                \* subjects whose fleet owner has no bank details
    None,                  \* null
    Undefined,
    TableColumns,          \* columns of PayoutTransaction the Prisma client knows
    Failures               \* answers get lost, writes fail, the server crashes

Subjects == Bookings \cup Extensions

ASSUME SubjectAssumption == Bookings \cap Extensions = {} /\ NoBank \subseteq Subjects

ASSUME ValueAssumption ==
    /\ None \notin TransferIds \cup PayoutIds \cup Subjects
    /\ Undefined \notin TransferIds \cup PayoutIds \cup Subjects \cup {None}
    /\ Failures \in BOOLEAN

VARIABLES
    rows,        \* the PayoutTransaction table: [PayoutIds -> payout or NoRow]
    transfers,   \* what the gateway has paid out
    op,          \* [Requests -> progress of a call into PayoutService]
    job,         \* [Workers -> progress of processPendingPayouts]
    excuses      \* history: payouts that met something that may cost money

vars == <<rows, transfers, op, job, excuses>>

-----------------------------------------------------------------------------

PayoutStatus == {"PENDING_DISBURSEMENT", "PROCESSING", "COMPLETED", "FAILED"}

\* A payout in the table, and one in memory.
Row == [id : PayoutIds, subject : Subjects, status : PayoutStatus,
        ref : TransferIds \cup {None}]
PayoutRec == [id : PayoutIds, subject : Subjects, status : PayoutStatus,
              ref : TransferIds \cup {None, Undefined}]
NoRow == [id |-> None, subject |-> None, status |-> "NONE", ref |-> None]

Transfer == [id : TransferIds, payout : PayoutIds]

Exists(p) == rows[p].status # "NONE"
Existing(s) == { rows[p] : p \in { q \in PayoutIds : Exists(q) /\ rows[q].subject = s } }

\* toDomain throws for a payout whose owner has no bank details.
Readable(ps) == \A p \in ps : p.subject \notin NoBank

IsInProgress(p) == p.status \in {"PENDING_DISBURSEMENT", "PROCESSING"}

\* Initiate and MarkAsFailed are only called on pending copies, from which
\* canTransitionTo allows both; Retry requires FAILED.
Create(p, s) == [id |-> p, subject |-> s, status |-> "PENDING_DISBURSEMENT", ref |-> Undefined]
Initiate(p, t) == [p EXCEPT !.status = "PROCESSING", !.ref = t]
MarkAsFailed(p) == [p EXCEPT !.status = "FAILED"]
Retry(p) == [p EXCEPT !.status = "PENDING_DISBURSEMENT", !.ref = Undefined]

\* Mutant: an undefined column is written.
SavedAsIs(p) == p
\* Mutant: the reference is not saved.
SavedWithoutReference(p) == [p EXCEPT !.ref = rows[p.id].ref]
\* The row an upsert of p leaves: Prisma leaves a column alone when it is undefined.
Saved(p) == [p EXCEPT !.ref = IF p.ref = Undefined THEN rows[p.id].ref ELSE p.ref]

\* The columns save() writes, "processedAt" only when it inserts.
SaveData == {"id", "fleetOwnerId", "bookingId", "extensionId", "amountToPay", "currency",
             "status", "payoutProviderReference", "payoutMethodDetails", "notes",
             "updatedAt", "processedAt"}
SaveAccepted == SaveData \subseteq TableColumns

\* save: upsert by id.
Save(p) == SaveAccepted /\ rows' = [rows EXCEPT ![p.id] = Saved(p)]

\* paymentGateway.initiatePayout: a transfer with a new id and its answer, a
\* refusal, or a transfer whose answer the caller never sees - a failure to it.
Outcomes(p) ==
    LET fresh == { t \in TransferIds : \A u \in transfers : u.id # t }
        paid(t) == {[id |-> t, payout |-> p.id]}
    IN  {[paid |-> {}, unanswered |-> FALSE, answer |-> MarkAsFailed(p)]}
        \cup { [paid |-> paid(t), unanswered |-> FALSE, answer |-> Initiate(p, t)] : t \in fresh }
        \cup { [paid |-> paid(t), unanswered |-> TRUE, answer |-> MarkAsFailed(p)] :
                 t \in IF Failures THEN fresh ELSE {} }

\* A request: the step it has reached, the subject of the call, the payout in
\* memory.
Steps == {"idle", "check", "insert", "transfer", "store", "retry"}
Slot == [step : Steps, subject : Subjects \cup {None}, payout : PayoutRec \cup {NoRow}]
Idle == [step |-> "idle", subject |-> None, payout |-> NoRow]

\* A worker: payouts loaded and not yet tried, and the one the gateway has
\* answered for.
Worker == [queue : SUBSET Row, answered : PayoutRec \cup {NoRow}]
NoJob == [queue |-> {}, answered |-> NoRow]

Init ==
    /\ rows = [p \in PayoutIds |-> NoRow]
    /\ transfers = {}
    /\ op = [r \in Requests |-> Idle]
    /\ job = [w \in Workers |-> NoJob]
    /\ excuses = {}

-----------------------------------------------------------------------------
(* initiatePayout.                                                          *)

\* Amount and bank account are valid.
InitiatePayout(r, s) ==
    /\ op[r].step = "idle"
    /\ op' = [op EXCEPT ![r] = [Idle EXCEPT !.step = "check", !.subject = s]]
    /\ UNCHANGED <<rows, transfers, job, excuses>>

\* Ids are generated in the process: no two payouts share one.
FreshId(p) == ~Exists(p) /\ \A r \in Requests : op[r].payout.id # p

\* Mutant: the gateway is asked before the row is inserted.
CheckThenPay(r) ==
    LET s == op[r].subject IN
    /\ op[r].step = "check"
    /\ Readable(Existing(s))
    /\ \A p \in Existing(s) : ~IsInProgress(p)
    /\ \E p \in PayoutIds :
         /\ FreshId(p)
         /\ op' = [op EXCEPT ![r].step = "transfer", ![r].payout = Create(p, s)]
    /\ UNCHANGED <<rows, transfers, job, excuses>>

\* Load the subject's payouts, require that none is in progress, create one.
CheckExisting(r) ==
    LET s == op[r].subject IN
    /\ op[r].step = "check"
    /\ Readable(Existing(s))
    /\ \A p \in Existing(s) : ~IsInProgress(p)
    /\ \E p \in PayoutIds :
         /\ FreshId(p)
         /\ op' = [op EXCEPT ![r].step = "insert", ![r].payout = Create(p, s)]
    /\ UNCHANGED <<rows, transfers, job, excuses>>

CheckRefused(r) ==
    LET s == op[r].subject IN
    /\ op[r].step = "check"
    /\ ~Readable(Existing(s)) \/ \E p \in Existing(s) : IsInProgress(p)
    /\ op' = [op EXCEPT ![r] = Idle]
    /\ UNCHANGED <<rows, transfers, job, excuses>>

\* bookingId is unique in the table, extensionId is not.
UniqueBooking(p) == p.subject \in Bookings => Existing(p.subject) = {}

\* Mutant: no unique index on bookings.
InsertUnchecked(r) ==
    /\ op[r].step = "insert"
    /\ Save(op[r].payout)
    /\ op' = [op EXCEPT ![r].step = "transfer"]
    /\ UNCHANGED <<transfers, job, excuses>>

InsertRow(r) ==
    /\ op[r].step = "insert"
    /\ UniqueBooking(op[r].payout)
    /\ Save(op[r].payout)
    /\ op' = [op EXCEPT ![r].step = "transfer"]
    /\ UNCHANGED <<transfers, job, excuses>>

InsertRefused(r) ==
    /\ op[r].step = "insert"
    /\ ~UniqueBooking(op[r].payout)
    /\ op' = [op EXCEPT ![r] = Idle]
    /\ UNCHANGED <<rows, transfers, job, excuses>>

RequestTransfer(r) ==
    /\ op[r].step = "transfer"
    /\ \E o \in Outcomes(op[r].payout) :
         /\ transfers' = transfers \cup o.paid
         /\ op' = [op EXCEPT ![r].step = "store", ![r].payout = o.answer]
         /\ excuses' = excuses \cup IF o.unanswered THEN {op[r].payout.id} ELSE {}
    /\ UNCHANGED <<rows, job>>

StoreOutcome(r) ==
    /\ op[r].step = "store"
    /\ Save(op[r].payout)
    /\ op' = [op EXCEPT ![r] = Idle]
    /\ UNCHANGED <<transfers, job, excuses>>

-----------------------------------------------------------------------------
(* retryFailedPayout: back to pending, then a call of initiatePayout.       *)

\* Mutant: the status is not asked for.
RetryAnyPayout(r, p) ==
    /\ op[r].step = "idle"
    /\ Exists(p) /\ Readable({rows[p]})
    /\ op' = [op EXCEPT ![r] = [step |-> "retry", subject |-> rows[p].subject,
                                payout |-> Retry(rows[p])]]
    /\ UNCHANGED <<rows, transfers, job, excuses>>

RetryFailedPayout(r, p) ==
    /\ op[r].step = "idle"
    /\ rows[p].status = "FAILED" /\ Readable({rows[p]})
    /\ op' = [op EXCEPT ![r] = [step |-> "retry", subject |-> rows[p].subject,
                                payout |-> Retry(rows[p])]]
    /\ UNCHANGED <<rows, transfers, job, excuses>>

StoreRetry(r) ==
    /\ op[r].step = "retry"
    /\ Save(op[r].payout)
    /\ op' = [op EXCEPT ![r].step = "check", ![r].payout = NoRow]
    /\ excuses' = excuses \cup {op[r].payout.id}
    /\ UNCHANGED <<transfers, job>>

-----------------------------------------------------------------------------
(* processPendingPayouts, run by the queue worker.                          *)

Pending == { rows[p] : p \in { q \in PayoutIds : rows[q].status = "PENDING_DISBURSEMENT" } }

\* Somebody is paying p already: a request that inserted it, or a worker.
BeingPaid(p) ==
    \/ \E r \in Requests : op[r].step \in {"transfer", "store"} /\ op[r].payout.id = p
    \/ \E w \in Workers : job[w].answered.id = p \/ \E q \in job[w].queue : q.id = p

\* Mutant: the query returns processing rows too.
QueryUnsettled(w) ==
    LET open == { rows[p] : p \in { q \in PayoutIds : Exists(q) /\ IsInProgress(rows[q]) } } IN
    /\ job[w] = NoJob
    /\ open # {} /\ Readable(open)
    /\ job' = [job EXCEPT ![w].queue = open]
    /\ excuses' = excuses \cup { p.id : p \in { q \in open : BeingPaid(q.id) } }
    /\ UNCHANGED <<rows, transfers, op>>

\* The query maps every pending row; one it cannot map fails the whole job.
FindPendingPayouts(w) ==
    /\ job[w] = NoJob
    /\ Pending # {} /\ Readable(Pending)
    /\ job' = [job EXCEPT ![w].queue = Pending]
    /\ excuses' = excuses \cup { p.id : p \in { q \in Pending : BeingPaid(q.id) } }
    /\ UNCHANGED <<rows, transfers, op>>

\* Pay the next payout of the list, in the order the table gave.
PayNext(w) ==
    /\ job[w].answered = NoRow
    /\ \E p \in job[w].queue : \E o \in Outcomes(p) :
         /\ transfers' = transfers \cup o.paid
         /\ job' = [job EXCEPT ![w] = [queue |-> @.queue \ {p}, answered |-> o.answer]]
         /\ excuses' = excuses \cup IF o.unanswered THEN {p.id} ELSE {}
    /\ UNCHANGED <<rows, op>>

StoreAnswer(w) ==
    /\ job[w].answered # NoRow
    /\ Save(job[w].answered)
    /\ job' = [job EXCEPT ![w].answered = NoRow]
    /\ UNCHANGED <<transfers, op, excuses>>

-----------------------------------------------------------------------------
(* Failures.                                                                *)

\* What is lost when requests R and workers W forget what they hold.
Forgotten(R, W) ==
    { op[r].payout.id : r \in { q \in R : op[q].step = "store" } }
    \cup { job[w].answered.id : w \in { v \in W : job[v].answered # NoRow } }

\* The client rejects the write request r is about to make.
SaveRejected(r) == ~SaveAccepted /\ op[r].step \in {"insert", "store", "retry"}

\* A query of a request fails: it ends with an error.
RequestFails(r) ==
    /\ op[r].step # "idle"
    /\ ~Failures => SaveRejected(r)
    /\ op' = [op EXCEPT ![r] = Idle]
    /\ excuses' = excuses \cup Forgotten({r}, {})
    /\ UNCHANGED <<rows, transfers, job>>

\* A write of the worker fails: it is logged and the loop goes on.
StoreAnswerFails(w) ==
    /\ job[w].answered # NoRow
    /\ ~Failures => ~SaveAccepted
    /\ job' = [job EXCEPT ![w].answered = NoRow]
    /\ excuses' = excuses \cup Forgotten({}, {w})
    /\ UNCHANGED <<rows, transfers, op>>

\* The server restarts.  The queue delivers an unfinished job again, which is
\* another FindPendingPayouts.
Crash ==
    /\ Failures
    /\ op' = [r \in Requests |-> Idle]
    /\ job' = [w \in Workers |-> NoJob]
    /\ op' # op \/ job' # job
    /\ excuses' = excuses \cup Forgotten(Requests, Workers)
    /\ UNCHANGED <<rows, transfers>>

RequestStep(r) ==
    \/ CheckExisting(r) \/ CheckRefused(r)
    \/ InsertRow(r) \/ InsertRefused(r)
    \/ RequestTransfer(r) \/ StoreOutcome(r)
    \/ StoreRetry(r)

WorkerStep(w) == FindPendingPayouts(w) \/ PayNext(w) \/ StoreAnswer(w)

Next ==
    \/ \E r \in Requests :
         \/ \E s \in Subjects : InitiatePayout(r, s)
         \/ \E p \in PayoutIds : RetryFailedPayout(r, p)
         \/ RequestStep(r)
         \/ RequestFails(r)
    \/ \E w \in Workers : WorkerStep(w) \/ StoreAnswerFails(w)
    \/ Crash

Spec == Init /\ [][Next]_vars

\* Cron queues the job every 15 minutes of a working day and the worker runs
\* what is queued; Node runs the calls it has started, and what the client rejects fails.
FairSpec ==
    /\ Spec
    /\ \A w \in Workers : WF_vars(WorkerStep(w) \/ (~SaveAccepted /\ StoreAnswerFails(w)))
    /\ \A r \in Requests : WF_vars(RequestStep(r) \/ (SaveRejected(r) /\ RequestFails(r)))

-----------------------------------------------------------------------------
(* Properties.                                                              *)

TypeOK ==
    /\ rows \in [PayoutIds -> Row \cup {NoRow}]
    /\ transfers \subseteq Transfer
    /\ op \in [Requests -> Slot]
    /\ job \in [Workers -> Worker]
    /\ excuses \subseteq PayoutIds

\* A row that says the money is on its way names a transfer the gateway made
\* for that very payout, whoever else wrote the row in between.
ProcessingHasTransfer ==
    \A p \in PayoutIds :
        rows[p].status = "PROCESSING" =>
            \E t \in transfers : t.payout = p /\ t.id = rows[p].ref

\* At most one payout of a booking, in progress or not: the check for payouts
\* in progress races with other calls, the unique column decides.
OnePayoutPerBooking ==
    \A p, q \in PayoutIds :
        Exists(p) /\ Exists(q) /\ rows[p].subject = rows[q].subject
            /\ rows[p].subject \in Bookings => p = q

\* Money goes out once for a payout, and the row says so as soon as nobody is
\* about to write it, except for the payouts with an excuse: retried after a
\* failure, paid while an answer or a write was lost, or picked up by a worker
\* while being paid.
Holding(t) ==
    \/ \E r \in Requests : op[r].step = "store" /\ op[r].payout.id = t.payout /\ op[r].payout.ref = t.id
    \/ \E w \in Workers : job[w].answered.id = t.payout /\ job[w].answered.ref = t.id

TransfersAccounted ==
    \A t \in transfers :
        \/ t.payout \in excuses
        \/ /\ \A u \in transfers : u.payout = t.payout => u = t
           /\ \/ Holding(t)
              \/ rows[t.payout].status = "PROCESSING" /\ rows[t.payout].ref = t.id

\* What callers, workers and failures make of a payout, however their copies interleave,
\* is what PayoutProtocol allows: the row follows the statuses of payout.entity.ts, money
\* goes out and is recorded in that order, and only payouts with an excuse leave it.  The
\* reference counts while the row says PROCESSING; a later status keeps it in the column.
Protocol == INSTANCE PayoutProtocol WITH
    status    <- [p \in PayoutIds |-> rows[p].status],
    subject   <- [p \in PayoutIds |-> rows[p].subject],
    reference <- [p \in PayoutIds |->
                    IF rows[p].status = "PROCESSING" THEN rows[p].ref ELSE None],
    excused   <- excuses

FollowsProtocol == Protocol!Spec

\* No money goes out for a payout the table does not know: the row is inserted before the
\* gateway is asked, and a request whose insert fails never asks.
PaidIsStored == \A t \in transfers : Exists(t.payout)

\* README.md: "Payout status tracking and automated retries".  A payout a call has created
\* gets into the table that the tracking and the retries read.
InitiatedIsStored ==
    \A s \in Subjects :
        (\E r \in Requests : op[r].step = "insert" /\ op[r].subject = s)
            ~> (\E p \in PayoutIds : Exists(p) /\ rows[p].subject = s)

=============================================================================
