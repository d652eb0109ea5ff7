----------------------- MODULE BookingLifecycleProofs ------------------------
(***************************************************************************)
(* Proofs about BookingLifecycle for every value of its constants: any      *)
(* number of bookings, legs and concurrent requests, webhooks delivered     *)
(* once or many times, with failures or without.                            *)
(***************************************************************************)
EXTENDS BookingLifecycle, TLAPS

-----------------------------------------------------------------------------
(* Types of the values the actions build.                                   *)

\* The rows and slots every action starts from are well typed.
LEMMA BaseTypes ==
    /\ NoRow \in Row /\ NewBooking \in Row
    /\ Idle \in Op
    /\ NoJob \in Job
BY DEF NoRow, NewBooking, Row, Idle, Op, NoJob, Job, BookingStatus, PaymentStatus,
       Steps, Kinds

\* A row confirmed or cancelled in memory is a row.
LEMMA AggregateTypes ==
    ASSUME NEW row \in Row
    PROVE  /\ \A p \in Payments \cup {None} : ConfirmWithPayment(row, p) \in Row
           /\ Cancel(row) \in Row
           /\ ActivateLeg(row) \in Row
           /\ CompleteLeg(row) \in Row
BY DEF Row, ConfirmWithPayment, Cancel, ActivateLeg, CompleteLeg, BookingStatus,
       PaymentStatus

\* Both repository saves store a row.
LEMMA SavedTypes ==
    ASSUME NEW old \in Row, NEW row \in Row
    PROVE  SavedRow(old, row) \in Row /\ SavedWithTransaction(old, row) \in Row
BY DEF Row, SavedRow, SavedWithTransaction, Keep

\* The events the code publishes.
LEMMA EventTypes ==
    ASSUME NEW b \in Bookings
    PROVE  /\ EventOf("BookingCreated", b, None) \in Event
           /\ EventOf("BookingCancelled", b, None) \in Event
           /\ \A l \in Legs : /\ EventOf("LegStarted", b, l) \in Event
                              /\ EventOf("LegEnded", b, l) \in Event
           /\ \A c \in Chauffeurs \cup {None} :
                /\ EventOf("ChauffeurAssigned", b, c) \in Event
                /\ EventOf("ChauffeurUnassigned", b, c) \in Event
BY DEF EventOf, Event

\* A slot that is not free holds a request about some booking.
LEMMA BusySlot ==
    ASSUME op \in [Requests -> Op], NEW r \in Requests, op[r].step # "idle"
    PROVE  op[r] \in Busy
BY DEF Op, Idle

\* Moving a request to its next await keeps the slots well typed.
LEMMA ProceedType ==
    ASSUME op \in [Requests -> Op], now \in Nat, NEW r \in Requests, NEW o \in Busy,
           Proceed(r, o)
    PROVE  op' \in [Requests -> Op]
<1>1. [o EXCEPT !.since = now] \in Op
  BY DEF Op, Busy
<1> QED
  BY <1>1 DEF Proceed

\* So does ending a request.
LEMMA FinishType ==
    ASSUME op \in [Requests -> Op], NEW r \in Requests, Finish(r)
    PROVE  op' \in [Requests -> Op]
BY BaseTypes DEF Finish

-----------------------------------------------------------------------------
(* Type correctness.                                                        *)

\* The steps of the requests in flight keep the state well typed.
LEMMA RequestTypes ==
    ASSUME TypeOK, NEW r \in Requests, RequestStep(r) \/ RequestFails(r)
    PROVE  TypeOK'
<1> USE DEF TypeOK
<1>1. CASE AttachPaymentIntent(r)
  <2>1. op[r] \in Busy
    BY <1>1, BusySlot DEF AttachPaymentIntent
  <2>2. op' \in [Requests -> Op]
    BY <1>1, FinishType DEF AttachPaymentIntent
  <2>3. op[r].b \in Bookings
    BY <2>1 DEF Busy
  <2> QED
    BY <1>1, <2>2, <2>3, EventTypes DEF AttachPaymentIntent
<1>2. CASE ConfirmBooking(r)
  <2>1. op[r] \in Busy
    BY <1>2, BusySlot DEF ConfirmBooking
  <2>2. ConfirmWithPayment(db[op[r].b], op[r].payment) \in Row
    BY <2>1, AggregateTypes DEF Busy
  <2>3. [op[r] EXCEPT !.step = "confirmRow",
                      !.row = ConfirmWithPayment(db[op[r].b], op[r].payment),
                      !.todo = Legs] \in Busy
    BY <2>1, <2>2 DEF Busy, Steps
  <2>4. op' \in [Requests -> Op]
    BY <1>2, <2>3, ProceedType DEF ConfirmBooking
  <2> QED
    BY <1>2, <2>4 DEF ConfirmBooking
<1>3. CASE ConfirmRejected(r)
  BY <1>3, FinishType DEF ConfirmRejected
<1>4. CASE ConfirmWriteRow(r)
  <2>1. op[r] \in Busy
    BY <1>4, BusySlot DEF ConfirmWriteRow
  <2>2. SavedRow(db[op[r].b], op[r].row) \in Row
    BY <2>1, SavedTypes DEF Busy
  <2>3. [op[r] EXCEPT !.step = "confirmLegs"] \in Busy
    BY <2>1 DEF Busy, Steps
  <2>4. op' \in [Requests -> Op]
    BY <1>4, <2>3, ProceedType DEF ConfirmWriteRow
  <2> QED
    BY <1>4, <2>2, <2>4 DEF ConfirmWriteRow
<1>5. ASSUME NEW l \in Legs, ConfirmWriteLeg(r, l) PROVE TypeOK'
  <2>1. op[r] \in Busy
    BY <1>5, BusySlot DEF ConfirmWriteLeg
  <2>2. [op[r] EXCEPT !.todo = @ \ {l}] \in Busy
    BY <2>1 DEF Busy
  <2>3. op' \in [Requests -> Op]
    BY <1>5, <2>2, ProceedType, FinishType DEF ConfirmWriteLeg
  <2>4. legStatus' \in [Bookings -> [Legs -> BookingLegStatus]]
    BY <1>5 DEF ConfirmWriteLeg, BookingLegStatus
  <2> QED
    BY <1>5, <2>3, <2>4 DEF ConfirmWriteLeg
<1>6. CASE CancelWriteRow(r)
  <2>1. op[r] \in Busy
    BY <1>6, BusySlot DEF CancelWriteRow
  <2>2. SavedWithTransaction(db[op[r].b], op[r].row) \in Row
    BY <2>1, SavedTypes DEF Busy
  <2>3. [op[r] EXCEPT !.step = "publish"] \in Busy
    BY <2>1 DEF Busy, Steps
  <2>4. op' \in [Requests -> Op]
    BY <1>6, <2>3, ProceedType DEF CancelWriteRow
  <2> QED
    BY <1>6, <2>2, <2>4 DEF CancelWriteRow
<1>7. CASE PublishEvents(r)
  <2>1. op[r] \in Busy
    BY <1>7, BusySlot DEF PublishEvents
  <2>2. op' \in [Requests -> Op]
    BY <1>7, FinishType DEF PublishEvents
  <2> QED
    BY <1>7, <2>1, <2>2 DEF PublishEvents, Busy
<1>8. CASE RequestFails(r)
  <2>1. op[r] \in Busy
    BY <1>8, BusySlot DEF RequestFails, Free
  <2>2. op' \in [Requests -> Op]
    BY <1>8, FinishType DEF RequestFails
  <2>3. CutShort({r}) \subseteq Bookings
    BY <2>1 DEF CutShort, Busy
  <2> QED
    BY <1>8, <2>2, <2>3 DEF RequestFails
<1> QED
  BY <1>1, <1>2, <1>3, <1>4, <1>5, <1>6, <1>7, <1>8 DEF RequestStep

\* Requests, webhooks and jobs that arrive keep the state well typed.
LEMMA ArrivalTypes ==
    ASSUME TypeOK, Arrival
    PROVE  TypeOK'
<1> USE DEF TypeOK
<1>1. ASSUME NEW r \in Requests, NEW b \in Bookings, CreatePendingBooking(r, b)
      PROVE  TypeOK'
  <2>1. [Idle EXCEPT !.step = "intent", !.b = b] \in Busy
    BY BaseTypes DEF Idle, Busy, Steps
  <2>2. op' \in [Requests -> Op]
    BY <1>1, <2>1, ProceedType DEF CreatePendingBooking
  <2>3. db' \in [Bookings -> Row]
    BY <1>1, BaseTypes DEF CreatePendingBooking
  <2>4. legStatus' \in [Bookings -> [Legs -> BookingLegStatus]]
    BY <1>1 DEF CreatePendingBooking, BookingLegStatus
  <2> QED
    BY <1>1, <2>2, <2>3, <2>4 DEF CreatePendingBooking
<1>2. ASSUME NEW r \in Requests, NEW b \in Bookings, CancelBooking(r, b)
      PROVE  TypeOK'
  <2>1. Cancel(db[b]) \in Row
    BY AggregateTypes
  <2>2. [Idle EXCEPT !.step = "cancelRow", !.b = b, !.row = Cancel(db[b]),
                     !.events = {EventOf("BookingCancelled", b, None)}] \in Busy
    BY <2>1, EventTypes DEF Idle, Busy, Steps
  <2>3. op' \in [Requests -> Op]
    BY <1>2, <2>2, ProceedType DEF CancelBooking
  <2> QED
    BY <1>2, <2>3 DEF CancelBooking
<1>3. ASSUME NEW r \in Requests, NEW b \in Bookings, UnassignChauffeur(r, b)
      PROVE  TypeOK'
  <2>1. /\ db[b].chauffeurId \in Chauffeurs \cup {None}
        /\ [db[b] EXCEPT !.chauffeurId = None] \in Row
    BY DEF Row
  <2>2. [Idle EXCEPT !.step = "publish", !.b = b,
                     !.row = [db[b] EXCEPT !.chauffeurId = None],
                     !.events = {EventOf("ChauffeurUnassigned", b, db[b].chauffeurId)}] \in Busy
    BY <2>1, EventTypes DEF Idle, Busy, Steps
  <2>3. op' \in [Requests -> Op]
    BY <1>3, <2>2, ProceedType DEF UnassignChauffeur
  <2> QED
    BY <1>3, <2>3 DEF UnassignChauffeur
<1>4. ASSUME NEW r \in Requests, NEW b \in Bookings, NEW c \in Chauffeurs,
             AssignChauffeur(r, b, c)
      PROVE  TypeOK'
  <2> DEFINE old == db[b].chauffeurId
             ev == {EventOf("ChauffeurAssigned", b, c)} \cup
                   (IF old = None THEN {} ELSE {EventOf("ChauffeurUnassigned", b, old)})
  <2>1. /\ old \in Chauffeurs \cup {None}
        /\ [db[b] EXCEPT !.chauffeurId = c] \in Row
    BY DEF Row
  <2>2. ev \in SUBSET Event
    BY <2>1, EventTypes
  <2>3. [Idle EXCEPT !.step = "publish", !.b = b,
                     !.row = [db[b] EXCEPT !.chauffeurId = c], !.events = ev] \in Busy
    BY <2>1, <2>2 DEF Idle, Busy, Steps
  <2>4. op' \in [Requests -> Op]
    BY <1>4, <2>3, ProceedType DEF AssignChauffeur
  <2> QED
    BY <1>4, <2>4 DEF AssignChauffeur
<1>5. ASSUME NEW r \in Requests, NEW c \in charges, Webhook(r, c) PROVE TypeOK'
  <2>1. c.booking \in Bookings /\ c.id \in Payments
    BY DEF Charge
  <2>2. [Idle EXCEPT !.step = "confirm", !.b = c.booking, !.payment = c.id] \in Busy
    BY <2>1, BaseTypes DEF Idle, Busy, Steps
  <2>3. op' \in [Requests -> Op]
    BY <1>5, <2>2, ProceedType DEF Webhook
  <2> QED
    BY <1>5, <2>3 DEF Webhook
<1>6. ASSUME NEW kind \in Kinds, NEW booked \in SUBSET Bookings, JobQuery(kind, booked)
      PROVE  TypeOK'
  <2>1. LegsDue(kind, booked) \in SUBSET (Bookings \X Legs)
    BY DEF LegsDue
  <2>2. job' \in Job
    BY <1>6, <2>1, BaseTypes DEF JobQuery, Job, NoJob
  <2> QED
    BY <1>6, <2>2 DEF JobQuery
<1> QED
  BY <1>1, <1>2, <1>3, <1>4, <1>5, <1>6 DEF Arrival

\* The worker, the outside world, crashes and the clock keep it well typed.
LEMMA OtherTypes ==
    ASSUME TypeOK, JobStep \/ JobFails \/ Outside \/ Crash \/ Tick
    PROVE  TypeOK'
<1> USE DEF TypeOK
<1>1. CASE JobLoad
  <2> DEFINE rows == [b \in Bookings |->
                        IF b \notin Modified(Processed) THEN NoRow
                        ELSE IF job.kind = "activate" THEN ActivateLeg(db[b])
                             ELSE CompleteLeg(db[b])]
  <2>1. rows \in [Bookings -> Row]
    BY BaseTypes, AggregateTypes
  <2>2. Processed \in SUBSET (Bookings \X Legs)
    BY DEF Processed, Job
  <2> HIDE DEF rows
  <2>3. [job EXCEPT !.step = "loaded", !.processed = Processed, !.since = now,
                    !.rows = rows] \in Job
    BY <2>1, <2>2 DEF Job
  <2> QED
    BY <1>1, <2>3 DEF JobLoad, rows
<1>2. CASE JobSave
  <2>1. db' \in [Bookings -> Row]
    BY <1>2, SavedTypes DEF JobSave, Job
  <2>2. job' \in Job
    BY <1>2, BaseTypes DEF JobSave, Job
  <2> QED
    BY <1>2, <2>1, <2>2 DEF JobSave
<1>3. ASSUME NEW d \in job.processed, JobPublish(d) PROVE TypeOK'
  <2>1. d \in Bookings \X Legs
    BY DEF Job
  <2>2. published' \subseteq Event
    BY <1>3, <2>1, EventTypes DEF JobPublish
  <2>3. job' \in Job
    BY <1>3, BaseTypes DEF JobPublish, Job
  <2> QED
    BY <1>3, <2>2, <2>3 DEF JobPublish
<1>4. CASE JobFails
  BY <1>4, BaseTypes DEF JobFails
<1>5. ASSUME NEW b \in Bookings, NEW p \in Payments, NEW ok \in BOOLEAN,
             CustomerPays(b, p, ok)
      PROVE  TypeOK'
  BY <1>5 DEF CustomerPays, Charge
<1>6. ASSUME NEW b \in Bookings, NEW c \in Chauffeurs, DispatchChauffeur(b, c)
      PROVE  TypeOK'
  <2>1. db' \in [Bookings -> Row]
    BY <1>6 DEF DispatchChauffeur, Row
  <2> QED
    BY <1>6, <2>1 DEF DispatchChauffeur
<1>7. CASE Crash
  <2>1. CutShort(Requests) \subseteq Bookings
    BY BusySlot DEF CutShort, Busy
  <2>2. op' \in [Requests -> Op] /\ job' \in Job
    BY <1>7, BaseTypes DEF Crash
  <2> QED
    BY <1>7, <2>1, <2>2 DEF Crash
<1>8. CASE Tick
  BY <1>8 DEF Tick
<1> QED
  BY <1>1, <1>2, <1>3, <1>4, <1>5, <1>6, <1>7, <1>8 DEF JobStep, Outside

\* TypeOK holds in every state of every behaviour.
THEOREM TypeCorrect == Spec => []TypeOK
<1>1. Init => TypeOK
  BY BaseTypes DEF Init, TypeOK, BookingLegStatus
<1>2. TypeOK /\ [Next]_vars => TypeOK'
  <2> SUFFICES ASSUME TypeOK, [Next]_vars PROVE TypeOK'
    OBVIOUS
  <2>1. CASE UNCHANGED vars
    BY <2>1 DEF vars, TypeOK
  <2>2. CASE Next
    BY <2>2, RequestTypes, ArrivalTypes, OtherTypes DEF Next
  <2> QED
    BY <2>1, <2>2
<1> QED
  BY <1>1, <1>2, PTL DEF Spec

-----------------------------------------------------------------------------
(* Settled rows.                                                            *)

\* More charges settle no less.
LEMMA SettledGrows ==
    ASSUME NEW ch, NEW ch2, ch \subseteq ch2, NEW b, NEW row, Settled(ch, b, row)
    PROVE  Settled(ch2, b, row)
BY DEF Settled, Bought

\* Saving a settled aggregate stores a settled row, whatever row it replaces:
\* its payment id is present, so no column of an older row shows through.
LEMMA SavingSettles ==
    ASSUME NEW ch \in SUBSET Charge, NEW b, NEW old \in Row, NEW row \in Row,
           Settled(ch, b, row)
    PROVE  Settled(ch, b, SavedRow(old, row)) /\ Settled(ch, b, SavedWithTransaction(old, row))
<1>1. row.paymentId # None
  BY NoneAssumption DEF Settled, Bought, Charge
<1>2. /\ SavedRow(old, row).paymentId = row.paymentId
      /\ SavedRow(old, row).paymentStatus = row.paymentStatus
      /\ SavedRow(old, row).status = row.status
  BY <1>1 DEF SavedRow, Keep, Row
<1>3. /\ SavedWithTransaction(old, row).paymentId = row.paymentId
      /\ SavedWithTransaction(old, row).paymentStatus = row.paymentStatus
      /\ SavedWithTransaction(old, row).status = row.status
  BY <1>1 DEF SavedWithTransaction, SavedRow, Keep, Row
<1> QED
  BY <1>2, <1>3 DEF Settled

\* What the aggregate does to a settled or bought row leaves it settled.
LEMMA AggregateSettles ==
    ASSUME NEW ch, NEW b, NEW row \in Row
    PROVE  /\ \A p : Bought(ch, b, p) => Settled(ch, b, ConfirmWithPayment(row, p))
           /\ RowOK(ch, b, row) /\ row.status = "CONFIRMED" => Settled(ch, b, Cancel(row))
           /\ Settled(ch, b, row) => Settled(ch, b, ActivateLeg(row))
           /\ Settled(ch, b, row) => Settled(ch, b, CompleteLeg(row))
<1>1. ASSUME NEW p, Bought(ch, b, p) PROVE Settled(ch, b, ConfirmWithPayment(row, p))
  BY <1>1 DEF Row, ConfirmWithPayment, Settled, PaidStatuses
<1>2. ASSUME RowOK(ch, b, row), row.status = "CONFIRMED" PROVE Settled(ch, b, Cancel(row))
  BY <1>2 DEF Row, Cancel, RowOK, Untouched, Settled
<1>3. ASSUME Settled(ch, b, row) PROVE Settled(ch, b, ActivateLeg(row))
  BY <1>3 DEF Row, ActivateLeg, Settled, PaidStatuses
<1>4. ASSUME Settled(ch, b, row) PROVE Settled(ch, b, CompleteLeg(row))
  BY <1>4 DEF Row, CompleteLeg, Settled, PaidStatuses
<1> QED
  BY <1>1, <1>2, <1>3, <1>4

\* A request that does nothing keeps what it is entitled to write, as long as
\* settled rows stay settled.
LEMMA SlotKept ==
    ASSUME NEW ch, NEW ch2, ch \subseteq ch2, NEW d, NEW d2, NEW o \in Op,
           \A b \in Bookings : Settled(ch, b, d[b]) => Settled(ch2, b, d2[b]),
           SlotOK(ch, d, o)
    PROVE  SlotOK(ch2, d2, o)
<1>1. o.step = "idle" \/ o.b \in Bookings
  BY DEF Op, Busy, Idle
<1>2. o.step = "confirm" => Bought(ch2, o.b, o.payment)
  BY DEF SlotOK, Bought
<1> QED
  BY <1>1, <1>2, SettledGrows DEF SlotOK

\* The frame of every step: if charges only grow, and every row, leg, slot and
\* job that changed is right, then MoneyInv is kept.
LEMMA MoneyFrame ==
    ASSUME TypeOK, MoneyInv, charges \subseteq charges',
           \A b \in Bookings : \/ db'[b] = db[b]
                               \/ Untouched(db[b]) /\ Untouched(db'[b])
                               \/ Settled(charges', b, db'[b]),
           \A b \in Bookings, l \in Legs :
              \/ legStatus'[b][l] = legStatus[b][l]
              \/ legStatus'[b][l] = "PENDING"
              \/ Settled(charges', b, db'[b]),
           \A r \in Requests : op'[r] = op[r] \/ SlotOK(charges', db', op'[r]),
           job' = job \/ JobOK(charges', job')
    PROVE  MoneyInv'
<1>1. \A b \in Bookings : Settled(charges, b, db[b]) => Settled(charges', b, db'[b])
  <2> SUFFICES ASSUME NEW b \in Bookings, Settled(charges, b, db[b])
               PROVE  Settled(charges', b, db'[b])
    OBVIOUS
  <2>1. ~ Untouched(db[b])
    BY DEF Settled, Untouched, PaidStatuses
  <2> QED
    BY <2>1, SettledGrows
<1>2. \A b \in Bookings : RowOK(charges', b, db'[b])
  BY SettledGrows DEF MoneyInv, RowOK
<1>3. ASSUME NEW b \in Bookings, NEW l \in Legs, legStatus'[b][l] # "PENDING"
      PROVE  Settled(charges', b, db'[b])
  BY <1>1, <1>3 DEF MoneyInv
<1>4. \A r \in Requests : SlotOK(charges', db', op'[r])
  <2>1. ASSUME NEW r \in Requests, op'[r] = op[r] PROVE SlotOK(charges', db', op'[r])
    <3>1. op[r] \in Op /\ SlotOK(charges, db, op[r])
      BY DEF TypeOK, MoneyInv
    <3> QED
      BY <1>1, <2>1, <3>1, SlotKept
  <2> QED
    BY <2>1
<1>5. JobOK(charges', job')
  <2>1. JobOK(charges', job)
    BY SettledGrows DEF MoneyInv, JobOK
  <2> QED
    BY <2>1
<1> QED
  BY <1>2, <1>3, <1>4, <1>5 DEF MoneyInv

\* What Proceed and Finish do to the slots.
LEMMA SlotChange ==
    ASSUME TypeOK, NEW r \in Requests
    PROVE  /\ \A o \in Busy : Proceed(r, o) =>
                op'[r] = [o EXCEPT !.since = now] /\ \A q \in Requests \ {r} : op'[q] = op[q]
           /\ Finish(r) =>
                op'[r] = Idle /\ \A q \in Requests \ {r} : op'[q] = op[q]
BY DEF TypeOK, Proceed, Finish

\* A slot at a step that writes nothing has nothing to be settled.
LEMMA QuietSlot ==
    ASSUME NEW ch, NEW d, NEW o, o.step \in {"idle", "intent", "publish"}
    PROVE  SlotOK(ch, d, o)
BY DEF SlotOK

-----------------------------------------------------------------------------
(* MoneyInv is inductive.                                                   *)

\* Requests in flight keep MoneyInv: the confirmation carries a charge from
\* the webhook to the row, the cancellation the row it loaded.
LEMMA RequestMoney ==
    ASSUME TypeOK, MoneyInv, NEW r \in Requests, RequestStep(r) \/ RequestFails(r)
    PROVE  MoneyInv'
<1> USE DEF TypeOK
<1>0. SlotOK(charges, db, op[r])
  BY DEF MoneyInv
<1>1. CASE Finish(r) /\ UNCHANGED <<db, legStatus, charges, job>>
  <2>1. op'[r] = Idle /\ \A q \in Requests \ {r} : op'[q] = op[q]
    BY <1>1, SlotChange
  <2>2. SlotOK(charges', db', op'[r])
    BY <2>1, QuietSlot DEF Idle
  <2> QED
    BY <1>1, <2>1, <2>2, MoneyFrame
<1>2. CASE ConfirmBooking(r)
  <2> DEFINE row == ConfirmWithPayment(db[op[r].b], op[r].payment)
             o == [op[r] EXCEPT !.step = "confirmRow", !.row = row, !.todo = Legs]
  <2>1. op[r] \in Busy
    BY <1>2, BusySlot DEF ConfirmBooking
  <2>2. row \in Row
    BY <2>1, AggregateTypes DEF Busy
  <2>3. Settled(charges, op[r].b, row)
    BY <1>0, <1>2, <2>1, AggregateSettles DEF ConfirmBooking, SlotOK, Busy
  <2> HIDE DEF row
  <2>4. o \in Busy
    BY <2>1, <2>2 DEF Busy, Steps
  <2>5. op'[r] = [o EXCEPT !.since = now] /\ \A q \in Requests \ {r} : op'[q] = op[q]
    BY <1>2, <2>4, SlotChange DEF ConfirmBooking, row
  <2>6. op'[r].step = "confirmRow" /\ op'[r].b = op[r].b /\ op'[r].row = row
    BY <2>1, <2>5 DEF Busy
  <2>7. SlotOK(charges', db', op'[r])
    BY <1>2, <2>3, <2>6 DEF SlotOK, ConfirmBooking
  <2> QED
    BY <1>2, <2>5, <2>7, MoneyFrame DEF ConfirmBooking
<1>3. CASE ConfirmWriteRow(r)
  <2> DEFINE o == [op[r] EXCEPT !.step = "confirmLegs"]
  <2>1. op[r] \in Busy
    BY <1>3, BusySlot DEF ConfirmWriteRow
  <2>2. Settled(charges, op[r].b, SavedRow(db[op[r].b], op[r].row))
    BY <1>0, <1>3, <2>1, SavingSettles DEF ConfirmWriteRow, SlotOK, Busy
  <2>3. o \in Busy
    BY <2>1 DEF Busy, Steps
  <2>4. op'[r] = [o EXCEPT !.since = now] /\ \A q \in Requests \ {r} : op'[q] = op[q]
    BY <1>3, <2>3, SlotChange DEF ConfirmWriteRow
  <2>5. op'[r].step = "confirmLegs" /\ op'[r].b = op[r].b
    BY <2>1, <2>4 DEF Busy
  <2>6. Settled(charges', op[r].b, db'[op[r].b])
    BY <1>3, <2>1, <2>2 DEF ConfirmWriteRow, Busy
  <2>7. SlotOK(charges', db', op'[r])
    BY <2>5, <2>6 DEF SlotOK
  <2>8. \A b \in Bookings : db'[b] = db[b] \/ Settled(charges', b, db'[b])
    BY <1>3, <2>6 DEF ConfirmWriteRow
  <2> QED
    BY <1>3, <2>4, <2>7, <2>8, MoneyFrame DEF ConfirmWriteRow
<1>4. ASSUME NEW l \in Legs, ConfirmWriteLeg(r, l) PROVE MoneyInv'
  <2> DEFINE o == [op[r] EXCEPT !.todo = @ \ {l}]
  <2>1. op[r] \in Busy
    BY <1>4, BusySlot DEF ConfirmWriteLeg
  <2>2. Settled(charges, op[r].b, db[op[r].b])
    BY <1>0, <1>4 DEF ConfirmWriteLeg, SlotOK
  <2>3. o \in Busy
    BY <2>1 DEF Busy
  <2>4. /\ op'[r] = Idle \/ op'[r] = [o EXCEPT !.since = now]
        /\ \A q \in Requests \ {r} : op'[q] = op[q]
    BY <1>4, <2>3, SlotChange DEF ConfirmWriteLeg
  <2>5. \/ op'[r].step = "idle"
        \/ op'[r].step = "confirmLegs" /\ op'[r].b = op[r].b
    <3>1. CASE op'[r] = Idle
      BY <3>1 DEF Idle
    <3>2. CASE op'[r] = [o EXCEPT !.since = now]
      <4>1. op'[r].step = o.step /\ op'[r].b = o.b
        BY <2>3, <3>2 DEF Busy
      <4>2. o.step = op[r].step /\ o.b = op[r].b
        BY <2>1 DEF Busy
      <4> QED
        BY <1>4, <4>1, <4>2 DEF ConfirmWriteLeg
    <3> QED
      BY <2>4, <3>1, <3>2
  <2>6. SlotOK(charges', db', op'[r])
    BY <1>4, <2>2, <2>5 DEF SlotOK, ConfirmWriteLeg
  <2>7. \A b \in Bookings, m \in Legs :
           legStatus'[b][m] = legStatus[b][m] \/ Settled(charges', b, db'[b])
    BY <1>4, <2>2 DEF ConfirmWriteLeg
  <2> QED
    BY <1>4, <2>4, <2>6, <2>7, MoneyFrame DEF ConfirmWriteLeg
<1>5. CASE CancelWriteRow(r)
  <2> DEFINE o == [op[r] EXCEPT !.step = "publish"]
  <2>1. op[r] \in Busy
    BY <1>5, BusySlot DEF CancelWriteRow
  <2>2. Settled(charges, op[r].b, SavedWithTransaction(db[op[r].b], op[r].row))
    BY <1>0, <1>5, <2>1, SavingSettles DEF CancelWriteRow, SlotOK, Busy
  <2>3. o \in Busy
    BY <2>1 DEF Busy, Steps
  <2>4. op'[r] = [o EXCEPT !.since = now] /\ \A q \in Requests \ {r} : op'[q] = op[q]
    BY <1>5, <2>3, SlotChange DEF CancelWriteRow
  <2>5. op'[r].step = "publish"
    BY <2>1, <2>4 DEF Busy
  <2>6. \A b \in Bookings : db'[b] = db[b] \/ Settled(charges', b, db'[b])
    BY <1>5, <2>1, <2>2 DEF CancelWriteRow, Busy
  <2>7. SlotOK(charges', db', op'[r])
    BY <2>5, QuietSlot
  <2> QED
    BY <1>5, <2>4, <2>6, <2>7, MoneyFrame DEF CancelWriteRow
<1> QED
  BY <1>1, <1>2, <1>3, <1>4, <1>5
     DEF RequestStep, AttachPaymentIntent, ConfirmRejected, PublishEvents, RequestFails

\* New requests, webhooks and jobs keep MoneyInv.
LEMMA ArrivalMoney ==
    ASSUME TypeOK, MoneyInv, Arrival
    PROVE  MoneyInv'
<1> USE DEF TypeOK
<1>1. ASSUME NEW r \in Requests, NEW b \in Bookings, CreatePendingBooking(r, b)
      PROVE  MoneyInv'
  <2>1. [Idle EXCEPT !.step = "intent", !.b = b] \in Busy
    BY BaseTypes DEF Idle, Busy, Steps
  <2>2. /\ op'[r] = [[Idle EXCEPT !.step = "intent", !.b = b] EXCEPT !.since = now]
        /\ \A q \in Requests \ {r} : op'[q] = op[q]
    BY <1>1, <2>1, SlotChange DEF CreatePendingBooking
  <2>3. op'[r].step = "intent"
    BY <2>2 DEF Idle
  <2>4. Untouched(db[b]) /\ Untouched(NewBooking)
    BY <1>1 DEF CreatePendingBooking, MoneyInv, RowOK, Untouched, Settled, PaidStatuses,
                NewBooking, NoRow
  <2>5. SlotOK(charges', db', op'[r])
    BY <2>3, QuietSlot
  <2>6. \A a \in Bookings : \/ db'[a] = db[a]
                            \/ Untouched(db[a]) /\ Untouched(db'[a])
    BY <1>1, <2>4 DEF CreatePendingBooking
  <2>7. \A a \in Bookings, l \in Legs :
           legStatus'[a][l] = legStatus[a][l] \/ legStatus'[a][l] = "PENDING"
    BY <1>1 DEF CreatePendingBooking
  <2> QED
    <3>1. charges' = charges /\ job' = job
      BY <1>1 DEF CreatePendingBooking
    <3>2. \A q \in Requests : op'[q] = op[q] \/ SlotOK(charges', db', op'[q])
      BY <2>2, <2>5
    <3> QED
      BY <2>6, <2>7, <3>1, <3>2, MoneyFrame
<1>2. ASSUME NEW r \in Requests, NEW b \in Bookings, CancelBooking(r, b)
      PROVE  MoneyInv'
  <2> DEFINE o == [Idle EXCEPT !.step = "cancelRow", !.b = b, !.row = Cancel(db[b]),
                               !.events = {EventOf("BookingCancelled", b, None)}]
  <2>1. Cancel(db[b]) \in Row
    BY AggregateTypes
  <2>2. o \in Busy
    BY <2>1, EventTypes DEF Idle, Busy, Steps
  <2>3. op'[r] = [o EXCEPT !.since = now] /\ \A q \in Requests \ {r} : op'[q] = op[q]
    BY <1>2, <2>2, SlotChange DEF CancelBooking
  <2>4. op'[r].step = "cancelRow" /\ op'[r].b = b /\ op'[r].row = Cancel(db[b])
    BY <2>3 DEF Idle
  <2>5. Settled(charges, b, Cancel(db[b]))
    BY <1>2, AggregateSettles DEF CancelBooking, IsEligibleForCancellation, MoneyInv
  <2>6. SlotOK(charges', db', op'[r])
    BY <1>2, <2>4, <2>5 DEF SlotOK, CancelBooking
  <2> QED
    BY <1>2, <2>3, <2>6, MoneyFrame DEF CancelBooking
<1>3. ASSUME NEW r \in Requests, NEW o \in Busy, o.step = "publish", Proceed(r, o),
             UNCHANGED <<db, legStatus, charges, job>>
      PROVE  MoneyInv'
  <2>1. op'[r] = [o EXCEPT !.since = now] /\ \A q \in Requests \ {r} : op'[q] = op[q]
    BY <1>3, SlotChange
  <2>2. op'[r].step = "publish"
    BY <1>3, <2>1 DEF Busy
  <2>3. SlotOK(charges', db', op'[r])
    BY <2>2, QuietSlot
  <2> QED
    BY <1>3, <2>1, <2>3, MoneyFrame
<1>4. ASSUME NEW r \in Requests, NEW b \in Bookings, UnassignChauffeur(r, b)
      PROVE  MoneyInv'
  <2> DEFINE o == [Idle EXCEPT !.step = "publish", !.b = b,
                     !.row = [db[b] EXCEPT !.chauffeurId = None],
                     !.events = {EventOf("ChauffeurUnassigned", b, db[b].chauffeurId)}]
  <2>1. /\ db[b].chauffeurId \in Chauffeurs \cup {None}
        /\ [db[b] EXCEPT !.chauffeurId = None] \in Row
    BY DEF Row
  <2>2. o \in Busy /\ o.step = "publish"
    BY <2>1, EventTypes DEF Idle, Busy, Steps
  <2> QED
    BY <1>3, <1>4, <2>2 DEF UnassignChauffeur
<1>5. ASSUME NEW r \in Requests, NEW b \in Bookings, NEW c \in Chauffeurs,
             AssignChauffeur(r, b, c)
      PROVE  MoneyInv'
  <2> DEFINE old == db[b].chauffeurId
             ev == {EventOf("ChauffeurAssigned", b, c)} \cup
                   (IF old = None THEN {} ELSE {EventOf("ChauffeurUnassigned", b, old)})
             o == [Idle EXCEPT !.step = "publish", !.b = b,
                     !.row = [db[b] EXCEPT !.chauffeurId = c], !.events = ev]
  <2>1. /\ old \in Chauffeurs \cup {None}
        /\ [db[b] EXCEPT !.chauffeurId = c] \in Row
    BY DEF Row
  <2>2. ev \in SUBSET Event
    BY <2>1, EventTypes
  <2>3. o \in Busy /\ o.step = "publish"
    BY <2>1, <2>2 DEF Idle, Busy, Steps
  <2> QED
    BY <1>3, <1>5, <2>3 DEF AssignChauffeur
<1>6. ASSUME NEW r \in Requests, NEW c \in charges, Webhook(r, c) PROVE MoneyInv'
  <2> DEFINE o == [Idle EXCEPT !.step = "confirm", !.b = c.booking, !.payment = c.id]
  <2>1. CASE ~ c.ok
    BY <1>6, <2>1, MoneyFrame DEF Webhook
  <2>2. CASE c.ok
    <3>1. c.booking \in Bookings /\ c.id \in Payments
      BY DEF Charge
    <3>2. o \in Busy
      BY <3>1, BaseTypes DEF Idle, Busy, Steps
    <3>3. op'[r] = [o EXCEPT !.since = now] /\ \A q \in Requests \ {r} : op'[q] = op[q]
      BY <1>6, <2>2, <3>2, SlotChange DEF Webhook
    <3>4. op'[r].step = "confirm" /\ op'[r].b = c.booking /\ op'[r].payment = c.id
      BY <3>3 DEF Idle
    <3>5. SlotOK(charges', db', op'[r])
      BY <1>6, <2>2, <3>4 DEF SlotOK, Bought, Webhook
    <3> QED
      BY <1>6, <3>3, <3>5, MoneyFrame DEF Webhook
  <2> QED
    BY <2>1, <2>2
<1>7. ASSUME NEW kind \in Kinds, NEW booked \in SUBSET Bookings, JobQuery(kind, booked)
      PROVE  MoneyInv'
  <2>1. job'.step = "queried"
    BY <1>7 DEF JobQuery, NoJob
  <2>2. JobOK(charges', job')
    BY <2>1 DEF JobOK
  <2> QED
    BY <1>7, <2>2, MoneyFrame DEF JobQuery
<1> QED
  BY <1>1, <1>2, <1>4, <1>5, <1>6, <1>7 DEF Arrival

\* The worker writes back rows it found settled; nothing else touches money.
LEMMA OtherMoney ==
    ASSUME TypeOK, MoneyInv, JobStep \/ JobFails \/ Outside \/ Crash \/ Tick
    PROVE  MoneyInv'
<1> USE DEF TypeOK
<1>1. CASE JobLoad
  <2> DEFINE rows == [b \in Bookings |->
                        IF b \notin Modified(Processed) THEN NoRow
                        ELSE IF job.kind = "activate" THEN ActivateLeg(db[b])
                             ELSE CompleteLeg(db[b])]
  <2>1. \A e \in Processed : e \in Bookings \X Legs /\ legStatus[e[1]][e[2]] # "PENDING"
    BY DEF Processed, Job, LegTransitions
  <2>2. \A e \in Processed : e[1] \in Bookings /\ Settled(charges, e[1], db[e[1]])
    BY <2>1 DEF MoneyInv
  <2>3. \A e \in Processed : e[1] \in Modified(Processed)
    BY DEF Modified
  <2>4. \A e \in Processed : Settled(charges, e[1], rows[e[1]])
    BY <2>2, <2>3, AggregateSettles
  <2>5. job'.rows = rows /\ job'.processed = Processed
    BY <1>1 DEF JobLoad, Job
  <2>6. JobOK(charges', job')
    BY <1>1, <2>4, <2>5 DEF JobOK, JobLoad
  <2> QED
    BY <1>1, <2>6, MoneyFrame DEF JobLoad
<1>2. CASE JobSave
  <2>1. ASSUME NEW b \in Modified(job.processed)
        PROVE  Settled(charges, b, job.rows[b])
    BY <1>2 DEF JobSave, Modified, MoneyInv, JobOK
  <2>2. ASSUME NEW b \in Bookings
        PROVE  db'[b] = db[b] \/ Settled(charges', b, db'[b])
    <3>1. CASE b \notin Modified(job.processed)
      BY <1>2, <3>1 DEF JobSave
    <3>2. CASE b \in Modified(job.processed)
      <4>1. job.rows[b] \in Row /\ db[b] \in Row
        BY DEF Job
      <4>2. Settled(charges, b, SavedWithTransaction(db[b], job.rows[b]))
        BY <2>1, <3>2, <4>1, SavingSettles
      <4> QED
        BY <1>2, <3>2, <4>2 DEF JobSave
    <3> QED
      BY <3>1, <3>2
  <2>3. job'.step # "loaded"
    BY <1>2 DEF JobSave, NoJob, Job
  <2>4. JobOK(charges', job')
    BY <2>3 DEF JobOK
  <2> QED
    BY <1>2, <2>2, <2>4, MoneyFrame DEF JobSave
<1>3. ASSUME NEW d \in job.processed, JobPublish(d) PROVE MoneyInv'
  <2>1. job'.step # "loaded"
    BY <1>3 DEF JobPublish, NoJob, Job
  <2>2. JobOK(charges', job')
    BY <2>1 DEF JobOK
  <2> QED
    BY <1>3, <2>2, MoneyFrame DEF JobPublish
<1>4. CASE JobFails
  <2>1. JobOK(charges', job')
    BY <1>4 DEF JobFails, NoJob, JobOK
  <2> QED
    BY <1>4, <2>1, MoneyFrame DEF JobFails
<1>5. ASSUME NEW b \in Bookings, NEW p \in Payments, NEW ok \in BOOLEAN,
             CustomerPays(b, p, ok)
      PROVE  MoneyInv'
  BY <1>5, MoneyFrame DEF CustomerPays
<1>6. ASSUME NEW b \in Bookings, NEW c \in Chauffeurs, DispatchChauffeur(b, c)
      PROVE  MoneyInv'
  <2>1. /\ db'[b].status = db[b].status
        /\ db'[b].paymentStatus = db[b].paymentStatus
        /\ db'[b].paymentId = db[b].paymentId
    BY <1>6 DEF DispatchChauffeur, Row
  <2>2. Settled(charges, b, db[b])
    BY <1>6 DEF DispatchChauffeur, MoneyInv, RowOK, Untouched
  <2>3. Settled(charges', b, db'[b])
    BY <1>6, <2>1, <2>2 DEF Settled, DispatchChauffeur
  <2>4. \A a \in Bookings : db'[a] = db[a] \/ Settled(charges', a, db'[a])
    BY <1>6, <2>3 DEF DispatchChauffeur
  <2> QED
    BY <1>6, <2>4, MoneyFrame DEF DispatchChauffeur
<1>7. CASE Crash
  <2>1. \A r \in Requests : SlotOK(charges', db', op'[r])
    BY <1>7, QuietSlot DEF Crash, Idle
  <2>2. JobOK(charges', job')
    BY <1>7 DEF Crash, NoJob, JobOK
  <2> QED
    BY <1>7, <2>1, <2>2, MoneyFrame DEF Crash
<1>8. CASE Tick
  BY <1>8, MoneyFrame DEF Tick
<1> QED
  BY <1>1, <1>2, <1>3, <1>4, <1>5, <1>6, <1>7, <1>8 DEF JobStep, Outside

\* MoneyInv holds in every reachable state.
THEOREM MoneyInvariant == Spec => [](TypeOK /\ MoneyInv)
<1>1. Init => MoneyInv
  BY DEF Init, MoneyInv, RowOK, Untouched, NoRow, SlotOK, Idle, JobOK, NoJob
<1>2. TypeOK /\ MoneyInv /\ [Next]_vars => MoneyInv'
  <2> SUFFICES ASSUME TypeOK, MoneyInv, [Next]_vars PROVE MoneyInv'
    OBVIOUS
  <2>1. CASE UNCHANGED vars
    BY <2>1 DEF vars, MoneyInv
  <2>2. CASE Next
    BY <2>2, RequestMoney, ArrivalMoney, OtherMoney DEF Next
  <2> QED
    BY <2>1, <2>2
<1> QED
  BY <1>1, <1>2, TypeCorrect, PTL DEF Spec

\* A booking's payment column always agrees with its status, and it is paid
\* for by a successful charge - whatever requests interleave or fail.
THEOREM MoneySafe == Spec => []MoneyMatchesStatus
<1>1. TypeOK /\ MoneyInv => MoneyMatchesStatus
  BY DEF TypeOK, MoneyInv, MoneyMatchesStatus, RowOK, Untouched, Settled, Bought, Row,
         PaidStatuses
<1> QED
  BY <1>1, MoneyInvariant, PTL

\* A confirmed leg implies a booking that was paid.
THEOREM LegsSafe == Spec => []LegsTrailBooking
<1>1. MoneyInv => LegsTrailBooking
  BY DEF MoneyInv, LegsTrailBooking, Settled
<1> QED
  BY <1>1, MoneyInvariant, PTL

-----------------------------------------------------------------------------
(* NoticeInv is inductive, and with it no cancelled trip is announced as     *)
(* started.                                                                 *)

\* The frame of a step that takes no time: only a slot or a job that changed
\* has to be looked at, and a booking may become cancelled only while the
\* worker is idle.
LEMMA NoticeFrame ==
    ASSUME TypeOK, NoticeInv, now' = now,
           \A r \in Requests : op'[r] = op[r] \/ SlotNotice(op'[r], now),
           job' = job \/ JobNotice(job', db', now),
           \/ job.step = "idle"
           \/ \A b \in Bookings : db'[b].status = "CANCELLED" => db[b].status = "CANCELLED"
    PROVE  NoticeInv'
<1>1. \A r \in Requests : SlotNotice(op'[r], now')
  BY DEF NoticeInv
<1>2. JobNotice(job, db', now')
  <2>1. \A e \in job.due : e[1] \in Bookings
    BY DEF TypeOK, Job
  <2> QED
    BY <2>1 DEF NoticeInv, JobNotice
<1>3. JobNotice(job', db', now')
  BY <1>2
<1> QED
  BY <1>1, <1>3 DEF NoticeInv

\* A cancellation waiting to be written and a worker at work exclude each
\* other: the one began CancelNotice before the start, the other after it.
LEMMA NoticeSeparates ==
    ASSUME TypeOK, NoticeInv, NEW r \in Requests, op[r].step = "cancelRow"
    PROVE  job.step = "idle"
<1>1. op[r].since \in Nat /\ now \in Nat
  BY BusySlot DEF TypeOK, Busy
<1>2. op[r].since + CancelNotice <= StartDateTime /\ now <= op[r].since + 1
  BY DEF NoticeInv, SlotNotice
<1>3. now < StartDateTime
  BY <1>1, <1>2, TimeAssumption, ScheduleAssumption
<1> QED
  BY <1>1, <1>3, ScheduleAssumption DEF NoticeInv, JobNotice

\* The idle slot and the idle worker claim nothing.
LEMMA IdleNotice ==
    ASSUME NEW d, NEW t
    PROVE  SlotNotice(Idle, t) /\ JobNotice(NoJob, d, t)
BY DEF SlotNotice, Idle, JobNotice, NoJob

\* Requests in flight keep NoticeInv.
LEMMA RequestNotice ==
    ASSUME TypeOK, NoticeInv, NEW r \in Requests, RequestStep(r) \/ RequestFails(r)
    PROVE  NoticeInv'
<1> USE DEF TypeOK
<1>0. SlotNotice(op[r], now)
  BY DEF NoticeInv
<1>1. CASE Finish(r) /\ UNCHANGED <<db, job, now>>
  <2>1. op'[r] = Idle /\ \A q \in Requests \ {r} : op'[q] = op[q]
    BY <1>1, SlotChange
  <2> QED
    BY <1>1, <2>1, IdleNotice, NoticeFrame
<1>2. CASE ConfirmBooking(r)
  <2> DEFINE row == ConfirmWithPayment(db[op[r].b], op[r].payment)
             o == [op[r] EXCEPT !.step = "confirmRow", !.row = row, !.todo = Legs]
  <2>1. op[r] \in Busy
    BY <1>2, BusySlot DEF ConfirmBooking
  <2>2. row \in Row /\ row.status # "CANCELLED"
    <3>1. db[op[r].b] \in Row /\ op[r].payment \in Payments \cup {None}
      BY <2>1 DEF Busy
    <3>2. row \in Row
      BY <3>1, AggregateTypes
    <3>3. row.status = "CONFIRMED"
      BY <3>1 DEF ConfirmWithPayment, Row
    <3> QED
      BY <3>2, <3>3
  <2> HIDE DEF row
  <2>3. o \in Busy
    BY <2>1, <2>2 DEF Busy, Steps
  <2>4. op'[r] = [o EXCEPT !.since = now] /\ \A q \in Requests \ {r} : op'[q] = op[q]
    BY <1>2, <2>3, SlotChange DEF ConfirmBooking, row
  <2>5. op'[r].step = "confirmRow" /\ op'[r].row = row /\ op'[r].events = op[r].events
    BY <2>1, <2>4 DEF Busy
  <2>6. SlotNotice(op'[r], now)
    BY <1>0, <2>2, <2>5 DEF SlotNotice
  <2> QED
    BY <1>2, <2>4, <2>6, NoticeFrame DEF ConfirmBooking
<1>3. CASE ConfirmWriteRow(r)
  <2> DEFINE o == [op[r] EXCEPT !.step = "confirmLegs"]
  <2>1. op[r] \in Busy
    BY <1>3, BusySlot DEF ConfirmWriteRow
  <2>2. o \in Busy
    BY <2>1 DEF Busy, Steps
  <2>3. op'[r] = [o EXCEPT !.since = now] /\ \A q \in Requests \ {r} : op'[q] = op[q]
    BY <1>3, <2>2, SlotChange DEF ConfirmWriteRow
  <2>4. op'[r].step = "confirmLegs" /\ op'[r].events = op[r].events
    BY <2>1, <2>3 DEF Busy
  <2>5. SlotNotice(op'[r], now)
    BY <1>0, <2>4 DEF SlotNotice
  <2>6. db'[op[r].b].status # "CANCELLED"
    BY <1>0, <1>3, <2>1 DEF ConfirmWriteRow, SlotNotice, SavedRow, Busy, Row
  <2>7. \A b \in Bookings : db'[b].status = "CANCELLED" => db[b].status = "CANCELLED"
    BY <1>3, <2>6 DEF ConfirmWriteRow
  <2> QED
    BY <1>3, <2>3, <2>5, <2>7, NoticeFrame DEF ConfirmWriteRow
<1>4. ASSUME NEW l \in Legs, ConfirmWriteLeg(r, l), ~ Finish(r) PROVE NoticeInv'
  <2> DEFINE o == [op[r] EXCEPT !.todo = @ \ {l}]
  <2>1. op[r] \in Busy
    BY <1>4, BusySlot DEF ConfirmWriteLeg
  <2>2. o \in Busy
    BY <2>1 DEF Busy
  <2>3. op'[r] = [o EXCEPT !.since = now] /\ \A q \in Requests \ {r} : op'[q] = op[q]
    BY <1>4, <2>2, SlotChange DEF ConfirmWriteLeg
  <2>4. op'[r].step = o.step /\ op'[r].events = o.events
    BY <2>2, <2>3 DEF Busy
  <2>5. o.step = "confirmLegs" /\ o.events = op[r].events
    BY <1>4, <2>1 DEF Busy, ConfirmWriteLeg
  <2>6. SlotNotice(op'[r], now)
    BY <1>0, <2>4, <2>5 DEF SlotNotice
  <2> QED
    BY <1>4, <2>3, <2>6, NoticeFrame DEF ConfirmWriteLeg
<1>5. CASE CancelWriteRow(r)
  <2> DEFINE o == [op[r] EXCEPT !.step = "publish"]
  <2>1. op[r] \in Busy
    BY <1>5, BusySlot DEF CancelWriteRow
  <2>2. o \in Busy
    BY <2>1 DEF Busy, Steps
  <2>3. op'[r] = [o EXCEPT !.since = now] /\ \A q \in Requests \ {r} : op'[q] = op[q]
    BY <1>5, <2>2, SlotChange DEF CancelWriteRow
  <2>4. op'[r].step = "publish" /\ op'[r].events = op[r].events
    BY <2>1, <2>3 DEF Busy
  <2>5. SlotNotice(op'[r], now)
    BY <1>0, <2>4 DEF SlotNotice
  <2>6. job.step = "idle"
    BY <1>5, NoticeSeparates DEF CancelWriteRow
  <2> QED
    BY <1>5, <2>3, <2>5, <2>6, NoticeFrame DEF CancelWriteRow
<1>6. CASE \E l \in Legs : ConfirmWriteLeg(r, l)
  BY <1>1, <1>4, <1>6 DEF ConfirmWriteLeg
<1> QED
  BY <1>1, <1>2, <1>3, <1>5, <1>6
     DEF RequestStep, AttachPaymentIntent, ConfirmRejected, PublishEvents, RequestFails

\* What arrives keeps NoticeInv: a cancellation checks the notice, the worker's
\* queries return legs from the start on, of bookings that are not cancelled.
LEMMA ArrivalNotice ==
    ASSUME TypeOK, NoticeInv, Arrival
    PROVE  NoticeInv'
<1> USE DEF TypeOK
<1>1. ASSUME NEW r \in Requests, NEW o \in Busy, Proceed(r, o), UNCHANGED <<db, job, now>>,
             o.step \in {"intent", "confirm", "publish"},
             \A e \in o.events : e.type # "LegStarted"
      PROVE  NoticeInv'
  <2>1. op'[r] = [o EXCEPT !.since = now] /\ \A q \in Requests \ {r} : op'[q] = op[q]
    BY <1>1, SlotChange
  <2>2. op'[r].step = o.step /\ op'[r].events = o.events
    BY <2>1 DEF Busy
  <2>3. SlotNotice(op'[r], now)
    BY <1>1, <2>2 DEF SlotNotice
  <2> QED
    BY <1>1, <2>1, <2>3, NoticeFrame
<1>2. ASSUME NEW r \in Requests, NEW b \in Bookings, CreatePendingBooking(r, b)
      PROVE  NoticeInv'
  <2> DEFINE o == [Idle EXCEPT !.step = "intent", !.b = b]
  <2>1. o \in Busy /\ o.step = "intent" /\ o.events = {}
    BY BaseTypes DEF Idle, Busy, Steps
  <2>2. op'[r] = [o EXCEPT !.since = now] /\ \A q \in Requests \ {r} : op'[q] = op[q]
    BY <1>2, <2>1, SlotChange DEF CreatePendingBooking
  <2>3. op'[r].step = "intent" /\ op'[r].events = {}
    BY <2>1, <2>2 DEF Busy
  <2>4. SlotNotice(op'[r], now)
    BY <2>3 DEF SlotNotice
  <2>5. NewBooking.status # "CANCELLED"
    BY DEF NewBooking, NoRow
  <2>6. \A a \in Bookings : db'[a].status = "CANCELLED" => db[a].status = "CANCELLED"
    BY <1>2, <2>5 DEF CreatePendingBooking
  <2> QED
    BY <1>2, <2>2, <2>4, <2>6, NoticeFrame DEF CreatePendingBooking
<1>3. ASSUME NEW r \in Requests, NEW b \in Bookings, CancelBooking(r, b)
      PROVE  NoticeInv'
  <2> DEFINE o == [Idle EXCEPT !.step = "cancelRow", !.b = b, !.row = Cancel(db[b]),
                               !.events = {EventOf("BookingCancelled", b, None)}]
  <2>1. Cancel(db[b]) \in Row
    BY AggregateTypes
  <2>2. o \in Busy
    BY <2>1, EventTypes DEF Idle, Busy, Steps
  <2>3. op'[r] = [o EXCEPT !.since = now] /\ \A q \in Requests \ {r} : op'[q] = op[q]
    BY <1>3, <2>2, SlotChange DEF CancelBooking
  <2>4. /\ op'[r].step = "cancelRow" /\ op'[r].since = now
        /\ op'[r].events = {EventOf("BookingCancelled", b, None)}
    BY <2>3 DEF Idle
  <2>5. now + CancelNotice <= StartDateTime /\ now <= now + 1
    BY <1>3 DEF CancelBooking, IsEligibleForCancellation
  <2>6. SlotNotice(op'[r], now)
    BY <2>4, <2>5 DEF SlotNotice, EventOf
  <2> QED
    BY <1>3, <2>3, <2>6, NoticeFrame DEF CancelBooking
<1>4. ASSUME NEW r \in Requests, NEW b \in Bookings, UnassignChauffeur(r, b)
      PROVE  NoticeInv'
  <2> DEFINE ev == {EventOf("ChauffeurUnassigned", b, db[b].chauffeurId)}
             o == [Idle EXCEPT !.step = "publish", !.b = b,
                     !.row = [db[b] EXCEPT !.chauffeurId = None], !.events = ev]
  <2>1. /\ db[b].chauffeurId \in Chauffeurs \cup {None}
        /\ [db[b] EXCEPT !.chauffeurId = None] \in Row
    BY DEF Row
  <2>2. ev \in SUBSET Event /\ \A e \in ev : e.type # "LegStarted"
    <3>1. ev \in SUBSET Event
      BY <2>1, EventTypes
    <3>2. \A e \in ev : e.type # "LegStarted"
      BY DEF EventOf
    <3> QED
      BY <3>1, <3>2
  <2>3. o \in Busy /\ o.step = "publish" /\ o.events = ev
    BY <2>1, <2>2 DEF Idle, Busy, Steps
  <2> QED
    BY <1>1, <1>4, <2>2, <2>3 DEF UnassignChauffeur
<1>5. ASSUME NEW r \in Requests, NEW b \in Bookings, NEW c \in Chauffeurs,
             AssignChauffeur(r, b, c)
      PROVE  NoticeInv'
  <2> DEFINE old == db[b].chauffeurId
             ev == {EventOf("ChauffeurAssigned", b, c)} \cup
                   (IF old = None THEN {} ELSE {EventOf("ChauffeurUnassigned", b, old)})
             o == [Idle EXCEPT !.step = "publish", !.b = b,
                     !.row = [db[b] EXCEPT !.chauffeurId = c], !.events = ev]
  <2>1. /\ old \in Chauffeurs \cup {None}
        /\ [db[b] EXCEPT !.chauffeurId = c] \in Row
    BY DEF Row
  <2>2. ev \in SUBSET Event /\ \A e \in ev : e.type # "LegStarted"
    <3>1. ev \in SUBSET Event
      BY <2>1, EventTypes
    <3>2. \A e \in ev : e.type # "LegStarted"
      BY DEF EventOf
    <3> QED
      BY <3>1, <3>2
  <2>3. o \in Busy /\ o.step = "publish" /\ o.events = ev
    BY <2>1, <2>2 DEF Idle, Busy, Steps
  <2> QED
    BY <1>1, <1>5, <2>2, <2>3 DEF AssignChauffeur
<1>6. ASSUME NEW r \in Requests, NEW c \in charges, Webhook(r, c) PROVE NoticeInv'
  <2> DEFINE o == [Idle EXCEPT !.step = "confirm", !.b = c.booking, !.payment = c.id]
  <2>1. CASE ~ c.ok
    BY <1>6, <2>1, NoticeFrame DEF Webhook
  <2>2. CASE c.ok
    <3>1. c.booking \in Bookings /\ c.id \in Payments
      BY DEF Charge
    <3>2. o \in Busy /\ o.step = "confirm" /\ o.events = {}
      BY <3>1, BaseTypes DEF Idle, Busy, Steps
    <3> QED
      BY <1>1, <1>6, <2>2, <3>2 DEF Webhook
  <2> QED
    BY <2>1, <2>2
<1>7. ASSUME NEW kind \in Kinds, NEW booked \in SUBSET Bookings, JobQuery(kind, booked)
      PROVE  NoticeInv'
  <2>1. \A e \in LegsDue(kind, booked) :
           /\ db[e[1]].status # "CANCELLED"
           /\ e[2] \in Legs
           /\ now = LegStart[e[2]] \/ now = LegEnd[e[2]]
    BY DEF LegsDue
  <2>2. StartDateTime <= now
    <3>1. PICK e \in LegsDue(kind, booked) : TRUE
      BY <1>7 DEF JobQuery
    <3>2. /\ StartDateTime \in Nat /\ LegStart[e[2]] \in Nat /\ LegEnd[e[2]] \in Nat
          /\ StartDateTime <= LegStart[e[2]] /\ LegStart[e[2]] < LegEnd[e[2]]
      BY <2>1, ScheduleAssumption
    <3> QED
      BY <2>1, <3>2
  <2>3. /\ job'.step = "queried" /\ job'.due = LegsDue(kind, booked)
        /\ job'.processed = {}
    BY <1>7 DEF JobQuery, NoJob
  <2>4. JobNotice(job', db', now)
    BY <1>7, <2>1, <2>2, <2>3 DEF JobNotice, JobQuery
  <2> QED
    BY <1>7, <2>4, NoticeFrame DEF JobQuery
<1> QED
  BY <1>2, <1>3, <1>4, <1>5, <1>6, <1>7 DEF Arrival

\* The worker and everything else keep NoticeInv.
LEMMA OtherNotice ==
    ASSUME TypeOK, NoticeInv, JobStep \/ JobFails \/ Outside \/ Crash \/ Tick
    PROVE  NoticeInv'
<1> USE DEF TypeOK
<1>0. JobNotice(job, db, now)
  BY DEF NoticeInv
<1>1. CASE JobLoad
  <2> DEFINE rows == [b \in Bookings |->
                        IF b \notin Modified(Processed) THEN NoRow
                        ELSE IF job.kind = "activate" THEN ActivateLeg(db[b])
                             ELSE CompleteLeg(db[b])]
  <2>1. Processed \subseteq job.due /\ \A e \in job.due : e[1] \in Bookings
    BY DEF Processed, Job
  <2>2. ASSUME NEW b \in Bookings, db[b].status # "CANCELLED"
        PROVE  rows[b].status # "CANCELLED"
    BY <2>2 DEF NoRow, ActivateLeg, CompleteLeg, Row
  <2>3. \A e \in job.due : db[e[1]].status # "CANCELLED"
    BY <1>0, <1>1 DEF JobNotice, JobLoad
  <2> HIDE DEF rows
  <2>4. /\ job'.step = "loaded" /\ job'.rows = rows
        /\ job'.processed = Processed /\ job'.due = job.due
    BY <1>1 DEF JobLoad, Job, rows
  <2>5. JobNotice(job', db', now)
    BY <1>0, <1>1, <2>1, <2>2, <2>3, <2>4 DEF JobNotice, JobLoad
  <2> QED
    BY <1>1, <2>5, NoticeFrame DEF JobLoad
<1>2. CASE JobSave
  <2>1. ASSUME NEW b \in Modified(job.processed)
        PROVE  job.rows[b].status # "CANCELLED"
    BY <1>0, <1>2 DEF JobSave, Modified, JobNotice
  <2>2. ASSUME NEW b \in Bookings, db'[b].status = "CANCELLED"
        PROVE  db[b].status = "CANCELLED"
    <3>1. CASE b \in Modified(job.processed)
      <4>1. db'[b] = SavedWithTransaction(db[b], job.rows[b]) /\ job.rows[b] \in Row
        BY <1>2, <3>1 DEF JobSave, Job
      <4>2. db'[b].status = job.rows[b].status
        BY <4>1 DEF SavedWithTransaction, SavedRow, Row
      <4> QED
        BY <2>1, <2>2, <3>1, <4>2
    <3>2. CASE b \notin Modified(job.processed)
      BY <1>2, <2>2, <3>2 DEF JobSave
    <3> QED
      BY <3>1, <3>2
  <2>3. CASE job' = NoJob
    BY <1>2, <2>2, <2>3, IdleNotice, NoticeFrame DEF JobSave
  <2>4. CASE job' = [job EXCEPT !.step = "publish", !.since = now]
    <3>1. job'.step = "publish" /\ job'.due = job.due /\ job'.processed = job.processed
      BY <2>4 DEF Job
    <3>2. \A e \in job.due : e[1] \in Bookings
      BY DEF Job
    <3>3. JobNotice(job', db', now)
      BY <1>0, <1>2, <2>2, <3>1, <3>2 DEF JobNotice, JobSave
    <3> QED
      BY <1>2, <2>2, <3>3, NoticeFrame DEF JobSave
  <2> QED
    BY <1>2, <2>3, <2>4 DEF JobSave
<1>3. ASSUME NEW d \in job.processed, JobPublish(d) PROVE NoticeInv'
  <2>1. CASE job' = NoJob
    BY <1>3, <2>1, IdleNotice, NoticeFrame DEF JobPublish
  <2>2. CASE job' = [job EXCEPT !.processed = @ \ {d}, !.since = now]
    <3>1. job'.step = "publish" /\ job'.due = job.due /\ job'.processed = job.processed \ {d}
      BY <1>3, <2>2 DEF Job, JobPublish
    <3>2. JobNotice(job', db', now)
      BY <1>0, <1>3, <3>1 DEF JobNotice, JobPublish
    <3> QED
      BY <1>3, <3>2, NoticeFrame DEF JobPublish
  <2> QED
    BY <1>3, <2>1, <2>2 DEF JobPublish
<1>4. CASE JobFails
  BY <1>4, IdleNotice, NoticeFrame DEF JobFails
<1>5. CASE Outside
  <2>1. \A b \in Bookings : db'[b].status = "CANCELLED" => db[b].status = "CANCELLED"
    BY <1>5 DEF Outside, CustomerPays, DispatchChauffeur, Row
  <2>2. UNCHANGED <<op, job, now>>
    BY <1>5 DEF Outside, CustomerPays, DispatchChauffeur
  <2> QED
    BY <2>1, <2>2, NoticeFrame
<1>6. CASE Crash
  <2>1. \A r \in Requests : op'[r] = Idle
    BY <1>6 DEF Crash
  <2> QED
    BY <1>6, <2>1, IdleNotice, NoticeFrame DEF Crash
<1>7. CASE Tick
  <2>1. \A r \in Requests : SlotNotice(op[r], now')
    <3>1. ASSUME NEW r \in Requests, op[r].step = "cancelRow"
          PROVE  now' <= op[r].since + 1
      BY <1>7, <3>1 DEF Tick, Free
    <3> QED
      BY <3>1 DEF NoticeInv, SlotNotice
  <2>2. JobNotice(job, db, now')
    BY <1>0, <1>7, ScheduleAssumption DEF JobNotice, Tick
  <2> QED
    BY <1>7, <2>1, <2>2 DEF NoticeInv, Tick
<1> QED
  BY <1>1, <1>2, <1>3, <1>4, <1>5, <1>6, <1>7 DEF JobStep

\* NoticeInv holds in every reachable state.
THEOREM NoticeInvariant == Spec => [](TypeOK /\ NoticeInv)
<1>1. Init => NoticeInv
  BY IdleNotice DEF Init, NoticeInv
<1>2. TypeOK /\ NoticeInv /\ [Next]_vars => NoticeInv'
  <2> SUFFICES ASSUME TypeOK, NoticeInv, [Next]_vars PROVE NoticeInv'
    OBVIOUS
  <2>1. CASE UNCHANGED vars
    BY <2>1 DEF vars, NoticeInv
  <2>2. CASE Next
    BY <2>2, RequestNotice, ArrivalNotice, OtherNotice DEF Next
  <2> QED
    BY <2>1, <2>2
<1> QED
  BY <1>1, <1>2, TypeCorrect, PTL DEF Spec

\* A step that publishes the start of a trip finds the booking not cancelled.
LEMMA StartsAnnounced ==
    ASSUME TypeOK, NoticeInv, Next,
           NEW b \in Bookings, NEW l \in Legs, ~ Started(b, l), Started(b, l)'
    PROVE  db[b].status # "CANCELLED"
<1> USE DEF TypeOK
<1>1. CASE \E d \in job.processed : JobPublish(d)
  <2>1. PICK d \in job.processed : JobPublish(d)
    BY <1>1
  <2>2. d[1] = b
    BY <2>1 DEF JobPublish, Started, EventOf
  <2> QED
    BY <2>1, <2>2 DEF JobPublish, NoticeInv, JobNotice
<1>2. ASSUME NEW r \in Requests, AttachPaymentIntent(r) PROVE FALSE
  BY <1>2 DEF AttachPaymentIntent, Started, EventOf
<1>3. ASSUME NEW r \in Requests, PublishEvents(r) PROVE FALSE
  <2>1. EventOf("LegStarted", b, l) \in op[r].events
    BY <1>3 DEF PublishEvents, Started
  <2> QED
    BY <2>1 DEF NoticeInv, SlotNotice, EventOf
<1>4. ASSUME NEW r \in Requests, RequestStep(r) PROVE FALSE
  <2>1. UNCHANGED published
    BY <1>2, <1>3, <1>4
       DEF RequestStep, ConfirmBooking, ConfirmRejected, ConfirmWriteRow, ConfirmWriteLeg,
           CancelWriteRow
  <2> QED
    BY <2>1 DEF Started
<1>5. CASE UNCHANGED published
  BY <1>5 DEF Started
<1> QED
  BY <1>1, <1>4, <1>5
     DEF Next, Arrival, CreatePendingBooking, CancelBooking, UnassignChauffeur,
         AssignChauffeur, Webhook, JobQuery, JobStep, JobLoad, JobSave, JobFails,
         RequestFails, Outside, CustomerPays, DispatchChauffeur, Crash, Tick

\* Nobody is told that a cancelled trip has started, whatever interleaves and
\* whatever fails: the notice separates the two.
THEOREM NoCancelledStart == Spec => CancelledNeverStarts
<1>1. TypeOK /\ NoticeInv /\ [Next]_vars
        => [\A b \in Bookings, l \in Legs :
              ~ Started(b, l) /\ Started(b, l)' => db[b].status # "CANCELLED"]_vars
  BY StartsAnnounced
<1> QED
  BY <1>1, NoticeInvariant, PTL DEF Spec, CancelledNeverStarts
=============================================================================
