------------------------ MODULE BookingProtocolProofs ------------------------
(***************************************************************************)
(* More about BookingLifecycle for every value of its constants: the legs of *)
(* a paid booking are confirmed unless the confirmation was cut short, and    *)
(* BookingLifecycle implements BookingProtocol as long as the provider        *)
(* delivers each webhook once; when it repeats them, what a late confirmation *)
(* does to a row, and that no stale copy but a cancellation's loses a driver. *)
(***************************************************************************)
EXTENDS BookingLifecycleProofs

-----------------------------------------------------------------------------
(* What no step takes back.                                                 *)

\* A settled row is past its confirmation, an untouched one is not.
LEMMA SettledSecured ==
    ASSUME NEW ch, NEW b, NEW row
    PROVE  /\ Settled(ch, b, row) => Secured(row)
           /\ RowOK(ch, b, row) /\ Secured(row) => Settled(ch, b, row)
BY DEF Settled, Secured, RowOK, Untouched, PaidStatuses

\* What a save writes has the status of the copy.
LEMMA SavedStatus ==
    ASSUME NEW old \in Row, NEW row \in Row
    PROVE  /\ SavedRow(old, row).status = row.status
           /\ SavedRow(old, row).paymentStatus = row.paymentStatus
           /\ SavedWithTransaction(old, row).status = row.status
           /\ SavedWithTransaction(old, row).paymentStatus = row.paymentStatus
BY DEF Row, SavedRow, SavedWithTransaction

\* The steps that write rows.
WritesRows ==
    \/ \E r \in Requests, b \in Bookings : CreatePendingBooking(r, b)
    \/ \E r \in Requests : ConfirmWriteRow(r) \/ CancelWriteRow(r)
    \/ JobSave
    \/ \E b \in Bookings, c \in Chauffeurs : DispatchChauffeur(b, c)

\* Every other step leaves the table of bookings alone.
LEMMA RowWriters ==
    ASSUME Next
    PROVE  WritesRows \/ UNCHANGED db
BY DEF Next, WritesRows, Arrival, CreatePendingBooking, CancelBooking, UnassignChauffeur,
       AssignChauffeur, Webhook, JobQuery, RequestStep, AttachPaymentIntent, ConfirmBooking,
       ConfirmRejected, ConfirmWriteLeg, PublishEvents, RequestFails, JobStep, JobLoad,
       JobPublish, JobFails, Outside, CustomerPays, Crash, Tick

\* A booking past its confirmation stays so.
LEMMA SecuredStays ==
    ASSUME TypeOK, MoneyInv, Next, NEW b \in Bookings, Secured(db[b])
    PROVE  Secured(db'[b])
<1> USE DEF TypeOK
<1>1. ASSUME NEW r \in Requests, NEW a \in Bookings, CreatePendingBooking(r, a)
      PROVE  Secured(db'[b])
  <2>1. a # b
    BY <1>1 DEF CreatePendingBooking, Secured, PaidStatuses
  <2> QED
    BY <1>1, <2>1 DEF CreatePendingBooking
<1>2. ASSUME NEW r \in Requests, ConfirmWriteRow(r) PROVE Secured(db'[b])
  <2>1. op[r] \in Busy /\ Settled(charges, op[r].b, op[r].row)
    BY <1>2, BusySlot DEF ConfirmWriteRow, MoneyInv, SlotOK
  <2>2. Secured(SavedRow(db[op[r].b], op[r].row))
    BY <2>1, SavedStatus, SettledSecured DEF Busy, Secured
  <2> QED
    BY <1>2, <2>1, <2>2 DEF ConfirmWriteRow, Busy
<1>3. ASSUME NEW r \in Requests, CancelWriteRow(r) PROVE Secured(db'[b])
  <2>1. op[r] \in Busy /\ Settled(charges, op[r].b, op[r].row)
    BY <1>3, BusySlot DEF CancelWriteRow, MoneyInv, SlotOK
  <2>2. Secured(SavedWithTransaction(db[op[r].b], op[r].row))
    BY <2>1, SavedStatus, SettledSecured DEF Busy, Secured
  <2> QED
    BY <1>3, <2>1, <2>2 DEF CancelWriteRow, Busy
<1>4. CASE JobSave
  <2>1. CASE b \in Modified(job.processed)
    <3>1. Settled(charges, b, job.rows[b]) /\ job.rows[b] \in Row
      BY <1>4, <2>1 DEF JobSave, Modified, MoneyInv, JobOK, Job
    <3>2. Secured(SavedWithTransaction(db[b], job.rows[b]))
      BY <3>1, SavedStatus, SettledSecured DEF Secured
    <3> QED
      BY <1>4, <2>1, <3>2 DEF JobSave
  <2>2. CASE b \notin Modified(job.processed)
    BY <1>4, <2>2 DEF JobSave
  <2> QED
    BY <2>1, <2>2
<1>5. ASSUME NEW a \in Bookings, NEW c \in Chauffeurs, DispatchChauffeur(a, c)
      PROVE  Secured(db'[b])
  BY <1>5 DEF DispatchChauffeur, Row, Secured
<1> QED
  BY <1>1, <1>2, <1>3, <1>4, <1>5, RowWriters DEF WritesRows

\* A leg that was confirmed stays so: only a booking that is created anew gets pending
\* legs, and it had no row.
LEMMA LegsStay ==
    ASSUME TypeOK, MoneyInv, Next, NEW b \in Bookings, NEW l \in Legs,
           legStatus[b][l] # "PENDING"
    PROVE  legStatus'[b][l] # "PENDING"
<1> USE DEF TypeOK
<1>1. ASSUME NEW r \in Requests, NEW a \in Bookings, CreatePendingBooking(r, a)
      PROVE  legStatus'[b][l] # "PENDING"
  <2>1. a # b
    BY <1>1, SettledSecured DEF CreatePendingBooking, MoneyInv, Secured, PaidStatuses
  <2> QED
    BY <1>1, <2>1 DEF CreatePendingBooking
<1>2. ASSUME NEW r \in Requests, NEW m \in Legs, ConfirmWriteLeg(r, m)
      PROVE  legStatus'[b][l] # "PENDING"
  BY <1>2 DEF ConfirmWriteLeg
<1>3. CASE UNCHANGED legStatus
  BY <1>3
<1> QED
  BY <1>1, <1>2, <1>3
     DEF Next, Arrival, CancelBooking, UnassignChauffeur, AssignChauffeur, Webhook, JobQuery,
         RequestStep, AttachPaymentIntent, ConfirmBooking, ConfirmRejected, ConfirmWriteRow,
         CancelWriteRow, PublishEvents, RequestFails, JobStep, JobLoad, JobSave, JobPublish,
         JobFails, Outside, CustomerPays, DispatchChauffeur, Crash, Tick

-----------------------------------------------------------------------------
(* LegsInv is inductive.                                                    *)

\* What keeps LegsInv: a request that moved is entitled to what it goes on to write and,
\* if it was writing the legs of a booking, still is, or was cut short, or is done; and
\* a booking that was just paid for has its confirmation at work.
LEMMA LegsFrame ==
    ASSUME TypeOK, MoneyInv, LegsInv, Next, interrupted \subseteq interrupted',
           \A r \in Requests :
              \/ op'[r] = op[r]
              \/ /\ SlotLegs(op'[r], db', legStatus')
                 /\ op[r].step = "confirmLegs" =>
                      \/ op'[r].step = "confirmLegs" /\ op'[r].b = op[r].b
                      \/ op[r].b \in interrupted'
                      \/ \A l \in Legs : legStatus'[op[r].b][l] # "PENDING",
           job' = job \/ JobLegs(job', legStatus'),
           \A b \in Bookings : Secured(db'[b]) => Secured(db[b]) \/ Confirming(b)'
    PROVE  LegsInv'
<1> USE DEF TypeOK
<1>1. ASSUME NEW r \in Requests, op'[r] = op[r]
      PROVE  SlotLegs(op'[r], db', legStatus')
  <2>1. SlotLegs(op[r], db, legStatus)
    BY DEF LegsInv
  <2>2. op[r].step # "idle" => op[r].b \in Bookings
    BY BusySlot DEF Busy
  <2> QED
    BY <1>1, <2>1, <2>2, LegsStay, SecuredStays DEF SlotLegs
<1>2. JobLegs(job', legStatus')
  <2>1. JobLegs(job, legStatus) /\ \A e \in job.processed : e[1] \in Bookings /\ e[2] \in Legs
    BY DEF LegsInv, Job
  <2> QED
    BY <2>1, LegsStay DEF JobLegs
<1>3. ASSUME NEW b \in Bookings, Secured(db'[b])
      PROVE  \/ \A l \in Legs : legStatus'[b][l] # "PENDING"
             \/ Confirming(b)'
             \/ b \in interrupted'
  <2>1. CASE ~Secured(db[b])
    BY <1>3, <2>1
  <2>2. CASE \A l \in Legs : legStatus[b][l] # "PENDING"
    BY <2>2, LegsStay
  <2>3. CASE b \in interrupted
    BY <2>3
  <2>4. ASSUME NEW r \in Requests, op[r].b = b, op[r].step = "confirmLegs"
        PROVE  \/ \A l \in Legs : legStatus'[b][l] # "PENDING"
               \/ Confirming(b)'
               \/ b \in interrupted'
    BY <2>4 DEF Confirming
  <2> QED
    BY <2>1, <2>2, <2>3, <2>4
       DEF LegsInv, LegsConfirmedUnlessInterrupted, Secured, Confirming
<1> QED
  BY <1>1, <1>2, <1>3 DEF LegsInv, LegsConfirmedUnlessInterrupted, Secured

\* A slot at any other step has no legs to answer for.
LEMMA NoLegs ==
    ASSUME NEW o, NEW d, NEW legs,
           o.step \in {"idle", "intent", "confirm", "publish"}
    PROVE  SlotLegs(o, d, legs)
BY DEF SlotLegs

\* Requests in flight keep LegsInv.
LEMMA RequestLegs ==
    ASSUME TypeOK, MoneyInv, LegsInv, Next, NEW r \in Requests,
           RequestStep(r) \/ RequestFails(r)
    PROVE  LegsInv'
<1> USE DEF TypeOK
<1>0. SlotLegs(op[r], db, legStatus) /\ SlotOK(charges, db, op[r])
  BY DEF LegsInv, MoneyInv
<1>1. CASE /\ Finish(r) /\ op[r].step # "confirmLegs"
           /\ UNCHANGED <<db, job>> /\ interrupted \subseteq interrupted'
  <2>1. op'[r] = Idle /\ \A q \in Requests \ {r} : op'[q] = op[q]
    BY <1>1, SlotChange
  <2>2. SlotLegs(op'[r], db', legStatus')
    BY <2>1, NoLegs DEF Idle
  <2> QED
    BY <1>1, <2>1, <2>2, LegsFrame
<1>2. CASE RequestFails(r)
  <2>1. op'[r] = Idle /\ \A q \in Requests \ {r} : op'[q] = op[q]
    BY <1>2, SlotChange DEF RequestFails
  <2>2. SlotLegs(op'[r], db', legStatus')
    BY <2>1, NoLegs DEF Idle
  <2>3. op[r].step = "confirmLegs" => op[r].b \in interrupted'
    BY <1>2 DEF RequestFails, CutShort
  <2> QED
    BY <1>2, <2>1, <2>2, <2>3, LegsFrame DEF RequestFails
<1>3. CASE ConfirmBooking(r)
  <2> DEFINE row == ConfirmWithPayment(db[op[r].b], op[r].payment)
             o == [op[r] EXCEPT !.step = "confirmRow", !.row = row, !.todo = Legs]
  <2>1. op[r] \in Busy
    BY <1>3, BusySlot DEF ConfirmBooking
  <2>2. row \in Row
    BY <2>1, AggregateTypes DEF Busy
  <2> HIDE DEF row
  <2>3. o \in Busy
    BY <2>1, <2>2 DEF Busy, Steps
  <2>4. op'[r] = [o EXCEPT !.since = now] /\ \A q \in Requests \ {r} : op'[q] = op[q]
    BY <1>3, <2>3, SlotChange DEF ConfirmBooking, row
  <2>5. op'[r].step = "confirmRow" /\ op'[r].todo = Legs
    BY <2>1, <2>4 DEF Busy
  <2>6. SlotLegs(op'[r], db', legStatus')
    BY <2>5 DEF SlotLegs
  <2> QED
    BY <1>3, <2>4, <2>6, LegsFrame DEF ConfirmBooking
<1>4. CASE ConfirmWriteRow(r)
  <2> DEFINE o == [op[r] EXCEPT !.step = "confirmLegs"]
  <2>1. op[r] \in Busy
    BY <1>4, BusySlot DEF ConfirmWriteRow
  <2>2. o \in Busy
    BY <2>1 DEF Busy, Steps
  <2>3. op'[r] = [o EXCEPT !.since = now] /\ \A q \in Requests \ {r} : op'[q] = op[q]
    BY <1>4, <2>2, SlotChange DEF ConfirmWriteRow
  <2>4. op'[r].step = "confirmLegs" /\ op'[r].b = op[r].b /\ op'[r].todo = Legs
    BY <1>0, <1>4, <2>1, <2>3 DEF Busy, SlotLegs, ConfirmWriteRow
  <2>5. SlotLegs(op'[r], db', legStatus')
    BY <2>4 DEF SlotLegs
  <2>6. \A b \in Bookings : Secured(db'[b]) => Secured(db[b]) \/ Confirming(b)'
    BY <1>4, <2>4 DEF ConfirmWriteRow, Confirming
  <2> QED
    BY <1>4, <2>3, <2>5, <2>6, LegsFrame DEF ConfirmWriteRow
<1>5. ASSUME NEW l \in Legs, ConfirmWriteLeg(r, l) PROVE LegsInv'
  <2> DEFINE o == [op[r] EXCEPT !.todo = @ \ {l}]
  <2>1. op[r] \in Busy
    BY <1>5, BusySlot DEF ConfirmWriteLeg
  <2>2. o \in Busy
    BY <2>1 DEF Busy
  <2>3. \A m \in Legs \ (op[r].todo \ {l}) : legStatus'[op[r].b][m] # "PENDING"
    BY <1>0, <1>5, <2>1 DEF ConfirmWriteLeg, SlotLegs, Busy
  <2>4. CASE op[r].todo = {l}
    <3>1. op'[r] = Idle /\ \A q \in Requests \ {r} : op'[q] = op[q]
      BY <1>5, <2>4, SlotChange DEF ConfirmWriteLeg
    <3>2. SlotLegs(op'[r], db', legStatus')
      BY <3>1, NoLegs DEF Idle
    <3>3. \A m \in Legs : legStatus'[op[r].b][m] # "PENDING"
      BY <2>3, <2>4
    <3> QED
      BY <1>5, <3>1, <3>2, <3>3, LegsFrame DEF ConfirmWriteLeg
  <2>5. CASE op[r].todo # {l}
    <3>1. op'[r] = [o EXCEPT !.since = now] /\ \A q \in Requests \ {r} : op'[q] = op[q]
      BY <1>5, <2>2, <2>5, SlotChange DEF ConfirmWriteLeg
    <3>2. /\ op'[r].step = "confirmLegs" /\ op'[r].b = op[r].b
          /\ op'[r].todo = op[r].todo \ {l}
      BY <1>5, <2>1, <3>1 DEF Busy, ConfirmWriteLeg
    <3>3. SlotLegs(op'[r], db', legStatus')
      BY <2>3, <3>2 DEF SlotLegs
    <3> QED
      BY <1>5, <3>1, <3>2, <3>3, LegsFrame DEF ConfirmWriteLeg
  <2> QED
    BY <2>4, <2>5
<1>6. CASE CancelWriteRow(r)
  <2> DEFINE o == [op[r] EXCEPT !.step = "publish"]
  <2>1. op[r] \in Busy
    BY <1>6, BusySlot DEF CancelWriteRow
  <2>2. o \in Busy
    BY <2>1 DEF Busy, Steps
  <2>3. op'[r] = [o EXCEPT !.since = now] /\ \A q \in Requests \ {r} : op'[q] = op[q]
    BY <1>6, <2>2, SlotChange DEF CancelWriteRow
  <2>4. op'[r].step = "publish"
    BY <2>1, <2>3 DEF Busy
  <2>5. SlotLegs(op'[r], db', legStatus')
    BY <2>4, NoLegs
  <2>6. \A b \in Bookings : Secured(db'[b]) => Secured(db[b])
    BY <1>0, <1>6 DEF CancelWriteRow, SlotLegs
  <2> QED
    BY <1>6, <2>3, <2>5, <2>6, LegsFrame DEF CancelWriteRow
<1> QED
  BY <1>1, <1>2, <1>3, <1>4, <1>5, <1>6
     DEF RequestStep, AttachPaymentIntent, ConfirmRejected, PublishEvents

\* A request that arrives starts with no legs to write; a cancellation finds its booking
\* confirmed.
LEMMA ArrivalLegs ==
    ASSUME TypeOK, MoneyInv, LegsInv, Next, Arrival
    PROVE  LegsInv'
<1> USE DEF TypeOK
<1>1. ASSUME NEW r \in Requests, NEW o, Free(r),
             op' = [op EXCEPT ![r] = [o EXCEPT !.since = now]],
             [o EXCEPT !.since = now].step \in {"intent", "confirm", "publish"},
             UNCHANGED <<job, interrupted>>,
             \A b \in Bookings : Secured(db'[b]) => Secured(db[b])
      PROVE  LegsInv'
  <2>1. op'[r].step \in {"intent", "confirm", "publish"} /\ \A q \in Requests \ {r} : op'[q] = op[q]
    BY <1>1
  <2>2. SlotLegs(op'[r], db', legStatus')
    BY <2>1, NoLegs
  <2>3. op[r].step # "confirmLegs"
    BY <1>1 DEF Free
  <2> QED
    BY <1>1, <2>1, <2>2, <2>3, LegsFrame
<1>2. ASSUME NEW r \in Requests, NEW b \in Bookings, CreatePendingBooking(r, b)
      PROVE  LegsInv'
  <2>1. \A a \in Bookings : Secured(db'[a]) => Secured(db[a])
    BY <1>2 DEF CreatePendingBooking, Secured, NewBooking, NoRow, PaidStatuses
  <2> QED
    BY <1>1, <1>2, <2>1 DEF CreatePendingBooking, Proceed, Idle
<1>3. ASSUME NEW r \in Requests, NEW b \in Bookings, CancelBooking(r, b)
      PROVE  LegsInv'
  <2> DEFINE o == [Idle EXCEPT !.step = "cancelRow", !.b = b, !.row = Cancel(db[b]),
                               !.events = {EventOf("BookingCancelled", b, None)}]
  <2>1. /\ op'[r] = [o EXCEPT !.since = now] /\ op[r].step = "idle"
        /\ \A q \in Requests \ {r} : op'[q] = op[q]
    BY <1>3 DEF CancelBooking, Proceed, Free
  <2>2. op'[r].step = "cancelRow" /\ op'[r].b = b
    BY <2>1 DEF Idle
  <2>3. Secured(db'[b])
    BY <1>3 DEF CancelBooking, IsEligibleForCancellation, Secured, PaidStatuses
  <2>4. SlotLegs(op'[r], db', legStatus')
    BY <2>2, <2>3 DEF SlotLegs
  <2> QED
    BY <1>3, <2>1, <2>4, LegsFrame DEF CancelBooking
<1>4. ASSUME NEW r \in Requests, NEW b \in Bookings, UnassignChauffeur(r, b)
      PROVE  LegsInv'
  BY <1>1, <1>4 DEF UnassignChauffeur, Proceed, Idle
<1>5. ASSUME NEW r \in Requests, NEW b \in Bookings, NEW c \in Chauffeurs,
             AssignChauffeur(r, b, c)
      PROVE  LegsInv'
  <2> DEFINE old == db[b].chauffeurId
             o == [Idle EXCEPT !.step = "publish", !.b = b,
                     !.row = [db[b] EXCEPT !.chauffeurId = c],
                     !.events = {EventOf("ChauffeurAssigned", b, c)} \cup
                        (IF old = None THEN {} ELSE {EventOf("ChauffeurUnassigned", b, old)})]
  <2>1. o.step = "publish" /\ [o EXCEPT !.since = now].step = "publish"
    BY DEF Idle
  <2>2. op' = [op EXCEPT ![r] = [o EXCEPT !.since = now]]
    BY <1>5 DEF AssignChauffeur, Proceed
  <2> HIDE DEF o
  <2> QED
    BY <1>1, <1>5, <2>1, <2>2 DEF AssignChauffeur
<1>6. ASSUME NEW r \in Requests, NEW c \in charges, Webhook(r, c) PROVE LegsInv'
  <2>1. CASE ~ c.ok
    BY <1>6, <2>1, LegsFrame DEF Webhook
  <2>2. CASE c.ok
    BY <1>1, <1>6, <2>2 DEF Webhook, Proceed, Idle
  <2> QED
    BY <2>1, <2>2
<1>7. ASSUME NEW kind \in Kinds, NEW booked \in SUBSET Bookings, JobQuery(kind, booked)
      PROVE  LegsInv'
  <2>1. JobLegs(job', legStatus')
    BY <1>7 DEF JobQuery, NoJob, JobLegs
  <2> QED
    BY <1>7, <2>1, LegsFrame DEF JobQuery
<1> QED
  BY <1>2, <1>3, <1>4, <1>5, <1>6, <1>7 DEF Arrival

\* The worker processes legs that are confirmed, hence bookings past their confirmation;
\* a crash records the confirmations it cuts short.
LEMMA OtherLegs ==
    ASSUME TypeOK, MoneyInv, LegsInv, Next, JobStep \/ JobFails \/ Outside \/ Crash \/ Tick
    PROVE  LegsInv'
<1> USE DEF TypeOK
<1>0. JobLegs(job, legStatus)
  BY DEF LegsInv
<1>1. CASE JobLoad
  <2>1. \A e \in Processed : legStatus[e[1]][e[2]] # "PENDING"
    BY DEF Processed, Job, LegTransitions
  <2>2. job'.processed = Processed
    BY <1>1 DEF JobLoad, Job
  <2>3. JobLegs(job', legStatus')
    BY <1>1, <2>1, <2>2 DEF JobLegs, JobLoad
  <2> QED
    BY <1>1, <2>3, LegsFrame DEF JobLoad
<1>2. CASE JobSave
  <2>1. ASSUME NEW b \in Bookings PROVE Secured(db'[b]) => Secured(db[b])
    <3>1. CASE b \notin Modified(job.processed)
      BY <1>2, <3>1 DEF JobSave
    <3>2. CASE b \in Modified(job.processed)
      <4>1. PICK e \in job.processed : e[1] = b
        BY <3>2 DEF Modified
      <4>2. legStatus[b][e[2]] # "PENDING" /\ e[2] \in Legs
        BY <1>0, <1>2, <4>1 DEF JobSave, JobLegs, Job
      <4> QED
        BY <4>2, SettledSecured DEF MoneyInv
    <3> QED
      BY <3>1, <3>2
  <2>2. JobLegs(job', legStatus')
    <3>1. CASE job' = NoJob
      BY <3>1 DEF NoJob, JobLegs
    <3>2. CASE job' = [job EXCEPT !.step = "publish", !.since = now]
      <4>1. job'.processed = job.processed
        BY <3>2 DEF Job
      <4> QED
        BY <1>0, <1>2, <4>1 DEF JobLegs, JobSave
    <3> QED
      BY <1>2, <3>1, <3>2 DEF JobSave
  <2> QED
    BY <1>2, <2>1, <2>2, LegsFrame DEF JobSave
<1>3. ASSUME NEW d \in job.processed, JobPublish(d) PROVE LegsInv'
  <2>1. JobLegs(job', legStatus')
    <3>1. CASE job' = NoJob
      BY <3>1 DEF NoJob, JobLegs
    <3>2. CASE job' = [job EXCEPT !.processed = @ \ {d}, !.since = now]
      <4>1. job'.processed = job.processed \ {d}
        BY <3>2 DEF Job
      <4> QED
        BY <1>0, <1>3, <4>1 DEF JobLegs, JobPublish
    <3> QED
      BY <1>3, <3>1, <3>2 DEF JobPublish
  <2> QED
    BY <1>3, <2>1, LegsFrame DEF JobPublish
<1>4. CASE JobFails
  <2>1. JobLegs(job', legStatus')
    BY <1>4 DEF JobFails, NoJob, JobLegs
  <2> QED
    BY <1>4, <2>1, LegsFrame DEF JobFails
<1>5. CASE Outside
  <2>1. ASSUME NEW a \in Bookings, NEW c \in Chauffeurs, DispatchChauffeur(a, c),
               NEW b \in Bookings
        PROVE  Secured(db'[b]) => Secured(db[b])
    BY <2>1 DEF DispatchChauffeur, Secured, Row
  <2>2. \A b \in Bookings : Secured(db'[b]) => Secured(db[b])
    BY <1>5, <2>1 DEF Outside, CustomerPays
  <2> QED
    BY <1>5, <2>2, LegsFrame DEF Outside, CustomerPays, DispatchChauffeur
<1>6. CASE Crash
  <2>1. \A r \in Requests : op'[r] = Idle
    BY <1>6 DEF Crash
  <2>2. \A r \in Requests : SlotLegs(op'[r], db', legStatus')
    BY <2>1, NoLegs DEF Idle
  <2>3. \A r \in Requests : op[r].step = "confirmLegs" => op[r].b \in interrupted'
    BY <1>6 DEF Crash, CutShort
  <2>4. JobLegs(job', legStatus')
    BY <1>6 DEF Crash, NoJob, JobLegs
  <2> QED
    BY <1>6, <2>2, <2>3, <2>4, LegsFrame DEF Crash
<1>7. CASE Tick
  BY <1>7, LegsFrame DEF Tick
<1> QED
  BY <1>1, <1>2, <1>3, <1>4, <1>5, <1>6, <1>7 DEF JobStep

\* LegsInv holds in every reachable state.
THEOREM LegsInvariant == Spec => [](TypeOK /\ MoneyInv /\ LegsInv)
<1>1. Init => LegsInv
  BY DEF Init, LegsInv, SlotLegs, Idle, JobLegs, NoJob, LegsConfirmedUnlessInterrupted,
         NoRow, PaidStatuses
<1>2. TypeOK /\ MoneyInv /\ LegsInv /\ [Next]_vars => LegsInv'
  <2> SUFFICES ASSUME TypeOK, MoneyInv, LegsInv, [Next]_vars PROVE LegsInv'
    OBVIOUS
  <2>1. CASE UNCHANGED vars
    BY <2>1 DEF vars, LegsInv, LegsConfirmedUnlessInterrupted, Confirming
  <2>2. CASE Next
    BY <2>2, RequestLegs, ArrivalLegs, OtherLegs DEF Next
  <2> QED
    BY <2>1, <2>2
<1> QED
  BY <1>1, <1>2, MoneyInvariant, PTL DEF Spec

\* A paid booking has a leg that is still pending, and will never be started, only while
\* its confirmation is at work or after one was cut short.
THEOREM LegsConfirmed == Spec => []LegsConfirmedUnlessInterrupted
<1>1. LegsInv => LegsConfirmedUnlessInterrupted
  BY DEF LegsInv
<1> QED
  BY <1>1, LegsInvariant, PTL

-----------------------------------------------------------------------------
(* ProtocolInv is inductive when each webhook is delivered once.            *)

\* How a request comes to be confirming or cancelling, with what in its hands.
LEMMA SlotMoves ==
    ASSUME TypeOK, Next, NEW r \in Requests
    PROVE  \/ op'[r] = op[r]
           \/ op'[r].step \in {"idle", "intent", "confirmLegs", "publish"}
           \/ /\ op'[r].step = "confirm"
              /\ \E c \in charges : /\ c.ok /\ Webhook(r, c)
                                  /\ op'[r].b = c.booking /\ op'[r].payment = c.id
           \/ /\ op'[r].step = "confirmRow" /\ op[r].step = "confirm"
              /\ op'[r].b = op[r].b /\ op'[r].payment = op[r].payment
              /\ ConfirmBooking(r)
              /\ op'[r].row = ConfirmWithPayment(db[op[r].b], op[r].payment)
           \/ /\ op'[r].step = "cancelRow"
              /\ \E b \in Bookings : /\ CancelBooking(r, b)
                                   /\ op'[r].b = b /\ op'[r].row = Cancel(db[b])
<1> USE DEF TypeOK
<1> DEFINE Moved(q) ==
      \/ op'[q] = op[q]
      \/ op'[q].step \in {"idle", "intent", "confirmLegs", "publish"}
      \/ /\ op'[q].step = "confirm"
         /\ \E c \in charges : /\ c.ok /\ Webhook(q, c)
                             /\ op'[q].b = c.booking /\ op'[q].payment = c.id
      \/ /\ op'[q].step = "confirmRow" /\ op[q].step = "confirm"
         /\ op'[q].b = op[q].b /\ op'[q].payment = op[q].payment
         /\ ConfirmBooking(q)
         /\ op'[q].row = ConfirmWithPayment(db[op[q].b], op[q].payment)
      \/ /\ op'[q].step = "cancelRow"
         /\ \E b \in Bookings : /\ CancelBooking(q, b)
                              /\ op'[q].b = b /\ op'[q].row = Cancel(db[b])
<1>1. ASSUME NEW q \in Requests, RequestStep(q) \/ RequestFails(q) PROVE Moved(r)
  <2>1. CASE Finish(q)
    BY <2>1, SlotChange DEF Idle
  <2>2. CASE ConfirmBooking(q)
    <3> DEFINE row == ConfirmWithPayment(db[op[q].b], op[q].payment)
               o == [op[q] EXCEPT !.step = "confirmRow", !.row = row, !.todo = Legs]
    <3>1. op[q] \in Busy
      BY <2>2, BusySlot DEF ConfirmBooking
    <3>2. row \in Row
      BY <3>1, AggregateTypes DEF Busy
    <3> HIDE DEF row
    <3>3. o \in Busy
      BY <3>1, <3>2 DEF Busy, Steps
    <3>4. op'[q] = [o EXCEPT !.since = now] /\ \A s \in Requests \ {q} : op'[s] = op[s]
      BY <2>2, <3>3, SlotChange DEF ConfirmBooking, row
    <3>5. /\ op'[q].step = "confirmRow" /\ op'[q].row = row
          /\ op'[q].b = op[q].b /\ op'[q].payment = op[q].payment
      BY <3>1, <3>4 DEF Busy
    <3> QED
      BY <2>2, <3>4, <3>5 DEF row, ConfirmBooking
  <2>3. CASE ConfirmWriteRow(q)
    <3> DEFINE o == [op[q] EXCEPT !.step = "confirmLegs"]
    <3>1. op[q] \in Busy
      BY <2>3, BusySlot DEF ConfirmWriteRow
    <3>2. o \in Busy
      BY <3>1 DEF Busy, Steps
    <3>3. op'[q] = [o EXCEPT !.since = now] /\ \A s \in Requests \ {q} : op'[s] = op[s]
      BY <2>3, <3>2, SlotChange DEF ConfirmWriteRow
    <3> QED
      BY <3>1, <3>3 DEF Busy
  <2>4. ASSUME NEW l \in Legs, ConfirmWriteLeg(q, l) PROVE Moved(r)
    <3> DEFINE o == [op[q] EXCEPT !.todo = @ \ {l}]
    <3>1. op[q] \in Busy
      BY <2>4, BusySlot DEF ConfirmWriteLeg
    <3>2. o \in Busy
      BY <3>1 DEF Busy
    <3>3. CASE op[q].todo # {l}
      <4>1. op'[q] = [o EXCEPT !.since = now] /\ \A s \in Requests \ {q} : op'[s] = op[s]
        BY <2>4, <3>2, <3>3, SlotChange DEF ConfirmWriteLeg
      <4> QED
        BY <2>4, <3>1, <4>1 DEF Busy, ConfirmWriteLeg
    <3> QED
      BY <2>1, <2>4, <3>3 DEF ConfirmWriteLeg
  <2>5. CASE CancelWriteRow(q)
    <3> DEFINE o == [op[q] EXCEPT !.step = "publish"]
    <3>1. op[q] \in Busy
      BY <2>5, BusySlot DEF CancelWriteRow
    <3>2. o \in Busy
      BY <3>1 DEF Busy, Steps
    <3>3. op'[q] = [o EXCEPT !.since = now] /\ \A s \in Requests \ {q} : op'[s] = op[s]
      BY <2>5, <3>2, SlotChange DEF CancelWriteRow
    <3> QED
      BY <3>1, <3>3 DEF Busy
  <2> QED
    BY <1>1, <2>1, <2>2, <2>3, <2>4, <2>5
       DEF RequestStep, RequestFails, AttachPaymentIntent, ConfirmRejected, PublishEvents
<1>2. ASSUME NEW q \in Requests, NEW o,
             op' = [op EXCEPT ![q] = [o EXCEPT !.since = now]],
             [o EXCEPT !.since = now].step \in {"intent", "publish"}
      PROVE  Moved(r)
  BY <1>2
<1>3. ASSUME NEW q \in Requests, NEW b \in Bookings, CreatePendingBooking(q, b)
      PROVE  Moved(r)
  BY <1>2, <1>3 DEF CreatePendingBooking, Proceed, Idle
<1>4. ASSUME NEW q \in Requests, NEW b \in Bookings, CancelBooking(q, b)
      PROVE  Moved(r)
  <2> DEFINE o == [Idle EXCEPT !.step = "cancelRow", !.b = b, !.row = Cancel(db[b]),
                               !.events = {EventOf("BookingCancelled", b, None)}]
  <2>1. op'[q] = [o EXCEPT !.since = now] /\ \A s \in Requests \ {q} : op'[s] = op[s]
    BY <1>4 DEF CancelBooking, Proceed
  <2>2. op'[q].step = "cancelRow" /\ op'[q].b = b /\ op'[q].row = Cancel(db[b])
    BY <2>1 DEF Idle
  <2> QED
    BY <1>4, <2>1, <2>2
<1>5. ASSUME NEW q \in Requests, NEW b \in Bookings, UnassignChauffeur(q, b)
      PROVE  Moved(r)
  BY <1>2, <1>5 DEF UnassignChauffeur, Proceed, Idle
<1>6. ASSUME NEW q \in Requests, NEW b \in Bookings, NEW c \in Chauffeurs,
             AssignChauffeur(q, b, c)
      PROVE  Moved(r)
  <2> DEFINE old == db[b].chauffeurId
             o == [Idle EXCEPT !.step = "publish", !.b = b,
                     !.row = [db[b] EXCEPT !.chauffeurId = c],
                     !.events = {EventOf("ChauffeurAssigned", b, c)} \cup
                        (IF old = None THEN {} ELSE {EventOf("ChauffeurUnassigned", b, old)})]
  <2>1. [o EXCEPT !.since = now].step = "publish"
    BY DEF Idle
  <2>2. op' = [op EXCEPT ![q] = [o EXCEPT !.since = now]]
    BY <1>6 DEF AssignChauffeur, Proceed
  <2> HIDE DEF o
  <2> QED
    BY <1>2, <2>1, <2>2
<1>7. ASSUME NEW q \in Requests, NEW c \in charges, Webhook(q, c) PROVE Moved(r)
  <2>1. CASE ~ c.ok
    BY <1>7, <2>1 DEF Webhook
  <2>2. CASE c.ok
    <3> DEFINE o == [Idle EXCEPT !.step = "confirm", !.b = c.booking, !.payment = c.id]
    <3>1. op'[q] = [o EXCEPT !.since = now] /\ \A s \in Requests \ {q} : op'[s] = op[s]
      BY <1>7, <2>2 DEF Webhook, Proceed
    <3>2. op'[q].step = "confirm" /\ op'[q].b = c.booking /\ op'[q].payment = c.id
      BY <3>1 DEF Idle
    <3> QED
      BY <1>7, <2>2, <3>1, <3>2
  <2> QED
    BY <2>1, <2>2
<1>8. CASE Crash
  BY <1>8 DEF Crash, Idle
<1>9. CASE UNCHANGED op
  BY <1>9
<1> QED
  BY <1>1, <1>3, <1>4, <1>5, <1>6, <1>7, <1>8, <1>9
     DEF Next, Arrival, JobQuery, JobStep, JobLoad, JobSave, JobPublish, JobFails, Outside,
         CustomerPays, DispatchChauffeur, Tick

\* The invariants a step starts from.
AllInv == TypeOK /\ MoneyInv /\ NoticeInv /\ LegsInv /\ ProtocolInv

\* A row's two statuses.
SameStatus(new, old) == new.status = old.status /\ new.paymentStatus = old.paymentStatus

\* What moves the statuses of a row: its creation, the confirmation that waited for it,
\* a cancellation - while the worker is idle - and the worker.
LEMMA RowMoves ==
    ASSUME AllInv, Next, NEW b \in Bookings
    PROVE  \/ SameStatus(db'[b], db[b])
           \/ /\ db[b].status = "NONE" /\ db'[b] = NewBooking
              /\ \E r \in Requests : CreatePendingBooking(r, b)
           \/ /\ \E r \in Requests : /\ ConfirmWriteRow(r)
                                     /\ op[r].step = "confirmRow" /\ op[r].b = b
              /\ db[b].status = "PENDING"
              /\ db'[b].status = "CONFIRMED" /\ db'[b].paymentStatus = "PAID"
           \/ /\ \E r \in Requests : CancelWriteRow(r) /\ op[r].b = b
              /\ job.step = "idle" /\ Secured(db[b]) /\ now < StartDateTime
              /\ db'[b].status = "CANCELLED" /\ db'[b].paymentStatus = "REFUNDED"
           \/ /\ JobSave /\ b \in Modified(job.processed) /\ job.step = "loaded"
              /\ db'[b].status = job.rows[b].status
              /\ db'[b].paymentStatus = job.rows[b].paymentStatus
<1> USE DEF AllInv, TypeOK
<1>1. ASSUME NEW r \in Requests, NEW a \in Bookings, CreatePendingBooking(r, a), a # b
      PROVE  db'[b] = db[b]
  BY <1>1 DEF CreatePendingBooking
<1>2. ASSUME NEW r \in Requests, CreatePendingBooking(r, b)
      PROVE  db[b].status = "NONE" /\ db'[b] = NewBooking
  BY <1>2 DEF CreatePendingBooking
<1>3. ASSUME NEW r \in Requests, ConfirmWriteRow(r), op[r].b = b
      PROVE  /\ op[r].step = "confirmRow" /\ db[b].status = "PENDING"
             /\ db'[b].status = "CONFIRMED" /\ db'[b].paymentStatus = "PAID"
  <2>1. op[r].step = "confirmRow" /\ op[r] \in Busy
    BY <1>3, BusySlot DEF ConfirmWriteRow
  <2>2. /\ db[b].status = "PENDING"
        /\ op[r].row.status = "CONFIRMED" /\ op[r].row.paymentStatus = "PAID"
    BY <1>3, <2>1 DEF ProtocolInv, SlotProtocol
  <2>3. db'[b] = SavedRow(db[b], op[r].row)
    BY <1>3 DEF ConfirmWriteRow
  <2> QED
    BY <2>1, <2>2, <2>3, SavedStatus DEF Busy
<1>4. ASSUME NEW r \in Requests, CancelWriteRow(r), op[r].b = b
      PROVE  /\ job.step = "idle" /\ Secured(db[b]) /\ now < StartDateTime
             /\ db'[b].status = "CANCELLED" /\ db'[b].paymentStatus = "REFUNDED"
  <2>1. op[r].step = "cancelRow" /\ op[r] \in Busy
    BY <1>4, BusySlot DEF CancelWriteRow
  <2>2. op[r].row.status = "CANCELLED" /\ op[r].row.paymentStatus = "REFUNDED"
    BY <2>1 DEF ProtocolInv, SlotProtocol
  <2>3. db'[b] = SavedWithTransaction(db[b], op[r].row)
    BY <1>4 DEF CancelWriteRow
  <2>4. db'[b].status = "CANCELLED" /\ db'[b].paymentStatus = "REFUNDED"
    BY <2>1, <2>2, <2>3, SavedStatus DEF Busy
  <2>5. op[r].since \in Nat /\ op[r].since + CancelNotice <= StartDateTime
        /\ now <= op[r].since + 1
    BY <2>1 DEF NoticeInv, SlotNotice, Busy
  <2>6. now < StartDateTime
    BY <2>5, TimeAssumption, ScheduleAssumption
  <2>7. Secured(db[b])
    BY <1>4, <2>1 DEF LegsInv, SlotLegs
  <2> QED
    BY <2>1, <2>4, <2>6, <2>7, NoticeSeparates
<1>5. ASSUME JobSave, b \in Modified(job.processed)
      PROVE  /\ job.step = "loaded"
             /\ db'[b].status = job.rows[b].status
             /\ db'[b].paymentStatus = job.rows[b].paymentStatus
  <2>1. job.step = "loaded" /\ db'[b] = SavedWithTransaction(db[b], job.rows[b])
    BY <1>5 DEF JobSave
  <2> QED
    BY <2>1, SavedStatus DEF Job
<1>6. ASSUME JobSave, b \notin Modified(job.processed) PROVE db'[b] = db[b]
  BY <1>6 DEF JobSave
<1>7. ASSUME NEW a \in Bookings, NEW c \in Chauffeurs, DispatchChauffeur(a, c)
      PROVE  SameStatus(db'[b], db[b])
  BY <1>7 DEF DispatchChauffeur, SameStatus, Row
<1>8. ASSUME NEW r \in Requests, ConfirmWriteRow(r) \/ CancelWriteRow(r), op[r].b # b
      PROVE  db'[b] = db[b]
  BY <1>8 DEF ConfirmWriteRow, CancelWriteRow
<1>9. db'[b] = db[b] => SameStatus(db'[b], db[b])
  BY DEF SameStatus
<1> QED
  BY <1>1, <1>2, <1>3, <1>4, <1>5, <1>6, <1>7, <1>8, <1>9, RowWriters DEF WritesRows

\* A booking the worker has processed is settled, and only the worker moves it on.
LEMMA ProcessedStays ==
    ASSUME AllInv, Next, NEW e \in job.processed, job.step = "loaded", ~ JobSave
    PROVE  SameStatus(db'[e[1]], db[e[1]])
<1> USE DEF AllInv, TypeOK
<1>1. e[1] \in Bookings /\ e[2] \in Legs
  BY DEF Job
<1>2. legStatus[e[1]][e[2]] # "PENDING"
  BY DEF LegsInv, JobLegs
<1>3. Secured(db[e[1]])
  BY <1>1, <1>2, SettledSecured DEF MoneyInv
<1> QED
  BY <1>1, <1>3, RowMoves DEF Secured, PaidStatuses

\* An untouched row waits for the confirmation of its booking.
LEMMA UntouchedStays ==
    ASSUME AllInv, Next, NEW b \in Bookings, Untouched(db[b]),
           ~ \E r \in Requests : ConfirmWriteRow(r) /\ InConfirmation(op[r], b)
    PROVE  Untouched(db'[b]) /\ (db[b].status = "PENDING" => db'[b].status = "PENDING")
<1> USE DEF AllInv
<1>1. CASE SameStatus(db'[b], db[b])
  BY <1>1 DEF SameStatus, Untouched
<1>2. CASE db[b].status = "NONE" /\ db'[b] = NewBooking
  BY <1>2 DEF NewBooking, NoRow, Untouched
<1>3. ~ (JobSave /\ b \in Modified(job.processed) /\ job.step = "loaded")
  <2> SUFFICES ASSUME b \in Modified(job.processed), job.step = "loaded" PROVE FALSE
    OBVIOUS
  <2>1. PICK e \in job.processed : e[1] = b
    BY DEF Modified
  <2>2. legStatus[b][e[2]] # "PENDING" /\ e[2] \in Legs
    BY <2>1 DEF LegsInv, JobLegs, TypeOK, Job
  <2> QED
    BY <2>2, SettledSecured DEF MoneyInv, Secured, Untouched, PaidStatuses
<1>4. ~ Secured(db[b])
  BY DEF Untouched, Secured, PaidStatuses
<1> QED
  BY <1>1, <1>2, <1>3, <1>4, RowMoves DEF InConfirmation

\* A delivered charge is the one its booking's confirmation is about, so a charge that
\* is delivered only now finds no confirmation at work.
LEMMA FreshWebhook ==
    ASSUME ProtocolInv, delivered \subseteq charges,
           NEW c \in charges \ delivered, c.ok, NEW r \in Requests
    PROVE  ~ InConfirmation(op[r], c.booking)
BY DEF ProtocolInv, SlotProtocol, InConfirmation

\* Each booking has one confirmation at most.
LEMMA OneConfirmation ==
    ASSUME AllInv, Next, ~ Duplicates, NEW r \in Requests, NEW q \in Requests, NEW b \in Bookings,
           InConfirmation(op'[r], b), InConfirmation(op'[q], b)
    PROVE  r = q
<1> USE DEF AllInv
<1>1. ASSUME NEW s \in Requests, InConfirmation(op'[s], b)
      PROVE  \/ InConfirmation(op[s], b)
             \/ /\ \E c \in charges \ delivered : c.ok /\ c.booking = b
                /\ \A t \in Requests \ {s} : op'[t] = op[t]
  <2>1. op'[s] = op[s] \/ (op[s].step = "confirm" /\ op'[s].b = op[s].b)
          => InConfirmation(op[s], b)
    BY <1>1 DEF InConfirmation
  <2>2. ASSUME NEW c \in charges, c.ok, Webhook(s, c), op'[s].b = c.booking
        PROVE  /\ c \notin delivered /\ c.booking = b
               /\ \A t \in Requests \ {s} : op'[t] = op[t]
    BY <1>1, <2>2 DEF Webhook, Proceed, InConfirmation, TypeOK
  <2> QED
    BY <1>1, <2>1, <2>2, SlotMoves DEF InConfirmation
<1>2. \A s \in Requests : \A c \in charges \ delivered :
         c.ok /\ c.booking = b => ~ InConfirmation(op[s], b)
  BY FreshWebhook DEF TypeOK
<1> QED
  BY <1>1, <1>2 DEF ProtocolInv

\* What requests hold is what the rows wait for.
LEMMA SlotsFollow ==
    ASSUME AllInv, Next, ~ Duplicates, NEW r \in Requests
    PROVE  SlotProtocol(op'[r], db', delivered')
<1> USE DEF AllInv, TypeOK
<1>0. delivered \subseteq delivered' /\ SlotProtocol(op[r], db, delivered)
  BY DEF ProtocolInv, Next, Arrival, CreatePendingBooking, CancelBooking, UnassignChauffeur,
         AssignChauffeur, Webhook, JobQuery, RequestStep, AttachPaymentIntent, ConfirmBooking,
         ConfirmRejected, ConfirmWriteRow, ConfirmWriteLeg, CancelWriteRow, PublishEvents,
         RequestFails, JobStep, JobLoad, JobSave, JobPublish, JobFails, Outside, CustomerPays,
         DispatchChauffeur, Crash, Tick
<1>1. CASE op'[r] = op[r]
  <2>1. CASE op[r].step \in {"confirm", "confirmRow"}
    <3>1. op[r].b \in Bookings /\ RowOK(charges, op[r].b, db[op[r].b])
      BY <2>1, BusySlot DEF Busy, MoneyInv
    <3>2. Untouched(db[op[r].b])
      BY <1>0, <2>1, <3>1 DEF SlotProtocol, RowOK, Settled, PaidStatuses
    <3>3. ~ \E q \in Requests : ConfirmWriteRow(q) /\ InConfirmation(op[q], op[r].b)
      <4> SUFFICES ASSUME NEW q \in Requests, ConfirmWriteRow(q), InConfirmation(op[q], op[r].b)
                   PROVE  FALSE
        OBVIOUS
      <4>1. q = r
        BY <2>1, <3>1 DEF ProtocolInv, InConfirmation
      <4>2. op'[q] = [op[q] EXCEPT !.step = "confirmLegs", !.since = now]
            /\ op[q] \in Busy
        BY BusySlot DEF ConfirmWriteRow, Proceed
      <4>3. op'[q].step = "confirmLegs" /\ op[q].step = "confirmRow"
        BY <4>2 DEF Busy, ConfirmWriteRow
      <4> QED
        BY <1>1, <4>1, <4>3
    <3>4. Untouched(db'[op[r].b])
          /\ (db[op[r].b].status = "PENDING" => db'[op[r].b].status = "PENDING")
      BY <3>1, <3>2, <3>3, UntouchedStays
    <3> QED
      BY <1>0, <1>1, <2>1, <3>4 DEF SlotProtocol
  <2>2. CASE op[r].step \notin {"confirm", "confirmRow"}
    BY <1>0, <1>1, <2>2 DEF SlotProtocol
  <2> QED
    BY <2>1, <2>2
<1>2. CASE op'[r].step \in {"idle", "intent", "confirmLegs", "publish"}
  BY <1>2 DEF SlotProtocol
<1>3. ASSUME NEW c \in charges, c.ok, Webhook(r, c), op'[r].b = c.booking,
             op'[r].step = "confirm"
      PROVE  SlotProtocol(op'[r], db', delivered')
  <2>1. c \notin delivered /\ c \in delivered' /\ db' = db
    BY <1>3 DEF Webhook
  <2>2. Untouched(db[c.booking])
    BY <1>3, <2>1 DEF ProtocolInv
  <2> QED
    BY <1>3, <2>1, <2>2 DEF SlotProtocol
<1>4. ASSUME op'[r].step = "confirmRow", op[r].step = "confirm", op'[r].b = op[r].b,
             ConfirmBooking(r), op'[r].row = ConfirmWithPayment(db[op[r].b], op[r].payment)
      PROVE  SlotProtocol(op'[r], db', delivered')
  <2>1. db' = db /\ db[op[r].b].status = "PENDING"
    BY <1>4 DEF ConfirmBooking
  <2>2. db[op[r].b] \in Row
    BY <1>4, BusySlot DEF Busy
  <2>3. op'[r].row.status = "CONFIRMED" /\ op'[r].row.paymentStatus = "PAID"
    BY <1>4, <2>2 DEF ConfirmWithPayment, Row
  <2> QED
    BY <1>0, <1>4, <2>1, <2>3 DEF SlotProtocol
<1>5. ASSUME op'[r].step = "cancelRow", NEW b \in Bookings, op'[r].row = Cancel(db[b])
      PROVE  SlotProtocol(op'[r], db', delivered')
  <2>1. op'[r].row.status = "CANCELLED" /\ op'[r].row.paymentStatus = "REFUNDED"
    BY <1>5 DEF Cancel, Row
  <2> QED
    BY <1>5, <2>1 DEF SlotProtocol
<1> QED
  BY <1>1, <1>2, <1>3, <1>4, <1>5, SlotMoves

\* An intent is settled by one successful charge.
LEMMA OneCharge ==
    ASSUME Next, \A c, e \in charges : c.ok /\ e.ok /\ c.booking = e.booking => c = e
    PROVE  \A c, e \in charges' : c.ok /\ e.ok /\ c.booking = e.booking => c = e
<1>1. CASE charges' = charges
  BY <1>1
<1>2. ASSUME NEW b \in Bookings, NEW p \in Payments, NEW ok \in BOOLEAN, CustomerPays(b, p, ok)
      PROVE  \A c, e \in charges' : c.ok /\ e.ok /\ c.booking = e.booking => c = e
  <2> DEFINE n == [id |-> p, booking |-> b, ok |-> ok]
  <2>1. charges' = charges \cup {n} /\ n.booking = b
        /\ \A c \in charges : ~ (c.booking = b /\ c.ok)
    BY <1>2 DEF CustomerPays
  <2> HIDE DEF n
  <2> QED
    BY <2>1
<1> QED
  BY <1>1, <1>2
     DEF Next, Arrival, CreatePendingBooking, CancelBooking, UnassignChauffeur,
         AssignChauffeur, Webhook, JobQuery, RequestStep, AttachPaymentIntent, ConfirmBooking,
         ConfirmRejected, ConfirmWriteRow, ConfirmWriteLeg, CancelWriteRow, PublishEvents,
         RequestFails, JobStep, JobLoad, JobSave, JobPublish, JobFails, Outside,
         DispatchChauffeur, Crash, Tick

\* While a successful charge has not been delivered its booking is untouched.
LEMMA UndeliveredWaits ==
    ASSUME AllInv, Next, NEW c \in charges' \ delivered', c.ok
    PROVE  Untouched(db'[c.booking])
<1> USE DEF AllInv, TypeOK
<1>1. CASE c \in charges
  <2>1. c \notin delivered
    BY DEF Next, Arrival, CreatePendingBooking, CancelBooking, UnassignChauffeur,
         AssignChauffeur, Webhook, JobQuery, RequestStep, AttachPaymentIntent, ConfirmBooking,
         ConfirmRejected, ConfirmWriteRow, ConfirmWriteLeg, CancelWriteRow, PublishEvents,
         RequestFails, JobStep, JobLoad, JobSave, JobPublish, JobFails, Outside, CustomerPays,
         DispatchChauffeur, Crash, Tick
  <2>2. Untouched(db[c.booking]) /\ c.booking \in Bookings
    BY <1>1, <2>1 DEF ProtocolInv, Charge
  <2>3. ~ \E r \in Requests : ConfirmWriteRow(r) /\ InConfirmation(op[r], c.booking)
    BY <1>1, <2>1, FreshWebhook
  <2> QED
    BY <2>2, <2>3, UntouchedStays
<1>2. CASE c \notin charges
  <2>1. PICK b \in Bookings, p \in Payments, ok \in BOOLEAN : CustomerPays(b, p, ok)
    BY <1>2 DEF Next, Arrival, CreatePendingBooking, CancelBooking, UnassignChauffeur,
         AssignChauffeur, Webhook, JobQuery, RequestStep, AttachPaymentIntent, ConfirmBooking,
         ConfirmRejected, ConfirmWriteRow, ConfirmWriteLeg, CancelWriteRow, PublishEvents,
         RequestFails, JobStep, JobLoad, JobSave, JobPublish, JobFails, Outside,
         DispatchChauffeur, Crash, Tick
  <2>2. c.booking = b /\ db' = db /\ \A e \in charges : ~ (e.booking = b /\ e.ok)
    BY <1>2, <2>1 DEF CustomerPays
  <2>3. ~ Settled(charges, b, db[b])
    BY <2>2 DEF Settled, Bought
  <2> QED
    BY <2>2, <2>3 DEF MoneyInv, RowOK
<1> QED
  BY <1>1, <1>2

\* Trips are under way from their start on.
LEMMA UnderWayLater ==
    ASSUME AllInv, Next, NEW b \in Bookings, db'[b].status \in {"ACTIVE", "COMPLETED"}
    PROVE  StartDateTime <= now'
<1>0. now' = now \/ now' = now + 1
  BY DEF Next, Arrival, CreatePendingBooking, CancelBooking, UnassignChauffeur,
         AssignChauffeur, Webhook, JobQuery, RequestStep, AttachPaymentIntent, ConfirmBooking,
         ConfirmRejected, ConfirmWriteRow, ConfirmWriteLeg, CancelWriteRow, PublishEvents,
         RequestFails, JobStep, JobLoad, JobSave, JobPublish, JobFails, Outside, CustomerPays,
         DispatchChauffeur, Crash, Tick
<1> USE DEF AllInv, TypeOK
<1>1. now \in Nat /\ now' \in Nat /\ now <= now'
  BY <1>0
<1>2. StartDateTime <= now
  <2>1. CASE SameStatus(db'[b], db[b])
    BY <2>1 DEF SameStatus, ProtocolInv
  <2>2. CASE job.step = "loaded"
    BY <2>2 DEF NoticeInv, JobNotice
  <2> QED
    BY <2>1, <2>2, RowMoves DEF NewBooking, NoRow
<1> QED
  BY <1>1, <1>2, ScheduleAssumption

\* The worker's copies are one step ahead of their rows.
LEMMA CopiesAhead ==
    ASSUME AllInv, Next
    PROVE  JobProtocol(job', db')
<1> USE DEF AllInv, TypeOK
<1>0. JobProtocol(job, db)
  BY DEF ProtocolInv
<1>1. CASE job' = job
  <2>1. CASE job.step = "loaded"
    <3>1. ~ JobSave
      <4> SUFFICES ASSUME JobSave PROVE FALSE
        OBVIOUS
      <4>1. job'.step # "loaded"
        BY DEF JobSave, NoJob, Job
      <4> QED
        BY <1>1, <2>1, <4>1
    <3>2. \A e \in job.processed : SameStatus(db'[e[1]], db[e[1]])
      BY <2>1, <3>1, ProcessedStays
    <3> QED
      BY <1>0, <1>1, <3>2 DEF JobProtocol, SameStatus
  <2>2. CASE job.step # "loaded"
    BY <1>1, <2>2 DEF JobProtocol
  <2> QED
    BY <2>1, <2>2
<1>2. CASE JobLoad
  <2> DEFINE rows == [b \in Bookings |->
                        IF b \notin Modified(Processed) THEN NoRow
                        ELSE IF job.kind = "activate" THEN ActivateLeg(db[b])
                             ELSE CompleteLeg(db[b])]
  <2>1. /\ job'.processed = Processed /\ job'.rows = rows /\ job'.kind = job.kind
        /\ db' = db
    BY <1>2 DEF JobLoad, Job
  <2>2. ASSUME NEW e \in Processed
        PROVE  /\ rows[e[1]].paymentStatus = db[e[1]].paymentStatus
               /\ \/ rows[e[1]].status = db[e[1]].status
                  \/ /\ job.kind = "activate" /\ db[e[1]].status = "CONFIRMED"
                     /\ rows[e[1]].status = "ACTIVE"
                  \/ /\ job.kind = "complete" /\ db[e[1]].status = "ACTIVE"
                     /\ rows[e[1]].status = "COMPLETED"
    <3>1. e[1] \in Bookings /\ e[1] \in Modified(Processed)
      BY DEF Processed, Job, Modified
    <3>2. CASE job.kind = "activate"
      <4>1. rows[e[1]] = ActivateLeg(db[e[1]])
        BY <3>1, <3>2
      <4>2. db[e[1]] \in Row
        BY <3>1
      <4> HIDE DEF rows
      <4> QED
        BY <3>2, <4>1, <4>2 DEF ActivateLeg, Row
    <3>3. CASE job.kind = "complete"
      <4>1. rows[e[1]] = CompleteLeg(db[e[1]])
        BY <3>1, <3>3
      <4>2. db[e[1]] \in Row
        BY <3>1
      <4> HIDE DEF rows
      <4> QED
        BY <3>3, <4>1, <4>2 DEF CompleteLeg, Row
    <3> QED
      BY <3>2, <3>3 DEF Job, Kinds
  <2> HIDE DEF rows
  <2> QED
    BY <2>1, <2>2 DEF JobProtocol
<1>3. CASE job'.step # "loaded"
  BY <1>3 DEF JobProtocol
<1>4. JobSave => job'.step # "loaded"
  BY DEF JobSave, NoJob, Job
<1>5. ASSUME NEW d \in job.processed, JobPublish(d) PROVE job'.step # "loaded"
  BY <1>5 DEF JobPublish, NoJob, Job
<1>6. ASSUME NEW kind \in Kinds, NEW booked \in SUBSET Bookings, JobQuery(kind, booked)
      PROVE  job'.step # "loaded"
  BY <1>6 DEF JobQuery, NoJob
<1>7. JobFails \/ Crash => job'.step # "loaded"
  BY DEF JobFails, Crash, NoJob
<1> QED
  BY <1>1, <1>2, <1>3, <1>4, <1>5, <1>6, <1>7
     DEF Next, Arrival, CreatePendingBooking, CancelBooking, UnassignChauffeur,
         AssignChauffeur, Webhook, RequestStep, AttachPaymentIntent, ConfirmBooking,
         ConfirmRejected, ConfirmWriteRow, ConfirmWriteLeg, CancelWriteRow, PublishEvents,
         RequestFails, JobStep, Outside, CustomerPays, DispatchChauffeur, Tick

\* With single deliveries ProtocolInv holds in every reachable state.
THEOREM ProtocolInvariant ==
    ASSUME ~ Duplicates
    PROVE  Spec => []AllInv
<1>1. Init => ProtocolInv
  BY DEF Init, ProtocolInv, InConfirmation, SlotProtocol, JobProtocol, Idle, NoJob, NoRow
<1>2. AllInv /\ [Next]_vars => ProtocolInv'
  <2> SUFFICES ASSUME AllInv, [Next]_vars PROVE ProtocolInv'
    OBVIOUS
  <2>1. CASE UNCHANGED vars
    BY <2>1 DEF vars, AllInv, ProtocolInv
  <2>2. CASE Next
    <3>1. \A r, q \in Requests, b \in Bookings :
             InConfirmation(op'[r], b) /\ InConfirmation(op'[q], b) => r = q
      BY <2>2, OneConfirmation
    <3> QED
      BY <2>2, <3>1, OneCharge, UndeliveredWaits, SlotsFollow, UnderWayLater, CopiesAhead
         DEF AllInv, ProtocolInv
  <2> QED
    BY <2>1, <2>2
<1> QED
  BY <1>1, <1>2, LegsInvariant, NoticeInvariant, PTL DEF Spec, AllInv

-----------------------------------------------------------------------------
(* Every step of BookingLifecycle is a step of BookingProtocol, or none.    *)

\* Statuses, money and announced starts, as the refinement mapping has them.
StatusOf(d) == [b \in Bookings |-> d[b].status]
PaymentOf(d) == [b \in Bookings |-> d[b].paymentStatus]
StartsOf(pub) == { d \in Bookings \X Legs : EventOf("LegStarted", d[1], d[2]) \in pub }

\* Only the worker announces a start.
LEMMA StartsMove ==
    ASSUME AllInv, Next
    PROVE  \/ StartsOf(published') = StartsOf(published)
           \/ \E d \in job.processed : JobPublish(d) /\ job.kind = "activate"
<1> USE DEF AllInv, TypeOK
<1>1. ASSUME published \subseteq published',
             \A e \in published' \ published : e.type # "LegStarted"
      PROVE  StartsOf(published') = StartsOf(published)
  <2>1. \A b \in Bookings, l \in Legs : EventOf("LegStarted", b, l).type = "LegStarted"
    BY DEF EventOf
  <2> QED
    BY <1>1, <2>1 DEF StartsOf
<1>2. ASSUME NEW d \in job.processed, JobPublish(d), job.kind # "activate"
      PROVE  StartsOf(published') = StartsOf(published)
  <2>1. published' = published \cup {EventOf("LegEnded", d[1], d[2])}
    BY <1>2 DEF JobPublish
  <2>2. EventOf("LegEnded", d[1], d[2]).type # "LegStarted"
    BY DEF EventOf
  <2> QED
    BY <1>1, <2>1, <2>2
<1>3. ASSUME NEW r \in Requests, AttachPaymentIntent(r)
      PROVE  StartsOf(published') = StartsOf(published)
  <2>1. published' = published \cup {EventOf("BookingCreated", op[r].b, None)}
    BY <1>3 DEF AttachPaymentIntent
  <2>2. EventOf("BookingCreated", op[r].b, None).type # "LegStarted"
    BY DEF EventOf
  <2> QED
    BY <1>1, <2>1, <2>2
<1>4. ASSUME NEW r \in Requests, PublishEvents(r)
      PROVE  StartsOf(published') = StartsOf(published)
  <2>1. published' = published \cup op[r].events
    BY <1>4 DEF PublishEvents
  <2>2. \A e \in op[r].events : e.type # "LegStarted"
    BY DEF NoticeInv, SlotNotice
  <2> QED
    BY <1>1, <2>1, <2>2
<1>5. UNCHANGED published => StartsOf(published') = StartsOf(published)
  OBVIOUS
<1> QED
  BY <1>2, <1>3, <1>4, <1>5
     DEF Next, Arrival, CreatePendingBooking, CancelBooking, UnassignChauffeur,
         AssignChauffeur, Webhook, JobQuery, RequestStep, ConfirmBooking,
         ConfirmRejected, ConfirmWriteRow, ConfirmWriteLeg, CancelWriteRow,
         RequestFails, JobStep, JobLoad, JobSave, JobFails, Outside, CustomerPays,
         DispatchChauffeur, Crash, Tick

\* An announced start is one of a trip that is paid for.
LEMMA AnnouncedPaid ==
    ASSUME AllInv, NEW d \in job.processed, job.step = "publish"
    PROVE  d \in Bookings \X Legs /\ db[d[1]].status \in PaidStatuses
<1> USE DEF AllInv, TypeOK
<1>1. d \in Bookings \X Legs /\ d[1] \in Bookings /\ d[2] \in Legs
  BY DEF Job
<1>2. legStatus[d[1]][d[2]] # "PENDING"
  BY DEF LegsInv, JobLegs
<1>3. Settled(charges, d[1], db[d[1]])
  BY <1>1, <1>2 DEF MoneyInv
<1>4. db[d[1]].status # "CANCELLED"
  BY DEF NoticeInv, JobNotice
<1> QED
  BY <1>1, <1>3, <1>4 DEF Settled

\* A step that moves rows moves them as BookingProtocol does.
LEMMA RowsFollow ==
    ASSUME AllInv, Next, NEW b \in Bookings, ~ SameStatus(db'[b], db[b])
    PROVE  /\ published' = published
           /\ \/ /\ db[b].status = "NONE"
                 /\ StatusOf(db') = [StatusOf(db) EXCEPT ![b] = "PENDING"]
                 /\ PaymentOf(db') = PaymentOf(db)
              \/ /\ db[b].status = "PENDING"
                 /\ StatusOf(db') = [StatusOf(db) EXCEPT ![b] = "CONFIRMED"]
                 /\ PaymentOf(db') = [PaymentOf(db) EXCEPT ![b] = "PAID"]
              \/ /\ db[b].status = "CONFIRMED"
                 /\ StatusOf(db') = [StatusOf(db) EXCEPT ![b] = "CANCELLED"]
                 /\ PaymentOf(db') = [PaymentOf(db) EXCEPT ![b] = "REFUNDED"]
              \/ \E S \in SUBSET Bookings :
                    \E m \in {<<"CONFIRMED", "ACTIVE">>, <<"ACTIVE", "COMPLETED">>} :
                       /\ b \in S /\ \A a \in S : db[a].status = m[1]
                       /\ StatusOf(db') = [a \in Bookings |-> IF a \in S THEN m[2]
                                                              ELSE StatusOf(db)[a]]
                       /\ PaymentOf(db') = [a \in Bookings |-> IF a \in S THEN "PAID"
                                                               ELSE PaymentOf(db)[a]]
<1> USE DEF AllInv, TypeOK
<1>0. RowOK(charges, b, db[b])
  BY DEF MoneyInv
<1>1. ASSUME NEW r \in Requests, CreatePendingBooking(r, b), db[b].status = "NONE",
             db'[b] = NewBooking
      PROVE  /\ published' = published
             /\ StatusOf(db') = [StatusOf(db) EXCEPT ![b] = "PENDING"]
             /\ PaymentOf(db') = PaymentOf(db)
  <2>1. db' = [db EXCEPT ![b] = NewBooking] /\ published' = published
    BY <1>1 DEF CreatePendingBooking
  <2>2. NewBooking.status = "PENDING" /\ NewBooking.paymentStatus = "UNPAID"
    BY DEF NewBooking, NoRow
  <2>3. db[b].paymentStatus = "UNPAID"
    BY <1>0, <1>1 DEF RowOK, Untouched, Settled, PaidStatuses
  <2> QED
    BY <2>1, <2>2, <2>3 DEF StatusOf, PaymentOf
<1>2. ASSUME NEW s, NEW p, db'[b].status = s, db'[b].paymentStatus = p,
             \A a \in Bookings \ {b} : db'[a] = db[a]
      PROVE  /\ StatusOf(db') = [StatusOf(db) EXCEPT ![b] = s]
             /\ PaymentOf(db') = [PaymentOf(db) EXCEPT ![b] = p]
  BY <1>2 DEF StatusOf, PaymentOf
<1>3. ASSUME NEW r \in Requests, ConfirmWriteRow(r) \/ CancelWriteRow(r), op[r].b = b
      PROVE  published' = published /\ \A a \in Bookings \ {b} : db'[a] = db[a]
  BY <1>3 DEF ConfirmWriteRow, CancelWriteRow
<1>4. ASSUME Secured(db[b]), now < StartDateTime, db'[b].status = "CANCELLED",
             db'[b].paymentStatus = "REFUNDED"
      PROVE  db[b].status = "CONFIRMED"
  <2>1. db[b].status \notin {"ACTIVE", "COMPLETED"}
    BY <1>4, ScheduleAssumption DEF ProtocolInv
  <2>2. db[b].status # "CANCELLED"
    BY <1>0, <1>4 DEF RowOK, Untouched, Settled, PaidStatuses, SameStatus
  <2> QED
    BY <1>4, <2>1, <2>2 DEF Secured, PaidStatuses
<1>5. ASSUME JobSave
      PROVE  /\ published' = published
             /\ \E S \in SUBSET Bookings :
                   \E m \in {<<"CONFIRMED", "ACTIVE">>, <<"ACTIVE", "COMPLETED">>} :
                      /\ b \in S /\ \A a \in S : db[a].status = m[1]
                      /\ StatusOf(db') = [a \in Bookings |-> IF a \in S THEN m[2]
                                                             ELSE StatusOf(db)[a]]
                      /\ PaymentOf(db') = [a \in Bookings |-> IF a \in S THEN "PAID"
                                                              ELSE PaymentOf(db)[a]]
  <2> DEFINE S == { a \in Bookings : ~ SameStatus(db'[a], db[a]) }
             m == IF job.kind = "activate" THEN <<"CONFIRMED", "ACTIVE">>
                  ELSE <<"ACTIVE", "COMPLETED">>
  <2>1. job.step = "loaded" /\ published' = published
    BY <1>5 DEF JobSave
  <2>2. ASSUME NEW a \in S
        PROVE  /\ db[a].status = m[1] /\ db'[a].status = m[2]
               /\ db[a].paymentStatus = "PAID" /\ db'[a].paymentStatus = "PAID"
    <3>1. a \in Modified(job.processed)
      BY <1>5 DEF JobSave, SameStatus
    <3>2. PICK e \in job.processed : e[1] = a
      BY <3>1 DEF Modified
    <3>3. db'[a] = SavedWithTransaction(db[a], job.rows[a])
      BY <1>5, <3>1 DEF JobSave
    <3>4. /\ db'[a].status = job.rows[a].status
          /\ db'[a].paymentStatus = job.rows[a].paymentStatus
      BY <3>3, SavedStatus DEF Job
    <3>5. /\ db'[a].paymentStatus = db[a].paymentStatus
          /\ db[a].status = m[1] /\ db'[a].status = m[2]
      BY <2>1, <3>2, <3>4 DEF ProtocolInv, JobProtocol, SameStatus
    <3>6. db[a].paymentStatus = "PAID"
      BY <3>5 DEF MoneyInv, RowOK, Untouched, Settled
    <3> QED
      BY <3>5, <3>6
  <2>3. StatusOf(db') = [a \in Bookings |-> IF a \in S THEN m[2] ELSE StatusOf(db)[a]]
    BY <2>2 DEF StatusOf, SameStatus
  <2>4. PaymentOf(db') = [a \in Bookings |-> IF a \in S THEN "PAID" ELSE PaymentOf(db)[a]]
    BY <2>2 DEF PaymentOf, SameStatus
  <2>5. m \in {<<"CONFIRMED", "ACTIVE">>, <<"ACTIVE", "COMPLETED">>}
    OBVIOUS
  <2>6. b \in S /\ S \in SUBSET Bookings
    OBVIOUS
  <2>7. \A a \in S : db[a].status = m[1]
    BY <2>2
  <2> HIDE DEF S, m
  <2> QED
    BY <2>1, <2>3, <2>4, <2>5, <2>6, <2>7
<1> QED
  BY <1>1, <1>2, <1>3, <1>4, <1>5, RowMoves

\* A step of BookingLifecycle maps to a step of BookingProtocol or to a stutter.
LEMMA StepsFollow ==
    ASSUME AllInv, Next
    PROVE  [Protocol!Next]_(Protocol!vars)
<1> USE DEF AllInv
<1>1. CASE \A b \in Bookings : SameStatus(db'[b], db[b])
  <2>1. StatusOf(db') = StatusOf(db) /\ PaymentOf(db') = PaymentOf(db)
    BY <1>1 DEF StatusOf, PaymentOf, SameStatus
  <2>2. CASE StartsOf(published') = StartsOf(published)
    BY <2>1, <2>2 DEF Protocol!vars, StatusOf, PaymentOf, StartsOf, Started
  <2>3. ASSUME NEW d \in job.processed, JobPublish(d), job.kind = "activate"
        PROVE  Protocol!Next
    <3>1. d \in Bookings \X Legs /\ db[d[1]].status \in PaidStatuses
      BY <2>3, AnnouncedPaid DEF JobPublish
    <3>2. published' = published \cup {EventOf("LegStarted", d[1], d[2])}
      BY <2>3 DEF JobPublish
    <3>3. StartsOf(published') = StartsOf(published) \cup {<<d[1], d[2]>>}
      BY <3>1, <3>2 DEF StartsOf, EventOf
    <3>4. d[1] \in Bookings /\ d[2] \in Legs
      BY <3>1
    <3>5. Protocol!AnnounceStart(d[1], d[2])
      BY <2>1, <3>1, <3>3, <3>4
         DEF Protocol!AnnounceStart, Protocol!PaidStatuses, PaidStatuses, StatusOf, PaymentOf,
             StartsOf, Started
    <3> QED
      BY <3>4, <3>5 DEF Protocol!Next
  <2> QED
    BY <2>2, <2>3, StartsMove
<1>2. ASSUME NEW b \in Bookings, ~ SameStatus(db'[b], db[b])
      PROVE  Protocol!Next
  <2>0. published' = published /\ StartsOf(published') = StartsOf(published)
    BY <1>2, RowsFollow
  <2>1. CASE /\ db[b].status = "NONE"
             /\ StatusOf(db') = [StatusOf(db) EXCEPT ![b] = "PENDING"]
             /\ PaymentOf(db') = PaymentOf(db)
    <3>1. Protocol!Create(b)
      BY <2>0, <2>1 DEF Protocol!Create, StatusOf, PaymentOf, StartsOf, Started
    <3> QED
      BY <3>1 DEF Protocol!Next
  <2>2. CASE /\ db[b].status = "PENDING"
             /\ StatusOf(db') = [StatusOf(db) EXCEPT ![b] = "CONFIRMED"]
             /\ PaymentOf(db') = [PaymentOf(db) EXCEPT ![b] = "PAID"]
    <3>1. Protocol!Move(b, "CONFIRMED")
      BY <2>0, <2>2
         DEF Protocol!Move, Protocol!Transitions, Protocol!MoneyOf, Protocol!PaidStatuses,
             StatusOf, PaymentOf, StartsOf, Started
    <3> QED
      BY <3>1 DEF Protocol!Next
  <2>3. CASE /\ db[b].status = "CONFIRMED"
             /\ StatusOf(db') = [StatusOf(db) EXCEPT ![b] = "CANCELLED"]
             /\ PaymentOf(db') = [PaymentOf(db) EXCEPT ![b] = "REFUNDED"]
    <3>1. Protocol!Move(b, "CANCELLED")
      BY <2>0, <2>3
         DEF Protocol!Move, Protocol!Transitions, Protocol!MoneyOf, Protocol!PaidStatuses,
             StatusOf, PaymentOf, StartsOf, Started
    <3> QED
      BY <3>1 DEF Protocol!Next
  <2>4. ASSUME NEW S \in SUBSET Bookings,
               NEW m \in {<<"CONFIRMED", "ACTIVE">>, <<"ACTIVE", "COMPLETED">>},
               b \in S, \A a \in S : db[a].status = m[1],
               StatusOf(db') = [a \in Bookings |-> IF a \in S THEN m[2] ELSE StatusOf(db)[a]],
               PaymentOf(db') = [a \in Bookings |-> IF a \in S THEN "PAID"
                                                    ELSE PaymentOf(db)[a]]
        PROVE  Protocol!Next
    <3>1. m[2] \in {"ACTIVE", "COMPLETED"} /\ Protocol!MoneyOf(m[2]) = "PAID"
      BY DEF Protocol!MoneyOf, Protocol!PaidStatuses
    <3>2. \A a \in S : <<db[a].status, m[2]>> \in Protocol!Transitions
      BY <2>4 DEF Protocol!Transitions
    <3>3. Protocol!MoveBatch(S, m[2])
      BY <2>0, <2>4, <3>1, <3>2
         DEF Protocol!MoveBatch, StatusOf, PaymentOf, StartsOf, Started
    <3> QED
      BY <3>1, <3>3 DEF Protocol!Next
  <2> QED
    BY <1>2, <2>1, <2>2, <2>3, <2>4, RowsFollow
<1> QED
  BY <1>1, <1>2

\* As long as the provider delivers each webhook once, every booking, seen through the
\* database and the announced starts, behaves as BookingProtocol allows: it goes through
\* the table of booking-status.vo.ts, its money moves in the same step, and only trips
\* that are paid for are announced.
THEOREM ImplementsProtocol ==
    ASSUME ~ Duplicates
    PROVE  Spec => FollowsProtocol
<1>1. Init => Protocol!Init
  <2> SUFFICES ASSUME Init PROVE Protocol!Init
    OBVIOUS
  <2>1. { d \in Bookings \X Legs : Started(d[1], d[2]) } = {}
    BY DEF Init, Started
  <2> QED
    BY <2>1 DEF Init, Protocol!Init, NoRow
<1>2. AllInv /\ [Next]_vars => [Protocol!Next]_(Protocol!vars)
  <2> SUFFICES ASSUME AllInv, [Next]_vars PROVE [Protocol!Next]_(Protocol!vars)
    OBVIOUS
  <2>1. CASE UNCHANGED vars
    BY <2>1 DEF vars, Protocol!vars, Started
  <2>2. CASE Next
    BY <2>2, StepsFollow
  <2> QED
    BY <2>1, <2>2
<1> QED
  BY <1>1, <1>2, ProtocolInvariant, PTL DEF Spec, FollowsProtocol, Protocol!Spec

\* And no booking leaves the table of booking-status.vo.ts: it is the repeated webhook
\* alone that breaks LegalTransitions in the run that refutes it.
THEOREM LegalWhenDeliveredOnce ==
    ASSUME ~ Duplicates
    PROVE  Spec => LegalTransitions
<1> DEFINE Legal(b) == LET from == db[b].status to == db[b].status' IN
                       from # to => \/ from = "NONE" /\ to = "PENDING"
                                    \/ <<from, to>> \in BookingTransitions
<1>1. AllInv /\ [Next]_vars => [\A b \in Bookings : Legal(b)]_vars
  <2> SUFFICES ASSUME AllInv, Next, NEW b \in Bookings, db[b].status # db'[b].status
               PROVE  Legal(b)
    OBVIOUS
  <2>1. ~ SameStatus(db'[b], db[b])
    BY DEF SameStatus
  <2>2. StatusOf(db')[b] = db'[b].status
    BY DEF StatusOf
  <2>3. StatusOf(db)[b] = db[b].status /\ StatusOf(db) \in [Bookings -> {db[a].status : a \in Bookings}]
    BY DEF StatusOf
  <2>4. \/ db[b].status = "NONE" /\ db'[b].status = "PENDING"
        \/ db[b].status = "PENDING" /\ db'[b].status = "CONFIRMED"
        \/ db[b].status = "CONFIRMED" /\ db'[b].status = "CANCELLED"
        \/ <<db[b].status, db'[b].status>> \in {<<"CONFIRMED", "ACTIVE">>, <<"ACTIVE", "COMPLETED">>}
    BY <2>1, <2>2, <2>3, RowsFollow
  <2> QED
    BY <2>4 DEF BookingTransitions
<1> QED
  BY <1>1, ProtocolInvariant, PTL DEF Spec, LegalTransitions

-----------------------------------------------------------------------------
(* However often a webhook is delivered: RedeliveryInv is inductive.        *)

\* The invariants a step starts from when deliveries may repeat.
RepeatInv == TypeOK /\ MoneyInv /\ NoticeInv /\ RedeliveryInv

\* What a step does to the status of a row and the payment it names.
LEMMA RowRewrites ==
    ASSUME RepeatInv, Next, NEW b \in Bookings
    PROVE  \/ db'[b].status = db[b].status /\ db'[b].paymentId = db[b].paymentId
           \/ db[b].status = "NONE" /\ db'[b].status = "PENDING"
           \/ \E r \in Requests :
                 /\ op[r].step = "confirmRow" /\ op[r].b = b /\ db[b].status # "NONE"
                 /\ db'[b].status = "CONFIRMED" /\ db'[b].paymentId = op[r].payment
           \/ /\ \E r \in Requests : op[r].step = "cancelRow" /\ op[r].b = b
              /\ job.step = "idle" /\ db[b].status \in {"CONFIRMED", "CANCELLED"}
              /\ db'[b].status = "CANCELLED"
           \/ /\ JobSave /\ b \in Modified(job.processed)
              /\ db[b].status \in {"CONFIRMED", "ACTIVE"}
              /\ \/ db'[b].status = "ACTIVE"
                 \/ db[b].status = "CONFIRMED" /\ db'[b].status = "CONFIRMED"
<1> USE DEF RepeatInv, TypeOK
<1>1. ASSUME NEW r \in Requests, NEW a \in Bookings, CreatePendingBooking(r, a), a # b
      PROVE  db'[b] = db[b]
  BY <1>1 DEF CreatePendingBooking
<1>2. ASSUME NEW r \in Requests, CreatePendingBooking(r, b)
      PROVE  db[b].status = "NONE" /\ db'[b].status = "PENDING"
  BY <1>2 DEF CreatePendingBooking, NewBooking, NoRow
<1>3. ASSUME NEW r \in Requests, ConfirmWriteRow(r), op[r].b = b
      PROVE  /\ op[r].step = "confirmRow" /\ db[b].status # "NONE"
             /\ db'[b].status = "CONFIRMED" /\ db'[b].paymentId = op[r].payment
  <2>1. op[r].step = "confirmRow" /\ op[r] \in Busy
    BY <1>3, BusySlot DEF ConfirmWriteRow
  <2>2. /\ db[b].status # "NONE" /\ op[r].payment # None
        /\ op[r].row.status = "CONFIRMED" /\ op[r].row.paymentId = op[r].payment
    BY <1>3, <2>1, NoneAssumption DEF RedeliveryInv, SlotRedelivery, Charge
  <2>3. db'[b] = SavedRow(db[b], op[r].row) /\ op[r].row \in Row
    BY <1>3, <2>1 DEF ConfirmWriteRow, Busy
  <2>4. SavedRow(db[b], op[r].row).paymentId = op[r].payment
    BY <2>2, <2>3 DEF SavedRow, Keep, Row
  <2> QED
    BY <2>1, <2>2, <2>3, <2>4, SavedStatus
<1>4. ASSUME NEW r \in Requests, CancelWriteRow(r), op[r].b = b
      PROVE  /\ op[r].step = "cancelRow" /\ job.step = "idle"
             /\ db[b].status \in {"CONFIRMED", "CANCELLED"} /\ db'[b].status = "CANCELLED"
  <2>1. op[r].step = "cancelRow" /\ op[r] \in Busy
    BY <1>4, BusySlot DEF CancelWriteRow
  <2>2. op[r].row.status = "CANCELLED" /\ db[b].status \in {"CONFIRMED", "CANCELLED"}
    BY <1>4, <2>1 DEF RedeliveryInv, SlotRedelivery
  <2>3. db'[b] = SavedWithTransaction(db[b], op[r].row) /\ op[r].row \in Row
    BY <1>4, <2>1 DEF CancelWriteRow, Busy
  <2> QED
    BY <2>1, <2>2, <2>3, SavedStatus, NoticeSeparates
<1>5. ASSUME JobSave, b \in Modified(job.processed)
      PROVE  /\ db[b].status \in {"CONFIRMED", "ACTIVE"}
             /\ \/ db'[b].status = "ACTIVE"
                \/ db[b].status = "CONFIRMED" /\ db'[b].status = "CONFIRMED"
  <2>1. PICK e \in job.processed : e[1] = b
    BY <1>5 DEF Modified
  <2>2. job.step = "loaded" /\ db'[b] = SavedWithTransaction(db[b], job.rows[b])
        /\ job.rows[b] \in Row
    BY <1>5 DEF JobSave, Job
  <2>3. \/ job.rows[b].status = "ACTIVE" /\ db[b].status \in {"CONFIRMED", "ACTIVE"}
        \/ job.rows[b].status = "CONFIRMED" /\ db[b].status = "CONFIRMED"
    BY <2>1, <2>2 DEF RedeliveryInv, JobRedelivery
  <2> QED
    BY <2>2, <2>3, SavedStatus
<1>6. ASSUME JobSave, b \notin Modified(job.processed) PROVE db'[b] = db[b]
  BY <1>6 DEF JobSave
<1>7. ASSUME NEW a \in Bookings, NEW c \in Chauffeurs, DispatchChauffeur(a, c)
      PROVE  db'[b].status = db[b].status /\ db'[b].paymentId = db[b].paymentId
  BY <1>7 DEF DispatchChauffeur, Row
<1>8. ASSUME NEW r \in Requests, ConfirmWriteRow(r) \/ CancelWriteRow(r), op[r].b # b
      PROVE  db'[b] = db[b]
  BY <1>8 DEF ConfirmWriteRow, CancelWriteRow
<1> QED
  BY <1>1, <1>2, <1>3, <1>4, <1>5, <1>6, <1>7, <1>8, RowWriters DEF WritesRows

\* What a booking is once it is there: never again absent; and a confirmed row stays one,
\* and a started one stays started or goes back, unless a cancellation is written.
LEMMA RewritesStay ==
    ASSUME RepeatInv, Next, NEW b \in Bookings
    PROVE  /\ db[b].status # "NONE" => db'[b].status # "NONE"
           /\ db[b].status \in {"CONFIRMED", "CANCELLED"} /\ job.step = "idle"
                => db'[b].status \in {"CONFIRMED", "CANCELLED"}
           /\ ~ JobSave /\ job.step # "idle" /\ db[b].status \in {"CONFIRMED", "ACTIVE"}
                => \/ db'[b].status = db[b].status
                   \/ db'[b].status = "CONFIRMED"
           /\ db[b].status # "COMPLETED" => db'[b].status # "COMPLETED"
<1>1. JobSave => job.step # "idle"
  BY DEF JobSave
<1> QED
  BY <1>1, RowRewrites

\* No leg is ever stored as ACTIVE: creation stores it pending and a confirmation
\* confirmed, and saveAll leaves the legs out.
LEMMA LegsNeverActive ==
    ASSUME RepeatInv, Next, NEW b \in Bookings, NEW l \in Legs
    PROVE  legStatus'[b][l] \in {"PENDING", "CONFIRMED"}
<1> USE DEF RepeatInv, TypeOK
<1>1. legStatus[b][l] \in {"PENDING", "CONFIRMED"}
  BY DEF RedeliveryInv
<1>2. ASSUME NEW r \in Requests, NEW a \in Bookings, CreatePendingBooking(r, a)
      PROVE  legStatus'[b][l] \in {"PENDING", "CONFIRMED"}
  BY <1>1, <1>2 DEF CreatePendingBooking
<1>3. ASSUME NEW r \in Requests, NEW m \in Legs, ConfirmWriteLeg(r, m)
      PROVE  legStatus'[b][l] \in {"PENDING", "CONFIRMED"}
  BY <1>1, <1>3 DEF ConfirmWriteLeg
<1>4. CASE UNCHANGED legStatus
  BY <1>1, <1>4
<1> QED
  BY <1>2, <1>3, <1>4
     DEF Next, Arrival, CancelBooking, UnassignChauffeur, AssignChauffeur, Webhook, JobQuery,
         RequestStep, AttachPaymentIntent, ConfirmBooking, ConfirmRejected, ConfirmWriteRow,
         CancelWriteRow, PublishEvents, RequestFails, JobStep, JobLoad, JobSave, JobPublish,
         JobFails, Outside, CustomerPays, DispatchChauffeur, Crash, Tick

\* What requests have to write is about the one payment of their booking.
LEMMA SlotsRepeat ==
    ASSUME RepeatInv, Next, NEW r \in Requests
    PROVE  SlotRedelivery(op'[r], db', delivered')
<1> USE DEF RepeatInv, TypeOK
<1>0. delivered \subseteq delivered' /\ SlotRedelivery(op[r], db, delivered)
  BY DEF RedeliveryInv, Next, Arrival, CreatePendingBooking, CancelBooking, UnassignChauffeur,
         AssignChauffeur, Webhook, JobQuery, RequestStep, AttachPaymentIntent, ConfirmBooking,
         ConfirmRejected, ConfirmWriteRow, ConfirmWriteLeg, CancelWriteRow, PublishEvents,
         RequestFails, JobStep, JobLoad, JobSave, JobPublish, JobFails, Outside, CustomerPays,
         DispatchChauffeur, Crash, Tick
<1>1. CASE op'[r] = op[r]
  <2>1. CASE op[r].step \in {"confirm", "confirmRow"}
    <3>1. op[r].b \in Bookings
      BY <2>1, BusySlot DEF Busy
    <3>2. db[op[r].b].status # "NONE" => db'[op[r].b].status # "NONE"
      BY <3>1, RewritesStay
    <3> QED
      BY <1>0, <1>1, <2>1, <3>2 DEF SlotRedelivery
  <2>2. CASE op[r].step = "cancelRow"
    <3>1. op[r].b \in Bookings /\ job.step = "idle"
      BY <2>2, BusySlot, NoticeSeparates DEF Busy
    <3>2. db[op[r].b].status \in {"CONFIRMED", "CANCELLED"}
            => db'[op[r].b].status \in {"CONFIRMED", "CANCELLED"}
      BY <3>1, RewritesStay
    <3> QED
      BY <1>0, <1>1, <2>2, <3>2 DEF SlotRedelivery
  <2>3. CASE op[r].step \notin {"confirm", "confirmRow", "cancelRow"}
    BY <1>1, <2>3 DEF SlotRedelivery
  <2> QED
    BY <2>1, <2>2, <2>3
<1>2. CASE op'[r].step \in {"idle", "intent", "confirmLegs", "publish"}
  BY <1>2 DEF SlotRedelivery
<1>3. ASSUME op'[r].step = "confirm", NEW c \in charges, c.ok, Webhook(r, c),
             op'[r].b = c.booking, op'[r].payment = c.id
      PROVE  SlotRedelivery(op'[r], db', delivered')
  <2>1. c \in delivered'
    BY <1>3 DEF Webhook
  <2> QED
    BY <1>3, <2>1 DEF SlotRedelivery
<1>4. ASSUME op'[r].step = "confirmRow", op[r].step = "confirm", op'[r].b = op[r].b,
             op'[r].payment = op[r].payment, ConfirmBooking(r),
             op'[r].row = ConfirmWithPayment(db[op[r].b], op[r].payment)
      PROVE  SlotRedelivery(op'[r], db', delivered')
  <2>1. db' = db /\ db[op[r].b].status = "PENDING"
    BY <1>4 DEF ConfirmBooking
  <2>2. db[op[r].b] \in Row
    BY <1>4, BusySlot DEF Busy
  <2>3. op'[r].row.status = "CONFIRMED" /\ op'[r].row.paymentId = op'[r].payment
    BY <1>4, <2>2 DEF ConfirmWithPayment, Row
  <2>4. \E c \in delivered' : c.ok /\ c.booking = op'[r].b /\ c.id = op'[r].payment
    BY <1>0, <1>4 DEF SlotRedelivery
  <2> QED
    BY <1>4, <2>1, <2>3, <2>4 DEF SlotRedelivery
<1>5. ASSUME op'[r].step = "cancelRow", NEW b \in Bookings, CancelBooking(r, b),
             op'[r].b = b, op'[r].row = Cancel(db[b])
      PROVE  SlotRedelivery(op'[r], db', delivered')
  <2>1. op'[r].row.status = "CANCELLED"
    BY <1>5 DEF Cancel, Row
  <2>2. db' = db /\ db[b].status = "CONFIRMED"
    BY <1>5 DEF CancelBooking, IsEligibleForCancellation
  <2> QED
    BY <1>5, <2>1, <2>2 DEF SlotRedelivery
<1> QED
  BY <1>1, <1>2, <1>3, <1>4, <1>5, SlotMoves

\* The worker starts bookings that are confirmed.
LEMMA CopiesRepeat ==
    ASSUME RepeatInv, Next
    PROVE  JobRedelivery(job', db')
<1> USE DEF RepeatInv, TypeOK
<1>0. JobRedelivery(job, db)
  BY DEF RedeliveryInv
<1>1. JobRedelivery(NoJob, db')
  BY DEF JobRedelivery, NoJob
<1>2. CASE job' = job /\ ~ JobSave
  <2>1. CASE job.step = "loaded"
    <3>1. \A e \in job.processed : e[1] \in Bookings
      BY DEF Job
    <3>2. \A e \in job.processed :
             db[e[1]].status \in {"CONFIRMED", "ACTIVE"}
               => db'[e[1]].status = db[e[1]].status \/ db'[e[1]].status = "CONFIRMED"
      BY <1>2, <2>1, <3>1, RewritesStay
    <3> QED
      BY <1>0, <1>2, <2>1, <3>2 DEF JobRedelivery
  <2>2. CASE job.step # "loaded"
    BY <1>0, <1>2, <2>2 DEF JobRedelivery
  <2> QED
    BY <2>1, <2>2
<1>3. CASE JobLoad
  <2> DEFINE rows == [b \in Bookings |->
                        IF b \notin Modified(Processed) THEN NoRow
                        ELSE IF job.kind = "activate" THEN ActivateLeg(db[b])
                             ELSE CompleteLeg(db[b])]
  <2>1. /\ job'.processed = Processed /\ job'.rows = rows /\ job'.kind = job.kind
        /\ db' = db /\ job.kind = "activate" /\ job.step = "queried"
    BY <1>0, <1>3 DEF JobLoad, Job, JobRedelivery
  <2>2. ASSUME NEW e \in Processed
        PROVE  \/ rows[e[1]].status = "ACTIVE" /\ db[e[1]].status \in {"CONFIRMED", "ACTIVE"}
               \/ rows[e[1]].status = "CONFIRMED" /\ db[e[1]].status = "CONFIRMED"
    <3>1. e[1] \in Bookings /\ e[2] \in Legs /\ e \in job.due /\ e[1] \in Modified(Processed)
      BY DEF Processed, Job, Modified
    <3>2. rows[e[1]] = ActivateLeg(db[e[1]]) /\ db[e[1]] \in Row
      BY <2>1, <3>1
    <3>3. legStatus[e[1]][e[2]] # "PENDING"
      BY <2>1 DEF Processed, LegTransitions
    <3>4. Secured(db[e[1]])
      BY <3>1, <3>3, SettledSecured DEF MoneyInv
    <3>5. db[e[1]].status # "CANCELLED"
      BY <2>1, <3>1 DEF NoticeInv, JobNotice
    <3>6. db[e[1]].status \in {"CONFIRMED", "ACTIVE"}
      BY <3>1, <3>4, <3>5 DEF RedeliveryInv, Secured, PaidStatuses
    <3> HIDE DEF rows
    <3> QED
      BY <3>2, <3>6 DEF ActivateLeg, Row
  <2> HIDE DEF rows
  <2> QED
    BY <2>1, <2>2 DEF JobRedelivery
<1>4. JobSave => job' = NoJob \/ (job'.step = "publish" /\ job'.kind = job.kind)
  BY DEF JobSave, Job
<1>5. ASSUME NEW d \in job.processed, JobPublish(d)
      PROVE  job' = NoJob \/ (job'.step = "publish" /\ job'.kind = job.kind)
  BY <1>5 DEF JobPublish, Job
<1>6. job'.step = "publish" /\ job'.kind = job.kind => JobRedelivery(job', db')
  BY <1>0 DEF JobRedelivery
<1>7. ASSUME NEW kind \in Kinds, NEW booked \in SUBSET Bookings, JobQuery(kind, booked)
      PROVE  JobRedelivery(job', db')
  <2>1. job'.step = "queried" /\ job'.kind = kind
    BY <1>7 DEF JobQuery, NoJob
  <2>2. kind = "activate"
    <3>1. PICK d \in LegsDue(kind, booked) : TRUE
      BY <1>7 DEF JobQuery
    <3>2. d[1] \in Bookings /\ d[2] \in Legs
      BY <3>1 DEF LegsDue
    <3>3. legStatus[d[1]][d[2]] # "ACTIVE"
      BY <3>2 DEF RedeliveryInv
    <3> QED
      BY <3>1, <3>3 DEF LegsDue
  <2> QED
    BY <2>1, <2>2 DEF JobRedelivery
<1>8. JobFails \/ Crash => job' = NoJob
  BY DEF JobFails, Crash
<1>9. UNCHANGED job => job' = job
  OBVIOUS
<1> QED
  BY <1>1, <1>2, <1>3, <1>4, <1>5, <1>6, <1>7, <1>8, <1>9
     DEF Next, Arrival, CreatePendingBooking, CancelBooking, UnassignChauffeur,
         AssignChauffeur, Webhook, RequestStep, AttachPaymentIntent, ConfirmBooking,
         ConfirmRejected, ConfirmWriteRow, ConfirmWriteLeg, CancelWriteRow, PublishEvents,
         RequestFails, JobStep, Outside, CustomerPays, DispatchChauffeur, Tick

\* RedeliveryInv holds in every reachable state, with repeated deliveries or without.
THEOREM RedeliveryInvariant == Spec => []RepeatInv
<1>1. Init => RedeliveryInv
  BY DEF Init, RedeliveryInv, SlotRedelivery, JobRedelivery, Idle, NoJob, NoRow
<1>2. RepeatInv /\ [Next]_vars => RedeliveryInv'
  <2> SUFFICES ASSUME RepeatInv, [Next]_vars PROVE RedeliveryInv'
    OBVIOUS
  <2>1. CASE UNCHANGED vars
    BY <2>1 DEF vars, RepeatInv, RedeliveryInv
  <2>2. CASE Next
    <3>1. \A c, e \in charges' : c.ok /\ e.ok /\ c.booking = e.booking => c = e
      BY <2>2, OneCharge DEF RepeatInv, RedeliveryInv
    <3>2. \A b \in Bookings : db'[b].status # "COMPLETED"
      BY <2>2, RewritesStay DEF RepeatInv, RedeliveryInv
    <3> QED
      BY <2>2, <3>1, <3>2, LegsNeverActive, SlotsRepeat, CopiesRepeat DEF RedeliveryInv
  <2> QED
    BY <2>1, <2>2
<1> QED
  BY <1>1, <1>2, MoneyInvariant, NoticeInvariant, PTL DEF Spec, RepeatInv

\* The one payment of a booking: what a confirmation writes is what a settled row names.
LEMMA SamePayment ==
    ASSUME RepeatInv, NEW b \in Bookings, NEW r \in Requests, op[r].step = "confirmRow",
           op[r].b = b, Settled(charges, b, db[b])
    PROVE  op[r].payment = db[b].paymentId
<1>1. PICK c \in charges : c.ok /\ c.booking = b /\ c.id = op[r].payment
  BY DEF RepeatInv, RedeliveryInv, SlotRedelivery, TypeOK
<1>2. PICK e \in charges : e.ok /\ e.booking = b /\ e.id = db[b].paymentId
  BY DEF Settled, Bought
<1>3. c = e
  BY <1>1, <1>2 DEF RepeatInv, RedeliveryInv
<1> QED
  BY <1>1, <1>2, <1>3

\* With repeated deliveries a row leaves the table of booking-status.vo.ts in one way
\* only: the write of a confirmation that loaded the row before the first one wrote takes
\* a started or a cancelled booking back to CONFIRMED, for the payment it has already.
THEOREM RedeliveryOnly == Spec => OnlyRedeliveryReverts
<1> DEFINE Legal(b) == LET from == db[b].status to == db[b].status' IN
                       from # to => \/ from = "NONE" /\ to = "PENDING"
                                    \/ <<from, to>> \in BookingTransitions
           Reverts(b) ==
             LET from == db[b].status to == db[b].status' IN
             from # to => \/ from = "NONE" /\ to = "PENDING"
                          \/ <<from, to>> \in BookingTransitions
                          \/ /\ Duplicates
                             /\ from \in {"ACTIVE", "CANCELLED"} /\ to = "CONFIRMED"
                             /\ \E r \in Requests : /\ op[r].step = "confirmRow" /\ op[r].b = b
                                                  /\ op[r].payment = db[b].paymentId
                             /\ db[b].paymentId' = db[b].paymentId
<1>1. CASE Duplicates
  <2>1. RepeatInv /\ [Next]_vars => [\A b \in Bookings : Reverts(b)]_vars
    <3> SUFFICES ASSUME RepeatInv, Next, NEW b \in Bookings, db[b].status # db'[b].status
                 PROVE  Reverts(b)
      OBVIOUS
    <3>1. ASSUME NEW r \in Requests, op[r].step = "confirmRow", op[r].b = b,
                 db[b].status # "NONE",
                 db'[b].status = "CONFIRMED", db'[b].paymentId = op[r].payment
          PROVE  Reverts(b)
      <4>1. RowOK(charges, b, db[b]) /\ db[b].status # "COMPLETED"
        BY DEF RepeatInv, MoneyInv, RedeliveryInv
      <4>2. CASE Untouched(db[b])
        BY <3>1, <4>2 DEF Untouched, BookingTransitions
      <4>3. CASE Settled(charges, b, db[b])
        <5>1. op[r].payment = db[b].paymentId
          BY <3>1, <4>3, SamePayment
        <5>2. db[b].status \in {"ACTIVE", "CANCELLED"}
          BY <3>1, <4>1, <4>3 DEF Settled, PaidStatuses
        <5> QED
          BY <1>1, <3>1, <5>1, <5>2
      <4> QED
        BY <4>1, <4>2, <4>3 DEF RowOK
    <3> QED
      BY <3>1, RowRewrites DEF BookingTransitions
  <2> QED
    BY <2>1, RedeliveryInvariant, PTL DEF Spec, OnlyRedeliveryReverts
<1>2. CASE ~ Duplicates
  <2>1. Spec => [][\A b \in Bookings : Legal(b)]_vars
    BY <1>2, LegalWhenDeliveredOnce DEF LegalTransitions
  <2>2. [\A b \in Bookings : Legal(b)]_vars => [\A b \in Bookings : Reverts(b)]_vars
    OBVIOUS
  <2> QED
    BY <2>1, <2>2, PTL DEF OnlyRedeliveryReverts
<1> QED
  BY <1>1, <1>2

\* Nothing ever ends: since no leg is stored as ACTIVE, the active-to-completed job finds
\* no leg to end, and no booking becomes COMPLETED.
THEOREM NothingEnds == Spec => [](\A b \in Bookings : db[b].status # "COMPLETED")
<1>1. RepeatInv => \A b \in Bookings : db[b].status # "COMPLETED"
  BY DEF RepeatInv, RedeliveryInv
<1> QED
  BY <1>1, RedeliveryInvariant, PTL

-----------------------------------------------------------------------------
(* Stale copies and the chauffeur.                                          *)

\* What the proof starts from: RepeatInv says whose copies there are, and ProtocolInv that
\* a confirmation still to be written finds its booking pending.
DriverInv == RepeatInv /\ ProtocolInv /\ ChauffeurInv

\* Saving a copy writes the copy's chauffeur.
LEMMA SavedChauffeur ==
    ASSUME NEW old \in Row, NEW row \in Row
    PROVE  /\ SavedRow(old, row).chauffeurId = row.chauffeurId
           /\ SavedWithTransaction(old, row).chauffeurId = row.chauffeurId
BY DEF Row, SavedRow, SavedWithTransaction, Keep

\* Who changes the chauffeur of a row: whoever dispatches one to a booking that has none,
\* or the write of a cancellation, while the worker is idle.
LEMMA ChauffeurWriters ==
    ASSUME DriverInv, Next, NEW b \in Bookings
    PROVE  \/ db'[b].chauffeurId = db[b].chauffeurId
           \/ /\ db[b].chauffeurId = None /\ db[b].status \in {"CONFIRMED", "ACTIVE"}
              /\ db'[b].status = db[b].status
           \/ job.step = "idle" /\ db'[b].status = "CANCELLED"
<1> USE DEF DriverInv, RepeatInv, TypeOK
<1>1. ASSUME NEW r \in Requests, NEW a \in Bookings, CreatePendingBooking(r, a)
      PROVE  db'[b].chauffeurId = db[b].chauffeurId
  <2>1. CASE a = b
    <3>1. db[b].chauffeurId = None /\ db'[b].chauffeurId = None
      BY <1>1, <2>1 DEF CreatePendingBooking, NewBooking, NoRow, ChauffeurInv
    <3> QED
      BY <3>1
  <2>2. CASE a # b
    BY <1>1, <2>2 DEF CreatePendingBooking
  <2> QED
    BY <2>1, <2>2
<1>2. ASSUME NEW r \in Requests, ConfirmWriteRow(r), op[r].b = b
      PROVE  db'[b].chauffeurId = db[b].chauffeurId
  <2>1. op[r].step = "confirmRow" /\ op[r] \in Busy
    BY <1>2, BusySlot DEF ConfirmWriteRow
  <2>2. op[r].row \in Row /\ op[r].row.chauffeurId = None
    BY <2>1 DEF Busy, ChauffeurInv
  <2>3. db[b].status = "PENDING"
    BY <1>2, <2>1 DEF ProtocolInv, SlotProtocol
  <2>4. db[b].chauffeurId = None
    BY <2>3 DEF ChauffeurInv
  <2>5. db'[b] = SavedRow(db[b], op[r].row)
    BY <1>2 DEF ConfirmWriteRow
  <2> QED
    BY <2>2, <2>4, <2>5, SavedChauffeur
<1>3. ASSUME NEW r \in Requests, CancelWriteRow(r), op[r].b = b
      PROVE  job.step = "idle" /\ db'[b].status = "CANCELLED"
  <2>1. op[r].step = "cancelRow" /\ op[r] \in Busy
    BY <1>3, BusySlot DEF CancelWriteRow
  <2>2. op[r].row \in Row /\ op[r].row.status = "CANCELLED"
    BY <2>1 DEF Busy, RedeliveryInv, SlotRedelivery
  <2>3. db'[b] = SavedWithTransaction(db[b], op[r].row)
    BY <1>3 DEF CancelWriteRow
  <2> QED
    BY <2>1, <2>2, <2>3, SavedStatus, NoticeSeparates
<1>4. ASSUME NEW r \in Requests, ConfirmWriteRow(r) \/ CancelWriteRow(r), op[r].b # b
      PROVE  db'[b] = db[b]
  BY <1>4 DEF ConfirmWriteRow, CancelWriteRow
<1>5. CASE JobSave
  <2>1. CASE b \in Modified(job.processed)
    <3>1. PICK e \in job.processed : e[1] = b
      BY <2>1 DEF Modified
    <3>2. job.rows[b] \in Row /\ job.rows[b].chauffeurId = db[b].chauffeurId
      BY <1>5, <3>1 DEF JobSave, ChauffeurInv, Job
    <3>3. db'[b] = SavedWithTransaction(db[b], job.rows[b])
      BY <1>5, <2>1 DEF JobSave
    <3> QED
      BY <3>2, <3>3, SavedChauffeur
  <2>2. CASE b \notin Modified(job.processed)
    BY <1>5, <2>2 DEF JobSave
  <2> QED
    BY <2>1, <2>2
<1>6. ASSUME NEW a \in Bookings, NEW c \in Chauffeurs, DispatchChauffeur(a, c)
      PROVE  \/ db'[b].chauffeurId = db[b].chauffeurId
             \/ /\ db[b].chauffeurId = None /\ db[b].status \in {"CONFIRMED", "ACTIVE"}
                /\ db'[b].status = db[b].status
  BY <1>6 DEF DispatchChauffeur, Row
<1> QED
  BY <1>1, <1>2, <1>3, <1>4, <1>5, <1>6, RowWriters DEF WritesRows

\* While the worker is at work, whoever drives goes on driving.
LEMMA ChauffeurStaysAtWork ==
    ASSUME DriverInv, Next, NEW b \in Bookings, job.step # "idle", db[b].chauffeurId # None
    PROVE  db'[b].chauffeurId = db[b].chauffeurId
BY ChauffeurWriters

\* A booking that is not confirmed has no chauffeur.
LEMMA UnconfirmedUndriven ==
    ASSUME DriverInv, Next, NEW b \in Bookings, db'[b].status \in {"NONE", "PENDING"}
    PROVE  db'[b].chauffeurId = None
<1>1. db[b].status \in {"NONE", "PENDING"}
  BY RowRewrites DEF DriverInv
<1>2. db[b].chauffeurId = None
  BY <1>1 DEF DriverInv, ChauffeurInv
<1> QED
  BY <1>1, <1>2, ChauffeurWriters

\* A confirmation is made from a pending row.
LEMMA ConfirmationsUndriven ==
    ASSUME DriverInv, Next, NEW r \in Requests, op'[r].step = "confirmRow"
    PROVE  op'[r].row.chauffeurId = None
<1> USE DEF DriverInv, RepeatInv, TypeOK
<1>1. CASE op'[r] = op[r]
  BY <1>1 DEF ChauffeurInv
<1>2. ASSUME ConfirmBooking(r), op'[r].row = ConfirmWithPayment(db[op[r].b], op[r].payment)
      PROVE  op'[r].row.chauffeurId = None
  <2>1. op[r].b \in Bookings /\ db[op[r].b].status = "PENDING"
    BY <1>2, BusySlot DEF ConfirmBooking, Busy
  <2>2. db[op[r].b] \in Row /\ db[op[r].b].chauffeurId = None
    BY <2>1 DEF ChauffeurInv
  <2> QED
    BY <1>2, <2>2 DEF ConfirmWithPayment, Row
<1> QED
  BY <1>1, <1>2, SlotMoves

\* What the worker holds after a step.
LEMMA WorkerDrives ==
    ASSUME DriverInv, Next
    PROVE  /\ job'.step # "idle" => \A e \in job'.due : db'[e[1]].chauffeurId # None
           /\ job'.step = "loaded" => \A e \in job'.processed :
                 job'.rows[e[1]].chauffeurId = db'[e[1]].chauffeurId
<1> USE DEF DriverInv, RepeatInv, TypeOK
<1> DEFINE Good == /\ job'.step # "idle" => \A e \in job'.due : db'[e[1]].chauffeurId # None
                   /\ job'.step = "loaded" => \A e \in job'.processed :
                         job'.rows[e[1]].chauffeurId = db'[e[1]].chauffeurId
<1>0. ASSUME job.step # "idle", NEW e \in job.due
      PROVE  e[1] \in Bookings /\ db[e[1]].chauffeurId # None
             /\ db'[e[1]].chauffeurId = db[e[1]].chauffeurId
  BY <1>0, ChauffeurStaysAtWork DEF ChauffeurInv, Job
<1>1. CASE job' = NoJob
  BY <1>1 DEF NoJob
<1>2. ASSUME job.step # "idle", job'.due = job.due, job'.step # "loaded" PROVE Good
  BY <1>0, <1>2
<1>3. CASE job' = job
  <2>1. ASSUME job.step = "loaded", NEW e \in job.processed
        PROVE  job.rows[e[1]].chauffeurId = db'[e[1]].chauffeurId
    <3>1. e \in job.due
      BY <2>1 DEF NoticeInv, JobNotice
    <3> QED
      BY <1>0, <2>1, <3>1 DEF ChauffeurInv
  <2> QED
    BY <1>0, <1>3, <2>1
<1>4. CASE JobLoad
  <2> DEFINE rows == [b \in Bookings |->
                        IF b \notin Modified(Processed) THEN NoRow
                        ELSE IF job.kind = "activate" THEN ActivateLeg(db[b])
                             ELSE CompleteLeg(db[b])]
  <2>1. /\ job'.processed = Processed /\ job'.rows = rows /\ job'.due = job.due
        /\ db' = db /\ job.step = "queried"
    BY <1>4 DEF JobLoad, Job
  <2>2. ASSUME NEW e \in Processed PROVE rows[e[1]].chauffeurId = db[e[1]].chauffeurId
    <3>1. e[1] \in Bookings /\ e[1] \in Modified(Processed)
      BY DEF Processed, Job, Modified
    <3>2. rows[e[1]] \in {ActivateLeg(db[e[1]]), CompleteLeg(db[e[1]])}
      BY <3>1
    <3>3. db[e[1]] \in Row
      BY <3>1
    <3> HIDE DEF rows
    <3> QED
      BY <3>2, <3>3 DEF ActivateLeg, CompleteLeg, Row
  <2> HIDE DEF rows
  <2> QED
    BY <1>0, <2>1, <2>2
<1>5. CASE JobSave
  <2>1. job' = NoJob \/ (job.step # "idle" /\ job'.due = job.due /\ job'.step = "publish")
    BY <1>5 DEF JobSave, Job
  <2> QED
    BY <1>1, <1>2, <2>1
<1>6. ASSUME NEW d \in job.processed, JobPublish(d) PROVE Good
  <2>1. job' = NoJob \/ (job.step # "idle" /\ job'.due = job.due /\ job'.step = "publish")
    BY <1>6 DEF JobPublish, Job
  <2> QED
    BY <1>1, <1>2, <2>1
<1>7. ASSUME NEW kind \in Kinds, NEW booked \in SUBSET Bookings, JobQuery(kind, booked)
      PROVE  Good
  <2>1. job'.step = "queried" /\ job'.due = LegsDue(kind, booked) /\ db' = db
    BY <1>7 DEF JobQuery, NoJob
  <2>2. ASSUME NEW e \in LegsDue(kind, booked) PROVE db[e[1]].chauffeurId # None
    <3>1. e[1] \in Bookings /\ e[2] \in Legs
      BY DEF LegsDue
    <3>2. legStatus[e[1]][e[2]] # "ACTIVE"
      BY <3>1 DEF RedeliveryInv
    <3> QED
      BY <3>2 DEF LegsDue
  <2> QED
    BY <2>1, <2>2
<1>8. JobFails \/ Crash => job' = NoJob
  BY DEF JobFails, Crash
<1> QED
  BY <1>1, <1>3, <1>4, <1>5, <1>6, <1>7, <1>8
     DEF Next, Arrival, CreatePendingBooking, CancelBooking, UnassignChauffeur,
         AssignChauffeur, Webhook, RequestStep, AttachPaymentIntent, ConfirmBooking,
         ConfirmRejected, ConfirmWriteRow, ConfirmWriteLeg, CancelWriteRow, PublishEvents,
         RequestFails, JobStep, Outside, CustomerPays, DispatchChauffeur, Tick

\* ChauffeurInv holds in every reachable state, as long as the provider delivers each webhook
\* once: a confirmation delivered again would write its null chauffeur over a driven row.
THEOREM ChauffeurInvariant ==
    ASSUME ~ Duplicates
    PROVE  Spec => []DriverInv
<1>1. Init => ChauffeurInv
  BY DEF Init, ChauffeurInv, Idle, NoJob, NoRow
<1>2. DriverInv /\ [Next]_vars => ChauffeurInv'
  <2> SUFFICES ASSUME DriverInv, [Next]_vars PROVE ChauffeurInv'
    OBVIOUS
  <2>1. CASE UNCHANGED vars
    BY <2>1 DEF vars, DriverInv, ChauffeurInv
  <2>2. CASE Next
    BY <2>2, UnconfirmedUndriven, ConfirmationsUndriven, WorkerDrives DEF ChauffeurInv
  <2> QED
    BY <2>1, <2>2
<1>3. Spec => []ProtocolInv
  <2>1. AllInv => ProtocolInv
    BY DEF AllInv
  <2> QED
    BY <2>1, ProtocolInvariant, PTL
<1> QED
  BY <1>1, <1>2, <1>3, RedeliveryInvariant, PTL DEF Spec, DriverInv

\* While each webhook is delivered once, a dispatched chauffeur is lost to no stale copy but
\* that of a cancellation, although every save writes the chauffeur its copy has.
THEOREM ChauffeurStays ==
    ASSUME ~ Duplicates
    PROVE  Spec => ChauffeurIsKept
<1>1. DriverInv /\ [Next]_vars =>
        [\A b \in Bookings : db[b].chauffeurId # None /\ db[b].status' # "CANCELLED"
                               => db[b].chauffeurId' = db[b].chauffeurId]_vars
  <2> SUFFICES ASSUME DriverInv, Next, NEW b \in Bookings,
                      db[b].chauffeurId # None, db'[b].status # "CANCELLED"
               PROVE  db'[b].chauffeurId = db[b].chauffeurId
    OBVIOUS
  <2> QED
    BY ChauffeurWriters
<1> QED
  BY <1>1, ChauffeurInvariant, PTL DEF Spec, ChauffeurIsKept
=============================================================================
