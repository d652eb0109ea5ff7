---------------------------- MODULE PayoutProofs -----------------------------
(***************************************************************************)
(* Proofs about Payout for every value of its constants: any number of      *)
(* payouts, concurrent calls and workers, with failures or without.         *)
(***************************************************************************)
EXTENDS Payout, TLAPS

-----------------------------------------------------------------------------
(* The inductive invariant: what is known of the copies of payouts that     *)
(* requests and workers hold.                                               *)

\* A copy of a stored payout: the row is there, for the same subject.
Stored(p) == Exists(p.id) /\ rows[p.id].subject = p.subject

\* The gateway made the transfer p refers to.
Backed(p) == \E t \in transfers : t.payout = p.id /\ t.id = p.ref

\* An answer of the gateway for a payout.
Answer(p) ==
    /\ p \in PayoutRec
    /\ Stored(p)
    /\ \/ p.status = "FAILED"
       \/ p.status = "PROCESSING" /\ p.ref # Undefined /\ Backed(p)

SlotOK(r) ==
    LET o == op[r] IN
    /\ o.step \in {"idle", "check"} => o.payout = NoRow
    /\ o.step # "idle" => o.subject \in Subjects
    /\ o.step \in {"insert", "transfer", "retry"} =>
         o.payout \in PayoutRec /\ o.payout.status = "PENDING_DISBURSEMENT"
    /\ o.step = "insert" => ~Exists(o.payout.id)
    /\ o.step \in {"transfer", "retry"} => Stored(o.payout)
    /\ o.step = "store" => Answer(o.payout)

JobOK(w) ==
    /\ \A q \in job[w].queue :
         q \in Row /\ q.status = "PENDING_DISBURSEMENT" /\ Stored(q)
    /\ \A q1, q2 \in job[w].queue : q1.id = q2.id => q1 = q2
    /\ job[w].answered # NoRow => Answer(job[w].answered)

RowIds == \A p \in PayoutIds : Exists(p) => rows[p].id = p

\* Requests that make payouts do not share ids.
OwnIds ==
    \A r1, r2 \in Requests :
        r1 # r2 /\ op[r1].step \in {"insert", "transfer", "store"}
                /\ op[r2].step \in {"insert", "transfer", "store"}
            => op[r1].payout.id # op[r2].payout.id

Slots == \A r \in Requests : SlotOK(r)
Jobs == \A w \in Workers : JobOK(w)
Copies == Slots /\ Jobs /\ PaidIsStored /\ RowIds /\ OwnIds

-----------------------------------------------------------------------------
(* The second part of it, for a payout without an excuse: nobody else pays  *)
(* what somebody pays, and nobody pays what is paid.                        *)

Pays(r, p) == op[r].step \in {"transfer", "store"} /\ op[r].payout.id = p
Queued(w, p) == \E q \in job[w].queue : q.id = p
Has(w, p) == job[w].answered.id = p \/ Queued(w, p)

\* One payer at a time (OwnIds says it of two requests).
SolePayer(p) ==
    /\ \A r \in Requests, w \in Workers : Pays(r, p) => ~Has(w, p)
    /\ \A w1, w2 \in Workers : Has(w1, p) /\ Has(w2, p) => w1 = w2
    /\ \A w \in Workers : Queued(w, p) => job[w].answered.id # p

\* Before it is tried, and after a refusal, no money has gone out for it.
NoMoney(p) == \A t \in transfers : t.payout # p
Unpaid(p) ==
    /\ \A r \in Requests :
         Pays(r, p) /\ op[r].payout.status # "PROCESSING" => NoMoney(p)
    /\ \A w \in Workers :
         Queued(w, p) \/ (job[w].answered.id = p /\ job[w].answered.status = "FAILED")
            => NoMoney(p)

\* What TransfersAccounted says of one payout.
Accounted(p) ==
    \A t \in transfers :
        t.payout = p =>
            /\ \A u \in transfers : u.payout = p => u = t
            /\ \/ Holding(t)
               \/ rows[p].status = "PROCESSING" /\ rows[p].ref = t.id

Clean(p) == SolePayer(p) /\ Unpaid(p) /\ Accounted(p)
Ledger == \A p \in PayoutIds : p \notin excuses => Clean(p)

-----------------------------------------------------------------------------
(* Values.                                                                  *)

\* NoRow is not a payout: none of its fields is one of a payout's.
LEMMA NoRowFacts ==
    /\ NoRow \notin PayoutRec /\ NoRow \notin Row
    /\ NoRow.id \notin PayoutIds /\ NoRow.status = "NONE"
    /\ NoRow.ref = None /\ NoRow.subject = None
BY ValueAssumption DEF NoRow, PayoutRec, Row, PayoutStatus

\* What the table holds is a payout that can be held in memory.
LEMMA RowIsPayout == Row \subseteq PayoutRec
BY DEF Row, PayoutRec

\* What the entity's methods make of a payout.
LEMMA EntityTypes ==
    /\ \A p \in PayoutIds, s \in Subjects :
         Create(p, s) \in PayoutRec /\ Create(p, s).id = p /\ Create(p, s).subject = s
           /\ Create(p, s).status = "PENDING_DISBURSEMENT"
    /\ \A p \in PayoutRec :
         /\ Retry(p) \in PayoutRec /\ Retry(p).id = p.id /\ Retry(p).subject = p.subject
         /\ Retry(p).status = "PENDING_DISBURSEMENT"
         /\ MarkAsFailed(p) \in PayoutRec /\ MarkAsFailed(p).id = p.id
         /\ MarkAsFailed(p).subject = p.subject /\ MarkAsFailed(p).status = "FAILED"
         /\ \A t \in TransferIds :
              /\ Initiate(p, t) \in PayoutRec /\ Initiate(p, t).id = p.id
              /\ Initiate(p, t).subject = p.subject /\ Initiate(p, t).ref = t
              /\ Initiate(p, t).status = "PROCESSING"
BY DEF Create, Retry, MarkAsFailed, Initiate, PayoutRec, PayoutStatus

\* An answer of the gateway: a refusal, a transfer, or a transfer nobody hears of.
LEMMA OutcomeFacts ==
    ASSUME NEW p \in PayoutRec, NEW o \in Outcomes(p), transfers \subseteq Transfer
    PROVE  /\ o.answer \in PayoutRec /\ o.answer.id = p.id /\ o.answer.subject = p.subject
           /\ \/ /\ o.paid = {} /\ o.unanswered = FALSE /\ o.answer.status = "FAILED"
              \/ /\ o.unanswered = FALSE /\ o.answer.status = "PROCESSING"
                 /\ o.answer.ref \in TransferIds
                 /\ o.paid = {[id |-> o.answer.ref, payout |-> p.id]}
              \/ /\ o.unanswered = TRUE /\ o.answer.status = "FAILED"
                 /\ \E t \in TransferIds : o.paid = {[id |-> t, payout |-> p.id]}
BY EntityTypes DEF Outcomes

\* save() changes one row, to the payout it was given.
LEMMA SaveFacts ==
    ASSUME TypeOK, NEW p \in PayoutRec, Save(p)
    PROVE  /\ rows' \in [PayoutIds -> Row \cup {NoRow}]
           /\ rows'[p.id] \in Row /\ rows'[p.id].id = p.id
           /\ rows'[p.id].subject = p.subject /\ rows'[p.id].status = p.status
           /\ p.ref # Undefined => rows'[p.id].ref = p.ref
           /\ \A q \in PayoutIds : q # p.id => rows'[q] = rows[q]
<1>1. rows[p.id].ref \in TransferIds \cup {None}
  BY DEF TypeOK, PayoutRec, Row, NoRow
<1>2. Saved(p) \in Row /\ Saved(p).id = p.id /\ Saved(p).subject = p.subject
        /\ Saved(p).status = p.status /\ (p.ref # Undefined => Saved(p).ref = p.ref)
  BY <1>1 DEF Saved, PayoutRec, Row
<1> QED
  BY <1>2 DEF Save, TypeOK, PayoutRec

-----------------------------------------------------------------------------
(* Type correctness and the facts about copies.                             *)

\* Rows are never dropped nor given to another subject, transfers never undone.
Grows ==
    /\ \A q \in PayoutIds : Exists(q) => Exists(q)' /\ rows'[q].subject = rows[q].subject
    /\ transfers \subseteq transfers'

\* So what is known of a copy stays known.
LEMMA GrowsKeeps ==
    ASSUME Grows, NEW p \in PayoutRec
    PROVE  (Stored(p) => Stored(p)') /\ (Answer(p) => Answer(p)')
<1>1. Stored(p) => Stored(p)'
  BY DEF Grows, Stored, PayoutRec
<1>2. Backed(p) => Backed(p)'
  BY DEF Grows, Backed
<1> QED
  BY <1>1, <1>2 DEF Answer

\* A slot nobody writes keeps its facts while the tables grow.
LEMMA OtherSlotKept ==
    ASSUME Grows, NEW r \in Requests, SlotOK(r), op'[r] = op[r],
           op[r].step = "insert" => ~Exists(op[r].payout.id)'
    PROVE  SlotOK(r)'
<1>1. op[r].step \in {"transfer", "retry"} => Stored(op[r].payout)'
  BY GrowsKeeps DEF SlotOK
<1>2. op[r].step = "store" => Answer(op[r].payout)'
  BY GrowsKeeps DEF SlotOK, Answer
<1> QED
  BY <1>1, <1>2 DEF SlotOK, Stored, Answer, Backed, Exists

\* So does a job nobody writes.
LEMMA JobKept ==
    ASSUME Grows, NEW w \in Workers, JobOK(w), job'[w] = job[w]
    PROVE  JobOK(w)'
<1>1. \A q \in job[w].queue : Stored(q)'
  BY GrowsKeeps, RowIsPayout DEF JobOK
<1>2. job[w].answered # NoRow => Answer(job[w].answered)'
  BY GrowsKeeps DEF JobOK, Answer
<1> QED
  BY <1>1, <1>2 DEF JobOK, Stored, Answer, Backed, Exists

\* Storing a copy of a stored payout.
LEMMA SaveGrows ==
    ASSUME TypeOK, PaidIsStored, RowIds, NEW p \in PayoutRec, Stored(p), Save(p),
           transfers' = transfers
    PROVE  /\ Grows /\ PaidIsStored' /\ RowIds'
           /\ \A q \in PayoutIds : ~Exists(q) => ~Exists(q)'
<1>1. /\ p.id \in PayoutIds /\ rows'[p.id] \in Row /\ rows'[p.id].id = p.id
      /\ rows'[p.id].subject = p.subject
      /\ \A q \in PayoutIds : q # p.id => rows'[q] = rows[q]
  BY SaveFacts DEF PayoutRec
<1>2. rows'[p.id].status # "NONE"
  BY <1>1 DEF Row, PayoutStatus
<1>3. Grows
  BY <1>1, <1>2 DEF Grows, Stored, Exists
<1>4. \A t \in transfers : t.payout \in PayoutIds
  BY DEF TypeOK, Transfer
<1> QED
  BY <1>1, <1>2, <1>3, <1>4 DEF PaidIsStored, RowIds, Stored, Exists, Grows

\* Writing the slot of one request.
LEMMA SlotsKept ==
    ASSUME Slots, Grows, NEW r \in Requests, SlotOK(r)',
           \A r0 \in Requests \ {r} : op'[r0] = op[r0],
           \A r0 \in Requests \ {r} :
              op[r0].step = "insert" => ~Exists(op[r0].payout.id)'
    PROVE  Slots'
<1> SUFFICES ASSUME NEW r0 \in Requests \ {r} PROVE SlotOK(r0)'
  BY DEF Slots
<1> QED
  BY OtherSlotKept DEF Slots

\* Nothing is written to the tables.
LEMMA UnchangedGrows ==
    ASSUME UNCHANGED <<rows, transfers>>
    PROVE  /\ Grows /\ (PaidIsStored => PaidIsStored') /\ (RowIds => RowIds')
           /\ \A q \in PayoutIds : ~Exists(q) => ~Exists(q)'
BY DEF Grows, PaidIsStored, RowIds, Exists

\* A slot that holds nothing.
LEMMA ReleaseCopies ==
    ASSUME TypeOK, Copies, NEW r \in Requests, UNCHANGED <<rows, transfers, job>>,
           op' = [op EXCEPT ![r] = Idle], excuses' \subseteq PayoutIds
    PROVE  TypeOK' /\ Copies'
<1>1. Grows /\ PaidIsStored' /\ RowIds' /\ \A q \in PayoutIds : ~Exists(q) => ~Exists(q)'
  BY UnchangedGrows DEF Copies
<1>2. op'[r] = Idle /\ \A r0 \in Requests \ {r} : op'[r0] = op[r0]
  BY DEF TypeOK
<1>3. Idle \in Slot /\ Idle.step = "idle" /\ Idle.payout = NoRow
  BY DEF Idle, Slot, Steps
<1>4. TypeOK'
  BY <1>3 DEF TypeOK
<1>5. SlotOK(r)'
  BY <1>2, <1>3 DEF SlotOK
<1>6. \A r0 \in Requests \ {r} : op[r0].step = "insert" => ~Exists(op[r0].payout.id)'
  BY <1>1 DEF Copies, Slots, SlotOK, PayoutRec
<1>7. Slots'
  BY <1>1, <1>2, <1>5, <1>6, SlotsKept DEF Copies
<1>8. Jobs'
  BY <1>1, JobKept DEF Copies, Jobs
<1>9. OwnIds'
  BY <1>2, <1>3 DEF Copies, OwnIds
<1> QED
  BY <1>1, <1>4, <1>7, <1>8, <1>9 DEF Copies

\* A slot that moves on without touching the tables.
LEMMA MoveCopies ==
    ASSUME TypeOK, Copies, NEW r \in Requests, UNCHANGED <<rows, transfers, job, excuses>>,
           NEW o \in Slot, op' = [op EXCEPT ![r] = o], SlotOK(r)',
           o.step \in {"insert", "transfer", "store"} =>
              \A r0 \in Requests \ {r} : op[r0].payout.id # o.payout.id
    PROVE  TypeOK' /\ Copies'
<1>1. Grows /\ PaidIsStored' /\ RowIds' /\ \A q \in PayoutIds : ~Exists(q) => ~Exists(q)'
  BY UnchangedGrows DEF Copies
<1>2. op'[r] = o /\ \A r0 \in Requests \ {r} : op'[r0] = op[r0]
  BY DEF TypeOK
<1>3. TypeOK'
  BY DEF TypeOK
<1>4. \A r0 \in Requests \ {r} : op[r0].step = "insert" => ~Exists(op[r0].payout.id)'
  BY <1>1 DEF Copies, Slots, SlotOK, PayoutRec
<1>5. Slots'
  BY <1>1, <1>2, <1>4, SlotsKept DEF Copies
<1>6. Jobs'
  BY <1>1, JobKept DEF Copies, Jobs
<1>7. OwnIds'
  BY <1>2 DEF Copies, OwnIds
<1> QED
  BY <1>1, <1>3, <1>5, <1>6, <1>7 DEF Copies

\* A call of initiatePayout starts holding nothing.
LEMMA InitiateCopies ==
    ASSUME TypeOK, Copies, NEW r \in Requests, NEW s \in Subjects, InitiatePayout(r, s)
    PROVE  TypeOK' /\ Copies'
<1> DEFINE o == [Idle EXCEPT !.step = "check", !.subject = s]
<1>1. o \in Slot /\ o.step = "check" /\ o.payout = NoRow /\ o.subject = s
  BY DEF Idle, Slot, Steps
<1>2. op' = [op EXCEPT ![r] = o] /\ op'[r] = o
  BY DEF InitiatePayout, TypeOK
<1>3. SlotOK(r)'
  BY <1>1, <1>2 DEF SlotOK
<1> QED
  BY <1>1, <1>2, <1>3, MoveCopies DEF InitiatePayout

\* The payout createPayout makes is new: no row and no other call has its id.
LEMMA CheckExistingCopies ==
    ASSUME TypeOK, Copies, NEW r \in Requests, CheckExisting(r)
    PROVE  TypeOK' /\ Copies'
<1>1. op[r].subject \in Subjects
  BY DEF Copies, Slots, SlotOK, CheckExisting
<1>2. PICK p \in PayoutIds :
        FreshId(p) /\ op' = [op EXCEPT ![r].step = "insert",
                                       ![r].payout = Create(p, op[r].subject)]
  BY DEF CheckExisting
<1> DEFINE o == [op[r] EXCEPT !.step = "insert", !.payout = Create(p, op[r].subject)]
<1>3. /\ Create(p, op[r].subject) \in PayoutRec
      /\ Create(p, op[r].subject).id = p
      /\ Create(p, op[r].subject).status = "PENDING_DISBURSEMENT"
  BY <1>1, EntityTypes
<1>4. /\ o \in Slot /\ o.step = "insert" /\ o.subject \in Subjects
      /\ o.payout = Create(p, op[r].subject)
  BY <1>1, <1>3 DEF TypeOK, Slot, Steps
<1>5. op' = [op EXCEPT ![r] = o] /\ op'[r] = o
  BY <1>2 DEF TypeOK
<1>6. ~Exists(p) /\ \A r0 \in Requests : op[r0].payout.id # p
  BY <1>2 DEF FreshId
<1>7. ~Exists(p)'
  BY <1>6 DEF CheckExisting, Exists
<1>8. SlotOK(r)'
  BY <1>3, <1>4, <1>5, <1>7 DEF SlotOK
<1>9. UNCHANGED <<rows, transfers, job, excuses>>
  BY DEF CheckExisting
<1>10. \A r0 \in Requests \ {r} : op[r0].payout.id # o.payout.id
  BY <1>3, <1>4, <1>6
<1> HIDE DEF o
<1> QED
  BY <1>4, <1>5, <1>8, <1>9, <1>10, MoveCopies

\* A retry holds a copy of the failed row, pending again.
LEMMA RetryCopies ==
    ASSUME TypeOK, Copies, NEW r \in Requests, NEW p \in PayoutIds, RetryFailedPayout(r, p)
    PROVE  TypeOK' /\ Copies'
<1>1. rows[p] \in Row /\ Exists(p) /\ rows[p].id = p
  BY NoRowFacts DEF RetryFailedPayout, TypeOK, Copies, RowIds, Exists
<1>2. rows[p] \in PayoutRec
  BY <1>1, RowIsPayout
<1>3. /\ Retry(rows[p]) \in PayoutRec /\ Retry(rows[p]).id = p
      /\ Retry(rows[p]).subject = rows[p].subject
      /\ Retry(rows[p]).status = "PENDING_DISBURSEMENT"
  BY <1>1, <1>2, EntityTypes
<1> DEFINE o == [step |-> "retry", subject |-> rows[p].subject, payout |-> Retry(rows[p])]
<1>4. o \in Slot /\ rows[p].subject \in Subjects
  BY <1>1, <1>3 DEF Slot, Steps, Row
<1>5. op' = [op EXCEPT ![r] = o] /\ op'[r] = o
  BY DEF RetryFailedPayout, TypeOK
<1>6. rows' = rows /\ UNCHANGED <<rows, transfers, job, excuses>>
  BY DEF RetryFailedPayout
<1>7. Stored(Retry(rows[p]))
  BY <1>1, <1>3 DEF Stored, Exists
<1>8. op'[r].step = "retry" /\ op'[r].subject \in Subjects /\ op'[r].payout = Retry(rows[p])
  BY <1>4, <1>5
<1>9. SlotOK(r)'
  BY <1>3, <1>6, <1>7, <1>8 DEF SlotOK, Stored, Exists
<1>10. o.step = "retry"
  OBVIOUS
<1> HIDE DEF o
<1> QED
  BY <1>4, <1>5, <1>6, <1>9, <1>10, MoveCopies

\* Refused requests and those that fail.
LEMMA EndCopies ==
    ASSUME TypeOK, Copies, NEW r \in Requests,
           CheckRefused(r) \/ InsertRefused(r) \/ RequestFails(r)
    PROVE  TypeOK' /\ Copies'
<1>1. Forgotten({r}, {}) \subseteq PayoutIds
  BY DEF Forgotten, Copies, Slots, SlotOK, Answer, PayoutRec
<1>2. excuses' \subseteq PayoutIds
  BY <1>1 DEF CheckRefused, InsertRefused, RequestFails, TypeOK
<1> QED
  BY <1>2, ReleaseCopies DEF CheckRefused, InsertRefused, RequestFails

\* The insert gives the new payout a row and no row to another call.
LEMMA InsertCopies ==
    ASSUME TypeOK, Copies, NEW r \in Requests, InsertRow(r)
    PROVE  TypeOK' /\ Copies'
<1> DEFINE p == op[r].payout
           o == [op[r] EXCEPT !.step = "transfer"]
<1>1. /\ p \in PayoutRec /\ p.id \in PayoutIds /\ p.status = "PENDING_DISBURSEMENT"
      /\ ~Exists(p.id) /\ op[r].subject \in Subjects /\ op[r].step = "insert"
  BY DEF Copies, Slots, SlotOK, InsertRow, PayoutRec
<1>2. /\ op' = [op EXCEPT ![r] = o] /\ o \in Slot
      /\ op'[r] = o /\ o.step = "transfer" /\ o.payout = p /\ o.subject = op[r].subject
      /\ UNCHANGED <<transfers, job, excuses>> /\ Save(p)
  BY DEF InsertRow, TypeOK, Slot, Steps
<1> HIDE DEF p, o
<1>3. /\ rows' \in [PayoutIds -> Row \cup {NoRow}] /\ rows'[p.id].status # "NONE"
      /\ rows'[p.id].id = p.id /\ rows'[p.id].subject = p.subject
      /\ \A q \in PayoutIds : q # p.id => rows'[q] = rows[q]
  BY <1>1, <1>2, SaveFacts
<1>4. Grows
  BY <1>1, <1>2, <1>3 DEF Grows, Exists
<1>5. TypeOK'
  BY <1>2, <1>3 DEF TypeOK
<1>6. PaidIsStored' /\ RowIds'
  BY <1>2, <1>3 DEF Copies, PaidIsStored, RowIds, Exists, TypeOK, Transfer
<1>7. \A r0 \in Requests \ {r} : op'[r0] = op[r0]
  BY <1>2 DEF TypeOK
<1>8. ASSUME NEW r0 \in Requests \ {r}, op[r0].step = "insert"
      PROVE  ~Exists(op[r0].payout.id)'
  <2>1. /\ op[r0].payout \in PayoutRec /\ ~Exists(op[r0].payout.id)
        /\ op[r0].payout.id # op[r].payout.id
    BY <1>1, <1>8 DEF Copies, Slots, SlotOK, OwnIds
  <2> QED
    BY <1>3, <1>7, <2>1 DEF Exists, PayoutRec, p
<1>9. SlotOK(r)'
  BY <1>1, <1>2, <1>3 DEF SlotOK, Stored, Exists
<1>10. Slots'
  BY <1>4, <1>7, <1>8, <1>9, SlotsKept DEF Copies
<1>11. Jobs'
  BY <1>2, <1>4, JobKept DEF Copies, Jobs
<1>12. OwnIds'
  BY <1>1, <1>2, <1>7 DEF Copies, OwnIds, p
<1> QED
  BY <1>5, <1>6, <1>10, <1>11, <1>12 DEF Copies

\* What a request or a worker holds once the gateway has answered.
LEMMA AnswerOK ==
    ASSUME TypeOK, PaidIsStored, RowIds, NEW p \in PayoutRec, Stored(p),
           NEW o \in Outcomes(p), rows' = rows, transfers' = transfers \cup o.paid
    PROVE  /\ Grows /\ PaidIsStored' /\ RowIds' /\ transfers' \subseteq Transfer
           /\ o.answer \in PayoutRec /\ o.answer.id = p.id /\ Answer(o.answer)'
           /\ \A q \in PayoutIds : ~Exists(q) => ~Exists(q)'
<1>1. transfers \subseteq Transfer
  BY DEF TypeOK
<1>2. /\ o.answer \in PayoutRec /\ o.answer.id = p.id /\ o.answer.subject = p.subject
      /\ \/ o.paid = {} /\ o.answer.status = "FAILED"
         \/ /\ o.answer.status = "PROCESSING" /\ o.answer.ref \in TransferIds
            /\ o.paid = {[id |-> o.answer.ref, payout |-> p.id]}
         \/ /\ o.answer.status = "FAILED"
            /\ \E t \in TransferIds : o.paid = {[id |-> t, payout |-> p.id]}
  BY <1>1, OutcomeFacts
<1>3. p.id \in PayoutIds /\ Exists(p.id)
  BY DEF PayoutRec, Stored
<1>4. o.paid \subseteq Transfer /\ \A t \in o.paid : t.payout = p.id
  BY <1>2, <1>3 DEF Transfer
<1>5. Grows /\ PaidIsStored' /\ RowIds' /\ transfers' \subseteq Transfer
  BY <1>1, <1>3, <1>4 DEF Grows, PaidIsStored, RowIds, Exists
<1>6. Stored(o.answer)'
  BY <1>2 DEF Stored, Exists
<1>7. CASE o.answer.status = "FAILED"
  BY <1>2, <1>5, <1>6, <1>7 DEF Answer, Exists
<1>8. CASE o.answer.status = "PROCESSING" /\ o.answer.ref \in TransferIds
           /\ o.paid = {[id |-> o.answer.ref, payout |-> p.id]}
  <2>1. [id |-> o.answer.ref, payout |-> p.id] \in transfers'
    BY <1>8
  <2>2. Backed(o.answer)'
    BY <1>2, <2>1 DEF Backed
  <2>3. o.answer.ref # Undefined
    BY <1>8, ValueAssumption
  <2> QED
    BY <1>2, <1>5, <1>6, <1>8, <2>2, <2>3 DEF Answer, Exists
<1> QED
  BY <1>2, <1>7, <1>8

\* Once the gateway has answered, a request holds its answer.
LEMMA TransferCopies ==
    ASSUME TypeOK, Copies, NEW r \in Requests, RequestTransfer(r)
    PROVE  TypeOK' /\ Copies'
<1> DEFINE p == op[r].payout
<1>1. p \in PayoutRec /\ p.id \in PayoutIds /\ Stored(p) /\ op[r].subject \in Subjects
        /\ op[r].step = "transfer"
  BY DEF Copies, Slots, SlotOK, RequestTransfer, PayoutRec
<1>2. PICK out \in Outcomes(p) :
        /\ transfers' = transfers \cup out.paid
        /\ op' = [op EXCEPT ![r].step = "store", ![r].payout = out.answer]
        /\ excuses' = excuses \cup IF out.unanswered THEN {p.id} ELSE {}
  BY DEF RequestTransfer
<1>3. rows' = rows /\ job' = job
  BY DEF RequestTransfer
<1>4. /\ Grows /\ PaidIsStored' /\ RowIds' /\ transfers' \subseteq Transfer
      /\ out.answer \in PayoutRec /\ out.answer.id = p.id /\ Answer(out.answer)'
      /\ \A q \in PayoutIds : ~Exists(q) => ~Exists(q)'
  BY <1>1, <1>2, <1>3, AnswerOK DEF Copies
<1>5. /\ op'[r].step = "store" /\ op'[r].payout = out.answer
      /\ op'[r].subject = op[r].subject
      /\ op' \in [Requests -> Slot]
      /\ \A r0 \in Requests \ {r} : op'[r0] = op[r0]
  BY <1>2, <1>4 DEF TypeOK, Slot, Steps
<1>6. TypeOK'
  BY <1>1, <1>2, <1>3, <1>4, <1>5 DEF TypeOK
<1>7. SlotOK(r)'
  BY <1>1, <1>4, <1>5 DEF SlotOK, Answer, Stored, Backed, Exists
<1>8. \A r0 \in Requests \ {r} : op[r0].step = "insert" => ~Exists(op[r0].payout.id)'
  BY <1>4, <1>5 DEF Copies, Slots, SlotOK, PayoutRec, Exists
<1>9. Slots'
  BY <1>4, <1>5, <1>7, <1>8, SlotsKept DEF Copies
<1>10. Jobs'
  BY <1>3, <1>4, JobKept DEF Copies, Jobs
<1>11. OwnIds'
  BY <1>1, <1>4, <1>5 DEF Copies, OwnIds
<1> QED
  BY <1>4, <1>6, <1>9, <1>10, <1>11 DEF Copies

\* Storing what a request holds; the copy it leaves behind is gone.
LEMMA StoreCopies ==
    ASSUME TypeOK, Copies, NEW r \in Requests, StoreOutcome(r) \/ StoreRetry(r)
    PROVE  TypeOK' /\ Copies'
<1> DEFINE p == op[r].payout
<1>1. p \in PayoutRec /\ p.id \in PayoutIds /\ Stored(p) /\ op[r].subject \in Subjects
  BY DEF Copies, Slots, SlotOK, StoreOutcome, StoreRetry, Answer, PayoutRec
<1>2. Save(p) /\ transfers' = transfers /\ job' = job
  BY DEF StoreOutcome, StoreRetry
<1>3. /\ rows' \in [PayoutIds -> Row \cup {NoRow}]
      /\ Grows /\ PaidIsStored' /\ RowIds'
      /\ \A q \in PayoutIds : ~Exists(q) => ~Exists(q)'
  BY <1>1, <1>2, SaveFacts, SaveGrows DEF Copies
<1>4. /\ op' \in [Requests -> Slot]
      /\ \A r0 \in Requests \ {r} : op'[r0] = op[r0]
      /\ op'[r].step \in {"idle", "check"} /\ op'[r].payout = NoRow
      /\ op'[r].step = "check" => op'[r].subject = op[r].subject
  BY <1>1 DEF StoreOutcome, StoreRetry, TypeOK, Slot, Steps, Idle
<1>5. excuses' \subseteq PayoutIds
  BY <1>1 DEF StoreOutcome, StoreRetry, TypeOK
<1>6. TypeOK'
  BY <1>2, <1>3, <1>4, <1>5 DEF TypeOK
<1>7. SlotOK(r)'
  BY <1>1, <1>4 DEF SlotOK
<1>8. \A r0 \in Requests \ {r} : op[r0].step = "insert" => ~Exists(op[r0].payout.id)'
  BY <1>3, <1>4 DEF Copies, Slots, SlotOK, PayoutRec, Exists
<1>9. Slots'
  BY <1>3, <1>4, <1>7, <1>8, SlotsKept DEF Copies
<1>10. Jobs'
  BY <1>2, <1>3, JobKept DEF Copies, Jobs
<1>11. OwnIds'
  BY <1>4 DEF Copies, OwnIds
<1> QED
  BY <1>3, <1>6, <1>9, <1>10, <1>11 DEF Copies

\* A worker's step leaves the requests' slots alone.
LEMMA WorkerCopies ==
    ASSUME TypeOK, Copies, NEW w \in Workers, Grows, PaidIsStored', RowIds',
           op' = op, rows' \in [PayoutIds -> Row \cup {NoRow}], transfers' \subseteq Transfer,
           job' \in [Workers -> Worker], excuses' \subseteq PayoutIds,
           \A q \in PayoutIds : ~Exists(q) => ~Exists(q)',
           \A v \in Workers \ {w} : job'[v] = job[v],
           JobOK(w)'
    PROVE  TypeOK' /\ Copies'
<1>1. TypeOK'
  BY DEF TypeOK
<1>2. ASSUME NEW r \in Requests PROVE SlotOK(r)'
  <2>1. op[r].step = "insert" => ~Exists(op[r].payout.id)'
    BY DEF Copies, Slots, SlotOK, PayoutRec, Exists
  <2> QED
    BY <2>1, OtherSlotKept DEF Copies, Slots
<1>3. Jobs'
  BY JobKept DEF Copies, Jobs
<1>4. OwnIds'
  BY DEF Copies, OwnIds
<1> QED
  BY <1>1, <1>2, <1>3, <1>4 DEF Copies, Slots

\* The worker holds copies of the pending rows, one each.
LEMMA FindCopies ==
    ASSUME TypeOK, Copies, NEW w \in Workers, FindPendingPayouts(w)
    PROVE  TypeOK' /\ Copies'
<1>1. UNCHANGED <<rows, transfers, op>>
  BY DEF FindPendingPayouts
<1>2. /\ Grows /\ PaidIsStored' /\ RowIds'
      /\ \A q \in PayoutIds : ~Exists(q) => ~Exists(q)'
  BY <1>1, UnchangedGrows DEF Copies
<1>3. \A q \in Pending : /\ q \in Row /\ q.status = "PENDING_DISBURSEMENT"
                         /\ q.id \in PayoutIds /\ rows[q.id] = q
  BY NoRowFacts DEF Pending, TypeOK, Copies, RowIds, Exists
<1>4. /\ job'[w] = [queue |-> Pending, answered |-> NoRow]
      /\ \A v \in Workers \ {w} : job'[v] = job[v]
      /\ excuses' \subseteq PayoutIds
      /\ job' \in [Workers -> Worker]
  BY <1>3 DEF FindPendingPayouts, TypeOK, Worker, NoJob
<1>5. JobOK(w)'
  BY <1>1, <1>3, <1>4 DEF JobOK, Stored, Exists
<1> QED
  BY <1>1, <1>2, <1>4, <1>5, WorkerCopies DEF TypeOK

\* Once the gateway has answered, the worker holds its answer and the rest.
LEMMA PayCopies ==
    ASSUME TypeOK, Copies, NEW w \in Workers, PayNext(w)
    PROVE  TypeOK' /\ Copies'
<1>1. PICK p \in job[w].queue : \E o \in Outcomes(p) :
        /\ transfers' = transfers \cup o.paid
        /\ job' = [job EXCEPT ![w] = [queue |-> @.queue \ {p}, answered |-> o.answer]]
        /\ excuses' = excuses \cup IF o.unanswered THEN {p.id} ELSE {}
  BY DEF PayNext
<1>2. PICK o \in Outcomes(p) :
        /\ transfers' = transfers \cup o.paid
        /\ job' = [job EXCEPT ![w] = [queue |-> @.queue \ {p}, answered |-> o.answer]]
        /\ excuses' = excuses \cup IF o.unanswered THEN {p.id} ELSE {}
  BY <1>1
<1>3. rows' = rows /\ op' = op
  BY DEF PayNext
<1>4. /\ p \in PayoutRec /\ p.id \in PayoutIds /\ Stored(p)
      /\ JobOK(w) /\ job[w].queue \subseteq Row
  BY RowIsPayout DEF Copies, Jobs, JobOK, PayoutRec
<1>5. /\ Grows /\ PaidIsStored' /\ RowIds' /\ transfers' \subseteq Transfer
      /\ o.answer \in PayoutRec /\ o.answer.id = p.id /\ Answer(o.answer)'
      /\ \A q \in PayoutIds : ~Exists(q) => ~Exists(q)'
  BY <1>2, <1>3, <1>4, AnswerOK DEF Copies
<1>6. /\ job'[w].queue = job[w].queue \ {p} /\ job'[w].answered = o.answer
      /\ \A v \in Workers \ {w} : job'[v] = job[v]
      /\ job' \in [Workers -> Worker]
      /\ excuses' \subseteq PayoutIds
  BY <1>2, <1>4, <1>5 DEF TypeOK, Worker
<1>7. JobOK(w)'
  BY <1>3, <1>4, <1>5, <1>6 DEF JobOK, Answer, Stored, Backed, Exists
<1> QED
  BY <1>3, <1>5, <1>6, <1>7, WorkerCopies DEF TypeOK

\* Storing the answer leaves the rest of the list as it was.
LEMMA StoreAnswerCopies ==
    ASSUME TypeOK, Copies, NEW w \in Workers, StoreAnswer(w)
    PROVE  TypeOK' /\ Copies'
<1> DEFINE p == job[w].answered
<1>1. p \in PayoutRec /\ Stored(p) /\ JobOK(w)
  BY DEF Copies, Jobs, JobOK, StoreAnswer, Answer
<1>2. Save(p) /\ transfers' = transfers /\ op' = op /\ excuses' = excuses
  BY DEF StoreAnswer
<1>3. /\ rows' \in [PayoutIds -> Row \cup {NoRow}]
      /\ Grows /\ PaidIsStored' /\ RowIds'
      /\ \A q \in PayoutIds : ~Exists(q) => ~Exists(q)'
  BY <1>1, <1>2, SaveFacts, SaveGrows DEF Copies
<1>4. /\ job'[w].queue = job[w].queue /\ job'[w].answered = NoRow
      /\ \A v \in Workers \ {w} : job'[v] = job[v]
      /\ job' \in [Workers -> Worker]
  BY DEF StoreAnswer, TypeOK, Worker
<1>5. \A q \in job[w].queue : Stored(q)'
  BY <1>1, <1>3, GrowsKeeps, RowIsPayout DEF JobOK
<1>6. JobOK(w)'
  BY <1>1, <1>4, <1>5 DEF JobOK, Stored, Exists
<1> QED
  BY <1>2, <1>3, <1>4, <1>6, WorkerCopies DEF TypeOK

\* So does losing it.
LEMMA StoreAnswerFailsCopies ==
    ASSUME TypeOK, Copies, NEW w \in Workers, StoreAnswerFails(w)
    PROVE  TypeOK' /\ Copies'
<1>1. UNCHANGED <<rows, transfers, op>>
  BY DEF StoreAnswerFails
<1>2. /\ Grows /\ PaidIsStored' /\ RowIds'
      /\ \A q \in PayoutIds : ~Exists(q) => ~Exists(q)'
  BY <1>1, UnchangedGrows DEF Copies
<1>3. /\ job'[w].queue = job[w].queue /\ job'[w].answered = NoRow
      /\ \A v \in Workers \ {w} : job'[v] = job[v]
      /\ job' \in [Workers -> Worker]
  BY DEF StoreAnswerFails, TypeOK, Worker
<1>4. job[w].answered.id \in PayoutIds /\ JobOK(w)
  BY DEF Copies, Jobs, JobOK, StoreAnswerFails, Answer, PayoutRec
<1>5. excuses' \subseteq PayoutIds
  BY <1>4 DEF StoreAnswerFails, Forgotten, TypeOK
<1>6. JobOK(w)'
  BY <1>1, <1>3, <1>4 DEF JobOK, Stored, Exists
<1> QED
  BY <1>1, <1>2, <1>3, <1>5, <1>6, WorkerCopies DEF TypeOK

\* After a restart nobody holds anything.
LEMMA CrashCopies ==
    ASSUME TypeOK, Copies, Crash
    PROVE  TypeOK' /\ Copies'
<1>1. UNCHANGED <<rows, transfers>>
  BY DEF Crash
<1>2. PaidIsStored' /\ RowIds'
  BY <1>1, UnchangedGrows DEF Copies
<1>3. Idle \in Slot /\ Idle.step = "idle" /\ Idle.payout = NoRow
  BY DEF Idle, Slot, Steps
<1>4. NoJob \in Worker /\ NoJob.queue = {} /\ NoJob.answered = NoRow
  BY DEF NoJob, Worker
<1>5. excuses' \subseteq PayoutIds
  BY DEF Crash, Forgotten, TypeOK, Copies, Slots, Jobs, SlotOK, JobOK, Answer, PayoutRec
<1>6. TypeOK'
  BY <1>1, <1>3, <1>4, <1>5 DEF Crash, TypeOK
<1>7. Slots' /\ OwnIds'
  BY <1>3 DEF Crash, Slots, SlotOK, OwnIds
<1>8. Jobs'
  BY <1>4 DEF Crash, Jobs, JobOK
<1> QED
  BY <1>2, <1>6, <1>7, <1>8 DEF Copies

\* Nobody holds anything at first.
LEMMA CopiesInit == Init => TypeOK /\ Copies
<1> SUFFICES ASSUME Init PROVE TypeOK /\ Copies
  OBVIOUS
<1>1. Idle \in Slot /\ Idle.step = "idle" /\ Idle.payout = NoRow
  BY DEF Idle, Slot, Steps
<1>2. NoJob \in Worker /\ NoJob.queue = {} /\ NoJob.answered = NoRow
  BY DEF NoJob, Worker
<1>3. TypeOK
  BY <1>1, <1>2 DEF Init, TypeOK
<1>4. Slots /\ OwnIds
  BY <1>1 DEF Init, Slots, SlotOK, OwnIds
<1>5. Jobs
  BY <1>2 DEF Init, Jobs, JobOK
<1>6. PaidIsStored /\ RowIds
  BY DEF Init, PaidIsStored, RowIds, Exists, NoRow
<1> QED
  BY <1>3, <1>4, <1>5, <1>6 DEF Copies

\* A stuttering step keeps the copies.
LEMMA CopiesStutter == TypeOK /\ Copies /\ UNCHANGED vars => TypeOK' /\ Copies'
<1> SUFFICES ASSUME TypeOK, Copies, UNCHANGED vars PROVE TypeOK' /\ Copies'
  OBVIOUS
<1>1. TypeOK' /\ PaidIsStored' /\ RowIds' /\ OwnIds'
  BY DEF vars, TypeOK, Copies, PaidIsStored, RowIds, OwnIds, Exists
<1>2. Grows /\ op' = op /\ job' = job /\ rows' = rows
  BY DEF vars, Grows, Exists
<1>3. ASSUME NEW r \in Requests PROVE SlotOK(r)'
  <2>1. op[r].step = "insert" => ~Exists(op[r].payout.id)'
    BY <1>2 DEF Copies, Slots, SlotOK, Exists
  <2> QED
    BY <1>2, <2>1, OtherSlotKept DEF Copies, Slots
<1>4. Jobs'
  BY <1>2, JobKept DEF Copies, Jobs
<1> QED
  BY <1>1, <1>3, <1>4 DEF Copies, Slots

\* Every step keeps the types and the facts about copies.
LEMMA CopiesNext == TypeOK /\ Copies /\ [Next]_vars => TypeOK' /\ Copies'
<1> SUFFICES ASSUME TypeOK, Copies, [Next]_vars PROVE TypeOK' /\ Copies'
  OBVIOUS
<1>1. ASSUME NEW r \in Requests, NEW s \in Subjects, InitiatePayout(r, s)
      PROVE  TypeOK' /\ Copies'
  BY <1>1, InitiateCopies
<1>2. ASSUME NEW r \in Requests, NEW p \in PayoutIds, RetryFailedPayout(r, p)
      PROVE  TypeOK' /\ Copies'
  BY <1>2, RetryCopies
<1>3. ASSUME NEW r \in Requests, RequestStep(r)
      PROVE  TypeOK' /\ Copies'
  BY <1>3, CheckExistingCopies, EndCopies, InsertCopies, TransferCopies, StoreCopies
     DEF RequestStep
<1>4. ASSUME NEW r \in Requests, RequestFails(r)
      PROVE  TypeOK' /\ Copies'
  BY <1>4, EndCopies
<1>5. ASSUME NEW w \in Workers, WorkerStep(w) \/ StoreAnswerFails(w)
      PROVE  TypeOK' /\ Copies'
  BY <1>5, FindCopies, PayCopies, StoreAnswerCopies, StoreAnswerFailsCopies DEF WorkerStep
<1>6. CASE Crash
  BY <1>6, CrashCopies
<1>7. CASE UNCHANGED vars
  BY <1>7, CopiesStutter
<1> QED
  BY <1>1, <1>2, <1>3, <1>4, <1>5, <1>6, <1>7 DEF Next

\* Copies is an invariant: whatever calls, workers and failures interleave, a copy
\* in memory refers to a row of the same subject, a gateway answer to a transfer.
THEOREM CopiesInvariant == Spec => [](TypeOK /\ Copies)
<1>1. Init => TypeOK /\ Copies
  BY CopiesInit
<1>2. TypeOK /\ Copies /\ [Next]_vars => TypeOK' /\ Copies'
  BY CopiesNext
<1> QED
  BY <1>1, <1>2, PTL DEF Spec

\* The state keeps its types.
THEOREM TypeCorrect == Spec => []TypeOK
BY CopiesInvariant, PTL

\* No money goes out for a payout the table does not know, whichever writes fail.
THEOREM PaidStored == Spec => []PaidIsStored
<1>1. Copies => PaidIsStored
  BY DEF Copies
<1> QED
  BY <1>1, CopiesInvariant, PTL

-----------------------------------------------------------------------------
(* What rows say.                                                           *)

\* A payout about to be saved that creates or pends a row, or carries an answer.
LEMMA SaveKeepsTransfer ==
    ASSUME TypeOK, ProcessingHasTransfer, NEW p \in PayoutRec, Save(p),
           p.status = "PENDING_DISBURSEMENT" \/ Answer(p), transfers' = transfers
    PROVE  ProcessingHasTransfer'
<1>1. /\ rows'[p.id].status = p.status
      /\ p.ref # Undefined => rows'[p.id].ref = p.ref
      /\ \A q \in PayoutIds : q # p.id => rows'[q] = rows[q]
  BY SaveFacts
<1> SUFFICES ASSUME NEW q \in PayoutIds, rows'[q].status = "PROCESSING"
             PROVE  \E t \in transfers' : t.payout = q /\ t.id = rows'[q].ref
  BY DEF ProcessingHasTransfer
<1>2. CASE q # p.id
  BY <1>1, <1>2 DEF ProcessingHasTransfer
<1>3. CASE q = p.id
  BY <1>1, <1>3 DEF Answer, Backed
<1> QED
  BY <1>2, <1>3

\* The steps that write the table store a pending payout or an answer.
LEMMA Writers ==
    ASSUME TypeOK, Copies, [Next]_vars
    PROVE  \/ rows' = rows /\ transfers \subseteq transfers'
           \/ /\ transfers' = transfers
              /\ \E p \in PayoutRec :
                   /\ Save(p)
                   /\ p.status = "PENDING_DISBURSEMENT" \/ Answer(p)
                   /\ Stored(p) \/ UniqueBooking(p)
<1>1. ASSUME NEW r \in Requests, InsertRow(r)
      PROVE  /\ transfers' = transfers
             /\ \E p \in PayoutRec :
                  Save(p) /\ p.status = "PENDING_DISBURSEMENT" /\ UniqueBooking(p)
  BY <1>1 DEF InsertRow, Copies, Slots, SlotOK
<1>2. ASSUME NEW r \in Requests, StoreOutcome(r)
      PROVE  transfers' = transfers /\ \E p \in PayoutRec : Save(p) /\ Answer(p) /\ Stored(p)
  BY <1>2 DEF StoreOutcome, Copies, Slots, SlotOK, Answer
<1>3. ASSUME NEW r \in Requests, StoreRetry(r)
      PROVE  /\ transfers' = transfers
             /\ \E p \in PayoutRec :
                  Save(p) /\ p.status = "PENDING_DISBURSEMENT" /\ Stored(p)
  BY <1>3 DEF StoreRetry, Copies, Slots, SlotOK
<1>4. ASSUME NEW w \in Workers, StoreAnswer(w)
      PROVE  transfers' = transfers /\ \E p \in PayoutRec : Save(p) /\ Answer(p) /\ Stored(p)
  BY <1>4 DEF StoreAnswer, Copies, Jobs, JobOK, Answer
<1>5. ASSUME NEW r \in Requests,
             \/ \E s \in Subjects : InitiatePayout(r, s)
             \/ \E p \in PayoutIds : RetryFailedPayout(r, p)
             \/ CheckExisting(r) \/ CheckRefused(r) \/ InsertRefused(r)
             \/ RequestTransfer(r) \/ RequestFails(r)
      PROVE  rows' = rows /\ transfers \subseteq transfers'
  BY <1>5 DEF InitiatePayout, RetryFailedPayout, CheckExisting, CheckRefused,
       InsertRefused, RequestTransfer, RequestFails
<1>6. ASSUME NEW w \in Workers, FindPendingPayouts(w) \/ PayNext(w) \/ StoreAnswerFails(w)
      PROVE  rows' = rows /\ transfers \subseteq transfers'
  BY <1>6 DEF FindPendingPayouts, PayNext, StoreAnswerFails
<1>7. CASE Crash
  BY <1>7 DEF Crash
<1>8. CASE UNCHANGED vars
  BY <1>8 DEF vars
<1> QED
  BY <1>1, <1>2, <1>3, <1>4, <1>5, <1>6, <1>7, <1>8 DEF Next, RequestStep, WorkerStep

\* With a schema that lacks a column save() writes, as the committed one does, no call ever
\* stores a payout and no money ever goes out.
THEOREM NothingPaid ==
    ASSUME ~ SaveAccepted
    PROVE  Spec => [](transfers = {} /\ \A p \in PayoutIds : ~ Exists(p))
<1> DEFINE Empty == \A p \in PayoutIds : ~ Exists(p)
<1>1. Init => Empty
  BY DEF Init, Exists, NoRow
<1>2. TypeOK /\ Copies /\ Empty /\ [Next]_vars => Empty'
  <2> SUFFICES ASSUME TypeOK, Copies, Empty, [Next]_vars PROVE Empty'
    OBVIOUS
  <2>1. rows' = rows
    BY Writers DEF Save
  <2> QED
    BY <2>1 DEF Exists
<1>3. TypeOK /\ Copies /\ Empty => transfers = {} /\ Empty
  BY DEF TypeOK, Transfer, Copies, PaidIsStored
<1> HIDE DEF Empty
<1>4. Spec => [](transfers = {} /\ Empty)
  BY <1>1, <1>2, <1>3, CopiesInvariant, PTL DEF Spec
<1> QED
  BY <1>4 DEF Empty

\* A row in PROCESSING names a transfer made for it, for any number of writers.
THEOREM RowsHaveTransfers == Spec => []ProcessingHasTransfer
<1>1. Init => ProcessingHasTransfer
  BY DEF Init, ProcessingHasTransfer, NoRow
<1>2. TypeOK /\ Copies /\ ProcessingHasTransfer /\ [Next]_vars => ProcessingHasTransfer'
  <2> SUFFICES ASSUME TypeOK, Copies, ProcessingHasTransfer, [Next]_vars
               PROVE  ProcessingHasTransfer'
    OBVIOUS
  <2>1. CASE rows' = rows /\ transfers \subseteq transfers'
    BY <2>1 DEF ProcessingHasTransfer
  <2>2. CASE ~(rows' = rows /\ transfers \subseteq transfers')
    BY <2>2, Writers, SaveKeepsTransfer
  <2> QED
    BY <2>1, <2>2
<1> QED
  BY <1>1, <1>2, CopiesInvariant, PTL DEF Spec

\* However many calls race past the check for payouts in progress, a booking gets
\* one row.
THEOREM BookingsPaidByOneRow == Spec => []OnePayoutPerBooking
<1>1. Init => OnePayoutPerBooking
  BY DEF Init, OnePayoutPerBooking, NoRow, Exists
<1>2. TypeOK /\ Copies /\ OnePayoutPerBooking /\ [Next]_vars => OnePayoutPerBooking'
  <2> SUFFICES ASSUME TypeOK, Copies, OnePayoutPerBooking, [Next]_vars
               PROVE  OnePayoutPerBooking'
    OBVIOUS
  <2>1. CASE rows' = rows
    BY <2>1 DEF OnePayoutPerBooking, Exists
  <2>2. CASE rows' # rows
    <3>1. PICK p \in PayoutRec : Save(p) /\ (Stored(p) \/ UniqueBooking(p))
      BY <2>2, Writers
    <3>2. /\ p.id \in PayoutIds /\ rows'[p.id].subject = p.subject
          /\ \A q \in PayoutIds : q # p.id => rows'[q] = rows[q]
      BY <3>1, SaveFacts DEF PayoutRec
    <3>3. SUFFICES ASSUME NEW q \in PayoutIds, q # p.id, Exists(q),
                          rows[q].subject = p.subject, p.subject \in Bookings
                   PROVE  FALSE
      BY <3>2, <3>3 DEF OnePayoutPerBooking, Exists
    <3>4. CASE Stored(p)
      BY <3>2, <3>3, <3>4 DEF OnePayoutPerBooking, Stored, Exists
    <3>5. CASE UniqueBooking(p)
      BY <3>3, <3>5 DEF UniqueBooking, Existing
    <3> QED
      BY <3>1, <3>4, <3>5
  <2> QED
    BY <2>1, <2>2
<1> QED
  BY <1>1, <1>2, CopiesInvariant, PTL DEF Spec

-----------------------------------------------------------------------------
(* What goes out.                                                           *)

\* A step that neither gives p a new payer nor money, nor takes an answer for it.
Untouched(p) ==
    /\ rows'[p] = rows[p]
    /\ \A t \in transfers' : t.payout = p => t \in transfers
    /\ transfers \subseteq transfers'
    /\ \A r \in Requests :
         /\ Pays(r, p)' => op'[r] = op[r]
         /\ op[r].step = "store" /\ op[r].payout.id = p => op'[r] = op[r]
    /\ \A w \in Workers :
         /\ Queued(w, p)' => Queued(w, p)
         /\ job[w].answered.id = p \/ job'[w].answered.id = p
              => job'[w].answered = job[w].answered

\* Such a step keeps what the ledger says of p.
LEMMA UntouchedClean ==
    ASSUME NEW p, Clean(p), Untouched(p)
    PROVE  Clean(p)'
<1>1. \A r \in Requests : Pays(r, p)' => Pays(r, p) /\ op'[r] = op[r]
  BY DEF Untouched, Pays
<1>2. \A w \in Workers : Has(w, p)' => Has(w, p)
  BY DEF Untouched, Has, Queued
<1>3. SolePayer(p)'
  BY <1>1, <1>2 DEF Clean, SolePayer, Untouched, Has, Queued
<1>4. NoMoney(p) => NoMoney(p)'
  BY DEF Untouched, NoMoney
<1>5. Unpaid(p)'
  BY <1>1, <1>4 DEF Clean, Unpaid, Untouched
<1>6. \A t \in transfers : t.payout = p /\ Holding(t) => Holding(t)'
  BY DEF Untouched, Holding
<1>7. Accounted(p)'
  BY <1>6 DEF Clean, Accounted, Untouched
<1> QED
  BY <1>3, <1>5, <1>7 DEF Clean

\* A request that is not between its insert and its answer, before or after.
LEMMA SlotLedger ==
    ASSUME TypeOK, Copies, Ledger, NEW r \in Requests, UNCHANGED <<rows, transfers, job>>,
           NEW o \in Slot, op' = [op EXCEPT ![r] = o], o.step \notin {"transfer", "store"},
           excuses \subseteq excuses',
           op[r].step = "store" => op[r].payout.id \in excuses'
    PROVE  Ledger'
<1> SUFFICES ASSUME NEW p \in PayoutIds, p \notin excuses' PROVE Clean(p)'
  BY DEF Ledger
<1>1. op'[r] = o /\ \A r0 \in Requests \ {r} : op'[r0] = op[r0]
  BY DEF TypeOK
<1>2. Untouched(p)
  BY <1>1 DEF Untouched, Pays, Queued
<1> QED
  BY <1>2, UntouchedClean DEF Ledger

\* Calls that start, are refused or fail do not touch the ledger of unexcused payouts.
LEMMA QuietLedger ==
    ASSUME TypeOK, Copies, Ledger, NEW r \in Requests,
           \/ \E s \in Subjects : InitiatePayout(r, s)
           \/ \E p \in PayoutIds : RetryFailedPayout(r, p)
           \/ CheckExisting(r) \/ CheckRefused(r) \/ InsertRefused(r) \/ RequestFails(r)
    PROVE  Ledger'
<1>1. TypeOK'
  BY InitiateCopies, RetryCopies, CheckExistingCopies, EndCopies
<1>2. op' = [op EXCEPT ![r] = op'[r]] /\ op'[r] \in Slot
  BY <1>1 DEF InitiatePayout, RetryFailedPayout, CheckExisting, CheckRefused,
       InsertRefused, RequestFails, TypeOK
<1>3. op'[r].step \notin {"transfer", "store"}
  <2>1. ASSUME NEW s \in Subjects, InitiatePayout(r, s)
        PROVE  op'[r].step = "check"
    <3> DEFINE o == [Idle EXCEPT !.step = "check", !.subject = s]
    <3>1. o.step = "check"
      BY DEF Idle
    <3> QED
      BY <2>1, <3>1 DEF InitiatePayout, TypeOK
  <2>2. CASE CheckExisting(r)
    BY <2>2 DEF CheckExisting, TypeOK, Slot
  <2>3. CASE \E p \in PayoutIds : RetryFailedPayout(r, p)
    BY <2>3 DEF RetryFailedPayout, TypeOK
  <2>4. CASE CheckRefused(r) \/ InsertRefused(r) \/ RequestFails(r)
    BY <2>4 DEF CheckRefused, InsertRefused, RequestFails, TypeOK, Idle
  <2> QED
    BY <2>1, <2>2, <2>3, <2>4
<1>4. UNCHANGED <<rows, transfers, job>> /\ excuses \subseteq excuses'
  BY DEF InitiatePayout, RetryFailedPayout, CheckExisting, CheckRefused,
       InsertRefused, RequestFails
<1>5. op[r].step = "store" => op[r].payout.id \in excuses'
  BY DEF InitiatePayout, RetryFailedPayout, CheckExisting, CheckRefused,
       InsertRefused, RequestFails, Forgotten
<1>6. PICK o \in Slot : op' = [op EXCEPT ![r] = o] /\ o.step \notin {"transfer", "store"}
  BY <1>2, <1>3
<1> QED
  BY <1>4, <1>5, <1>6, SlotLedger

\* A fresh row: nobody has it and no money has gone out for it.
LEMMA InsertLedger ==
    ASSUME TypeOK, Copies, Ledger, NEW r \in Requests, InsertRow(r)
    PROVE  Ledger'
<1> DEFINE i == op[r].payout.id
<1>1. /\ op[r].payout \in PayoutRec /\ i \in PayoutIds /\ ~Exists(i)
      /\ op[r].payout.status = "PENDING_DISBURSEMENT" /\ op[r].step = "insert"
  BY DEF Copies, Slots, SlotOK, InsertRow, PayoutRec
<1>2. /\ op'[r].step = "transfer" /\ op'[r].payout = op[r].payout
      /\ \A r0 \in Requests \ {r} : op'[r0] = op[r0]
      /\ UNCHANGED <<transfers, job, excuses>>
      /\ \A q \in PayoutIds : q # i => rows'[q] = rows[q]
  BY <1>1, SaveFacts DEF InsertRow, TypeOK, Slot
<1>3. \A w \in Workers : ~Has(w, i)
  BY <1>1, NoRowFacts DEF Copies, Jobs, JobOK, Answer, Stored, Has, Queued
<1>4. NoMoney(i)
  BY <1>1 DEF Copies, PaidIsStored, NoMoney
<1> SUFFICES ASSUME NEW p \in PayoutIds, p \notin excuses' PROVE Clean(p)'
  BY DEF Ledger
<1>5. CASE p # i
  <2>1. Untouched(p)
    BY <1>1, <1>2, <1>5 DEF Untouched, Pays, Queued
  <2> QED
    BY <1>2, <2>1, UntouchedClean DEF Ledger
<1>6. CASE p = i
  <2>1. \A w \in Workers : ~Has(w, p)'
    BY <1>2, <1>3, <1>6 DEF Has, Queued
  <2>2. NoMoney(p)'
    BY <1>2, <1>4, <1>6 DEF NoMoney
  <2> QED
    BY <2>1, <2>2 DEF Clean, SolePayer, Unpaid, Accounted, NoMoney, Has
<1> QED
  BY <1>5, <1>6

\* The gateway answers a payer who has not paid yet: nothing else has.
LEMMA TransferLedger ==
    ASSUME TypeOK, Copies, Ledger, NEW r \in Requests, RequestTransfer(r)
    PROVE  Ledger'
<1> DEFINE i == op[r].payout.id
<1>1. /\ op[r].payout \in PayoutRec /\ i \in PayoutIds
      /\ op[r].payout.status = "PENDING_DISBURSEMENT" /\ op[r].step = "transfer"
  BY DEF Copies, Slots, SlotOK, RequestTransfer, PayoutRec
<1>2. PICK o \in Outcomes(op[r].payout) :
        /\ transfers' = transfers \cup o.paid
        /\ op' = [op EXCEPT ![r].step = "store", ![r].payout = o.answer]
        /\ excuses' = excuses \cup IF o.unanswered THEN {i} ELSE {}
  BY DEF RequestTransfer
<1>3. /\ op'[r].step = "store" /\ op'[r].payout = o.answer
      /\ \A r0 \in Requests \ {r} : op'[r0] = op[r0]
      /\ rows' = rows /\ job' = job
  BY <1>2 DEF RequestTransfer, TypeOK, Slot
<1>4. /\ o.answer.id = i
      /\ \/ o.paid = {} /\ o.unanswered = FALSE /\ o.answer.status = "FAILED"
         \/ /\ o.unanswered = FALSE /\ o.answer.status = "PROCESSING"
            /\ o.paid = {[id |-> o.answer.ref, payout |-> i]}
         \/ o.unanswered = TRUE /\ \E t \in TransferIds : o.paid = {[id |-> t, payout |-> i]}
  BY <1>1, OutcomeFacts DEF TypeOK
<1> SUFFICES ASSUME NEW p \in PayoutIds, p \notin excuses' PROVE Clean(p)'
  BY DEF Ledger
<1>5. Clean(p)
  BY <1>2 DEF Ledger
<1>6. CASE p # i
  <2>1. \A t \in transfers' : t.payout = p => t \in transfers
    BY <1>2, <1>4, <1>6
  <2>2. Untouched(p)
    BY <1>2, <1>3, <1>4, <1>6, <2>1 DEF Untouched, Pays, Queued
  <2> QED
    BY <1>5, <2>2, UntouchedClean
<1>7. CASE p = i
  <2>1. NoMoney(p) /\ \A w \in Workers : ~Has(w, p)
    BY <1>1, <1>5, <1>7 DEF Clean, SolePayer, Unpaid, Pays
  <2>2. \A w \in Workers : ~Has(w, p)'
    BY <1>3, <2>1 DEF Has, Queued
  <2>3. \A r0 \in Requests : Pays(r0, p)' => r0 = r
    BY <1>1, <1>3, <1>7 DEF Copies, OwnIds, Pays
  <2>4. SolePayer(p)'
    BY <2>2 DEF SolePayer, Has
  <2>5. CASE o.paid = {} /\ o.answer.status = "FAILED"
    <3>1. NoMoney(p)'
      BY <1>2, <2>1, <2>5 DEF NoMoney
    <3> QED
      BY <2>2, <2>4, <3>1 DEF Clean, Unpaid, Accounted, NoMoney, Has
  <2>6. CASE /\ o.answer.status = "PROCESSING"
             /\ o.paid = {[id |-> o.answer.ref, payout |-> p]}
    <3> DEFINE t == [id |-> o.answer.ref, payout |-> p]
    <3>1. \A u \in transfers' : u.payout = p => u = t
      BY <1>2, <2>1, <2>6 DEF NoMoney
    <3>2. Holding(t)'
      BY <1>3, <1>4, <1>7 DEF Holding
    <3>3. Accounted(p)'
      BY <3>1, <3>2 DEF Accounted
    <3>4. Unpaid(p)'
      BY <1>3, <2>2, <2>3, <2>6 DEF Unpaid, Has
    <3> QED
      BY <2>4, <3>3, <3>4 DEF Clean
  <2> QED
    BY <1>2, <1>4, <1>7, <2>5, <2>6
<1> QED
  BY <1>6, <1>7

\* The row takes over from whoever held the answer.
LEMMA SavedAccounted ==
    ASSUME NEW p \in PayoutIds, Accounted(p), NEW a \in PayoutRec, a.id = p, Answer(a),
           a.status = "FAILED" => NoMoney(p), transfers' = transfers,
           rows'[p].status = a.status, a.ref # Undefined => rows'[p].ref = a.ref
    PROVE  Accounted(p)'
<1>1. CASE a.status = "FAILED"
  BY <1>1 DEF Accounted, NoMoney
<1>2. CASE a.status = "PROCESSING" /\ a.ref # Undefined /\ Backed(a)
  <2>1. PICK t \in transfers : t.payout = p /\ t.id = a.ref
    BY <1>2 DEF Backed
  <2>2. \A u \in transfers : u.payout = p => u = t
    BY <2>1 DEF Accounted
  <2>3. rows'[p].status = "PROCESSING" /\ rows'[p].ref = t.id
    BY <1>2, <2>1
  <2> QED
    BY <2>2, <2>3 DEF Accounted
<1> QED
  BY <1>1, <1>2 DEF Answer

\* A request stores the gateway's answer: the row takes the place of the request.
LEMMA StoreLedger ==
    ASSUME TypeOK, Copies, Ledger, NEW r \in Requests, StoreOutcome(r)
    PROVE  Ledger'
<1> DEFINE a == op[r].payout
<1>1. /\ a \in PayoutRec /\ a.id \in PayoutIds /\ Answer(a) /\ op[r].step = "store"
      /\ Save(a) /\ UNCHANGED <<transfers, job, excuses>>
  BY DEF Copies, Slots, SlotOK, StoreOutcome, Answer, PayoutRec
<1>2. /\ rows'[a.id].status = a.status
      /\ a.ref # Undefined => rows'[a.id].ref = a.ref
      /\ \A q \in PayoutIds : q # a.id => rows'[q] = rows[q]
  BY <1>1, SaveFacts
<1>3. /\ op'[r].step = "idle"
      /\ \A r0 \in Requests \ {r} : op'[r0] = op[r0]
  BY DEF StoreOutcome, TypeOK, Idle
<1> SUFFICES ASSUME NEW p \in PayoutIds, p \notin excuses' PROVE Clean(p)'
  BY DEF Ledger
<1>4. Clean(p)
  BY <1>1 DEF Ledger
<1>5. CASE p # a.id
  <2>1. Untouched(p)
    BY <1>1, <1>2, <1>3, <1>5 DEF Untouched, Pays, Queued
  <2> QED
    BY <1>4, <2>1, UntouchedClean
<1>6. CASE p = a.id
  <2>1. /\ \A w \in Workers : ~Has(w, p)
        /\ a.status = "FAILED" => NoMoney(p)
    BY <1>1, <1>4, <1>6 DEF Clean, SolePayer, Unpaid, Pays
  <2>2. \A w \in Workers : ~Has(w, p)'
    BY <1>1, <2>1 DEF Has, Queued
  <2>3. \A r0 \in Requests : ~Pays(r0, p)'
    BY <1>1, <1>3, <1>6 DEF Copies, OwnIds, Pays
  <2>4. Accounted(p)'
    BY <1>1, <1>2, <1>4, <1>6, <2>1, SavedAccounted DEF Clean
  <2> QED
    BY <2>2, <2>3, <2>4 DEF Clean, SolePayer, Unpaid, Has
<1> QED
  BY <1>5, <1>6

\* A retry is an excuse.
LEMMA StoreRetryLedger ==
    ASSUME TypeOK, Copies, Ledger, NEW r \in Requests, StoreRetry(r)
    PROVE  Ledger'
<1> DEFINE a == op[r].payout
<1>1. /\ a \in PayoutRec /\ a.id \in excuses' /\ op[r].step = "retry" /\ Save(a)
      /\ UNCHANGED <<transfers, job>> /\ excuses \subseteq excuses'
  BY DEF Copies, Slots, SlotOK, StoreRetry
<1>2. \A q \in PayoutIds : q # a.id => rows'[q] = rows[q]
  BY <1>1, SaveFacts
<1>3. op'[r].step = "check" /\ \A r0 \in Requests \ {r} : op'[r0] = op[r0]
  BY DEF StoreRetry, TypeOK, Slot
<1> SUFFICES ASSUME NEW p \in PayoutIds, p \notin excuses' PROVE Clean(p)'
  BY DEF Ledger
<1>4. Untouched(p)
  BY <1>1, <1>2, <1>3 DEF Untouched, Pays, Queued
<1> QED
  BY <1>1, <1>4, UntouchedClean DEF Ledger

\* The worker takes what is pending; what somebody pays already is excused.
LEMMA FindLedger ==
    ASSUME TypeOK, Copies, Ledger, NEW w \in Workers, FindPendingPayouts(w)
    PROVE  Ledger'
<1>1. /\ UNCHANGED <<rows, transfers, op>> /\ excuses \subseteq excuses'
      /\ job'[w].queue = Pending /\ job'[w].answered = NoRow /\ job[w] = NoJob
      /\ \A v \in Workers \ {w} : job'[v] = job[v]
      /\ \A q \in Pending : BeingPaid(q.id) => q.id \in excuses'
  BY DEF FindPendingPayouts, TypeOK, Worker, NoJob
<1>2. \A q \in Pending : q.id \in PayoutIds /\ rows[q.id].status = "PENDING_DISBURSEMENT"
  BY NoRowFacts DEF Pending, Copies, RowIds, Exists
<1>3. NoRow.id \notin PayoutIds
  BY NoRowFacts
<1> SUFFICES ASSUME NEW p \in PayoutIds, p \notin excuses' PROVE Clean(p)'
  BY DEF Ledger
<1>4. Clean(p)
  BY <1>1 DEF Ledger
<1>5. CASE \A q \in Pending : q.id # p
  <2>1. ~Queued(w, p)'
    BY <1>1, <1>5 DEF Queued
  <2>2. Untouched(p)
    BY <1>1, <1>3, <2>1 DEF Untouched, Pays, Queued, NoJob
  <2> QED
    BY <1>4, <2>2, UntouchedClean
<1>6. CASE \E q \in Pending : q.id = p
  <2>1. ~BeingPaid(p) /\ rows[p].status = "PENDING_DISBURSEMENT"
    BY <1>1, <1>2, <1>6
  <2>2. \A r \in Requests : ~Pays(r, p)'
    BY <1>1, <2>1 DEF BeingPaid, Pays
  <2>3. \A v \in Workers : Has(v, p)' => v = w
    BY <1>1, <2>1 DEF BeingPaid, Has, Queued
  <2>4. NoMoney(p)
    BY <1>4, <2>1 DEF Clean, Accounted, Holding, BeingPaid, NoMoney
  <2>5. NoMoney(p)'
    BY <1>1, <2>4 DEF NoMoney
  <2>6. SolePayer(p)'
    BY <1>1, <1>3, <2>2, <2>3 DEF SolePayer, Has
  <2> QED
    BY <2>5, <2>6 DEF Clean, Unpaid, Accounted, NoMoney
<1> QED
  BY <1>5, <1>6

\* The gateway answers the worker.
LEMMA PayLedger ==
    ASSUME TypeOK, Copies, Ledger, NEW w \in Workers, PayNext(w)
    PROVE  Ledger'
<1>1. PICK b \in job[w].queue : \E o \in Outcomes(b) :
        /\ transfers' = transfers \cup o.paid
        /\ job' = [job EXCEPT ![w] = [queue |-> @.queue \ {b}, answered |-> o.answer]]
        /\ excuses' = excuses \cup IF o.unanswered THEN {b.id} ELSE {}
  BY DEF PayNext
<1>2. PICK o \in Outcomes(b) :
        /\ transfers' = transfers \cup o.paid
        /\ job' = [job EXCEPT ![w] = [queue |-> @.queue \ {b}, answered |-> o.answer]]
        /\ excuses' = excuses \cup IF o.unanswered THEN {b.id} ELSE {}
  BY <1>1
<1>3. b \in PayoutRec /\ \A q \in job[w].queue : q.id = b.id => q = b
  BY RowIsPayout DEF Copies, Jobs, JobOK
<1>4. /\ job'[w].queue = job[w].queue \ {b} /\ job'[w].answered = o.answer
      /\ \A v \in Workers \ {w} : job'[v] = job[v]
      /\ job[w].answered = NoRow /\ rows' = rows /\ op' = op
  BY <1>2 DEF PayNext, TypeOK
<1>5. /\ o.answer.id = b.id
      /\ \/ o.paid = {} /\ o.unanswered = FALSE /\ o.answer.status = "FAILED"
         \/ /\ o.unanswered = FALSE /\ o.answer.status = "PROCESSING"
            /\ o.paid = {[id |-> o.answer.ref, payout |-> b.id]}
         \/ o.unanswered = TRUE /\ \E t \in TransferIds : o.paid = {[id |-> t, payout |-> b.id]}
  BY <1>3, OutcomeFacts DEF TypeOK
<1>6. NoRow.id \notin PayoutIds
  BY NoRowFacts
<1> SUFFICES ASSUME NEW p \in PayoutIds, p \notin excuses' PROVE Clean(p)'
  BY DEF Ledger
<1>7. Clean(p)
  BY <1>2 DEF Ledger
<1>8. CASE p # b.id
  <2>1. \A t \in transfers' : t.payout = p => t \in transfers
    BY <1>2, <1>5, <1>8
  <2>2. Untouched(p)
    BY <1>2, <1>4, <1>5, <1>6, <1>8, <2>1 DEF Untouched, Pays, Queued
  <2> QED
    BY <1>7, <2>2, UntouchedClean
<1>9. CASE p = b.id
  <2>1. Queued(w, p) /\ NoMoney(p)
    BY <1>7, <1>9 DEF Clean, Unpaid, Queued
  <2>2. \A r \in Requests : ~Pays(r, p)'
    BY <1>4, <1>7, <2>1 DEF Clean, SolePayer, Has, Pays
  <2>3. \A v \in Workers : Has(v, p)' => v = w
    BY <1>4, <1>7, <2>1 DEF Clean, SolePayer, Has, Queued
  <2>4. \A v \in Workers : ~Queued(v, p)'
    BY <1>3, <1>4, <1>9, <2>3 DEF Queued, Has
  <2>5. SolePayer(p)'
    BY <2>2, <2>3, <2>4 DEF SolePayer
  <2>6. CASE o.paid = {} /\ o.answer.status = "FAILED"
    <3>1. NoMoney(p)'
      BY <1>2, <2>1, <2>6 DEF NoMoney
    <3> QED
      BY <2>5, <3>1 DEF Clean, Unpaid, Accounted, NoMoney
  <2>7. CASE /\ o.answer.status = "PROCESSING"
             /\ o.paid = {[id |-> o.answer.ref, payout |-> b.id]}
    <3> DEFINE t == [id |-> o.answer.ref, payout |-> p]
    <3>1. \A u \in transfers' : u.payout = p => u = t
      BY <1>2, <1>9, <2>1, <2>7 DEF NoMoney
    <3>2. Holding(t)'
      BY <1>4, <1>5, <1>9 DEF Holding
    <3>3. Accounted(p)'
      BY <3>1, <3>2 DEF Accounted
    <3>4. \A v \in Workers : v # w => ~(job'[v].answered.id = p)
      BY <2>3 DEF Has
    <3>5. Unpaid(p)'
      BY <1>4, <2>2, <2>4, <2>7, <3>4 DEF Unpaid
    <3> QED
      BY <2>5, <3>3, <3>5 DEF Clean
  <2> QED
    BY <1>2, <1>5, <1>9, <2>6, <2>7
<1> QED
  BY <1>8, <1>9

\* The worker stores the answer.
LEMMA StoreAnswerLedger ==
    ASSUME TypeOK, Copies, Ledger, NEW w \in Workers, StoreAnswer(w)
    PROVE  Ledger'
<1> DEFINE a == job[w].answered
<1>1. /\ a \in PayoutRec /\ a.id \in PayoutIds /\ Answer(a)
      /\ Save(a) /\ UNCHANGED <<transfers, op, excuses>>
  BY DEF Copies, Jobs, JobOK, StoreAnswer, Answer, PayoutRec
<1>2. /\ rows'[a.id].status = a.status
      /\ a.ref # Undefined => rows'[a.id].ref = a.ref
      /\ \A q \in PayoutIds : q # a.id => rows'[q] = rows[q]
  BY <1>1, SaveFacts
<1>3. /\ job'[w].queue = job[w].queue /\ job'[w].answered = NoRow
      /\ \A v \in Workers \ {w} : job'[v] = job[v]
  BY DEF StoreAnswer, TypeOK, Worker
<1>4. NoRow.id \notin PayoutIds
  BY NoRowFacts
<1> SUFFICES ASSUME NEW p \in PayoutIds, p \notin excuses' PROVE Clean(p)'
  BY DEF Ledger
<1>5. Clean(p)
  BY <1>1 DEF Ledger
<1>6. CASE p # a.id
  <2>1. Untouched(p)
    BY <1>1, <1>2, <1>3, <1>4, <1>6 DEF Untouched, Pays, Queued
  <2> QED
    BY <1>5, <2>1, UntouchedClean
<1>7. CASE p = a.id
  <2>1. /\ Has(w, p)
        /\ a.status = "FAILED" => NoMoney(p)
    BY <1>5, <1>7 DEF Clean, Unpaid, Has
  <2>2. \A r \in Requests : ~Pays(r, p)'
    BY <1>1, <1>5, <2>1 DEF Clean, SolePayer, Pays
  <2>3. \A v \in Workers : ~Has(v, p)'
    BY <1>3, <1>4, <1>5, <1>7, <2>1 DEF Clean, SolePayer, Has, Queued
  <2>4. Accounted(p)'
    BY <1>1, <1>2, <1>5, <1>7, <2>1, SavedAccounted DEF Clean
  <2> QED
    BY <2>2, <2>3, <2>4 DEF Clean, SolePayer, Unpaid, Has
<1> QED
  BY <1>6, <1>7

\* What is forgotten without being stored is excused.
LEMMA ForgetLedger ==
    ASSUME TypeOK, Copies, Ledger, Crash \/ \E w \in Workers : StoreAnswerFails(w)
    PROVE  Ledger'
<1>1. NoRow.id \notin PayoutIds
  BY NoRowFacts
<1> SUFFICES ASSUME NEW p \in PayoutIds, p \notin excuses' PROVE Clean(p)'
  BY DEF Ledger
<1>2. ASSUME NEW w \in Workers, StoreAnswerFails(w)
      PROVE  Clean(p)'
  <2>1. /\ job'[w].queue = job[w].queue /\ job'[w].answered = NoRow
        /\ \A v \in Workers \ {w} : job'[v] = job[v]
        /\ UNCHANGED <<rows, transfers, op>> /\ excuses \subseteq excuses'
        /\ job[w].answered.id \in excuses'
    BY <1>2 DEF StoreAnswerFails, Forgotten, TypeOK, Worker
  <2>2. Untouched(p)
    BY <1>1, <2>1 DEF Untouched, Pays, Queued
  <2> QED
    BY <2>1, <2>2, UntouchedClean DEF Ledger
<1>3. CASE Crash
  <2>1. /\ \A r \in Requests : op'[r].step = "idle"
        /\ \A r \in Requests : op[r].step = "store" => op[r].payout.id \in excuses'
        /\ \A w \in Workers : job'[w].queue = {} /\ job'[w].answered = NoRow
        /\ \A w \in Workers : job[w].answered # NoRow => job[w].answered.id \in excuses'
        /\ UNCHANGED <<rows, transfers>> /\ excuses \subseteq excuses'
    BY <1>3 DEF Crash, Forgotten, Idle, NoJob
  <2>2. Untouched(p)
    BY <1>1, <2>1 DEF Untouched, Pays, Queued
  <2> QED
    BY <2>1, <2>2, UntouchedClean DEF Ledger
<1> QED
  BY <1>2, <1>3

\* Every step keeps the ledger.
LEMMA LedgerNext == TypeOK /\ Copies /\ Ledger /\ [Next]_vars => Ledger'
<1> SUFFICES ASSUME TypeOK, Copies, Ledger, [Next]_vars PROVE Ledger'
  OBVIOUS
<1>1. ASSUME NEW r \in Requests,
             \/ \E s \in Subjects : InitiatePayout(r, s)
             \/ \E p \in PayoutIds : RetryFailedPayout(r, p)
             \/ RequestStep(r) \/ RequestFails(r)
      PROVE  Ledger'
  BY <1>1, QuietLedger, InsertLedger, TransferLedger, StoreLedger, StoreRetryLedger
     DEF RequestStep
<1>2. ASSUME NEW w \in Workers, WorkerStep(w) \/ StoreAnswerFails(w)
      PROVE  Ledger'
  BY <1>2, FindLedger, PayLedger, StoreAnswerLedger, ForgetLedger DEF WorkerStep
<1>3. CASE Crash
  BY <1>3, ForgetLedger
<1>4. CASE UNCHANGED vars
  <2> SUFFICES ASSUME NEW p \in PayoutIds, p \notin excuses' PROVE Clean(p)'
    BY DEF Ledger
  <2>1. Untouched(p)
    BY <1>4 DEF vars, Untouched, Pays, Queued
  <2> QED
    BY <1>4, <2>1, UntouchedClean DEF Ledger, vars
<1> QED
  BY <1>1, <1>2, <1>3, <1>4 DEF Next

LEMMA LedgerInit == Init => Ledger
<1> SUFFICES ASSUME Init, NEW p \in PayoutIds PROVE Clean(p)
  BY DEF Ledger
<1>1. \A w \in Workers : ~Has(w, p)
  BY NoRowFacts DEF Init, NoJob, Has, Queued
<1>2. \A r \in Requests : ~Pays(r, p)
  BY DEF Init, Idle, Pays
<1> QED
  BY <1>1, <1>2 DEF Init, Clean, SolePayer, Unpaid, Accounted, NoMoney, Has

\* Money goes out once for every payout without an excuse, and is recorded.
THEOREM MoneyAccounted == Spec => []TransfersAccounted
<1>1. TypeOK /\ Ledger => TransfersAccounted
  BY DEF TypeOK, Transfer, Ledger, Clean, Accounted, TransfersAccounted
<1> QED
  BY <1>1, LedgerInit, LedgerNext, CopiesInvariant, PTL DEF Spec

-----------------------------------------------------------------------------
(* Payout implements PayoutProtocol.                                        *)

Retries(r, p) == op[r].step = "retry" /\ op[r].payout.id = p

\* What the refinement needs beside the ledger: as long as somebody pays a payout without
\* an excuse its row is pending, and as long as somebody is about to retry it, failed.
Awaited(p) ==
    /\ \A r \in Requests : Pays(r, p) => rows[p].status = "PENDING_DISBURSEMENT"
    /\ \A w \in Workers : Has(w, p) => rows[p].status = "PENDING_DISBURSEMENT"
    /\ \A r \in Requests : Retries(r, p) => rows[p].status = "FAILED"

Awaits == \A p \in PayoutIds : p \notin excuses => Awaited(p)

\* A step that leaves the row of p and gives it nobody new, or somebody who read the row.
LEMMA AwaitedKept ==
    ASSUME NEW p, Awaited(p), rows'[p] = rows[p],
           \A r \in Requests : Pays(r, p)' => Pays(r, p),
           \A w \in Workers : Has(w, p)' =>
              Has(w, p) \/ rows[p].status = "PENDING_DISBURSEMENT",
           \A r \in Requests : Retries(r, p)' => Retries(r, p) \/ rows[p].status = "FAILED"
    PROVE  Awaited(p)'
BY DEF Awaited

\* A request that comes to none of its payments.
LEMMA SlotAwaits ==
    ASSUME TypeOK, Copies, Awaits, NEW r \in Requests, UNCHANGED <<rows, job>>,
           \A r0 \in Requests \ {r} : op'[r0] = op[r0], excuses \subseteq excuses',
           op'[r].step \notin {"transfer", "store"},
           op'[r].step = "retry" => \E p \in PayoutIds :
              op'[r].payout.id = p /\ rows[p].status = "FAILED"
    PROVE  Awaits'
<1> SUFFICES ASSUME NEW p \in PayoutIds, p \notin excuses' PROVE Awaited(p)'
  BY DEF Awaits
<1>1. Awaited(p)
  BY DEF Awaits
<1>2. \A r0 \in Requests : Pays(r0, p)' => Pays(r0, p)
  BY DEF Pays
<1>3. \A w \in Workers : Has(w, p)' => Has(w, p)
  BY DEF Has, Queued
<1>4. \A r0 \in Requests : Retries(r0, p)' => Retries(r0, p) \/ rows[p].status = "FAILED"
  BY DEF Retries
<1> QED
  BY <1>1, <1>2, <1>3, <1>4, AwaitedKept

\* Calls that start, are refused or fail.
LEMMA QuietAwaits ==
    ASSUME TypeOK, Copies, Awaits, NEW r \in Requests,
           \/ \E s \in Subjects : InitiatePayout(r, s)
           \/ \E p \in PayoutIds : RetryFailedPayout(r, p)
           \/ CheckExisting(r) \/ CheckRefused(r) \/ InsertRefused(r) \/ RequestFails(r)
    PROVE  Awaits'
<1>1. /\ UNCHANGED <<rows, job>> /\ excuses \subseteq excuses'
      /\ \A r0 \in Requests \ {r} : op'[r0] = op[r0]
  BY DEF InitiatePayout, RetryFailedPayout, CheckExisting, CheckRefused,
         InsertRefused, RequestFails, TypeOK
<1>2. ASSUME NEW s \in Subjects, InitiatePayout(r, s)
      PROVE  op'[r].step = "check"
  <2> DEFINE o == [Idle EXCEPT !.step = "check", !.subject = s]
  <2>1. o.step = "check"
    BY DEF Idle
  <2> QED
    BY <1>2, <2>1 DEF InitiatePayout, TypeOK
<1>3. ASSUME NEW p \in PayoutIds, RetryFailedPayout(r, p)
      PROVE  /\ op'[r].step = "retry" /\ op'[r].payout.id = p
             /\ rows[p].status = "FAILED"
  <2>1. Exists(p) /\ rows[p].id = p /\ rows[p].status = "FAILED"
    BY <1>3 DEF RetryFailedPayout, Exists, Copies, RowIds
  <2>2. Retry(rows[p]).id = p
    BY <2>1 DEF Retry, TypeOK, Row, NoRow
  <2>3. op'[r].step = "retry" /\ op'[r].payout = Retry(rows[p])
    BY <1>3 DEF RetryFailedPayout, TypeOK
  <2> QED
    BY <2>1, <2>2, <2>3
<1>4. CheckExisting(r) => op'[r].step = "insert"
  BY DEF CheckExisting, TypeOK, Slot
<1>5. CheckRefused(r) \/ InsertRefused(r) \/ RequestFails(r) => op'[r].step = "idle"
  BY DEF CheckRefused, InsertRefused, RequestFails, TypeOK, Idle
<1> QED
  BY <1>1, <1>2, <1>3, <1>4, <1>5, SlotAwaits

\* A copy that is stored ends what was waiting for it.
LEMMA SaveAwaits ==
    ASSUME TypeOK, Copies, Ledger, Awaits, NEW a \in PayoutRec, Save(a),
           excuses \subseteq excuses',
           \A p \in PayoutIds \ {a.id} : p \notin excuses' =>
              /\ \A r \in Requests : Pays(r, p)' => Pays(r, p)
              /\ \A w \in Workers : Has(w, p)' => Has(w, p)
              /\ \A r \in Requests : Retries(r, p)' => Retries(r, p),
           a.id \in excuses' \/ Awaited(a.id)'
    PROVE  Awaits'
<1> SUFFICES ASSUME NEW p \in PayoutIds, p \notin excuses' PROVE Awaited(p)'
  BY DEF Awaits
<1>1. CASE p = a.id
  BY <1>1
<1>2. CASE p # a.id
  <2>1. rows'[p] = rows[p]
    BY <1>2, SaveFacts
  <2> QED
    BY <1>2, <2>1, AwaitedKept DEF Awaits
<1> QED
  BY <1>1, <1>2

\* A new row is pending, and nobody is about to retry it.
LEMMA InsertAwaits ==
    ASSUME TypeOK, Copies, Ledger, Awaits, NEW r \in Requests, InsertRow(r)
    PROVE  Awaits'
<1>0. PICK a \in PayoutRec : a = op[r].payout
  BY DEF Copies, Slots, SlotOK, InsertRow
<1>1. /\ a \in PayoutRec /\ a.id \in PayoutIds /\ ~Exists(a.id) /\ Save(a)
      /\ a.status = "PENDING_DISBURSEMENT" /\ UNCHANGED <<job, excuses>>
  BY <1>0 DEF Copies, Slots, SlotOK, InsertRow, PayoutRec
<1>2. /\ op'[r].step = "transfer" /\ op'[r].payout = a
      /\ \A r0 \in Requests \ {r} : op'[r0] = op[r0]
  BY <1>0 DEF InsertRow, TypeOK, Slot
<1>3. rows'[a.id].status = "PENDING_DISBURSEMENT"
  BY <1>1, SaveFacts
<1>4. \A r0 \in Requests : ~Retries(r0, a.id)'
  BY <1>1, <1>2 DEF Retries, Copies, Slots, SlotOK, Stored
<1>5. Awaited(a.id)'
  BY <1>3, <1>4 DEF Awaited
<1>6. ASSUME NEW p \in PayoutIds \ {a.id}
      PROVE  /\ \A r0 \in Requests : Pays(r0, p)' => Pays(r0, p)
             /\ \A w \in Workers : Has(w, p)' => Has(w, p)
             /\ \A r0 \in Requests : Retries(r0, p)' => Retries(r0, p)
  BY <1>1, <1>2 DEF Pays, Has, Queued, Retries
<1> QED
  BY <1>1, <1>5, <1>6, SaveAwaits

\* The gateway answers a request; the row waits for the answer.
LEMMA TransferAwaits ==
    ASSUME TypeOK, Copies, Awaits, NEW r \in Requests, RequestTransfer(r)
    PROVE  Awaits'
<1>1. PICK o \in Outcomes(op[r].payout) :
        /\ op' = [op EXCEPT ![r].step = "store", ![r].payout = o.answer]
        /\ UNCHANGED <<rows, job>> /\ excuses \subseteq excuses'
  BY DEF RequestTransfer
<1>2. op[r].payout \in PayoutRec /\ op[r].step = "transfer"
  BY DEF Copies, Slots, SlotOK, RequestTransfer
<1>3. o.answer.id = op[r].payout.id
  BY <1>2, OutcomeFacts DEF TypeOK
<1>4. /\ op'[r].step = "store" /\ op'[r].payout = o.answer
      /\ \A r0 \in Requests \ {r} : op'[r0] = op[r0]
  BY <1>1 DEF TypeOK, Slot
<1> SUFFICES ASSUME NEW p \in PayoutIds, p \notin excuses' PROVE Awaited(p)'
  BY DEF Awaits
<1>5. Awaited(p)
  BY <1>1 DEF Awaits
<1>6. \A r0 \in Requests : Pays(r0, p)' => Pays(r0, p)
  BY <1>2, <1>3, <1>4 DEF Pays
<1>7. \A w \in Workers : Has(w, p)' => Has(w, p)
  BY <1>1 DEF Has, Queued
<1>8. \A r0 \in Requests : Retries(r0, p)' => Retries(r0, p)
  BY <1>4 DEF Retries
<1> QED
  BY <1>1, <1>5, <1>6, <1>7, <1>8, AwaitedKept

\* Once the answer is stored nobody pays the payout any more.
LEMMA StoreAwaits ==
    ASSUME TypeOK, Copies, Ledger, Awaits, NEW r \in Requests, StoreOutcome(r)
    PROVE  Awaits'
<1>0. PICK a \in PayoutRec : a = op[r].payout
  BY DEF Copies, Slots, SlotOK, StoreOutcome, Answer
<1>1. /\ a \in PayoutRec /\ a.id \in PayoutIds /\ op[r].step = "store" /\ Save(a)
      /\ UNCHANGED <<job, excuses>>
  BY <1>0 DEF Copies, Slots, SlotOK, StoreOutcome, Answer, PayoutRec
<1>2. op'[r].step = "idle" /\ \A r0 \in Requests \ {r} : op'[r0] = op[r0]
  BY DEF StoreOutcome, TypeOK, Idle
<1>3. ASSUME a.id \notin excuses
      PROVE  Awaited(a.id)'
  <2>1. Clean(a.id) /\ Awaited(a.id) /\ Pays(r, a.id)
    BY <1>0, <1>1, <1>3 DEF Ledger, Awaits, Pays
  <2>2. \A w \in Workers : ~Has(w, a.id)'
    BY <1>1, <2>1 DEF Clean, SolePayer, Has, Queued
  <2>3. \A r0 \in Requests : ~Pays(r0, a.id)'
    BY <1>0, <1>1, <1>2 DEF Copies, OwnIds, Pays
  <2>4. \A r0 \in Requests : ~Retries(r0, a.id)'
    BY <1>1, <1>2, <2>1 DEF Awaited, Retries
  <2> QED
    BY <2>2, <2>3, <2>4 DEF Awaited
<1>4. ASSUME NEW p \in PayoutIds \ {a.id}
      PROVE  /\ \A r0 \in Requests : Pays(r0, p)' => Pays(r0, p)
             /\ \A w \in Workers : Has(w, p)' => Has(w, p)
             /\ \A r0 \in Requests : Retries(r0, p)' => Retries(r0, p)
  BY <1>1, <1>2 DEF Pays, Has, Queued, Retries
<1> QED
  BY <1>1, <1>3, <1>4, SaveAwaits

\* What is retried is excused.
LEMMA StoreRetryAwaits ==
    ASSUME TypeOK, Copies, Ledger, Awaits, NEW r \in Requests, StoreRetry(r)
    PROVE  Awaits'
<1>0. PICK a \in PayoutRec : a = op[r].payout
  BY DEF Copies, Slots, SlotOK, StoreRetry
<1>1. /\ a \in PayoutRec /\ a.id \in excuses' /\ Save(a)
      /\ job' = job /\ excuses \subseteq excuses'
  BY <1>0 DEF Copies, Slots, SlotOK, StoreRetry
<1>2. op'[r].step = "check" /\ \A r0 \in Requests \ {r} : op'[r0] = op[r0]
  BY DEF StoreRetry, TypeOK, Slot
<1>3. ASSUME NEW p \in PayoutIds \ {a.id}
      PROVE  /\ \A r0 \in Requests : Pays(r0, p)' => Pays(r0, p)
             /\ \A w \in Workers : Has(w, p)' => Has(w, p)
             /\ \A r0 \in Requests : Retries(r0, p)' => Retries(r0, p)
  BY <1>1, <1>2 DEF Pays, Has, Queued, Retries
<1> QED
  BY <1>1, <1>3, SaveAwaits
\* The worker: it finds what is pending, asks for one after the other, and stores.
LEMMA WorkerAwaits ==
    ASSUME TypeOK, Copies, Awaits, NEW w \in Workers,
           FindPendingPayouts(w) \/ PayNext(w) \/ StoreAnswerFails(w)
    PROVE  Awaits'
<1>1. /\ UNCHANGED <<rows, op>> /\ excuses \subseteq excuses'
      /\ \A v \in Workers \ {w} : job'[v] = job[v]
  BY DEF FindPendingPayouts, PayNext, StoreAnswerFails, TypeOK
<1>2. NoRow.id \notin PayoutIds
  BY NoRowFacts
<1>3. ASSUME NEW p \in PayoutIds, Has(w, p)'
      PROVE  Has(w, p) \/ rows[p].status = "PENDING_DISBURSEMENT"
  <2>1. CASE FindPendingPayouts(w)
    <3>1. job'[w].queue = Pending /\ job'[w].answered = NoRow
      BY <2>1 DEF FindPendingPayouts, TypeOK, Worker, NoJob
    <3>2. \A q \in Pending : rows[q.id].status = "PENDING_DISBURSEMENT"
      BY NoRowFacts DEF Pending, Copies, RowIds, Exists
    <3> QED
      BY <1>2, <1>3, <3>1, <3>2 DEF Has, Queued
  <2>2. CASE PayNext(w)
    <3>1. PICK b \in job[w].queue : \E o \in Outcomes(b) :
            job' = [job EXCEPT ![w] = [queue |-> @.queue \ {b}, answered |-> o.answer]]
      BY <2>2 DEF PayNext
    <3>2. PICK o \in Outcomes(b) :
            job' = [job EXCEPT ![w] = [queue |-> @.queue \ {b}, answered |-> o.answer]]
      BY <3>1
    <3>3. o.answer.id = b.id
      BY RowIsPayout, OutcomeFacts DEF Copies, Jobs, JobOK, TypeOK
    <3>4. job'[w].queue \subseteq job[w].queue /\ job'[w].answered = o.answer
      BY <3>2 DEF TypeOK
    <3> QED
      BY <1>3, <3>3, <3>4 DEF Has, Queued
  <2>3. CASE StoreAnswerFails(w)
    <3>1. job'[w].queue = job[w].queue /\ job'[w].answered = NoRow
      BY <2>3 DEF StoreAnswerFails, TypeOK, Worker
    <3> QED
      BY <1>2, <1>3, <3>1 DEF Has, Queued
  <2> QED
    BY <2>1, <2>2, <2>3
<1> SUFFICES ASSUME NEW p \in PayoutIds, p \notin excuses' PROVE Awaited(p)'
  BY DEF Awaits
<1>4. Awaited(p)
  BY <1>1 DEF Awaits
<1>5. \A v \in Workers : Has(v, p)' => Has(v, p) \/ rows[p].status = "PENDING_DISBURSEMENT"
  BY <1>1, <1>3 DEF Has, Queued
<1>6. \A r \in Requests : (Pays(r, p)' => Pays(r, p)) /\ (Retries(r, p)' => Retries(r, p))
  BY <1>1 DEF Pays, Retries
<1> QED
  BY <1>1, <1>4, <1>5, <1>6, AwaitedKept

LEMMA StoreAnswerAwaits ==
    ASSUME TypeOK, Copies, Ledger, Awaits, NEW w \in Workers, StoreAnswer(w)
    PROVE  Awaits'
<1>0. PICK a \in PayoutRec : a = job[w].answered
  BY DEF Copies, Jobs, JobOK, StoreAnswer, Answer
<1>1. /\ a \in PayoutRec /\ a.id \in PayoutIds /\ Save(a) /\ UNCHANGED <<op, excuses>>
  BY <1>0 DEF Copies, Jobs, JobOK, StoreAnswer, Answer, PayoutRec
<1>2. /\ job'[w].queue = job[w].queue /\ job'[w].answered = NoRow
      /\ \A v \in Workers \ {w} : job'[v] = job[v]
  BY DEF StoreAnswer, TypeOK, Worker
<1>3. NoRow.id \notin PayoutIds
  BY NoRowFacts
<1>4. ASSUME a.id \notin excuses
      PROVE  Awaited(a.id)'
  <2>1. Clean(a.id) /\ Awaited(a.id) /\ Has(w, a.id)
    BY <1>0, <1>1, <1>4 DEF Ledger, Awaits, Has
  <2>2. \A r \in Requests : ~Pays(r, a.id)'
    BY <1>1, <2>1 DEF Clean, SolePayer, Pays
  <2>3. ASSUME NEW v \in Workers PROVE ~Has(v, a.id)'
    <3>1. CASE v = w
      <4>1. ~Queued(w, a.id)
        BY <1>0, <2>1 DEF Clean, SolePayer
      <4> QED
        BY <1>1, <1>2, <1>3, <3>1, <4>1 DEF Has, Queued
    <3>2. CASE v # w
      BY <1>2, <2>1, <3>2 DEF Clean, SolePayer, Has, Queued
    <3> QED
      BY <3>1, <3>2
  <2>4. \A r \in Requests : ~Retries(r, a.id)'
    BY <1>1, <2>1 DEF Awaited, Retries
  <2> QED
    BY <2>2, <2>3, <2>4 DEF Awaited
<1>5. ASSUME NEW p \in PayoutIds \ {a.id}
      PROVE  /\ \A r \in Requests : Pays(r, p)' => Pays(r, p)
             /\ \A v \in Workers : Has(v, p)' => Has(v, p)
             /\ \A r \in Requests : Retries(r, p)' => Retries(r, p)
  BY <1>1, <1>2, <1>3 DEF Pays, Has, Queued, Retries
<1> QED
  BY <1>1, <1>4, <1>5, SaveAwaits

\* After a restart nobody holds anything.
LEMMA CrashAwaits ==
    ASSUME TypeOK, Awaits, Crash
    PROVE  Awaits'
<1>1. /\ \A r \in Requests : op'[r].step = "idle"
      /\ \A w \in Workers : job'[w].queue = {} /\ job'[w].answered = NoRow
  BY DEF Crash, Idle, NoJob
<1> QED
  BY <1>1, NoRowFacts DEF Awaits, Awaited, Pays, Has, Queued, Retries

LEMMA AwaitsNext == TypeOK /\ Copies /\ Ledger /\ Awaits /\ [Next]_vars => Awaits'
<1> SUFFICES ASSUME TypeOK, Copies, Ledger, Awaits, [Next]_vars PROVE Awaits'
  OBVIOUS
<1>1. ASSUME NEW r \in Requests,
             \/ \E s \in Subjects : InitiatePayout(r, s)
             \/ \E p \in PayoutIds : RetryFailedPayout(r, p)
             \/ RequestStep(r) \/ RequestFails(r)
      PROVE  Awaits'
  BY <1>1, QuietAwaits, InsertAwaits, TransferAwaits, StoreAwaits, StoreRetryAwaits
     DEF RequestStep
<1>2. ASSUME NEW w \in Workers, WorkerStep(w) \/ StoreAnswerFails(w)
      PROVE  Awaits'
  BY <1>2, WorkerAwaits, StoreAnswerAwaits DEF WorkerStep
<1>3. CASE Crash
  BY <1>3, CrashAwaits
<1>4. CASE UNCHANGED vars
  BY <1>4 DEF vars, Awaits, Awaited, Pays, Has, Queued, Retries
<1> QED
  BY <1>1, <1>2, <1>3, <1>4 DEF Next

\* The ledger and what it waits for hold together.
THEOREM LedgerInvariant == Spec => [](TypeOK /\ Copies /\ Ledger /\ Awaits)
<1>1. Init => Ledger
  BY LedgerInit
<1>2. Init => Awaits
  BY NoRowFacts DEF Init, Idle, NoJob, Awaits, Awaited, Pays, Has, Queued, Retries
<1> QED
  BY <1>1, <1>2, LedgerNext, AwaitsNext, CopiesInvariant, PTL DEF Spec

-----------------------------------------------------------------------------
(* The steps of Payout seen as steps of PayoutProtocol.                     *)

\* What the refinement mapping makes of a table.
ShownStatus(t) == [p \in PayoutIds |-> t[p].status]
ShownSubject(t) == [p \in PayoutIds |-> t[p].subject]
ShownReference(t) ==
    [p \in PayoutIds |-> IF t[p].status = "PROCESSING" THEN t[p].ref ELSE None]

Follows == [Protocol!Next]_(Protocol!vars)

\* A row of no payout is NoRow.
LEMMA EmptyRow == TypeOK => \A p \in PayoutIds : ~Exists(p) => rows[p] = NoRow
BY DEF TypeOK, Exists, Row, PayoutStatus

\* Saving a copy changes what the mapping shows of one payout.
LEMMA SaveShows ==
    ASSUME TypeOK, NEW a \in PayoutRec, Save(a)
    PROVE  /\ ShownStatus(rows') = [ShownStatus(rows) EXCEPT ![a.id] = a.status]
           /\ ShownSubject(rows') = [ShownSubject(rows) EXCEPT ![a.id] = a.subject]
           /\ a.status = "PROCESSING" /\ a.ref # Undefined =>
                ShownReference(rows') = [ShownReference(rows) EXCEPT ![a.id] = a.ref]
           /\ a.status # "PROCESSING" =>
                ShownReference(rows') = [ShownReference(rows) EXCEPT ![a.id] = None]
<1>1. /\ rows'[a.id].subject = a.subject /\ rows'[a.id].status = a.status
      /\ a.ref # Undefined => rows'[a.id].ref = a.ref
      /\ \A q \in PayoutIds : q # a.id => rows'[q] = rows[q]
  BY SaveFacts
<1> QED
  BY <1>1 DEF ShownStatus, ShownSubject, ShownReference

\* The table keeps the subject of a payout that was stored before.
LEMMA SaveKeepsSubject ==
    ASSUME TypeOK, NEW a \in PayoutRec, Save(a), Stored(a)
    PROVE  ShownSubject(rows') = ShownSubject(rows)
<1>1. /\ rows'[a.id].subject = a.subject
      /\ \A q \in PayoutIds : q # a.id => rows'[q] = rows[q]
  BY SaveFacts
<1>2. \A q \in PayoutIds : rows'[q].subject = rows[q].subject
  BY <1>1 DEF Stored
<1> QED
  BY <1>2 DEF ShownSubject

\* A step that touches neither tables nor excuses cannot be seen.
LEMMA HiddenFollows == UNCHANGED <<rows, transfers, excuses>> => Follows
BY DEF Follows, Protocol!vars

\* A step that only excuses payouts of the table.
LEMMA ExcuseFollows ==
    ASSUME UNCHANGED <<rows, transfers>>, NEW S \in SUBSET PayoutIds,
           \A p \in S : Exists(p), excuses' = excuses \cup S
    PROVE  Follows
<1>1. Protocol!Excuse(S)
  BY DEF Protocol!Excuse, Exists
<1> QED
  BY <1>1 DEF Follows, Protocol!Next

\* The insert: a new payout, the only one its booking has.
LEMMA InsertFollows ==
    ASSUME TypeOK, Copies, NEW r \in Requests, InsertRow(r)
    PROVE  Follows
<1>1. PICK a \in PayoutRec : a = op[r].payout
  BY DEF Copies, Slots, SlotOK, InsertRow
<1>2. /\ a.id \in PayoutIds /\ a.subject \in Subjects /\ ~Exists(a.id) /\ Save(a)
      /\ a.status = "PENDING_DISBURSEMENT" /\ UniqueBooking(a)
      /\ UNCHANGED <<transfers, excuses>>
  BY <1>1 DEF Copies, Slots, SlotOK, InsertRow, PayoutRec
<1>3. /\ ShownStatus(rows') = [ShownStatus(rows) EXCEPT ![a.id] = "PENDING_DISBURSEMENT"]
      /\ ShownSubject(rows') = [ShownSubject(rows) EXCEPT ![a.id] = a.subject]
      /\ ShownReference(rows') = [ShownReference(rows) EXCEPT ![a.id] = None]
  BY <1>2, SaveShows
<1>4. ShownReference(rows') = ShownReference(rows)
  BY <1>2, <1>3 DEF ShownReference, Exists
<1>5. a.subject \in Bookings => \A q \in PayoutIds : rows[q].subject # a.subject
  <2> SUFFICES ASSUME a.subject \in Bookings, NEW q \in PayoutIds
               PROVE  rows[q].subject # a.subject
    OBVIOUS
  <2>1. CASE Exists(q)
    BY <1>2, <2>1 DEF UniqueBooking, Existing
  <2>2. CASE ~Exists(q)
    BY <1>2, <2>2, EmptyRow, NoRowFacts, ValueAssumption
  <2> QED
    BY <2>1, <2>2
<1>6. Protocol!Open(a.id, a.subject)
  BY <1>2, <1>3, <1>4, <1>5
     DEF Protocol!Open, ShownStatus, ShownSubject, ShownReference, Exists
<1> QED
  BY <1>2, <1>6 DEF Follows, Protocol!Next, Subjects

\* No transfer has this id, and the gateway gives no other to what it pays.
FreshTransfer(t) == \A u \in transfers : u.id # t

LEMMA AskedOutcomes ==
    ASSUME NEW p \in PayoutRec, NEW o \in Outcomes(p)
    PROVE  \/ o.paid = {} /\ o.unanswered = FALSE
           \/ \E t \in TransferIds : FreshTransfer(t) /\ o.paid = {[id |-> t, payout |-> p.id]}
<1> DEFINE fresh == { t \in TransferIds : \A u \in transfers : u.id # t }
<1>1. \/ o = [paid |-> {}, unanswered |-> FALSE, answer |-> MarkAsFailed(p)]
      \/ \E t \in fresh : o = [paid |-> {[id |-> t, payout |-> p.id]}, unanswered |-> FALSE,
                                answer |-> Initiate(p, t)]
      \/ \E t \in fresh : o = [paid |-> {[id |-> t, payout |-> p.id]}, unanswered |-> TRUE,
                                answer |-> MarkAsFailed(p)]
  BY DEF Outcomes
<1> QED
  BY <1>1 DEF FreshTransfer

\* The gateway is asked for a payout in the table which, unless it is excused, is due.
LEMMA AskFollows ==
    ASSUME TypeOK, NEW p \in PayoutRec, p.id \in PayoutIds, Exists(p.id), NEW o \in Outcomes(p),
           p.id \in excuses \/ (rows[p.id].status = "PENDING_DISBURSEMENT" /\ NoMoney(p.id)),
           rows' = rows, transfers' = transfers \cup o.paid,
           excuses' = excuses \cup IF o.unanswered THEN {p.id} ELSE {}
    PROVE  Follows
<1>0. \/ o.paid = {} /\ o.unanswered = FALSE
      \/ \E t \in TransferIds : FreshTransfer(t) /\ o.paid = {[id |-> t, payout |-> p.id]}
  BY AskedOutcomes
<1>1. CASE o.paid = {} /\ o.unanswered = FALSE
  BY <1>1, HiddenFollows
<1>2. ASSUME NEW t \in TransferIds, FreshTransfer(t), o.paid = {[id |-> t, payout |-> p.id]}
      PROVE  Follows
  <2>3. p.id \in excuses \/ Protocol!PaidFor(p.id) = {}
    BY DEF NoMoney, Protocol!PaidFor
  <2>4. excuses' \in {excuses, excuses \cup {p.id}}
    OBVIOUS
  <2>5. Protocol!PayOut(p.id, t)
    BY <1>2, <2>3, <2>4 DEF FreshTransfer, Protocol!PayOut, Protocol!Due, Exists
  <2> QED
    BY <2>5 DEF Follows, Protocol!Next
<1> QED
  BY <1>0, <1>1, <1>2

LEMMA TransferFollows ==
    ASSUME TypeOK, Copies, Ledger, Awaits, NEW r \in Requests, RequestTransfer(r)
    PROVE  Follows
<1>1. PICK a \in PayoutRec : a = op[r].payout
  BY DEF Copies, Slots, SlotOK, RequestTransfer
<1>2. a.id \in PayoutIds /\ Exists(a.id) /\ Pays(r, a.id) /\ op[r].payout.status # "PROCESSING"
  BY <1>1 DEF Copies, Slots, SlotOK, RequestTransfer, PayoutRec, Pays, Stored
<1>3. a.id \in excuses \/ (rows[a.id].status = "PENDING_DISBURSEMENT" /\ NoMoney(a.id))
  BY <1>2 DEF Ledger, Clean, Unpaid, Awaits, Awaited
<1> QED
  BY <1>1, <1>2, <1>3, AskFollows DEF RequestTransfer

LEMMA PayFollows ==
    ASSUME TypeOK, Copies, Ledger, Awaits, NEW w \in Workers, PayNext(w)
    PROVE  Follows
<1>1. PICK a \in job[w].queue : \E o \in Outcomes(a) :
        /\ transfers' = transfers \cup o.paid
        /\ excuses' = excuses \cup IF o.unanswered THEN {a.id} ELSE {}
  BY DEF PayNext
<1>2. a \in PayoutRec /\ a.id \in PayoutIds /\ Exists(a.id) /\ Queued(w, a.id)
  BY <1>1, RowIsPayout DEF Copies, Jobs, JobOK, Row, Queued, Stored
<1>3. a.id \in excuses \/ (rows[a.id].status = "PENDING_DISBURSEMENT" /\ NoMoney(a.id))
  BY <1>2 DEF Ledger, Clean, Unpaid, Awaits, Awaited, Has
<1> QED
  BY <1>1, <1>2, <1>3, AskFollows DEF PayNext

\* An answer is stored: the transfer is recorded, or the payout fails.
LEMMA StoredFollows ==
    ASSUME TypeOK, NEW a \in PayoutRec, Answer(a), Save(a), UNCHANGED <<transfers, excuses>>,
           a.id \in excuses \/ (/\ rows[a.id].status = "PENDING_DISBURSEMENT"
                                /\ Accounted(a.id)
                                /\ a.status = "FAILED" => NoMoney(a.id))
    PROVE  Follows
<1>1. /\ a.id \in PayoutIds /\ Exists(a.id)
      /\ ShownStatus(rows') = [ShownStatus(rows) EXCEPT ![a.id] = a.status]
      /\ ShownSubject(rows') = ShownSubject(rows)
  BY SaveShows, SaveKeepsSubject DEF Answer, PayoutRec, Stored
<1>2. CASE a.status = "FAILED"
  <2>1. ShownReference(rows') = [ShownReference(rows) EXCEPT ![a.id] = None]
    BY <1>2, SaveShows
  <2>2. a.id \in excuses \/ Protocol!PaidFor(a.id) = {}
    BY <1>2 DEF NoMoney, Protocol!PaidFor
  <2>3. Protocol!Fail(a.id)
    BY <1>1, <1>2, <2>1, <2>2
       DEF Protocol!Fail, Protocol!Due, ShownStatus, ShownSubject, ShownReference, Exists
  <2> QED
    BY <1>1, <2>3 DEF Follows, Protocol!Next
<1>3. CASE a.status = "PROCESSING" /\ a.ref # Undefined /\ Backed(a)
  <2>1. ShownReference(rows') = [ShownReference(rows) EXCEPT ![a.id] = a.ref]
    BY <1>3, SaveShows
  <2>2. PICK u \in transfers : u.payout = a.id /\ u.id = a.ref
    BY <1>3 DEF Backed
  <2>3. a.ref \in TransferIds /\ a.ref \in Protocol!PaidFor(a.id)
    BY <2>2 DEF TypeOK, Transfer, Protocol!PaidFor
  <2>4. a.id \in excuses \/ Protocol!PaidFor(a.id) = {a.ref}
    BY <2>2 DEF Accounted, Protocol!PaidFor
  <2>5. Protocol!Record(a.id, a.ref)
    BY <1>1, <1>3, <2>1, <2>3, <2>4
       DEF Protocol!Record, ShownStatus, ShownSubject, ShownReference, Exists
  <2> QED
    BY <1>1, <2>3, <2>5 DEF Follows, Protocol!Next
<1> QED
  BY <1>2, <1>3 DEF Answer

LEMMA StoreFollows ==
    ASSUME TypeOK, Copies, Ledger, Awaits, NEW r \in Requests, StoreOutcome(r)
    PROVE  Follows
<1>1. PICK a \in PayoutRec : a = op[r].payout
  BY DEF Copies, Slots, SlotOK, StoreOutcome, Answer
<1>2. a.id \in PayoutIds /\ Answer(a) /\ Pays(r, a.id)
  BY <1>1 DEF Copies, Slots, SlotOK, StoreOutcome, Answer, PayoutRec, Pays
<1>3. a.id \in excuses \/ (/\ rows[a.id].status = "PENDING_DISBURSEMENT"
                           /\ Accounted(a.id)
                           /\ a.status = "FAILED" => NoMoney(a.id))
  BY <1>1, <1>2 DEF Ledger, Clean, Unpaid, Awaits, Awaited
<1> QED
  BY <1>1, <1>2, <1>3, StoredFollows DEF StoreOutcome

LEMMA StoreAnswerFollows ==
    ASSUME TypeOK, Copies, Ledger, Awaits, NEW w \in Workers, StoreAnswer(w)
    PROVE  Follows
<1>1. PICK a \in PayoutRec : a = job[w].answered
  BY DEF Copies, Jobs, JobOK, StoreAnswer, Answer
<1>2. a.id \in PayoutIds /\ Answer(a) /\ Has(w, a.id)
  BY <1>1 DEF Copies, Jobs, JobOK, StoreAnswer, Answer, PayoutRec, Has
<1>3. a.id \in excuses \/ (/\ rows[a.id].status = "PENDING_DISBURSEMENT"
                           /\ Accounted(a.id)
                           /\ a.status = "FAILED" => NoMoney(a.id))
  BY <1>1, <1>2 DEF Ledger, Clean, Unpaid, Awaits, Awaited
<1> QED
  BY <1>1, <1>2, <1>3, StoredFollows DEF StoreAnswer

\* A retry that is stored reopens what has failed.
LEMMA StoreRetryFollows ==
    ASSUME TypeOK, Copies, Awaits, NEW r \in Requests, StoreRetry(r)
    PROVE  Follows
<1>1. PICK a \in PayoutRec : a = op[r].payout
  BY DEF Copies, Slots, SlotOK, StoreRetry
<1>2. /\ a.id \in PayoutIds /\ Stored(a) /\ a.status = "PENDING_DISBURSEMENT" /\ Save(a)
      /\ Retries(r, a.id) /\ transfers' = transfers /\ excuses' = excuses \cup {a.id}
  BY <1>1 DEF Copies, Slots, SlotOK, StoreRetry, PayoutRec, Retries
<1>3. /\ ShownStatus(rows') = [ShownStatus(rows) EXCEPT ![a.id] = "PENDING_DISBURSEMENT"]
      /\ ShownSubject(rows') = ShownSubject(rows)
      /\ ShownReference(rows') = [ShownReference(rows) EXCEPT ![a.id] = None]
  BY <1>2, SaveShows, SaveKeepsSubject
<1>4. a.id \in excuses \/ rows[a.id].status = "FAILED"
  BY <1>2 DEF Awaits, Awaited
<1>5. Protocol!Reopen(a.id)
  BY <1>2, <1>3, <1>4
     DEF Protocol!Reopen, ShownStatus, ShownSubject, ShownReference, Stored, Exists
<1> QED
  BY <1>2, <1>5 DEF Follows, Protocol!Next

\* The query excuses what somebody pays already; all of it is in the table.
LEMMA FindFollows ==
    ASSUME TypeOK, Copies, NEW w \in Workers, FindPendingPayouts(w)
    PROVE  Follows
<1> DEFINE S == { p.id : p \in { q \in Pending : BeingPaid(q.id) } }
<1>1. \A q \in Pending : q.id \in PayoutIds /\ Exists(q.id)
  BY DEF Pending, Copies, RowIds, Exists
<1>2. S \in SUBSET PayoutIds /\ \A p \in S : Exists(p)
  BY <1>1
<1> QED
  BY <1>2, ExcuseFollows DEF FindPendingPayouts

\* What is forgotten was an answer about a payout of the table.
LEMMA ForgetFollows ==
    ASSUME TypeOK, Copies, NEW R \in SUBSET Requests, NEW W \in SUBSET Workers,
           UNCHANGED <<rows, transfers>>, excuses' = excuses \cup Forgotten(R, W)
    PROVE  Follows
<1>1. \A r \in R : op[r].step = "store" =>
        op[r].payout.id \in PayoutIds /\ Exists(op[r].payout.id)
  BY DEF Copies, Slots, SlotOK, Answer, Stored, PayoutRec
<1>2. \A w \in W : job[w].answered # NoRow =>
        job[w].answered.id \in PayoutIds /\ Exists(job[w].answered.id)
  BY DEF Copies, Jobs, JobOK, Answer, Stored, PayoutRec
<1>3. Forgotten(R, W) \in SUBSET PayoutIds /\ \A p \in Forgotten(R, W) : Exists(p)
  BY <1>1, <1>2 DEF Forgotten
<1> QED
  BY <1>3, ExcuseFollows

LEMMA StepsFollow ==
    ASSUME TypeOK, Copies, Ledger, Awaits, [Next]_vars
    PROVE  Follows
<1>1. ASSUME NEW r \in Requests,
             \/ \E s \in Subjects : InitiatePayout(r, s)
             \/ \E p \in PayoutIds : RetryFailedPayout(r, p)
             \/ CheckExisting(r) \/ CheckRefused(r) \/ InsertRefused(r)
      PROVE  Follows
  BY <1>1, HiddenFollows
     DEF InitiatePayout, RetryFailedPayout, CheckExisting, CheckRefused, InsertRefused
<1>2. ASSUME NEW r \in Requests, RequestFails(r)
      PROVE  Follows
  BY <1>2, ForgetFollows DEF RequestFails
<1>3. ASSUME NEW w \in Workers, StoreAnswerFails(w)
      PROVE  Follows
  BY <1>3, ForgetFollows DEF StoreAnswerFails
<1>4. CASE Crash
  BY <1>4, ForgetFollows DEF Crash
<1>5. CASE UNCHANGED vars
  BY <1>5, HiddenFollows DEF vars
<1> QED
  BY <1>1, <1>2, <1>3, <1>4, <1>5, InsertFollows, TransferFollows, StoreFollows,
     StoreRetryFollows, FindFollows, PayFollows, StoreAnswerFollows
     DEF Next, RequestStep, WorkerStep

\* PayoutService, its callers, the queue worker and the failures between their writes do
\* what PayoutProtocol promises: a payout without an excuse is paid once and while its row
\* is pending, its row names that transfer, and it fails only if no money went out.
THEOREM ImplementsProtocol == Spec => FollowsProtocol
<1>1. Init => Protocol!Init
  BY NoRowFacts DEF Init, Protocol!Init
<1>2. TypeOK /\ Copies /\ Ledger /\ Awaits /\ [Next]_vars => [Protocol!Next]_(Protocol!vars)
  BY StepsFollow DEF Follows
<1> QED
  BY <1>1, <1>2, LedgerInvariant, PTL DEF Spec, FollowsProtocol, Protocol!Spec
=============================================================================
