---------------------------- MODULE PayoutProtocol ----------------------------
(***************************************************************************)
(* What the payout component promises about one payout, with no calls in      *)
(* flight and no copies in memory: a payout is opened, money goes out for it    *)
(* at most once and while it is pending, and its row then says whether it did.  *)
(* A payout that has an excuse may be paid again and its row be written out of  *)
(* turn; what it never does is name a transfer that was not made for it.       *)
(* Payout.tla, where calls and workers write stale copies, implements this.    *)
(***************************************************************************)
EXTENDS FiniteSets

CONSTANTS Bookings, Extensions, PayoutIds, TransferIds, None

VARIABLES
    status,      \* [PayoutIds -> payout status], "NONE" before it is opened
    subject,     \* [PayoutIds -> what it is for, or None]
    reference,   \* [PayoutIds -> the transfer a row in PROCESSING names, or None]
    transfers,   \* what has been paid out
    excused      \* payouts that met something that may cost money

vars == <<status, subject, reference, transfers, excused>>

PaidFor(p) == {t.id : t \in {u \in transfers : u.payout = p}}

Init ==
    /\ status = [p \in PayoutIds |-> "NONE"]
    /\ subject = [p \in PayoutIds |-> None]
    /\ reference = [p \in PayoutIds |-> None]
    /\ transfers = {} /\ excused = {}

\* A booking has one payout in its life.
Open(p, s) ==
    /\ status[p] = "NONE"
    /\ s \in Bookings => \A q \in PayoutIds : subject[q] # s
    /\ status' = [status EXCEPT ![p] = "PENDING_DISBURSEMENT"]
    /\ subject' = [subject EXCEPT ![p] = s]
    /\ UNCHANGED <<reference, transfers, excused>>

\* What is due: pending, and not a kobo paid.
Due(p) == status[p] = "PENDING_DISBURSEMENT" /\ PaidFor(p) = {}

\* Money goes out, with an answer or without one.
PayOut(p, t) ==
    /\ status[p] # "NONE"
    /\ p \in excused \/ Due(p)
    /\ \A u \in transfers : u.id # t
    /\ transfers' = transfers \cup {[id |-> t, payout |-> p]}
    /\ excused' \in {excused, excused \cup {p}}
    /\ UNCHANGED <<status, subject, reference>>

\* The row names the transfer: the only one, unless the payout is excused.
Record(p, t) ==
    /\ t \in PaidFor(p)
    /\ p \in excused \/ (status[p] = "PENDING_DISBURSEMENT" /\ PaidFor(p) = {t})
    /\ status' = [status EXCEPT ![p] = "PROCESSING"]
    /\ reference' = [reference EXCEPT ![p] = t]
    /\ UNCHANGED <<subject, transfers, excused>>

Fail(p) ==
    /\ status[p] # "NONE"
    /\ p \in excused \/ Due(p)
    /\ status' = [status EXCEPT ![p] = "FAILED"]
    /\ reference' = [reference EXCEPT ![p] = None]
    /\ UNCHANGED <<subject, transfers, excused>>

\* Only what has failed is retried, and whatever is retried is excused.
Reopen(p) ==
    /\ status[p] # "NONE"
    /\ p \in excused \/ status[p] = "FAILED"
    /\ status' = [status EXCEPT ![p] = "PENDING_DISBURSEMENT"]
    /\ reference' = [reference EXCEPT ![p] = None]
    /\ excused' = excused \cup {p}
    /\ UNCHANGED <<subject, transfers>>

\* An answer or a write is lost, or a worker takes up what is being paid.
Excuse(S) ==
    /\ \A p \in S : status[p] # "NONE"
    /\ excused' = excused \cup S
    /\ UNCHANGED <<status, subject, reference, transfers>>

Next ==
    \/ \E p \in PayoutIds :
         \/ \E s \in Bookings \cup Extensions : Open(p, s)
         \/ \E t \in TransferIds : PayOut(p, t) \/ Record(p, t)
         \/ Fail(p) \/ Reopen(p)
    \/ \E S \in SUBSET PayoutIds : Excuse(S)

Spec == Init /\ [][Next]_vars
=============================================================================
