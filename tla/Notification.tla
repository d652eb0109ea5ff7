---------------------------- MODULE Notification -----------------------------
(***************************************************************************)
(* Sending notifications: NotificationService in src/src/communication.     *)
(*                                                                         *)
(* The repository is a Map of the process.  It hands out the objects it     *)
(* holds, so an event handler that is delivering a notification and the     *)
(* job that works off pending ones change the same object.  A call of the   *)
(* service is a task; it gives way to the others where it awaits the        *)
(* repository or a provider.                                                *)
(***************************************************************************)
EXTENDS Naturals, FiniteSets

CONSTANTS
    Notifications,   \* objects the factories may create
    Callers,         \* event handlers and callers of retryFailedNotifications
    Workers,         \* workers of the processing queue
    None,
    Crashes          \* the server may restart

ASSUME TaskAssumption ==
    /\ Callers \cap Workers = {}
    /\ None \notin Notifications
    /\ Crashes \in BOOLEAN

Tasks == Callers \cup Workers

VARIABLES
    note,       \* [Notifications -> the object]
    saved,      \* what the Map holds
    task,       \* [Tasks -> progress of a call]
    accepted,   \* [Notifications -> [Channels -> messages a provider has accepted]],
                \*   counted up to two
    picked,     \* history: notifications the pending job has taken up
    retried     \* history: notifications put back to PENDING

vars == <<note, saved, task, accepted, picked, retried>>

-----------------------------------------------------------------------------
(* The entity.                                                              *)

MaxAttempts == 3

NotificationStatus == {"PENDING", "SENT", "FAILED"}
Channels == {"EMAIL", "SMS"}
DeliveryChannel == {"EMAIL", "SMS", "BOTH"}

Note == [status : NotificationStatus \cup {"NONE"}, channel : DeliveryChannel, attempts : Nat]
NoNote == [status |-> "NONE", channel |-> "EMAIL", attempts |-> 0]
\* Mutant: the attempts start undefined.
CreateUncounted(channel) == [status |-> "PENDING", channel |-> channel, attempts |-> None]
Create(channel) == [status |-> "PENDING", channel |-> channel, attempts |-> 0]

Needs(n, c) == note[n].channel \in {c, "BOTH"}

\* Mutant: off by one.
CanRetryLate(n) == note[n].status = "FAILED" /\ note[n].attempts <= MaxAttempts
\* Mutant: what is not pending may be retried.
CanRetryAny(n) == note[n].status # "PENDING" /\ note[n].attempts < MaxAttempts
CanRetry(n) == note[n].status = "FAILED" /\ note[n].attempts < MaxAttempts

\* A task: the service method, the notifications its loop has yet to reach, the
\* one it is delivering and the provider it waits for.
Task == [kind : {"idle", "send", "pending", "retry"}, queue : SUBSET Notifications,
         current : Notifications \cup {None},
         step : {"next", "deliver", "EMAIL", "SMS"}]
Starting(kind, q) == [kind |-> kind, queue |-> q, current |-> None, step |-> "next"]
Idle == Starting("idle", {})

\* The loop goes on with the notifications in q.
Loop(t, q) == IF q = {} THEN Idle ELSE Starting(task[t].kind, q)

\* It has come to n and awaits the save or a provider.
Holding(t, n, s) ==
    [kind |-> task[t].kind, queue |-> task[t].queue \ {n}, current |-> n, step |-> s]

Init ==
    /\ note = [n \in Notifications |-> NoNote]
    /\ saved = {}
    /\ task = [t \in Tasks |-> Idle]
    /\ accepted = [n \in Notifications |-> [c \in Channels |-> 0]]
    /\ picked = {} /\ retried = {}

-----------------------------------------------------------------------------
(* The loops of the service.                                                *)

\* A handler has the factory make the notifications of an event, one or, for the
\* reminders of a leg, one for the customer and one for the chauffeur.  The
\* factory picks the channels by what is known of the recipient.
SendNotifications(t, N, channel) ==
    /\ task[t].kind = "idle" /\ N # {} /\ Cardinality(N) <= 2
    /\ \A n \in N : note[n].status = "NONE"
    /\ note' = [n \in Notifications |-> IF n \in N THEN Create(channel[n]) ELSE note[n]]
    /\ task' = [task EXCEPT ![t] = Starting("send", N)]
    /\ UNCHANGED <<saved, accepted, picked, retried>>

SaveNext(t, n) ==
    /\ task[t].kind = "send" /\ task[t].step = "next" /\ n \in task[t].queue
    /\ saved' = saved \cup {n}
    /\ task' = [task EXCEPT ![t] = Holding(t, n, "deliver")]
    /\ UNCHANGED <<note, accepted, picked, retried>>

\* Mutant: the pending job takes what is stored, whatever its status.
FindUndelivered(t) ==
    /\ task[t].kind = "idle" /\ saved # {}
    /\ task' = [task EXCEPT ![t] = Starting("pending", saved)]
    /\ picked' = picked \cup { n \in saved : note[n].status = "PENDING" }
    /\ UNCHANGED <<note, saved, accepted, retried>>

\* processPendingNotifications.
FindPendingNotifications(t) ==
    LET pending == { n \in saved : note[n].status = "PENDING" } IN
    /\ task[t].kind = "idle" /\ pending # {}
    /\ task' = [task EXCEPT ![t] = Starting("pending", pending)]
    /\ picked' = picked \cup pending
    /\ UNCHANGED <<note, saved, accepted, retried>>

\* retryFailedNotifications.
FindNotificationsToRetry(t) ==
    LET failed == { n \in saved : CanRetry(n) } IN
    /\ task[t].kind = "idle" /\ failed # {}
    /\ task' = [task EXCEPT ![t] = Starting("retry", failed)]
    /\ UNCHANGED <<note, saved, accepted, picked, retried>>

\* Mutant: the list of the query is believed.
RetryListed(t, n) ==
    /\ task[t].kind = "retry" /\ task[t].step = "next" /\ n \in task[t].queue
    /\ note' = [note EXCEPT ![n].status = "PENDING"]
    /\ saved' = saved \cup {n}
    /\ retried' = retried \cup {n}
    /\ task' = [task EXCEPT ![t] = Holding(t, n, "deliver")]
    /\ UNCHANGED <<accepted, picked>>

\* retry() and save().
RetryNext(t, n) ==
    /\ task[t].kind = "retry" /\ task[t].step = "next" /\ n \in task[t].queue
    /\ CanRetry(n)
    /\ note' = [note EXCEPT ![n].status = "PENDING"]
    /\ saved' = saved \cup {n}
    /\ retried' = retried \cup {n}
    /\ task' = [task EXCEPT ![t] = Holding(t, n, "deliver")]
    /\ UNCHANGED <<accepted, picked>>

\* retry() throws; the loop goes on.
RetryRefused(t, n) ==
    /\ task[t].kind = "retry" /\ task[t].step = "next" /\ n \in task[t].queue
    /\ ~CanRetry(n)
    /\ task' = [task EXCEPT ![t] = Loop(t, task[t].queue \ {n})]
    /\ UNCHANGED <<note, saved, accepted, picked, retried>>

-----------------------------------------------------------------------------
(* deliverNotification.                                                     *)

\* recordAttempt, then the first provider of the channel is called.
Deliver(t, n) ==
    /\ note' = [note EXCEPT ![n].attempts = @ + 1]
    /\ task' = [task EXCEPT ![t] = Holding(t, n, IF Needs(n, "EMAIL") THEN "EMAIL" ELSE "SMS")]
    /\ UNCHANGED <<saved, accepted, picked, retried>>

DeliverSaved(t) ==
    /\ task[t].step = "deliver"
    /\ Deliver(t, task[t].current)

\* The pending job does not look at the status again.
DeliverPending(t, n) ==
    /\ task[t].kind = "pending" /\ task[t].step = "next" /\ n \in task[t].queue
    /\ Deliver(t, n)

\* Mutant: a failed delivery is not marked.
SettleSilently(t, ok) ==
    LET n == task[t].current
        sent == ok /\ note[n].status = "PENDING"
    IN  /\ note' = IF sent THEN [note EXCEPT ![n].status = "SENT"] ELSE note
        /\ saved' = saved \cup {n}
        /\ task' = [task EXCEPT ![t] = IF sent \/ task[t].kind # "send"
                                       THEN Loop(t, task[t].queue) ELSE Idle]

\* markAsSent throws unless the object is PENDING, and whatever is thrown marks it
\* FAILED and goes up: out of a handler's loop, on with the loops of the jobs.
Settle(t, ok) ==
    LET n == task[t].current
        sent == ok /\ note[n].status = "PENDING"
    IN  /\ note' = [note EXCEPT ![n].status = IF sent THEN "SENT" ELSE "FAILED"]
        /\ saved' = saved \cup {n}
        /\ task' = [task EXCEPT ![t] = IF sent \/ task[t].kind # "send"
                                       THEN Loop(t, task[t].queue) ELSE Idle]

OneMore(k) == IF k = 2 THEN 2 ELSE k + 1

\* Mutant: the SMS is a fallback for the email.
AnyProviderWillDo(t, c, ok, got) ==
    LET n == task[t].current IN
    /\ task[t].step = c
    /\ ok => got
    /\ accepted' = [accepted EXCEPT ![n][c] = IF got THEN OneMore(@) ELSE @]
    /\ IF c = "EMAIL" /\ Needs(n, "SMS") /\ ~ok
       THEN /\ task' = [task EXCEPT ![t] = Holding(t, n, "SMS")]
            /\ UNCHANGED <<note, saved>>
       ELSE Settle(t, ok)
    /\ UNCHANGED <<picked, retried>>

\* A provider answers: it has accepted the message or refused it, or it has
\* accepted it and the answer is lost, which the caller takes for a failure.
ProviderAnswers(t, c, ok, got) ==
    LET n == task[t].current IN
    /\ task[t].step = c
    /\ ok => got
    /\ accepted' = [accepted EXCEPT ![n][c] = IF got THEN OneMore(@) ELSE @]
    /\ IF c = "EMAIL" /\ Needs(n, "SMS") /\ ok
       THEN /\ task' = [task EXCEPT ![t] = Holding(t, n, "SMS")]
            /\ UNCHANGED <<note, saved>>
       ELSE Settle(t, ok)
    /\ UNCHANGED <<picked, retried>>

\* The Map goes with the process.
Crash ==
    /\ Crashes
    /\ saved # {} \/ \E t \in Tasks : task[t] # Idle
    /\ saved' = {}
    /\ task' = [t \in Tasks |-> Idle]
    /\ UNCHANGED <<note, accepted, picked, retried>>

-----------------------------------------------------------------------------

Step(t) ==
    \/ \E n \in Notifications :
         SaveNext(t, n) \/ RetryNext(t, n) \/ RetryRefused(t, n) \/ DeliverPending(t, n)
    \/ DeliverSaved(t)
    \/ \E c \in Channels, ok, got \in BOOLEAN : ProviderAnswers(t, c, ok, got)

Next ==
    \/ \E t \in Callers :
         \/ \E N \in SUBSET Notifications, channel \in [Notifications -> DeliveryChannel] :
              SendNotifications(t, N, channel)
         \/ FindNotificationsToRetry(t)
    \/ \E t \in Workers : FindPendingNotifications(t)
    \/ \E t \in Tasks : Step(t)
    \/ Crash

Spec == Init /\ [][Next]_vars

-----------------------------------------------------------------------------
(* Properties.                                                              *)

TypeOK ==
    /\ note \in [Notifications -> Note]
    /\ saved \subseteq Notifications
    /\ task \in [Tasks -> Task]
    /\ accepted \in [Notifications -> [Channels -> 0..2]]
    /\ picked \subseteq Notifications /\ retried \subseteq Notifications

\* SENT is the truth about every channel, whichever task said so.
SentIsDelivered ==
    \A n \in Notifications, c \in Channels :
        note[n].status = "SENT" /\ Needs(n, c) => accepted[n][c] > 0

Delivering(t, n) == task[t].current = n

\* A stored notification is PENDING only while somebody is delivering it: what the
\* pending job finds, it always delivers for a second time.
PendingIsHeld ==
    \A n \in saved : note[n].status = "PENDING" => \E t \in Tasks : Delivering(t, n)

\* Apart from retries and from the pending job, no message goes out twice.
DeliveredOnce ==
    \A n \in Notifications \ (picked \cup retried), c \in Channels : accepted[n][c] <= 1

\* The limit of three attempts holds across concurrent retries, unless the pending
\* job adds attempts of its own.
AttemptsLimited ==
    \A n \in Notifications \ picked : note[n].attempts <= MaxAttempts

\* What has been sent is never marked FAILED or sent again, unless the pending job
\* took it up.
SentIsFinal ==
    [][\A n \in Notifications \ picked :
          note[n].status = "SENT" => note'[n].status = "SENT"]_vars

\* Tasks on shared objects, their loops and the restarts do what NotificationProtocol
\* allows: one attempt at a time, three at most, the providers in turn, SENT only when
\* all have accepted - except that one the pending job took up is delivered beside the
\* task that has it, which nothing it finds is without.
Phase(n) ==
    LET with(s) == \E t \in Tasks : task[t].current = n /\ task[t].step = s IN
    IF n \in picked THEN "shared"
    ELSE IF with("EMAIL") THEN "EMAIL"
    ELSE IF with("SMS") THEN "SMS"
    ELSE IF with("deliver") \/ \E t \in Tasks : task[t].kind = "send" /\ n \in task[t].queue
    THEN "waiting"
    ELSE "none"

Protocol == INSTANCE NotificationProtocol WITH phase <- [n \in Notifications |-> Phase(n)]

FollowsProtocol == Protocol!Spec

=============================================================================
