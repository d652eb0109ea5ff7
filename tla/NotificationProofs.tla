-------------------------- MODULE NotificationProofs --------------------------
(***************************************************************************)
(* Proofs about Notification for every value of its constants: any number   *)
(* of notifications, handlers, retries and workers, with restarts.          *)
(***************************************************************************)
EXTENDS Notification, TLAPS

-----------------------------------------------------------------------------
(* The inductive invariant.                                                 *)

\* A notification nobody has tried to deliver yet.
Untried(n) == note[n].attempts = 0 /\ \A c \in Channels : accepted[n][c] = 0

\* What a task knows of the notifications it has yet to reach, and of the one it
\* is delivering.
TaskOK(t) ==
    LET k == task[t] IN
    /\ k.step = "next" <=> k.current = None
    /\ k.kind = "idle" => k.queue = {} /\ k.current = None
    /\ k.kind = "pending" => /\ k.queue \subseteq picked
                             /\ k.current \in picked \cup {None}
                             /\ k.step # "deliver"
    /\ \A n \in k.queue : note[n].status # "NONE"
    /\ k.kind = "send" => \A n \in k.queue :
                            n \notin saved /\ note[n].status = "PENDING" /\ Untried(n)
    /\ k.current # None => note[k.current].status # "NONE"
    /\ k.step = "EMAIL" => Needs(k.current, "EMAIL")
    /\ k.step = "SMS" => /\ Needs(k.current, "SMS")
                         /\ Needs(k.current, "EMAIL") => accepted[k.current]["EMAIL"] > 0

\* What a handler has yet to save, nobody else knows of.
OwnQueues ==
    \A t, u \in Tasks : task[t].kind = "send" =>
        \A n \in task[t].queue : task[u].current # n /\ (u # t => n \notin task[u].queue)

\* What has been accepted of a first delivery.
Quota(n) ==
    /\ \A c \in Channels : accepted[n][c] <= 1
    /\ \A t \in Tasks : Delivering(t, n) =>
         /\ task[t].step # "SMS" => \A c \in Channels : accepted[n][c] = 0
         /\ accepted[n]["SMS"] = 0

\* One task at a time delivers a notification, and it stays PENDING until then.
SoleDelivery(n) ==
    /\ \A t, u \in Tasks : Delivering(t, n) /\ Delivering(u, n) => t = u
    /\ \A t \in Tasks : Delivering(t, n) =>
         /\ note[n].status = "PENDING"
         /\ task[t].step = "deliver" => note[n].attempts < MaxAttempts
    /\ note[n].attempts <= MaxAttempts
    /\ n \notin retried => Quota(n)

NoteOK(n) ==
    /\ note[n].status = "NONE" => Untried(n) /\ n \notin saved
    /\ n \in saved /\ note[n].status = "PENDING" => \E t \in Tasks : Delivering(t, n)
    /\ note[n].status = "SENT" => \A c \in Channels : Needs(n, c) => accepted[n][c] > 0
    /\ n \notin picked => SoleDelivery(n)

IInv ==
    /\ \A t \in Tasks : TaskOK(t)
    /\ OwnQueues
    /\ \A n \in Notifications : NoteOK(n)

-----------------------------------------------------------------------------
(* What steps leave alone.                                                  *)

\* None is no notification.
LEMMA NoneFact == \A n \in Notifications : n # None
BY TaskAssumption

\* A task between two awaits holds a notification and is not idle.
LEMMA BusyTask ==
    ASSUME TypeOK, NEW t \in Tasks, TaskOK(t), task[t].step # "next"
    PROVE  task[t].current \in Notifications /\ task[t].kind # "idle"
BY DEF TypeOK, Task, TaskOK

\* A task keeps its facts while others write.
LEMMA TaskKept ==
    ASSUME TypeOK, NEW t \in Tasks, TaskOK(t), task'[t] = task[t], picked \subseteq picked',
           \A n \in Notifications : note[n].status # "NONE" =>
              note'[n].status # "NONE" /\ note'[n].channel = note[n].channel,
           \A n \in Notifications : accepted[n]["EMAIL"] > 0 => accepted'[n]["EMAIL"] > 0,
           task[t].kind = "send" => \A n \in task[t].queue :
              n \notin saved' /\ note'[n] = note[n] /\ accepted'[n] = accepted[n]
    PROVE  TaskOK(t)'
<1>1. task[t] \in Task
  BY DEF TypeOK
<1>2. \A n \in task[t].queue : note'[n].status # "NONE"
  BY <1>1 DEF TaskOK, Task
<1>3. task[t].kind = "send" => \A n \in task[t].queue :
        n \notin saved' /\ note'[n].status = "PENDING" /\ Untried(n)'
  BY <1>1 DEF TaskOK, Task, Untried
<1>4. CASE task[t].current = None
  BY <1>2, <1>3, <1>4 DEF TaskOK
<1>5. CASE task[t].current # None
  <2>1. PICK n \in Notifications : n = task[t].current
    BY <1>1, <1>5 DEF Task
  <2>2. note'[n].status # "NONE" /\ note'[n].channel = note[n].channel
    BY <1>5, <2>1 DEF TaskOK
  <2>3. task[t].step = "EMAIL" => note'[n].channel \in {"EMAIL", "BOTH"}
    BY <2>1, <2>2 DEF TaskOK, Needs
  <2>4. task[t].step = "SMS" => /\ note'[n].channel \in {"SMS", "BOTH"}
                                /\ note'[n].channel \in {"EMAIL", "BOTH"}
                                     => accepted'[n]["EMAIL"] > 0
    BY <2>1, <2>2 DEF TaskOK, Needs
  <2> QED
    BY <1>2, <1>3, <1>5, <2>1, <2>2, <2>3, <2>4 DEF TaskOK, Needs
<1> QED
  BY <1>4, <1>5

\* So does a notification nobody touches.
LEMMA NoteKept ==
    ASSUME NEW n \in Notifications, NoteOK(n),
           note'[n] = note[n], accepted'[n] = accepted[n], n \in saved' => n \in saved,
           picked \subseteq picked', retried \subseteq retried',
           \A t \in Tasks : task'[t].current = n =>
              task[t].current = n /\ task'[t].step = task[t].step,
           n \in saved' => \A t \in Tasks : task[t].current = n => task'[t].current = n
    PROVE  NoteOK(n)'
<1>1. n \notin picked' => SoleDelivery(n)'
  BY DEF NoteOK, SoleDelivery, Quota, Delivering
<1>2. note[n].status = "NONE" => Untried(n)' /\ n \notin saved'
  BY DEF NoteOK, Untried
<1>3. n \in saved' /\ note[n].status = "PENDING" => \E t \in Tasks : task'[t].current = n
  BY DEF NoteOK, Delivering
<1> QED
  BY <1>1, <1>2, <1>3 DEF NoteOK, Delivering, Needs

-----------------------------------------------------------------------------
(* One lemma per action.                                                    *)

\* The notifications of an event are new: nobody knows of them.
LEMMA SendOK ==
    ASSUME TypeOK, IInv, NEW t \in Callers, NEW N \in SUBSET Notifications,
           NEW channel \in [Notifications -> DeliveryChannel], SendNotifications(t, N, channel)
    PROVE  TypeOK' /\ IInv'
<1>1. /\ t \in Tasks
      /\ \A u \in Tasks \ {t} : task'[u] = task[u]
      /\ task'[t] = [kind |-> "send", queue |-> N, current |-> None, step |-> "next"]
      /\ UNCHANGED <<saved, accepted, picked, retried>>
      /\ \A n \in N : note[n].status = "NONE" /\ note'[n] = Create(channel[n])
      /\ \A n \in Notifications \ N : note'[n] = note[n]
  BY DEF SendNotifications, TypeOK, Tasks, Starting
<1>2. TypeOK'
  <2>1. \A n \in N : Create(channel[n]) \in Note
    BY DEF Create, Note, NotificationStatus
  <2>2. note' \in [Notifications -> Note]
    BY <1>1, <2>1 DEF SendNotifications, TypeOK
  <2>3. task' \in [Tasks -> Task]
    BY <1>1 DEF SendNotifications, TypeOK, Task, Idle, Starting
  <2> QED
    BY <1>1, <2>2, <2>3 DEF TypeOK
<1>3. \A n \in N : /\ Untried(n) /\ n \notin saved
                   /\ \A u \in Tasks : n \notin task[u].queue /\ task[u].current # n
  BY <1>1, NoneFact DEF IInv, NoteOK, TaskOK
<1>4. \A n \in N : note'[n].status = "PENDING" /\ note'[n].attempts = 0 /\ Untried(n)'
  <2> SUFFICES ASSUME NEW n \in N
               PROVE  note'[n].status = "PENDING" /\ note'[n].attempts = 0 /\ Untried(n)'
    OBVIOUS
  <2>1. note'[n] = Create(channel[n])
    BY <1>1
  <2>2. note'[n].status = "PENDING" /\ note'[n].attempts = 0
    BY <2>1 DEF Create
  <2> QED
    BY <1>1, <1>3, <2>2 DEF Untried
<1>5. TaskOK(t)'
  BY <1>1, <1>3, <1>4 DEF TaskOK
<1>6. ASSUME NEW u \in Tasks, u # t PROVE TaskOK(u)'
  <2>1. task[u] \in Task /\ TaskOK(u)
    BY DEF TypeOK, IInv
  <2>2. \A n \in task[u].queue : n \in Notifications /\ n \notin N
    BY <1>3, <2>1 DEF Task
  <2> QED
    BY <1>1, <1>6, <2>1, <2>2, TaskKept DEF TaskOK
<1>7. OwnQueues'
  <2>1. ASSUME NEW a \in Tasks, NEW b \in Tasks, task'[a].kind = "send",
               NEW n \in task'[a].queue
        PROVE  task'[b].current # n /\ (b # a => n \notin task'[b].queue)
    <3>1. CASE a = t
      BY <1>1, <1>3, <2>1, <3>1, NoneFact
    <3>2. CASE a # t
      BY <1>1, <1>3, <2>1, <3>2, NoneFact DEF IInv, OwnQueues, TypeOK, Task
    <3> QED
      BY <3>1, <3>2
  <2> QED
    BY <2>1 DEF OwnQueues
<1>8. ASSUME NEW n \in Notifications PROVE NoteOK(n)'
  <2>1. CASE n \in N
    BY <1>1, <1>3, <1>4, <2>1, NoneFact
       DEF NoteOK, SoleDelivery, Quota, Delivering, MaxAttempts, Untried
  <2>2. CASE n \notin N
    <3>1. \A u \in Tasks : task'[u].current = n =>
             task[u].current = n /\ task'[u].step = task[u].step
      BY <1>1, NoneFact
    <3>2. \A u \in Tasks : task[u].current = n => task'[u].current = n
      BY <1>1, NoneFact DEF SendNotifications, IInv, TaskOK
    <3> QED
      BY <1>1, <2>2, <3>1, <3>2, NoteKept DEF IInv
  <2> QED
    BY <2>1, <2>2
<1> QED
  BY <1>2, <1>5, <1>6, <1>7, <1>8 DEF IInv

\* Saving makes a handler the one that delivers a notification.
LEMMA SaveOK ==
    ASSUME TypeOK, IInv, NEW t \in Tasks, NEW n \in Notifications, SaveNext(t, n)
    PROVE  TypeOK' /\ IInv'
<1>1. /\ task[t] \in Task /\ TaskOK(t)
      /\ task[t].kind = "send" /\ task[t].step = "next" /\ n \in task[t].queue
      /\ \A u \in Tasks \ {t} : task'[u] = task[u]
      /\ saved' = saved \cup {n}
      /\ UNCHANGED <<note, accepted, picked, retried>>
  BY DEF SaveNext, TypeOK, IInv
<1>2. task'[t] = [kind |-> "send", queue |-> task[t].queue \ {n}, current |-> n, step |-> "deliver"]
  BY <1>1 DEF SaveNext, TypeOK, Holding
<1>3. TypeOK'
  <2>1. task'[t] \in Task
    BY <1>1, <1>2 DEF Task
  <2>2. task' \in [Tasks -> Task]
    BY <1>1, <2>1 DEF SaveNext, TypeOK
  <2> QED
    BY <1>1, <2>2 DEF TypeOK
<1>4. /\ note[n].status = "PENDING" /\ Untried(n)
      /\ \A u \in Tasks : task[u].current # n /\ (u # t => n \notin task[u].queue)
  BY <1>1 DEF IInv, TaskOK, OwnQueues
<1>5. TaskOK(t)'
  BY <1>1, <1>2, <1>4, NoneFact DEF TaskOK, Untried
<1>6. ASSUME NEW u \in Tasks, u # t PROVE TaskOK(u)'
  <2>1. task[u] \in Task /\ TaskOK(u)
    BY DEF TypeOK, IInv
  <2>2. n \notin task[u].queue
    BY <1>4, <1>6
  <2> QED
    BY <1>1, <1>6, <2>1, <2>2, TaskKept DEF TaskOK
<1>7. OwnQueues'
  <2>1. ASSUME NEW a \in Tasks, NEW b \in Tasks, task'[a].kind = "send",
               NEW m \in task'[a].queue
        PROVE  task'[b].current # m /\ (b # a => m \notin task'[b].queue)
    <3>1. task[a].kind = "send" /\ m \in task[a].queue /\ (a = t => m # n)
      BY <1>1, <1>2, <2>1
    <3>2. task[b].current # m /\ (b # a => m \notin task[b].queue)
      BY <3>1 DEF IInv, OwnQueues
    <3>3. m # n
      BY <1>4, <3>1
    <3> QED
      BY <1>1, <1>2, <3>2, <3>3
  <2> QED
    BY <2>1 DEF OwnQueues
<1>8. NoteOK(n)'
  <2>1. \A u \in Tasks : task'[u].current = n <=> u = t
    BY <1>1, <1>2, <1>4
  <2>2. SoleDelivery(n)'
    BY <1>1, <1>2, <1>4, <2>1 DEF SoleDelivery, Quota, Delivering, Untried, MaxAttempts, Channels
  <2> QED
    BY <1>1, <1>4, <2>1, <2>2 DEF NoteOK, Delivering
<1>9. ASSUME NEW m \in Notifications, m # n PROVE NoteOK(m)'
  <2>1. task[t].current # m
    BY <1>1, NoneFact DEF TaskOK
  <2>2. \A u \in Tasks : task'[u].current = m => task[u].current = m /\ task'[u].step = task[u].step
    BY <1>1, <1>2, <1>9
  <2>3. \A u \in Tasks : task[u].current = m => task'[u].current = m
    BY <1>1, <2>1
  <2> QED
    BY <1>1, <1>9, <2>2, <2>3, NoteKept DEF IInv
<1> QED
  BY <1>3, <1>5, <1>6, <1>7, <1>8, <1>9 DEF IInv

\* A job that starts finds stored notifications: none of them waits to be saved.
LEMMA FoundOK ==
    ASSUME TypeOK, IInv, NEW t \in Tasks, NEW N \in SUBSET saved, NEW k \in {"pending", "retry"},
           task[t].kind = "idle", \A n \in N : note[n].status # "NONE",
           task' = [task EXCEPT ![t] = [kind |-> k, queue |-> N, current |-> None, step |-> "next"]],
           picked \subseteq picked', picked' \subseteq Notifications, k = "pending" => N \subseteq picked',
           UNCHANGED <<note, saved, accepted, retried>>
    PROVE  TypeOK' /\ IInv'
<1>1. /\ TaskOK(t) /\ task[t].current = None
      /\ task'[t] = [kind |-> k, queue |-> N, current |-> None, step |-> "next"]
      /\ \A u \in Tasks \ {t} : task'[u] = task[u]
      /\ N \subseteq Notifications
  BY DEF TypeOK, IInv, TaskOK
<1>2. TypeOK'
  <2>1. task'[t] \in Task
    BY <1>1 DEF Task
  <2>2. task' \in [Tasks -> Task]
    BY <2>1 DEF TypeOK
  <2> QED
    BY <2>2 DEF TypeOK
<1>3. TaskOK(t)'
  BY <1>1 DEF TaskOK
<1>4. ASSUME NEW u \in Tasks, u # t PROVE TaskOK(u)'
  <2>1. task[u] \in Task /\ TaskOK(u)
    BY DEF TypeOK, IInv
  <2> QED
    BY <1>1, <1>4, <2>1, TaskKept DEF TaskOK
<1>5. OwnQueues'
  <2>1. ASSUME NEW a \in Tasks, NEW b \in Tasks, task'[a].kind = "send",
               NEW m \in task'[a].queue
        PROVE  task'[b].current # m /\ (b # a => m \notin task'[b].queue)
    <3>1. a # t /\ task[a].kind = "send" /\ m \in task[a].queue
      BY <1>1, <2>1
    <3>2. m \notin saved /\ m \in Notifications
      BY <3>1 DEF IInv, TaskOK, TypeOK, Task
    <3>3. task[b].current # m /\ (b # a => m \notin task[b].queue)
      BY <3>1 DEF IInv, OwnQueues
    <3> QED
      BY <1>1, <3>2, <3>3, NoneFact
  <2> QED
    BY <2>1 DEF OwnQueues
<1>6. ASSUME NEW m \in Notifications PROVE NoteOK(m)'
  <2>1. \A u \in Tasks : task'[u].current = m <=> task[u].current = m
    BY <1>1, NoneFact
  <2>2. \A u \in Tasks : task'[u].current = m => task'[u].step = task[u].step
    BY <1>1, NoneFact
  <2> QED
    BY <2>1, <2>2, NoteKept DEF IInv
<1> QED
  BY <1>2, <1>3, <1>4, <1>5, <1>6 DEF IInv

\* The pending job.
LEMMA FindPendingOK ==
    ASSUME TypeOK, IInv, NEW t \in Workers, FindPendingNotifications(t)
    PROVE  TypeOK' /\ IInv'
<1> DEFINE N == { n \in saved : note[n].status = "PENDING" }
<1>1. t \in Tasks /\ N \subseteq saved /\ N \subseteq Notifications
  BY DEF Tasks, TypeOK
<1>2. task' = [task EXCEPT ![t] = [kind |-> "pending", queue |-> N, current |-> None, step |-> "next"]]
  BY DEF FindPendingNotifications, Starting
<1>3. picked' = picked \cup N /\ picked' \subseteq Notifications
  BY <1>1 DEF FindPendingNotifications, TypeOK
<1>4. \A n \in N : note[n].status # "NONE"
  OBVIOUS
<1> HIDE DEF N
<1> QED
  BY <1>1, <1>2, <1>3, <1>4, FoundOK DEF FindPendingNotifications

\* Retries.
LEMMA FindFailedOK ==
    ASSUME TypeOK, IInv, NEW t \in Callers, FindNotificationsToRetry(t)
    PROVE  TypeOK' /\ IInv'
<1> DEFINE N == { n \in saved : CanRetry(n) }
<1>1. t \in Tasks /\ N \subseteq saved
  BY DEF Tasks
<1>2. task' = [task EXCEPT ![t] = [kind |-> "retry", queue |-> N, current |-> None, step |-> "next"]]
  BY DEF FindNotificationsToRetry, Starting
<1>3. \A n \in N : note[n].status # "NONE"
  BY DEF CanRetry
<1>4. picked' = picked /\ picked \subseteq Notifications
  BY DEF FindNotificationsToRetry, TypeOK
<1> HIDE DEF N
<1> QED
  BY <1>1, <1>2, <1>3, <1>4, FoundOK DEF FindNotificationsToRetry

\* A task that goes on takes nothing from a handler that has yet to save it.
LEMMA OwnQueuesKept ==
    ASSUME TypeOK, OwnQueues, NEW t \in Tasks, NEW n \in Notifications,
           \A u \in Tasks \ {t} : task'[u] = task[u],
           \A u \in Tasks \ {t} : task[u].kind = "send" => n \notin task[u].queue,
           task'[t].queue \subseteq task[t].queue, n \notin task'[t].queue,
           task'[t].kind = "send" => task[t].kind = "send",
           task'[t].current \in {None, n}
    PROVE  OwnQueues'
<1>1. ASSUME NEW a \in Tasks, NEW b \in Tasks, task'[a].kind = "send", NEW m \in task'[a].queue
      PROVE  task'[b].current # m /\ (b # a => m \notin task'[b].queue)
  <2>1. task[a].kind = "send" /\ m \in task[a].queue /\ m # n
    BY <1>1
  <2>2. m \in Notifications
    BY <2>1 DEF TypeOK, Task
  <2>3. task[b].current # m /\ (b # a => m \notin task[b].queue)
    BY <2>1 DEF OwnQueues
  <2> QED
    BY <2>1, <2>2, <2>3, NoneFact
<1> QED
  BY <1>1 DEF OwnQueues

\* A retry takes up what is FAILED, which nobody is delivering.
LEMMA RetryOK ==
    ASSUME TypeOK, IInv, NEW t \in Tasks, NEW n \in Notifications, RetryNext(t, n)
    PROVE  TypeOK' /\ IInv'
<1>1. /\ task[t] \in Task /\ TaskOK(t)
      /\ task[t].kind = "retry" /\ task[t].step = "next" /\ n \in task[t].queue
      /\ note[n].status = "FAILED" /\ note[n].attempts < MaxAttempts
      /\ \A u \in Tasks \ {t} : task'[u] = task[u]
      /\ saved' = saved \cup {n} /\ retried' = retried \cup {n}
      /\ UNCHANGED <<accepted, picked>>
  BY DEF RetryNext, CanRetry, TypeOK, IInv
<1>2. task'[t] = [kind |-> "retry", queue |-> task[t].queue \ {n}, current |-> n, step |-> "deliver"]
  BY <1>1 DEF RetryNext, TypeOK, Holding
<1>3. /\ note'[n].status = "PENDING" /\ note'[n].attempts = note[n].attempts
      /\ note'[n].channel = note[n].channel
      /\ \A m \in Notifications \ {n} : note'[m] = note[m]
  BY DEF RetryNext, TypeOK, Note
<1>4. TypeOK'
  <2>1. task'[t] \in Task
    BY <1>1, <1>2 DEF Task
  <2>2. task' \in [Tasks -> Task]
    BY <1>1, <2>1 DEF RetryNext, TypeOK
  <2>3. note' \in [Notifications -> Note]
    BY DEF RetryNext, TypeOK, Note, NotificationStatus
  <2> QED
    BY <1>1, <2>2, <2>3 DEF TypeOK
<1>5. TaskOK(t)'
  <2>1. \A m \in task[t].queue \ {n} : note'[m].status # "NONE"
    BY <1>1, <1>3 DEF TaskOK, Task
  <2> QED
    BY <1>2, <1>3, <2>1, NoneFact DEF TaskOK
<1>6. ASSUME NEW u \in Tasks, u # t PROVE TaskOK(u)'
  <2>1. task[u] \in Task /\ TaskOK(u)
    BY DEF TypeOK, IInv
  <2>2. task[u].kind = "send" => n \notin task[u].queue
    BY <1>1, <2>1 DEF TaskOK
  <2>3. task[u].queue \subseteq Notifications
    BY <2>1 DEF Task
  <2>4. task[u].kind = "send" => \A m \in task[u].queue : m \notin saved' /\ note'[m] = note[m]
    BY <1>1, <1>3, <2>1, <2>2, <2>3 DEF TaskOK
  <2> QED
    BY <1>1, <1>3, <1>6, <2>1, <2>3, <2>4, TaskKept
<1>7. OwnQueues'
  <2>1. \A u \in Tasks : task[u].kind = "send" => n \notin task[u].queue
    BY <1>1 DEF IInv, TaskOK
  <2> QED
    BY <1>1, <1>2, <2>1, OwnQueuesKept DEF IInv
<1>8. NoteOK(n)'
  <2>1. n \notin picked => \A u \in Tasks : task'[u].current = n <=> u = t
    BY <1>1, <1>2 DEF IInv, NoteOK, SoleDelivery, Delivering
  <2>2. n \notin picked => SoleDelivery(n)'
    BY <1>1, <1>2, <1>3, <2>1 DEF IInv, NoteOK, SoleDelivery, Delivering
  <2> QED
    BY <1>1, <1>2, <1>3, <2>2 DEF NoteOK, Delivering
<1>9. ASSUME NEW m \in Notifications, m # n PROVE NoteOK(m)'
  <2>1. task[t].current # m
    BY <1>1, NoneFact DEF TaskOK
  <2>2. \A u \in Tasks : task'[u].current = m => task[u].current = m /\ task'[u].step = task[u].step
    BY <1>1, <1>2, <1>9
  <2>3. \A u \in Tasks : task[u].current = m => task'[u].current = m
    BY <1>1, <2>1
  <2> QED
    BY <1>1, <1>3, <1>9, <2>2, <2>3, NoteKept DEF IInv
<1> QED
  BY <1>4, <1>5, <1>6, <1>7, <1>8, <1>9 DEF IInv

\* A loop that goes on has a shorter queue, or is over.
LEMMA LoopFacts ==
    ASSUME TypeOK, NEW t \in Tasks, TaskOK(t), NEW q \in SUBSET task[t].queue
    PROVE  /\ Loop(t, q) \in Task
           /\ Loop(t, q).current = None /\ Loop(t, q).step = "next" /\ Loop(t, q).queue = q
           /\ Loop(t, q).kind \in {task[t].kind, "idle"}
           /\ Loop(t, q).kind = "idle" => q = {}
<1>1. task[t] \in Task
  BY DEF TypeOK
<1> QED
  BY <1>1 DEF Loop, Idle, Starting, Task, TaskOK

\* A retry that throws leaves the notification to others.
LEMMA RefusedOK ==
    ASSUME TypeOK, IInv, NEW t \in Tasks, NEW n \in Notifications, RetryRefused(t, n)
    PROVE  TypeOK' /\ IInv'
<1> DEFINE q == task[t].queue \ {n}
           l == Loop(t, q)
<1>1. /\ task[t] \in Task /\ TaskOK(t) /\ task[t].kind = "retry" /\ task[t].step = "next"
      /\ \A u \in Tasks \ {t} : task'[u] = task[u]
      /\ task'[t] = l
      /\ UNCHANGED <<note, saved, accepted, picked, retried>>
  BY DEF RetryRefused, TypeOK, IInv
<1>2. /\ l \in Task /\ l.current = None /\ l.step = "next" /\ l.queue = q
      /\ l.kind \in {"retry", "idle"} /\ (l.kind = "idle" => q = {})
  BY <1>1, LoopFacts
<1> HIDE DEF l
<1>3. TypeOK'
  <2>1. task' \in [Tasks -> Task]
    BY <1>1, <1>2 DEF RetryRefused, TypeOK
  <2> QED
    BY <1>1, <2>1 DEF TypeOK
<1>4. TaskOK(t)'
  BY <1>1, <1>2 DEF TaskOK
<1>5. ASSUME NEW u \in Tasks, u # t PROVE TaskOK(u)'
  <2>1. task[u] \in Task /\ TaskOK(u)
    BY DEF TypeOK, IInv
  <2> QED
    BY <1>1, <1>5, <2>1, TaskKept DEF TaskOK
<1>6. OwnQueues'
  <2>1. ASSUME NEW a \in Tasks, NEW b \in Tasks, task'[a].kind = "send",
               NEW m \in task'[a].queue
        PROVE  task'[b].current # m /\ (b # a => m \notin task'[b].queue)
    <3>1. task[a].kind = "send" /\ m \in task[a].queue /\ a # t
      BY <1>1, <1>2, <2>1
    <3>2. m \in Notifications
      BY <3>1 DEF TypeOK, Task
    <3>3. task[b].current # m /\ (b # a => m \notin task[b].queue)
      BY <3>1 DEF IInv, OwnQueues
    <3> QED
      BY <1>1, <1>2, <3>2, <3>3, NoneFact
  <2> QED
    BY <2>1 DEF OwnQueues
<1>7. ASSUME NEW m \in Notifications PROVE NoteOK(m)'
  <2>1. task[t].current = None
    BY <1>1 DEF TaskOK
  <2>2. \A u \in Tasks : task'[u].current = m => task[u].current = m /\ task'[u].step = task[u].step
    BY <1>1, <1>2, NoneFact
  <2>3. \A u \in Tasks : task[u].current = m => task'[u].current = m
    BY <1>1, <2>1, NoneFact
  <2> QED
    BY <1>1, <2>2, <2>3, NoteKept DEF IInv
<1> QED
  BY <1>3, <1>4, <1>5, <1>6, <1>7 DEF IInv

\* An attempt: the provider of the first channel is called.
LEMMA DeliverOK ==
    ASSUME TypeOK, IInv, NEW t \in Tasks, NEW n \in Notifications, Deliver(t, n),
           \/ task[t].step = "deliver" /\ task[t].current = n
           \/ task[t].kind = "pending" /\ task[t].step = "next" /\ n \in task[t].queue
    PROVE  TypeOK' /\ IInv'
<1> DEFINE s == IF Needs(n, "EMAIL") THEN "EMAIL" ELSE "SMS"
<1>1. /\ task[t] \in Task /\ TaskOK(t)
      /\ \A u \in Tasks \ {t} : task'[u] = task[u]
      /\ UNCHANGED <<saved, accepted, picked, retried>>
  BY DEF Deliver, TypeOK, IInv
<1>2. task'[t] = [kind |-> task[t].kind, queue |-> task[t].queue \ {n}, current |-> n, step |-> s]
  BY <1>1 DEF Deliver, TypeOK, Holding
<1>3. /\ note'[n].status = note[n].status /\ note'[n].attempts = note[n].attempts + 1
      /\ note'[n].channel = note[n].channel
      /\ \A m \in Notifications \ {n} : note'[m] = note[m]
  BY DEF Deliver, TypeOK, Note
<1>4. /\ s = "EMAIL" => Needs(n, "EMAIL")
      /\ s = "SMS" => Needs(n, "SMS") /\ ~Needs(n, "EMAIL")
      /\ s \in {"EMAIL", "SMS"}
  BY DEF Needs, TypeOK, Note, DeliveryChannel
<1>5. note[n].status # "NONE" /\ task[t].kind # "idle"
      /\ (n \notin picked => task[t].step = "deliver" /\ task[t].current = n)
      /\ (task[t].kind = "pending" => n \in picked)
      /\ task[t].current \in {None, n}
      /\ \A u \in Tasks \ {t} : task[u].kind = "send" => n \notin task[u].queue
  BY <1>1, NoneFact DEF TaskOK, IInv, OwnQueues
<1> HIDE DEF s
<1>6. TypeOK'
  <2>1. task'[t] \in Task
    BY <1>1, <1>2, <1>4 DEF Task
  <2>2. task' \in [Tasks -> Task]
    BY <1>1, <2>1 DEF Deliver, TypeOK
  <2>3. /\ note[n] \in Note
        /\ note' = [note EXCEPT ![n] = [note[n] EXCEPT !.attempts = note[n].attempts + 1]]
    BY DEF Deliver, TypeOK
  <2>4. [note[n] EXCEPT !.attempts = note[n].attempts + 1] \in Note
    BY <2>3 DEF Note
  <2>5. note' \in [Notifications -> Note]
    BY <2>3, <2>4 DEF TypeOK
  <2> QED
    BY <1>1, <2>2, <2>5 DEF TypeOK
<1>7. TaskOK(t)'
  <2>1. \A m \in task[t].queue \ {n} : note'[m] = note[m]
    BY <1>1, <1>3 DEF Task
  <2>2. /\ s = "EMAIL" => note'[n].channel \in {"EMAIL", "BOTH"}
        /\ s = "SMS" => note'[n].channel \in {"SMS", "BOTH"} /\ note'[n].channel \notin {"EMAIL", "BOTH"}
    BY <1>3, <1>4 DEF Needs
  <2>3. \A m \in task'[t].queue : note'[m].status # "NONE"
    BY <1>1, <1>2, <2>1 DEF TaskOK
  <2>4. task'[t].kind = "send" => \A m \in task'[t].queue :
          m \notin saved' /\ note'[m].status = "PENDING" /\ Untried(m)'
    BY <1>1, <1>2, <2>1 DEF TaskOK, Untried
  <2>5. task'[t].kind = "pending" => task'[t].queue \subseteq picked' /\ n \in picked'
    BY <1>1, <1>2, <1>5 DEF TaskOK
  <2> QED
    BY <1>2, <1>3, <1>4, <1>5, <2>2, <2>3, <2>4, <2>5, NoneFact DEF TaskOK, Needs
<1>8. ASSUME NEW u \in Tasks, u # t PROVE TaskOK(u)'
  <2>1. task[u] \in Task /\ TaskOK(u)
    BY DEF TypeOK, IInv
  <2>2. task[u].queue \subseteq Notifications
    BY <2>1 DEF Task
  <2>3. task[u].kind = "send" => \A m \in task[u].queue : m \notin saved' /\ note'[m] = note[m]
    BY <1>1, <1>3, <1>5, <1>8, <2>1, <2>2 DEF TaskOK
  <2> QED
    BY <1>1, <1>3, <1>8, <2>1, <2>2, <2>3, TaskKept
<1>9. OwnQueues'
  BY <1>1, <1>2, <1>5, OwnQueuesKept DEF IInv
<1>10. NoteOK(n)'
  <2>1. task'[t].current = n /\ task'[t].step # "deliver" /\ task'[t].step = s
    BY <1>2, <1>4
  <2>2. \A u \in Tasks \ {t} : task'[u].current = n => task[u].current = n
    BY <1>1
  <2>3. ASSUME n \notin picked PROVE SoleDelivery(n)'
    <3>1. SoleDelivery(n) /\ Delivering(t, n) /\ task[t].step = "deliver"
      BY <1>5, <2>3 DEF IInv, NoteOK, Delivering
    <3>2. note[n].status = "PENDING" /\ note[n].attempts < MaxAttempts /\ note[n].attempts \in Nat
      BY <3>1 DEF SoleDelivery, TypeOK, Note
    <3>3. \A u \in Tasks : task'[u].current = n <=> u = t
      BY <2>1, <2>2, <3>1 DEF SoleDelivery, Delivering
    <3>4. n \notin retried => \A c \in Channels : accepted[n][c] = 0
      BY <3>1 DEF SoleDelivery, Quota
    <3>5. n \notin retried => Quota(n)'
      BY <1>1, <3>3, <3>4 DEF Quota, Delivering, Channels
    <3> QED
      BY <1>1, <1>3, <2>1, <3>2, <3>3, <3>5 DEF SoleDelivery, Delivering, MaxAttempts
  <2>4. note'[n].status = "SENT" => \A c \in Channels : note'[n].channel \in {c, "BOTH"} => accepted'[n][c] > 0
    BY <1>1, <1>3 DEF IInv, NoteOK, Needs
  <2> QED
    BY <1>1, <1>3, <1>5, <2>1, <2>3, <2>4 DEF NoteOK, Delivering, Needs
<1>11. ASSUME NEW m \in Notifications, m # n PROVE NoteOK(m)'
  <2>1. \A u \in Tasks : task'[u].current = m => task[u].current = m /\ task'[u].step = task[u].step
    BY <1>1, <1>2, <1>11
  <2>2. \A u \in Tasks : task[u].current = m => task'[u].current = m
    BY <1>1, <1>5, <1>11, NoneFact
  <2> QED
    BY <1>1, <1>3, <1>11, <2>1, <2>2, NoteKept DEF IInv
<1> QED
  BY <1>6, <1>7, <1>8, <1>9, <1>10, <1>11 DEF IInv

\* What the answer of a provider for n says of it, and of the other tasks.
Answered(t, n, c, ok) ==
    /\ n \in Notifications /\ task[t].kind # "idle" /\ task[t].step = c
    /\ note[n].status # "NONE"
    /\ task[t].kind = "pending" => n \in picked
    /\ accepted' \in [Notifications -> [Channels -> 0..2]]
    /\ ok => accepted'[n][c] > 0
    /\ \A d \in Channels : accepted[n][d] > 0 => accepted'[n][d] > 0
    /\ accepted[n][c] = 0 => accepted'[n][c] <= 1
    /\ \A d \in Channels : d # c => accepted'[n][d] = accepted[n][d]
    /\ \A m \in Notifications \ {n} : accepted'[m] = accepted[m]
    /\ picked' = picked /\ retried' = retried
    /\ \A u \in Tasks : task[u].kind = "send" => n \notin task[u].queue

\* Both ways on from an answer start from these facts.
LEMMA AnswerFacts ==
    ASSUME TypeOK, IInv, NEW t \in Tasks, NEW c \in Channels, NEW ok \in BOOLEAN,
           NEW got \in BOOLEAN, ProviderAnswers(t, c, ok, got), NEW n, n = task[t].current
    PROVE  Answered(t, n, c, ok)
<1>1. task[t].step = c /\ c \in {"EMAIL", "SMS"} /\ TaskOK(t)
  BY DEF ProviderAnswers, Channels, IInv
<1>2. n \in Notifications /\ task[t].kind # "idle"
  BY <1>1, BusyTask
<1>3. /\ note[n].status # "NONE"
      /\ task[t].kind = "pending" => n \in picked
  BY <1>1, <1>2, NoneFact DEF TaskOK
<1>4. \A u \in Tasks : task[u].kind = "send" => n \notin task[u].queue
  BY <1>2 DEF IInv, OwnQueues
<1> DEFINE k == IF got THEN OneMore(accepted[n][c]) ELSE accepted[n][c]
<1>5. accepted[n] \in [Channels -> 0..2] /\ accepted[n][c] \in 0..2
  BY <1>2 DEF TypeOK
<1>6. k \in 0..2 /\ (got => k > 0) /\ (accepted[n][c] > 0 => k > 0) /\ (accepted[n][c] = 0 => k <= 1)
  BY <1>5 DEF OneMore
<1>7. (ok => got) /\ accepted' = [accepted EXCEPT ![n] = [accepted[n] EXCEPT ![c] = k]]
  BY DEF ProviderAnswers
<1> HIDE DEF k
<1>8. [accepted[n] EXCEPT ![c] = k] \in [Channels -> 0..2]
  BY <1>5, <1>6
<1>9. accepted' \in [Notifications -> [Channels -> 0..2]]
  BY <1>2, <1>7, <1>8 DEF TypeOK
<1>10. /\ accepted'[n] = [accepted[n] EXCEPT ![c] = k]
       /\ \A m \in Notifications \ {n} : accepted'[m] = accepted[m]
  BY <1>2, <1>7 DEF TypeOK
<1>11. accepted'[n][c] = k /\ \A d \in Channels : d # c => accepted'[n][d] = accepted[n][d]
  BY <1>5, <1>10
<1> QED
  BY <1>1, <1>2, <1>3, <1>4, <1>6, <1>7, <1>9, <1>10, <1>11 DEF ProviderAnswers, Answered

\* The email of a notification for both channels has gone out: its SMS is next.
LEMMA GoOnOK ==
    ASSUME TypeOK, IInv, NEW t \in Tasks, NEW c \in Channels, NEW ok \in BOOLEAN,
           NEW got \in BOOLEAN, ProviderAnswers(t, c, ok, got),
           c = "EMAIL", Needs(task[t].current, "SMS"), ok
    PROVE  TypeOK' /\ IInv'
<1>1. PICK n : n = task[t].current
  OBVIOUS
<1>2. /\ n \in Notifications /\ task[t].kind # "idle" /\ task[t].step = "EMAIL"
      /\ note[n].status # "NONE"
      /\ task[t].kind = "pending" => n \in picked
      /\ accepted' \in [Notifications -> [Channels -> 0..2]]
      /\ accepted'[n]["EMAIL"] > 0
      /\ \A d \in Channels : accepted[n][d] > 0 => accepted'[n][d] > 0
      /\ accepted[n]["EMAIL"] = 0 => accepted'[n]["EMAIL"] <= 1
      /\ accepted'[n]["SMS"] = accepted[n]["SMS"]
      /\ \A m \in Notifications \ {n} : accepted'[m] = accepted[m]
      /\ picked' = picked /\ retried' = retried
      /\ \A u \in Tasks : task[u].kind = "send" => n \notin task[u].queue
  <2>1. Answered(t, n, c, ok)
    BY <1>1, AnswerFacts
  <2>2. accepted'[n]["SMS"] = accepted[n]["SMS"]
    BY <2>1 DEF Answered, Channels
  <2> QED
    BY <2>1, <2>2 DEF Answered
<1>3. /\ task[t] \in Task /\ TaskOK(t)
      /\ \A u \in Tasks \ {t} : task'[u] = task[u]
      /\ note' = note /\ saved' = saved
  BY DEF ProviderAnswers, TypeOK, IInv
<1>4. task'[t] = [kind |-> task[t].kind, queue |-> task[t].queue \ {n}, current |-> n, step |-> "SMS"]
  BY <1>1, <1>3 DEF ProviderAnswers, TypeOK, Holding
<1>5. TypeOK'
  <2>1. task'[t] \in Task
    BY <1>2, <1>3, <1>4 DEF Task
  <2>2. task' \in [Tasks -> Task]
    BY <1>1, <2>1 DEF ProviderAnswers, TypeOK
  <2> QED
    BY <1>2, <1>3, <2>2 DEF TypeOK
<1>6. TaskOK(t)'
  <2>1. \A m \in task[t].queue \ {n} : accepted'[m] = accepted[m]
    BY <1>2, <1>3 DEF Task
  <2>2. task'[t].kind = "send" => \A m \in task'[t].queue :
          m \notin saved' /\ note'[m].status = "PENDING" /\ Untried(m)'
    BY <1>3, <1>4, <2>1 DEF TaskOK, Untried
  <2>3. note[n].channel \in {"SMS", "BOTH"}
    BY <1>1 DEF Needs
  <2> QED
    BY <1>2, <1>3, <1>4, <2>2, <2>3, NoneFact DEF TaskOK, Needs
<1>7. ASSUME NEW u \in Tasks, u # t PROVE TaskOK(u)'
  <2>1. task[u] \in Task /\ TaskOK(u)
    BY DEF TypeOK, IInv
  <2>2. task[u].queue \subseteq Notifications
    BY <2>1 DEF Task
  <2>3. task[u].kind = "send" => \A m \in task[u].queue :
          m \notin saved' /\ note'[m] = note[m] /\ accepted'[m] = accepted[m]
    BY <1>2, <1>3, <2>1, <2>2 DEF TaskOK
  <2>4. \A m \in Notifications : accepted[m]["EMAIL"] > 0 => accepted'[m]["EMAIL"] > 0
    BY <1>2 DEF Channels
  <2> QED
    BY <1>2, <1>3, <1>7, <2>1, <2>3, <2>4, TaskKept
<1>8. OwnQueues'
  BY <1>2, <1>3, <1>4, OwnQueuesKept DEF IInv
<1>9. NoteOK(n)'
  <2>1. NoteOK(n)
    BY <1>2 DEF IInv
  <2>2. \A u \in Tasks : task'[u].current = n <=> task[u].current = n
    BY <1>1, <1>3, <1>4
  <2>3. ASSUME n \notin picked PROVE SoleDelivery(n)'
    <3>1. SoleDelivery(n) /\ Delivering(t, n)
      BY <1>1, <2>1, <2>3 DEF NoteOK, Delivering
    <3>2. \A u \in Tasks : task'[u].current = n <=> u = t
      BY <2>2, <3>1 DEF SoleDelivery, Delivering
    <3>3. n \notin retried => accepted[n]["EMAIL"] = 0 /\ accepted[n]["SMS"] = 0
      BY <1>2, <3>1 DEF SoleDelivery, Quota, Channels
    <3>4. n \notin retried => Quota(n)'
      BY <1>2, <1>4, <3>2, <3>3 DEF Quota, Delivering, Channels
    <3> QED
      BY <1>2, <1>3, <1>4, <3>1, <3>2, <3>4 DEF SoleDelivery, Delivering
  <2>4. note[n].status = "SENT" => \A d \in Channels : note[n].channel \in {d, "BOTH"} => accepted'[n][d] > 0
    BY <1>2, <2>1 DEF NoteOK, Needs
  <2> QED
    BY <1>2, <1>3, <2>1, <2>2, <2>3, <2>4 DEF NoteOK, Delivering, Needs
<1>10. ASSUME NEW m \in Notifications, m # n PROVE NoteOK(m)'
  <2>1. \A u \in Tasks : task'[u].current = m => task[u].current = m /\ task'[u].step = task[u].step
    BY <1>3, <1>4, <1>10
  <2>2. \A u \in Tasks : task[u].current = m => task'[u].current = m
    BY <1>1, <1>3, <1>10
  <2> QED
    BY <1>2, <1>3, <1>10, <2>1, <2>2, NoteKept DEF IInv
<1> QED
  BY <1>5, <1>6, <1>7, <1>8, <1>9, <1>10 DEF IInv

\* The last answer settles the notification: SENT or FAILED, and nobody's.
LEMMA SettleOK ==
    ASSUME TypeOK, IInv, NEW t \in Tasks, NEW c \in Channels, NEW ok \in BOOLEAN,
           NEW got \in BOOLEAN, ProviderAnswers(t, c, ok, got),
           ~(c = "EMAIL" /\ Needs(task[t].current, "SMS") /\ ok)
    PROVE  TypeOK' /\ IInv'
<1>1. PICK n : n = task[t].current
  OBVIOUS
<1> DEFINE sent == ok /\ note[n].status = "PENDING"
           s == IF sent THEN "SENT" ELSE "FAILED"
           l == IF sent \/ task[t].kind # "send" THEN Loop(t, task[t].queue) ELSE Idle
<1>2. Answered(t, n, c, ok)
  BY <1>1, AnswerFacts
<1>3. Settle(t, ok)
  BY DEF ProviderAnswers
<1>4. /\ task[t] \in Task /\ TaskOK(t)
      /\ \A u \in Tasks \ {t} : task'[u] = task[u]
      /\ task'[t] = l
      /\ saved' = saved \cup {n}
  BY <1>1, <1>3 DEF Settle, TypeOK, IInv
<1>5. /\ note'[n].status = s /\ note'[n].attempts = note[n].attempts
      /\ note'[n].channel = note[n].channel
      /\ \A m \in Notifications \ {n} : note'[m] = note[m]
  BY <1>1, <1>2, <1>3 DEF Settle, TypeOK, Note, Answered
<1>6. /\ l \in Task /\ l.current = None /\ l.step = "next" /\ l.queue \subseteq task[t].queue
      /\ l.kind \in {task[t].kind, "idle"} /\ (l.kind = "idle" => l.queue = {})
  <2>1. CASE sent \/ task[t].kind # "send"
    BY <1>4, <2>1, LoopFacts
  <2>2. CASE ~(sent \/ task[t].kind # "send")
    BY <2>2 DEF Idle, Starting, Task
  <2> QED
    BY <2>1, <2>2
<1> HIDE DEF l
<1>7. s \in {"SENT", "FAILED"} /\ (s = "SENT" => ok)
  OBVIOUS
<1> HIDE DEF s
<1>8. TypeOK'
  <2>1. task' \in [Tasks -> Task]
    BY <1>3, <1>4, <1>6 DEF Settle, TypeOK
  <2>2. note' = [note EXCEPT ![n] = [note[n] EXCEPT !.status = s]]
    BY <1>1, <1>3 DEF Settle, s
  <2>3. [note[n] EXCEPT !.status = s] \in Note
    BY <1>2, <1>7 DEF TypeOK, Note, NotificationStatus, Answered
  <2>4. note' \in [Notifications -> Note]
    BY <2>2, <2>3 DEF TypeOK
  <2> QED
    BY <1>2, <1>4, <2>1, <2>4 DEF TypeOK, Answered
<1>9. TaskOK(t)'
  <2>1. \A m \in task'[t].queue : m \in Notifications
    BY <1>4, <1>6 DEF Task
  <2>2. \A m \in task'[t].queue : note'[m].status # "NONE"
    BY <1>4, <1>5, <1>6, <1>7, <2>1 DEF TaskOK
  <2>3. task'[t].kind = "send" => \A m \in task'[t].queue : m # n
    BY <1>2, <1>4, <1>6 DEF TaskOK, Answered
  <2>4. task'[t].kind = "send" => \A m \in task'[t].queue :
          m \notin saved' /\ note'[m].status = "PENDING" /\ Untried(m)'
    BY <1>2, <1>4, <1>5, <1>6, <2>1, <2>3 DEF TaskOK, Untried, Answered
  <2> QED
    BY <1>2, <1>4, <1>6, <2>2, <2>4 DEF TaskOK, Answered
<1>10. ASSUME NEW u \in Tasks, u # t PROVE TaskOK(u)'
  <2>1. task[u] \in Task /\ TaskOK(u)
    BY DEF TypeOK, IInv
  <2>2. task[u].queue \subseteq Notifications
    BY <2>1 DEF Task
  <2>3. task[u].kind = "send" => \A m \in task[u].queue :
          m \notin saved' /\ note'[m] = note[m] /\ accepted'[m] = accepted[m]
    BY <1>2, <1>4, <1>5, <2>1, <2>2 DEF TaskOK, Answered
  <2>4. \A m \in Notifications : accepted[m]["EMAIL"] > 0 => accepted'[m]["EMAIL"] > 0
    BY <1>2 DEF Channels, Answered
  <2>5. \A m \in Notifications : note[m].status # "NONE" =>
          note'[m].status # "NONE" /\ note'[m].channel = note[m].channel
    BY <1>5, <1>7
  <2>6. picked \subseteq picked'
    BY <1>2 DEF Answered
  <2> QED
    BY <1>4, <1>10, <2>1, <2>3, <2>4, <2>5, <2>6, TaskKept
<1>11. OwnQueues'
  <2>1. ASSUME NEW a \in Tasks, NEW b \in Tasks, task'[a].kind = "send",
               NEW m \in task'[a].queue
        PROVE  task'[b].current # m /\ (b # a => m \notin task'[b].queue)
    <3>1. task[a].kind = "send" /\ m \in task[a].queue
      BY <1>4, <1>6, <2>1 DEF TaskOK
    <3>2. m \in Notifications
      BY <3>1 DEF TypeOK, Task
    <3>3. task[b].current # m /\ (b # a => m \notin task[b].queue)
      BY <3>1 DEF IInv, OwnQueues
    <3> QED
      BY <1>4, <1>6, <3>2, <3>3, NoneFact
  <2> QED
    BY <2>1 DEF OwnQueues
<1>12. NoteOK(n)'
  <2>1. NoteOK(n) /\ n \in Notifications /\ task[t].current = n
    BY <1>1, <1>2 DEF IInv, Answered
  <2>2. \A u \in Tasks : task'[u].current = n => u # t /\ task[u].current = n
    BY <1>4, <1>6, <2>1, NoneFact
  <2>3. ASSUME n \notin picked PROVE SoleDelivery(n)'
    <3>1. SoleDelivery(n) /\ Delivering(t, n)
      BY <2>1, <2>3 DEF NoteOK, Delivering
    <3>2. \A u \in Tasks : task'[u].current # n
      BY <2>2, <3>1 DEF SoleDelivery, Delivering
    <3>3. ASSUME n \notin retried PROVE \A d \in Channels : accepted'[n][d] <= 1
      <4>1. accepted[n][c] = 0 /\ \A d \in Channels : accepted[n][d] <= 1
        BY <1>2, <3>1, <3>3 DEF SoleDelivery, Quota, Channels, Answered
      <4> QED
        BY <1>2, <4>1 DEF Answered
    <3> QED
      BY <1>2, <1>5, <3>1, <3>2, <3>3 DEF SoleDelivery, Quota, Delivering, Answered
  <2>4. ASSUME s = "SENT", NEW d \in Channels, note[n].channel \in {d, "BOTH"}
        PROVE  accepted'[n][d] > 0
    <3>1. ok /\ accepted'[n][c] > 0
      BY <1>2, <1>7, <2>4 DEF Answered
    <3>2. CASE d = c
      BY <3>1, <3>2
    <3>3. CASE d # c
      <4>1. c = "SMS" /\ d = "EMAIL"
        <5>1. c = "EMAIL" => note[n].channel \notin {"SMS", "BOTH"}
          BY <1>1, <3>1 DEF Needs
        <5> QED
          BY <2>4, <3>3, <5>1 DEF Channels
      <4>2. accepted[n]["EMAIL"] > 0
        BY <1>2, <1>4, <2>1, <2>4, <4>1 DEF TaskOK, Needs, Answered
      <4> QED
        BY <1>2, <4>1, <4>2 DEF Answered, Channels
    <3> QED
      BY <3>2, <3>3
  <2> QED
    BY <1>2, <1>5, <1>7, <2>3, <2>4 DEF NoteOK, Needs, Answered
<1>13. ASSUME NEW m \in Notifications, m # n PROVE NoteOK(m)'
  <2>1. \A u \in Tasks : task'[u].current = m => task[u].current = m /\ task'[u].step = task[u].step
    BY <1>4, <1>6, NoneFact
  <2>2. \A u \in Tasks : task[u].current = m => task'[u].current = m
    BY <1>1, <1>4, <1>13
  <2> QED
    BY <1>2, <1>4, <1>5, <1>13, <2>1, <2>2, NoteKept DEF IInv, Answered
<1> QED
  BY <1>8, <1>9, <1>10, <1>11, <1>12, <1>13 DEF IInv

\* A restart leaves nothing to hold.
LEMMA CrashOK ==
    ASSUME TypeOK, IInv, Crash
    PROVE  TypeOK' /\ IInv'
<1>1. /\ \A t \in Tasks : task'[t] = [kind |-> "idle", queue |-> {}, current |-> None, step |-> "next"]
      /\ saved' = {} /\ UNCHANGED <<note, accepted, picked, retried>>
  BY DEF Crash, Idle, Starting
<1>2. TypeOK'
  <2>1. Idle \in Task
    BY DEF Idle, Starting, Task
  <2> QED
    BY <1>1, <2>1 DEF Crash, TypeOK
<1>3. \A t \in Tasks : TaskOK(t)'
  BY <1>1 DEF TaskOK
<1>4. OwnQueues'
  BY <1>1 DEF OwnQueues
<1>5. ASSUME NEW n \in Notifications PROVE NoteOK(n)'
  <2>1. \A t \in Tasks : task'[t].current # n
    BY <1>1, NoneFact
  <2>2. n \notin picked => SoleDelivery(n)'
    BY <1>1, <2>1 DEF IInv, NoteOK, SoleDelivery, Quota, Delivering
  <2> QED
    BY <1>1, <2>2 DEF IInv, NoteOK, Untried, Needs
<1> QED
  BY <1>2, <1>3, <1>4, <1>5 DEF IInv

-----------------------------------------------------------------------------
(* The invariant of the specification.                                      *)

\* Nothing exists and nobody works.
LEMMA InitOK ==
    ASSUME Init
    PROVE  TypeOK /\ IInv
<1>1. /\ \A t \in Tasks : task[t] = [kind |-> "idle", queue |-> {}, current |-> None, step |-> "next"]
      /\ \A n \in Notifications :
           /\ note[n] = [status |-> "NONE", channel |-> "EMAIL", attempts |-> 0]
           /\ \A c \in Channels : accepted[n][c] = 0
      /\ saved = {} /\ picked = {} /\ retried = {}
  BY DEF Init, Idle, Starting, NoNote
<1>2. TypeOK
  <2>1. Idle \in Task /\ NoNote \in Note
    BY DEF Idle, Starting, Task, NoNote, Note, NotificationStatus, DeliveryChannel
  <2> QED
    BY <2>1 DEF Init, TypeOK
<1>3. \A t \in Tasks : TaskOK(t)
  BY <1>1 DEF TaskOK
<1>4. OwnQueues
  BY <1>1 DEF OwnQueues
<1>5. ASSUME NEW n \in Notifications PROVE NoteOK(n)
  BY <1>1, NoneFact DEF NoteOK, SoleDelivery, Quota, Delivering, Untried, MaxAttempts
<1> QED
  BY <1>2, <1>3, <1>4, <1>5 DEF IInv

\* Every step keeps the invariant.
LEMMA NextOK ==
    ASSUME TypeOK, IInv, Next
    PROVE  TypeOK' /\ IInv'
<1>1. ASSUME NEW t \in Callers, NEW N \in SUBSET Notifications,
             NEW channel \in [Notifications -> DeliveryChannel], SendNotifications(t, N, channel)
      PROVE  TypeOK' /\ IInv'
  BY <1>1, SendOK
<1>2. ASSUME NEW t \in Callers, FindNotificationsToRetry(t) PROVE TypeOK' /\ IInv'
  BY <1>2, FindFailedOK
<1>3. ASSUME NEW t \in Workers, FindPendingNotifications(t) PROVE TypeOK' /\ IInv'
  BY <1>3, FindPendingOK
<1>4. ASSUME NEW t \in Tasks, NEW n \in Notifications, SaveNext(t, n) PROVE TypeOK' /\ IInv'
  BY <1>4, SaveOK
<1>5. ASSUME NEW t \in Tasks, NEW n \in Notifications, RetryNext(t, n) PROVE TypeOK' /\ IInv'
  BY <1>5, RetryOK
<1>6. ASSUME NEW t \in Tasks, NEW n \in Notifications, RetryRefused(t, n) PROVE TypeOK' /\ IInv'
  BY <1>6, RefusedOK
<1>7. ASSUME NEW t \in Tasks, NEW n \in Notifications, DeliverPending(t, n) PROVE TypeOK' /\ IInv'
  BY <1>7, DeliverOK DEF DeliverPending
<1>8. ASSUME NEW t \in Tasks, DeliverSaved(t) PROVE TypeOK' /\ IInv'
  <2>1. task[t].step = "deliver" /\ Deliver(t, task[t].current)
    BY <1>8 DEF DeliverSaved
  <2>2. task[t].current \in Notifications
    BY <2>1, BusyTask DEF IInv
  <2> QED
    BY <2>1, <2>2, DeliverOK
<1>9. ASSUME NEW t \in Tasks, NEW c \in Channels, NEW ok \in BOOLEAN, NEW got \in BOOLEAN,
             ProviderAnswers(t, c, ok, got)
      PROVE  TypeOK' /\ IInv'
  BY <1>9, GoOnOK, SettleOK
<1>10. CASE Crash
  BY <1>10, CrashOK
<1> QED
  BY <1>1, <1>2, <1>3, <1>4, <1>5, <1>6, <1>7, <1>8, <1>9, <1>10 DEF Next, Step

\* So does a step that changes nothing here.
LEMMA StutterOK ==
    ASSUME TypeOK, IInv, UNCHANGED vars
    PROVE  TypeOK' /\ IInv'
<1>1. UNCHANGED note /\ UNCHANGED saved /\ UNCHANGED task /\ UNCHANGED accepted
      /\ UNCHANGED picked /\ UNCHANGED retried
  BY DEF vars
<1>2. TypeOK'
  BY <1>1 DEF TypeOK
<1>3. IInv'
  BY <1>1 DEF IInv, TaskOK, OwnQueues, NoteOK, SoleDelivery, Quota, Untried, Delivering, Needs
<1> QED
  BY <1>2, <1>3

\* Whoever holds, queues or has stored a notification agrees with the others on who
\* delivers it, in every reachable state.
THEOREM IInvInvariant == Spec => [](TypeOK /\ IInv)
<1>1. Init => TypeOK /\ IInv
  BY InitOK
<1>2. (TypeOK /\ IInv) /\ [Next]_vars => (TypeOK /\ IInv)'
  BY NextOK, StutterOK
<1> QED
  BY <1>1, <1>2, PTL DEF Spec

\* Every reachable state is well typed.
THEOREM TypeCorrect == Spec => []TypeOK
BY IInvInvariant, PTL

\* SENT means that a provider has accepted every message the notification needs,
\* whichever of the tasks on the shared object said so (markAsSent).
THEOREM SentNotificationsDelivered == Spec => []SentIsDelivered
<1>1. IInv => SentIsDelivered
  BY DEF IInv, NoteOK, SentIsDelivered
<1> QED
  BY <1>1, IInvInvariant, PTL

\* What findPendingNotifications finds is being delivered by somebody already.
THEOREM PendingNotificationsHeld == Spec => []PendingIsHeld
<1>1. TypeOK /\ IInv => PendingIsHeld
  BY DEF TypeOK, IInv, NoteOK, PendingIsHeld
<1> QED
  BY <1>1, IInvInvariant, PTL

\* Without a retry or the pending job, no message of a notification goes out twice.
THEOREM NothingDeliveredTwice == Spec => []DeliveredOnce
<1>1. IInv => DeliveredOnce
  BY DEF IInv, NoteOK, SoleDelivery, Quota, DeliveredOnce
<1> QED
  BY <1>1, IInvInvariant, PTL

\* Concurrent retries stay within the three attempts canRetry allows.
THEOREM AttemptsBounded == Spec => []AttemptsLimited
<1>1. IInv => AttemptsLimited
  BY DEF IInv, NoteOK, SoleDelivery, AttemptsLimited
<1> QED
  BY <1>1, IInvInvariant, PTL

\* Only the task that delivers a notification changes what is not FAILED, and while
\* it does, the notification is PENDING: two jobs settle it only if the pending job
\* took it up.
LEMMA SentKept ==
    ASSUME TypeOK, IInv, Next, NEW n \in Notifications, n \notin picked,
           note[n].status = "SENT"
    PROVE  note'[n].status = "SENT"
<1>1. \A t \in Tasks : task[t].current # n
  BY DEF IInv, NoteOK, SoleDelivery, Delivering
<1>2. ASSUME NEW t \in Tasks, NEW m \in Notifications, Deliver(t, m)
      PROVE  note'[n].status = "SENT"
  BY <1>2 DEF Deliver, TypeOK, Note
<1>3. ASSUME NEW t \in Callers, NEW N \in SUBSET Notifications,
             NEW channel \in [Notifications -> DeliveryChannel], SendNotifications(t, N, channel)
      PROVE  note'[n].status = "SENT"
  BY <1>3 DEF SendNotifications
<1>4. ASSUME NEW t \in Tasks, NEW m \in Notifications, RetryNext(t, m)
      PROVE  note'[n].status = "SENT"
  <2>1. m # n
    BY <1>4 DEF RetryNext, CanRetry
  <2> QED
    BY <1>4, <2>1 DEF RetryNext, TypeOK
<1>5. ASSUME NEW t \in Tasks, NEW c \in Channels, NEW ok \in BOOLEAN, NEW got \in BOOLEAN,
             ProviderAnswers(t, c, ok, got)
      PROVE  note'[n].status = "SENT"
  <2>1. UNCHANGED note \/ Settle(t, ok)
    BY <1>5 DEF ProviderAnswers
  <2>2. ASSUME Settle(t, ok) PROVE note'[n].status = "SENT"
    <3>1. task[t].current # n
      BY <1>1
    <3> QED
      BY <2>2, <3>1 DEF Settle, TypeOK
  <2> QED
    BY <2>1, <2>2
<1>6. ASSUME NEW t \in Tasks, Step(t) PROVE note'[n].status = "SENT"
  <2>1. ASSUME DeliverSaved(t) PROVE note'[n].status = "SENT"
    <3>1. task[t].step = "deliver" /\ Deliver(t, task[t].current)
      BY <2>1 DEF DeliverSaved
    <3>2. task[t].current \in Notifications
      BY <3>1, BusyTask DEF IInv
    <3> QED
      BY <1>2, <3>1, <3>2
  <2>2. ASSUME NEW m \in Notifications, SaveNext(t, m) \/ RetryRefused(t, m)
        PROVE  note'[n].status = "SENT"
    BY <2>2 DEF SaveNext, RetryRefused
  <2> QED
    BY <1>2, <1>4, <1>5, <1>6, <2>1, <2>2 DEF Step, DeliverPending
<1>7. ASSUME NEW t \in Tasks, FindNotificationsToRetry(t) \/ FindPendingNotifications(t)
      PROVE  note'[n].status = "SENT"
  BY <1>7 DEF FindNotificationsToRetry, FindPendingNotifications
<1>8. ASSUME Crash PROVE note'[n].status = "SENT"
  BY <1>8 DEF Crash
<1> QED
  BY <1>3, <1>6, <1>7, <1>8 DEF Next, Tasks

\* What has been sent stays SENT, whatever retries and restarts do, unless the
\* pending job took it up.
THEOREM SentNotificationsFinal == Spec => SentIsFinal
<1>1. TypeOK /\ IInv /\ [Next]_vars =>
        [\A n \in Notifications \ picked :
            note[n].status = "SENT" => note'[n].status = "SENT"]_vars
  BY SentKept
<1> QED
  BY <1>1, IInvInvariant, PTL DEF Spec, SentIsFinal

-----------------------------------------------------------------------------
(* Notification implements NotificationProtocol.                            *)

\* The phase of a notification in a given state of the tasks.
QueuedBy(tk, t, n) == tk[t].kind = "send" /\ n \in tk[t].queue
PhaseOf(tk, pk, n) ==
    LET with(s) == \E t \in Tasks : tk[t].current = n /\ tk[t].step = s IN
    IF n \in pk THEN "shared"
    ELSE IF with("EMAIL") THEN "EMAIL"
    ELSE IF with("SMS") THEN "SMS"
    ELSE IF with("deliver") \/ \E t \in Tasks : QueuedBy(tk, t, n) THEN "waiting"
    ELSE "none"

Shown == [n \in Notifications |-> Phase(n)]
Follows == [Protocol!Next]_(Protocol!vars)

\* Here as in the next state.
LEMMA PhaseMeans ==
    ASSUME NEW n
    PROVE  Phase(n) = PhaseOf(task, picked, n) /\ Phase(n)' = PhaseOf(task', picked', n)
BY DEF Phase, PhaseOf, QueuedBy

\* The only task that has n says how far its delivery has come.
LEMMA PhaseHeld ==
    ASSUME NEW tk, NEW pk, NEW n, n \notin pk, NEW t \in Tasks, tk[t].current = n,
           \A u \in Tasks : tk[u].current = n => u = t
    PROVE  /\ tk[t].step = "EMAIL" => PhaseOf(tk, pk, n) = "EMAIL"
           /\ tk[t].step = "SMS" => PhaseOf(tk, pk, n) = "SMS"
           /\ tk[t].step = "deliver" => PhaseOf(tk, pk, n) = "waiting"
BY DEF PhaseOf

\* Nobody has n: it waits in the queue of a handler, or for nobody.
LEMMA PhaseFree ==
    ASSUME NEW tk, NEW pk, NEW n, n \notin pk, \A u \in Tasks : tk[u].current # n
    PROVE  /\ (\E t \in Tasks : QueuedBy(tk, t, n)) => PhaseOf(tk, pk, n) = "waiting"
           /\ (\A t \in Tasks : ~QueuedBy(tk, t, n)) => PhaseOf(tk, pk, n) = "none"
BY DEF PhaseOf

\* Tasks that agree on n show the same phase.
LEMMA PhaseSame ==
    ASSUME NEW tk, NEW tk2, NEW pk, NEW pk2, NEW n, n \in pk <=> n \in pk2,
           \A t \in Tasks : /\ tk[t].current = n <=> tk2[t].current = n
                            /\ tk[t].current = n => tk[t].step = tk2[t].step
                            /\ QueuedBy(tk, t, n) <=> QueuedBy(tk2, t, n)
    PROVE  PhaseOf(tk, pk, n) = PhaseOf(tk2, pk2, n)
<1>1. \A s : (\E t \in Tasks : tk[t].current = n /\ tk[t].step = s)
               <=> (\E t \in Tasks : tk2[t].current = n /\ tk2[t].step = s)
  OBVIOUS
<1>2. (\E t \in Tasks : QueuedBy(tk, t, n)) <=> (\E t \in Tasks : QueuedBy(tk2, t, n))
  OBVIOUS
<1> QED
  BY <1>1, <1>2 DEF PhaseOf

\* A step of one task leaves the phase of what it does not hold, unless it ends its loop:
\* then what was left of the loop is dropped.
LEMMA OtherPhase ==
    ASSUME TypeOK, IInv, NEW t \in Tasks, \A u \in Tasks \ {t} : task'[u] = task[u],
           NEW m \in Notifications, task[t].current # m, task'[t].current # m,
           m \in picked <=> m \in picked',
           QueuedBy(task', t, m) => QueuedBy(task, t, m)
    PROVE  /\ (QueuedBy(task, t, m) => QueuedBy(task', t, m)) => Phase(m)' = Phase(m)
           /\ Phase(m)' = Phase(m) \/ (Phase(m) = "waiting" /\ Phase(m)' = "none")
<1>1. \A u \in Tasks : /\ task[u].current = m <=> task'[u].current = m
                       /\ task[u].current = m => task[u].step = task'[u].step
                       /\ u # t => (QueuedBy(task, u, m) <=> QueuedBy(task', u, m))
  BY DEF QueuedBy
<1>2. ASSUME QueuedBy(task, t, m) => QueuedBy(task', t, m)
      PROVE  Phase(m)' = Phase(m)
  <2>1. \A u \in Tasks : QueuedBy(task, u, m) <=> QueuedBy(task', u, m)
    BY <1>1, <1>2
  <2>2. PhaseOf(task, picked, m) = PhaseOf(task', picked', m)
    BY <1>1, <2>1, PhaseSame
  <2> QED
    BY <2>2, PhaseMeans
<1>3. ASSUME QueuedBy(task, t, m), ~QueuedBy(task', t, m)
      PROVE  Phase(m)' = Phase(m) \/ (Phase(m) = "waiting" /\ Phase(m)' = "none")
  <2>1. CASE m \in picked
    <3>1. PhaseOf(task, picked, m) = "shared" /\ PhaseOf(task', picked', m) = "shared"
      BY <2>1 DEF PhaseOf
    <3> QED
      BY <3>1, PhaseMeans
  <2>2. CASE m \notin picked
    <3>1. \A u \in Tasks : task[u].current # m /\ (u # t => ~QueuedBy(task, u, m))
      BY <1>3 DEF QueuedBy, IInv, OwnQueues
    <3>2. \A u \in Tasks : task'[u].current # m /\ ~QueuedBy(task', u, m)
      BY <1>1, <1>3, <3>1
    <3>3. PhaseOf(task, picked, m) = "waiting"
      BY <1>3, <2>2, <3>1, PhaseFree
    <3>4. PhaseOf(task', picked', m) = "none"
      BY <2>2, <3>2, PhaseFree
    <3> QED
      BY <3>3, <3>4, PhaseMeans
  <2> QED
    BY <2>1, <2>2
<1> QED
  BY <1>2, <1>3

\* What the pending job has taken up was once created.
Seen == \A n \in picked : note[n].status # "NONE"

\* No step unmakes a notification.
LEMMA MadeStays ==
    ASSUME TypeOK, IInv, [Next]_vars, NEW n \in Notifications, note[n].status # "NONE"
    PROVE  note'[n].status # "NONE"
<1>1. ASSUME NEW t \in Tasks, NEW m \in Notifications, Deliver(t, m)
      PROVE  note'[n].status # "NONE"
  BY <1>1 DEF Deliver, TypeOK, Note
<1>2. ASSUME NEW t \in Tasks, NEW c \in Channels, NEW ok \in BOOLEAN, NEW got \in BOOLEAN,
             ProviderAnswers(t, c, ok, got)
      PROVE  note'[n].status # "NONE"
  <2>1. UNCHANGED note \/ Settle(t, ok)
    BY <1>2 DEF ProviderAnswers
  <2>2. ASSUME Settle(t, ok) PROVE note'[n].status # "NONE"
    BY <2>2 DEF Settle, TypeOK, Note
  <2> QED
    BY <2>1, <2>2
<1>3. ASSUME NEW t \in Tasks, Step(t) PROVE note'[n].status # "NONE"
  <2>1. ASSUME DeliverSaved(t) PROVE note'[n].status # "NONE"
    <3>1. task[t].step = "deliver" /\ Deliver(t, task[t].current)
      BY <2>1 DEF DeliverSaved
    <3>2. task[t].current \in Notifications
      BY <3>1, BusyTask DEF IInv
    <3> QED
      BY <1>1, <3>1, <3>2
  <2>2. ASSUME NEW m \in Notifications, SaveNext(t, m) \/ RetryRefused(t, m)
        PROVE  note'[n].status # "NONE"
    BY <2>2 DEF SaveNext, RetryRefused
  <2>3. ASSUME NEW m \in Notifications, RetryNext(t, m)
        PROVE  note'[n].status # "NONE"
    BY <2>3 DEF RetryNext, TypeOK, Note
  <2> QED
    BY <1>1, <1>2, <1>3, <2>1, <2>2, <2>3 DEF Step, DeliverPending
<1>4. ASSUME NEW t \in Tasks, FindNotificationsToRetry(t) \/ FindPendingNotifications(t)
      PROVE  note'[n].status # "NONE"
  BY <1>4 DEF FindNotificationsToRetry, FindPendingNotifications
<1>5. ASSUME NEW t \in Callers, NEW N \in SUBSET Notifications,
             NEW channel \in [Notifications -> DeliveryChannel], SendNotifications(t, N, channel)
      PROVE  note'[n].status # "NONE"
  BY <1>5 DEF SendNotifications
<1>6. CASE Crash
  BY <1>6 DEF Crash
<1>7. CASE UNCHANGED vars
  BY <1>7 DEF vars
<1> QED
  BY <1>3, <1>4, <1>5, <1>6, <1>7 DEF Next, Tasks

\* Only the pending job takes up, and only what is PENDING.
LEMMA PickedGrows ==
    ASSUME [Next]_vars
    PROVE  \A n \in picked' : n \in picked \/ note[n].status = "PENDING"
BY DEF Next, Step, SendNotifications, FindNotificationsToRetry, FindPendingNotifications, Crash,
       SaveNext, RetryNext, RetryRefused, DeliverPending, DeliverSaved, Deliver, ProviderAnswers,
       vars

LEMMA SeenInvariant == Spec => []Seen
<1>1. Init => Seen
  BY DEF Init, Seen
<1>2. TypeOK /\ IInv /\ Seen /\ [Next]_vars => Seen'
  <2> SUFFICES ASSUME TypeOK, IInv, Seen, [Next]_vars, TypeOK', NEW n \in picked'
               PROVE  note'[n].status # "NONE"
    BY NextOK, StutterOK DEF Seen
  <2>1. n \in Notifications /\ note[n].status # "NONE"
    BY PickedGrows DEF Seen, TypeOK
  <2> QED
    BY <2>1, MadeStays
<1> QED
  BY <1>1, <1>2, IInvInvariant, PTL DEF Spec

-----------------------------------------------------------------------------
(* The steps of Notification seen as steps of NotificationProtocol.         *)

\* A step that changes no object, no message and no phase cannot be seen.
LEMMA HiddenFollows ==
    ASSUME UNCHANGED <<note, accepted>>, \A n \in Notifications : Phase(n)' = Phase(n)
    PROVE  Follows
BY DEF Follows, Protocol!vars

\* The phases when one of them changes.
LEMMA OnePhase ==
    ASSUME NEW n \in Notifications, NEW x, Phase(n)' = x,
           \A m \in Notifications \ {n} : Phase(m)' = Phase(m)
    PROVE  Shown' = [Shown EXCEPT ![n] = x]
BY DEF Shown

\* What a step may make of a notification that two tasks deliver.
LEMMA SharedFollows ==
    ASSUME TypeOK, IInv, TypeOK', IInv', NEW n \in Notifications, n \in picked, n \in picked',
           note[n].status # "NONE", note'[n].status # "NONE", note'[n].channel = note[n].channel,
           note'[n].attempts \in {note[n].attempts, note[n].attempts + 1},
           \A c \in Channels : accepted'[n][c] \in {accepted[n][c], OneMore(accepted[n][c])},
           \A m \in Notifications \ {n} : /\ note'[m] = note[m] /\ accepted'[m] = accepted[m]
                                          /\ \/ Phase(m)' = Phase(m)
                                             \/ Phase(m) = "waiting" /\ Phase(m)' = "none"
    PROVE  Follows
<1>1. Phase(n) = "shared" /\ Phase(n)' = "shared"
  BY PhaseMeans DEF PhaseOf
<1>2. note'[n].status \in {"PENDING", "SENT", "FAILED"}
  BY DEF TypeOK, Note, NotificationStatus
<1>3. note'[n].status = "SENT" => \A c \in Channels : Needs(n, c) => accepted'[n][c] > 0
  BY DEF IInv, NoteOK, Needs
<1>4. Protocol!OthersWaitOrAreDropped(n)
  BY DEF Protocol!OthersWaitOrAreDropped
<1>5. Protocol!SharedStep(n)
  BY <1>1, <1>2, <1>3, <1>4
     DEF Protocol!SharedStep, Protocol!Channels, Channels, Protocol!Needs, Needs,
         Protocol!OneMore, OneMore
<1> QED
  BY <1>5 DEF Follows, Protocol!Next

\* The notifications of an event are created together and wait for their handler.
LEMMA SendFollows ==
    ASSUME TypeOK, IInv, Seen, NEW t \in Callers, NEW N \in SUBSET Notifications,
           NEW channel \in [Notifications -> DeliveryChannel], SendNotifications(t, N, channel)
    PROVE  Follows
<1>1. /\ t \in Tasks /\ N # {} /\ \A n \in N : note[n].status = "NONE"
      /\ \A u \in Tasks \ {t} : task'[u] = task[u]
      /\ task'[t] = [kind |-> "send", queue |-> N, current |-> None, step |-> "next"]
      /\ task[t].kind = "idle" /\ task[t].current = None
      /\ note' = [n \in Notifications |-> IF n \in N THEN Create(channel[n]) ELSE note[n]]
      /\ UNCHANGED <<saved, accepted, picked, retried>>
  BY DEF SendNotifications, Tasks, TypeOK, Starting, IInv, TaskOK
<1>2. ASSUME NEW n \in N PROVE Phase(n)' = "waiting"
  <2>1. n \notin picked' /\ n \in Notifications
    BY <1>1, <1>2 DEF Seen
  <2>2. \A u \in Tasks : task[u].current # n
    BY <1>1, <1>2, <2>1, NoneFact DEF IInv, TaskOK
  <2>3. \A u \in Tasks : task'[u].current # n
    BY <1>1, <2>1, <2>2, NoneFact
  <2>4. QueuedBy(task', t, n)
    BY <1>1, <1>2 DEF QueuedBy
  <2> QED
    BY <1>1, <2>1, <2>3, <2>4, PhaseFree, PhaseMeans
<1>3. ASSUME NEW n \in Notifications \ N PROVE Phase(n)' = Phase(n)
  <2>1. ~QueuedBy(task, t, n) /\ ~QueuedBy(task', t, n)
    BY <1>1, <1>3 DEF QueuedBy
  <2> QED
    BY <1>1, <1>3, <2>1, NoneFact, OtherPhase
<1>4. Shown' = [n \in Notifications |-> IF n \in N THEN "waiting" ELSE Phase(n)]
  BY <1>2, <1>3 DEF Shown
<1>5. Protocol!Create(N, [n \in N |-> channel[n]])
  BY <1>1, <1>4 DEF Protocol!Create, Create, Shown
<1>6. N \in SUBSET { n \in Notifications : note[n].status = "NONE" }
  BY <1>1
<1>7. [n \in N |-> channel[n]] \in [N -> {"EMAIL", "SMS", "BOTH"}]
  BY DEF DeliveryChannel
<1> QED
  BY <1>5, <1>6, <1>7 DEF Follows, Protocol!Next

\* The save of a new notification: its handler goes on waiting.
LEMMA SaveFollows ==
    ASSUME TypeOK, IInv, TypeOK', IInv', NEW t \in Tasks, NEW n \in Notifications, SaveNext(t, n)
    PROVE  Follows
<1>1. /\ task[t].kind = "send" /\ n \in task[t].queue /\ task[t].current = None
      /\ \A u \in Tasks \ {t} : task'[u] = task[u]
      /\ task'[t] = [kind |-> "send", queue |-> task[t].queue \ {n}, current |-> n, step |-> "deliver"]
      /\ UNCHANGED <<note, accepted, picked, retried>>
  BY DEF SaveNext, Holding, TypeOK, IInv, TaskOK
<1>2. \A u \in Tasks : task[u].current # n
  BY <1>1 DEF IInv, OwnQueues
<1>3. Phase(n)' = Phase(n)
  <2>1. CASE n \in picked
    BY <1>1, <2>1, PhaseMeans DEF PhaseOf
  <2>2. CASE n \notin picked
    <3>1. PhaseOf(task, picked, n) = "waiting"
      BY <1>1, <1>2, <2>2, PhaseFree DEF QueuedBy
    <3>2. PhaseOf(task', picked', n) = "waiting"
      BY <1>1, <1>2, <2>2, PhaseHeld
    <3> QED
      BY <3>1, <3>2, PhaseMeans
  <2> QED
    BY <2>1, <2>2
<1>4. ASSUME NEW m \in Notifications \ {n} PROVE Phase(m)' = Phase(m)
  <2>1. QueuedBy(task, t, m) <=> QueuedBy(task', t, m)
    BY <1>1, <1>4 DEF QueuedBy
  <2> QED
    BY <1>1, <1>4, <2>1, NoneFact, OtherPhase
<1> QED
  BY <1>1, <1>3, <1>4, HiddenFollows

\* What the pending job finds is PENDING and being delivered.
LEMMA FindPendingFollows ==
    ASSUME TypeOK, IInv, NEW t \in Workers, FindPendingNotifications(t)
    PROVE  Follows
<1> DEFINE S == { n \in saved : note[n].status = "PENDING" }
<1>1. /\ t \in Tasks /\ S \subseteq Notifications
      /\ \A u \in Tasks \ {t} : task'[u] = task[u]
      /\ task[t].kind = "idle" /\ task[t].current = None
      /\ task'[t].kind = "pending" /\ task'[t].current = None
      /\ picked' = picked \cup S /\ UNCHANGED <<note, accepted>>
  BY DEF FindPendingNotifications, Tasks, TypeOK, Starting, IInv, TaskOK
<1>2. ASSUME NEW n \in S PROVE Phase(n) # "none" /\ Phase(n)' = "shared"
  <2>1. PICK u \in Tasks : task[u].current = n
    BY <1>1, <1>2 DEF IInv, NoteOK, Delivering
  <2>2. task[u].step \in {"EMAIL", "SMS", "deliver"}
    BY <1>1, <1>2, <2>1, NoneFact DEF TypeOK, Task, IInv, TaskOK
  <2>3. PhaseOf(task, picked, n) # "none"
    BY <2>1, <2>2 DEF PhaseOf
  <2>4. PhaseOf(task', picked', n) = "shared"
    BY <1>1, <1>2 DEF PhaseOf
  <2> QED
    BY <2>3, <2>4, PhaseMeans
<1>3. ASSUME NEW n \in Notifications \ S PROVE Phase(n)' = Phase(n)
  <2>1. ~QueuedBy(task, t, n) /\ ~QueuedBy(task', t, n) /\ (n \in picked <=> n \in picked')
    BY <1>1, <1>3 DEF QueuedBy
  <2> QED
    BY <1>1, <1>3, <2>1, NoneFact, OtherPhase
<1>4. Shown' = [n \in Notifications |-> IF n \in S THEN "shared" ELSE Phase(n)]
  BY <1>2, <1>3 DEF Shown
<1>5. \A n \in S : note[n].status = "PENDING"
  OBVIOUS
<1> HIDE DEF S
<1>6. Protocol!PickUp(S)
  BY <1>1, <1>2, <1>4, <1>5 DEF Protocol!PickUp, Shown
<1> QED
  BY <1>1, <1>6 DEF Follows, Protocol!Next

\* Finding what may be retried changes nothing yet.
LEMMA FindFailedFollows ==
    ASSUME TypeOK, IInv, NEW t \in Callers, FindNotificationsToRetry(t)
    PROVE  Follows
<1>1. /\ t \in Tasks
      /\ \A u \in Tasks \ {t} : task'[u] = task[u]
      /\ task[t].kind = "idle" /\ task[t].current = None
      /\ task'[t].kind = "retry" /\ task'[t].current = None
      /\ UNCHANGED <<note, accepted, picked>>
  BY DEF FindNotificationsToRetry, Tasks, TypeOK, Starting, IInv, TaskOK
<1>2. ASSUME NEW n \in Notifications PROVE Phase(n)' = Phase(n)
  <2>1. ~QueuedBy(task, t, n) /\ ~QueuedBy(task', t, n)
    BY <1>1, <1>2 DEF QueuedBy
  <2> QED
    BY <1>1, <1>2, <2>1, NoneFact, OtherPhase
<1> QED
  BY <1>1, <1>2, HiddenFollows

\* retry() of a failed notification, which nobody else was about to deliver.
LEMMA RetryFollows ==
    ASSUME TypeOK, IInv, TypeOK', IInv', NEW t \in Tasks, NEW n \in Notifications, RetryNext(t, n)
    PROVE  Follows
<1>1. /\ task[t].kind = "retry" /\ n \in task[t].queue /\ task[t].current = None
      /\ \A u \in Tasks \ {t} : task'[u] = task[u]
      /\ task'[t] = [kind |-> "retry", queue |-> task[t].queue \ {n}, current |-> n, step |-> "deliver"]
      /\ note[n].status = "FAILED" /\ note[n].attempts < MaxAttempts
      /\ note' = [note EXCEPT ![n].status = "PENDING"]
      /\ UNCHANGED <<accepted, picked>>
  BY DEF RetryNext, CanRetry, Holding, TypeOK, IInv, TaskOK
<1>2. ASSUME NEW m \in Notifications \ {n} PROVE Phase(m)' = Phase(m)
  <2>1. ~QueuedBy(task, t, m) /\ ~QueuedBy(task', t, m)
    BY <1>1, <1>2 DEF QueuedBy
  <2> QED
    BY <1>1, <1>2, <2>1, NoneFact, OtherPhase
<1>3. note[n] \in Note /\ note'[n] = [note[n] EXCEPT !.status = "PENDING"]
        /\ \A m \in Notifications \ {n} : note'[m] = note[m]
  BY <1>1 DEF TypeOK
<1>4. CASE n \in picked
  <2>1. /\ note'[n].status = "PENDING" /\ note'[n].channel = note[n].channel
        /\ note'[n].attempts = note[n].attempts
    BY <1>3 DEF Note
  <2> QED
    BY <1>1, <1>2, <1>3, <1>4, <2>1, SharedFollows
<1>5. CASE n \notin picked
  <2>1. \A u \in Tasks : task[u].current # n /\ ~QueuedBy(task, u, n)
    BY <1>1, <1>5 DEF IInv, NoteOK, SoleDelivery, Delivering, TaskOK, QueuedBy
  <2>2. PhaseOf(task, picked, n) = "none"
    BY <1>5, <2>1, PhaseFree
  <2>3. PhaseOf(task', picked', n) = "waiting"
    BY <1>1, <1>5, <2>1, PhaseHeld
  <2>4. Phase(n) = "none" /\ Phase(n)' = "waiting"
    BY <2>2, <2>3, PhaseMeans
  <2>5. Shown' = [Shown EXCEPT ![n] = "waiting"]
    BY <1>2, <2>4, OnePhase
  <2>6. Protocol!Retry(n)
    BY <1>1, <2>4, <2>5 DEF Protocol!Retry, Protocol!MaxAttempts, MaxAttempts, Shown
  <2> QED
    BY <2>6 DEF Follows, Protocol!Next
<1> QED
  BY <1>4, <1>5

\* What is refused a retry is left alone.
LEMMA RefusedFollows ==
    ASSUME TypeOK, IInv, NEW t \in Tasks, NEW n \in Notifications, RetryRefused(t, n)
    PROVE  Follows
<1>1. /\ task[t].kind = "retry" /\ task[t].current = None /\ TaskOK(t)
      /\ \A u \in Tasks \ {t} : task'[u] = task[u]
      /\ task'[t] = Loop(t, task[t].queue \ {n})
      /\ UNCHANGED <<note, accepted, picked>>
  BY DEF RetryRefused, TypeOK, IInv, TaskOK
<1>2. task'[t].current = None /\ task'[t].kind \in {"retry", "idle"}
  BY <1>1, LoopFacts
<1>3. ASSUME NEW m \in Notifications PROVE Phase(m)' = Phase(m)
  <2>1. ~QueuedBy(task, t, m) /\ ~QueuedBy(task', t, m)
    BY <1>1, <1>2 DEF QueuedBy
  <2> QED
    BY <1>1, <1>2, <1>3, <2>1, NoneFact, OtherPhase
<1> QED
  BY <1>1, <1>3, HiddenFollows

\* An attempt begins - the only one there is, or one more of what is shared.
LEMMA DeliverFollows ==
    ASSUME TypeOK, IInv, Seen, TypeOK', IInv', NEW t \in Tasks, NEW n \in Notifications,
           Deliver(t, n),
           \/ task[t].step = "deliver" /\ task[t].current = n
           \/ task[t].kind = "pending" /\ task[t].step = "next" /\ n \in task[t].queue
    PROVE  Follows
<1> DEFINE c == IF Needs(n, "EMAIL") THEN "EMAIL" ELSE "SMS"
<1>1. /\ task[t].current \in {n, None}
      /\ \A u \in Tasks \ {t} : task'[u] = task[u]
      /\ task'[t] = [kind |-> task[t].kind, queue |-> task[t].queue \ {n}, current |-> n, step |-> c]
      /\ note' = [note EXCEPT ![n].attempts = @ + 1]
      /\ UNCHANGED <<accepted, picked>>
  BY DEF Deliver, Holding, TypeOK, IInv, TaskOK
<1>2. ASSUME NEW m \in Notifications \ {n} PROVE Phase(m)' = Phase(m)
  <2>1. QueuedBy(task, t, m) <=> QueuedBy(task', t, m)
    BY <1>1, <1>2 DEF QueuedBy
  <2> QED
    BY <1>1, <1>2, <2>1, NoneFact, OtherPhase
<1>3. note[n] \in Note /\ note'[n] = [note[n] EXCEPT !.attempts = @ + 1]
        /\ \A m \in Notifications \ {n} : note'[m] = note[m]
  BY <1>1 DEF TypeOK
<1>4. CASE n \in picked
  <2>1. /\ note'[n].status = note[n].status /\ note'[n].channel = note[n].channel
        /\ note'[n].attempts = note[n].attempts + 1
    BY <1>3 DEF Note
  <2>2. note[n].status # "NONE"
    BY <1>4 DEF Seen
  <2> QED
    BY <1>1, <1>2, <1>3, <1>4, <2>1, <2>2, SharedFollows
<1>5. CASE n \notin picked
  <2>1. task[t].current = n /\ task[t].step = "deliver"
    BY <1>5 DEF IInv, TaskOK
  <2>2. /\ \A u \in Tasks : task[u].current = n => u = t
        /\ note[n].status = "PENDING" /\ note[n].attempts < MaxAttempts
    BY <1>5, <2>1 DEF IInv, NoteOK, SoleDelivery, Delivering
  <2>3. PhaseOf(task, picked, n) = "waiting"
    BY <1>5, <2>1, <2>2, PhaseHeld
  <2>4. PhaseOf(task', picked', n) = c
    BY <1>1, <1>5, <2>2, PhaseHeld
  <2>5. Phase(n) = "waiting" /\ Phase(n)' = c
    BY <2>3, <2>4, PhaseMeans
  <2>6. c = Protocol!FirstChannel(n)
    BY DEF Protocol!FirstChannel, Protocol!Needs, Needs
  <2>7. Shown' = [Shown EXCEPT ![n] = Protocol!FirstChannel(n)]
    BY <1>2, <2>5, <2>6, OnePhase
  <2>8. Protocol!Begin(n)
    BY <1>1, <2>2, <2>5, <2>7 DEF Protocol!Begin, Protocol!MaxAttempts, MaxAttempts, Shown
  <2> QED
    BY <2>8 DEF Follows, Protocol!Next
<1> QED
  BY <1>4, <1>5

\* What the answer of a provider does to the messages it has accepted.
Heard(n, c, got) ==
    /\ accepted' = IF got THEN [accepted EXCEPT ![n][c] = OneMore(@)] ELSE accepted
    /\ \A d \in Channels : accepted'[n][d] \in {accepted[n][d], OneMore(accepted[n][d])}
    /\ \A m \in Notifications \ {n} : accepted'[m] = accepted[m]

LEMMA AnsweredMessages ==
    ASSUME TypeOK, IInv, NEW t \in Tasks, NEW c \in Channels, NEW ok \in BOOLEAN,
           NEW got \in BOOLEAN, ProviderAnswers(t, c, ok, got), NEW n \in Notifications,
           n = task[t].current
    PROVE  Heard(n, c, got)
<1>1. accepted' = [accepted EXCEPT ![n] =
                     [accepted[n] EXCEPT ![c] = IF got THEN OneMore(accepted[n][c])
                                                ELSE accepted[n][c]]]
  BY DEF ProviderAnswers
<1>2. /\ accepted \in [Notifications -> [Channels -> 0..2]]
      /\ accepted[n] \in [Channels -> 0..2]
  BY DEF TypeOK
<1>3. CASE got
  BY <1>1, <1>2, <1>3 DEF Heard
<1>4. CASE ~got
  <2>1. accepted' = accepted
    BY <1>1, <1>2, <1>4
  <2> QED
    BY <1>4, <2>1 DEF Heard
<1> QED
  BY <1>3, <1>4

\* The email is out and the SMS is next.
LEMMA GoOnFollows ==
    ASSUME TypeOK, IInv, TypeOK', IInv', NEW t \in Tasks, NEW c \in Channels, NEW ok \in BOOLEAN,
           NEW got \in BOOLEAN, ProviderAnswers(t, c, ok, got),
           c = "EMAIL", Needs(task[t].current, "SMS"), ok
    PROVE  Follows
<1>1. PICK n : n = task[t].current
  OBVIOUS
<1>2. Answered(t, n, c, ok)
  BY <1>1, AnswerFacts
<1>3. n \in Notifications /\ note[n].status # "NONE" /\ task[t].step = "EMAIL" /\ picked' = picked
  BY <1>2 DEF Answered
<1>4. /\ got /\ note' = note
      /\ \A u \in Tasks \ {t} : task'[u] = task[u]
      /\ task'[t] = [kind |-> task[t].kind, queue |-> task[t].queue \ {n}, current |-> n, step |-> "SMS"]
  BY <1>1 DEF ProviderAnswers, TypeOK, Holding
<1>5. /\ accepted' = [accepted EXCEPT ![n]["EMAIL"] = OneMore(@)]
      /\ \A d \in Channels : accepted'[n][d] \in {accepted[n][d], OneMore(accepted[n][d])}
      /\ \A m \in Notifications \ {n} : accepted'[m] = accepted[m]
  <2>1. Heard(n, c, got)
    BY <1>1, <1>3, AnsweredMessages
  <2> QED
    BY <1>4, <2>1 DEF Heard
<1>6. ASSUME NEW m \in Notifications \ {n} PROVE Phase(m)' = Phase(m)
  <2>1. QueuedBy(task, t, m) <=> QueuedBy(task', t, m)
    BY <1>4, <1>6 DEF QueuedBy
  <2> QED
    BY <1>1, <1>3, <1>4, <1>6, <2>1, OtherPhase
<1>7. CASE n \in picked
  BY <1>3, <1>4, <1>5, <1>6, <1>7, SharedFollows
<1>8. CASE n \notin picked
  <2>1. \A u \in Tasks : task[u].current = n => u = t
    BY <1>1, <1>3, <1>8 DEF IInv, NoteOK, SoleDelivery, Delivering
  <2>2. PhaseOf(task, picked, n) = "EMAIL"
    BY <1>1, <1>3, <1>8, <2>1, PhaseHeld
  <2>3. PhaseOf(task', picked', n) = "SMS"
    BY <1>3, <1>4, <1>8, <2>1, PhaseHeld
  <2>4. Phase(n) = "EMAIL" /\ Phase(n)' = "SMS"
    BY <2>2, <2>3, PhaseMeans
  <2>5. Shown' = [Shown EXCEPT ![n] = "SMS"]
    BY <1>3, <1>6, <2>4, OnePhase
  <2>6. Protocol!GoOn(n)
    BY <1>1, <1>3, <1>4, <1>5, <2>4, <2>5
       DEF Protocol!GoOn, Protocol!Needs, Needs, Protocol!OneMore, OneMore, Shown
  <2> QED
    BY <1>3, <2>6 DEF Follows, Protocol!Next
<1> QED
  BY <1>7, <1>8

\* The delivery has come to its end, and so has the loop of a handler when it failed.
LEMMA SettleFollows ==
    ASSUME TypeOK, IInv, TypeOK', IInv', NEW t \in Tasks, NEW c \in Channels, NEW ok \in BOOLEAN,
           NEW got \in BOOLEAN, ProviderAnswers(t, c, ok, got),
           ~(c = "EMAIL" /\ Needs(task[t].current, "SMS") /\ ok)
    PROVE  Follows
<1>1. PICK n : n = task[t].current
  OBVIOUS
<1>2. Answered(t, n, c, ok)
  BY <1>1, AnswerFacts
<1>3. /\ n \in Notifications /\ note[n].status # "NONE" /\ task[t].step = c /\ picked' = picked
      /\ task[t] \in Task /\ TaskOK(t)
  BY <1>2 DEF Answered, TypeOK, IInv
<1> DEFINE sent == ok /\ note[n].status = "PENDING"
           l == Loop(t, task[t].queue)
<1>4. /\ note' = [note EXCEPT ![n].status = IF sent THEN "SENT" ELSE "FAILED"]
      /\ task' = [task EXCEPT ![t] = IF sent \/ task[t].kind # "send" THEN l ELSE Idle]
      /\ ok => got
  BY <1>1 DEF ProviderAnswers, Settle
<1>5. /\ l.current = None /\ l.queue = task[t].queue /\ l.kind \in {task[t].kind, "idle"}
      /\ l.kind = "idle" => l.queue = {}
  BY <1>3, LoopFacts
<1>6. Idle.current = None /\ Idle.kind = "idle"
  BY DEF Idle, Starting
<1>7. /\ \A u \in Tasks \ {t} : task'[u] = task[u]
      /\ task'[t] = IF sent \/ task[t].kind # "send" THEN l ELSE Idle
  BY <1>4 DEF TypeOK
<1> HIDE DEF l
<1>8. task'[t].current = None
  BY <1>5, <1>6, <1>7
<1>9. ASSUME NEW m \in Notifications \ {n}
      PROVE  /\ Phase(m)' = Phase(m) \/ (Phase(m) = "waiting" /\ Phase(m)' = "none")
             /\ sent => Phase(m)' = Phase(m)
  <2>1. QueuedBy(task', t, m) => QueuedBy(task, t, m)
    BY <1>5, <1>6, <1>7 DEF QueuedBy
  <2>2. sent => (QueuedBy(task, t, m) => QueuedBy(task', t, m))
    BY <1>5, <1>7 DEF QueuedBy
  <2>3. task[t].current # m /\ task'[t].current # m
    BY <1>1, <1>8, <1>9, NoneFact
  <2> QED
    BY <1>3, <1>7, <2>1, <2>2, <2>3, OtherPhase
<1>10. /\ accepted' = IF got THEN [accepted EXCEPT ![n][c] = OneMore(@)] ELSE accepted
       /\ \A d \in Channels : accepted'[n][d] \in {accepted[n][d], OneMore(accepted[n][d])}
       /\ \A m \in Notifications \ {n} : accepted'[m] = accepted[m]
  <2>1. Heard(n, c, got)
    BY <1>1, <1>3, AnsweredMessages
  <2> QED
    BY <2>1 DEF Heard
<1>11. /\ note[n] \in Note /\ \A m \in Notifications \ {n} : note'[m] = note[m]
       /\ note'[n] = [note[n] EXCEPT !.status = IF sent THEN "SENT" ELSE "FAILED"]
  BY <1>3, <1>4 DEF TypeOK
<1>12. CASE n \in picked
  <2>1. /\ note'[n].status # "NONE" /\ note'[n].channel = note[n].channel
        /\ note'[n].attempts = note[n].attempts
    BY <1>11 DEF Note
  <2> QED
    BY <1>3, <1>9, <1>10, <1>11, <1>12, <2>1, SharedFollows
<1>13. CASE n \notin picked
  <2>1. /\ \A u \in Tasks : task[u].current = n => u = t
        /\ note[n].status = "PENDING"
    BY <1>1, <1>3, <1>13 DEF IInv, NoteOK, SoleDelivery, Delivering
  <2>2. PhaseOf(task, picked, n) = c
    BY <1>1, <1>3, <1>13, <2>1, PhaseHeld DEF Channels
  <2>3. \A u \in Tasks : task'[u].current # n /\ ~QueuedBy(task', u, n)
    <3>1. \A u \in Tasks : ~QueuedBy(task, u, n)
      BY <1>2 DEF Answered, QueuedBy
    <3>2. ~QueuedBy(task', t, n)
      BY <1>5, <1>6, <1>7, <3>1 DEF QueuedBy
    <3> QED
      BY <1>3, <1>7, <1>8, <2>1, <3>1, <3>2, NoneFact DEF QueuedBy
  <2>4. PhaseOf(task', picked', n) = "none"
    BY <1>3, <1>13, <2>3, PhaseFree
  <2>5. Phase(n) = c /\ Phase(n)' = "none"
    BY <2>2, <2>4, PhaseMeans
  <2>6. CASE ok
    <3>1. Shown' = [Shown EXCEPT ![n] = "none"]
      BY <1>3, <1>9, <2>1, <2>5, <2>6, OnePhase
    <3>2. Protocol!Succeed(n, c)
      BY <1>1, <1>3, <1>4, <1>10, <2>1, <2>5, <2>6, <3>1
         DEF Protocol!Succeed, Protocol!Needs, Needs, Protocol!OneMore, OneMore, Shown
    <3> QED
      BY <1>3, <3>2 DEF Follows, Protocol!Next, Protocol!Channels, Channels
  <2>7. CASE ~ok
    <3>1. accepted' \in {accepted, [accepted EXCEPT ![n][c] = OneMore(@)]}
      BY <1>10
    <3>2. Protocol!OthersWaitOrAreDropped(n)
      BY <1>9 DEF Protocol!OthersWaitOrAreDropped
    <3>3. Protocol!FailAt(n, c)
      BY <1>3, <1>4, <2>1, <2>5, <2>7, <3>1, <3>2
         DEF Protocol!FailAt, Protocol!OneMore, OneMore
    <3> QED
      BY <1>3, <3>3 DEF Follows, Protocol!Next, Protocol!Channels, Channels
  <2> QED
    BY <2>6, <2>7
<1> QED
  BY <1>12, <1>13

\* After a restart nobody delivers anything.
LEMMA CrashFollows ==
    ASSUME Crash
    PROVE  Follows
<1>1. /\ \A t \in Tasks : task'[t] = [kind |-> "idle", queue |-> {}, current |-> None, step |-> "next"]
      /\ UNCHANGED <<note, accepted, picked>>
  BY DEF Crash, Idle, Starting
<1>2. ASSUME NEW n \in Notifications
      PROVE  Phase(n)' = IF Phase(n) = "shared" THEN "shared" ELSE "none"
  <2>1. PhaseOf(task, picked, n) = "shared" <=> n \in picked
    BY DEF PhaseOf
  <2>2. CASE n \in picked
    <3>1. PhaseOf(task', picked', n) = "shared"
      BY <1>1, <2>2 DEF PhaseOf
    <3> QED
      BY <2>1, <2>2, <3>1, PhaseMeans
  <2>3. CASE n \notin picked
    <3>1. \A t \in Tasks : task'[t].current # n /\ ~QueuedBy(task', t, n)
      BY <1>1, NoneFact DEF QueuedBy
    <3>2. PhaseOf(task', picked', n) = "none"
      BY <1>1, <2>3, <3>1, PhaseFree
    <3> QED
      BY <2>1, <2>3, <3>2, PhaseMeans
  <2> QED
    BY <2>2, <2>3
<1>3. Protocol!Forget
  BY <1>1, <1>2 DEF Protocol!Forget
<1> QED
  BY <1>3 DEF Follows, Protocol!Next

LEMMA StepsFollow ==
    ASSUME TypeOK, IInv, Seen, Next
    PROVE  Follows
<1>1. TypeOK' /\ IInv'
  BY NextOK
<1>2. ASSUME NEW t \in Callers, NEW N \in SUBSET Notifications,
             NEW channel \in [Notifications -> DeliveryChannel], SendNotifications(t, N, channel)
      PROVE  Follows
  BY <1>2, SendFollows
<1>3. ASSUME NEW t \in Tasks, NEW n \in Notifications,
             SaveNext(t, n) \/ RetryNext(t, n) \/ RetryRefused(t, n)
      PROVE  Follows
  BY <1>1, <1>3, SaveFollows, RetryFollows, RefusedFollows
<1>4. ASSUME NEW t \in Tasks, NEW n \in Notifications, DeliverPending(t, n) PROVE Follows
  BY <1>1, <1>4, DeliverFollows DEF DeliverPending
<1>5. ASSUME NEW t \in Tasks, DeliverSaved(t) PROVE Follows
  <2>1. task[t].step = "deliver" /\ Deliver(t, task[t].current)
    BY <1>5 DEF DeliverSaved
  <2>2. PICK n \in Notifications : n = task[t].current
    BY <2>1, BusyTask DEF IInv
  <2> QED
    BY <1>1, <2>1, <2>2, DeliverFollows
<1>6. ASSUME NEW t \in Tasks, NEW c \in Channels, NEW ok \in BOOLEAN, NEW got \in BOOLEAN,
             ProviderAnswers(t, c, ok, got)
      PROVE  Follows
  BY <1>1, <1>6, GoOnFollows, SettleFollows
<1>7. CASE \/ \E t \in Callers : FindNotificationsToRetry(t)
           \/ \E t \in Workers : FindPendingNotifications(t)
           \/ Crash
  BY <1>7, FindFailedFollows, FindPendingFollows, CrashFollows
<1> QED
  BY <1>2, <1>3, <1>4, <1>5, <1>6, <1>7 DEF Next, Step

\* The service does what NotificationProtocol promises, however its tasks interleave on
\* the shared objects: one attempt at a time and three at most, the providers in turn,
\* SENT only at the end of an attempt - and the pending job can only ever take up what
\* somebody is delivering, from when on only the truth of SENT is kept.
THEOREM ImplementsProtocol == Spec => FollowsProtocol
<1>1. Init => Protocol!Init
  <2> SUFFICES ASSUME Init PROVE Protocol!Init
    OBVIOUS
  <2>1. \A t \in Tasks : task[t] = [kind |-> "idle", queue |-> {}, current |-> None, step |-> "next"]
    BY DEF Init, Idle, Starting
  <2>2. ASSUME NEW n \in Notifications PROVE Phase(n) = "none"
    <3>1. n \notin picked /\ \A t \in Tasks : task[t].current # n /\ ~QueuedBy(task, t, n)
      BY <2>1, NoneFact DEF QueuedBy, Init
    <3> QED
      BY <3>1, PhaseFree, PhaseMeans
  <2> QED
    BY <2>2 DEF Protocol!Init, Protocol!Channels, Channels, Init, NoNote
<1>2. TypeOK /\ IInv /\ Seen /\ [Next]_vars => [Protocol!Next]_(Protocol!vars)
  <2> SUFFICES ASSUME TypeOK, IInv, Seen, [Next]_vars PROVE Follows
    BY DEF Follows
  <2>1. CASE UNCHANGED vars
    <3>1. \A n \in Notifications : Phase(n)' = Phase(n)
      BY <2>1, PhaseMeans DEF vars
    <3> QED
      BY <2>1, <3>1, HiddenFollows DEF vars
  <2> QED
    BY <2>1, StepsFollow
<1> QED
  BY <1>1, <1>2, IInvInvariant, SeenInvariant, PTL DEF Spec, FollowsProtocol, Protocol!Spec
=============================================================================
