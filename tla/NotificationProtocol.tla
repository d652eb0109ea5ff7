------------------------ MODULE NotificationProtocol -------------------------
(***************************************************************************)
(* What the notification service promises about one notification, with no    *)
(* tasks, no loops and no Map: it is delivered in attempts, one at a time and  *)
(* three at most, each calls the providers its channel needs in turn and ends  *)
(* SENT or FAILED, and only a failed one is tried again.  Of one the pending   *)
(* job has taken up less is promised: SENT is true of it, and what has been    *)
(* accepted or attempted is not undone.  Notification.tla implements this.    *)
(***************************************************************************)
EXTENDS Naturals

CONSTANT Notifications

VARIABLES
    note,       \* [Notifications -> the object]
    accepted,   \* [Notifications -> [channels -> messages accepted, up to two]]
    phase       \* [Notifications -> Phases]

vars == <<note, accepted, phase>>

\* Nobody is about to deliver it; somebody is; it is with a provider; the pending job
\* delivers it beside another task.
Phases == {"none", "waiting", "EMAIL", "SMS", "shared"}

Channels == {"EMAIL", "SMS"}
MaxAttempts == 3

Needs(n, c) == note[n].channel \in {c, "BOTH"}
FirstChannel(n) == IF Needs(n, "EMAIL") THEN "EMAIL" ELSE "SMS"
OneMore(k) == IF k = 2 THEN 2 ELSE k + 1

Init ==
    /\ note = [n \in Notifications |-> [status |-> "NONE", channel |-> "EMAIL", attempts |-> 0]]
    /\ accepted = [n \in Notifications |-> [c \in Channels |-> 0]]
    /\ phase = [n \in Notifications |-> "none"]

\* A task that ends early drops what it had not come to.
OthersWaitOrAreDropped(n) ==
    \A m \in Notifications \ {n} :
        phase'[m] = phase[m] \/ (phase[m] = "waiting" /\ phase'[m] = "none")

Create(N, channel) ==
    /\ N # {}
    /\ note' = [n \in Notifications |->
                  IF n \in N THEN [status |-> "PENDING", channel |-> channel[n], attempts |-> 0]
                  ELSE note[n]]
    /\ phase' = [n \in Notifications |-> IF n \in N THEN "waiting" ELSE phase[n]]
    /\ UNCHANGED accepted

\* An attempt begins: nobody else has one, and there have been less than three.
Begin(n) ==
    /\ note[n].status = "PENDING" /\ note[n].attempts < MaxAttempts
    /\ phase[n] = "waiting"
    /\ note' = [note EXCEPT ![n].attempts = @ + 1]
    /\ phase' = [phase EXCEPT ![n] = FirstChannel(n)]
    /\ UNCHANGED accepted

\* The email has gone out and the SMS is next.
GoOn(n) ==
    /\ Needs(n, "SMS") /\ phase[n] = "EMAIL"
    /\ accepted' = [accepted EXCEPT ![n]["EMAIL"] = OneMore(@)]
    /\ phase' = [phase EXCEPT ![n] = "SMS"]
    /\ UNCHANGED note

\* The last provider has accepted its message.
Succeed(n, c) ==
    /\ note[n].status = "PENDING"
    /\ note' = [note EXCEPT ![n].status = "SENT"]
    /\ phase[n] = c /\ (c = "EMAIL" => ~Needs(n, "SMS"))
    /\ accepted' = [accepted EXCEPT ![n][c] = OneMore(@)]
    /\ phase' = [phase EXCEPT ![n] = "none"]

\* A provider refuses, or its answer is lost.
FailAt(n, c) ==
    /\ note[n].status = "PENDING"
    /\ note' = [note EXCEPT ![n].status = "FAILED"]
    /\ phase[n] = c
    /\ accepted' \in {accepted, [accepted EXCEPT ![n][c] = OneMore(@)]}
    /\ phase'[n] = "none" /\ OthersWaitOrAreDropped(n)

\* Nobody was about to deliver what is tried again.
Retry(n) ==
    /\ note[n].status = "FAILED" /\ note[n].attempts < MaxAttempts
    /\ note' = [note EXCEPT ![n].status = "PENDING"]
    /\ phase[n] = "none"
    /\ phase' = [phase EXCEPT ![n] = "waiting"]
    /\ UNCHANGED accepted

\* The pending job takes up S: every one of them was being delivered already.
PickUp(S) ==
    /\ \A n \in S : note[n].status = "PENDING" /\ phase[n] # "none"
    /\ phase' = [n \in Notifications |-> IF n \in S THEN "shared" ELSE phase[n]]
    /\ UNCHANGED <<note, accepted>>

\* What two tasks make of the same object.
SharedStep(n) ==
    /\ phase[n] = "shared" /\ phase'[n] = "shared"
    /\ \A m \in Notifications \ {n} : note'[m] = note[m] /\ accepted'[m] = accepted[m]
    /\ note'[n].status \in {"PENDING", "SENT", "FAILED"}
    /\ note'[n].channel = note[n].channel
    /\ note'[n].attempts \in {note[n].attempts, note[n].attempts + 1}
    /\ \A c \in Channels : accepted'[n][c] \in {accepted[n][c], OneMore(accepted[n][c])}
    /\ note'[n].status = "SENT" => \A c \in Channels : Needs(n, c) => accepted'[n][c] > 0
    /\ OthersWaitOrAreDropped(n)

\* The process restarts: what was being delivered never will be.
Forget ==
    /\ phase' = [n \in Notifications |-> IF phase[n] = "shared" THEN "shared" ELSE "none"]
    /\ UNCHANGED <<note, accepted>>

Next ==
    \/ \E n \in Notifications :
         \/ Begin(n) \/ GoOn(n) \/ Retry(n) \/ SharedStep(n)
         \/ \E c \in Channels : Succeed(n, c) \/ FailAt(n, c)
    \/ Forget
    \/ \E S \in SUBSET Notifications : PickUp(S)
    \/ \E N \in SUBSET { n \in Notifications : note[n].status = "NONE" } :
         \E channel \in [N -> {"EMAIL", "SMS", "BOTH"}] : Create(N, channel)

Spec == Init /\ [][Next]_vars
=============================================================================
