---------------------------- MODULE Orchestration -----------------------------
(***************************************************************************)
(* Who is told what about one booking: the event handlers of                *)
(* src/src/shared/orchestration and src/src/communication, the factories and  *)
(* templates of their messages, and the webhook and the status page around a  *)
(* payment.                                                                *)
(*                                                                         *)
(* The event bus starts a handler and nobody waits for it: several are under   *)
(* way at one time, each giving way where it reads or writes the booking,     *)
(* looks something up or has a message delivered, and the job for pending     *)
(* notifications delivers some of these messages once more.  Of a confirmation *)
(* and a cancellation this module has the read of the row and the write of it; *)
(* their legs and failures are in BookingLifecycle.tla, which also shows that  *)
(* the start of a leg is kept apart from cancellations and is one step here.   *)
(***************************************************************************)
EXTENDS Naturals, Sequences, FiniteSets

CONSTANTS
    Handlers,       \* handlers under way at one time
    PhoneBooks,     \* the people whose number is stored: sets to choose from
    ListBound,      \* most messages the pending job is let find at one time
    Nothing         \* no event, no word, no answer

VARIABLES
    trip,           \* status of the booking in its row
    chauffeured,    \* whether the row names a chauffeur
    phones,         \* people whose number is stored
    handler,        \* [Handlers -> progress]
    carried,        \* the pending job's list: [Handlers -> the message it found there]
    heard,          \* people whom a message about the booking has reached, on any channel
    lastWord,       \* the status the customer was last told, by message or page
    cancelTold,     \* history: the customer was told of the cancellation
    cancellation    \* history: none was stored, one with nothing else under way, or not so

orchestrationVars ==
    <<trip, chauffeured, phones, handler, carried, heard, lastWord, cancelTold, cancellation>>

People == {"customer", "chauffeur", "owner"}
TripStatuses == {"PENDING", "CONFIRMED", "ACTIVE", "CANCELLED"}

ASSUME NothingAssumption == Nothing \notin TripStatuses
ASSUME PhoneBooksAssumption == PhoneBooks \subseteq SUBSET People

-----------------------------------------------------------------------------
(* Messages: whom they go to, over which channels, what they say, and the    *)
(* blanks of the template that nothing fills.                               *)

StatusUpdateTemplate ==
    {"customerName", "status", "carName", "startDate", "endDate", "pickupLocation",
     "returnLocation"}
OwnerAlertTemplate ==
    {"fleetOwnerName", "bookingReference", "carName", "customerName", "startDate", "endDate",
     "pickupLocation", "returnLocation"}
StartReminderTemplate(to) ==
    {"customerName", "chauffeurName", "carName", "pickupLocation", "legStartTime", "legEndTime"}
EndReminderTemplate(to) ==
    IF to = "customer" THEN {"customerName", "carName", "returnLocation", "endTime"}
                       ELSE {"chauffeurName", "returnLocation", "endTime"}
OtpTemplate == {"otpCode", "expiresAt"}

Interpolate(template, variables) == template \ variables

\* Everybody has an address.
DetermineChannel(to) == IF to \in phones THEN {"EMAIL", "SMS"} ELSE {"EMAIL"}

Message(to, channels, says, blanks) ==
    [to |-> to, channels |-> channels, says |-> says, blanks |-> blanks]

BookingStatusUpdate(to, status) ==
    Message(to, DetermineChannel(to), status,
            Interpolate(StatusUpdateTemplate,
                        {"customerName", "carName", "status", "startDate", "endDate",
                         "pickupLocation", "returnLocation", "bookingReference"}))

FleetOwnerBookingAlert ==
    Message("owner", DetermineChannel("owner"), "BookingAlert",
            Interpolate(OwnerAlertTemplate,
                        {"fleetOwnerName", "customerName", "carName", "startDate", "endDate",
                         "pickupLocation", "returnLocation", "bookingReference"}))

LegVariables ==
    {"customerName", "chauffeurName", "carName", "legStartTime", "legEndTime",
     "pickupLocation", "returnLocation"}
LegStartReminder(to) ==
    Message(to, DetermineChannel(to), "StartReminder",
            Interpolate(StartReminderTemplate(to), LegVariables))
LegEndReminder(to) ==
    Message(to, DetermineChannel(to), "EndReminder",
            Interpolate(EndReminderTemplate(to), LegVariables \cup {"bookingReference"}))

LegStartReminders ==
    <<LegStartReminder("customer")>>
        \o (IF chauffeured THEN <<LegStartReminder("chauffeur")>> ELSE <<>>)
LegEndReminders ==
    <<LegEndReminder("customer")>>
        \o (IF chauffeured THEN <<LegEndReminder("chauffeur")>> ELSE <<>>)

OtpNotification ==
    Message("customer", {"EMAIL"}, "Otp",
            Interpolate(OtpTemplate, {"email", "otpCode", "otpType", "expiresAt"}))

-----------------------------------------------------------------------------
(* What each handler sends, given what its lookups have found, in order.      *)

\* Mutant: the customer's message is made once for each channel.
ConfirmationPerChannel(found) ==
    LET update == BookingStatusUpdate("customer", "CONFIRMED") IN
    (IF {"booking", "customer"} \subseteq found THEN <<update, update>> ELSE <<>>)
    \o (IF {"booking", "owner", "car"} \subseteq found
        THEN <<FleetOwnerBookingAlert>> ELSE <<>>)
\* The owner's alert waits for the customer's message.
PaymentConfirmationNotifications(found) ==
    (IF {"booking", "customer"} \subseteq found
     THEN <<BookingStatusUpdate("customer", "CONFIRMED")>> ELSE <<>>)
    \o (IF {"booking", "owner", "car"} \subseteq found
        THEN <<FleetOwnerBookingAlert>> ELSE <<>>)

\* A car that is not found is called "Vehicle".  What the chauffeur and the owner are to
\* be told goes to the log.
CancellationNotifications(found) ==
    IF {"booking", "customer"} \subseteq found
    THEN <<BookingStatusUpdate("customer", "CANCELLED")>> ELSE <<>>

AssignmentNotifications(found) ==
    IF {"booking", "chauffeur"} \subseteq found
    THEN <<BookingStatusUpdate("chauffeur", "ASSIGNED")>> ELSE <<>>

\* These look people up and write to the log.
UnassignmentNotifications(found) == <<>>
PayoutCompletionNotifications(found) == <<>>
\* Its first line uses a logger that is never set, and throws.
PayoutFailureNotifications(found) == <<>>
\* The code is sent by the request that made it.
OtpGeneratedNotifications(found) == <<>>
RegistrationNotifications(found) == <<>>
ChauffeurAddedNotifications(found) == <<>>
OwnerApprovalNotifications(found) == <<>>

Orchestrated(event, found) ==
    CASE event = "BookingPaymentConfirmed"     -> PaymentConfirmationNotifications(found)
      [] event = "BookingCancelled"            -> CancellationNotifications(found)
      [] event = "BookingChauffeurAssigned"    -> AssignmentNotifications(found)
      [] event = "BookingChauffeurUnassigned"  -> UnassignmentNotifications(found)
      [] event = "PayoutCompleted"             -> PayoutCompletionNotifications(found)
      [] event = "PayoutFailed"                -> PayoutFailureNotifications(found)
      [] event = "OtpGenerated"                -> OtpGeneratedNotifications(found)
      [] event = "UserRegistered"              -> RegistrationNotifications(found)
      [] event = "ChauffeurAdded"              -> ChauffeurAddedNotifications(found)
      [] event = "FleetOwnerApproved"          -> OwnerApprovalNotifications(found)

LookedUp(event) ==
    CASE event = "BookingPaymentConfirmed"  -> {"booking", "customer", "car", "owner"}
      [] event = "BookingCancelled"         -> {"booking", "customer", "car"}
      [] event = "BookingChauffeurAssigned" -> {"booking", "customer", "car", "chauffeur"}
      [] event = "ChauffeurAdded"           -> {"chauffeur", "owner"}
      [] OTHER                              -> {"owner"}

\* Nothing in src/ publishes UserRegistered, ChauffeurAdded, FleetOwnerApproved or
\* PayoutCompleted; their handlers are registered, and here the events may come.
OtherEvents ==
    {"BookingChauffeurUnassigned", "PayoutCompleted", "PayoutFailed", "OtpGenerated",
     "UserRegistered", "ChauffeurAdded", "FleetOwnerApproved"}

-----------------------------------------------------------------------------
(* Handlers.                                                                *)

Resting == [event |-> Nothing, step |-> "none", todo |-> <<>>]
Busy(h) == handler[h] # Resting
StartHandler(h, event, step, todo) ==
    /\ ~Busy(h)
    /\ handler' = [handler EXCEPT ![h] = [event |-> event, step |-> step, todo |-> todo]]

\* The messages left to send; none ends the handler.
Sending(h, todo) ==
    handler' = [handler EXCEPT ![h] =
        IF todo = <<>> THEN Resting ELSE [event |-> @.event, step |-> "send", todo |-> todo]]

\* Mutant: the notifications go out whether or not the booking is confirmed.
ConfirmInAnyCase(h) ==
    /\ handler[h].step = "confirm"
    /\ handler' = [handler EXCEPT ![h].step = IF trip = "PENDING" THEN "save" ELSE "lookup"]
    /\ UNCHANGED <<trip, chauffeured, phones, carried, heard, lastWord, cancelTold, cancellation>>
\* confirmBookingWithPayment loads the booking.  One that is not pending is refused, and the
\* handler logs it and ends.
ConfirmTrip(h) ==
    /\ handler[h].step = "confirm"
    /\ handler' = [handler EXCEPT ![h] = IF trip = "PENDING" THEN [@ EXCEPT !.step = "save"]
                                                            ELSE Resting]
    /\ UNCHANGED <<trip, chauffeured, phones, carried, heard, lastWord, cancelTold, cancellation>>

\* ... and saves the whole row, over whatever it has become: confirmed, and without a
\* chauffeur, as the pending booking was.
SaveTrip(h) ==
    /\ handler[h].step = "save"
    /\ trip' = "CONFIRMED" /\ chauffeured' = FALSE
    /\ handler' = [handler EXCEPT ![h].step = "lookup"]
    /\ UNCHANGED <<phones, carried, heard, lastWord, cancelTold, cancellation>>

\* Each lookup may fail; the handler makes do with the rest.
LookUp(h, found) ==
    /\ handler[h].step = "lookup"
    /\ Sending(h, Orchestrated(handler[h].event, found))
    /\ UNCHANGED <<trip, chauffeured, phones, carried, heard, lastWord, cancelTold, cancellation>>

\* Resend and Twilio answer with a message's id or with an error, or throw.
ProviderAnswers == {"id", "error"}
EmailSent(answer) == answer = "id"
SmsSent(answer) == answer = "id"

\* The channels that took the message: the SMS goes out after the email.
Delivered(message, answer) ==
    {c \in message.channels :
        /\ EmailSent(answer["EMAIL"])
        /\ c = "SMS" => SmsSent(answer["SMS"])}

\* What one delivery makes of what people know.
Told(message, answer) ==
    LET on == Delivered(message, answer) IN
    /\ heard' = IF on = {} \/ message.says = "Otp" THEN heard ELSE heard \cup {message.to}
    /\ lastWord' = IF on # {} /\ message.to = "customer" /\ message.says \in TripStatuses
                   THEN message.says ELSE lastWord
    /\ cancelTold' = (cancelTold \/ lastWord' = "CANCELLED")

\* A message that fails on a channel ends the handler.
DeliverNotification(h, answer) ==
    /\ handler[h].step = "send"
    /\ LET message == Head(handler[h].todo) IN
       /\ IF Delivered(message, answer) = message.channels
          THEN Sending(h, Tail(handler[h].todo))
          ELSE handler' = [handler EXCEPT ![h] = Resting]
       /\ Told(message, answer)
    /\ UNCHANGED <<trip, chauffeured, phones, carried, cancellation>>

\* The process dies, an event's data is not what it should be, or the pending job has
\* settled the message the handler is delivering.
HandlerStops(h) ==
    /\ Busy(h)
    /\ handler' = [handler EXCEPT ![h] = Resting]
    /\ UNCHANGED <<trip, chauffeured, phones, carried, heard, lastWord, cancelTold, cancellation>>

-----------------------------------------------------------------------------
(* The job for pending notifications.  What it finds is what a handler, or the  *)
(* request that sends a code, has stored and is still delivering.               *)

EmptyList == [h \in Handlers |-> Nothing]

ProcessPending(found) ==
    /\ carried = EmptyList
    /\ Cardinality(found) \in 1..ListBound
    /\ \A h \in found : handler[h].step = "send"
    /\ carried' = [h \in Handlers |-> IF h \in found THEN Head(handler[h].todo) ELSE Nothing]
    /\ UNCHANGED <<trip, chauffeured, phones, handler, heard, lastWord, cancelTold, cancellation>>

\* It delivers them one by one, long after their handlers are done with them if providers
\* are slow; one that fails is counted and the loop goes on.
DeliverPending(h, answer) ==
    /\ carried[h] # Nothing
    /\ Told(carried[h], answer)
    /\ carried' = [carried EXCEPT ![h] = Nothing]
    /\ UNCHANGED <<trip, chauffeured, phones, handler, cancellation>>

PendingJobStops ==
    /\ carried # EmptyList
    /\ carried' = EmptyList
    /\ UNCHANGED <<trip, chauffeured, phones, handler, heard, lastWord, cancelTold, cancellation>>

-----------------------------------------------------------------------------
(* Where the events come from.                                              *)

WebhookCalls ==
    [signed : BOOLEAN, event : {"charge.completed", "transfer.completed"},
     status : {"successful", "failed"}, named : {"bookingId", "booking_id", "nowhere"}]

VerifyWebhookSignature(call) == call.signed
ExtractBookingId(call) == call.named # "nowhere"
\* Every call is answered with 200; it may come again at any time.
FlutterwaveWebhook(h, call) ==
    /\ VerifyWebhookSignature(call)
    /\ call.event = "charge.completed" /\ call.status = "successful"
    /\ ExtractBookingId(call)
    /\ StartHandler(h, "BookingPaymentConfirmed", "confirm", <<>>)
    /\ UNCHANGED <<trip, chauffeured, phones, carried, heard, lastWord, cancelTold, cancellation>>

\* The request that cancels: it loads the booking and checks it,
CancelTrip(h) ==
    /\ trip = "CONFIRMED"
    /\ StartHandler(h, "BookingCancelled", "cancel", <<>>)
    /\ UNCHANGED <<trip, chauffeured, phones, carried, heard, lastWord, cancelTold, cancellation>>

\* Nobody else is about to write the booking or to say something of it.
Alone(h) ==
    /\ cancellation = "none"
    /\ \A other \in Handlers : Busy(other) => other = h
    /\ carried = EmptyList

\* and writes the whole row, of which the chauffeur is not asked for again.  Its event
\* starts the handler.
SaveCancelled(h) ==
    /\ handler[h].step = "cancel"
    /\ trip' = "CANCELLED"
    /\ cancellation' = IF Alone(h) THEN "alone" ELSE "crossed"
    /\ handler' = [handler EXCEPT ![h].step = "lookup"]
    /\ UNCHANGED <<chauffeured, phones, carried, heard, lastWord, cancelTold>>

\* Publishing is all that comes of an assignment.
AssignTrip(h) ==
    /\ trip = "CONFIRMED"
    /\ StartHandler(h, "BookingChauffeurAssigned", "lookup", <<>>)
    /\ UNCHANGED <<trip, chauffeured, phones, carried, heard, lastWord, cancelTold, cancellation>>

OtherEvent(h, event) ==
    /\ StartHandler(h, event, "lookup", <<>>)
    /\ UNCHANGED <<trip, chauffeured, phones, carried, heard, lastWord, cancelTold, cancellation>>

\* The events of legs carry all their handler needs.
LegStarts(h) ==
    /\ trip \in {"CONFIRMED", "ACTIVE"} /\ chauffeured
    /\ trip' = "ACTIVE"
    /\ StartHandler(h, "BookingLegStarted", "send", <<BookingStatusUpdate("customer", "ACTIVE")>>)
    /\ UNCHANGED <<chauffeured, phones, carried, heard, lastWord, cancelTold, cancellation>>

StartReminderDue(h) ==
    /\ trip = "CONFIRMED"
    /\ StartHandler(h, "BookingLegStartReminder", "send", LegStartReminders)
    /\ UNCHANGED <<trip, chauffeured, phones, carried, heard, lastWord, cancelTold, cancellation>>

EndReminderDue(h) ==
    /\ trip = "ACTIVE"
    /\ StartHandler(h, "BookingLegEndReminder", "send", LegEndReminders)
    /\ UNCHANGED <<trip, chauffeured, phones, carried, heard, lastWord, cancelTold, cancellation>>

\* The sign-in request itself waits for this one.
SendOtp(h) ==
    /\ StartHandler(h, "otp", "send", <<OtpNotification>>)
    /\ UNCHANGED <<trip, chauffeured, phones, carried, heard, lastWord, cancelTold, cancellation>>

\* Back from paying, the customer's browser asks.  The intent of the payment is not stored
\* with the booking, so a transaction is never looked up at the provider.
PaymentStatus(status, transaction) ==
    CASE status \in {"CONFIRMED", "ACTIVE"}      -> "already confirmed"
      [] status = "PENDING" /\ transaction       -> "cannot verify yet"
      [] status = "PENDING" /\ ~transaction      -> "still processing"
      [] OTHER                                   -> status

PaymentStatusCallback(transaction) ==
    /\ lastWord' = CASE PaymentStatus(trip, transaction) = "already confirmed" -> "CONFIRMED"
                     [] PaymentStatus(trip, transaction) = "CANCELLED"        -> "CANCELLED"
                     [] OTHER                                                 -> lastWord
    /\ cancelTold' = (cancelTold \/ lastWord' = "CANCELLED")
    /\ UNCHANGED <<trip, chauffeured, phones, handler, carried, heard, cancellation>>

\* Somebody stores a chauffeur with the booking, as no code here does.
StoreChauffeur ==
    /\ trip = "CONFIRMED" /\ ~chauffeured
    /\ chauffeured' = TRUE
    /\ UNCHANGED <<trip, phones, handler, carried, heard, lastWord, cancelTold, cancellation>>

-----------------------------------------------------------------------------
OrchestrationInit ==
    /\ trip = "PENDING"
    /\ chauffeured = FALSE
    /\ phones \in PhoneBooks
    /\ handler = [h \in Handlers |-> Resting] /\ carried = EmptyList
    /\ heard = {}
    /\ lastWord = Nothing
    /\ cancelTold = FALSE /\ cancellation = "none"

OrchestrationNext ==
    \/ \E h \in Handlers :
          \/ \E call \in WebhookCalls : FlutterwaveWebhook(h, call)
          \/ CancelTrip(h) \/ SaveCancelled(h)
          \/ AssignTrip(h)
          \/ \E event \in OtherEvents : OtherEvent(h, event)
          \/ LegStarts(h)
          \/ StartReminderDue(h)
          \/ EndReminderDue(h)
          \/ SendOtp(h)
          \/ ConfirmTrip(h) \/ SaveTrip(h)
          \/ \E found \in SUBSET LookedUp(handler[h].event) : LookUp(h, found)
          \/ \E answer \in [{"EMAIL", "SMS"} -> ProviderAnswers] :
                DeliverNotification(h, answer) \/ DeliverPending(h, answer)
          \/ HandlerStops(h)
    \/ \E found \in SUBSET Handlers : ProcessPending(found)
    \/ PendingJobStops
    \/ \E transaction \in BOOLEAN : PaymentStatusCallback(transaction)
    \/ StoreChauffeur

OrchestrationSpec == OrchestrationInit /\ [][OrchestrationNext]_orchestrationVars

-----------------------------------------------------------------------------
Words == TripStatuses \cup {"ASSIGNED", "BookingAlert", "StartReminder", "EndReminder", "Otp"}
Blanks ==
    UNION {StatusUpdateTemplate, OwnerAlertTemplate, OtpTemplate, LegVariables,
           EndReminderTemplate("customer"), EndReminderTemplate("chauffeur")}
Messages ==
    [to : People, channels : SUBSET {"EMAIL", "SMS"}, says : Words, blanks : SUBSET Blanks]

LookupEvents ==
    OtherEvents \cup {"BookingPaymentConfirmed", "BookingCancelled", "BookingChauffeurAssigned"}
Progress ==
    [event : LookupEvents \cup {"BookingLegStarted", "BookingLegStartReminder",
                                "BookingLegEndReminder", "otp", Nothing},
     step : {"none", "confirm", "save", "cancel", "lookup", "send"}, todo : Seq(Messages)]

OrchestrationTypeOK ==
    /\ trip \in TripStatuses
    /\ chauffeured \in BOOLEAN /\ cancelTold \in BOOLEAN
    /\ cancellation \in {"none", "alone", "crossed"}
    /\ phones \subseteq People
    /\ handler \in [Handlers -> Progress]
    /\ \A h \in Handlers : Len(handler[h].todo) <= 2
    /\ carried \in [Handlers -> Messages \cup {Nothing}]
    /\ heard \subseteq People
    /\ lastWord \in TripStatuses \cup {Nothing}

\* People are told what is so.  Nobody hears of a booking, by message or on the status page,
\* before a confirmation of it is stored, and nobody of a cancellation that never was.  Once
\* the customer has been told of a cancellation, that stays the last word, and the row stays
\* cancelled, if nothing else was under way when it was written: another handler or the
\* pending job may otherwise say something older afterwards, and a confirmation that had
\* loaded the booking before the first one wrote may write over the cancellation.  Messages
\* come without blanks, but for the reminders of an end.
ToldTruly ==
    /\ trip = "PENDING" => lastWord = Nothing /\ heard = {}
    /\ cancelTold => cancellation # "none"
    /\ cancelTold /\ cancellation = "alone" => trip = "CANCELLED" /\ lastWord = "CANCELLED"
    /\ \A h \in Handlers : \A i \in 1..Len(handler[h].todo) :
          handler[h].todo[i].blanks = {} \/ handler[h].todo[i].says = "EndReminder"

-----------------------------------------------------------------------------
(* What the handlers under way keep to between two steps.                     *)

\* Messages may wait for as long as they stay true.
Sayable ==
    {m \in Messages :
        /\ m.blanks = {} \/ m.says = "EndReminder"
        /\ trip = "PENDING" => m.to = "customer" /\ m.says = "Otp"
        /\ m.says = "CANCELLED" => cancellation # "none"
        /\ cancellation = "alone" => m.says \in {"CANCELLED", "Otp"}}

\* Events whose messages would be true.
Current ==
    {event \in LookupEvents :
        /\ trip = "PENDING" => event \in OtherEvents
        /\ event = "BookingCancelled" => cancellation # "none"
        /\ cancellation = "alone" => event \in OtherEvents \cup {"BookingCancelled"}}

HandlersInv == \A h \in Handlers :
    /\ handler[h].todo \in Seq(Sayable)
    /\ handler[h].step = "send" <=> handler[h].todo # <<>>
    /\ handler[h].step \in {"confirm", "save"} => handler[h].event = "BookingPaymentConfirmed"
    /\ handler[h].step = "cancel" => handler[h].event = "BookingCancelled"
    /\ handler[h].step \in {"save", "cancel"} => cancellation # "alone"
    /\ handler[h].step = "lookup" => handler[h].event \in Current

CarriedInv == \A h \in Handlers : carried[h] = Nothing \/ carried[h] \in Sayable

OrchestrationInv ==
    /\ HandlersInv /\ CarriedInv
    /\ cancellation = "alone" => trip = "CANCELLED"
    /\ trip = "CANCELLED" => cancellation # "none"
    /\ lastWord = "CANCELLED" => cancellation # "none"
    /\ ToldTruly
=============================================================================
