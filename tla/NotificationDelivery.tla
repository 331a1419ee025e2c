------------------------ MODULE NotificationDelivery ------------------------
(***************************************************************************)
(* The delivery of ONE product notification (packages/api,                 *)
(* scheduling/notification-service.ts), on top of OutboundDelivery.        *)
(*                                                                         *)
(* enqueueProductNotification creates the notification and tries once;     *)
(* deliverPendingProductNotifications, called by the scheduler, tries      *)
(* again whatever is pending_delivery or failed.  An attempt looks up the  *)
(* recipient's conversation, posts the message to /api/outbound under the  *)
(* notification's idempotency key, and records how that went.  Attempts    *)
(* overlap: a drain finds the notification while its first attempt is in   *)
(* flight.  Each deliverer (call of either function) makes one attempt, so *)
(* the request it posts has its name.                                      *)
(*                                                                         *)
(* The recipient's routes change at any time, so the lookup returns any    *)
(* conversation or none; the fields that nothing reads (attempts,          *)
(* lastError, deliveredAt) are left out.                                   *)
(***************************************************************************)
EXTENDS OutboundDelivery

CONSTANTS
    Enqueues,   \* the calls of enqueueProductNotification for the notification
    Drains,     \* the calls of deliverPendingProductNotifications
    MaxLosses   \* bound: answers lost, writes that throw, deliverers that die

ASSUME NotificationAssumption ==
    /\ Enqueues \cup Drains = Requests /\ Enqueues \cap Drains = {}
    /\ Stamps \subseteq Nat /\ 0 \in Stamps /\ MaxLosses \in Nat

VARIABLES
    note,    \* the status of the product_notifications row
    step,    \* the statement each deliverer is about to execute
    posted,  \* the message each deliverer has posted
    now,     \* the clock that stamps the messages
    losses   \* how many answers were lost on the way, or by who waited for them

noteVars == <<note, step, posted, now, losses>>

allVars == <<deliveryVars, noteVars>>

Retryable == {"pending_delivery", "failed"}

StepTo(d, s) == step' = [step EXCEPT ![d] = s]

-----------------------------------------------------------------------------
(* Mutants.  Nothing uses these: each is what a plausible slip would make of *)
(* the operator it is named after, and breaks a property stated below.     *)

(* Whatever the endpoint refuses is taken for a duplicate. *)
DeliveredAnyRefusal == {"ok", "duplicate", "in_progress", "conflict"}

(* Only a notification that has not failed yet can be delivered. *)
MarkDeliveredPendingOnly(d) ==
    /\ step[d] = "markDelivered"
    /\ note' = IF note = "pending_delivery" THEN "delivered" ELSE note
    /\ StepTo(d, "done")
    /\ UNCHANGED <<deliveryVars, posted, now, losses>>

-----------------------------------------------------------------------------
(* enqueueProductNotification and deliverPendingProductNotifications *)

(* The create; the notification that is already there is left alone. *)
Enqueue(d) ==
    /\ d \in Enqueues /\ step[d] = "idle"
    /\ IF note = "none"
       THEN note' = "pending_delivery" /\ StepTo(d, "findRoute")
       ELSE UNCHANGED note /\ StepTo(d, "done")
    /\ UNCHANGED <<deliveryVars, posted, now, losses>>

(* The findMany of a drain, as far as this notification goes. *)
Drain(d) ==
    /\ d \in Drains /\ step[d] = "idle"
    /\ StepTo(d, IF note \in Retryable THEN "findRoute" ELSE "done")
    /\ UNCHANGED <<deliveryVars, note, posted, now, losses>>

(* resolveRecipientBusinessConversationKey, and the post with the time of   *)
(* day as expect_output_timestamp.                                         *)
Post(d) ==
    /\ step[d] = "findRoute"
    /\ \/ StepTo(d, "markFailed") /\ UNCHANGED posted
       \/ \E k \in Conversations :
            /\ posted' = [posted EXCEPT ![d] = [conversation |-> k, stamp |-> now]]
            /\ StepTo(d, "wait")
    /\ UNCHANGED <<deliveryVars, note, now, losses>>

(* The answers that deliverProductNotification takes for a delivery. *)
Delivered == {"ok", "duplicate"}

(* The answer arrives. *)
Hear(d) ==
    /\ step[d] = "wait" /\ reply[d] # "none"
    /\ StepTo(d, IF reply[d] \in Delivered THEN "markDelivered" ELSE "markFailed")
    /\ UNCHANGED <<deliveryVars, note, posted, now, losses>>

(* fetch throws (the request may be lost, under way, or served later), or    *)
(* markDelivered does: either way the catch block records a failure.       *)
Lose(d) ==
    /\ step[d] \in {"wait", "markDelivered"}
    /\ losses < MaxLosses /\ losses' = losses + 1
    /\ StepTo(d, "markFailed")
    /\ UNCHANGED <<deliveryVars, note, posted, now>>

MarkDelivered(d) ==
    /\ step[d] = "markDelivered"
    /\ note' = IF note \in Retryable THEN "delivered" ELSE note
    /\ StepTo(d, "done")
    /\ UNCHANGED <<deliveryVars, posted, now, losses>>

MarkFailed(d) ==
    /\ step[d] = "markFailed"
    /\ note' = IF note \in Retryable THEN "failed" ELSE note
    /\ StepTo(d, "done")
    /\ UNCHANGED <<deliveryVars, posted, now, losses>>

(* The deliverer dies with its process, or cannot write to the database. *)
Die(d) ==
    /\ step[d] \notin {"idle", "done"}
    /\ losses < MaxLosses /\ losses' = losses + 1
    /\ StepTo(d, "done")
    /\ UNCHANGED <<deliveryVars, note, posted, now>>

Tick ==
    /\ now + 1 \in Stamps
    /\ now' = now + 1
    /\ UNCHANGED <<deliveryVars, note, step, posted, losses>>

Attempt(d) == \/ Enqueue(d) \/ Drain(d) \/ Post(d) \/ Hear(d) \/ Lose(d)
              \/ MarkDelivered(d) \/ MarkFailed(d) \/ Die(d)

(* The endpoint serves what was posted. *)
Endpoint(q) ==
    /\ \/ posted[q] # None /\ Receive(q, posted[q])
       \/ Serve(q)
       \/ Crash(q)
    /\ UNCHANGED noteVars

NInit ==
    /\ Init
    /\ note = "none"
    /\ step = [d \in Requests |-> "idle"]
    /\ posted = [d \in Requests |-> None]
    /\ now = 0 /\ losses = 0

NNext ==
    \/ \E d \in Requests : Attempt(d) \/ Endpoint(d)
    \/ Tick

NSpec == NInit /\ [][NNext]_allVars

-----------------------------------------------------------------------------
(* Properties *)

(* A notification marked delivered was handed to the provider and its       *)
(* delivery has succeeded, whichever attempt marked it and whatever the     *)
(* others recorded meanwhile.                                              *)
DeliveredTruthful ==
    note = "delivered" => delivery.status = "succeeded" /\ sent # {}

(* When every answer arrived and no deliverer died, a delivery that          *)
(* succeeded is known to be delivered once every attempt is over: an       *)
(* attempt that the endpoint refused, or whose request died there, does not *)
(* cover up the one that made it.                                          *)
SuccessIsRecorded ==
    losses = 0 /\ delivery.status = "succeeded"
    /\ (\A d \in Requests : step[d] \in {"idle", "done"}) => note = "delivered"

(* A failed delivery is not refused to the attempt that retries it: the      *)
(* endpoint recognises the notification's message (every attempt of it     *)
(* posts the same text under the same key).                                *)
RetryNotRefused ==
    [][ \A d \in Requests :
          delivery.status = "failed" /\ reply[d] = "none" => reply'[d] # "conflict" ]_allVars
=============================================================================
