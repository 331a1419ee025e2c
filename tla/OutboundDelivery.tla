-------------------------- MODULE OutboundDelivery --------------------------
(***************************************************************************)
(* POST /api/outbound (packages/api, routes/outbound.ts): sending one      *)
(* message to an end user at most once, however often the caller retries.  *)
(*                                                                         *)
(* All requests of this module carry the same idempotency key: deliveries  *)
(* with different keys are rows that share nothing.  The first request     *)
(* creates the row of outbound_deliveries with the message and the target  *)
(* it resolved; a retry compares its message with the stored one, and may  *)
(* take a failed delivery over, to the stored target.  Other requests run  *)
(* between any two awaited statements.                                     *)
(*                                                                         *)
(* Delivery routes and channels belong to other components, which rebind,  *)
(* deactivate, connect and disconnect them at any time: a read of one      *)
(* returns any value.  Nothing in the API deletes a channel, so the lookup *)
(* of a channel by the id that a route or a delivery holds finds it.       *)
(***************************************************************************)
EXTENDS Naturals, FiniteSets

CONSTANTS
    Requests,       \* the requests that carry the idempotency key
    Conversations,  \* the customer's business conversation keys
    Targets,        \* a channel with the external end user behind it
    Stamps,         \* values of expect_output_timestamp
    None,           \* null
    MaxFaults,      \* bound: sends that fail or whose outcome is unknown
    MaxCrashes      \* bound: requests that die, or cannot write their outcome

ASSUME DeliveryAssumption ==
    /\ None \notin Targets /\ None \notin Conversations
    /\ MaxFaults \in Nat /\ MaxCrashes \in Nat

VARIABLES
    delivery,  \* the row of outbound_deliveries
    sent,      \* what was handed to the provider: by whom, what, and where to
    pc,        \* the statement each request is about to execute
    loc,       \* the local variables of each request
    reply,     \* what each request was answered
    faults,    \* how many sends went wrong
    crashes    \* how many requests died

deliveryVars == <<delivery, sent, pc, loc, reply, faults, crashes>>

(* The comparable payload: two requests of one key may differ in these. *)
Message == [conversation: Conversations, stamp: Stamps]

Delivery == [status: {"none", "pending", "failed", "succeeded"},
             message: Message \cup {None},
             target: Targets \cup {None}]

NoDelivery == [status |-> "none", message |-> None, target |-> None]

Locals == [message: Message \cup {None},
           target: Targets \cup {None},
           connected: BOOLEAN]

Blank == [message |-> None, target |-> None, connected |-> FALSE]

(* The statements during which a request owns the delivery. *)
Working == {"deliver", "fail", "succeed"}

Statements == {"resolve", "findChannel", "create", "findStored", "reclaim"}
              \cup Working

Answers == {"ok", "missing_route", "conflict", "duplicate", "in_progress", "error"}

-----------------------------------------------------------------------------
(* Control *)

At(q, s) == pc[q] = s

GotoWith(q, s, l) == /\ pc' = [pc EXCEPT ![q] = s]
                     /\ loc' = [loc EXCEPT ![q] = l]
                     /\ UNCHANGED reply

Goto(q, s) == GotoWith(q, s, loc[q])

Answer(q, a) == /\ pc' = [pc EXCEPT ![q] = "done"]
                /\ loc' = [loc EXCEPT ![q] = Blank]
                /\ reply' = [reply EXCEPT ![q] = a]

-----------------------------------------------------------------------------
(* Mutants.  Nothing uses these: each is what a plausible slip would make of *)
(* the operator it is named after, and breaks a property stated below.     *)

(* The lost race for a failed delivery goes unnoticed. *)
ReclaimAlways(q) ==
    /\ At(q, "reclaim")
    /\ delivery' = [delivery EXCEPT !.status = "pending"]
    /\ Goto(q, "deliver")
    /\ UNCHANGED <<sent, faults, crashes>>

(* Only a delivery in progress is left alone. *)
ReclaimUnlessPending(q) ==
    /\ At(q, "reclaim")
    /\ IF delivery.status # "pending"
       THEN delivery' = [delivery EXCEPT !.status = "pending"] /\ Goto(q, "deliver")
       ELSE UNCHANGED delivery /\ Answer(q, "in_progress")
    /\ UNCHANGED <<sent, faults, crashes>>

(* A retry follows the route of today. *)
FindStoredRerouted(q) ==
    /\ At(q, "findStored")
    /\ \E t \in Targets, b \in BOOLEAN :
         GotoWith(q, "reclaim", [loc[q] EXCEPT !.target = t, !.connected = b])
    /\ UNCHANGED <<delivery, sent, faults, crashes>>

(* A channel that is not connected is skipped without an error. *)
DeliverSkipped(q) ==
    /\ At(q, "deliver")
    /\ sent' = IF loc[q].connected
               THEN sent \cup {[by |-> q, message |-> loc[q].message,
                                target |-> loc[q].target]}
               ELSE sent
    /\ Goto(q, "succeed")
    /\ UNCHANGED <<delivery, faults, crashes>>

(* The error is answered and not recorded. *)
FailUnrecorded(q) ==
    /\ At(q, "fail")
    /\ Answer(q, "error")
    /\ UNCHANGED <<delivery, sent, faults, crashes>>

-----------------------------------------------------------------------------
(* The handler *)

(* handleExistingIdempotency: what a request with message m does about the  *)
(* delivery that is already there.                                         *)
Existing(q, m) ==
    IF delivery.message # m THEN Answer(q, "conflict")
    ELSE IF delivery.status = "failed"
    THEN GotoWith(q, "findStored", [Blank EXCEPT !.message = m])
    ELSE Answer(q, IF delivery.status = "succeeded" THEN "duplicate"
                   ELSE "in_progress")

(* The request arrives and looks its idempotency key up. *)
Receive(q, m) ==
    /\ At(q, "idle")
    /\ IF delivery.status = "none"
       THEN GotoWith(q, "resolve", [Blank EXCEPT !.message = m])
       ELSE Existing(q, m)
    /\ UNCHANGED <<delivery, sent, faults, crashes>>

(* resolveExactDeliveryRoute *)
ResolveRoute(q) ==
    /\ At(q, "resolve")
    /\ \/ Answer(q, "missing_route")
       \/ \E t \in Targets :
            GotoWith(q, "findChannel", [loc[q] EXCEPT !.target = t])
    /\ UNCHANGED <<delivery, sent, faults, crashes>>

FindChannel(q) ==
    /\ At(q, "findChannel")
    /\ \E b \in BOOLEAN : GotoWith(q, "create", [loc[q] EXCEPT !.connected = b])
    /\ UNCHANGED <<delivery, sent, faults, crashes>>

(* The insert, and after a unique conflict the re-read of the winner's row. *)
Create(q) ==
    /\ At(q, "create")
    /\ IF delivery.status = "none"
       THEN /\ delivery' = [status |-> "pending", message |-> loc[q].message,
                            target |-> loc[q].target]
            /\ Goto(q, "deliver")
       ELSE Existing(q, loc[q].message) /\ UNCHANGED delivery
    /\ UNCHANGED <<sent, faults, crashes>>

(* A retry of a failed delivery keeps the target of the first attempt. *)
FindStored(q) ==
    /\ At(q, "findStored")
    /\ \E b \in BOOLEAN :
         GotoWith(q, "reclaim", [loc[q] EXCEPT !.target = delivery.target,
                                               !.connected = b])
    /\ UNCHANGED <<delivery, sent, faults, crashes>>

Reclaim(q) ==
    /\ At(q, "reclaim")
    /\ IF delivery.status = "failed"
       THEN delivery' = [delivery EXCEPT !.status = "pending"] /\ Goto(q, "deliver")
       ELSE UNCHANGED delivery /\ Answer(q, "in_progress")
    /\ UNCHANGED <<sent, faults, crashes>>

(* deliverOutboundMessage goes by the channel row it was handed; a send     *)
(* that throws may have reached the provider all the same.                 *)
Deliver(q) ==
    LET this == [by |-> q, message |-> loc[q].message, target |-> loc[q].target]
    IN
    /\ At(q, "deliver")
    /\ \/ /\ loc[q].connected
          /\ sent' = sent \cup {this}
          /\ Goto(q, "succeed")
          /\ UNCHANGED faults
       \/ /\ ~loc[q].connected
          /\ Goto(q, "fail")
          /\ UNCHANGED <<sent, faults>>
       \/ /\ loc[q].connected
          /\ faults < MaxFaults /\ faults' = faults + 1
          /\ sent' \in {sent, sent \cup {this}}
          /\ Goto(q, "fail")
    /\ UNCHANGED <<delivery, crashes>>

(* The outcome is written by id, whatever the row says by then. *)
Fail(q) ==
    /\ At(q, "fail")
    /\ delivery' = [delivery EXCEPT !.status = "failed"]
    /\ Answer(q, "error")
    /\ UNCHANGED <<sent, faults, crashes>>

Succeed(q) ==
    /\ At(q, "succeed")
    /\ delivery' = [delivery EXCEPT !.status = "succeeded"]
    /\ Answer(q, "ok")
    /\ UNCHANGED <<sent, faults, crashes>>

-----------------------------------------------------------------------------
(* The environment *)

(* The process dies in the request, or a statement of it throws. *)
Crash(q) ==
    /\ pc[q] \in Statements
    /\ crashes < MaxCrashes /\ crashes' = crashes + 1
    /\ Answer(q, "error")
    /\ UNCHANGED <<delivery, sent, faults>>

Init ==
    /\ delivery = NoDelivery
    /\ sent = {}
    /\ pc = [q \in Requests |-> "idle"]
    /\ loc = [q \in Requests |-> Blank]
    /\ reply = [q \in Requests |-> "none"]
    /\ faults = 0 /\ crashes = 0

(* The next statement of a request that is under way. *)
Serve(q) ==
    \/ ResolveRoute(q) \/ FindChannel(q) \/ Create(q)
    \/ FindStored(q) \/ Reclaim(q)
    \/ Deliver(q) \/ Fail(q) \/ Succeed(q)

Next ==
    \E q \in Requests : \/ \E m \in Message : Receive(q, m)
                        \/ Serve(q) \/ Crash(q)

Spec == Init /\ [][Next]_deliveryVars

-----------------------------------------------------------------------------
(* Properties *)

(* Every variable holds a value the code could store in it. *)
TypeOK ==
    /\ delivery \in Delivery
    /\ sent \in SUBSET [by: Requests, message: Message, target: Targets]
    /\ pc \in [Requests -> Statements \cup {"idle", "done"}]
    /\ loc \in [Requests -> Locals]
    /\ reply \in [Requests -> Answers \cup {"none"}]
    /\ faults \in Nat /\ crashes \in Nat

(* At most one request at a time is sending the message or about to record  *)
(* how that went, and the row says pending while it does: the unique key    *)
(* and the guarded reclaim of a failed delivery let nobody else in.        *)
OneDeliverer ==
    /\ \A p, q \in Requests : pc[p] \in Working /\ pc[q] \in Working => p = q
    /\ (\E q \in Requests : pc[q] \in Working) => delivery.status = "pending"

(* Whatever is handed to the provider is the message the delivery stores,   *)
(* and goes to the target resolved first, however routes have changed since *)
(* ("failed reclaims must not reroute", outbound.ts:444).                  *)
SameMessage ==
    \A s \in sent : s.message = delivery.message /\ s.target = delivery.target

(* An answer ok was given to a request that sent the message itself; ok and  *)
(* duplicate_request are only said of a delivery that has succeeded and    *)
(* whose message was sent, and stay true.                                  *)
AnswersTrue ==
    \A q \in Requests :
        /\ reply[q] = "ok" => \E s \in sent : s.by = q
        /\ reply[q] \in {"ok", "duplicate"} =>
              delivery.status = "succeeded" /\ sent # {}

(* A delivery that succeeded is never sent again, nor changed: neither by a  *)
(* retry that read it as failed before, nor by a late failure.             *)
SuccessFinal ==
    [][delivery.status = "succeeded" => UNCHANGED <<delivery, sent>>]_deliveryVars

(* Unless a request died, a pending delivery is being worked on: the early   *)
(* returns of a retry leave none behind that every later retry would take  *)
(* for one in progress ("pending wedge" in outbound.test.ts).              *)
PendingOwned ==
    crashes = 0 /\ delivery.status = "pending" =>
        \E q \in Requests : pc[q] \in Working

(* When no send went wrong, the end user gets the message once at most. *)
SentOnce == faults = 0 => Cardinality(sent) <= 1

=============================================================================
