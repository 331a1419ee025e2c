--------------------- MODULE NotificationDeliveryProofs ---------------------
(***************************************************************************)
(* What holds of a notification for any number of enqueues and drains.     *)
(*                                                                         *)
(* The attempts use the outbound endpoint as its callers may (Composition),*)
(* so everything proved of a delivery holds here; a notification is marked *)
(* delivered only after an answer that AnswersTrue vouches for, and what   *)
(* the answer said of the delivery stays so (SuccessFinal).                *)
(***************************************************************************)
EXTENDS NotificationDelivery, OutboundDeliveryProofs

(* The values of the notification's own variables. *)
NoteType ==
    /\ note \in {"none", "delivered"} \cup Retryable
    /\ step \in [Requests -> {"idle", "findRoute", "wait", "markDelivered",
                              "markFailed", "done"}]
    /\ posted \in [Requests -> Message \cup {None}]
    /\ now \in Stamps /\ losses \in Nat

LEMMA NoteTypeInit == NInit => NoteType
  BY NotificationAssumption DEF NInit, NoteType

(* What a deliverer posts is a message. *)
LEMMA PostedType ==
    ASSUME NoteType, NEW k \in Conversations
    PROVE  [conversation |-> k, stamp |-> now] \in Message
  BY DEF NoteType, Message

LEMMA NoteTypeStep == NoteType /\ [NNext]_allVars => NoteType'
<1> SUFFICES ASSUME NoteType, [NNext]_allVars PROVE NoteType'
  OBVIOUS
<1>1. CASE UNCHANGED allVars
  BY <1>1 DEF allVars, noteVars, NoteType
<1>2. ASSUME NEW d \in Requests, Attempt(d) PROVE NoteType'
  <2>1. ASSUME Enqueue(d) \/ Drain(d) \/ Hear(d) \/ MarkDelivered(d) \/ MarkFailed(d)
        PROVE  NoteType'
    BY <2>1 DEF NoteType, Enqueue, Drain, Hear, MarkDelivered, MarkFailed,
                StepTo, Retryable
  <2>2. ASSUME Lose(d) \/ Die(d) PROVE NoteType'
    BY <2>2, NotificationAssumption DEF NoteType, Lose, Die, StepTo
  <2>3. CASE Post(d)
    BY <2>3, PostedType DEF NoteType, Post, StepTo
  <2> QED
    BY <1>2, <2>1, <2>2, <2>3 DEF Attempt
<1>3. ASSUME NEW q \in Requests, Endpoint(q) PROVE NoteType'
  BY <1>3 DEF Endpoint, noteVars, NoteType
<1>4. CASE Tick
  BY <1>4 DEF Tick, NoteType
<1> QED
  BY <1>1, <1>2, <1>3, <1>4 DEF NNext

(* Every step of an attempt leaves the delivery alone, but those of the      *)
(* endpoint, which are steps of a request with a message of its own.       *)
LEMMA DeliveryProjection == NoteType /\ [NNext]_allVars => [Next]_deliveryVars
<1> SUFFICES ASSUME NoteType, [NNext]_allVars PROVE [Next]_deliveryVars
  OBVIOUS
<1>1. CASE UNCHANGED allVars
  BY <1>1 DEF allVars
<1>2. ASSUME NEW d \in Requests, Attempt(d) PROVE UNCHANGED deliveryVars
  BY <1>2 DEF Attempt, Enqueue, Drain, Post, Hear, Lose, MarkDelivered,
              MarkFailed, Die
<1>3. ASSUME NEW q \in Requests, Endpoint(q) PROVE Next
  <2>1. posted[q] # None => posted[q] \in Message
    BY DEF NoteType
  <2> QED
    BY <1>3, <2>1 DEF Endpoint, Next
<1>4. CASE Tick
  BY <1>4 DEF Tick
<1> QED
  BY <1>1, <1>2, <1>3, <1>4 DEF NNext

LEMMA NoteTyped == NSpec => []NoteType
  BY NoteTypeInit, NoteTypeStep, PTL DEF NSpec

(* The attempts of a notification are an environment the outbound endpoint   *)
(* is specified for: what they do to the delivery is a behaviour of Spec.  *)
THEOREM Composition == NSpec => Spec
<1>1. NInit => Init
  BY DEF NInit
<1> QED
  BY <1>1, NoteTyped, DeliveryProjection, PTL DEF NSpec, Spec

(* Who heard or recorded a delivery heard or recorded the truth. *)
HeardTruth ==
    /\ \A d \in Requests : step[d] = "markDelivered" => delivery.status = "succeeded"
    /\ note = "delivered" => delivery.status = "succeeded"

LEMMA HeardTruthStep ==
    NoteType /\ DeliveryInv /\ HeardTruth /\ [NNext]_allVars => HeardTruth'
<1> SUFFICES ASSUME NoteType, DeliveryInv, HeardTruth, [NNext]_allVars
             PROVE  HeardTruth'
  OBVIOUS
<1>1. CASE UNCHANGED allVars
  BY <1>1 DEF allVars, noteVars, deliveryVars, HeardTruth
<1>2. ASSUME NEW d \in Requests, Attempt(d) PROVE HeardTruth'
  <2>1. UNCHANGED delivery
    BY <1>2 DEF Attempt, Enqueue, Drain, Post, Hear, Lose, MarkDelivered,
                MarkFailed, Die, deliveryVars
  <2>2. CASE Hear(d)
    <3>1. reply[d] \in Delivered => delivery.status = "succeeded"
      BY DEF DeliveryInv, RequestOK, Delivered
    <3> QED
      BY <2>1, <2>2, <3>1 DEF Hear, StepTo, HeardTruth, NoteType
  <2>3. CASE MarkDelivered(d)
    BY <2>1, <2>3 DEF MarkDelivered, StepTo, HeardTruth, NoteType
  <2>4. ASSUME \/ Enqueue(d) \/ Drain(d) \/ Post(d) \/ Lose(d)
               \/ MarkFailed(d) \/ Die(d)
        PROVE  HeardTruth'
    <3>1. /\ \A p \in Requests : step'[p] = "markDelivered" => step[p] = "markDelivered"
          /\ note' = "delivered" => note = "delivered"
      BY <2>4 DEF Enqueue, Drain, Post, Lose, MarkFailed, Die, StepTo, NoteType
    <3> QED
      BY <2>1, <3>1 DEF HeardTruth
  <2> QED
    BY <1>2, <2>2, <2>3, <2>4 DEF Attempt
<1>3. ASSUME NEW q \in Requests, Endpoint(q) PROVE HeardTruth'
  <2>1. UNCHANGED <<note, step>>
    BY <1>3 DEF Endpoint, noteVars
  <2>2. delivery.status = "succeeded" => UNCHANGED delivery
    BY DeliveryProjection, SuccessStep
  <2> QED
    BY <2>1, <2>2 DEF HeardTruth
<1>4. CASE Tick
  BY <1>4 DEF Tick, deliveryVars, HeardTruth
<1> QED
  BY <1>1, <1>2, <1>3, <1>4 DEF NNext

(* A notification marked delivered was sent, and its delivery has succeeded *)
(* (markDelivered, notification-service.ts:164).                           *)
THEOREM DeliveredTrue == NSpec => []DeliveredTruthful
<1>1. NInit => HeardTruth
  BY DEF NInit, HeardTruth
<1>2. NSpec => []DeliveryInv
  BY Composition, DeliveryInvariant, PTL
<1>3. NSpec => []HeardTruth
  BY <1>1, <1>2, NoteTyped, HeardTruthStep, PTL DEF NSpec
<1>4. DeliveryInv /\ HeardTruth => DeliveredTruthful
  BY DEF DeliveryInv, DeliveryOK, HeardTruth, DeliveredTruthful
<1> QED
  BY <1>2, <1>3, <1>4, PTL

-----------------------------------------------------------------------------
(* A success is not covered up *)

(* A deliverer that has begun has a notification to deliver; one that posts  *)
(* once waits for what it posted; what is answered was posted.             *)
Waits ==
    /\ \A d \in Requests : step[d] \notin {"idle", "done"} => note # "none"
    /\ \A d \in Requests : pc[d] # "idle" => posted[d] # None
    /\ \A d \in Requests :
         step[d] \in {"idle", "findRoute"} => posted[d] = None
    /\ losses = 0 => \A d \in Requests :
         posted[d] # None /\ reply[d] = "none" => step[d] = "wait"

(* While no answer is lost, the news of a success is under way, or there. *)
SuccessKnown ==
    /\ delivery.status = "succeeded" => \E d \in Requests : reply[d] = "ok"
    /\ losses = 0 => \A d \in Requests :
         reply[d] = "ok" => step[d] \in {"wait", "markDelivered"} \/ note = "delivered"

RecordInv == Waits /\ SuccessKnown

(* A step of the endpoint ends no request without an answer, changes no      *)
(* answer given, and lets a delivery succeed only with an ok.              *)
LEMMA EndpointAnswers ==
    ASSUME DeliveryInv, NoteType, NEW q \in Requests, Endpoint(q)
    PROVE  /\ UNCHANGED noteVars
           /\ \A p \in Requests : pc'[p] # "idle" /\ pc[p] = "idle" => posted[p] # None
           /\ \A p \in Requests : reply[p] # "none" => reply'[p] = reply[p]
           /\ delivery'.status = "succeeded" /\ delivery.status # "succeeded"
                => reply'[q] = "ok"
<1>0. TypeOK /\ RequestOK(q)
  BY DEF DeliveryInv
<1>1. UNCHANGED noteVars /\ (pc[q] = "idle" => posted[q] # None)
  BY DEF Endpoint, Serve, Crash, ResolveRoute, FindChannel, Create, FindStored,
         Reclaim, Deliver, Fail, Succeed, At, Statements, Working
<1>2. pc[q] # "done"
  BY DEF Endpoint, Receive, Serve, Crash, ResolveRoute, FindChannel, Create,
         FindStored, Reclaim, Deliver, Fail, Succeed, At, Statements, Working
<1>3. reply[q] = "none"
  BY <1>0, <1>2 DEF RequestOK
<1>4. \/ \E s, l : GotoWith(q, s, l)
      \/ \E a : Answer(q, a)
  BY DEF Endpoint, Receive, Existing, Serve, Crash, ResolveRoute, FindChannel,
         Create, FindStored, Reclaim, Deliver, Fail, Succeed, Goto
<1>5. \A p \in Requests \ {q} : pc'[p] = pc[p] /\ reply'[p] = reply[p]
  BY <1>0, <1>4 DEF GotoWith, Answer, TypeOK
<1>6. CASE Succeed(q)
  <2>1. reply'[q] = "ok"
    BY <1>0, <1>6 DEF Succeed, Answer, TypeOK
  <2> QED
    BY <1>1, <1>3, <1>5, <2>1
<1>7. CASE ~Succeed(q)
  <2>1. delivery'.status = "succeeded" => delivery.status = "succeeded"
    <3>1. CASE \/ posted[q] # None /\ Receive(q, posted[q])
               \/ ResolveRoute(q) \/ FindChannel(q) \/ FindStored(q)
               \/ Deliver(q) \/ Crash(q)
      BY <3>1 DEF Receive, ResolveRoute, FindChannel, FindStored, Deliver, Crash
    <3>2. CASE Create(q)
      BY <3>2 DEF Create
    <3>3. CASE Reclaim(q) \/ Fail(q)
      BY <1>0, <3>3, DeliveryType DEF Reclaim, Fail
    <3> QED
      BY <1>7, <3>1, <3>2, <3>3 DEF Endpoint, Serve
  <2> QED
    BY <1>1, <1>3, <1>5, <2>1
<1> QED
  BY <1>6, <1>7

LEMMA RecordEndpoint ==
    ASSUME DeliveryInv, NoteType, RecordInv, NEW q \in Requests, Endpoint(q)
    PROVE  RecordInv'
<1>1. /\ UNCHANGED noteVars
      /\ \A p \in Requests : pc'[p] # "idle" /\ pc[p] = "idle" => posted[p] # None
      /\ \A p \in Requests : reply[p] # "none" => reply'[p] = reply[p]
      /\ delivery'.status = "succeeded" /\ delivery.status # "succeeded"
           => reply'[q] = "ok"
  BY EndpointAnswers
<1>2. \A p \in Requests : reply'[p] # "none" => posted[p] # None
  <2>1. DeliveryInv'
    BY DeliveryStep, DeliveryProjection, <1>1 DEF NNext
  <2>2. \A p \in Requests : reply'[p] # "none" => pc'[p] = "done"
    BY <2>1 DEF DeliveryInv, RequestOK
  <2> QED
    BY <1>1, <2>2 DEF RecordInv, Waits
<1>3. Waits'
  BY <1>1 DEF RecordInv, Waits, noteVars
<1>4. SuccessKnown'
  BY <1>1, <1>2 DEF RecordInv, Waits, SuccessKnown, noteVars
<1> QED
  BY <1>3, <1>4 DEF RecordInv

LEMMA RecordAttempt ==
    ASSUME DeliveryInv, NoteType, RecordInv, NEW d \in Requests, Attempt(d)
    PROVE  RecordInv'
<1>0. UNCHANGED <<delivery, pc, reply>>
  BY DEF Attempt, Enqueue, Drain, Post, Hear, Lose, MarkDelivered, MarkFailed,
         Die, deliveryVars
<1> DEFINE Unposted == pc[d] = "idle" /\ reply[d] = "none"
<1>9. step[d] \in {"idle", "findRoute"} => Unposted
  BY DEF RecordInv, Waits, DeliveryInv, RequestOK
<1>1. CASE Enqueue(d)
  BY <1>0, <1>9, <1>1 DEF Enqueue, StepTo, NoteType, RecordInv, Waits, SuccessKnown
<1>2. CASE Drain(d)
  BY <1>0, <1>9, <1>2 DEF Drain, StepTo, NoteType, RecordInv, Waits, SuccessKnown, Retryable
<1>3. CASE Post(d)
  BY <1>0, <1>9, <1>3 DEF Post, StepTo, NoteType, RecordInv, Waits, SuccessKnown
<1>4. CASE Hear(d)
  BY <1>0, <1>4 DEF Hear, StepTo, NoteType, RecordInv, Waits, SuccessKnown, Delivered
<1>5. CASE Lose(d) \/ Die(d)
  <2>1. losses' # 0
    BY <1>5 DEF Lose, Die, NoteType
  <2> QED
    BY <1>0, <1>5, <2>1 DEF Lose, Die, StepTo, NoteType, RecordInv, Waits, SuccessKnown
<1>6. CASE MarkDelivered(d)
  BY <1>0, <1>6 DEF MarkDelivered, StepTo, NoteType, RecordInv, Waits, SuccessKnown, Retryable
<1>7. CASE MarkFailed(d)
  BY <1>0, <1>7 DEF MarkFailed, StepTo, NoteType, RecordInv, Waits, SuccessKnown, Retryable
<1> QED
  BY <1>1, <1>2, <1>3, <1>4, <1>5, <1>6, <1>7 DEF Attempt

(* Once every attempt is over, a delivery that succeeded is known to be       *)
(* delivered, unless an answer was lost or a deliverer died: an attempt the *)
(* endpoint refused does not cover up the one that made it                 *)
(* (notification-service.ts:164-204).                                      *)
THEOREM SuccessRecorded == NSpec => []SuccessIsRecorded
<1>1. NInit => RecordInv
  BY DEF NInit, Init, NoDelivery, RecordInv, Waits, SuccessKnown
<1>2. NSpec => []DeliveryInv
  BY Composition, DeliveryInvariant, PTL
<1>3. NoteType /\ DeliveryInv /\ RecordInv /\ [NNext]_allVars => RecordInv'
  <2> SUFFICES ASSUME NoteType, DeliveryInv, RecordInv, [NNext]_allVars
               PROVE  RecordInv'
    OBVIOUS
  <2>1. CASE UNCHANGED allVars \/ Tick
    BY <2>1 DEF allVars, noteVars, deliveryVars, Tick, RecordInv, Waits, SuccessKnown
  <2> QED
    BY <2>1, RecordAttempt, RecordEndpoint DEF NNext
<1>4. NSpec => []RecordInv
  BY <1>1, <1>2, <1>3, NoteTyped, PTL DEF NSpec
<1>5. RecordInv => SuccessIsRecorded
  <2> SUFFICES ASSUME RecordInv, losses = 0, delivery.status = "succeeded",
                      \A d \in Requests : step[d] \in {"idle", "done"}
               PROVE  note = "delivered"
    BY DEF SuccessIsRecorded
  <2> QED
    BY DEF RecordInv, SuccessKnown
<1> QED
  BY <1>4, <1>5, PTL
=============================================================================
