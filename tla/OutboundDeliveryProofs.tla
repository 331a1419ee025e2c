----------------------- MODULE OutboundDeliveryProofs -----------------------
(***************************************************************************)
(* What holds of an outbound delivery for any number of requests, messages *)
(* and targets.                                                            *)
(*                                                                         *)
(* The argument: what a request knows (RequestOK) stays true under every   *)
(* step of another one, because only the request that is working changes   *)
(* the delivery, and one becomes the worker only when nobody is: by        *)
(* creating the delivery, or by taking over a failed one.                  *)
(***************************************************************************)
EXTENDS OutboundDelivery, FiniteSetTheorems, TLAPS

(* The delivery is complete from its creation on, and nothing is sent       *)
(* before, nor succeeds without.                                           *)
DeliveryOK ==
    /\ delivery.status = "none" => sent = {}
    /\ delivery.status # "none" =>
         delivery.message \in Message /\ delivery.target \in Targets
    /\ delivery.status = "succeeded" => sent # {}

Stored(q) == /\ loc[q].message = delivery.message
             /\ loc[q].target = delivery.target

(* What the place of a request says about its locals and the delivery. *)
RequestOK(q) ==
    /\ pc[q] # "done" => reply[q] = "none"
    /\ pc[q] \in {"resolve", "findChannel", "create"} => loc[q].message \in Message
    /\ pc[q] \in {"findChannel", "create"} => loc[q].target \in Targets
    /\ pc[q] \in {"findStored", "reclaim"} =>
         delivery.status # "none" /\ loc[q].message = delivery.message
    /\ pc[q] = "reclaim" => loc[q].target = delivery.target
    /\ pc[q] \in Working => delivery.status = "pending" /\ Stored(q)
    /\ pc[q] = "succeed" \/ reply[q] = "ok" => \E s \in sent : s.by = q
    /\ reply[q] \in {"ok", "duplicate"} => delivery.status = "succeeded"

OneWorker == \A p, q \in Requests : pc[p] \in Working /\ pc[q] \in Working => p = q

DeliveryInv ==
    /\ TypeOK
    /\ DeliveryOK
    /\ \A q \in Requests : RequestOK(q)
    /\ OneWorker
    /\ SameMessage

-----------------------------------------------------------------------------
(* Locals and control *)

LEMMA BlankType == /\ Blank \in Locals
                   /\ \A m \in Message : [Blank EXCEPT !.message = m] \in Locals
                   /\ \A m \in Message : [Blank EXCEPT !.message = m].message = m
  BY DEF Blank, Locals

LEMMA LocalsType ==
    ASSUME NEW l \in Locals
    PROVE  /\ \A t \in Targets : /\ [l EXCEPT !.target = t] \in Locals
                                 /\ [l EXCEPT !.target = t].message = l.message
                                 /\ [l EXCEPT !.target = t].target = t
           /\ \A b \in BOOLEAN : /\ [l EXCEPT !.connected = b] \in Locals
                                 /\ [l EXCEPT !.connected = b].message = l.message
                                 /\ [l EXCEPT !.connected = b].target = l.target
           /\ \A t \in Targets, b \in BOOLEAN :
                /\ [l EXCEPT !.target = t, !.connected = b] \in Locals
                /\ [l EXCEPT !.target = t, !.connected = b].message = l.message
                /\ [l EXCEPT !.target = t, !.connected = b].target = t
  BY DEF Locals

(* A request moves alone: its place, locals and answer become s, l and a. *)
Moves(q, s, l, a) == /\ pc' = [pc EXCEPT ![q] = s]
                     /\ loc' = [loc EXCEPT ![q] = l]
                     /\ reply' = [reply EXCEPT ![q] = a]

LEMMA GotoMoves ==
    ASSUME TypeOK, NEW q \in Requests, NEW s, NEW l, GotoWith(q, s, l)
    PROVE  Moves(q, s, l, reply[q])
  BY DEF TypeOK, GotoWith, Moves

LEMMA AnswerMoves ==
    ASSUME NEW q \in Requests, NEW a, Answer(q, a)
    PROVE  Moves(q, "done", Blank, a)
  BY DEF Answer, Moves

Places == Statements \cup {"idle", "done"}

LEMMA MovesTo ==
    ASSUME TypeOK, NEW q \in Requests, NEW s \in Places, NEW l \in Locals,
           NEW a \in Answers \cup {"none"}, Moves(q, s, l, a)
    PROVE  /\ pc' \in [Requests -> Places]
           /\ loc' \in [Requests -> Locals]
           /\ reply' \in [Requests -> Answers \cup {"none"}]
           /\ pc'[q] = s /\ loc'[q] = l /\ reply'[q] = a
           /\ \A p \in Requests \ {q} :
                pc'[p] = pc[p] /\ loc'[p] = loc[p] /\ reply'[p] = reply[p]
  BY DEF TypeOK, Moves, Places

LEMMA DeliveryType ==
    TypeOK => /\ delivery.status \in {"none", "pending", "failed", "succeeded"}
              /\ delivery.message \in Message \cup {None}
              /\ delivery.target \in Targets \cup {None}
              /\ \A x \in {"pending", "failed", "succeeded"} :
                   /\ [delivery EXCEPT !.status = x] \in Delivery
                   /\ [delivery EXCEPT !.status = x].status = x
                   /\ [delivery EXCEPT !.status = x].message = delivery.message
                   /\ [delivery EXCEPT !.status = x].target = delivery.target
  BY DEF TypeOK, Delivery

-----------------------------------------------------------------------------
(* A step that only moves a request, to no place where it would work *)

LEMMA Onlooker ==
    ASSUME DeliveryInv, NEW q \in Requests, NEW s \in Places \ Working,
           NEW l \in Locals, NEW a \in Answers \cup {"none"}, Moves(q, s, l, a),
           UNCHANGED <<delivery, sent>>, faults' \in Nat, crashes' \in Nat,
           RequestOK(q)'
    PROVE  DeliveryInv'
<1>1. /\ pc' \in [Requests -> Places]
      /\ loc' \in [Requests -> Locals]
      /\ reply' \in [Requests -> Answers \cup {"none"}]
      /\ pc'[q] = s
      /\ \A p \in Requests \ {q} :
           pc'[p] = pc[p] /\ loc'[p] = loc[p] /\ reply'[p] = reply[p]
  BY MovesTo DEF DeliveryInv
<1>2. TypeOK'
  BY <1>1 DEF DeliveryInv, TypeOK, Places
<1>3. ASSUME NEW p \in Requests PROVE RequestOK(p)'
  <2>1. CASE p = q
    BY <2>1
  <2>2. CASE p # q
    BY <1>1, <2>2 DEF DeliveryInv, RequestOK, Stored
  <2> QED
    BY <2>1, <2>2
<1>4. OneWorker'
  BY <1>1 DEF DeliveryInv, OneWorker
<1> QED
  BY <1>2, <1>3, <1>4 DEF DeliveryInv, DeliveryOK, SameMessage

(* Nobody works on a delivery that is not pending. *)
LEMMA WorkerPending ==
    DeliveryInv => \A q \in Requests : pc[q] \in Working => delivery.status = "pending"
  BY DEF DeliveryInv, RequestOK


-----------------------------------------------------------------------------
(* The request before it works: it looks things up, and may give up *)

LEMMA AnswerStep ==
    ASSUME DeliveryInv, NEW q \in Requests,
           NEW a \in Answers \ {"ok"}, Answer(q, a),
           a = "duplicate" => delivery.status = "succeeded",
           UNCHANGED <<delivery, sent>>, faults' \in Nat, crashes' \in Nat
    PROVE  DeliveryInv'
<1>1. Moves(q, "done", Blank, a) /\ "done" \in Places \ Working
  BY AnswerMoves DEF Places, Working, Statements
<1>2. pc'[q] = "done" /\ reply'[q] = a
  BY <1>1, MovesTo, BlankType DEF DeliveryInv, Answers
<1>3. RequestOK(q)'
  BY <1>2 DEF RequestOK, Working
<1> QED
  BY <1>1, <1>3, Onlooker, BlankType DEF Answers

(* Going on to a statement, with locals that keep what is known there. *)
LEMMA ProceedStep ==
    ASSUME DeliveryInv, NEW q \in Requests, NEW s \in Statements \ Working,
           NEW l \in Locals, GotoWith(q, s, l), pc[q] # "done",
           UNCHANGED <<delivery, sent, faults, crashes>>,
           s \in {"resolve", "findChannel", "create"} => l.message \in Message,
           s \in {"findChannel", "create"} => l.target \in Targets,
           s \in {"findStored", "reclaim"} =>
               delivery.status # "none" /\ l.message = delivery.message,
           s = "reclaim" => l.target = delivery.target
    PROVE  DeliveryInv'
<1>0. TypeOK /\ RequestOK(q) /\ reply[q] = "none" /\ reply[q] \in Answers \cup {"none"}
  BY DEF DeliveryInv, RequestOK
<1>1. Moves(q, s, l, reply[q]) /\ s \in Places \ Working
  BY <1>0, GotoMoves DEF Places
<1>2. pc'[q] = s /\ loc'[q] = l /\ reply'[q] = "none"
  BY <1>0, <1>1, MovesTo
<1>3. s # "done" /\ s \notin Working
  BY DEF Statements
<1>4. RequestOK(q)'
  BY <1>2, <1>3 DEF RequestOK, Working
<1> QED
  BY <1>0, <1>1, <1>4, Onlooker DEF DeliveryInv, TypeOK

LEMMA ExistingStep ==
    ASSUME DeliveryInv, NEW q \in Requests, NEW m \in Message,
           delivery.status # "none", pc[q] # "done", Existing(q, m),
           UNCHANGED <<delivery, sent, faults, crashes>>
    PROVE  DeliveryInv'
<1>0. /\ faults \in Nat /\ crashes \in Nat
      /\ "findStored" \in Statements \ Working
      /\ {"conflict", "in_progress", "duplicate"} \subseteq Answers \ {"ok"}
  BY DEF DeliveryInv, TypeOK, Statements, Working, Answers
<1>1. CASE Answer(q, "conflict") \/ Answer(q, "in_progress")
  BY <1>0, <1>1, AnswerStep
<1>2. CASE Answer(q, "duplicate") /\ delivery.status = "succeeded"
  BY <1>0, <1>2, AnswerStep
<1>3. CASE delivery.message = m /\ GotoWith(q, "findStored", [Blank EXCEPT !.message = m])
  BY <1>0, <1>3, BlankType, ProceedStep
<1> QED
  BY <1>1, <1>2, <1>3 DEF Existing

LEMMA ReceiveStep ==
    ASSUME DeliveryInv, NEW q \in Requests, NEW m \in Message, Receive(q, m)
    PROVE  DeliveryInv'
<1>1. CASE delivery.status = "none"
  <2>1. GotoWith(q, "resolve", [Blank EXCEPT !.message = m])
    BY <1>1 DEF Receive
  <2>2. "resolve" \in Statements \ Working /\ pc[q] # "done"
    BY DEF Statements, Working, Receive, At
  <2> QED
    BY <2>1, <2>2, BlankType, ProceedStep DEF Receive
<1>2. CASE delivery.status # "none"
  BY <1>2, ExistingStep DEF Receive, At
<1> QED
  BY <1>1, <1>2

LEMMA LookupStep ==
    ASSUME DeliveryInv, NEW q \in Requests,
           ResolveRoute(q) \/ FindChannel(q) \/ FindStored(q)
    PROVE  DeliveryInv'
<1>0. /\ RequestOK(q) /\ loc[q] \in Locals /\ faults \in Nat /\ crashes \in Nat
      /\ {"findChannel", "create", "reclaim"} \subseteq Statements \ Working
      /\ "missing_route" \in Answers \ {"ok"}
  BY DEF DeliveryInv, TypeOK, Statements, Working, Answers
<1>1. CASE ResolveRoute(q)
  <2>1. pc[q] = "resolve" /\ loc[q].message \in Message
    BY <1>0, <1>1 DEF ResolveRoute, At, RequestOK
  <2>2. CASE Answer(q, "missing_route")
    BY <1>0, <1>1, <2>2, AnswerStep DEF ResolveRoute
  <2>3. ASSUME NEW t \in Targets,
               GotoWith(q, "findChannel", [loc[q] EXCEPT !.target = t])
        PROVE  DeliveryInv'
    BY <1>0, <1>1, <2>1, <2>3, ProceedStep, LocalsType DEF ResolveRoute
  <2> QED
    BY <1>1, <2>2, <2>3 DEF ResolveRoute
<1>2. CASE FindChannel(q)
  <2>1. pc[q] = "findChannel" /\ loc[q].message \in Message /\ loc[q].target \in Targets
    BY <1>0, <1>2 DEF FindChannel, At, RequestOK
  <2>2. PICK b \in BOOLEAN : GotoWith(q, "create", [loc[q] EXCEPT !.connected = b])
    BY <1>2 DEF FindChannel
  <2> QED
    BY <1>0, <1>2, <2>1, <2>2, ProceedStep, LocalsType DEF FindChannel
<1>3. CASE FindStored(q)
  <2>1. /\ pc[q] = "findStored" /\ delivery.status # "none"
        /\ loc[q].message = delivery.message
    BY <1>0, <1>3 DEF FindStored, At, RequestOK
  <2>2. delivery.target \in Targets
    BY <2>1 DEF DeliveryInv, DeliveryOK
  <2>3. PICK b \in BOOLEAN :
          GotoWith(q, "reclaim", [loc[q] EXCEPT !.target = delivery.target,
                                                !.connected = b])
    BY <1>3 DEF FindStored
  <2>4. /\ [loc[q] EXCEPT !.target = delivery.target, !.connected = b] \in Locals
        /\ [loc[q] EXCEPT !.target = delivery.target, !.connected = b].message
             = delivery.message
        /\ [loc[q] EXCEPT !.target = delivery.target, !.connected = b].target
             = delivery.target
    BY <1>0, <2>1, <2>2, <2>3 DEF Locals
  <2> QED
    BY <1>0, <1>3, <2>1, <2>3, <2>4, ProceedStep DEF FindStored
<1> QED
  BY <1>1, <1>2, <1>3
-----------------------------------------------------------------------------
(* The request that works *)

(* While nobody works, one may begin: it works on what the delivery stores. *)
LEMMA WorkStep ==
    ASSUME DeliveryInv, NEW q \in Requests,
           delivery.status # "pending", pc[q] # "done", loc[q].message \in Message,
           loc[q].target \in Targets,
           delivery' \in Delivery, delivery'.status = "pending",
           delivery'.message = loc[q].message, delivery'.target = loc[q].target,
           delivery.status # "none" =>
               delivery'.message = delivery.message /\ delivery'.target = delivery.target,
           \A p \in Requests : reply[p] \notin {"ok", "duplicate"},
           Goto(q, "deliver"), UNCHANGED <<sent, faults, crashes>>
    PROVE  DeliveryInv'
<1>0. /\ TypeOK /\ RequestOK(q) /\ "deliver" \in Places
      /\ reply[q] \in Answers \cup {"none"} /\ loc[q] \in Locals
  BY DEF DeliveryInv, TypeOK, Places, Statements, Working
<1>1. Moves(q, "deliver", loc[q], reply[q])
  BY <1>0, GotoMoves DEF Goto
<1>2. /\ pc' \in [Requests -> Places]
      /\ loc' \in [Requests -> Locals]
      /\ reply' \in [Requests -> Answers \cup {"none"}]
      /\ pc'[q] = "deliver" /\ loc'[q] = loc[q] /\ reply'[q] = reply[q]
      /\ \A p \in Requests \ {q} :
           pc'[p] = pc[p] /\ loc'[p] = loc[p] /\ reply'[p] = reply[p]
  BY <1>0, <1>1, MovesTo
<1>3. TypeOK'
  BY <1>2 DEF DeliveryInv, TypeOK, Places
<1>4. \A p \in Requests : pc[p] \notin Working
  BY WorkerPending
<1>5. ASSUME NEW p \in Requests PROVE RequestOK(p)'
  <2>1. CASE p = q
    <3>1. pc[q] # "done" => reply[q] = "none"
      BY <1>0 DEF RequestOK
    <3> QED
      BY <1>2, <2>1, <3>1 DEF RequestOK, Stored, Working
  <2>2. CASE p # q
    <3>1. RequestOK(p) /\ pc[p] \notin Working
      BY <1>4 DEF DeliveryInv
    <3> QED
      BY <1>2, <2>2, <3>1 DEF RequestOK, Working
  <2> QED
    BY <2>1, <2>2
<1>6. OneWorker'
  BY <1>2, <1>4 DEF OneWorker
<1>7. DeliveryOK' /\ SameMessage'
  BY DEF DeliveryInv, DeliveryOK, SameMessage
<1> QED
  BY <1>3, <1>5, <1>6, <1>7 DEF DeliveryInv

(* Only a delivery that has succeeded is ever said to have. *)
LEMMA NoneSaidOk ==
    DeliveryInv /\ delivery.status # "succeeded" =>
        \A p \in Requests : reply[p] \notin {"ok", "duplicate"}
  BY DEF DeliveryInv, RequestOK

LEMMA CreateStep ==
    ASSUME DeliveryInv, NEW q \in Requests, Create(q)
    PROVE  DeliveryInv'
<1>1. pc[q] = "create" /\ loc[q].message \in Message /\ loc[q].target \in Targets
  BY DEF DeliveryInv, RequestOK, Create, At
<1>2. CASE delivery.status = "none"
  <2>1. delivery' = [status |-> "pending", message |-> loc[q].message,
                     target |-> loc[q].target]
    BY <1>2 DEF Create
  <2>2. /\ delivery' \in Delivery /\ delivery'.status = "pending"
        /\ delivery'.message = loc[q].message /\ delivery'.target = loc[q].target
    BY <1>1, <2>1 DEF Delivery
  <2> QED
    BY <1>1, <1>2, <2>2, NoneSaidOk, WorkStep DEF Create
<1>3. CASE delivery.status # "none"
  BY <1>1, <1>3, ExistingStep DEF Create
<1> QED
  BY <1>2, <1>3

LEMMA ReclaimStep ==
    ASSUME DeliveryInv, NEW q \in Requests, Reclaim(q)
    PROVE  DeliveryInv'
<1>1. /\ pc[q] = "reclaim" /\ loc[q].message = delivery.message
      /\ loc[q].target = delivery.target /\ delivery.status # "none"
      /\ loc[q].message \in Message /\ loc[q].target \in Targets
  BY DEF DeliveryInv, RequestOK, DeliveryOK, Reclaim, At
<1>2. CASE delivery.status = "failed"
  <2>1. /\ delivery' = [delivery EXCEPT !.status = "pending"]
        /\ Goto(q, "deliver") /\ UNCHANGED <<sent, faults, crashes>>
    BY <1>2 DEF Reclaim
  <2>2. /\ delivery' \in Delivery /\ delivery'.status = "pending"
        /\ delivery'.message = delivery.message /\ delivery'.target = delivery.target
    BY <2>1, DeliveryType DEF DeliveryInv
  <2> QED
    BY <1>1, <1>2, <2>1, <2>2, NoneSaidOk, WorkStep
<1>3. CASE delivery.status # "failed"
  <2>1. "in_progress" \in Answers \ {"ok"} /\ faults' \in Nat /\ crashes' \in Nat
    BY DEF Answers, Reclaim, DeliveryInv, TypeOK
  <2> QED
    BY <1>3, <2>1, AnswerStep DEF Reclaim
<1> QED
  BY <1>2, <1>3

(* The send: the request goes on to record success or failure. *)
LEMMA DeliverStep ==
    ASSUME DeliveryInv, NEW q \in Requests, Deliver(q)
    PROVE  DeliveryInv'
<1> DEFINE this == [by |-> q, message |-> loc[q].message, target |-> loc[q].target]
<1>1. /\ pc[q] = "deliver" /\ delivery.status = "pending" /\ Stored(q)
      /\ reply[q] = "none" /\ loc[q] \in Locals /\ TypeOK
      /\ this \in [by: Requests, message: Message, target: Targets]
  BY DEF Deliver, At, DeliveryInv, RequestOK, DeliveryOK, Working, Stored, TypeOK
<1>2. PICK s \in {"fail", "succeed"} :
        /\ Goto(q, s)
        /\ sent' \in {sent, sent \cup {this}}
        /\ s = "succeed" => sent' = sent \cup {this}
  BY DEF Deliver
<1>3. UNCHANGED delivery /\ faults' \in Nat /\ crashes' \in Nat
  BY <1>1 DEF Deliver, TypeOK
<1>4. Moves(q, s, loc[q], reply[q]) /\ s \in Places /\ s \in Working
  BY <1>1, <1>2, GotoMoves DEF Goto, Places, Statements, Working
<1>5. /\ pc' \in [Requests -> Places]
      /\ loc' \in [Requests -> Locals]
      /\ reply' \in [Requests -> Answers \cup {"none"}]
      /\ pc'[q] = s /\ loc'[q] = loc[q] /\ reply'[q] = reply[q]
      /\ \A p \in Requests \ {q} :
           pc'[p] = pc[p] /\ loc'[p] = loc[p] /\ reply'[p] = reply[p]
  BY <1>1, <1>4, MovesTo
<1>6. TypeOK'
  BY <1>1, <1>2, <1>3, <1>5 DEF TypeOK, Places
<1>7. ASSUME NEW p \in Requests PROVE RequestOK(p)'
  <2>1. CASE p = q
    <3>1. s = "succeed" => \E x \in sent' : x.by = q
      <4>1. s = "succeed" => this \in sent'
        BY <1>2
      <4>2. this.by = q
        OBVIOUS
      <4> HIDE DEF this
      <4> QED
        BY <4>1, <4>2
    <3> QED
      BY <1>1, <1>3, <1>4, <1>5, <2>1, <3>1 DEF RequestOK, Stored, Working
  <2>2. CASE p # q
    <3>1. RequestOK(p) /\ sent \subseteq sent'
      BY <1>2 DEF DeliveryInv
    <3> QED
      BY <1>3, <1>5, <2>2, <3>1 DEF RequestOK, Stored
  <2> QED
    BY <2>1, <2>2
<1>8. OneWorker'
  BY <1>1, <1>5 DEF DeliveryInv, OneWorker, Working
<1>9. DeliveryOK' /\ SameMessage'
  <2>1. this.message = delivery.message /\ this.target = delivery.target
    BY <1>1 DEF Stored
  <2>2. SameMessage'
    BY <1>2, <1>3, <2>1 DEF DeliveryInv, SameMessage
  <2> QED
    BY <1>1, <1>3, <2>2 DEF DeliveryInv, DeliveryOK
<1> QED
  BY <1>6, <1>7, <1>8, <1>9 DEF DeliveryInv

(* The outcome is recorded and answered; nobody else was working. *)
LEMMA OutcomeStep ==
    ASSUME DeliveryInv, NEW q \in Requests, Fail(q) \/ Succeed(q)
    PROVE  DeliveryInv'
<1>1. /\ pc[q] \in Working /\ delivery.status = "pending" /\ Stored(q) /\ TypeOK
      /\ pc[q] = "succeed" => \E s \in sent : s.by = q
  BY DEF Fail, Succeed, At, DeliveryInv, RequestOK, Working
<1>2. PICK x \in {"failed", "succeeded"}, a \in {"error", "ok"} :
        /\ delivery' = [delivery EXCEPT !.status = x]
        /\ Answer(q, a) /\ UNCHANGED <<sent, faults, crashes>>
        /\ a = "ok" => x = "succeeded"
        /\ x = "succeeded" => pc[q] = "succeed"
  BY DEF Fail, Succeed, At
<1>3. /\ delivery' \in Delivery /\ delivery'.status = x
      /\ delivery'.message = delivery.message /\ delivery'.target = delivery.target
  BY <1>1, <1>2, DeliveryType
<1>4. Moves(q, "done", Blank, a) /\ "done" \in Places /\ a \in Answers \cup {"none"}
  BY <1>2, AnswerMoves DEF Places, Answers
<1>5. /\ pc' \in [Requests -> Places]
      /\ loc' \in [Requests -> Locals]
      /\ reply' \in [Requests -> Answers \cup {"none"}]
      /\ pc'[q] = "done" /\ reply'[q] = a
      /\ \A p \in Requests \ {q} :
           pc'[p] = pc[p] /\ loc'[p] = loc[p] /\ reply'[p] = reply[p]
  BY <1>1, <1>4, MovesTo, BlankType
<1>6. TypeOK'
  BY <1>2, <1>3, <1>5 DEF DeliveryInv, TypeOK, Places
<1>7. ASSUME NEW p \in Requests PROVE RequestOK(p)'
  <2>1. CASE p = q
    BY <1>1, <1>2, <1>3, <1>5, <2>1 DEF RequestOK, Working
  <2>2. CASE p # q
    <3>1. RequestOK(p) /\ pc[p] \notin Working /\ reply[p] \notin {"ok", "duplicate"}
      BY <1>1, <2>2, NoneSaidOk DEF DeliveryInv, OneWorker
    <3> QED
      BY <1>1, <1>2, <1>3, <1>5, <2>2, <3>1 DEF RequestOK, Working
  <2> QED
    BY <2>1, <2>2
<1>8. OneWorker'
  BY <1>5 DEF DeliveryInv, OneWorker, Working
<1>9. DeliveryOK' /\ SameMessage'
  BY <1>1, <1>2, <1>3 DEF DeliveryInv, DeliveryOK, SameMessage
<1> QED
  BY <1>6, <1>7, <1>8, <1>9 DEF DeliveryInv

-----------------------------------------------------------------------------
(* The invariant *)

LEMMA DeliveryInit == Init => DeliveryInv
<1> SUFFICES ASSUME Init PROVE DeliveryInv
  OBVIOUS
<1>1. TypeOK
  BY BlankType DEF Init, TypeOK, NoDelivery, Delivery, Answers
<1>2. \A q \in Requests : RequestOK(q) /\ pc[q] \notin Working
  BY DEF Init, RequestOK, Working
<1>3. DeliveryOK /\ SameMessage
  BY DEF Init, DeliveryOK, SameMessage, NoDelivery
<1> QED
  BY <1>1, <1>2, <1>3 DEF DeliveryInv, OneWorker

LEMMA DeliveryStep == DeliveryInv /\ [Next]_deliveryVars => DeliveryInv'
<1> SUFFICES ASSUME DeliveryInv, [Next]_deliveryVars PROVE DeliveryInv'
  OBVIOUS
<1>1. CASE UNCHANGED deliveryVars
  BY <1>1 DEF deliveryVars, DeliveryInv, TypeOK, DeliveryOK, RequestOK, Stored,
              OneWorker, SameMessage
<1>2. ASSUME NEW q \in Requests, Crash(q) PROVE DeliveryInv'
  <2>1. "error" \in Answers \ {"ok"} /\ faults' \in Nat /\ crashes' \in Nat
    BY <1>2 DEF Answers, Crash, DeliveryInv, TypeOK
  <2> QED
    BY <1>2, <2>1, AnswerStep DEF Crash
<1> QED
  BY <1>1, <1>2, ReceiveStep, LookupStep, CreateStep, ReclaimStep, DeliverStep,
     OutcomeStep DEF Next, Serve

THEOREM DeliveryInvariant == Spec => []DeliveryInv
  BY DeliveryInit, DeliveryStep, PTL DEF Spec

(* At most one request at a time is sending the message or recording how    *)
(* that went, and the delivery is pending meanwhile (outbound.ts:411, 467).*)
THEOREM OnlyOneDelivers == Spec => []OneDeliverer
<1>1. DeliveryInv => OneDeliverer
  BY DEF DeliveryInv, OneDeliverer, OneWorker, RequestOK
<1> QED
  BY <1>1, DeliveryInvariant, PTL

(* Everything handed to the provider is the stored message, to the stored   *)
(* target (outbound.ts:444).                                               *)
THEOREM NeverRerouted == Spec => []SameMessage
<1>1. DeliveryInv => SameMessage
  BY DEF DeliveryInv
<1> QED
  BY <1>1, DeliveryInvariant, PTL

(* ok and duplicate_request are only answered about a delivery that was     *)
(* sent and succeeded, and remain true (outbound.ts:335, 520).             *)
THEOREM DeliveryAnswersTrue == Spec => []AnswersTrue
<1>1. DeliveryInv => AnswersTrue
  BY DEF DeliveryInv, AnswersTrue, RequestOK, DeliveryOK
<1> QED
  BY <1>1, DeliveryInvariant, PTL

(* Nobody works on a delivery that succeeded, and no lookup touches it. *)
LEMMA SuccessStep ==
    ASSUME DeliveryInv, [Next]_deliveryVars, delivery.status = "succeeded"
    PROVE  UNCHANGED <<delivery, sent>>
<1>1. \A q \in Requests : pc[q] \notin Working
  BY WorkerPending
<1>2. CASE UNCHANGED deliveryVars
  BY <1>2 DEF deliveryVars
<1>3. ASSUME NEW q \in Requests PROVE ~Deliver(q) /\ ~Fail(q) /\ ~Succeed(q)
  BY <1>1, <1>3 DEF Deliver, Fail, Succeed, At, Working
<1>4. ASSUME NEW q \in Requests, Create(q) \/ Reclaim(q)
      PROVE  UNCHANGED <<delivery, sent>>
  BY <1>4 DEF Create, Reclaim
<1>5. ASSUME NEW q \in Requests, NEW m \in Message, Receive(q, m)
      PROVE  UNCHANGED <<delivery, sent>>
  BY <1>5 DEF Receive
<1>6. ASSUME NEW q \in Requests,
             ResolveRoute(q) \/ FindChannel(q) \/ FindStored(q) \/ Crash(q)
      PROVE  UNCHANGED <<delivery, sent>>
  BY <1>6 DEF ResolveRoute, FindChannel, FindStored, Crash
<1> QED
  BY <1>2, <1>3, <1>4, <1>5, <1>6 DEF Next, Serve

(* A delivery that succeeded is never sent again, nor changed. *)
THEOREM SuccessStays == Spec => SuccessFinal
  BY SuccessStep, DeliveryInvariant, PTL DEF Spec, SuccessFinal

-----------------------------------------------------------------------------
(* Nothing is left pending, and nothing is sent twice *)

(* A request that answers is done, and the others are where they were. *)
LEMMA AnswerPlaces ==
    ASSUME TypeOK, NEW q \in Requests, NEW a, Answer(q, a)
    PROVE  /\ pc'[q] = "done"
           /\ \A p \in Requests \ {q} : pc'[p] = pc[p]
  BY DEF TypeOK, Answer

LEMMA GotoPlaces ==
    ASSUME TypeOK, NEW q \in Requests, NEW s, NEW l, GotoWith(q, s, l)
    PROVE  /\ pc'[q] = s
           /\ \A p \in Requests \ {q} : pc'[p] = pc[p]
  BY DEF TypeOK, GotoWith

(* A request that only looks things up leaves the workers at their work. *)
LEMMA LookupPlaces ==
    ASSUME TypeOK, NEW q \in Requests,
           \/ \E m \in Message : Receive(q, m)
           \/ ResolveRoute(q) \/ FindChannel(q) \/ FindStored(q)
    PROVE  /\ pc[q] \notin Working /\ pc'[q] \notin Working
           /\ \A p \in Requests \ {q} : pc'[p] = pc[p]
           /\ UNCHANGED <<delivery, sent, faults, crashes>>
<1>1. pc[q] \notin Working /\ UNCHANGED <<delivery, sent, faults, crashes>>
  BY DEF Receive, ResolveRoute, FindChannel, FindStored, At, Working
<1>2. \/ \E a : Answer(q, a)
      \/ \E s \in Statements \ Working : \E l : GotoWith(q, s, l)
  <2>1. {"resolve", "findChannel", "create", "findStored", "reclaim"}
          \subseteq Statements \ Working
    BY DEF Statements, Working
  <2> QED
    BY <2>1 DEF Receive, Existing, ResolveRoute, FindChannel, FindStored
<1>3. "done" \notin Working
  BY DEF Working
<1> QED
  BY <1>1, <1>2, <1>3, AnswerPlaces, GotoPlaces

(* What became of a request that found the delivery already there. *)
LEMMA ExistingPlaces ==
    ASSUME TypeOK, NEW q \in Requests, NEW m, Existing(q, m)
    PROVE  /\ pc'[q] \notin Working
           /\ \A p \in Requests \ {q} : pc'[p] = pc[p]
  BY AnswerPlaces, GotoPlaces DEF Existing, Working

LEMMA PendingOwnedStep ==
    DeliveryInv /\ PendingOwned /\ [Next]_deliveryVars => PendingOwned'
<1> SUFFICES ASSUME DeliveryInv, PendingOwned, [Next]_deliveryVars,
                    crashes' = 0, delivery'.status = "pending"
             PROVE  \E p \in Requests : pc'[p] \in Working
  BY DEF PendingOwned
<1>0. TypeOK /\ {"deliver", "fail", "succeed"} = Working
  BY DEF DeliveryInv, Working
<1>1. CASE UNCHANGED deliveryVars
  BY <1>1 DEF deliveryVars, PendingOwned
<1>2. ASSUME NEW q \in Requests,
             \/ \E m \in Message : Receive(q, m)
             \/ ResolveRoute(q) \/ FindChannel(q) \/ FindStored(q)
      PROVE  \E p \in Requests : pc'[p] \in Working
  BY <1>0, <1>2, LookupPlaces DEF PendingOwned
<1>3. ASSUME NEW q \in Requests, Create(q)
      PROVE  \E p \in Requests : pc'[p] \in Working
  <2>1. CASE delivery.status = "none"
    BY <1>0, <1>3, <2>1, GotoPlaces DEF Create, Goto
  <2>2. CASE delivery.status # "none"
    <3>1. pc[q] \notin Working /\ Existing(q, loc[q].message)
          /\ UNCHANGED <<delivery, crashes>>
      BY <1>3, <2>2 DEF Create, At, Working
    <3> QED
      BY <1>0, <3>1, ExistingPlaces DEF PendingOwned
  <2> QED
    BY <2>1, <2>2
<1>4. ASSUME NEW q \in Requests, Reclaim(q)
      PROVE  \E p \in Requests : pc'[p] \in Working
  <2>1. CASE delivery.status = "failed"
    BY <1>0, <1>4, <2>1, GotoPlaces DEF Reclaim, Goto
  <2>2. CASE delivery.status # "failed"
    <3>1. pc[q] \notin Working /\ Answer(q, "in_progress")
          /\ UNCHANGED <<delivery, crashes>>
      BY <1>4, <2>2 DEF Reclaim, At, Working
    <3> QED
      BY <1>0, <3>1, AnswerPlaces DEF PendingOwned
  <2> QED
    BY <2>1, <2>2
<1>5. ASSUME NEW q \in Requests, Deliver(q)
      PROVE  \E p \in Requests : pc'[p] \in Working
  BY <1>0, <1>5, GotoPlaces DEF Deliver, Goto
<1>6. ASSUME NEW q \in Requests, Fail(q) \/ Succeed(q) PROVE FALSE
  BY <1>0, <1>6, DeliveryType DEF Fail, Succeed
<1>7. ASSUME NEW q \in Requests, Crash(q) PROVE FALSE
  BY <1>0, <1>7 DEF Crash, TypeOK
<1> QED
  BY <1>1, <1>2, <1>3, <1>4, <1>5, <1>6, <1>7 DEF Next, Serve

(* Unless a request died, a delivery that says pending is being worked on:  *)
(* no early return leaves one that every later retry would take for one in *)
(* progress (outbound.ts:411-467).                                         *)
THEOREM NoPendingWedge == Spec => []PendingOwned
<1>1. Init => PendingOwned
  BY DEF Init, PendingOwned, NoDelivery
<1> QED
  BY <1>1, PendingOwnedStep, DeliveryInvariant, PTL DEF Spec

(* While no send went wrong, nothing is sent before the worker's own send,  *)
(* and a failed delivery is one that was never sent.                       *)
OneSend ==
    faults = 0 =>
        /\ delivery.status \in {"none", "failed"} => sent = {}
        /\ \A q \in Requests : pc[q] \in {"deliver", "fail"} => sent = {}
        /\ sent = {} \/ \E s : sent = {s}

LEMMA OneSendStep == DeliveryInv /\ OneSend /\ [Next]_deliveryVars => OneSend'
<1> SUFFICES ASSUME DeliveryInv, OneSend, [Next]_deliveryVars, faults' = 0
             PROVE  /\ delivery'.status \in {"none", "failed"} => sent' = {}
                    /\ \A p \in Requests : pc'[p] \in {"deliver", "fail"} => sent' = {}
                    /\ sent' = {} \/ \E s : sent' = {s}
  BY DEF OneSend
<1> DEFINE OneSendNext ==
        /\ delivery'.status \in {"none", "failed"} => sent' = {}
        /\ \A p \in Requests : pc'[p] \in {"deliver", "fail"} => sent' = {}
        /\ sent' = {} \/ \E s : sent' = {s}
<1>0. TypeOK /\ {"deliver", "fail", "succeed"} = Working
  BY DEF DeliveryInv, Working
<1>1. CASE UNCHANGED deliveryVars
  BY <1>1 DEF deliveryVars, OneSend
<1>2. ASSUME NEW q \in Requests,
             \/ \E m \in Message : Receive(q, m)
             \/ ResolveRoute(q) \/ FindChannel(q) \/ FindStored(q)
      PROVE  OneSendNext
  BY <1>0, <1>2, LookupPlaces DEF OneSend
<1>3. ASSUME NEW q \in Requests, Create(q) PROVE OneSendNext
  <2>1. CASE delivery.status = "none"
    <3>1. sent = {} /\ UNCHANGED sent
      BY <1>3, <2>1 DEF Create, OneSend
    <3> QED
      BY <3>1
  <2>2. CASE delivery.status # "none"
    <3>1. Existing(q, loc[q].message) /\ UNCHANGED <<delivery, sent, faults>>
      BY <1>3, <2>2 DEF Create
    <3> QED
      BY <1>0, <3>1, ExistingPlaces DEF OneSend
  <2> QED
    BY <2>1, <2>2
<1>4. ASSUME NEW q \in Requests, Reclaim(q) PROVE OneSendNext
  <2>1. CASE delivery.status = "failed"
    <3>1. sent = {} /\ UNCHANGED sent
      BY <1>4, <2>1 DEF Reclaim, OneSend
    <3> QED
      BY <3>1
  <2>2. CASE delivery.status # "failed"
    <3>1. Answer(q, "in_progress") /\ UNCHANGED <<delivery, sent, faults>>
      BY <1>4, <2>2 DEF Reclaim
    <3> QED
      BY <1>0, <3>1, AnswerPlaces DEF OneSend
  <2> QED
    BY <2>1, <2>2
<1>5. ASSUME NEW q \in Requests, Deliver(q) PROVE OneSendNext
  <2>1. /\ faults = 0 /\ sent = {} /\ delivery'.status = "pending"
        /\ \A p \in Requests \ {q} : pc[p] \notin Working
    BY <1>0, <1>5 DEF Deliver, At, OneSend, DeliveryInv, RequestOK, OneWorker, TypeOK
  <2>2. CASE loc[q].connected
    <3>1. Goto(q, "succeed") /\ \E s : sent' = {s}
      <4>1. PICK s : \/ Goto(q, "succeed") /\ sent' = sent \cup {s}
                     \/ faults' = faults + 1
        BY <1>5, <2>2 DEF Deliver
      <4>2. faults' # faults + 1
        BY <1>0, <2>1 DEF TypeOK
      <4> QED
        BY <2>1, <4>1, <4>2
    <3>2. /\ pc'[q] = "succeed"
          /\ \A p \in Requests \ {q} : pc'[p] = pc[p]
      BY <1>0, <3>1, GotoPlaces DEF Goto
    <3> QED
      BY <1>0, <2>1, <3>1, <3>2
  <2>3. CASE ~loc[q].connected
    BY <1>5, <2>1, <2>3 DEF Deliver
  <2> QED
    BY <2>2, <2>3
<1>6. ASSUME NEW q \in Requests, Fail(q) PROVE OneSendNext
  BY <1>6 DEF Fail, At, OneSend
<1>7. ASSUME NEW q \in Requests, Succeed(q) PROVE OneSendNext
  <2>1. /\ pc[q] \in Working /\ delivery'.status = "succeeded"
        /\ UNCHANGED <<sent, faults>>
        /\ pc'[q] = "done"
        /\ \A p \in Requests \ {q} : pc'[p] = pc[p]
    BY <1>0, <1>7, DeliveryType, AnswerPlaces DEF Succeed, At
  <2> QED
    BY <2>1 DEF OneSend
<1>8. ASSUME NEW q \in Requests, Crash(q) PROVE OneSendNext
  <2>1. /\ UNCHANGED <<delivery, sent, faults>>
        /\ pc'[q] = "done"
        /\ \A p \in Requests \ {q} : pc'[p] = pc[p]
    BY <1>0, <1>8, AnswerPlaces DEF Crash
  <2> QED
    BY <2>1 DEF OneSend
<1> QED
  BY <1>1, <1>2, <1>3, <1>4, <1>5, <1>6, <1>7, <1>8 DEF Next, Serve

(* When no send went wrong, the end user gets the message once at most,      *)
(* however many requests carry the key (outbound.ts:467-530).              *)
THEOREM NeverSentTwice == Spec => []SentOnce
<1>1. Init => OneSend
  BY DEF Init, OneSend
<1>2. Spec => []OneSend
  BY <1>1, OneSendStep, DeliveryInvariant, PTL DEF Spec
<1>3. OneSend => SentOnce
  <2> SUFFICES ASSUME OneSend, faults = 0 PROVE Cardinality(sent) <= 1
    BY DEF SentOnce
  <2>1. CASE sent = {}
    BY <2>1, FS_EmptySet
  <2>2. ASSUME NEW s, sent = {s} PROVE Cardinality(sent) <= 1
    <3>1. Cardinality({s}) = 1
      BY FS_Singleton
    <3> QED
      BY <2>2, <3>1
  <2> QED
    BY <2>1, <2>2 DEF OneSend
<1> QED
  BY <1>2, <1>3, PTL
=============================================================================
