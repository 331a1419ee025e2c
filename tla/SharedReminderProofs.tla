------------------------ MODULE SharedReminderProofs ------------------------
(***************************************************************************)
(* What holds of a shared reminder request for any number of calls, clock  *)
(* readings, faults and friendships.                                       *)
(*                                                                         *)
(* The argument for the decision being final: whatever statement runs next *)
(* either decides a pending row (Decides), records the event of a decision *)
(* already made (Records), or leaves a decided row decided (Proceeds).     *)
(*                                                                         *)
(* The argument for no orphans: a reminder that the row, a projection or a *)
(* call names was made by a call that will not make it again (NamesMade),  *)
(* so one that was cancelled stays cancelled; and while nothing fails, an  *)
(* active reminder is in the making or has its projection (Tidy).          *)
(*                                                                         *)
(* The argument for a request that one create has made, whatever is called *)
(* afterwards. Nobody inserts a row or a requester's projection any more   *)
(* (Settled). So a removal that sees the request invalidated has its one   *)
(* reminder to cancel (RemovalDone); a decline cancels it before it says   *)
(* so, and an accept that loses takes back what it made (DeclineDone).     *)
(* When moreover no claim can become stale, one call at a time holds the   *)
(* claim while the request is pending, and the one that has an invitee's   *)
(* projection is about to finalize (ClaimHeld, AcceptDone).                *)
(***************************************************************************)
EXTENDS SharedReminder, TLAPS

-----------------------------------------------------------------------------
(* Typing *)

(* The control operators keep the types of what they assign. *)
LEMMA GotoType ==
    ASSUME TypeOK, NEW c \in Calls, NEW s \in Statements, Goto(c, s)
    PROVE  /\ pc' \in [Calls -> Statements \cup {"idle", "done"}]
           /\ loc' \in [Calls -> Locals]
           /\ reply' \in [Calls -> Status \cup {"error", "swept", "removed"}]
  BY DEF TypeOK, Goto

LEMMA GotoWithType ==
    ASSUME TypeOK, NEW c \in Calls, NEW s \in Statements, NEW l \in Locals,
           GotoWith(c, s, l)
    PROVE  /\ pc' \in [Calls -> Statements \cup {"idle", "done"}]
           /\ loc' \in [Calls -> Locals]
           /\ reply' \in [Calls -> Status \cup {"error", "swept", "removed"}]
  BY DEF TypeOK, GotoWith

LEMMA BlankType == Blank \in Locals /\ NoRow \in Row
  BY DEF Blank, Locals, NoRow, Row, Status

LEMMA ReplyType ==
    ASSUME TypeOK, NEW c \in Calls,
           NEW r \in Status \cup {"error", "swept", "removed"}, Reply(c, r)
    PROVE  /\ pc' \in [Calls -> Statements \cup {"idle", "done"}]
           /\ loc' \in [Calls -> Locals]
           /\ reply' \in [Calls -> Status \cup {"error", "swept", "removed"}]
  BY BlankType DEF TypeOK, Reply

LEMMA FaultType == TypeOK /\ Fault => faults' \in Nat
  BY DEF TypeOK, Fault

(* Every variable a step may leave alone keeps its type. *)
LEMMA InitType == Init => TypeOK
<1> SUFFICES ASSUME Init PROVE TypeOK
  OBVIOUS
<1>1. 1 \in Friendships
  BY BoundsAssumption DEF Friendships
<1>2. /\ pc \in [Calls -> Statements \cup {"idle", "done"}]
      /\ loc \in [Calls -> Locals]
      /\ reply \in [Calls -> Status \cup {"error", "swept", "removed"}]
  BY BlankType DEF Init, Status
<1>3. proj \in [Roles -> Reminders \cup {None}]
  BY DEF Init
<1> QED
  BY <1>1, <1>2, <1>3, BlankType DEF Init, TypeOK

(* What a call keeps in its local variables when it changes one of them. *)
LEMMA LocalsType ==
    ASSUME NEW l \in Locals
    PROVE  /\ \A x \in Nat \cup {None} : [l EXCEPT !.at = x] \in Locals
           /\ \A x \in Reminders \cup {None} : [l EXCEPT !.rem = x] \in Locals
           /\ \A x \in Reminders \cup {None} :
                [l EXCEPT !.rem = x, !.made = TRUE] \in Locals
           /\ \A x \in Status : [l EXCEPT !.to = x] \in Locals
           /\ [l EXCEPT !.own = TRUE] \in Locals
           /\ \A x \in Friendships : [l EXCEPT !.friend = x] \in Locals
           /\ \A x \in SUBSET Reminders : [l EXCEPT !.todo = x] \in Locals
           /\ \A x \in Reminders \cup {None}, t \in SUBSET Reminders :
                [l EXCEPT !.rem = x, !.todo = t] \in Locals
  BY DEF Locals

(* The statuses, one by one: their membership is used below. *)
LEMMA StatusType ==
    /\ "none" \in Status /\ Pending \in Status /\ Terminal \subseteq Status
    /\ "accepted" \in Status /\ "rejected" \in Status /\ "expired" \in Status
    /\ "cancelled" \in Status /\ "invalidated" \in Status
  BY DEF Status, Terminal

(* What the fields of the row and of a call's local variables hold. *)
LEMMA RowType ==
    TypeOK => /\ row \in Row
              /\ row.status \in Status
              /\ row.resolvedAt \in Nat \cup {None}
              /\ row.requesterReminderId \in Reminders \cup {None}
              /\ row.friendshipId \in Friendships \cup {None}
  BY DEF TypeOK, Row

LEMMA LocType ==
    TypeOK => \A c \in Calls :
                /\ loc[c] \in Locals
                /\ loc[c].at \in Nat \cup {None}
                /\ loc[c].rem \in Reminders \cup {None}
                /\ loc[c].friend \in Friendships \cup {None}
                /\ loc[c].todo \in SUBSET Reminders
                /\ loc[c].to \in Status
  BY DEF TypeOK, Locals

(* The reminders a removal sets out to cancel are reminders. *)
LEMMA ToCancelType ==
    TypeOK => \A r \in Reminders \cup {None} : ToCancel(r) \subseteq Reminders
  BY DEF TypeOK, ToCancel, Roles

LEMMA TypeStep == TypeOK /\ [Next]_vars => TypeOK'
<1> SUFFICES ASSUME TypeOK, Next PROVE TypeOK'
  BY DEF TypeOK, vars
<1> USE StatusType
<1>1. ASSUME NEW c \in Calls, BeginCreate(c) PROVE TypeOK'
  <2>1. CASE active = None
    BY <1>1, <2>1, ReplyType DEF BeginCreate, world, TypeOK
  <2>2. CASE active # None
    <3>1. [Blank EXCEPT !.friend = active] \in Locals
      BY <2>2, BlankType, LocalsType DEF TypeOK
    <3> QED
      BY <1>1, <2>2, <3>1, GotoWithType DEF BeginCreate, world, TypeOK, Statements
  <2> QED
    BY <2>1, <2>2
<1>2. ASSUME NEW c \in Calls, InsertRow(c) PROVE TypeOK'
  <2>1. CASE /\ GotoWith(c, "friendship", [loc[c] EXCEPT !.own = TRUE])
             /\ row' = [NoRow EXCEPT !.status = Pending,
                                     !.friendshipId = loc[c].friend]
    <3>1. row' \in Row
      BY <2>1, BlankType, LocType DEF Row
    <3> QED
      BY <1>2, <2>1, <3>1, GotoWithType, LocalsType DEF InsertRow, TypeOK, Statements
  <2>2. CASE /\ row' = row
             /\ IF IsPending /\ row.requesterReminderId = None
                THEN Goto(c, "findRequester") ELSE Reply(c, row.status)
    BY <1>2, <2>2, RowType, GotoType, ReplyType DEF InsertRow, TypeOK, Statements
  <2> QED
    BY <1>2, <2>1, <2>2 DEF InsertRow
<1>3. ASSUME NEW c \in Calls, FindRequester(c) PROVE TypeOK'
  BY <1>3, GotoType, GotoWithType, LocalsType
     DEF FindRequester, world, TypeOK, Statements, Roles
<1>4. ASSUME NEW c \in Calls, SetRequester(c) PROVE TypeOK'
  <2>1. row' \in Row
    BY <1>4, RowType, LocType, StatusType DEF SetRequester, Row, Terminal, TypeOK
  <2> QED
    BY <1>4, <2>1, RowType, LocType, ReplyType
       DEF SetRequester, TypeOK, Statements
<1>5. ASSUME NEW c \in Calls, CancelRow(c) PROVE TypeOK'
  <2>1. row' \in Row
    BY <1>5, RowType, LocType, StatusType DEF CancelRow, Row, Terminal, TypeOK
  <2> QED
    BY <1>5, <2>1, RowType, LocType, ReplyType
       DEF CancelRow, TypeOK, Statements
<1>6. ASSUME NEW c \in Calls, FinalizeRequester(c) PROVE TypeOK'
  <2>1. row' \in Row
    BY <1>6, RowType, LocType, StatusType DEF FinalizeRequester, Row, Terminal, TypeOK
  <2> QED
    BY <1>6, <2>1, RowType, LocType, GotoType, GotoWithType, ReplyType, LocalsType
       DEF FinalizeRequester, TypeOK, Statements
<1>7. ASSUME NEW c \in Calls, Notify(c) PROVE TypeOK'
  BY <1>7, ReplyType DEF Notify, TypeOK
<1>8. ASSUME NEW c \in Calls, CheckFriendship(c) PROVE TypeOK'
  BY <1>8, GotoType DEF CheckFriendship, world, TypeOK, Statements
<1>9. ASSUME NEW c \in Calls, Invalidate(c) PROVE TypeOK'
  <2>1. row' \in Row
    BY <1>9, RowType, LocType, StatusType DEF Invalidate, Row, Terminal, TypeOK
  <2> QED
    BY <1>9, <2>1, RowType, LocType, ReplyType
       DEF Invalidate, TypeOK, Statements
<1>10. ASSUME NEW c \in Calls, CreateRuntime(c) PROVE TypeOK'
  BY <1>10, GotoType, ReplyType, FaultType
     DEF CreateRuntime, ProjectionFailed, Reminders, TypeOK, Statements
<1>11. ASSUME NEW c \in Calls, InsertProjection(c) PROVE TypeOK'
  <2>1. RoleOf(c) \in Roles /\ c \in Reminders
    BY DEF RoleOf, Roles, Reminders
  <2> QED
    BY <1>11, <2>1, GotoType, GotoWithType, LocalsType, FaultType
       DEF InsertProjection, TypeOK, Statements
<1>12. ASSUME NEW c \in Calls, FindExisting(c) PROVE TypeOK'
  <2>1. RoleOf(c) \in Roles
    BY DEF RoleOf, Roles
  <2> QED
    BY <1>12, <2>1, GotoType, GotoWithType, ReplyType, LocalsType, FaultType
       DEF FindExisting, ProjectionFailed, TypeOK, Statements
<1>13. ASSUME NEW c \in Calls, CancelDuplicate(c) PROVE TypeOK'
  BY <1>13, GotoType, ReplyType, FaultType
     DEF CancelDuplicate, ProjectionFailed, TypeOK, Statements
<1>14. ASSUME NEW c \in Calls, CancelOwn(c) PROVE TypeOK'
  BY <1>14, GotoType, ReplyType, FaultType
     DEF CancelOwn, ProjectionFailed, TypeOK, Statements
<1>15. ASSUME NEW c \in Calls, CleanupCancel(c) PROVE TypeOK'
  BY <1>15, GotoType, ReplyType, FaultType
     DEF CleanupCancel, TypeOK, Statements
<1>16. ASSUME NEW c \in Calls, CleanupDelete(c) PROVE TypeOK'
  BY <1>16, GotoType, ReplyType DEF CleanupDelete, TypeOK, Statements, Roles, RoleOf
<1>17. ASSUME NEW c \in Calls, BeginAnswer(c) PROVE TypeOK'
  <2>1. [Blank EXCEPT !.at = now, !.rem = IF c \in Accepts THEN None
                                         ELSE row.requesterReminderId] \in Locals
    BY BlankType DEF Locals, Row, TypeOK
  <2> QED
    BY <1>17, <2>1, GotoWithType, ReplyType
       DEF BeginAnswer, world, TypeOK, Statements, Row
<1>18. ASSUME NEW c \in Calls, FindInvitee(c) PROVE TypeOK'
  BY <1>18, GotoType, GotoWithType, LocalsType
     DEF FindInvitee, world, TypeOK, Statements, Roles
<1>19. ASSUME NEW c \in Calls, Reconcile(c) PROVE TypeOK'
  <2>1. row' \in Row
    BY <1>19, RowType, LocType, StatusType DEF Reconcile, Row
  <2> QED
    BY <1>19, <2>1, RowType, LocType, GotoWithType, ReplyType, LocalsType
       DEF Reconcile, TypeOK, Statements
<1>20. ASSUME NEW c \in Calls, Expire(c) PROVE TypeOK'
  <2>1. row' \in Row
    BY <1>20, RowType, LocType, StatusType DEF Expire, Row
  <2> QED
    BY <1>20, <2>1, RowType, LocType, GotoWithType, ReplyType, LocalsType
       DEF Expire, TypeOK, Statements
<1>21. ASSUME NEW c \in Calls, Claim(c) PROVE TypeOK'
  <2>1. row' \in Row
    BY <1>21, RowType, LocType, StatusType DEF Claim, Row, Terminal, TypeOK
  <2> QED
    BY <1>21, <2>1, RowType, LocType, GotoType, ReplyType
       DEF Claim, TypeOK, Statements
<1>22. ASSUME NEW c \in Calls, RollbackClaim(c) PROVE TypeOK'
  <2>1. row' \in Row
    BY <1>22, RowType, LocType, StatusType DEF RollbackClaim, Row, Terminal, TypeOK
  <2> QED
    BY <1>22, <2>1, RowType, LocType, ReplyType
       DEF RollbackClaim, TypeOK, Statements
<1>23. ASSUME NEW c \in Calls, FinalizeAccept(c) PROVE TypeOK'
  <2>1. row' \in Row
    BY <1>23, RowType, LocType, StatusType DEF FinalizeAccept, Row, Terminal, TypeOK
  <2> QED
    BY <1>23, <2>1, RowType, LocType, GotoType, GotoWithType, ReplyType, LocalsType
       DEF FinalizeAccept, TypeOK, Statements
<1>24. ASSUME NEW c \in Calls, ResolveRequester(c) PROVE TypeOK'
  BY <1>24, GotoType, GotoWithType, LocalsType, FaultType
     DEF ResolveRequester, TypeOK, Statements, Roles
<1>25. ASSUME NEW c \in Calls, CancelRequester(c) PROVE TypeOK'
  BY <1>25, GotoType, FaultType
     DEF CancelRequester, TypeOK, Statements
<1>26. ASSUME NEW c \in Calls, Transition(c) PROVE TypeOK'
  <2>1. Intended(c) \in Status
    BY DEF Intended, Status, Terminal
  <2>2. row' \in Row
    BY <1>26, <2>1, RowType DEF Transition, Row
  <2> QED
    BY <1>26, <2>1, <2>2, GotoWithType, ReplyType, LocalsType
       DEF Transition, TypeOK, Statements
<1>27. ASSUME NEW c \in Calls, RecordEvent(c) PROVE TypeOK'
  <2>1. loc[c].to \in Status
    BY DEF TypeOK, Locals
  <2> QED
    BY <1>27, <2>1, GotoType, ReplyType DEF RecordEvent, TypeOK, Statements
<1>28. ASSUME NEW c \in Calls, BeginSweep(c) PROVE TypeOK'
  BY <1>28, BlankType, GotoWithType, ReplyType, LocalsType
     DEF BeginSweep, world, TypeOK, Statements
<1>29. ASSUME NEW c \in Calls, SweepAccept(c) PROVE TypeOK'
  <2>1. row' \in Row
    BY <1>29, RowType, LocType, StatusType DEF SweepAccept, Row
  <2> QED
    BY <1>29, <2>1, RowType, LocType, GotoWithType, ReplyType, LocalsType
       DEF SweepAccept, TypeOK, Statements
<1>30. ASSUME NEW c \in Calls, BeginRemove(c) PROVE TypeOK'
  <2>1. PICK f \in 1..nfriend :
           IF active = f
           THEN GotoWith(c, "commitRemoval",
                  [Blank EXCEPT !.friend = f, !.made = PendingUnder(f),
                                !.rem = row.requesterReminderId])
           ELSE GotoWith(c, "cancelNext", [Blank EXCEPT !.todo = LeftOver(f)])
    BY <1>30 DEF BeginRemove
  <2>2. f \in Friendships
    BY BoundsAssumption DEF TypeOK, Friendships
  <2>3. [Blank EXCEPT !.friend = f, !.made = PendingUnder(f),
                      !.rem = row.requesterReminderId] \in Locals
    BY <2>2, BlankType DEF Locals, Row, TypeOK, PendingUnder, IsPending
  <2>4. [Blank EXCEPT !.todo = LeftOver(f)] \in Locals
    BY BlankType, LocalsType, ToCancelType DEF LeftOver, Row, TypeOK
  <2> QED
    BY <1>30, <2>1, <2>3, <2>4, GotoWithType DEF BeginRemove, world, TypeOK, Statements
<1>31. ASSUME NEW c \in Calls, CommitRemoval(c) PROVE TypeOK'
  <2>1. row' \in Row
    BY <1>31, RowType DEF CommitRemoval, Row, Terminal, TypeOK
  <2>2. /\ ToCancel(loc[c].rem) \in SUBSET Reminders
        /\ ToCancel(row.requesterReminderId) \in SUBSET Reminders
        /\ LeftOver(loc[c].friend) \in SUBSET Reminders
    BY ToCancelType DEF LeftOver, Row, Locals, TypeOK
  <2>3. \A t \in SUBSET Reminders :
          [loc[c] EXCEPT !.made = FALSE, !.rem = None, !.todo = t] \in Locals
    BY LocType DEF Locals
  <2> QED
    BY <1>31, <2>1, <2>2, <2>3, GotoWithType DEF CommitRemoval, TypeOK, Statements
<1>32. ASSUME NEW c \in Calls, CancelNext(c) PROVE TypeOK'
  <2>1. loc[c].todo \subseteq Reminders
    BY DEF TypeOK, Locals
  <2> QED
    BY <1>32, <2>1, GotoWithType, ReplyType, LocalsType, FaultType
       DEF CancelNext, TypeOK, Statements
<1>33. ASSUME NEW c \in Calls, MarkClean(c) PROVE TypeOK'
  <2>1. row' \in Row
    BY <1>33, RowType DEF MarkClean, Row
  <2>2. loc[c].todo \ {loc[c].rem} \in SUBSET Reminders
    BY DEF TypeOK, Locals
  <2> QED
    BY <1>33, <2>1, <2>2, GotoWithType, LocalsType DEF MarkClean, TypeOK, Statements, Roles
<1>34. ASSUME NEW c \in Calls, Crash(c) PROVE TypeOK'
  BY <1>34, BlankType, FaultType DEF Crash, TypeOK
<1>35. CASE Befriend
  <2>1. active' \in Friendships /\ nfriend' \in Friendships
    BY <1>35, BoundsAssumption DEF Befriend, TypeOK, Friendships
  <2> QED
    BY <1>35, <2>1 DEF Befriend, TypeOK
<1>36. CASE Tick
  BY <1>36 DEF Tick, TypeOK
<1> QED
  BY <1>1, <1>2, <1>3, <1>4, <1>5, <1>6, <1>7, <1>8, <1>9, <1>10, <1>11, <1>12,
     <1>13, <1>14, <1>15, <1>16, <1>17, <1>18, <1>19, <1>20, <1>21, <1>22, <1>23, <1>24,
     <1>25, <1>26, <1>27, <1>28, <1>29, <1>30, <1>31, <1>32, <1>33, <1>34, <1>35, <1>36
     DEF Next, Begin, Step

(* Every reachable state is one the code could store.  *)
THEOREM TypeCorrect == Spec => []TypeOK
<1>1. Init => TypeOK
  BY InitType
<1>2. TypeOK /\ [Next]_vars => TypeOK'
  BY TypeStep
<1> QED
  BY <1>1, <1>2, PTL DEF Spec
-----------------------------------------------------------------------------
(* The decision is final *)

(* Replies and notes of decisions: nothing new, unless read off the row. *)
Quietly ==
    /\ \A d \in Calls : loc'[d].to = loc[d].to \/ loc'[d].to \notin Terminal
    /\ \A d \in Calls : \/ reply'[d] \in {reply[d], row.status}
                        \/ reply'[d] \notin Terminal

(* A step that neither decides with an event to record nor records one. *)
Proceeds ==
    /\ Quietly
    /\ events' = events
    /\ row.status \in Terminal => row'.status = row.status

(* c decides a pending request and notes the event it has to record. *)
Decides(c) ==
    /\ IsPending
    /\ events' = events /\ reply' = reply
    /\ loc'[c].to = row'.status
    /\ \A d \in Calls \ {c} : loc'[d] = loc[d]

(* c records what it noted and may answer it. *)
Records(c) ==
    /\ row' = row
    /\ events' \in {events, events \cup {<<c, loc[c].to>>}}
    /\ \A d \in Calls : loc'[d] = loc[d] \/ loc'[d].to \notin Terminal
    /\ \A d \in Calls : \/ reply'[d] = reply[d] \/ reply'[d] \notin Terminal
                        \/ d = c /\ reply'[d] = loc[c].to

LEMMA NotTerminal ==
    /\ Pending \notin Terminal /\ "none" \notin Terminal
    /\ "error" \notin Terminal /\ "swept" \notin Terminal /\ "removed" \notin Terminal
  BY DEF Pending, Terminal

(* Each kind of step keeps the decision. *)
LEMMA ProceedsKeeps == TypeOK /\ DecisionAgrees /\ Proceeds => DecisionAgrees'
<1> SUFFICES ASSUME TypeOK, DecisionAgrees, Proceeds PROVE DecisionAgrees'
  OBVIOUS
<1>1. \A c \in Calls : loc'[c].to \in Terminal => row'.status = loc'[c].to
  BY DEF DecisionAgrees, Proceeds, Quietly
<1>2. \A e \in events' : e[2] \in Terminal => row'.status = e[2]
  BY DEF DecisionAgrees, Proceeds
<1>3. Deciders' \subseteq Deciders
  BY DEF Deciders, Proceeds, Quietly
<1>4. ReplyTruthful'
  BY DEF DecisionAgrees, ReplyTruthful, Proceeds, Quietly
<1> QED
  BY <1>1, <1>2, <1>3, <1>4 DEF DecisionAgrees

LEMMA DecidesKeeps ==
    ASSUME TypeOK, DecisionAgrees, NEW c \in Calls, Decides(c)
    PROVE  DecisionAgrees'
<1>1. row.status \notin Terminal
  BY NotTerminal DEF Decides, IsPending
<1>2. /\ \A d \in Calls : loc[d].to \notin Terminal
      /\ \A e \in events : e[2] \notin Terminal
      /\ \A d \in Calls : reply[d] \notin Terminal
  BY <1>1 DEF DecisionAgrees, ReplyTruthful
<1>3. \A d \in Calls : loc'[d].to \in Terminal => row'.status = loc'[d].to
  BY <1>2 DEF Decides
<1>4. Deciders' \subseteq {c}
  BY <1>2 DEF Deciders, Decides
<1> QED
  BY <1>2, <1>3, <1>4 DEF DecisionAgrees, ReplyTruthful, Decides

LEMMA RecordsKeeps ==
    ASSUME TypeOK, DecisionAgrees, NEW c \in Calls, Records(c)
    PROVE  DecisionAgrees'
<1>1. \A d \in Calls : loc'[d].to \in Terminal => row'.status = loc'[d].to
  BY DEF DecisionAgrees, Records
<1>2. \A e \in events' : e[2] \in Terminal => row'.status = e[2]
  BY DEF DecisionAgrees, Records
<1>3. Deciders' \subseteq Deciders
  BY DEF Deciders, Records
<1>4. ReplyTruthful'
  BY DEF DecisionAgrees, ReplyTruthful, Records
<1> QED
  BY <1>1, <1>2, <1>3, <1>4 DEF DecisionAgrees

(* What the control operators and the updates of a field do to notes and *)
(* replies.                                                               *)
LEMMA GotoQuietly ==
    ASSUME TypeOK, NEW c \in Calls, NEW s, Goto(c, s) PROVE Quietly
  BY DEF TypeOK, Goto, Quietly

LEMMA GotoWithQuietly ==
    ASSUME TypeOK, NEW c \in Calls, NEW s, NEW l \in Locals,
           l.to = loc[c].to \/ l.to \notin Terminal, GotoWith(c, s, l)
    PROVE  Quietly
  BY DEF TypeOK, GotoWith, Quietly

LEMMA ReplyQuietly ==
    ASSUME TypeOK, NEW c \in Calls, NEW r,
           r = row.status \/ r \notin Terminal, Reply(c, r)
    PROVE  Quietly
<1>1. Blank.to \notin Terminal
  BY NotTerminal DEF Blank
<1> QED
  BY <1>1 DEF TypeOK, Reply, Quietly

LEMMA KeepsTo ==
    ASSUME NEW l \in Locals
    PROVE  /\ [l EXCEPT !.own = TRUE].to = l.to
           /\ \A x \in Reminders \cup {None} : [l EXCEPT !.rem = x].to = l.to
           /\ \A x \in Reminders \cup {None} :
                [l EXCEPT !.rem = x, !.made = TRUE].to = l.to
           /\ \A x \in Reminders \cup {None}, t \in SUBSET Reminders :
                [l EXCEPT !.rem = x, !.todo = t].to = l.to
           /\ \A t \in SUBSET Reminders :
                [l EXCEPT !.made = FALSE, !.rem = None, !.todo = t].to = l.to
           /\ \A x \in Status : [l EXCEPT !.to = x].to = x
  BY DEF Locals

LEMMA ProjType == TypeOK => \A r \in Roles : proj[r] \in Reminders \cup {None}
  BY DEF TypeOK

LEMMA RoleType == /\ "requester" \in Roles /\ "invitee" \in Roles
                  /\ \A c : RoleOf(c) \in Roles
  BY DEF Roles, RoleOf

LEMMA KeepsStatus ==
    ASSUME NEW r \in Row
    PROVE  /\ \A x \in Reminders \cup {None} :
                [r EXCEPT !.requesterReminderId = x].status = r.status
           /\ \A x \in Nat \cup {None} : [r EXCEPT !.resolvedAt = x].status = r.status
  BY DEF Row

LEMMA GotoWithDecides ==
    ASSUME TypeOK, IsPending, NEW c \in Calls, NEW s, NEW l \in Locals,
           GotoWith(c, s, l), l.to = row'.status, events' = events
    PROVE  Decides(c)
  BY DEF TypeOK, GotoWith, Decides

(* Every statement of a call is of one of the three kinds. *)
LEMMA StepKinds ==
    ASSUME TypeOK, NEW c \in Calls, Begin(c) \/ Step(c) \/ Crash(c)
    PROVE  Proceeds \/ Decides(c) \/ Records(c)
<1> USE StatusType, NotTerminal
<1>1. CASE BeginCreate(c)
  <2>1. [Blank EXCEPT !.friend = active].to \notin Terminal /\ (active # None => [Blank EXCEPT !.friend = active] \in Locals)
    BY BlankType, LocalsType DEF Blank, TypeOK
  <2> QED
    BY <1>1, <2>1, GotoWithQuietly, ReplyQuietly DEF BeginCreate, Proceeds, world
<1>2. CASE InsertRow(c)
  <2>1. Quietly
    <3>1. CASE GotoWith(c, "friendship", [loc[c] EXCEPT !.own = TRUE])
      BY <3>1, LocType, LocalsType, KeepsTo, GotoWithQuietly
    <3>2. CASE IF IsPending /\ row.requesterReminderId = None
               THEN Goto(c, "findRequester") ELSE Reply(c, row.status)
      BY <3>2, GotoQuietly, ReplyQuietly
    <3> QED
      BY <1>2, <3>1, <3>2 DEF InsertRow
  <2> QED
    BY <1>2, <2>1 DEF InsertRow, Proceeds
<1>3. CASE FindRequester(c)
  <2> DEFINE l == [loc[c] EXCEPT !.rem = proj["requester"]]
  <2>1. l \in Locals /\ l.to = loc[c].to
    BY LocType, LocalsType, KeepsTo, ProjType, RoleType
  <2>2. Quietly
    BY <1>3, <2>1, GotoQuietly, GotoWithQuietly, ReplyQuietly DEF FindRequester
  <2> QED
    BY <1>3, <2>2 DEF FindRequester, Proceeds, world
<1>4. CASE SetRequester(c)
  BY <1>4, RowType, LocType, KeepsStatus, ReplyQuietly DEF SetRequester, Proceeds
<1>5. CASE CancelRow(c)
  BY <1>5, ReplyQuietly DEF CancelRow, Proceeds, IsPending
<1>6. CASE FinalizeRequester(c)
  <2> DEFINE l == [loc[c] EXCEPT !.to = Pending]
  <2>1. l \in Locals /\ l.to \notin Terminal
    BY LocType, LocalsType, KeepsTo
  <2>2. Quietly
    BY <1>6, <2>1, GotoQuietly, GotoWithQuietly, ReplyQuietly DEF FinalizeRequester
  <2>3. row.status \in Terminal => row'.status = row.status
    BY <1>6 DEF FinalizeRequester, IsPending
  <2> QED
    BY <1>6, <2>2, <2>3 DEF FinalizeRequester, Proceeds
<1>7. CASE Notify(c)
  BY <1>7, ReplyQuietly DEF Notify, Proceeds
<1>8. CASE CheckFriendship(c)
  BY <1>8, GotoQuietly DEF CheckFriendship, Proceeds, world
<1>9. CASE Invalidate(c)
  BY <1>9, ReplyQuietly DEF Invalidate, Proceeds, IsPending
<1>10. CASE CreateRuntime(c)
  BY <1>10, GotoQuietly, ReplyQuietly DEF CreateRuntime, ProjectionFailed, Proceeds
<1>11. CASE InsertProjection(c)
  BY <1>11, LocType, LocalsType, KeepsTo, GotoQuietly, GotoWithQuietly
     DEF InsertProjection, Proceeds, Reminders
<1>12. CASE FindExisting(c)
  <2> DEFINE l == [loc[c] EXCEPT !.rem = proj[RoleOf(c)]]
  <2>1. l \in Locals /\ l.to = loc[c].to
    BY LocType, LocalsType, KeepsTo, ProjType, RoleType
  <2>2. Quietly
    BY <1>12, <2>1, GotoQuietly, GotoWithQuietly, ReplyQuietly DEF FindExisting, ProjectionFailed
  <2> QED
    BY <1>12, <2>2 DEF FindExisting, Proceeds, world
<1>13. CASE CancelDuplicate(c)
  BY <1>13, GotoQuietly, ReplyQuietly DEF CancelDuplicate, ProjectionFailed, Proceeds
<1>14. CASE CancelOwn(c)
  BY <1>14, GotoQuietly, ReplyQuietly DEF CancelOwn, ProjectionFailed, Proceeds
<1>15. CASE CleanupCancel(c)
  BY <1>15, GotoQuietly, ReplyQuietly DEF CleanupCancel, Proceeds
<1>16. CASE CleanupDelete(c)
  BY <1>16, GotoQuietly, ReplyQuietly DEF CleanupDelete, Proceeds
<1>17. CASE BeginAnswer(c)
  <2> DEFINE l == [Blank EXCEPT !.at = now, !.rem = IF c \in Accepts THEN None
                                                   ELSE row.requesterReminderId]
  <2>1. l \in Locals /\ l.to \notin Terminal
    BY BlankType, RowType DEF Locals, TypeOK, Blank
  <2> QED
    BY <1>17, <2>1, GotoWithQuietly, ReplyQuietly DEF BeginAnswer, Proceeds, world
<1>18. CASE FindInvitee(c)
  <2> DEFINE l == [loc[c] EXCEPT !.rem = proj["invitee"]]
  <2>1. l \in Locals /\ l.to = loc[c].to
    BY LocType, LocalsType, KeepsTo, ProjType, RoleType
  <2>2. Quietly
    BY <1>18, <2>1, GotoQuietly, GotoWithQuietly, ReplyQuietly DEF FindInvitee
  <2> QED
    BY <1>18, <2>2 DEF FindInvitee, Proceeds, world
<1>19. CASE Reconcile(c)
  <2> DEFINE l == [loc[c] EXCEPT !.to = "accepted"]
  <2>1. l \in Locals /\ l.to = "accepted"
    BY LocType, LocalsType, KeepsTo
  <2>2. CASE IsPending
    <3>1. row'.status = "accepted"
      BY <1>19, <2>2, RowType DEF Reconcile, Row
    <3> QED
      BY <1>19, <2>1, <2>2, <3>1, GotoWithDecides DEF Reconcile
  <2>3. CASE ~(IsPending)
    BY <1>19, <2>3, GotoQuietly, ReplyQuietly DEF Reconcile, Proceeds
  <2> QED
    BY <2>2, <2>3
<1>20. CASE Expire(c)
  <2> DEFINE l == [loc[c] EXCEPT !.to = "expired"]
  <2>1. l \in Locals /\ l.to = "expired"
    BY LocType, LocalsType, KeepsTo
  <2>2. CASE IsPending /\ Unclaimed(loc[c].at)
    <3>1. row'.status = "expired"
      BY <1>20, <2>2, RowType DEF Expire, Row
    <3> QED
      BY <1>20, <2>1, <2>2, <3>1, GotoWithDecides DEF Expire
  <2>3. CASE ~(IsPending /\ Unclaimed(loc[c].at))
    BY <1>20, <2>3, GotoQuietly, ReplyQuietly DEF Expire, Proceeds
  <2> QED
    BY <2>2, <2>3
<1>21. CASE Claim(c)
  <2>1. Quietly
    BY <1>21, GotoQuietly, ReplyQuietly DEF Claim
  <2>2. row.status \in Terminal => row'.status = row.status
    BY <1>21 DEF Claim, IsPending
  <2> QED
    BY <1>21, <2>1, <2>2 DEF Claim, Proceeds
<1>22. CASE RollbackClaim(c)
  BY <1>22, RowType, LocType, KeepsStatus, ReplyQuietly DEF RollbackClaim, Proceeds
<1>23. CASE FinalizeAccept(c)
  <2> DEFINE l == [loc[c] EXCEPT !.to = "accepted"]
  <2>1. l \in Locals /\ l.to = "accepted"
    BY LocType, LocalsType, KeepsTo
  <2>2. CASE HoldsClaim(c)
    <3>1. row'.status = "accepted"
      BY <1>23, <2>2, RowType DEF FinalizeAccept, Row
    <3> QED
      BY <1>23, <2>1, <2>2, <3>1, GotoWithDecides DEF FinalizeAccept, HoldsClaim
  <2>3. CASE ~(HoldsClaim(c))
    BY <1>23, <2>3, GotoQuietly, ReplyQuietly DEF FinalizeAccept, Proceeds
  <2> QED
    BY <2>2, <2>3
<1>24. CASE ResolveRequester(c)
  <2> DEFINE l == [loc[c] EXCEPT !.rem = proj["requester"]]
  <2>1. l \in Locals /\ l.to = loc[c].to
    BY LocType, LocalsType, KeepsTo, ProjType, RoleType
  <2>2. Quietly
    BY <1>24, <2>1, GotoQuietly, GotoWithQuietly, ReplyQuietly DEF ResolveRequester
  <2> QED
    BY <1>24, <2>2 DEF ResolveRequester, Proceeds, world
<1>25. CASE CancelRequester(c)
  BY <1>25, GotoQuietly DEF CancelRequester, Proceeds
<1>26. CASE Transition(c)
  <2> DEFINE l == [loc[c] EXCEPT !.to = Intended(c)]
  <2>1. l \in Locals /\ l.to = Intended(c)
    <3>1. Intended(c) \in Status
      BY DEF Intended
    <3> QED
      BY <3>1, LocType, LocalsType, KeepsTo
  <2>2. CASE HoldsClaim(c)
    <3>1. row'.status = Intended(c)
      BY <1>26, <2>2, RowType DEF Transition, Row
    <3> QED
      BY <1>26, <2>1, <2>2, <3>1, GotoWithDecides DEF Transition, HoldsClaim
  <2>3. CASE ~(HoldsClaim(c))
    BY <1>26, <2>3, GotoQuietly, ReplyQuietly DEF Transition, Proceeds
  <2> QED
    BY <2>2, <2>3
<1>27. CASE RecordEvent(c)
  <2>1. events' \in {events, events \cup {<<c, loc[c].to>>}} /\ row' = row
    BY <1>27 DEF RecordEvent
  <2>2. CASE Goto(c, "notify")
    BY <2>1, <2>2 DEF Records, Goto
  <2>3. CASE \E r : /\ r = loc[c].to \/ r \notin Terminal
                    /\ Reply(c, r)
    <3>1. Blank.to \notin Terminal
      BY DEF Blank
    <3>2. \A d \in Calls : loc'[d] = loc[d] \/ loc'[d].to \notin Terminal
      BY <2>3, <3>1 DEF Reply, TypeOK
    <3>3. \A d \in Calls : \/ reply'[d] = reply[d] \/ reply'[d] \notin Terminal
                           \/ d = c /\ reply'[d] = loc[c].to
      BY <2>3 DEF Reply, TypeOK
    <3> QED
      BY <2>1, <3>2, <3>3 DEF Records
  <2> QED
    BY <1>27, <2>2, <2>3 DEF RecordEvent
<1>28. CASE BeginSweep(c)
  <2>1. [Blank EXCEPT !.at = now] \in Locals /\ [Blank EXCEPT !.at = now].to \notin Terminal
    BY BlankType DEF Locals, TypeOK, Blank
  <2> QED
    BY <1>28, <2>1, GotoWithQuietly, ReplyQuietly DEF BeginSweep, Proceeds, world
<1>29. CASE SweepAccept(c)
  <2> DEFINE l == [loc[c] EXCEPT !.to = "accepted"]
  <2>1. l \in Locals /\ l.to = "accepted"
    BY LocType, LocalsType, KeepsTo
  <2>2. CASE IsPending /\ Unclaimed(loc[c].at)
    <3>1. row'.status = "accepted"
      BY <1>29, <2>2, RowType DEF SweepAccept, Row
    <3> QED
      BY <1>29, <2>1, <2>2, <3>1, GotoWithDecides DEF SweepAccept
  <2>3. CASE ~(IsPending /\ Unclaimed(loc[c].at))
    BY <1>29, <2>3, GotoQuietly, ReplyQuietly DEF SweepAccept, Proceeds
  <2> QED
    BY <2>2, <2>3
<1>30. CASE BeginRemove(c)
  <2>1. PICK f \in 1..nfriend :
           IF active = f
           THEN GotoWith(c, "commitRemoval",
                  [Blank EXCEPT !.friend = f, !.made = PendingUnder(f),
                                !.rem = row.requesterReminderId])
           ELSE GotoWith(c, "cancelNext", [Blank EXCEPT !.todo = LeftOver(f)])
    BY <1>30 DEF BeginRemove
  <2>2. f \in Friendships
    BY BoundsAssumption DEF TypeOK, Friendships
  <2> DEFINE l == [Blank EXCEPT !.friend = f, !.made = PendingUnder(f),
                                !.rem = row.requesterReminderId]
             m == [Blank EXCEPT !.todo = LeftOver(f)]
  <2>3. l \in Locals /\ l.to \notin Terminal
    BY <2>2, BlankType, RowType DEF Locals, PendingUnder, IsPending, Blank
  <2>4. m \in Locals /\ m.to \notin Terminal
    BY BlankType, RowType, ToCancelType DEF LeftOver, Locals, Blank
  <2> QED
    BY <1>30, <2>1, <2>3, <2>4, GotoWithQuietly DEF BeginRemove, Proceeds, world
<1>31. CASE CommitRemoval(c)
  <2> DEFINE hit == loc[c].made /\ IsPending
             todo == IF hit THEN ToCancel(loc[c].rem) \cup ToCancel(row.requesterReminderId)
                     ELSE LeftOver(loc[c].friend)
             l == [loc[c] EXCEPT !.made = FALSE, !.rem = None, !.todo = todo]
  <2>1. todo \in SUBSET Reminders
    BY RowType, LocType, ToCancelType DEF LeftOver
  <2>2. l \in Locals /\ l.to = loc[c].to
    BY <2>1, LocType DEF Locals
  <2>3. Quietly
    BY <1>31, <2>2, GotoWithQuietly DEF CommitRemoval
  <2>4. row.status \in Terminal => row'.status = row.status
    BY <1>31 DEF CommitRemoval, IsPending
  <2> QED
    BY <1>31, <2>3, <2>4 DEF CommitRemoval, Proceeds
<1>32. CASE CancelNext(c)
  <2>1. CASE Reply(c, "removed") \/ Reply(c, "error")
    BY <1>32, <2>1, ReplyQuietly DEF CancelNext, Proceeds
  <2>2. CASE \E r \in loc[c].todo : GotoWith(c, "markClean", [loc[c] EXCEPT !.rem = r])
    BY <1>32, <2>2, LocType, LocalsType, KeepsTo, GotoWithQuietly DEF CancelNext, Proceeds
  <2> QED
    BY <1>32, <2>1, <2>2 DEF CancelNext
<1>33. CASE MarkClean(c)
  <2> DEFINE l == [loc[c] EXCEPT !.rem = None, !.todo = loc[c].todo \ {loc[c].rem}]
  <2>1. l \in Locals /\ l.to = loc[c].to
    BY LocType DEF Locals
  <2>2. Quietly
    BY <1>33, <2>1, GotoWithQuietly DEF MarkClean
  <2> QED
    BY <1>33, <2>2, RowType, KeepsStatus DEF MarkClean, Proceeds
<1>34. CASE Crash(c)
  BY <1>34 DEF Crash, Proceeds, Quietly, Blank, TypeOK
<1> QED
  BY <1>1, <1>2, <1>3, <1>4, <1>5, <1>6, <1>7, <1>8, <1>9, <1>10, <1>11, <1>12,
     <1>13, <1>14, <1>15, <1>16, <1>17, <1>18, <1>19, <1>20, <1>21, <1>22, <1>23, <1>24,
     <1>25, <1>26, <1>27, <1>28, <1>29, <1>30, <1>31, <1>32, <1>33, <1>34
     DEF Begin, Step

LEMMA DecisionStep == TypeOK /\ DecisionAgrees /\ [Next]_vars => DecisionAgrees'
<1> SUFFICES ASSUME TypeOK, DecisionAgrees, [Next]_vars PROVE DecisionAgrees'
  OBVIOUS
<1>1. CASE \E c \in Calls : Begin(c) \/ Step(c) \/ Crash(c)
  BY <1>1, StepKinds, ProceedsKeeps, DecidesKeeps, RecordsKeeps
<1>2. CASE Befriend \/ Tick \/ UNCHANGED vars
  BY <1>2 DEF Befriend, Tick, vars, DecisionAgrees, Deciders, ReplyTruthful
<1> QED
  BY <1>1, <1>2 DEF Next

(* One call decides the request, and all that is noted, recorded or        *)
(* answered of the decision agrees with the row, in every reachable state. *)
THEOREM DecisionFinal == Spec => []DecisionAgrees
<1>1. Init => DecisionAgrees
  BY NotTerminal DEF Init, DecisionAgrees, Deciders, ReplyTruthful, Blank
<1> QED
  BY <1>1, DecisionStep, TypeCorrect, PTL DEF Spec

(* What a call answered about the decision stays true. *)
THEOREM AnswersTrue == Spec => []ReplyTruthful
<1>1. DecisionAgrees => ReplyTruthful
  BY DEF DecisionAgrees
<1> QED
  BY <1>1, DecisionFinal, PTL

(* The audit trail holds one decision at most, the one the row shows. *)
THEOREM AuditTrue == Spec => []AuditAgrees
<1>1. TypeOK /\ DecisionAgrees => AuditAgrees
  <2> SUFFICES ASSUME TypeOK, DecisionAgrees,
                      NEW e \in events, e[2] \in Terminal,
                      NEW f \in events, f[2] \in Terminal
               PROVE  e = f /\ e[2] = row.status
    BY DEF AuditAgrees
  <2>1. e \in Calls \X Status /\ f \in Calls \X Status
    BY DEF TypeOK
  <2>2. e[1] \in Deciders /\ f[1] \in Deciders
    BY <2>1 DEF Deciders
  <2>3. e[1] = f[1] /\ e[2] = row.status /\ f[2] = row.status
    BY <2>2 DEF DecisionAgrees
  <2> QED
    BY <2>1, <2>3
<1> QED
  BY <1>1, DecisionFinal, TypeCorrect, PTL

-----------------------------------------------------------------------------
(* A claim excludes *)

(* The statements at which a call works with its reading of the clock. *)
Clocked == {"findInvitee", "claim", "expire", "sweepAccept"}

(* No reading is ahead of the clock. *)
ClockRead ==
    \A c \in Calls : /\ loc[c].at \in Nat => loc[c].at <= now
                     /\ pc[c] \in Clocked => loc[c].at \in Nat

(* A call keeps its reading, drops it, or reads the clock. *)
KeepsClock ==
    /\ now' = now
    /\ \A d \in Calls :
         \/ /\ loc'[d].at = loc[d].at
            /\ pc'[d] \in Clocked => pc[d] \in Clocked
         \/ loc'[d].at = now
         \/ loc'[d].at = None /\ pc'[d] \notin Clocked

LEMMA GotoClock ==
    ASSUME TypeOK, NEW c \in Calls, NEW s, s \in Clocked => pc[c] \in Clocked,
           Goto(c, s), now' = now
    PROVE  KeepsClock
  BY DEF TypeOK, Goto, KeepsClock

LEMMA GotoWithClock ==
    ASSUME TypeOK, NEW c \in Calls, NEW s, NEW l \in Locals, GotoWith(c, s, l),
           now' = now,
           \/ l.at = loc[c].at /\ (s \in Clocked => pc[c] \in Clocked)
           \/ l.at = now
           \/ l.at = None /\ s \notin Clocked
    PROVE  KeepsClock
  BY DEF TypeOK, GotoWith, KeepsClock

LEMMA ReplyClock ==
    ASSUME TypeOK, NEW c \in Calls, NEW r, Reply(c, r), now' = now
    PROVE  KeepsClock
  BY DEF TypeOK, Reply, KeepsClock, Blank, Clocked

(* A change of other fields keeps the reading. *)
LEMMA KeepsAt ==
    ASSUME NEW l \in Locals
    PROVE  /\ [l EXCEPT !.own = TRUE].at = l.at
           /\ \A x \in Reminders \cup {None} : [l EXCEPT !.rem = x].at = l.at
           /\ \A x \in Reminders \cup {None} :
                [l EXCEPT !.rem = x, !.made = TRUE].at = l.at
           /\ \A x \in Reminders \cup {None}, t \in SUBSET Reminders :
                [l EXCEPT !.rem = x, !.todo = t].at = l.at
           /\ \A x \in Status : [l EXCEPT !.to = x].at = l.at
  BY DEF Locals

(* Every statement of a call deals with the clock as it should. *)
LEMMA ClockKinds ==
    ASSUME TypeOK, NEW c \in Calls, Begin(c) \/ Step(c) \/ Crash(c)
    PROVE  KeepsClock
<1> DEFINE Elsewhere == Statements \ Clocked
<1>0. /\ Elsewhere = {"insertRow", "findRequester", "setRequester", "cancelRow",
               "friendship", "invalidate", "createRuntime",
               "insertProjection", "findExisting", "cancelDuplicate",
               "cancelOwn", "finalize", "cleanupCancel", "cleanupDelete",
               "rollback", "event", "notify", "reconcile",
               "resolve", "cancelRequester", "transition",
               "commitRemoval", "cancelNext", "markClean"}
      /\ Elsewhere \cap Clocked = {}
  BY DEF Statements, Clocked
<1>1. CASE BeginCreate(c)
  <2>1. active # None => /\ [Blank EXCEPT !.friend = active] \in Locals
                         /\ [Blank EXCEPT !.friend = active].at = None
    BY BlankType, LocalsType DEF Blank, TypeOK
  <2> QED
    BY <1>1, <1>0, <2>1, GotoWithClock, ReplyClock DEF BeginCreate, world
<1>2. CASE BeginAnswer(c) \/ BeginSweep(c)
  <2> DEFINE l == [Blank EXCEPT !.at = now,
                       !.rem = IF c \in Accepts THEN None ELSE row.requesterReminderId]
  <2>1. l \in Locals /\ l.at = now
    BY BlankType, RowType DEF Locals, TypeOK, Blank
  <2>2. [Blank EXCEPT !.at = now] \in Locals /\ [Blank EXCEPT !.at = now].at = now
    BY BlankType DEF Locals, TypeOK, Blank
  <2> QED
    BY <1>2, <2>1, <2>2, GotoWithClock, ReplyClock DEF BeginAnswer, BeginSweep, world
<1>3. CASE BeginRemove(c)
  <2>1. PICK f \in 1..nfriend :
           IF active = f
           THEN GotoWith(c, "commitRemoval",
                  [Blank EXCEPT !.friend = f, !.made = PendingUnder(f),
                                !.rem = row.requesterReminderId])
           ELSE GotoWith(c, "cancelNext", [Blank EXCEPT !.todo = LeftOver(f)])
    BY <1>3 DEF BeginRemove
  <2>2. f \in Friendships
    BY BoundsAssumption DEF TypeOK, Friendships
  <2> DEFINE l == [Blank EXCEPT !.friend = f, !.made = PendingUnder(f),
                                !.rem = row.requesterReminderId]
             m == [Blank EXCEPT !.todo = LeftOver(f)]
  <2>3. l \in Locals /\ l.at = None
    BY <2>2, BlankType, RowType DEF Locals, PendingUnder, IsPending, Blank
  <2>4. m \in Locals /\ m.at = None
    BY BlankType, RowType, ToCancelType DEF LeftOver, Locals, Blank
  <2> HIDE DEF l, m
  <2> QED
    BY <1>3, <1>0, <2>1, <2>3, <2>4, GotoWithClock DEF BeginRemove, world, l, m
<1>4. CASE FindInvitee(c)
  <2> DEFINE l == [loc[c] EXCEPT !.rem = proj["invitee"]]
  <2>1. l \in Locals /\ l.at = loc[c].at
    BY LocType, LocalsType, KeepsAt, ProjType, RoleType
  <2>2. pc[c] \in Clocked
    BY <1>4 DEF FindInvitee, At, Clocked
  <2> QED
    BY <1>4, <2>1, <2>2, GotoClock, GotoWithClock DEF FindInvitee, world
<1>5. CASE \/ Notify(c) \/ CancelRow(c) \/ SetRequester(c)
           \/ CheckFriendship(c) \/ Invalidate(c) \/ CreateRuntime(c)
           \/ CancelDuplicate(c) \/ CancelOwn(c) \/ CleanupCancel(c)
           \/ CleanupDelete(c) \/ Claim(c) \/ RollbackClaim(c) \/ CancelRequester(c)
           \/ RecordEvent(c)
  <2>1. \/ \E s \in Elsewhere : Goto(c, s)
        \/ \E r : Reply(c, r)
    BY <1>5, <1>0
       DEF Notify, CancelRow, SetRequester, CheckFriendship, Invalidate, CreateRuntime,
           CancelDuplicate, CancelOwn, CleanupCancel, CleanupDelete, Claim,
           RollbackClaim, CancelRequester, RecordEvent, ProjectionFailed
  <2>2. now' = now
    BY <1>5
       DEF Notify, CancelRow, SetRequester, CheckFriendship, Invalidate, CreateRuntime,
           CancelDuplicate, CancelOwn, CleanupCancel, CleanupDelete, Claim,
           RollbackClaim, CancelRequester, RecordEvent, world
  <2> QED
    BY <1>0, <2>1, <2>2, GotoClock, ReplyClock
<1>6. CASE \/ InsertRow(c) \/ FindRequester(c) \/ FinalizeRequester(c)
           \/ InsertProjection(c) \/ FindExisting(c) \/ Reconcile(c) \/ Expire(c)
           \/ FinalizeAccept(c) \/ ResolveRequester(c) \/ Transition(c)
           \/ SweepAccept(c) \/ CancelNext(c)
  <2>1. \/ \E s \in Elsewhere : Goto(c, s)
        \/ \E r : Reply(c, r)
        \/ \E s \in Elsewhere, l \in Locals : l.at = loc[c].at /\ GotoWith(c, s, l)
    <3> DEFINE K(l) == l \in Locals /\ l.at = loc[c].at
    <3>1. /\ K([loc[c] EXCEPT !.own = TRUE])
          /\ \A x \in Reminders \cup {None} : K([loc[c] EXCEPT !.rem = x])
          /\ \A x \in Reminders \cup {None} : K([loc[c] EXCEPT !.rem = x, !.made = TRUE])
          /\ \A x \in Status : K([loc[c] EXCEPT !.to = x])
      BY LocType, LocalsType, KeepsAt
    <3>2. /\ proj["requester"] \in Reminders \cup {None}
          /\ proj[RoleOf(c)] \in Reminders \cup {None}
          /\ c \in Reminders \cup {None} /\ Intended(c) \in Status
      BY ProjType, RoleType, StatusType DEF Reminders, Intended
    <3>3. loc[c].todo \subseteq Reminders
      BY LocType
    <3> HIDE DEF K
    <3>4. CASE InsertRow(c) \/ FindRequester(c) \/ FinalizeRequester(c)
      BY <1>0, <3>1, <3>2, <3>4, StatusType
         DEF InsertRow, FindRequester, FinalizeRequester, K
    <3>5. CASE InsertProjection(c) \/ FindExisting(c)
      BY <1>0, <3>1, <3>2, <3>5
         DEF InsertProjection, FindExisting, ProjectionFailed, K
    <3>6. CASE Reconcile(c) \/ Expire(c) \/ FinalizeAccept(c)
      BY <1>0, <3>1, <3>2, <3>6, StatusType
         DEF Reconcile, Expire, FinalizeAccept, K
    <3>7. CASE ResolveRequester(c) \/ Transition(c) \/ SweepAccept(c)
      BY <1>0, <3>1, <3>2, <3>7, StatusType
         DEF ResolveRequester, Transition, SweepAccept, K
    <3>8. CASE CancelNext(c)
      BY <1>0, <3>1, <3>3, <3>8 DEF CancelNext, K
    <3> QED
      BY <1>6, <3>4, <3>5, <3>6, <3>7, <3>8
  <2>2. now' = now
    BY <1>6
       DEF InsertRow, FindRequester, FinalizeRequester, InsertProjection, FindExisting,
           Reconcile, Expire, FinalizeAccept, ResolveRequester, Transition,
           SweepAccept, CancelNext, world
  <2> HIDE DEF Elsewhere
  <2> QED
    BY <1>0, <2>1, <2>2, GotoClock, GotoWithClock, ReplyClock
<1>7. CASE CommitRemoval(c)
  <2>1. \A t \in SUBSET Reminders :
          /\ [loc[c] EXCEPT !.made = FALSE, !.rem = None, !.todo = t] \in Locals
          /\ [loc[c] EXCEPT !.made = FALSE, !.rem = None, !.todo = t].at = loc[c].at
    BY LocType DEF Locals
  <2>2. /\ ToCancel(loc[c].rem) \cup ToCancel(row.requesterReminderId) \in SUBSET Reminders
        /\ LeftOver(loc[c].friend) \in SUBSET Reminders
    BY RowType, LocType, ToCancelType DEF LeftOver
  <2>3. PICK t \in SUBSET Reminders :
          GotoWith(c, "cancelNext",
                   [loc[c] EXCEPT !.made = FALSE, !.rem = None, !.todo = t])
    BY <1>7, <2>2 DEF CommitRemoval
  <2>4. now' = now
    BY <1>7 DEF CommitRemoval
  <2> QED
    BY <1>0, <2>1, <2>3, <2>4, GotoWithClock
<1>8. CASE MarkClean(c)
  <2> DEFINE l == [loc[c] EXCEPT !.rem = None, !.todo = loc[c].todo \ {loc[c].rem}]
  <2>1. l \in Locals /\ l.at = loc[c].at
    BY LocType DEF Locals
  <2> QED
    BY <1>8, <1>0, <2>1, GotoWithClock DEF MarkClean
<1>9. CASE Crash(c)
  BY <1>9 DEF Crash, KeepsClock, Blank, TypeOK, Clocked
<1> QED
  BY <1>1, <1>2, <1>3, <1>4, <1>5, <1>6, <1>7, <1>8, <1>9 DEF Begin, Step

LEMMA ClockStep == TypeOK /\ ClockRead /\ [Next]_vars => ClockRead'
<1> SUFFICES ASSUME TypeOK, ClockRead, [Next]_vars PROVE ClockRead'
  OBVIOUS
<1>1. CASE \E c \in Calls : Begin(c) \/ Step(c) \/ Crash(c)
  <2>1. KeepsClock
    BY <1>1, ClockKinds
  <2> QED
    BY <2>1, NoneAssumption DEF KeepsClock, ClockRead, TypeOK
<1>2. CASE Tick
  BY <1>2, LocType DEF Tick, ClockRead, TypeOK
<1>3. CASE Befriend \/ UNCHANGED vars
  BY <1>3 DEF Befriend, vars, ClockRead
<1> QED
  BY <1>1, <1>2, <1>3 DEF Next

(* While a claim is young only its holder's release, or a decision other     *)
(* than expiry, touches it.                                                *)
LEMMA ClaimStep ==
    ASSUME TypeOK, ClockRead, [Next]_vars,
           IsPending, row.resolvedAt # None, now <= row.resolvedAt + StaleAfter
    PROVE  /\ row'.status # "expired"
           /\ row'.status = Pending => row'.resolvedAt \in {row.resolvedAt, None}
<1>0. row \in Row /\ row.resolvedAt \in Nat /\ now \in Nat /\ StaleAfter \in Nat
  BY RowType, BoundsAssumption DEF TypeOK
<1>1. row.status = Pending /\ Pending # "expired"
  BY DEF IsPending, Pending
<1>2. CASE row' = row
  BY <1>1, <1>2
<1>3. ASSUME NEW c \in Calls, Expire(c) \/ Claim(c) \/ SweepAccept(c)
      PROVE  row' = row
  <2>1. loc[c].at \in Nat /\ loc[c].at <= now
    BY <1>3 DEF ClockRead, Clocked, Expire, Claim, SweepAccept, At
  <2>2. ~Unclaimed(loc[c].at)
    BY <1>0, <2>1 DEF Unclaimed
  <2> QED
    BY <1>3, <2>2 DEF Expire, Claim, SweepAccept
<1>4. ASSUME NEW c \in Calls,
             \/ CancelRow(c) \/ Invalidate(c) \/ Reconcile(c) \/ FinalizeAccept(c)
             \/ Transition(c) \/ CommitRemoval(c)
      PROVE  row' = row \/ row'.status \in Terminal \ {"expired"}
  <2>1. Intended(c) \in Terminal \ {"expired"}
    BY DEF Intended, Terminal
  <2> QED
    BY <1>0, <1>4, <2>1
       DEF CancelRow, Invalidate, Reconcile, FinalizeAccept, Transition, CommitRemoval,
           Row, Terminal
<1>5. ASSUME NEW c \in Calls,
             SetRequester(c) \/ FinalizeRequester(c) \/ RollbackClaim(c) \/ MarkClean(c)
      PROVE  row'.status = row.status /\ row'.resolvedAt \in {row.resolvedAt, None}
  BY <1>0, <1>1, <1>5
     DEF SetRequester, FinalizeRequester, RollbackClaim, MarkClean, Row
<1>6. ASSUME NEW c \in Calls, InsertRow(c) PROVE row' = row
  BY <1>1, <1>6 DEF InsertRow, Pending
<1>7. ASSUME NEW c \in Calls,
             \/ Begin(c) \/ Crash(c) \/ FindRequester(c) \/ Notify(c)
             \/ CheckFriendship(c) \/ CreateRuntime(c) \/ InsertProjection(c)
             \/ FindExisting(c) \/ CancelDuplicate(c) \/ CancelOwn(c)
             \/ CleanupCancel(c) \/ CleanupDelete(c) \/ FindInvitee(c)
             \/ ResolveRequester(c) \/ CancelRequester(c) \/ RecordEvent(c)
             \/ CancelNext(c)
      PROVE  row' = row
  BY <1>7
     DEF Begin, BeginCreate, BeginAnswer, BeginSweep, BeginRemove, Crash,
         FindRequester, Notify, CheckFriendship, CreateRuntime, InsertProjection,
         FindExisting, CancelDuplicate, CancelOwn, CleanupCancel, CleanupDelete,
         FindInvitee, ResolveRequester, CancelRequester, RecordEvent, CancelNext, world
<1>8. Pending \notin Terminal
  BY NotTerminal
<1>9. CASE Befriend \/ Tick \/ UNCHANGED vars
  BY <1>2, <1>9 DEF Befriend, Tick, vars
<1> QED
  BY <1>1, <1>2, <1>3, <1>4, <1>5, <1>6, <1>7, <1>8, <1>9 DEF Next, Step

(* A claim excludes for STALE_PENDING_CLAIM_MS, however old the clock         *)
(* reading the other call works with.                                      *)
THEOREM ClaimHolds == Spec => ClaimExcludes
<1>1. Init => ClockRead
  BY NoneAssumption DEF Init, ClockRead, Blank, Clocked
<1>2. Spec => []ClockRead
  BY <1>1, ClockStep, TypeCorrect, PTL DEF Spec
<1> QED
  BY <1>2, ClaimStep, TypeCorrect, PTL DEF Spec, ClaimExcludes
-----------------------------------------------------------------------------
(* A call moves alone *)

Others(c) == \A d \in Calls \ {c} :
    pc'[d] = pc[d] /\ loc'[d] = loc[d] /\ reply'[d] = reply[d]

LEMMA GotoAt ==
    ASSUME TypeOK, NEW c \in Calls, NEW s, Goto(c, s)
    PROVE  pc'[c] = s /\ loc'[c] = loc[c] /\ reply'[c] = reply[c] /\ Others(c)
  BY DEF TypeOK, Goto, Others

LEMMA GotoWithAt ==
    ASSUME TypeOK, NEW c \in Calls, NEW s, NEW l, GotoWith(c, s, l)
    PROVE  pc'[c] = s /\ loc'[c] = l /\ reply'[c] = reply[c] /\ Others(c)
  BY DEF TypeOK, GotoWith, Others

LEMMA ReplyAt ==
    ASSUME TypeOK, NEW c \in Calls, NEW r, Reply(c, r)
    PROVE  pc'[c] = "done" /\ loc'[c] = Blank /\ reply'[c] = r /\ Others(c)
  BY DEF TypeOK, Reply, Others

(* A call that has ended holds nothing. *)
LEMMA BlankFields ==
    /\ Blank.todo = {} /\ Blank.rem = None /\ Blank.made = FALSE
    /\ Blank.at = None /\ Blank.friend = None
  BY DEF Blank

(* Every statement moves its own call only. *)
LEMMA MovesAlone ==
    ASSUME TypeOK, NEW c \in Calls, Begin(c) \/ Step(c) \/ Crash(c)
    PROVE  Others(c)
<1>1. CASE Begin(c)
  BY <1>1, GotoWithAt, ReplyAt
     DEF Begin, BeginCreate, BeginAnswer, BeginSweep, BeginRemove
<1>2. CASE \/ InsertRow(c) \/ FindRequester(c) \/ SetRequester(c) \/ CancelRow(c)
           \/ FinalizeRequester(c) \/ Notify(c) \/ CheckFriendship(c) \/ Invalidate(c)
           \/ CreateRuntime(c) \/ InsertProjection(c) \/ FindExisting(c)
           \/ CancelDuplicate(c) \/ CancelOwn(c)
  BY <1>2, GotoAt, GotoWithAt, ReplyAt
     DEF InsertRow, FindRequester, SetRequester, CancelRow, FinalizeRequester, Notify,
         CheckFriendship, Invalidate, CreateRuntime, InsertProjection, FindExisting,
         CancelDuplicate, CancelOwn, ProjectionFailed
<1>3. CASE \/ CleanupCancel(c) \/ CleanupDelete(c) \/ FindInvitee(c) \/ Reconcile(c)
           \/ Expire(c) \/ Claim(c) \/ RollbackClaim(c) \/ FinalizeAccept(c)
           \/ ResolveRequester(c) \/ CancelRequester(c) \/ Transition(c)
           \/ RecordEvent(c) \/ SweepAccept(c) \/ CommitRemoval(c) \/ CancelNext(c)
           \/ MarkClean(c)
  BY <1>3, GotoAt, GotoWithAt, ReplyAt
     DEF CleanupCancel, CleanupDelete, FindInvitee, Reconcile, Expire, Claim,
         RollbackClaim, FinalizeAccept, ResolveRequester, CancelRequester, Transition,
         RecordEvent, SweepAccept, CommitRemoval, CancelNext, MarkClean
<1>4. CASE Crash(c)
  BY <1>4 DEF Crash, Others
<1> QED
  BY <1>1, <1>2, <1>3, <1>4 DEF Step

-----------------------------------------------------------------------------
(* No orphans *)

(* Between the runtime's reminder and its projection, and after that: from  *)
(* here no call comes back to create a reminder.                           *)
Making == {"insertProjection", "findExisting", "cancelDuplicate", "cancelOwn"}
Past == Making \cup {"finalize", "cleanupCancel", "cleanupDelete", "cancelRow",
                     "rollback", "event", "notify", "done"}

(* Only a create or an accept makes a reminder. *)
MakersOnly == \A c \in Calls :
    pc[c] \in Making \cup {"createRuntime"} => c \in Creates \cup Accepts

(* Whatever row or call names a reminder, the call that makes it is past    *)
(* its making: the runtime will not see it again.                          *)
Made == {c \in Calls : pc[c] \in Past}
NamesMade ==
    /\ \A q \in Roles : proj[q] \in Made \cup {None}
    /\ row.requesterReminderId \in Made \cup {None}
    /\ \A c \in Calls : loc[c].rem \in Made \cup {None} /\ loc[c].todo \subseteq Made

(* While nothing fails: an active reminder is in the making or has its      *)
(* projection; where a projection is deleted its reminder was cancelled;   *)
(* and whoever made an invitee's projection finalizes it or takes it back. *)
LiveNamed == \A c \in Calls :
    c \in live => pc[c] \in Making \/ proj[RoleOf(c)] = c
CancelledFirst == \A c \in Calls :
    /\ pc[c] = "cleanupDelete" => c \notin live
    /\ pc[c] = "markClean" => loc[c].rem \notin live
Answering(a) ==
    /\ a \in Accepts
    /\ \/ pc[a] = "finalize" /\ loc[a].made
       \/ pc[a] \in {"cleanupCancel", "cleanupDelete"}
InviteeAnswers ==
    proj["invitee"] # None => row.status = "accepted" \/ Answering(proj["invitee"])

Tidy == faults = 0 => LiveNamed /\ CancelledFirst /\ InviteeAnswers

(* The steps, by what they do to a call's place. *)
LEMMA PastStep ==
    ASSUME TypeOK, NEW c \in Calls, Begin(c) \/ Step(c) \/ Crash(c), pc[c] \in Past
    PROVE  pc'[c] \in Past
<1>1. CASE \/ InsertProjection(c) \/ FindExisting(c) \/ CancelDuplicate(c)
           \/ CancelOwn(c)
  BY <1>1, GotoAt, GotoWithAt, ReplyAt
     DEF InsertProjection, FindExisting, CancelDuplicate, CancelOwn, ProjectionFailed,
         Past, Making
<1>2. CASE \/ FinalizeRequester(c) \/ FinalizeAccept(c) \/ CleanupCancel(c)
           \/ CleanupDelete(c) \/ CancelRow(c) \/ RollbackClaim(c) \/ RecordEvent(c)
           \/ Notify(c)
  BY <1>2, GotoAt, GotoWithAt, ReplyAt
     DEF FinalizeRequester, FinalizeAccept, CleanupCancel, CleanupDelete, CancelRow,
         RollbackClaim, RecordEvent, Notify, Past
<1>3. CASE Crash(c)
  BY <1>3 DEF Crash, TypeOK, Past
<1>4. /\ ~Begin(c) /\ ~InsertRow(c) /\ ~FindRequester(c) /\ ~SetRequester(c)
      /\ ~CheckFriendship(c) /\ ~Invalidate(c) /\ ~CreateRuntime(c)
      /\ ~FindInvitee(c) /\ ~Reconcile(c) /\ ~Expire(c) /\ ~Claim(c)
      /\ ~ResolveRequester(c) /\ ~CancelRequester(c) /\ ~Transition(c)
      /\ ~SweepAccept(c) /\ ~CommitRemoval(c) /\ ~CancelNext(c) /\ ~MarkClean(c)
  BY DEF Begin, BeginCreate, BeginAnswer, BeginSweep, BeginRemove, InsertRow,
         FindRequester, SetRequester, CheckFriendship, Invalidate, CreateRuntime,
         FindInvitee, Reconcile, Expire, Claim, ResolveRequester, CancelRequester,
         Transition, SweepAccept, CommitRemoval, CancelNext, MarkClean, At, Past, Making
<1> QED
  BY <1>1, <1>2, <1>3, <1>4 DEF Step

LEMMA MadeGrows ==
    ASSUME TypeOK, NEW c \in Calls, Begin(c) \/ Step(c) \/ Crash(c)
    PROVE  Made \subseteq Made'
  BY PastStep, MovesAlone DEF Made, Others

LEMMA MakersStep ==
    ASSUME TypeOK, MakersOnly, NEW c \in Calls, Begin(c) \/ Step(c) \/ Crash(c)
    PROVE  MakersOnly'
<1> DEFINE M == Making \cup {"createRuntime"}
<1>1. CASE \/ CreateRuntime(c) \/ InsertProjection(c) \/ FindExisting(c)
           \/ CancelDuplicate(c) \/ CancelOwn(c)
  <2>1. pc[c] \in M
    BY <1>1 DEF CreateRuntime, InsertProjection, FindExisting, CancelDuplicate,
                CancelOwn, At, Making
  <2> QED
    BY <2>1, MovesAlone DEF MakersOnly, Others
<1>2. CASE CheckFriendship(c)
  <2>1. pc'[c] \in M => c \in Creates \cup Accepts
    BY <1>2, GotoAt DEF CheckFriendship, Making
  <2> QED
    BY <2>1, MovesAlone DEF MakersOnly, Others
<1>3. ASSUME pc'[c] \notin M PROVE MakersOnly'
  BY <1>3, MovesAlone DEF MakersOnly, Others
<1>4. CASE Begin(c)
  <2>1. \/ \E r : Reply(c, r)
        \/ \E s \in {"insertRow", "findInvitee", "commitRemoval", "cancelNext"} : \E l :
             GotoWith(c, s, l)
    BY <1>4 DEF Begin, BeginCreate, BeginAnswer, BeginSweep, BeginRemove
  <2>2. pc'[c] \notin M
    BY <2>1, GotoWithAt, ReplyAt DEF Making
  <2> QED
    BY <1>3, <2>2
<1>5. CASE \/ InsertRow(c) \/ FindRequester(c) \/ SetRequester(c)
           \/ CancelRow(c) \/ FinalizeRequester(c) \/ Notify(c) \/ Invalidate(c)
           \/ CleanupCancel(c) \/ CleanupDelete(c)
  <2>1. pc'[c] \notin M
    BY <1>5, GotoAt, GotoWithAt, ReplyAt
       DEF InsertRow, FindRequester, SetRequester, CancelRow, FinalizeRequester, Notify,
           Invalidate, CleanupCancel, CleanupDelete, Making
  <2> QED
    BY <1>3, <2>1
<1>6. CASE \/ FindInvitee(c) \/ Reconcile(c) \/ Expire(c) \/ Claim(c)
           \/ RollbackClaim(c) \/ FinalizeAccept(c)
  <2>1. pc'[c] \notin M
    BY <1>6, GotoAt, GotoWithAt, ReplyAt
       DEF FindInvitee, Reconcile, Expire, Claim, RollbackClaim, FinalizeAccept, Making
  <2> QED
    BY <1>3, <2>1
<1>7. CASE \/ ResolveRequester(c) \/ CancelRequester(c) \/ Transition(c)
           \/ RecordEvent(c) \/ SweepAccept(c)
  <2>1. pc'[c] \notin M
    BY <1>7, GotoAt, GotoWithAt, ReplyAt
       DEF ResolveRequester, CancelRequester, Transition, RecordEvent, SweepAccept,
           Making
  <2> QED
    BY <1>3, <2>1
<1>8. CASE CommitRemoval(c) \/ CancelNext(c) \/ MarkClean(c) \/ Crash(c)
  <2>1. \/ \E r : Reply(c, r)
        \/ \E s \in {"markClean", "cancelNext"} : \E l : GotoWith(c, s, l)
        \/ pc'[c] = "done"
    BY <1>8 DEF CommitRemoval, CancelNext, MarkClean, Crash, TypeOK
  <2>2. pc'[c] \notin M
    BY <2>1, GotoWithAt, ReplyAt DEF Making
  <2> QED
    BY <1>3, <2>2
<1> QED
  BY <1>1, <1>2, <1>4, <1>5, <1>6, <1>7, <1>8 DEF Step

(* What a step writes into the projections: nothing, null, or the call      *)
(* itself once it is past its making.                                      *)
LEMMA ProjNames ==
    ASSUME TypeOK, NEW c \in Calls, Begin(c) \/ Step(c) \/ Crash(c), NEW q \in Roles
    PROVE  proj'[q] \in {proj[q], None} \/ (proj'[q] = c /\ pc'[c] \in Past)
<1>1. CASE InsertProjection(c)
  BY <1>1, GotoAt, GotoWithAt, RoleType DEF InsertProjection, Past, Making, TypeOK
<1>2. CASE CleanupDelete(c) \/ MarkClean(c)
  BY <1>2, RoleType DEF CleanupDelete, MarkClean, TypeOK
<1>3. CASE UNCHANGED proj
  BY <1>3
<1>4. InsertProjection(c) \/ CleanupDelete(c) \/ MarkClean(c) \/ UNCHANGED proj
  BY DEF Begin, BeginCreate, BeginAnswer, BeginSweep, BeginRemove, Crash, Step,
         InsertRow, FindRequester, SetRequester, CancelRow, FinalizeRequester, Notify,
         CheckFriendship, Invalidate, CreateRuntime, FindExisting, CancelDuplicate,
         CancelOwn, CleanupCancel, FindInvitee, Reconcile, Expire, Claim,
         RollbackClaim, FinalizeAccept, ResolveRequester, CancelRequester, Transition,
         RecordEvent, SweepAccept, CommitRemoval, CancelNext, world
<1> QED
  BY <1>1, <1>2, <1>3, <1>4

(* The row names the reminder the call works with, or what it named. *)
LEMMA RowNames ==
    ASSUME TypeOK, NEW c \in Calls, Begin(c) \/ Step(c) \/ Crash(c)
    PROVE  row'.requesterReminderId \in {row.requesterReminderId, None, loc[c].rem}
<1>0. row \in Row
  BY RowType
<1>1. CASE \/ SetRequester(c) \/ FinalizeRequester(c) \/ MarkClean(c) \/ InsertRow(c)
  BY <1>0, <1>1 DEF SetRequester, FinalizeRequester, MarkClean, InsertRow, Row, NoRow
<1>2. CASE \/ CancelRow(c) \/ Invalidate(c) \/ Reconcile(c) \/ Expire(c) \/ Claim(c)
           \/ RollbackClaim(c) \/ FinalizeAccept(c) \/ Transition(c) \/ SweepAccept(c)
           \/ CommitRemoval(c)
  BY <1>0, <1>2 DEF CancelRow, Invalidate, Reconcile, Expire, Claim, RollbackClaim,
                    FinalizeAccept, Transition, SweepAccept, CommitRemoval, Row
<1>3. CASE \/ Begin(c) \/ FindRequester(c) \/ Notify(c) \/ CheckFriendship(c)
           \/ CreateRuntime(c) \/ InsertProjection(c) \/ FindExisting(c)
           \/ CancelDuplicate(c) \/ CancelOwn(c) \/ CleanupCancel(c)
           \/ CleanupDelete(c) \/ FindInvitee(c) \/ ResolveRequester(c)
           \/ CancelRequester(c) \/ RecordEvent(c) \/ CancelNext(c) \/ Crash(c)
  <2>1. row' = row
    BY <1>3
     DEF Begin, BeginCreate, BeginAnswer, BeginSweep, BeginRemove, Crash,
         FindRequester, Notify, CheckFriendship, CreateRuntime, InsertProjection,
         FindExisting, CancelDuplicate, CancelOwn, CleanupCancel, CleanupDelete,
         FindInvitee, ResolveRequester, CancelRequester, RecordEvent, CancelNext, world
  <2> QED
    BY <2>1
<1> QED
  BY <1>1, <1>2, <1>3 DEF Step

(* What a call may hold after a step, besides its own reminder: one it held, *)
(* or one the row or a projection names.                                   *)
Named(c) == {None, loc[c].rem, row.requesterReminderId, proj["requester"],
             proj["invitee"]} \cup loc[c].todo

LEMMA LocNames ==
    ASSUME TypeOK, NEW c \in Calls, Begin(c) \/ Step(c) \/ Crash(c)
    PROVE  /\ loc'[c].rem \in Named(c) \/ (loc'[c].rem = c /\ pc'[c] \in Past)
           /\ loc'[c].todo \subseteq Named(c) \ {None}
<1> DEFINE K == {l \in Locals : l.rem \in Named(c) /\ l.todo \subseteq Named(c) \ {None}}
<1>0. /\ loc[c] \in Locals /\ c \in Reminders
      /\ loc[c].todo \subseteq Reminders /\ None \notin Reminders
      /\ proj["requester"] \in Reminders \cup {None}
      /\ proj["invitee"] \in Reminders \cup {None}
      /\ proj[RoleOf(c)] \in {proj["requester"], proj["invitee"]}
      /\ row.requesterReminderId \in Reminders \cup {None}
  BY LocType, ProjType, RoleType, RowType, NoneAssumption DEF Reminders, RoleOf
<1>1. /\ loc[c] \in K /\ Blank \in K /\ [loc[c] EXCEPT !.own = TRUE] \in K
      /\ \A x \in Status : [loc[c] EXCEPT !.to = x] \in K
      /\ \A x \in Named(c) \cap (Reminders \cup {None}) : [loc[c] EXCEPT !.rem = x] \in K
  <2>1. loc[c].rem \in Named(c) /\ loc[c].todo \subseteq Named(c) \ {None} /\ None \in Named(c)
    BY <1>0 DEF Named
  <2>2. loc[c] \in K /\ Blank \in K
    BY <1>0, <2>1, BlankFields, BlankType
  <2>3. [loc[c] EXCEPT !.own = TRUE] \in K
    BY <1>0, <2>1 DEF Locals
  <2>4. \A x \in Status : [loc[c] EXCEPT !.to = x] \in K
    BY <1>0, <2>1 DEF Locals
  <2>5. \A x \in Named(c) \cap (Reminders \cup {None}) : [loc[c] EXCEPT !.rem = x] \in K
    BY <1>0, <2>1 DEF Locals
  <2> QED
    BY <2>2, <2>3, <2>4, <2>5
<1>2. /\ {None, loc[c].rem, row.requesterReminderId, proj["requester"],
           proj["invitee"]} \cup loc[c].todo \subseteq Named(c) \cap (Reminders \cup {None})
      /\ proj[RoleOf(c)] \in Named(c) \cap (Reminders \cup {None})
  BY <1>0, LocType DEF Named
<1>3. Intended(c) \in Status
  BY StatusType DEF Intended
<1>4. ASSUME Begin(c)
      PROVE  loc'[c] \in K
  <2>1. ASSUME NEW f \in Friendships
        PROVE  /\ [Blank EXCEPT !.friend = f] \in K
               /\ [Blank EXCEPT !.friend = f, !.made = PendingUnder(f),
                                  !.rem = row.requesterReminderId] \in K
               /\ [Blank EXCEPT !.todo = LeftOver(f)] \in K
    <3>1. LeftOver(f) \subseteq Named(c) \ {None}
      BY <1>2 DEF LeftOver, ToCancel
    <3>2. row.requesterReminderId \in Reminders \cup {None}
      BY RowType
    <3>3. LeftOver(f) \subseteq Reminders
      BY <3>2, ToCancelType DEF LeftOver
    <3>4. PendingUnder(f) \in BOOLEAN
      BY DEF PendingUnder, IsPending
    <3> QED
      BY <1>2, <3>1, <3>2, <3>3, <3>4, BlankType DEF Blank, Locals
  <2>2. /\ [Blank EXCEPT !.at = now] \in K
        /\ [Blank EXCEPT !.at = now, !.rem = IF c \in Accepts THEN None
                                               ELSE row.requesterReminderId] \in K
    BY <1>0, <1>2, BlankType DEF Blank, Locals, TypeOK
  <2>3. 1..nfriend \subseteq Friendships /\ (active # None => active \in Friendships)
    BY BoundsAssumption DEF TypeOK, Friendships
  <2> HIDE DEF K
  <2>4. CASE BeginCreate(c)
    <3>1. active # None => [Blank EXCEPT !.friend = active] \in K
      BY <2>1, <2>3
    <3> QED
      BY <1>1, <2>4, <3>1, GotoWithAt, ReplyAt DEF BeginCreate
  <2>5. CASE BeginAnswer(c) \/ BeginSweep(c)
    BY <1>1, <2>2, <2>5, GotoWithAt, ReplyAt DEF BeginAnswer, BeginSweep
  <2>6. CASE BeginRemove(c)
    <3>1. PICK f \in 1..nfriend :
             IF active = f
             THEN GotoWith(c, "commitRemoval",
                    [Blank EXCEPT !.friend = f, !.made = PendingUnder(f),
                                  !.rem = row.requesterReminderId])
             ELSE GotoWith(c, "cancelNext", [Blank EXCEPT !.todo = LeftOver(f)])
      BY <2>6 DEF BeginRemove
    <3>2. f \in Friendships
      BY <2>3
    <3> DEFINE l == [Blank EXCEPT !.friend = f, !.made = PendingUnder(f),
                                  !.rem = row.requesterReminderId]
    <3>3. CASE GotoWith(c, "commitRemoval", l)
      <4>1. l \in K
        BY <2>1, <3>2
      <4> HIDE DEF l
      <4> QED
        BY <3>3, <4>1, GotoWithAt
    <3>4. CASE GotoWith(c, "cancelNext", [Blank EXCEPT !.todo = LeftOver(f)])
      BY <2>1, <3>2, <3>4, GotoWithAt
    <3> QED
      BY <3>1, <3>3, <3>4
  <2> QED
    BY <1>4, <2>4, <2>5, <2>6 DEF Begin
<1>5. CASE InsertProjection(c)
  <2>1. /\ [loc[c] EXCEPT !.rem = c, !.made = TRUE].rem = c
        /\ [loc[c] EXCEPT !.rem = c, !.made = TRUE].todo = loc[c].todo
    BY <1>0 DEF Locals
  <2>2. loc[c].todo \subseteq Named(c) \ {None}
    BY <1>1
  <2> DEFINE l == [loc[c] EXCEPT !.rem = c, !.made = TRUE]
  <2>3. CASE GotoWith(c, "finalize", l)
    <3>1. pc'[c] \in Past
      BY <2>3, GotoWithAt DEF Past
    <3>2. loc'[c].rem = c /\ loc'[c].todo = loc[c].todo
      <4>1. l.rem = c /\ l.todo = loc[c].todo
        BY <2>1
      <4> HIDE DEF l
      <4> QED
        BY <2>3, <4>1, GotoWithAt
    <3> QED
      BY <2>2, <3>1, <3>2
  <2>4. CASE loc'[c] = loc[c]
    BY <1>1, <2>4
  <2> QED
    BY <1>5, <2>3, <2>4, GotoAt DEF InsertProjection
<1>6. ASSUME CommitRemoval(c)
      PROVE  loc'[c] \in K
  <2>1. PICK t \in SUBSET Reminders :
          /\ t \subseteq Named(c) \ {None}
          /\ GotoWith(c, "cancelNext",
                      [loc[c] EXCEPT !.made = FALSE, !.rem = None, !.todo = t])
    <3>1. /\ ToCancel(loc[c].rem) \cup ToCancel(row.requesterReminderId)
               \in SUBSET Reminders
          /\ LeftOver(loc[c].friend) \in SUBSET Reminders
      BY RowType, LocType, ToCancelType DEF LeftOver
    <3>2. /\ ToCancel(loc[c].rem) \cup ToCancel(row.requesterReminderId)
               \subseteq Named(c) \ {None}
          /\ LeftOver(loc[c].friend) \subseteq Named(c) \ {None}
      BY <1>2 DEF LeftOver, ToCancel
    <3> QED
      BY <1>6, <3>1, <3>2 DEF CommitRemoval
  <2>2. [loc[c] EXCEPT !.made = FALSE, !.rem = None, !.todo = t] \in K
    BY <1>0, <1>2, <2>1 DEF Locals
  <2> HIDE DEF K
  <2> QED
    BY <2>1, <2>2, GotoWithAt
<1>7. ASSUME MarkClean(c)
      PROVE  loc'[c] \in K
  <2>1. [loc[c] EXCEPT !.rem = None, !.todo = loc[c].todo \ {loc[c].rem}] \in K
    BY <1>0, <1>2 DEF Locals
  <2> HIDE DEF K
  <2> QED
    BY <1>7, <2>1, GotoWithAt DEF MarkClean
<1>8. ASSUME \/ InsertRow(c) \/ FindRequester(c) \/ FinalizeRequester(c)
             \/ FindExisting(c) \/ FindInvitee(c) \/ Reconcile(c) \/ Expire(c)
             \/ FinalizeAccept(c) \/ ResolveRequester(c) \/ Transition(c)
             \/ SweepAccept(c) \/ CancelNext(c)
      PROVE  loc'[c] \in K
  <2> HIDE DEF K
  <2>1. CASE InsertRow(c) \/ FindRequester(c) \/ FinalizeRequester(c)
    BY <1>1, <1>2, <2>1, StatusType, GotoAt, GotoWithAt, ReplyAt
       DEF InsertRow, FindRequester, FinalizeRequester
  <2>2. CASE FindExisting(c) \/ FindInvitee(c)
    BY <1>1, <1>2, <2>2, GotoAt, GotoWithAt, ReplyAt
       DEF FindExisting, FindInvitee, ProjectionFailed
  <2>3. CASE Reconcile(c) \/ Expire(c) \/ FinalizeAccept(c)
    BY <1>1, <2>3, StatusType, GotoAt, GotoWithAt, ReplyAt
       DEF Reconcile, Expire, FinalizeAccept
  <2>4. CASE ResolveRequester(c) \/ Transition(c) \/ SweepAccept(c)
    BY <1>1, <1>2, <1>3, <2>4, StatusType, GotoAt, GotoWithAt, ReplyAt
       DEF ResolveRequester, Transition, SweepAccept
  <2>5. CASE CancelNext(c)
    <3>1. \A r \in loc[c].todo : [loc[c] EXCEPT !.rem = r] \in K
      BY <1>1, <1>2
    <3>2. \/ \E x : Reply(c, x)
          \/ \E r \in loc[c].todo : GotoWith(c, "markClean", [loc[c] EXCEPT !.rem = r])
      BY <2>5 DEF CancelNext
    <3>3. CASE \E x : Reply(c, x)
      BY <1>1, <3>3, ReplyAt
    <3>4. ASSUME NEW r \in loc[c].todo, GotoWith(c, "markClean", [loc[c] EXCEPT !.rem = r])
          PROVE  loc'[c] \in K
      BY <3>1, <3>4, GotoWithAt
    <3> QED
      BY <3>2, <3>3, <3>4
  <2> QED
    BY <1>8, <2>1, <2>2, <2>3, <2>4, <2>5
<1>9. ASSUME \/ SetRequester(c) \/ CancelRow(c) \/ Notify(c) \/ CheckFriendship(c)
             \/ Invalidate(c) \/ CreateRuntime(c) \/ CancelDuplicate(c) \/ CancelOwn(c)
             \/ CleanupCancel(c) \/ CleanupDelete(c) \/ Claim(c) \/ RollbackClaim(c)
             \/ CancelRequester(c) \/ RecordEvent(c)
      PROVE  loc'[c] \in K
  <2>1. loc'[c] \in {loc[c], Blank}
    BY <1>9, GotoAt, ReplyAt
       DEF SetRequester, CancelRow, Notify, CheckFriendship, Invalidate, CreateRuntime,
           CancelDuplicate, CancelOwn, CleanupCancel, CleanupDelete, Claim,
           RollbackClaim, CancelRequester, RecordEvent, ProjectionFailed
  <2> QED
    BY <1>1, <2>1
<1>10. ASSUME Crash(c)
       PROVE  loc'[c] \in K
  <2>1. loc'[c] = Blank
    BY <1>10 DEF Crash, TypeOK
  <2> QED
    BY <1>1, <2>1
<1>11. CASE loc'[c] \in K
  BY <1>11
<1> HIDE DEF K
<1> QED
  BY <1>4, <1>5, <1>6, <1>7, <1>8, <1>9, <1>10, <1>11 DEF Step

LEMMA NamesStep ==
    ASSUME TypeOK, NamesMade, NEW c \in Calls, Begin(c) \/ Step(c) \/ Crash(c)
    PROVE  NamesMade'
<1>1. Made \subseteq Made' /\ (pc'[c] \in Past => c \in Made')
  BY MadeGrows DEF Made
<1>2. \A q \in Roles : proj'[q] \in Made' \cup {None}
  BY <1>1, ProjNames DEF NamesMade
<1>3. row'.requesterReminderId \in Made' \cup {None}
  BY <1>1, RowNames DEF NamesMade
<1>4. Named(c) \subseteq Made \cup {None}
  BY RoleType DEF NamesMade, Named
<1>5. loc'[c].rem \in Made' \cup {None} /\ loc'[c].todo \subseteq Made'
  BY <1>1, <1>4, LocNames
<1>6. \A d \in Calls : loc'[d].rem \in Made' \cup {None} /\ loc'[d].todo \subseteq Made'
  BY <1>1, <1>5, MovesAlone DEF NamesMade, Others
<1> QED
  BY <1>2, <1>3, <1>6 DEF NamesMade

(* While nothing has failed, nothing failed in this step. *)
LEMMA NoFault == TypeOK /\ faults' = 0 => ~Fault
  BY DEF TypeOK, Fault

LEMMA FaultsStay ==
    ASSUME TypeOK, NEW c \in Calls, Begin(c) \/ Step(c) \/ Crash(c), faults' = 0
    PROVE  faults = 0
<1>1. ~Fault
  BY NoFault
<1> QED
  BY <1>1
     DEF Begin, BeginCreate, BeginAnswer, BeginSweep, BeginRemove, Crash, Step,
         InsertRow, FindRequester, SetRequester, CancelRow, FinalizeRequester, Notify,
         CheckFriendship, Invalidate, CreateRuntime, InsertProjection, FindExisting,
         CancelDuplicate, CancelOwn, CleanupCancel, CleanupDelete, FindInvitee,
         Reconcile, Expire, Claim, RollbackClaim, FinalizeAccept, ResolveRequester,
         CancelRequester, Transition, RecordEvent, SweepAccept, CommitRemoval,
         CancelNext, MarkClean, world

(* An acceptance is kept. *)
LEMMA AcceptedStays ==
    ASSUME TypeOK, NEW c \in Calls, Begin(c) \/ Step(c) \/ Crash(c),
           row.status = "accepted"
    PROVE  row'.status = "accepted"
<1>1. "accepted" \in Terminal
  BY DEF Terminal
<1> QED
  BY <1>1, StepKinds, NotTerminal DEF Proceeds, Decides, Records, IsPending

(* The steps that touch neither a projection nor a making. *)
Plain(c) ==
    /\ proj' = proj
    /\ live' \subseteq live
    /\ pc[c] \notin Making \cup {"finalize", "cleanupCancel", "cleanupDelete"}
    /\ pc'[c] \notin {"cleanupDelete", "markClean"}

LEMMA PlainSteps ==
    ASSUME TypeOK, NEW c \in Calls, ~Fault,
           \/ Begin(c) \/ InsertRow(c) \/ FindRequester(c) \/ SetRequester(c)
           \/ CancelRow(c) \/ Notify(c) \/ CheckFriendship(c) \/ Invalidate(c)
           \/ FindInvitee(c) \/ Reconcile(c) \/ Expire(c) \/ Claim(c)
           \/ RollbackClaim(c) \/ ResolveRequester(c) \/ CancelRequester(c)
           \/ Transition(c) \/ RecordEvent(c) \/ SweepAccept(c) \/ CommitRemoval(c)
    PROVE  Plain(c)
<1>1. CASE Begin(c)
  <2>1. proj' = proj /\ live' = live /\ pc[c] = "idle"
    BY <1>1 DEF Begin, BeginCreate, BeginAnswer, BeginSweep, BeginRemove, world, At
  <2>2. CASE BeginCreate(c) \/ BeginAnswer(c) \/ BeginSweep(c)
    BY <2>1, <2>2, GotoWithAt, ReplyAt
       DEF BeginCreate, BeginAnswer, BeginSweep, Plain, Making
  <2>3. CASE BeginRemove(c)
    <3>1. \/ \E l : GotoWith(c, "commitRemoval", l)
          \/ \E l : GotoWith(c, "cancelNext", l)
      BY <2>3 DEF BeginRemove
    <3> QED
      BY <2>1, <3>1, GotoWithAt DEF Plain, Making
  <2> QED
    BY <1>1, <2>2, <2>3 DEF Begin
<1>2. CASE \/ InsertRow(c) \/ FindRequester(c) \/ SetRequester(c) \/ CancelRow(c)
           \/ Notify(c) \/ CheckFriendship(c) \/ Invalidate(c) \/ FindInvitee(c)
           \/ Reconcile(c) \/ Expire(c) \/ Claim(c)
  BY <1>2, GotoAt, GotoWithAt, ReplyAt
     DEF InsertRow, FindRequester, SetRequester, CancelRow, Notify, CheckFriendship,
         Invalidate, FindInvitee, Reconcile, Expire, Claim, world, Plain, At, Making
<1>3. CASE \/ RollbackClaim(c) \/ ResolveRequester(c) \/ CancelRequester(c)
           \/ Transition(c) \/ RecordEvent(c) \/ SweepAccept(c) \/ CommitRemoval(c)
  BY <1>3, GotoAt, GotoWithAt, ReplyAt
     DEF RollbackClaim, ResolveRequester, CancelRequester, Transition, RecordEvent,
         SweepAccept, CommitRemoval, Plain, At, Making
<1> QED
  BY <1>1, <1>2, <1>3

(* The calls that do not move keep what they promise; the mover's part is   *)
(* asked of each action.                                                   *)
LEMMA PlainKeeps ==
    ASSUME TypeOK, NEW c \in Calls, Others(c), Plain(c), LiveNamed, CancelledFirst,
           InviteeAnswers, row.status = "accepted" => row'.status = "accepted"
    PROVE  LiveNamed' /\ CancelledFirst' /\ InviteeAnswers'
<1>1. LiveNamed'
  BY DEF Others, Plain, LiveNamed
<1>2. CancelledFirst'
  BY DEF Others, Plain, CancelledFirst
<1>3. InviteeAnswers'
  <2> SUFFICES ASSUME proj["invitee"] # None, row.status # "accepted"
               PROVE  Answering(proj["invitee"])'
    BY DEF InviteeAnswers, Plain
  <2>1. Answering(proj["invitee"]) /\ proj["invitee"] # c
    BY DEF InviteeAnswers, Answering, Plain
  <2> QED
    BY <2>1 DEF Answering, Others, Plain, Calls
<1> QED
  BY <1>1, <1>2, <1>3

LEMMA TidyStep ==
    ASSUME TypeOK, MakersOnly, NamesMade, Tidy, NEW c \in Calls,
           Begin(c) \/ Step(c) \/ Crash(c)
    PROVE  Tidy'
<1> SUFFICES ASSUME faults' = 0 PROVE LiveNamed' /\ CancelledFirst' /\ InviteeAnswers'
  BY DEF Tidy
<1>0. /\ ~Fault /\ Others(c)
      /\ LiveNamed /\ CancelledFirst /\ InviteeAnswers
      /\ row.status = "accepted" => row'.status = "accepted"
  BY NoFault, FaultsStay, MovesAlone, AcceptedStays DEF Tidy
<1>12. /\ RoleOf(c) \in Roles /\ "invitee" \in Roles /\ "requester" \in Roles
      /\ "invitee" # "requester" /\ None \notin Calls
      /\ proj \in [Roles -> Calls \cup {None}] /\ live \subseteq Calls
      /\ Accepts \subseteq Calls
  BY RoleType, NoneAssumption DEF TypeOK, Reminders, RoleOf, Calls, Roles
<1>1. CASE CreateRuntime(c)
  <2>1. /\ live' = live \cup {c} /\ proj' = proj /\ row' = row /\ loc' = loc
        /\ pc[c] = "createRuntime" /\ pc'[c] = "insertProjection"
    BY <1>0, <1>1, GotoAt DEF CreateRuntime, Goto, At
  <2>2. c \notin Made
    BY <2>1 DEF Made, Past, Making
  <2>3. LiveNamed'
    BY <1>0, <2>1 DEF Others, LiveNamed, Making
  <2>4. CancelledFirst'
    BY <1>0, <1>12, <2>1, <2>2 DEF Others, CancelledFirst, NamesMade
  <2>5. proj["invitee"] # c
    BY <1>12, <2>2 DEF NamesMade
  <2>6. InviteeAnswers'
    BY <1>0, <1>12, <2>1, <2>5 DEF Others, InviteeAnswers, Answering
  <2> QED
    BY <2>3, <2>4, <2>6
<1>2. CASE InsertProjection(c)
  <2>1. /\ pc[c] = "insertProjection" /\ live' = live /\ row' = row
        /\ c \in Creates \cup Accepts
    BY <1>2 DEF InsertProjection, At, MakersOnly, Making
  <2>2. CASE proj[RoleOf(c)] = None
    <3> DEFINE l == [loc[c] EXCEPT !.rem = c, !.made = TRUE]
    <3>1. /\ proj' = [proj EXCEPT ![RoleOf(c)] = c]
          /\ GotoWith(c, "finalize", l)
      BY <1>0, <1>2, <2>2 DEF InsertProjection
    <3>2. l.made = TRUE
      BY LocType DEF Locals
    <3> HIDE DEF l
    <3>3. pc'[c] = "finalize" /\ loc'[c].made = TRUE
      BY <3>1, <3>2, GotoWithAt
    <3>4. LiveNamed'
      <4> SUFFICES ASSUME NEW d \in Calls, d \in live
                   PROVE  pc'[d] \in Making \/ proj'[RoleOf(d)] = d
        BY <2>1 DEF LiveNamed
      <4>1. CASE d = c
        BY <1>12, <3>1, <4>1
      <4>2. CASE d # c /\ proj[RoleOf(d)] = d
        <5>1. RoleOf(d) # RoleOf(c)
          BY <1>12, <2>2, <4>2
        <5> QED
          BY <3>1, <4>2, <5>1, <1>12
      <4>3. CASE d # c /\ pc[d] \in Making
        BY <1>0, <4>3 DEF Others
      <4> QED
        BY <1>0, <4>1, <4>2, <4>3 DEF LiveNamed
    <3>5. CancelledFirst'
      BY <1>0, <2>1, <3>3 DEF Others, CancelledFirst
    <3>6. InviteeAnswers'
      <4>1. CASE c \in Accepts
        <5>1. proj'["invitee"] = c
          <6>1. c \notin Creates
            BY <4>1, CallsAssumption
          <6> QED
            BY <1>12, <3>1, <6>1 DEF RoleOf
        <5>2. Answering(c)'
          BY <3>3, <4>1 DEF Answering
        <5> QED
          BY <5>1, <5>2 DEF InviteeAnswers, Answering
      <4>2. CASE c \in Creates
        <5>1. proj'["invitee"] = proj["invitee"]
          BY <1>12, <3>1, <4>2 DEF RoleOf
        <5>2. c \notin Accepts
          BY <4>2, CallsAssumption
        <5> QED
          BY <1>0, <1>12, <2>1, <5>1, <5>2 DEF Others, InviteeAnswers, Answering
      <4> QED
        BY <2>1, <4>1, <4>2
    <3> QED
      BY <3>4, <3>5, <3>6
  <2>3. CASE proj[RoleOf(c)] # None
    <3>1. proj' = proj /\ pc'[c] = "findExisting"
      BY <1>0, <1>2, <2>3, GotoAt DEF InsertProjection
    <3>2. LiveNamed' /\ CancelledFirst'
      BY <1>0, <2>1, <3>1 DEF Others, LiveNamed, CancelledFirst, Making
    <3>3. InviteeAnswers'
      BY <1>0, <1>12, <2>1, <3>1 DEF Others, InviteeAnswers, Answering
    <3> QED
      BY <3>2, <3>3
  <2> QED
    BY <2>2, <2>3
<1>3. CASE FindExisting(c) \/ CancelDuplicate(c) \/ CancelOwn(c)
  <2>1. /\ pc[c] \in Making /\ pc[c] # "insertProjection" /\ proj' = proj /\ row' = row
        /\ \/ live' = live /\ pc'[c] \in Making
           \/ live' = live \ {c} /\ pc'[c] \in {"finalize", "rollback", "cancelRow", "done"}
    BY <1>0, <1>3, GotoAt, GotoWithAt, ReplyAt
       DEF FindExisting, CancelDuplicate, CancelOwn, ProjectionFailed, At, Making
  <2>2. LiveNamed' /\ CancelledFirst'
    BY <1>0, <2>1 DEF Others, LiveNamed, CancelledFirst, Making
  <2>3. InviteeAnswers'
    BY <1>0, <1>12, <2>1 DEF Others, InviteeAnswers, Answering, Making
  <2> QED
    BY <2>2, <2>3
<1>4. CASE FinalizeAccept(c)
  <2>1. /\ live' = live /\ proj' = proj /\ pc[c] = "finalize"
        /\ pc'[c] \in {"event", "done", "cleanupCancel", "rollback"}
    BY <1>4, GotoAt, GotoWithAt, ReplyAt DEF FinalizeAccept, At
  <2>2. LiveNamed' /\ CancelledFirst'
    BY <1>0, <2>1 DEF Others, LiveNamed, CancelledFirst, Making
  <2>3. InviteeAnswers'
    <3>1. CASE proj["invitee"] = c /\ row.status # "accepted" /\ loc[c].made
      <4>1. row'.status = "accepted" \/ pc'[c] = "cleanupCancel"
        BY <1>4, <3>1, RowType, GotoAt DEF FinalizeAccept, Row
      <4> QED
        BY <1>4, <2>1, <3>1, <4>1 DEF InviteeAnswers, Answering, FinalizeAccept
    <3>2. CASE proj["invitee"] # c \/ row.status = "accepted"
      BY <1>0, <1>12, <2>1, <3>2 DEF Others, InviteeAnswers, Answering
    <3> QED
      BY <1>0, <1>12, <2>1, <3>1, <3>2 DEF InviteeAnswers, Answering
  <2> QED
    BY <2>2, <2>3
<1>5. CASE FinalizeRequester(c)
  <2>1. /\ live' = live /\ proj' = proj /\ pc[c] = "finalize" /\ c \notin Accepts
        /\ pc'[c] \in {"event", "done", "cleanupCancel"}
    BY <1>5, GotoAt, GotoWithAt, ReplyAt, CallsAssumption DEF FinalizeRequester, At
  <2>2. LiveNamed' /\ CancelledFirst'
    BY <1>0, <2>1 DEF Others, LiveNamed, CancelledFirst, Making
  <2>3. InviteeAnswers'
    BY <1>0, <1>12, <2>1 DEF Others, InviteeAnswers, Answering
  <2> QED
    BY <2>2, <2>3
<1>6. CASE CleanupCancel(c)
  <2>1. /\ live' = live \ {c} /\ proj' = proj /\ row' = row
        /\ pc[c] = "cleanupCancel" /\ pc'[c] = "cleanupDelete"
    BY <1>0, <1>6, GotoAt DEF CleanupCancel, At
  <2>2. LiveNamed' /\ CancelledFirst'
    BY <1>0, <2>1 DEF Others, LiveNamed, CancelledFirst, Making
  <2>3. InviteeAnswers'
    BY <1>0, <1>12, <2>1 DEF Others, InviteeAnswers, Answering
  <2> QED
    BY <2>2, <2>3
<1>7. CASE CleanupDelete(c)
  <2>1. /\ live' = live /\ row' = row /\ pc[c] = "cleanupDelete"
        /\ pc'[c] \in {"rollback", "done"} /\ c \notin live
        /\ proj' = IF proj[RoleOf(c)] = c THEN [proj EXCEPT ![RoleOf(c)] = None] ELSE proj
    BY <1>0, <1>7, GotoAt, ReplyAt DEF CleanupDelete, At, CancelledFirst
  <2>2. LiveNamed'
    <3> SUFFICES ASSUME NEW d \in Calls, d \in live
                 PROVE  pc'[d] \in Making \/ proj'[RoleOf(d)] = d
      BY <2>1 DEF LiveNamed
    <3>1. d # c
      BY <2>1
    <3>2. proj[RoleOf(d)] = d => proj'[RoleOf(d)] = d
      BY <1>12, <2>1, <3>1
    <3> QED
      BY <1>0, <3>1, <3>2 DEF LiveNamed, Others
  <2>3. CancelledFirst'
    BY <1>0, <2>1 DEF Others, CancelledFirst
  <2>4. InviteeAnswers'
    <3>1. CASE proj["invitee"] = c
      <4>1. row.status = "accepted" \/ c \in Accepts
        BY <1>0, <1>12, <3>1 DEF InviteeAnswers, Answering
      <4>2. c \in Accepts => RoleOf(c) = "invitee"
        BY CallsAssumption DEF RoleOf
      <4>3. c \in Accepts => proj'["invitee"] = None
        BY <1>12, <2>1, <3>1, <4>2
      <4> QED
        BY <2>1, <4>1, <4>3 DEF InviteeAnswers
    <3>2. CASE proj["invitee"] # c
      <4>1. proj'["invitee"] \in {None, proj["invitee"]}
        BY <1>12, <2>1
      <4> QED
        BY <1>0, <1>12, <2>1, <3>2, <4>1 DEF Others, InviteeAnswers, Answering
    <3> QED
      BY <3>1, <3>2
  <2> QED
    BY <2>2, <2>3, <2>4
<1>8. CASE CancelNext(c)
  <2>1. /\ proj' = proj /\ row' = row /\ live' \subseteq live /\ pc[c] = "cancelNext"
        /\ \/ pc'[c] = "done"
           \/ pc'[c] = "markClean" /\ loc'[c].rem \notin live'
    <3>1. CASE \E r \in loc[c].todo :
                 /\ live' = live \ {r}
                 /\ GotoWith(c, "markClean", [loc[c] EXCEPT !.rem = r])
      <4>1. PICK r \in loc[c].todo :
                 /\ live' = live \ {r}
                 /\ GotoWith(c, "markClean", [loc[c] EXCEPT !.rem = r])
        BY <3>1
      <4>2. [loc[c] EXCEPT !.rem = r].rem = r
        BY LocType DEF Locals
      <4>3. pc'[c] = "markClean" /\ loc'[c].rem = r
        BY <4>1, <4>2, GotoWithAt
      <4> QED
        BY <1>8, <4>1, <4>3 DEF CancelNext, At
    <3>2. CASE Reply(c, "removed") /\ live' = live
      BY <1>8, <3>2, ReplyAt DEF CancelNext, At
    <3> QED
      BY <1>0, <1>8, <3>1, <3>2 DEF CancelNext
  <2>2. LiveNamed' /\ CancelledFirst'
    BY <1>0, <2>1 DEF Others, LiveNamed, CancelledFirst, Making
  <2>3. InviteeAnswers'
    BY <1>0, <1>12, <2>1 DEF Others, InviteeAnswers, Answering
  <2> QED
    BY <2>2, <2>3
<1>9. CASE MarkClean(c)
  <2>1. /\ live' = live /\ pc[c] = "markClean" /\ pc'[c] = "cancelNext"
        /\ loc[c].rem \notin live
        /\ proj' = IF proj["requester"] = loc[c].rem
                   THEN [proj EXCEPT !["requester"] = None] ELSE proj
    BY <1>0, <1>9, GotoWithAt DEF MarkClean, At, CancelledFirst
  <2>2. LiveNamed'
    <3> SUFFICES ASSUME NEW d \in Calls, d \in live
                 PROVE  pc'[d] \in Making \/ proj'[RoleOf(d)] = d
      BY <2>1 DEF LiveNamed
    <3>1. proj[RoleOf(d)] = d => proj'[RoleOf(d)] = d
      BY <1>12, <2>1
    <3> QED
      BY <1>0, <2>1, <3>1 DEF LiveNamed, Others, Making
  <2>3. CancelledFirst'
    BY <1>0, <2>1 DEF Others, CancelledFirst
  <2>4. InviteeAnswers'
    <3>1. proj'["invitee"] = proj["invitee"]
      BY <1>12, <2>1
    <3> QED
      BY <1>0, <1>12, <2>1, <3>1 DEF Others, InviteeAnswers, Answering
  <2> QED
    BY <2>2, <2>3, <2>4
<1>10. CASE \/ Begin(c) \/ InsertRow(c) \/ FindRequester(c) \/ SetRequester(c)
            \/ CancelRow(c) \/ Notify(c) \/ CheckFriendship(c) \/ Invalidate(c)
            \/ FindInvitee(c) \/ Reconcile(c) \/ Expire(c) \/ Claim(c)
            \/ RollbackClaim(c) \/ ResolveRequester(c) \/ CancelRequester(c)
            \/ Transition(c) \/ RecordEvent(c) \/ SweepAccept(c) \/ CommitRemoval(c)
  BY <1>0, <1>10, PlainSteps, PlainKeeps
<1>11. ~Crash(c)
  BY <1>0 DEF Crash
<1> QED
  BY <1>1, <1>2, <1>3, <1>4, <1>5, <1>6, <1>7, <1>8, <1>9, <1>10, <1>11 DEF Step

(* The inductive invariant of the absence of orphans. *)
Orderly == MakersOnly /\ NamesMade /\ Tidy

LEMMA OrderlyInit == Init => Orderly
<1> SUFFICES ASSUME Init PROVE Orderly
  OBVIOUS
<1>1. MakersOnly
  BY DEF Init, MakersOnly, Making
<1>2. NamesMade
  BY BlankFields DEF Init, NamesMade, NoRow, Roles
<1>3. Tidy
  BY RoleType DEF Init, Tidy, LiveNamed, CancelledFirst, InviteeAnswers
<1> QED
  BY <1>1, <1>2, <1>3 DEF Orderly

LEMMA OrderlyStep == TypeOK /\ Orderly /\ [Next]_vars => Orderly'
<1> SUFFICES ASSUME TypeOK, Orderly, [Next]_vars PROVE Orderly'
  OBVIOUS
<1>1. CASE \E c \in Calls : Begin(c) \/ Step(c) \/ Crash(c)
  BY <1>1, MakersStep, NamesStep, TidyStep DEF Orderly
<1>2. CASE Befriend \/ Tick \/ UNCHANGED vars
  BY <1>2
     DEF Befriend, Tick, vars, Orderly, MakersOnly, NamesMade, Made, Tidy, LiveNamed,
         CancelledFirst, InviteeAnswers, Answering
<1> QED
  BY <1>1, <1>2 DEF Next

LEMMA OrderlyQuiet == TypeOK /\ Orderly => NoOrphans
<1> SUFFICES ASSUME TypeOK, Orderly, faults = 0, Quiet
             PROVE  /\ live \subseteq {proj[r] : r \in Roles}
                    /\ proj["invitee"] # None => row.status = "accepted"
  BY DEF NoOrphans
<1>1. /\ Making \subseteq Statements
      /\ {"finalize", "cleanupCancel", "cleanupDelete"} \subseteq Statements
      /\ live \subseteq Calls /\ Accepts \subseteq Calls
  BY DEF Making, Statements, TypeOK, Reminders, Calls
<1>2. ASSUME NEW c \in live PROVE RoleOf(c) \in Roles /\ proj[RoleOf(c)] = c
  BY <1>1, <1>2 DEF Orderly, Tidy, LiveNamed, Quiet, RoleOf, Roles
<1>3. proj["invitee"] # None => row.status = "accepted"
  BY <1>1 DEF Orderly, Tidy, InviteeAnswers, Answering, Quiet
<1> QED
  BY <1>2, <1>3

(* While nothing fails, once every call has answered each active reminder    *)
(* has its projection, and there is an invitee's only under an acceptance: *)
(* whatever number of creates, accepts, declines, sweeps and removals ran. *)
THEOREM NoneOrphaned == Spec => []NoOrphans
<1>1. Spec => []Orderly
  BY OrderlyInit, OrderlyStep, TypeCorrect, PTL DEF Spec
<1> QED
  BY <1>1, OrderlyQuiet, TypeCorrect, PTL

-----------------------------------------------------------------------------
(* After the one create: the invariants; c0 is that create. *)

(* What the place of a call says about its locals. *)
Place(c0, d) ==
    /\ pc[d] \notin {"insertRow", "findRequester", "setRequester", "cancelRow", "notify"}
    /\ pc[d] \in {"createRuntime", "insertProjection", "findExisting",
                  "cancelDuplicate", "cancelOwn", "cleanupCancel",
                  "cleanupDelete", "finalize"} => d \in Accepts
    /\ pc[d] = "commitRemoval" =>
         /\ loc[d].friend \in 1..nfriend
         /\ PendingUnder(loc[d].friend) => loc[d].made
         /\ loc[d].rem \in {c0, None}
    /\ loc[d].todo \subseteq {c0}
    /\ pc[d] = "cancelNext" /\ loc[d].todo # {} => row.status = "invalidated"
    /\ pc[d] = "markClean" =>
         row.status = "invalidated" /\ loc[d].rem = c0 /\ c0 \notin live
    /\ d \notin Accepts /\ pc[d] \in {"findInvitee", "claim", "friendship"} =>
         loc[d].rem \in {c0, None}
    /\ pc[d] = "cancelRequester" => loc[d].rem = c0

(* The request has its requester's reminder until it is cleaned up. *)
Settled(c0) ==
    /\ pc[c0] = "done"
    /\ row.status # "none" /\ row.friendshipId = 1
    /\ active \in (1..nfriend) \cup {None}
    /\ \/ row.requesterReminderId = c0 /\ proj["requester"] = c0
       \/ /\ row.status = "invalidated" /\ c0 \notin live
          /\ row.requesterReminderId = None /\ proj["requester"] = None
    /\ IsPending => active = 1
    /\ \A d \in Calls : Place(c0, d)

(* Under the first friendship: who removes it has it removed, and as long as *)
(* the reminder is there, has it to cancel.                                *)
RemovalDone(c0) ==
    nfriend = 1 => \A d \in Calls :
        /\ pc[d] \in {"cancelNext", "markClean"} \/ reply[d] = "removed" =>
             active = None
        /\ row.status = "invalidated" /\ row.requesterReminderId = c0 =>
             /\ pc[d] = "cancelNext" => c0 \in loc[d].todo
             /\ reply[d] # "removed"

(* Where an accept still answers for the reminder it created. *)
Answerable(x) ==
    \/ pc[x] \in {"insertProjection", "findExisting", "cancelDuplicate",
                  "cancelOwn", "cleanupCancel"}
    \/ pc[x] = "finalize" /\ loc[x].made

(* The requester's reminder is gone before the request is declined. *)
DeclineDone(c0) ==
    /\ \A d \in Calls : pc[d] = "transition" => c0 \notin live
    /\ row.status \in {"rejected", "cancelled"} => c0 \notin live
    /\ faults = 0 =>
         \A x \in live \ {c0} : Answerable(x) \/ row.status = "accepted"

(* The statements a call executes under the claim it made. *)
Claiming == {"friendship", "invalidate", "createRuntime", "insertProjection",
             "findExisting", "cancelDuplicate", "cancelOwn", "finalize",
             "cleanupCancel", "cleanupDelete", "rollback", "resolve",
             "cancelRequester", "transition"}

(* The statements an accept never comes to. *)
Declining == {"resolve", "cancelRequester", "transition"}

(* While the request is pending, one call holds the claim. *)
ClaimHeld ==
    /\ now <= MaxTime
    /\ \A d \in Accepts : pc[d] \notin Declining
    /\ IsPending => \A d \in Calls : pc[d] \in Claiming =>
         /\ loc[d].at # None /\ row.resolvedAt = loc[d].at
         /\ \A e \in Calls : pc[e] \in Claiming => e = d

(* What a call knows of the invitee's side while the request is pending.    *)
Accepting(d) ==
    /\ pc[d] = "finalize" =>
         loc[d].made /\ loc[d].rem = d /\ d \in live /\ proj["invitee"] = d
    /\ pc[d] \notin {"findExisting", "cancelDuplicate", "cancelOwn",
                     "cleanupCancel", "cleanupDelete"}
    /\ d \in Accepts /\ pc[d] \in {"findInvitee", "claim"} =>
         loc[d].rem \in {None, proj["invitee"]}
    /\ d \in Accepts /\ pc[d] = "friendship" => loc[d].rem = None
    /\ pc[d] \in {"reconcile", "sweepAccept"} =>
         proj["invitee"] # None /\ loc[d].rem = proj["invitee"]

(* While it is pending and all goes well, only the call about to finalize  *)
(* has an invitee's projection, and only one about to decline has cancelled *)
(* the requester's reminder; once it is accepted, nobody cancels anything. *)
AcceptDone(c0) ==
    faults = 0 =>
        /\ \A d \in Calls : pc[d] = "insertProjection" => d \in live
        /\ IsPending =>
             /\ c0 \in live \/ \E d \in Calls : pc[d] = "transition"
             /\ proj["invitee"] # None => pc[proj["invitee"]] = "finalize"
             /\ \A d \in Calls : Accepting(d)
        /\ row.status = "accepted" =>
             /\ row.inviteeReminderId \in live /\ c0 \in live
             /\ \A d \in Calls : pc[d] \in Claiming => pc[d] = "finalize"

-----------------------------------------------------------------------------
(* What a throw out of createProjection leads to, once no create is left. *)
LEMMA FailedAt ==
    ASSUME TypeOK, NEW c \in Accepts, ProjectionFailed(c)
    PROVE  pc'[c] = "rollback" /\ loc'[c] = loc[c] /\ reply'[c] = reply[c] /\ Others(c)
  BY GotoAt DEF ProjectionFailed, Calls

-----------------------------------------------------------------------------
(* What no step does to a settled request *)

(* It is not made pending anew, nor its reminder active; it stays          *)
(* invalidated, and under its friendship.                                  *)
Mild(c0) ==
    /\ nfriend <= nfriend'
    /\ IsPending' => IsPending
    /\ row'.friendshipId = row.friendshipId
    /\ row.status \in Terminal => row'.status = row.status
    /\ row'.status # "none"
    /\ c0 \notin live => c0 \notin live'

LEMMA OtherPlace ==
    ASSUME TypeOK, NEW c0 \in Creates, NEW d \in Calls, Place(c0, d), Mild(c0),
           nfriend' \in Nat,
           pc'[d] = pc[d], loc'[d] = loc[d]
    PROVE  Place(c0, d)'
<1>1. row.status = "invalidated" => row'.status = "invalidated"
  BY DEF Mild, Terminal
<1>2. 1..nfriend \subseteq 1..nfriend'
  BY DEF Mild, TypeOK, Friendships
<1>3. \A f : PendingUnder(f)' => PendingUnder(f)
  BY DEF PendingUnder, IsPending, Mild
<1> QED
  BY <1>1, <1>2, <1>3 DEF Place, Mild

(* Of the calls that act, none is the create. *)
LEMMA NotTheCreate ==
    ASSUME NEW c0 \in Creates, Creates = {c0}, Settled(c0), NEW c \in Calls,
           Begin(c) \/ Step(c) \/ Crash(c)
    PROVE  c \notin Creates
<1>1. pc[c] # "done"
  BY DEF Begin, Step, Crash, BeginCreate, BeginAnswer, BeginSweep, BeginRemove,
         InsertRow, FindRequester, SetRequester, CancelRow, FinalizeRequester, Notify,
         CheckFriendship, Invalidate, CreateRuntime, InsertProjection, FindExisting,
         CancelDuplicate, CancelOwn, CleanupCancel, CleanupDelete, FindInvitee,
         Reconcile, Expire, Claim, RollbackClaim, FinalizeAccept, ResolveRequester,
         CancelRequester, Transition, RecordEvent, SweepAccept, CommitRemoval,
         CancelNext, MarkClean, At, Statements
<1> QED
  BY <1>1 DEF Settled

(* The actions that can be taken once the create is over. *)
LEMMA SettledActions ==
    ASSUME NEW c0 \in Creates, Creates = {c0}, Settled(c0), NEW c \in Calls,
           Begin(c) \/ Step(c) \/ Crash(c)
    PROVE  /\ c \notin Creates
           /\ \/ BeginAnswer(c) \/ BeginSweep(c) \/ BeginRemove(c)
              \/ CheckFriendship(c) \/ Invalidate(c)
              \/ CreateRuntime(c) \/ InsertProjection(c) \/ FindExisting(c)
              \/ CancelDuplicate(c) \/ CancelOwn(c) \/ CleanupCancel(c) \/ CleanupDelete(c)
              \/ FindInvitee(c) \/ Reconcile(c) \/ Expire(c) \/ Claim(c)
              \/ RollbackClaim(c) \/ FinalizeAccept(c) \/ ResolveRequester(c)
              \/ CancelRequester(c) \/ Transition(c) \/ RecordEvent(c)
              \/ SweepAccept(c) \/ CommitRemoval(c) \/ CancelNext(c) \/ MarkClean(c)
              \/ Crash(c)
<1>1. c \notin Creates
  BY NotTheCreate
<1>2. Place(c0, c)
  BY DEF Settled
<1>3. /\ ~BeginCreate(c) /\ ~FinalizeRequester(c) /\ ~InsertRow(c)
      /\ ~FindRequester(c) /\ ~SetRequester(c) /\ ~CancelRow(c) /\ ~Notify(c)
  BY <1>1, <1>2 DEF BeginCreate, FinalizeRequester, InsertRow, FindRequester,
                    SetRequester, CancelRow, Notify, Place, At
<1> QED
  BY <1>1, <1>3 DEF Begin, Step

LEMMA MildStep ==
    ASSUME TypeOK, NEW c0 \in Creates, Creates = {c0}, Settled(c0), NEW c \in Calls,
           Begin(c) \/ Step(c) \/ Crash(c)
    PROVE  Mild(c0)
<1>0. /\ c \notin Creates /\ row \in Row /\ Place(c0, c) /\ c0 # c
      /\ row.status # "none" /\ Pending \notin Terminal /\ nfriend \in Nat
      /\ row.status \in Terminal => row.status # Pending
  BY SettledActions, RowType, NotTerminal DEF Settled, TypeOK, Friendships
<1>1. nfriend' = nfriend
  BY SettledActions
     DEF BeginAnswer, BeginSweep, BeginRemove,
         CheckFriendship, Invalidate, CreateRuntime, InsertProjection, FindExisting,
         CancelDuplicate, CancelOwn, CleanupCancel, CleanupDelete, FindInvitee,
         Reconcile, Expire, Claim, RollbackClaim, FinalizeAccept, ResolveRequester,
         CancelRequester, Transition, RecordEvent, SweepAccept, CommitRemoval,
         CancelNext, MarkClean, Crash, world
<1>2. c0 \notin live => c0 \notin live'
  BY <1>0, SettledActions
     DEF BeginAnswer, BeginSweep, BeginRemove,
         CheckFriendship, Invalidate, CreateRuntime, InsertProjection, FindExisting,
         CancelDuplicate, CancelOwn, CleanupCancel, CleanupDelete, FindInvitee,
         Reconcile, Expire, Claim, RollbackClaim, FinalizeAccept, ResolveRequester,
         CancelRequester, Transition, RecordEvent, SweepAccept, CommitRemoval,
         CancelNext, MarkClean, Crash, world
<1> DEFINE RowMild == /\ row'.status = Pending => row.status = Pending
                      /\ row'.friendshipId = row.friendshipId
                      /\ row.status \in Terminal => row'.status = row.status
                      /\ row'.status # "none"
<1>3. CASE \/ BeginAnswer(c) \/ BeginSweep(c) \/ BeginRemove(c)
           \/ CheckFriendship(c) \/ CreateRuntime(c) \/ InsertProjection(c)
           \/ FindExisting(c) \/ CancelDuplicate(c) \/ CancelOwn(c)
           \/ CleanupCancel(c) \/ CleanupDelete(c) \/ FindInvitee(c)
           \/ ResolveRequester(c) \/ CancelRequester(c) \/ RecordEvent(c)
           \/ CancelNext(c) \/ Crash(c)
  <2>1. row' = row
    BY <1>3 DEF BeginAnswer, BeginSweep, BeginRemove, CheckFriendship, CreateRuntime,
           InsertProjection, FindExisting, CancelDuplicate, CancelOwn, CleanupCancel,
           CleanupDelete, FindInvitee, ResolveRequester, CancelRequester, RecordEvent,
           CancelNext, Crash, world
  <2> QED
    BY <1>0, <1>1, <1>2, <2>1 DEF Mild, IsPending
<1>4. CASE \/ Invalidate(c) \/ Reconcile(c) \/ Expire(c) \/ Claim(c)
           \/ RollbackClaim(c) \/ FinalizeAccept(c) \/ SweepAccept(c)
  <2>1. RowMild
    BY <1>0, <1>4 DEF Invalidate, Reconcile, Expire, Claim, RollbackClaim,
           FinalizeAccept, SweepAccept, Row, Terminal, IsPending, HoldsClaim, Pending
  <2> QED
    BY <1>0, <1>1, <1>2, <2>1 DEF Mild, IsPending
<1>5. CASE \/ Transition(c) \/ CommitRemoval(c) \/ MarkClean(c)
  <2>1. Intended(c) \in Terminal /\ "none" \notin Terminal
    BY NotTerminal DEF Intended, Terminal
  <2>2. RowMild
    BY <1>0, <1>5, <2>1 DEF Transition, CommitRemoval, MarkClean, Row, Terminal,
           IsPending, HoldsClaim, Pending
  <2> QED
    BY <1>0, <1>1, <1>2, <2>2 DEF Mild, IsPending
<1> QED
  BY <1>3, <1>4, <1>5, SettledActions

-----------------------------------------------------------------------------
(* The request is settled *)

(* The reminders there are to cancel: the requester's, if it is there. *)
LEMMA ToCancelOne ==
    ASSUME NEW c0 \in Creates, Settled(c0), NEW r \in {c0, None}
    PROVE  /\ ToCancel(r) \subseteq {c0}
           /\ r = c0 => ToCancel(r) = {c0}
<1>1. c0 # None
  BY NoneAssumption DEF Calls
<1> QED
  BY <1>1 DEF Settled, ToCancel

LEMMA LeftOverOne ==
    ASSUME NEW c0 \in Creates, Settled(c0), NEW f
    PROVE  /\ LeftOver(f) \subseteq {c0}
           /\ LeftOver(f) # {} => row.status = "invalidated"
<1>1. row.requesterReminderId \in {c0, None}
  BY DEF Settled
<1>2. ToCancel(row.requesterReminderId) \subseteq {c0}
  BY <1>1, ToCancelOne
<1> QED
  BY <1>2 DEF LeftOver

(* What the acting call knows of its own place. *)
LEMMA OwnPlace ==
    ASSUME TypeOK, NEW c0 \in Creates, Creates = {c0}, Settled(c0), NEW c \in Calls,
           Begin(c) \/ Step(c) \/ Crash(c)
    PROVE  Place(c0, c)'
<1>0. /\ Place(c0, c) /\ Mild(c0) /\ c \notin Creates
      /\ loc[c] \in Locals /\ row \in Row
      /\ row.requesterReminderId \in {c0, None} /\ proj["requester"] \in {c0, None}
      /\ c0 # None
  BY MildStep, SettledActions, LocType, RowType, NoneAssumption DEF Settled, Calls
<1>1. CASE \/ \E s \in {"invalidate", "resolve", "rollback", "transition", "event"} :
                Goto(c, s)
           \/ \E r : Reply(c, r)
           \/ Crash(c)
  <2>1. \/ /\ pc'[c] \in {"invalidate", "resolve", "rollback", "transition", "event"}
           /\ loc'[c] = loc[c]
        \/ pc'[c] = "done" /\ loc'[c] = Blank
    BY <1>1, GotoAt, ReplyAt DEF Crash, TypeOK
  <2> QED
    BY <1>0, <2>1, BlankFields DEF Place
<1>2. CASE BeginAnswer(c) \/ BeginSweep(c)
  <2> DEFINE l == [Blank EXCEPT !.at = now,
                       !.rem = IF c \in Accepts THEN None ELSE row.requesterReminderId]
             m == [Blank EXCEPT !.at = now]
  <2>1. /\ l.todo = {} /\ (c \notin Accepts => l.rem \in {c0, None})
        /\ m.todo = {} /\ m.rem = None
    BY <1>0 DEF Blank
  <2>2. CASE GotoWith(c, "findInvitee", l) \/ GotoWith(c, "findInvitee", m)
    <3>1. pc'[c] = "findInvitee" /\ loc'[c] \in {l, m}
      BY <2>2, GotoWithAt
    <3> HIDE DEF l, m
    <3> QED
      BY <2>1, <3>1 DEF Place
  <2> QED
    BY <1>1, <1>2, <2>2 DEF BeginAnswer, BeginSweep
<1>3. CASE BeginRemove(c)
  <2>1. PICK f \in 1..nfriend :
           IF active = f
           THEN GotoWith(c, "commitRemoval",
                  [Blank EXCEPT !.friend = f, !.made = PendingUnder(f),
                                !.rem = row.requesterReminderId])
           ELSE GotoWith(c, "cancelNext", [Blank EXCEPT !.todo = LeftOver(f)])
    BY <1>3 DEF BeginRemove
  <2> DEFINE l == [Blank EXCEPT !.friend = f, !.made = PendingUnder(f),
                                !.rem = row.requesterReminderId]
             m == [Blank EXCEPT !.todo = LeftOver(f)]
  <2>2. /\ l.friend = f /\ l.made = PendingUnder(f) /\ l.todo = {}
        /\ l.rem \in {c0, None}
        /\ m.todo = LeftOver(f)
    BY <1>0 DEF Blank
  <2>3. UNCHANGED <<row, nfriend>>
    BY <1>3 DEF BeginRemove, world
  <2> HIDE DEF l, m
  <2>4. CASE GotoWith(c, "commitRemoval", l)
    <3>1. pc'[c] = "commitRemoval" /\ loc'[c] = l
      BY <2>4, GotoWithAt
    <3>2. PendingUnder(f)' = PendingUnder(f)
      BY <2>3 DEF PendingUnder, IsPending
    <3> QED
      BY <2>2, <2>3, <3>1, <3>2 DEF Place
  <2>5. CASE GotoWith(c, "cancelNext", m)
    <3>1. pc'[c] = "cancelNext" /\ loc'[c] = m
      BY <2>5, GotoWithAt
    <3>2. m.todo \subseteq {c0} /\ (m.todo # {} => row.status = "invalidated")
      <4>1. /\ LeftOver(f) \subseteq {c0}
            /\ LeftOver(f) # {} => row.status = "invalidated"
        BY LeftOverOne
      <4> QED
        BY <2>2, <4>1
    <3> QED
      BY <2>3, <3>1, <3>2 DEF Place
  <2> QED
    BY <2>1, <2>4, <2>5 DEF l, m
<1>4. CASE CheckFriendship(c)
  <2>1. UNCHANGED <<row, nfriend, live>>
    BY <1>4 DEF CheckFriendship, world
  <2> QED
    BY <1>0, <1>1, <1>4, <2>1, GotoAt DEF CheckFriendship, At, Place
<1>5. CASE CreateRuntime(c) \/ InsertProjection(c) \/ FindExisting(c)
  <2>1. c \in Accepts /\ RoleOf(c) \in Roles
    BY <1>0, <1>5, RoleType DEF CreateRuntime, InsertProjection, FindExisting, At, Place
  <2> DEFINE M(x) == [loc[c] EXCEPT !.rem = x, !.made = TRUE]
             N(x) == [loc[c] EXCEPT !.rem = x]
  <2>2. \A x : M(x).todo = loc[c].todo /\ N(x).todo = loc[c].todo
    BY <1>0 DEF Locals
  <2> HIDE DEF M, N
  <2>3. /\ pc'[c] \in {"insertProjection", "finalize", "findExisting", "cancelOwn",
                       "cancelDuplicate", "rollback"}
        /\ loc'[c].todo = loc[c].todo
    <3>1. CASE CreateRuntime(c)
      BY <3>1, <2>1, GotoAt, FailedAt DEF CreateRuntime
    <3>2. CASE InsertProjection(c)
      <4>1. \/ GotoWith(c, "finalize", M(c))
            \/ Goto(c, "findExisting") \/ Goto(c, "cancelOwn")
        BY <3>2 DEF InsertProjection, M
      <4> QED
        BY <4>1, <2>2, GotoAt, GotoWithAt
    <3>3. CASE FindExisting(c)
      <4>1. \/ GotoWith(c, "cancelDuplicate", N(proj[RoleOf(c)]))
            \/ Goto(c, "cancelOwn") \/ ProjectionFailed(c)
        BY <3>3 DEF FindExisting, N
      <4> QED
        BY <4>1, <2>1, <2>2, GotoAt, GotoWithAt, FailedAt
    <3> QED
      BY <1>5, <3>1, <3>2, <3>3
  <2> QED
    BY <1>0, <2>1, <2>3 DEF Place
<1>6. CASE CancelDuplicate(c) \/ CancelOwn(c) \/ CleanupCancel(c) \/ CleanupDelete(c)
  <2>1. c \in Accepts
    BY <1>0, <1>6 DEF CancelDuplicate, CancelOwn, CleanupCancel, CleanupDelete, At, Place
  <2>2. \/ /\ pc'[c] \in {"finalize", "rollback", "cleanupDelete"}
           /\ loc'[c] = loc[c]
        \/ pc'[c] = "done" /\ loc'[c] = Blank
    BY <1>6, <2>1, GotoAt, ReplyAt, FailedAt
       DEF CancelDuplicate, CancelOwn, CleanupCancel, CleanupDelete
  <2> QED
    BY <1>0, <2>1, <2>2, BlankFields DEF Place
<1>7. CASE FindInvitee(c)
  <2> DEFINE l == [loc[c] EXCEPT !.rem = proj["invitee"]]
  <2>1. l.todo = loc[c].todo
    BY <1>0 DEF Locals
  <2> HIDE DEF l
  <2>2. \/ /\ pc'[c] \in {"claim", "sweepAccept", "reconcile"} /\ loc'[c] = l
           /\ pc'[c] = "claim" => c \in Accepts
        \/ pc'[c] \in {"expire", "claim"} /\ loc'[c] = loc[c]
    BY <1>7, GotoAt, GotoWithAt DEF FindInvitee, l
  <2>3. pc[c] = "findInvitee"
    BY <1>7 DEF FindInvitee, At
  <2> QED
    BY <1>0, <2>1, <2>2, <2>3 DEF Place
<1>8. CASE Reconcile(c) \/ Expire(c) \/ SweepAccept(c) \/ Transition(c)
  <2> DEFINE L(x) == [loc[c] EXCEPT !.to = x]
  <2>1. \A x : L(x).todo = loc[c].todo
    BY <1>0 DEF Locals
  <2> HIDE DEF L
  <2>2. \/ pc'[c] = "event" /\ \E x : loc'[c] = L(x)
        \/ pc'[c] = "done" /\ loc'[c] = Blank
    <3>1. \/ \E x \in {"accepted", "expired", Intended(c)} : GotoWith(c, "event", L(x))
          \/ \E r : Reply(c, r)
      BY <1>8 DEF Reconcile, Expire, SweepAccept, Transition, L
    <3> QED
      BY <3>1, GotoWithAt, ReplyAt
  <2> QED
    BY <1>0, <2>1, <2>2, BlankFields DEF Place
<1>9. CASE FinalizeAccept(c)
  <2> DEFINE L(x) == [loc[c] EXCEPT !.to = x]
  <2>1. \A x : L(x).todo = loc[c].todo
    BY <1>0 DEF Locals
  <2> HIDE DEF L
  <2>2. \/ pc'[c] = "event" /\ \E x : loc'[c] = L(x)
        \/ pc'[c] = "done" /\ loc'[c] = Blank
        \/ pc'[c] \in {"cleanupCancel", "rollback"} /\ loc'[c] = loc[c]
    <3>1. \/ GotoWith(c, "event", L("accepted"))
          \/ Goto(c, "cleanupCancel") \/ Goto(c, "rollback")
          \/ \E r : Reply(c, r)
      BY <1>9 DEF FinalizeAccept, L
    <3> QED
      BY <3>1, GotoAt, GotoWithAt, ReplyAt
  <2>3. c \in Accepts
    BY <1>9 DEF FinalizeAccept
  <2> QED
    BY <1>0, <2>1, <2>2, <2>3, BlankFields DEF Place
<1>10. CASE Claim(c)
  <2>1. pc[c] = "claim"
    BY <1>10 DEF Claim, At
  <2>2. \/ pc'[c] = "friendship" /\ loc'[c] = loc[c]
        \/ \E r : Reply(c, r)
    BY <1>10, GotoAt DEF Claim
  <2> QED
    BY <1>0, <1>1, <2>1, <2>2 DEF Place
<1>11. CASE ResolveRequester(c)
  <2> DEFINE l == [loc[c] EXCEPT !.rem = proj["requester"]]
  <2>1. l.todo = loc[c].todo /\ l.rem = proj["requester"]
    BY <1>0 DEF Locals
  <2> HIDE DEF l
  <2>2. \/ \E s \in {"rollback", "transition"} : Goto(c, s)
        \/ pc'[c] = "cancelRequester" /\ loc'[c] = l /\ proj["requester"] # None
    BY <1>11, GotoWithAt DEF ResolveRequester, l
  <2> QED
    BY <1>0, <1>1, <2>1, <2>2 DEF Place
<1>12. CASE \/ Invalidate(c) \/ RollbackClaim(c) \/ CancelRequester(c)
  BY <1>1, <1>12 DEF Invalidate, RollbackClaim, CancelRequester
<1>13. CASE RecordEvent(c)
  <2>1. \E r : Reply(c, r)
    BY <1>0, <1>13 DEF RecordEvent
  <2> QED
    BY <1>1, <2>1
<1>14. CASE CommitRemoval(c)
  <2> DEFINE T == IF loc[c].made /\ IsPending
                  THEN ToCancel(loc[c].rem) \cup ToCancel(row.requesterReminderId)
                  ELSE LeftOver(loc[c].friend)
             l == [loc[c] EXCEPT !.made = FALSE, !.rem = None, !.todo = T]
  <2>1. l.todo = T
    BY <1>0 DEF Locals
  <2>2. pc'[c] = "cancelNext" /\ loc'[c] = l
    <3> HIDE DEF l
    <3> QED
      BY <1>14, GotoWithAt DEF CommitRemoval, l
  <2>3. T \subseteq {c0}
    <3>1. loc[c].rem \in {c0, None}
      BY <1>0, <1>14 DEF CommitRemoval, At, Place
    <3>2. /\ ToCancel(loc[c].rem) \subseteq {c0}
          /\ ToCancel(row.requesterReminderId) \subseteq {c0}
          /\ LeftOver(loc[c].friend) \subseteq {c0}
      BY <1>0, <3>1, ToCancelOne, LeftOverOne
    <3> QED
      BY <3>2
  <2>4. T # {} => row'.status = "invalidated"
    <3>1. CASE loc[c].made /\ IsPending
      BY <1>0, <1>14, <3>1 DEF CommitRemoval, Row
    <3>2. CASE ~(loc[c].made /\ IsPending)
      <4>1. row' = row
        BY <1>14, <3>2 DEF CommitRemoval
      <4> QED
        BY <3>2, <4>1, LeftOverOne
    <3> QED
      BY <3>1, <3>2
  <2> HIDE DEF l, T
  <2> QED
    BY <2>1, <2>2, <2>3, <2>4 DEF Place
<1>15. CASE CancelNext(c)
  <2>1. CASE Reply(c, "removed") \/ Reply(c, "error")
    BY <1>1, <2>1
  <2>2. ASSUME NEW r \in loc[c].todo, live' = live \ {r},
               GotoWith(c, "markClean", [loc[c] EXCEPT !.rem = r])
        PROVE  Place(c0, c)'
    <3> DEFINE l == [loc[c] EXCEPT !.rem = r]
    <3>1. l.todo = loc[c].todo /\ l.rem = r
      BY <1>0 DEF Locals
    <3> HIDE DEF l
    <3>2. pc'[c] = "markClean" /\ loc'[c] = l
      BY <2>2, GotoWithAt DEF l
    <3>3. r = c0 /\ row.status = "invalidated" /\ row' = row
      BY <1>0, <1>15 DEF CancelNext, At, Place
    <3> QED
      BY <1>0, <2>2, <3>1, <3>2, <3>3 DEF Place
  <2> QED
    BY <1>15, <2>1, <2>2 DEF CancelNext
<1>16. CASE MarkClean(c)
  <2> DEFINE l == [loc[c] EXCEPT !.rem = None, !.todo = loc[c].todo \ {loc[c].rem}]
  <2>1. l.todo = loc[c].todo \ {loc[c].rem}
    BY <1>0 DEF Locals
  <2> HIDE DEF l
  <2>2. pc'[c] = "cancelNext" /\ loc'[c] = l
    BY <1>16, GotoWithAt DEF MarkClean, l
  <2>3. loc[c].todo \subseteq {c0} /\ loc[c].rem = c0
    BY <1>0, <1>16 DEF MarkClean, At, Place
  <2> QED
    BY <2>1, <2>2, <2>3 DEF Place
<1> QED
  BY <1>1, <1>2, <1>3, <1>4, <1>5, <1>6, <1>7, <1>8, <1>9, <1>10, <1>11, <1>12,
     <1>13, <1>14, <1>15, <1>16, SettledActions

(* Whatever a call does, it moves alone. *)
LEMMA Alone ==
    ASSUME TypeOK, NEW c0 \in Creates, Creates = {c0}, Settled(c0), NEW c \in Calls,
           Begin(c) \/ Step(c) \/ Crash(c)
    PROVE  Others(c)
<1> DEFINE Moves == \/ \E s : Goto(c, s)
                    \/ \E s, l : GotoWith(c, s, l)
                    \/ \E r : Reply(c, r)
<1>0. Place(c0, c) /\ c \notin Creates
  BY SettledActions DEF Settled
<1>1. CASE BeginAnswer(c) \/ BeginSweep(c) \/ BeginRemove(c) \/ CheckFriendship(c)
  <2>1. Moves
    BY <1>1 DEF BeginAnswer, BeginSweep, BeginRemove, CheckFriendship
  <2> QED
    BY <2>1, GotoAt, GotoWithAt, ReplyAt
<1>2. CASE \/ Invalidate(c) \/ CreateRuntime(c) \/ InsertProjection(c) \/ FindExisting(c)
           \/ CancelDuplicate(c) \/ CancelOwn(c)
  <2>1. Moves
    BY <1>2 DEF Invalidate, CreateRuntime, InsertProjection, FindExisting,
                CancelDuplicate, CancelOwn, ProjectionFailed
  <2> QED
    BY <2>1, GotoAt, GotoWithAt, ReplyAt
<1>3. CASE \/ CleanupCancel(c) \/ CleanupDelete(c) \/ FindInvitee(c)
           \/ Reconcile(c) \/ Expire(c) \/ Claim(c) \/ RollbackClaim(c)
  <2>1. Moves
    BY <1>3 DEF CleanupCancel, CleanupDelete, FindInvitee, Reconcile, Expire, Claim,
                RollbackClaim
  <2> QED
    BY <2>1, GotoAt, GotoWithAt, ReplyAt
<1>4. CASE \/ FinalizeAccept(c) \/ ResolveRequester(c) \/ CancelRequester(c)
           \/ Transition(c) \/ RecordEvent(c) \/ SweepAccept(c)
  <2>1. Moves
    BY <1>4 DEF FinalizeAccept, ResolveRequester, CancelRequester, Transition,
                RecordEvent, SweepAccept
  <2> QED
    BY <2>1, GotoAt, GotoWithAt, ReplyAt
<1>5. CASE CommitRemoval(c) \/ CancelNext(c) \/ MarkClean(c)
  <2>1. Moves
    BY <1>5 DEF CommitRemoval, CancelNext, MarkClean
  <2> QED
    BY <2>1, GotoAt, GotoWithAt, ReplyAt
<1>6. CASE Crash(c)
  BY <1>6 DEF Crash, TypeOK, Others
<1> QED
  BY <1>1, <1>2, <1>3, <1>4, <1>5, <1>6, SettledActions

(* The requester's side of the request, and the friendship. *)
LEMMA SidesKept ==
    ASSUME TypeOK, NEW c0 \in Creates, Creates = {c0}, Settled(c0), NEW c \in Calls,
           Begin(c) \/ Step(c) \/ Crash(c)
    PROVE  /\ active' \in (1..nfriend') \cup {None}
           /\ IsPending' => active' = 1
           /\ \/ row'.requesterReminderId = c0 /\ proj'["requester"] = c0
              \/ /\ row'.status = "invalidated" /\ c0 \notin live'
                 /\ row'.requesterReminderId = None /\ proj'["requester"] = None
<1> DEFINE Kept == /\ row'.requesterReminderId = row.requesterReminderId
                   /\ proj'["requester"] = proj["requester"]
           Sides == \/ row'.requesterReminderId = c0 /\ proj'["requester"] = c0
                    \/ /\ row'.status = "invalidated" /\ c0 \notin live'
                       /\ row'.requesterReminderId = None /\ proj'["requester"] = None
<1>0. /\ c \notin Creates /\ Place(c0, c) /\ Mild(c0) /\ row \in Row
      /\ proj \in [Roles -> Reminders \cup {None}] /\ c0 # None
      /\ "requester" \in Roles /\ RoleOf(c) = "invitee"
  BY SettledActions, MildStep, RowType, NoneAssumption
     DEF Settled, TypeOK, Roles, RoleOf, Calls
<1>1. Kept => Sides
  <2>1. row.status = "invalidated" => row'.status = "invalidated"
    BY <1>0 DEF Mild, Terminal
  <2> QED
    BY <1>0, <2>1 DEF Settled, Mild
<1>2. UNCHANGED <<active, nfriend>> =>
        /\ active' \in (1..nfriend') \cup {None}
        /\ IsPending' => active' = 1
  BY <1>0 DEF Settled, Mild
<1> HIDE DEF Kept, Sides
<1>3. CASE \/ BeginAnswer(c) \/ BeginSweep(c) \/ BeginRemove(c) \/ CheckFriendship(c)
           \/ CreateRuntime(c) \/ FindExisting(c) \/ CancelDuplicate(c)
           \/ CancelOwn(c) \/ CleanupCancel(c) \/ FindInvitee(c)
           \/ ResolveRequester(c) \/ CancelRequester(c) \/ RecordEvent(c)
           \/ CancelNext(c) \/ Crash(c)
  <2>1. UNCHANGED <<active, nfriend, row, proj>>
    BY <1>3 DEF BeginAnswer, BeginSweep, BeginRemove, CheckFriendship, CreateRuntime,
         FindExisting, CancelDuplicate, CancelOwn, CleanupCancel, FindInvitee,
         ResolveRequester, CancelRequester, RecordEvent, CancelNext, Crash, world
  <2> QED
    BY <1>1, <1>2, <2>1 DEF Kept, Sides
<1>4. CASE \/ Invalidate(c) \/ Reconcile(c) \/ Expire(c) \/ Claim(c)
           \/ RollbackClaim(c) \/ FinalizeAccept(c) \/ Transition(c) \/ SweepAccept(c)
  <2>1. UNCHANGED <<active, nfriend, proj>>
    BY <1>4 DEF Invalidate, Reconcile, Expire, Claim, RollbackClaim, FinalizeAccept,
         Transition, SweepAccept
  <2>2. row'.requesterReminderId = row.requesterReminderId
    BY <1>0, <1>4 DEF Invalidate, Reconcile, Expire, Claim, RollbackClaim,
         FinalizeAccept, Transition, SweepAccept, Row
  <2> QED
    BY <1>1, <1>2, <2>1, <2>2 DEF Kept, Sides
<1>5. CASE InsertProjection(c) \/ CleanupDelete(c)
  <2>1. UNCHANGED <<active, nfriend, row>>
    BY <1>5 DEF InsertProjection, CleanupDelete
  <2>2. proj'["requester"] = proj["requester"]
    BY <1>0, <1>5 DEF InsertProjection, CleanupDelete
  <2> QED
    BY <1>1, <1>2, <2>1, <2>2 DEF Kept, Sides
<1>6. CASE CommitRemoval(c)
  <2>1. Kept
    BY <1>0, <1>6 DEF CommitRemoval, Kept, Row
  <2>2. active' \in {active, None} /\ nfriend' = nfriend
    BY <1>6 DEF CommitRemoval
  <2>3. IsPending' => active' = 1
    <3> SUFFICES ASSUME IsPending' PROVE active' = 1
      OBVIOUS
    <3>1. IsPending /\ active = 1 /\ row.friendshipId = 1
      BY <1>0 DEF Mild, Settled
    <3>2. ~loc[c].made
      BY <1>0, <1>6 DEF CommitRemoval, IsPending, Row, Pending
    <3>3. loc[c].friend # 1
      BY <1>0, <1>6, <3>1, <3>2 DEF CommitRemoval, At, Place, PendingUnder
    <3> QED
      BY <1>6, <3>1, <3>3 DEF CommitRemoval
  <2> QED
    BY <1>1, <2>1, <2>2, <2>3 DEF Settled, Sides
<1>7. CASE MarkClean(c)
  <2>1. /\ row.status = "invalidated" /\ loc[c].rem = c0 /\ c0 \notin live
        /\ UNCHANGED <<active, nfriend, live>>
    BY <1>0, <1>7 DEF MarkClean, At, Place
  <2>2. row'.requesterReminderId = None /\ proj'["requester"] = None
        /\ row'.status = row.status
    BY <1>0, <1>7, <2>1 DEF MarkClean, Row, Settled
  <2> QED
    BY <1>2, <2>1, <2>2 DEF Sides
<1> QED
  BY <1>3, <1>4, <1>5, <1>6, <1>7, SettledActions DEF Sides

LEMMA SettledStep ==
    ASSUME TypeOK, NEW c0 \in Creates, Creates = {c0}, Settled(c0), [Next]_vars
    PROVE  Settled(c0)'
<1>0. nfriend' \in Nat
  BY TypeStep DEF TypeOK, Friendships
<1>1. ASSUME NEW c \in Calls, Begin(c) \/ Step(c) \/ Crash(c) PROVE Settled(c0)'
  <2>1. Others(c) /\ c # c0 /\ Mild(c0)
    BY <1>1, Alone, MildStep, SettledActions
  <2>2. ASSUME NEW d \in Calls PROVE Place(c0, d)'
    <3>1. CASE d = c
      BY <1>1, <3>1, OwnPlace
    <3>2. CASE d # c
      BY <1>0, <2>1, <3>2, OtherPlace DEF Others, Settled
    <3> QED
      BY <3>1, <3>2
  <2>3. pc'[c0] = "done"
    BY <2>1 DEF Others, Settled, Calls
  <2> QED
    BY <1>1, <2>1, <2>2, <2>3, SidesKept DEF Settled, Mild
<1>2. CASE Befriend \/ Tick \/ UNCHANGED vars
  <2>1. /\ UNCHANGED <<row, proj, live, pc, loc>>
        /\ nfriend <= nfriend'
        /\ \/ UNCHANGED <<active, nfriend>>
           \/ active = None /\ active' = nfriend + 1 /\ nfriend' = nfriend + 1
    BY <1>2 DEF Befriend, Tick, vars, TypeOK, Friendships
  <2>2. Mild(c0)
    BY <2>1 DEF Mild, Settled, IsPending
  <2>3. \A d \in Calls : Place(c0, d)'
    BY <1>0, <2>1, <2>2, OtherPlace DEF Settled
  <2>4. active' \in (1..nfriend') \cup {None} /\ (IsPending' => active' = 1)
    BY <2>1, NoneAssumption DEF Settled, TypeOK, Friendships, IsPending
  <2> QED
    BY <2>1, <2>3, <2>4 DEF Settled
<1> QED
  BY <1>1, <1>2 DEF Next

LEMMA SettledStart ==
    ASSUME NEW c0 \in Creates, Creates = {c0}, SettledInit
    PROVE  /\ TypeOK /\ Settled(c0)
           /\ row.status = Pending /\ row.resolvedAt = None
           /\ proj["invitee"] = None /\ live = {c0}
           /\ pc = [d \in Calls |-> IF d = c0 THEN "done" ELSE "idle"]
           /\ reply = [d \in Calls |-> IF d = c0 THEN Pending ELSE "none"]
<1>0. /\ c0 \in Calls /\ c0 # None /\ 1 \in Friendships /\ "none" \in Status
      /\ Pending \in Status /\ Pending # "none" /\ Pending # "invalidated"
  BY NoneAssumption, BoundsAssumption DEF Calls, Friendships, Status, Pending
<1>1. /\ row = [NoRow EXCEPT !.status = Pending, !.friendshipId = 1,
                             !.requesterReminderId = c0]
      /\ proj = [r \in Roles |-> IF r = "requester" THEN c0 ELSE None]
      /\ live = {c0} /\ events = {<<c0, Pending>>}
      /\ pc = [d \in Calls |-> IF d = c0 THEN "done" ELSE "idle"]
      /\ reply = [d \in Calls |-> IF d = c0 THEN Pending ELSE "none"]
      /\ loc = [d \in Calls |-> Blank] /\ now = 0 /\ active = 1 /\ nfriend = 1
      /\ faults = 0 /\ notified = TRUE
  BY DEF SettledInit
<1>2. /\ row \in Row /\ row.status = Pending /\ row.resolvedAt = None
      /\ row.friendshipId = 1 /\ row.requesterReminderId = c0
  BY <1>0, <1>1 DEF NoRow, Row, Reminders
<1>3. /\ proj \in [Roles -> Reminders \cup {None}]
      /\ proj["requester"] = c0 /\ proj["invitee"] = None
  BY <1>0, <1>1 DEF Roles, Reminders
<1>4. TypeOK
  <2>1. /\ pc \in [Calls -> Statements \cup {"idle", "done"}]
        /\ reply \in [Calls -> Status \cup {"error", "swept", "removed"}]
        /\ loc \in [Calls -> Locals]
    BY <1>0, <1>1, BlankType
  <2> QED
    BY <1>0, <1>1, <1>2, <1>3, <2>1 DEF TypeOK, Reminders
<1>5. \A d \in Calls : Place(c0, d)
  BY <1>1, BlankFields DEF Place
<1> QED
  BY <1>0, <1>1, <1>2, <1>3, <1>4, <1>5 DEF Settled

LEMMA SettledHolds ==
    ASSUME NEW c0 \in Creates, Creates = {c0}
    PROVE  SettledSpec => [](TypeOK /\ Settled(c0))
<1>1. SettledInit => TypeOK /\ Settled(c0)
  BY SettledStart
<1>2. TypeOK /\ Settled(c0) /\ [Next]_vars => (TypeOK /\ Settled(c0))'
  BY TypeStep, SettledStep
<1> QED
  BY <1>1, <1>2, PTL DEF SettledSpec

(* A request is pending only under the active friendship: the transaction   *)
(* that removes the friendship invalidates it (friendship-service.ts:455). *)
THEOREM RemovalReachesPending ==
    ASSUME NEW c0 \in Creates, Creates = {c0}
    PROVE  SettledSpec => []NoPendingUnderRemoved
<1>1. Settled(c0) => NoPendingUnderRemoved
  BY DEF Settled, NoPendingUnderRemoved
<1> QED
  BY <1>1, SettledHolds, PTL

-----------------------------------------------------------------------------
(* A removal cleans up *)

(* The steps that are not a removal's leave removals as they are. *)
LEMMA NotRemoving ==
    ASSUME TypeOK, NEW c0 \in Creates, Creates = {c0}, Settled(c0), NEW c \in Calls,
           Begin(c) \/ Step(c) \/ Crash(c),
           ~BeginRemove(c), ~CommitRemoval(c), ~CancelNext(c), ~MarkClean(c)
    PROVE  /\ active' = active /\ nfriend' = nfriend
           /\ pc'[c] \notin {"cancelNext", "markClean"}
           /\ reply'[c] = "removed" => reply[c] = "removed"
           /\ row'.status = "invalidated" => row.status = "invalidated" \/ IsPending
           /\ row'.requesterReminderId = row.requesterReminderId
<1>0. /\ c \notin Creates /\ Place(c0, c) /\ row \in Row /\ "removed" \notin Status
      /\ row.status \in Status
  BY SettledActions, RowType DEF Settled, Status, Pending, Terminal
<1>1. CASE BeginAnswer(c) \/ BeginSweep(c) \/ CheckFriendship(c)
  BY <1>0, <1>1, GotoAt, GotoWithAt, ReplyAt
     DEF BeginAnswer, BeginSweep, CheckFriendship, world, Row
<1>2. CASE \/ CreateRuntime(c) \/ InsertProjection(c) \/ FindExisting(c)
           \/ CancelDuplicate(c) \/ CancelOwn(c)
  <2>1. c \in Accepts
    BY <1>0, <1>2 DEF CreateRuntime, InsertProjection, FindExisting, CancelDuplicate,
                      CancelOwn, At, Place
  <2> QED
    BY <1>2, <2>1, GotoAt, GotoWithAt, FailedAt
       DEF CreateRuntime, InsertProjection, FindExisting, CancelDuplicate, CancelOwn
<1>3. CASE CleanupCancel(c) \/ CleanupDelete(c) \/ FindInvitee(c)
  BY <1>3, GotoAt, GotoWithAt, ReplyAt DEF CleanupCancel, CleanupDelete, FindInvitee, world
<1>4. CASE Invalidate(c) \/ RollbackClaim(c) \/ Claim(c)
  <2>1. /\ active' = active /\ nfriend' = nfriend
        /\ row'.status = "invalidated" => row.status = "invalidated" \/ IsPending
        /\ row'.requesterReminderId = row.requesterReminderId
    BY <1>0, <1>4 DEF Invalidate, RollbackClaim, Claim, Row
  <2>2. \/ Goto(c, "friendship")
        \/ \E r \in Status \cup {"error"} : Reply(c, r)
    BY <1>0, <1>4 DEF Invalidate, RollbackClaim, Claim
  <2> QED
    BY <1>0, <2>1, <2>2, GotoAt, ReplyAt
<1>5. CASE Reconcile(c) \/ Expire(c) \/ SweepAccept(c) \/ FinalizeAccept(c)
  <2>1. /\ active' = active /\ nfriend' = nfriend
        /\ row'.status = "invalidated" => row.status = "invalidated" \/ IsPending
        /\ row'.requesterReminderId = row.requesterReminderId
    BY <1>0, <1>5 DEF Reconcile, Expire, SweepAccept, FinalizeAccept, Row
  <2>2. \/ \E l : GotoWith(c, "event", l)
        \/ \E s \in {"cleanupCancel", "rollback"} : Goto(c, s)
        \/ \E r \in Status \cup {"error", "swept"} : Reply(c, r)
    BY <1>0, <1>5, StatusType DEF Reconcile, Expire, SweepAccept, FinalizeAccept
  <2> QED
    BY <1>0, <2>1, <2>2, GotoAt, GotoWithAt, ReplyAt
<1>7. CASE Transition(c)
  <2>1. Intended(c) # "invalidated"
    BY DEF Intended
  <2> QED
    BY <1>0, <1>7, <2>1, GotoWithAt, ReplyAt DEF Transition, Row
<1>8. CASE ResolveRequester(c) \/ CancelRequester(c)
  BY <1>8, GotoAt, GotoWithAt DEF ResolveRequester, CancelRequester
<1>9. CASE RecordEvent(c)
  <2>1. loc[c].to \in Status
    BY LocType
  <2>2. PICK r \in Status \cup {"error", "swept"} : Reply(c, r)
    BY <1>0, <1>9, <2>1 DEF RecordEvent
  <2> QED
    BY <1>0, <1>9, <2>2, ReplyAt DEF RecordEvent
<1>10. CASE Crash(c)
  BY <1>10 DEF Crash, TypeOK
<1> QED
  BY <1>1, <1>2, <1>3, <1>4, <1>5, <1>7, <1>8, <1>9, <1>10, SettledActions

LEMMA RemovalCallStep ==
    ASSUME TypeOK, NEW c0 \in Creates, Creates = {c0}, Settled(c0), RemovalDone(c0),
           NEW c \in Calls, Begin(c) \/ Step(c) \/ Crash(c)
    PROVE  RemovalDone(c0)'
<1> DEFINE Own == /\ pc'[c] \in {"cancelNext", "markClean"} \/ reply'[c] = "removed" =>
                       active' = None
                  /\ row'.status = "invalidated" /\ row'.requesterReminderId = c0 =>
                       /\ pc'[c] = "cancelNext" => c0 \in loc'[c].todo
                       /\ reply'[c] # "removed"
           (* What the others rely on. *)
           Safe == /\ active = None => active' = None
                   /\ row'.status = "invalidated" => row.status = "invalidated" \/ IsPending
                   /\ row'.requesterReminderId = c0 => row.requesterReminderId = c0
<1>0. /\ Others(c) /\ Place(c0, c) /\ Mild(c0) /\ c0 # None /\ row \in Row
      /\ loc[c] \in Locals /\ Pending # "invalidated" /\ nfriend \in Nat
  BY Alone, MildStep, NoneAssumption, RowType, LocType
     DEF Settled, Calls, Pending, TypeOK, Friendships
<1>1. SUFFICES ASSUME nfriend = 1, nfriend' = 1, Own, Safe PROVE RemovalDone(c0)'
  <2>1. SUFFICES ASSUME nfriend' = 1 PROVE RemovalDone(c0)'
    BY DEF RemovalDone
  <2>2. nfriend' = nfriend
    BY SettledActions
       DEF BeginAnswer, BeginSweep, BeginRemove,
         CheckFriendship, Invalidate, CreateRuntime, InsertProjection, FindExisting,
         CancelDuplicate, CancelOwn, CleanupCancel, CleanupDelete, FindInvitee,
         Reconcile, Expire, Claim, RollbackClaim, FinalizeAccept, ResolveRequester,
         CancelRequester, Transition, RecordEvent, SweepAccept, CommitRemoval,
         CancelNext, MarkClean, Crash, world
  <2>3. Own /\ Safe
    <3>1. nfriend = 1
      BY <2>1, <2>2
    <3>2. /\ pc[c] \in {"cancelNext", "markClean"} \/ reply[c] = "removed" =>
               active = None
          /\ row.status = "invalidated" /\ row.requesterReminderId = c0 =>
               /\ pc[c] = "cancelNext" => c0 \in loc[c].todo
               /\ reply[c] # "removed"
          /\ IsPending => active = 1 /\ active # None
      BY <3>1, NoneAssumption DEF RemovalDone, Settled
    <3>3. CASE ~BeginRemove(c) /\ ~CommitRemoval(c) /\ ~CancelNext(c) /\ ~MarkClean(c)
      BY <3>2, <3>3, NotRemoving DEF IsPending
    <3>4. CASE BeginRemove(c)
      <4>1. UNCHANGED <<active, row>> /\ reply'[c] = reply[c]
        BY <3>4, GotoWithAt DEF BeginRemove, world
      <4>2. PICK f \in 1..nfriend :
               IF active = f
               THEN GotoWith(c, "commitRemoval",
                      [Blank EXCEPT !.friend = f, !.made = PendingUnder(f),
                                    !.rem = row.requesterReminderId])
               ELSE GotoWith(c, "cancelNext", [Blank EXCEPT !.todo = LeftOver(f)])
        BY <3>4 DEF BeginRemove
      <4>3. f = 1
        BY <3>1, <4>2
      <4>4. CASE active = 1
        <5>1. pc'[c] = "commitRemoval"
          BY <4>2, <4>3, <4>4, GotoWithAt
        <5> QED
          BY <3>2, <4>1, <5>1
      <4>5. CASE active # 1
        <5> DEFINE m == [Blank EXCEPT !.todo = LeftOver(f)]
        <5>1. m.todo = LeftOver(f)
          BY DEF Blank
        <5> HIDE DEF m
        <5>2. pc'[c] = "cancelNext" /\ loc'[c] = m
          BY <4>2, <4>3, <4>5, GotoWithAt DEF m
        <5>3. active = None
          BY <3>1, <4>5 DEF Settled
        <5>4. row.status = "invalidated" /\ row.requesterReminderId = c0 =>
                c0 \in LeftOver(f)
          BY <1>0, <4>3 DEF LeftOver, ToCancel, Settled
        <5> QED
          BY <3>2, <4>1, <5>1, <5>2, <5>3, <5>4
      <4> QED
        BY <4>4, <4>5
    <3>5. CASE CommitRemoval(c)
      <4> DEFINE T == IF loc[c].made /\ IsPending
                      THEN ToCancel(loc[c].rem) \cup ToCancel(row.requesterReminderId)
                      ELSE LeftOver(loc[c].friend)
                 l == [loc[c] EXCEPT !.made = FALSE, !.rem = None, !.todo = T]
      <4>1. l.todo = T
        BY <1>0 DEF Locals
      <4> HIDE DEF l
      <4>2. pc'[c] = "cancelNext" /\ loc'[c] = l /\ reply'[c] = reply[c]
        BY <3>5, GotoWithAt DEF CommitRemoval, l
      <4>3. loc[c].friend = 1
        BY <1>0, <3>1, <3>5 DEF CommitRemoval, At, Place
      <4>4. active' = None
        BY <3>1, <3>5, <4>3 DEF CommitRemoval, Settled
      <4>5. row'.requesterReminderId = row.requesterReminderId
        BY <1>0, <3>5 DEF CommitRemoval, Row
      <4>6. row'.status = "invalidated" /\ row'.requesterReminderId = c0 => c0 \in T
        <5>1. CASE loc[c].made /\ IsPending
          BY <1>0, <4>5, <5>1 DEF ToCancel
        <5>2. CASE ~(loc[c].made /\ IsPending)
          <6>1. row' = row
            BY <3>5, <5>2 DEF CommitRemoval
          <6> QED
            BY <1>0, <4>3, <5>2, <6>1 DEF LeftOver, ToCancel, Settled
        <5> QED
          BY <5>1, <5>2
      <4>7. row'.status = "invalidated" => row.status = "invalidated" \/ IsPending
        BY <3>5 DEF CommitRemoval
      <4>8. reply[c] # "removed" \/ row'.status # "invalidated"
            \/ row'.requesterReminderId # c0
        BY <3>2, <4>5, <4>7 DEF IsPending
      <4> HIDE DEF T
      <4> QED
        BY <4>1, <4>2, <4>4, <4>5, <4>6, <4>7, <4>8
    <3>6. CASE CancelNext(c)
      <4>1. UNCHANGED <<active, row>> /\ pc[c] = "cancelNext"
        BY <3>6 DEF CancelNext, At
       <4>2. CASE Reply(c, "error")
        BY <3>2, <4>1, <4>2, ReplyAt
      <4>4. CASE \E r : GotoWith(c, "markClean", [loc[c] EXCEPT !.rem = r])
        <5>1. pc'[c] = "markClean" /\ reply'[c] = reply[c]
          BY <4>4, GotoWithAt
        <5> QED
          BY <3>2, <4>1, <5>1
      <4>3. CASE loc[c].todo = {} /\ Reply(c, "removed")
        BY <3>2, <4>1, <4>3, ReplyAt
      <4> QED
        BY <3>6, <4>2, <4>3, <4>4 DEF CancelNext
    <3>7. CASE MarkClean(c)
      <4>1. /\ pc[c] = "markClean" /\ UNCHANGED active
            /\ row.status = "invalidated" /\ loc[c].rem = c0
        BY <1>0, <3>7 DEF MarkClean, At, Place
      <4>2. row'.requesterReminderId # c0 /\ row'.status = row.status
        BY <1>0, <3>7, <4>1 DEF MarkClean, Row
      <4>3. pc'[c] = "cancelNext" /\ reply'[c] = reply[c]
        BY <3>7, GotoWithAt DEF MarkClean
      <4> QED
        BY <3>2, <4>1, <4>2, <4>3
    <3> QED
      BY <3>3, <3>4, <3>5, <3>6, <3>7
  <2> QED
    BY <2>1, <2>2, <2>3
<1>2. ASSUME NEW d \in Calls
      PROVE  /\ pc'[d] \in {"cancelNext", "markClean"} \/ reply'[d] = "removed" =>
                  active' = None
             /\ row'.status = "invalidated" /\ row'.requesterReminderId = c0 =>
                  /\ pc'[d] = "cancelNext" => c0 \in loc'[d].todo
                  /\ reply'[d] # "removed"
  <2>1. CASE d = c
    BY <1>1, <2>1
  <2>2. CASE d # c
    <3>1. pc'[d] = pc[d] /\ loc'[d] = loc[d] /\ reply'[d] = reply[d]
      BY <1>0, <2>2 DEF Others
    <3>2. IsPending => active # None
      BY NoneAssumption DEF Settled
    <3> QED
      BY <1>1, <3>1, <3>2 DEF RemovalDone
  <2> QED
    BY <2>1, <2>2
<1> QED
  BY <1>2 DEF RemovalDone

LEMMA RemovalStep ==
    ASSUME TypeOK, NEW c0 \in Creates, Creates = {c0}, Settled(c0), RemovalDone(c0),
           [Next]_vars
    PROVE  RemovalDone(c0)'
<1>1. CASE \E c \in Calls : Begin(c) \/ Step(c) \/ Crash(c)
  BY <1>1, RemovalCallStep
<1>2. CASE Befriend
  BY <1>2 DEF Befriend, RemovalDone, TypeOK, Friendships
<1>3. CASE Tick \/ UNCHANGED vars
  BY <1>3 DEF Tick, vars, RemovalDone
<1> QED
  BY <1>1, <1>2, <1>3 DEF Next

(* Once a removal has answered, the invalidated request has no active      *)
(* requester reminder and no requester projection, also when an earlier    *)
(* removal failed or died half-way (friendship-service.ts:306, 317).       *)
THEOREM RemovalCleans ==
    ASSUME NEW c0 \in Creates, Creates = {c0}
    PROVE  SettledSpec => []RemovalCleansUp
<1>1. SettledInit => RemovalDone(c0)
  <2>1. Pending # "removed"
    BY DEF Pending
  <2> QED
    BY <2>1, SettledStart DEF RemovalDone
<1>2. TypeOK /\ Settled(c0) /\ RemovalDone(c0) /\ [Next]_vars => RemovalDone(c0)'
  BY RemovalStep
<1>3. SettledSpec => []RemovalDone(c0)
  BY <1>1, <1>2, SettledHolds, PTL DEF SettledSpec
<1>4. Settled(c0) /\ RemovalDone(c0) => RemovalCleansUp
  <2> SUFFICES ASSUME Settled(c0), RemovalDone(c0), nfriend = 1,
                      row.status = "invalidated",
                      NEW d \in Removes, reply[d] = "removed"
               PROVE  /\ proj["requester"] = None /\ row.requesterReminderId = None
                      /\ live \cap Creates = {}
    BY DEF RemovalCleansUp
  <2>1. row.requesterReminderId # c0
    BY DEF RemovalDone, Calls
  <2> QED
    BY <2>1 DEF Settled
<1> QED
  BY <1>3, <1>4, SettledHolds, PTL

-----------------------------------------------------------------------------
(* A decline leaves no reminder active *)

(* Only the acting call's own reminder can become active. *)
LEMMA LiveStep ==
    ASSUME TypeOK, NEW c0 \in Creates, Creates = {c0}, Settled(c0), NEW c \in Calls,
           Begin(c) \/ Step(c) \/ Crash(c)
    PROVE  /\ live' \subseteq live \cup {c}
           /\ ~CreateRuntime(c) => live' \subseteq live
<1>1. CASE \/ BeginAnswer(c) \/ BeginSweep(c) \/ BeginRemove(c) \/ CheckFriendship(c)
           \/ Invalidate(c) \/ InsertProjection(c) \/ FindExisting(c)
           \/ CleanupDelete(c) \/ FindInvitee(c) \/ Reconcile(c) \/ Expire(c)
           \/ Claim(c) \/ RollbackClaim(c) \/ FinalizeAccept(c) \/ ResolveRequester(c)
           \/ Transition(c) \/ RecordEvent(c) \/ SweepAccept(c) \/ CommitRemoval(c)
           \/ MarkClean(c) \/ Crash(c)
  BY <1>1 DEF BeginAnswer, BeginSweep, BeginRemove, CheckFriendship, Invalidate,
         InsertProjection, FindExisting, CleanupDelete, FindInvitee, Reconcile, Expire,
         Claim, RollbackClaim, FinalizeAccept, ResolveRequester, Transition,
         RecordEvent, SweepAccept, CommitRemoval, MarkClean, Crash, world
<1>2. CASE \/ CreateRuntime(c) \/ CancelDuplicate(c) \/ CancelOwn(c) \/ CleanupCancel(c)
           \/ CancelRequester(c) \/ CancelNext(c)
  BY <1>2 DEF CreateRuntime, CancelDuplicate, CancelOwn, CleanupCancel, CancelRequester,
              CancelNext
<1> QED
  BY <1>1, <1>2, SettledActions

(* Faults are only ever counted up. *)
LEMMA FaultsStep ==
    ASSUME TypeOK, NEW c0 \in Creates, Creates = {c0}, Settled(c0), NEW c \in Calls,
           Begin(c) \/ Step(c) \/ Crash(c), faults' = 0
    PROVE  faults = 0 /\ ~Fault /\ ~Crash(c)
<1>0. faults \in Nat
  BY DEF TypeOK
<1>1. ~Fault
  BY <1>0 DEF Fault
<1>2. ~Crash(c)
  BY <1>1 DEF Crash
<1>3. CASE \/ BeginAnswer(c) \/ BeginSweep(c) \/ BeginRemove(c) \/ CheckFriendship(c)
           \/ Invalidate(c) \/ CleanupDelete(c) \/ FindInvitee(c) \/ Reconcile(c)
           \/ Expire(c) \/ Claim(c) \/ RollbackClaim(c) \/ FinalizeAccept(c)
           \/ Transition(c) \/ RecordEvent(c) \/ SweepAccept(c) \/ CommitRemoval(c)
           \/ MarkClean(c)
  <2>1. faults' = faults
    BY <1>3 DEF BeginAnswer, BeginSweep, BeginRemove, CheckFriendship, Invalidate,
         CleanupDelete, FindInvitee, Reconcile, Expire, Claim, RollbackClaim,
         FinalizeAccept, Transition, RecordEvent, SweepAccept, CommitRemoval, MarkClean,
         world
  <2> QED
    BY <1>1, <1>2, <2>1
<1>4. CASE \/ CreateRuntime(c) \/ InsertProjection(c) \/ FindExisting(c)
           \/ CancelDuplicate(c) \/ CancelOwn(c) \/ CleanupCancel(c)
           \/ ResolveRequester(c) \/ CancelRequester(c) \/ CancelNext(c)
  <2>1. faults' = faults \/ Fault
    BY <1>4 DEF CreateRuntime, InsertProjection, FindExisting, CancelDuplicate,
         CancelOwn, CleanupCancel, ResolveRequester, CancelRequester, CancelNext
  <2> QED
    BY <1>1, <1>2, <2>1
<1> QED
  BY <1>2, <1>3, <1>4, SettledActions

(* Who is about to decline, and who declines. *)
LEMMA DecliningStep ==
    ASSUME TypeOK, NEW c0 \in Creates, Creates = {c0}, Settled(c0), NEW c \in Calls,
           Begin(c) \/ Step(c) \/ Crash(c)
    PROVE  /\ pc'[c] = "transition" => c0 \notin live'
           /\ row'.status \in {"rejected", "cancelled"} =>
                row.status \in {"rejected", "cancelled"} \/ pc[c] = "transition"
<1>0. /\ Place(c0, c) /\ row \in Row /\ Mild(c0) /\ c \notin Creates
      /\ Pending \notin {"rejected", "cancelled"} /\ c0 # None
  BY SettledActions, RowType, MildStep, NoneAssumption DEF Settled, Pending, Calls
<1>1. CASE \/ BeginAnswer(c) \/ BeginSweep(c) \/ BeginRemove(c) \/ CheckFriendship(c)
           \/ FindInvitee(c) \/ RecordEvent(c) \/ CancelNext(c)
  <2>1. row' = row
    BY <1>1 DEF BeginAnswer, BeginSweep, BeginRemove, CheckFriendship, FindInvitee,
                RecordEvent, CancelNext, world
  <2>2. \/ \E s \in {"invalidate", "createRuntime", "finalize", "resolve", "notify",
                      "cancelRequester", "expire", "claim"} : Goto(c, s)
        \/ \E s \in {"findInvitee", "commitRemoval", "cancelNext", "claim", "reconcile",
                      "sweepAccept", "markClean"} : \E l : GotoWith(c, s, l)
        \/ \E r : Reply(c, r)
    BY <1>1 DEF BeginAnswer, BeginSweep, BeginRemove, CheckFriendship, FindInvitee,
                RecordEvent, CancelNext
  <2> QED
    BY <2>1, <2>2, GotoAt, GotoWithAt, ReplyAt
<1>2. CASE \/ CreateRuntime(c) \/ InsertProjection(c) \/ FindExisting(c)
           \/ CancelDuplicate(c) \/ CancelOwn(c)
  <2>1. c \in Accepts
    BY <1>0, <1>2 DEF CreateRuntime, InsertProjection, FindExisting, CancelDuplicate,
                      CancelOwn, At, Place
  <2> QED
    BY <1>2, <2>1, GotoAt, GotoWithAt, FailedAt
       DEF CreateRuntime, InsertProjection, FindExisting, CancelDuplicate, CancelOwn
<1>3. CASE CleanupCancel(c) \/ CleanupDelete(c)
  BY <1>3, GotoAt, ReplyAt DEF CleanupCancel, CleanupDelete
<1>4. CASE \/ Invalidate(c) \/ RollbackClaim(c) \/ Claim(c) \/ Reconcile(c)
           \/ Expire(c) \/ SweepAccept(c) \/ FinalizeAccept(c) \/ CommitRemoval(c)
           \/ MarkClean(c)
  <2>1. row'.status \in {"rejected", "cancelled"} => row.status \in {"rejected", "cancelled"}
    BY <1>0, <1>4 DEF Invalidate, RollbackClaim, Claim, Reconcile, Expire, SweepAccept,
         FinalizeAccept, CommitRemoval, MarkClean, Row
  <2>2. \/ \E s \in {"friendship", "cleanupCancel", "rollback"} : Goto(c, s)
        \/ \E s \in {"event", "cancelNext"} : \E l : GotoWith(c, s, l)
        \/ \E r : Reply(c, r)
    BY <1>4 DEF Invalidate, RollbackClaim, Claim, Reconcile, Expire, SweepAccept,
         FinalizeAccept, CommitRemoval, MarkClean
  <2> QED
    BY <2>1, <2>2, GotoAt, GotoWithAt, ReplyAt
<1>5. CASE ResolveRequester(c)
  <2>1. row' = row /\ live' = live
    BY <1>5 DEF ResolveRequester
  <2>2. CASE proj["requester"] = None
    BY <1>0, <2>1, <2>2 DEF Settled
  <2>3. CASE proj["requester"] # None
    BY <1>5, <2>1, <2>3, GotoAt, GotoWithAt DEF ResolveRequester
  <2> QED
    BY <2>2, <2>3
<1>6. CASE CancelRequester(c)
  <2>1. loc[c].rem = c0 /\ row' = row
    BY <1>0, <1>6 DEF CancelRequester, At, Place
  <2> QED
    BY <1>6, <2>1, GotoAt DEF CancelRequester
<1>7. CASE Transition(c)
  <2>1. pc[c] = "transition" /\ pc'[c] # "transition"
    BY <1>7, GotoWithAt, ReplyAt DEF Transition, At
  <2> QED
    BY <2>1
<1>8. CASE Crash(c)
  BY <1>8 DEF Crash, TypeOK
<1> QED
  BY <1>1, <1>2, <1>3, <1>4, <1>5, <1>6, <1>7, <1>8, SettledActions

(* An accept answers for its reminder until it is cancelled or agreed on. *)
LEMMA AnswerableStep ==
    ASSUME TypeOK, NEW c0 \in Creates, Creates = {c0}, Settled(c0), NEW c \in Calls,
           Begin(c) \/ Step(c) \/ Crash(c), faults' = 0, c \in live',
           c \in live => Answerable(c) \/ row.status = "accepted"
    PROVE  Answerable(c)' \/ row'.status = "accepted"
<1>0. /\ Place(c0, c) /\ row \in Row /\ Mild(c0) /\ c \notin Creates
      /\ loc[c] \in Locals /\ ~Fault /\ ~Crash(c)
      /\ row.status = "accepted" => row'.status = "accepted"
  BY SettledActions, RowType, LocType, MildStep, FaultsStep DEF Settled, Mild, Terminal
<1>1. CASE CreateRuntime(c)
  <2>1. Goto(c, "insertProjection")
    BY <1>0, <1>1 DEF CreateRuntime
  <2> QED
    BY <2>1, GotoAt DEF Answerable
<1>2. CASE ~CreateRuntime(c) /\ ~Answerable(c)
  BY <1>0, <1>2, LiveStep
<1>3. CASE InsertProjection(c)
  <2> DEFINE l == [loc[c] EXCEPT !.rem = c, !.made = TRUE]
  <2>1. l.made
    BY <1>0 DEF Locals
  <2> HIDE DEF l
  <2>2. GotoWith(c, "finalize", l) \/ Goto(c, "findExisting")
    BY <1>0, <1>3 DEF InsertProjection, l
  <2> QED
    BY <2>1, <2>2, GotoAt, GotoWithAt DEF Answerable
<1>4. CASE FindExisting(c)
  <2>1. \/ Goto(c, "cancelOwn")
        \/ \E l : GotoWith(c, "cancelDuplicate", l)
    BY <1>0, <1>4 DEF FindExisting
  <2> QED
    BY <2>1, GotoAt, GotoWithAt DEF Answerable
<1>5. CASE CancelDuplicate(c) \/ CancelOwn(c) \/ CleanupCancel(c)
  <2>1. c \notin live'
    BY <1>0, <1>5 DEF CancelDuplicate, CancelOwn, CleanupCancel
  <2> QED
    BY <2>1
<1>6. CASE FinalizeAccept(c) /\ loc[c].made
  <2>1. CASE HoldsClaim(c)
    BY <1>0, <1>6, <2>1 DEF FinalizeAccept, Row
  <2>2. CASE ~HoldsClaim(c)
    BY <1>0, <1>6, <2>2, GotoAt DEF FinalizeAccept, Answerable
  <2> QED
    BY <2>1, <2>2
<1>7. Answerable(c) =>
        \/ InsertProjection(c) \/ FindExisting(c)
        \/ CancelDuplicate(c) \/ CancelOwn(c) \/ CleanupCancel(c)
        \/ FinalizeAccept(c) /\ loc[c].made
  BY <1>0, SettledActions
     DEF Answerable, BeginAnswer, BeginSweep, BeginRemove,
         CheckFriendship, Invalidate, CreateRuntime, CleanupDelete, FindInvitee,
         Reconcile, Expire, Claim, RollbackClaim, FinalizeAccept, ResolveRequester,
         CancelRequester, Transition, RecordEvent, SweepAccept, CommitRemoval,
         CancelNext, MarkClean, At
<1> QED
  BY <1>1, <1>2, <1>3, <1>4, <1>5, <1>6, <1>7

LEMMA DeclineStep ==
    ASSUME TypeOK, NEW c0 \in Creates, Creates = {c0}, Settled(c0), DeclineDone(c0),
           [Next]_vars
    PROVE  DeclineDone(c0)'
<1>1. ASSUME NEW c \in Calls, Begin(c) \/ Step(c) \/ Crash(c) PROVE DeclineDone(c0)'
  <2>1. /\ Others(c) /\ Mild(c0)
        /\ pc'[c] = "transition" => c0 \notin live'
        /\ row'.status \in {"rejected", "cancelled"} =>
             row.status \in {"rejected", "cancelled"} \/ pc[c] = "transition"
    BY <1>1, Alone, MildStep, DecliningStep
  <2>2. \A d \in Calls : pc'[d] = "transition" => c0 \notin live'
    BY <2>1 DEF Others, Mild, DeclineDone
  <2>3. row'.status \in {"rejected", "cancelled"} => c0 \notin live'
    BY <2>1 DEF Mild, DeclineDone
  <2>4. ASSUME faults' = 0, NEW x \in live' \ {c0}
        PROVE  Answerable(x)' \/ row'.status = "accepted"
    <3>1. faults = 0 /\ live' \subseteq live \cup {c} /\ live' \subseteq Calls
      BY <1>1, <2>4, FaultsStep, LiveStep DEF TypeOK, Reminders
    <3>2. CASE x = c
      BY <1>1, <2>4, <3>1, <3>2, AnswerableStep DEF DeclineDone
    <3>3. CASE x # c
      <4>1. /\ x \in live \ {c0} /\ pc'[x] = pc[x] /\ loc'[x] = loc[x]
        BY <2>1, <2>4, <3>1, <3>3 DEF Others
      <4>2. row.status = "accepted" => row'.status = "accepted"
        BY <2>1 DEF Mild, Terminal
      <4> QED
        BY <3>1, <4>1, <4>2 DEF DeclineDone, Answerable
    <3> QED
      BY <3>2, <3>3
  <2> QED
    BY <2>2, <2>3, <2>4 DEF DeclineDone
<1>2. CASE Befriend \/ Tick \/ UNCHANGED vars
  BY <1>2 DEF Befriend, Tick, vars, DeclineDone, Answerable
<1> QED
  BY <1>1, <1>2 DEF Next

(* When nothing failed, a request that was rejected or cancelled has no    *)
(* active reminder left once every call has answered                       *)
(* (shared-reminder-service.ts:1125, cleanupCreatedProjection).            *)
THEOREM DeclineCancels ==
    ASSUME NEW c0 \in Creates, Creates = {c0}
    PROVE  SettledSpec => []DeclinedCancelled
<1>1. SettledInit => DeclineDone(c0)
  <2>1. Pending \notin {"rejected", "cancelled"}
    BY DEF Pending
  <2> QED
    BY <2>1, SettledStart DEF DeclineDone
<1>2. TypeOK /\ Settled(c0) /\ DeclineDone(c0) /\ [Next]_vars => DeclineDone(c0)'
  BY DeclineStep
<1>3. SettledSpec => []DeclineDone(c0)
  BY <1>1, <1>2, SettledHolds, PTL DEF SettledSpec
<1>4. TypeOK /\ DeclineDone(c0) => DeclinedCancelled
  <2> SUFFICES ASSUME TypeOK, DeclineDone(c0), faults = 0, Quiet,
                      row.status \in {"rejected", "cancelled"}, NEW x \in live
               PROVE  FALSE
    BY DEF DeclinedCancelled
  <2>1. x \in Calls /\ x # c0
    BY DEF DeclineDone, TypeOK, Reminders
  <2>2. Answerable(x)
    BY <2>1 DEF DeclineDone
  <2> QED
    BY <2>1, <2>2 DEF Answerable, Quiet, Statements
<1> QED
  BY <1>3, <1>4, SettledHolds, PTL
-----------------------------------------------------------------------------
(* An accepted request has both its reminders *)

(* A call gets a claim by claiming, keeps its timestamp, and loses the claim *)
(* by leaving.                                                             *)
LEMMA ClaimPlace ==
    ASSUME TypeOK, NEW c0 \in Creates, Creates = {c0}, Settled(c0), NEW c \in Calls,
           Begin(c) \/ Step(c) \/ Crash(c), pc'[c] \in Claiming
    PROVE  /\ loc'[c].at = loc[c].at
           /\ \/ pc[c] \in Claiming
              \/ /\ Claim(c) /\ IsPending /\ Unclaimed(loc[c].at)
                 /\ pc'[c] = "friendship" /\ row'.resolvedAt = loc[c].at
<1>0. /\ Place(c0, c) /\ c \notin Creates /\ loc[c] \in Locals /\ row \in Row
  BY SettledActions, LocType, RowType DEF Settled
<1>1. CASE \/ CheckFriendship(c) \/ CreateRuntime(c) \/ CancelDuplicate(c)
           \/ CancelOwn(c) \/ CleanupCancel(c) \/ CleanupDelete(c) \/ CancelRequester(c)
  <2>1. pc[c] \in Claiming
    BY <1>1 DEF CheckFriendship, CreateRuntime, CancelDuplicate, CancelOwn,
                CleanupCancel, CleanupDelete, CancelRequester, At, Claiming
  <2>2. CreateRuntime(c) \/ CancelDuplicate(c) \/ CancelOwn(c) => c \in Accepts
    BY <1>0 DEF CreateRuntime, CancelDuplicate, CancelOwn, At, Place
  <2>3. \/ loc'[c] = loc[c]
        \/ \E r : Reply(c, r)
    BY <1>1, <2>2, GotoAt, FailedAt
       DEF CheckFriendship, CreateRuntime, CancelDuplicate, CancelOwn,
           CleanupCancel, CleanupDelete, CancelRequester
  <2> QED
    BY <2>1, <2>3, ReplyAt DEF Claiming
<1>2. CASE InsertProjection(c) \/ FindExisting(c) \/ ResolveRequester(c)
  <2> DEFINE M(x) == [loc[c] EXCEPT !.rem = x, !.made = TRUE]
             N(x) == [loc[c] EXCEPT !.rem = x]
  <2>1. \A x : M(x).at = loc[c].at /\ N(x).at = loc[c].at
    BY <1>0 DEF Locals
  <2>2. pc[c] \in Claiming
    BY <1>2 DEF InsertProjection, FindExisting, ResolveRequester, At, Claiming
  <2>3. FindExisting(c) => c \in Accepts
    BY <1>0 DEF FindExisting, At, Place
  <2> HIDE DEF M, N
  <2>4. \/ \E s : Goto(c, s)
        \/ \E s, x : GotoWith(c, s, M(x)) \/ GotoWith(c, s, N(x))
        \/ ProjectionFailed(c) /\ c \in Accepts
    BY <1>2, <2>3 DEF InsertProjection, FindExisting, ResolveRequester, M, N
  <2> QED
    BY <2>1, <2>2, <2>4, GotoAt, GotoWithAt, FailedAt
<1>3. CASE FinalizeAccept(c)
  <2>1. pc[c] \in Claiming
    BY <1>3 DEF FinalizeAccept, At, Claiming
  <2>2. \/ \E s : Goto(c, s)
        \/ \E l : GotoWith(c, "event", l)
        \/ \E r : Reply(c, r)
    BY <1>3 DEF FinalizeAccept
  <2> QED
    BY <2>1, <2>2, GotoAt, GotoWithAt, ReplyAt DEF Claiming
<1>4. CASE \/ BeginAnswer(c) \/ BeginSweep(c) \/ BeginRemove(c) \/ FindInvitee(c)
           \/ Reconcile(c) \/ Expire(c) \/ RollbackClaim(c) \/ Invalidate(c)
           \/ Transition(c) \/ RecordEvent(c) \/ SweepAccept(c) \/ CommitRemoval(c)
           \/ CancelNext(c) \/ MarkClean(c)
  <2>1. \/ \E s \in {"expire", "claim"} : Goto(c, s)
        \/ \E s \in {"findInvitee", "commitRemoval", "cancelNext", "claim", "reconcile",
                      "sweepAccept", "markClean", "event"} : \E l : GotoWith(c, s, l)
        \/ \E r : Reply(c, r)
    BY <1>0, <1>4
       DEF BeginAnswer, BeginSweep, BeginRemove, FindInvitee, Reconcile, Expire,
           RollbackClaim, Invalidate, Transition, RecordEvent, SweepAccept,
           CommitRemoval, CancelNext, MarkClean
  <2> QED
    BY <2>1, GotoAt, GotoWithAt, ReplyAt DEF Claiming
<1>5. CASE Claim(c)
  <2>1. CASE IsPending /\ Unclaimed(loc[c].at)
    BY <1>0, <1>5, <2>1, GotoAt DEF Claim, Row
  <2>2. CASE ~(IsPending /\ Unclaimed(loc[c].at))
    <3>1. \E r : Reply(c, r)
      BY <1>5, <2>2 DEF Claim
    <3> QED
      BY <3>1, ReplyAt DEF Claiming
  <2> QED
    BY <2>1, <2>2
<1>6. CASE Crash(c)
  BY <1>6 DEF Crash, Claiming, TypeOK
<1> QED
  BY <1>1, <1>2, <1>3, <1>4, <1>5, <1>6, SettledActions

LEMMA DecliningPlace ==
    ASSUME TypeOK, NEW c0 \in Creates, Creates = {c0}, Settled(c0), NEW c \in Accepts,
           Begin(c) \/ Step(c) \/ Crash(c), pc[c] \notin Declining
    PROVE  pc'[c] \notin Declining
<1>0. c \in Calls /\ c \notin Creates
  BY SettledActions DEF Calls
<1>1. CASE \/ ResolveRequester(c) \/ CancelRequester(c) \/ Transition(c)
  BY <1>1 DEF ResolveRequester, CancelRequester, Transition, At, Declining
<1>2. CASE \/ BeginAnswer(c) \/ BeginSweep(c) \/ BeginRemove(c) \/ CheckFriendship(c)
           \/ Invalidate(c) \/ CreateRuntime(c) \/ InsertProjection(c) \/ FindExisting(c)
           \/ CancelDuplicate(c) \/ CancelOwn(c) \/ CleanupCancel(c) \/ CleanupDelete(c)
           \/ FindInvitee(c) \/ Reconcile(c) \/ Expire(c) \/ Claim(c) \/ RollbackClaim(c)
           \/ FinalizeAccept(c) \/ RecordEvent(c) \/ SweepAccept(c) \/ CommitRemoval(c)
           \/ CancelNext(c) \/ MarkClean(c)
  <2>1. \/ \E s \in (Statements \cup {"done"}) \ Declining : Goto(c, s)
        \/ \E s \in (Statements \cup {"done"}) \ Declining : \E l : GotoWith(c, s, l)
        \/ \E r : Reply(c, r)
        \/ ProjectionFailed(c)
    <3>1. CASE \/ BeginAnswer(c) \/ BeginSweep(c) \/ BeginRemove(c) \/ CheckFriendship(c)
               \/ Invalidate(c) \/ CreateRuntime(c) \/ InsertProjection(c)
               \/ FindExisting(c) \/ CancelDuplicate(c) \/ CancelOwn(c)
               \/ CleanupCancel(c) \/ CleanupDelete(c)
      BY <1>0, <3>1 DEF BeginAnswer, BeginSweep, BeginRemove, CheckFriendship, Invalidate,
           CreateRuntime, InsertProjection, FindExisting, CancelDuplicate, CancelOwn,
           CleanupCancel, CleanupDelete, Statements, Declining
    <3>2. CASE \/ FindInvitee(c) \/ Reconcile(c) \/ Expire(c) \/ Claim(c)
               \/ RollbackClaim(c) \/ FinalizeAccept(c) \/ RecordEvent(c)
               \/ SweepAccept(c) \/ CommitRemoval(c) \/ CancelNext(c) \/ MarkClean(c)
      BY <1>0, <3>2 DEF FindInvitee, Reconcile, Expire, Claim, RollbackClaim,
           FinalizeAccept, RecordEvent, SweepAccept, CommitRemoval, CancelNext,
           MarkClean, Statements, Declining
    <3> QED
      BY <1>2, <3>1, <3>2
  <2> QED
    BY <1>0, <2>1, GotoAt, GotoWithAt, ReplyAt, FailedAt DEF Declining
<1>3. CASE Crash(c)
  BY <1>0, <1>3 DEF Crash, TypeOK, Declining
<1> QED
  BY <1>0, <1>1, <1>2, <1>3, SettledActions

LEMMA InsertPlace ==
    ASSUME TypeOK, NEW c0 \in Creates, Creates = {c0}, Settled(c0), NEW c \in Calls,
           Begin(c) \/ Step(c) \/ Crash(c), pc'[c] = "insertProjection"
    PROVE  CreateRuntime(c)
<1> DEFINE Elsewhere == (Statements \cup {"done"}) \ {"insertProjection"}
<1>0. /\ c \notin Creates /\ Place(c0, c)
  BY SettledActions DEF Settled
<1>1. CASE \/ BeginAnswer(c) \/ BeginSweep(c) \/ BeginRemove(c) \/ CheckFriendship(c)
           \/ Invalidate(c) \/ InsertProjection(c) \/ FindExisting(c)
           \/ CancelDuplicate(c) \/ CancelOwn(c) \/ CleanupCancel(c) \/ CleanupDelete(c)
           \/ ResolveRequester(c) \/ CancelRequester(c) \/ Transition(c)
           \/ FindInvitee(c) \/ Reconcile(c) \/ Expire(c) \/ Claim(c) \/ RollbackClaim(c)
           \/ FinalizeAccept(c) \/ RecordEvent(c) \/ SweepAccept(c) \/ CommitRemoval(c)
           \/ CancelNext(c) \/ MarkClean(c)
  <2>1. \/ \E s \in Elsewhere : Goto(c, s)
        \/ \E s \in Elsewhere : \E l : GotoWith(c, s, l)
        \/ \E r : Reply(c, r)
        \/ ProjectionFailed(c) /\ c \in Accepts
    <3>1. CASE \/ BeginAnswer(c) \/ BeginSweep(c) \/ BeginRemove(c) \/ CheckFriendship(c)
               \/ Invalidate(c) \/ CleanupCancel(c) \/ CleanupDelete(c)
               \/ ResolveRequester(c) \/ CancelRequester(c) \/ Transition(c)
      BY <1>0, <3>1 DEF BeginAnswer, BeginSweep, BeginRemove, CheckFriendship, Invalidate,
           CleanupCancel, CleanupDelete, ResolveRequester, CancelRequester, Transition,
           Statements
    <3>2. CASE \/ InsertProjection(c) \/ FindExisting(c) \/ CancelDuplicate(c)
               \/ CancelOwn(c)
      <4>1. c \in Accepts
        BY <1>0, <3>2 DEF InsertProjection, FindExisting, CancelDuplicate, CancelOwn,
                          At, Place
      <4> QED
        BY <3>2, <4>1 DEF InsertProjection, FindExisting, CancelDuplicate, CancelOwn,
                          Statements
    <3>3. CASE \/ FindInvitee(c) \/ Reconcile(c) \/ Expire(c) \/ Claim(c)
               \/ RollbackClaim(c) \/ FinalizeAccept(c) \/ RecordEvent(c)
               \/ SweepAccept(c) \/ CommitRemoval(c) \/ CancelNext(c) \/ MarkClean(c)
      BY <1>0, <3>3 DEF FindInvitee, Reconcile, Expire, Claim, RollbackClaim,
           FinalizeAccept, RecordEvent, SweepAccept, CommitRemoval, CancelNext,
           MarkClean, Statements
    <3> QED
      BY <1>1, <3>1, <3>2, <3>3
  <2> QED
    BY <2>1, GotoAt, GotoWithAt, ReplyAt, FailedAt
<1>2. CASE Crash(c)
  BY <1>2 DEF Crash, TypeOK
<1> QED
  BY <1>1, <1>2, SettledActions

(* While the request stays pending, only claims and their return change it. *)
LEMMA ClaimRow ==
    ASSUME TypeOK, NEW c0 \in Creates, Creates = {c0}, Settled(c0), NEW c \in Calls,
           Begin(c) \/ Step(c) \/ Crash(c), IsPending'
    PROVE  \/ row' = row
           \/ Claim(c) /\ Unclaimed(loc[c].at)
           \/ RollbackClaim(c) /\ HoldsClaim(c)
<1>0. /\ row \in Row /\ Pending \notin Terminal /\ IsPending /\ Place(c0, c)
      /\ Pending \notin {"accepted", "expired", "invalidated", "rejected", "cancelled"}
  BY RowType, NotTerminal, MildStep DEF Mild, Pending, Settled
<1>1. CASE \/ BeginAnswer(c) \/ BeginSweep(c) \/ BeginRemove(c)
           \/ CheckFriendship(c) \/ CreateRuntime(c) \/ InsertProjection(c)
           \/ FindExisting(c) \/ CancelDuplicate(c) \/ CancelOwn(c)
           \/ CleanupCancel(c) \/ CleanupDelete(c) \/ FindInvitee(c)
           \/ ResolveRequester(c) \/ CancelRequester(c) \/ RecordEvent(c)
           \/ CancelNext(c) \/ Crash(c)
  BY <1>1 DEF BeginAnswer, BeginSweep, BeginRemove, CheckFriendship, CreateRuntime,
         InsertProjection, FindExisting, CancelDuplicate, CancelOwn, CleanupCancel,
         CleanupDelete, FindInvitee, ResolveRequester, CancelRequester, RecordEvent,
         CancelNext, Crash, world
<1>2. CASE \/ Invalidate(c) \/ Reconcile(c) \/ Expire(c) \/ FinalizeAccept(c)
           \/ SweepAccept(c) \/ Transition(c) \/ CommitRemoval(c)
  <2>1. Intended(c) # Pending
    BY <1>0 DEF Intended
  <2> QED
    BY <1>0, <1>2, <2>1 DEF Invalidate, Reconcile, Expire, FinalizeAccept, SweepAccept,
         Transition, CommitRemoval, Row, IsPending
<1>3. CASE Claim(c) \/ RollbackClaim(c)
  BY <1>3 DEF Claim, RollbackClaim
<1>4. CASE MarkClean(c)
  BY <1>0, <1>4 DEF MarkClean, At, Place, IsPending
<1> QED
  BY <1>1, <1>2, <1>3, <1>4, SettledActions

(* When no claim goes stale, an unclaimed row is one that nobody holds. *)
LEMMA Unheld ==
    ASSUME TypeOK, MaxTime <= StaleAfter, ClockRead, ClaimHeld, IsPending,
           NEW c \in Calls, loc[c].at \in Nat, Unclaimed(loc[c].at)
    PROVE  \A d \in Calls : pc[d] \notin Claiming
<1>1. loc[c].at <= StaleAfter /\ row.resolvedAt \in Nat \cup {None}
  BY RowType, BoundsAssumption DEF ClockRead, ClaimHeld, TypeOK, Row
<1>2. row.resolvedAt = None
  BY <1>1, BoundsAssumption DEF Unclaimed
<1> QED
  BY <1>2 DEF ClaimHeld

LEMMA ClaimHeldStep ==
    ASSUME TypeOK, NEW c0 \in Creates, Creates = {c0}, Settled(c0), ClockRead,
           MaxTime <= StaleAfter, ClaimHeld, [Next]_vars
    PROVE  ClaimHeld'
<1>1. ASSUME NEW c \in Calls, Begin(c) \/ Step(c) \/ Crash(c), IsPending'
      PROVE  \A d \in Calls : pc'[d] \in Claiming =>
               /\ loc'[d].at # None /\ row'.resolvedAt = loc'[d].at
               /\ \A e \in Calls : pc'[e] \in Claiming => e = d
  <2>0. /\ Others(c) /\ IsPending
        /\ \/ row' = row
           \/ Claim(c) /\ Unclaimed(loc[c].at)
           \/ RollbackClaim(c) /\ HoldsClaim(c)
    <3>1. Others(c)
      BY <1>1, Alone
    <3>2. IsPending
      BY <1>1, MildStep DEF Mild
    <3> QED
      BY <1>1, <3>1, <3>2, ClaimRow
  <2>1. CASE Claim(c) /\ Unclaimed(loc[c].at)
    <3>1. loc[c].at \in Nat /\ None \notin Nat
      BY <2>1, NoneAssumption DEF Claim, At, ClockRead, Clocked
    <3>2. \A d \in Calls : pc[d] \notin Claiming
      BY <2>0, <2>1, <3>1, Unheld
    <3>3. \A d \in Calls : pc'[d] \in Claiming => d = c
      BY <2>0, <3>2 DEF Others
    <3> QED
      BY <1>1, <3>1, <3>2, <3>3, ClaimPlace
  <2>2. CASE RollbackClaim(c) /\ HoldsClaim(c)
    <3>1. pc[c] \in Claiming /\ pc'[c] \notin Claiming
      BY <2>2, ReplyAt DEF RollbackClaim, At, Claiming
    <3> QED
      BY <2>0, <3>1 DEF Others, ClaimHeld
  <2>3. CASE row' = row /\ ~(Claim(c) /\ Unclaimed(loc[c].at))
    <3>1. pc'[c] \in Claiming => pc[c] \in Claiming /\ loc'[c].at = loc[c].at
      BY <1>1, <2>3, ClaimPlace
    <3>2. \A d \in Calls : pc'[d] \in Claiming =>
             pc[d] \in Claiming /\ loc'[d].at = loc[d].at
      BY <2>0, <3>1 DEF Others
    <3> QED
      BY <2>0, <2>3, <3>2 DEF ClaimHeld
  <2> QED
    BY <2>0, <2>1, <2>2, <2>3
<1>2. ASSUME NEW c \in Calls, Begin(c) \/ Step(c) \/ Crash(c)
      PROVE  now' = now
  BY <1>2, SettledActions
     DEF BeginAnswer, BeginSweep, BeginRemove,
         CheckFriendship, Invalidate, CreateRuntime, InsertProjection, FindExisting,
         CancelDuplicate, CancelOwn, CleanupCancel, CleanupDelete, FindInvitee,
         Reconcile, Expire, Claim, RollbackClaim, FinalizeAccept, ResolveRequester,
         CancelRequester, Transition, RecordEvent, SweepAccept, CommitRemoval,
         CancelNext, MarkClean, Crash, world
<1>3. ASSUME NEW c \in Calls, Begin(c) \/ Step(c) \/ Crash(c)
      PROVE  ClaimHeld'
  <2>1. \A d \in Accepts : pc'[d] \notin Declining
    BY <1>3, Alone, DecliningPlace DEF Others, ClaimHeld, Calls
  <2> QED
    BY <1>1, <1>2, <1>3, <2>1 DEF ClaimHeld
<1>4. CASE Tick
  BY <1>4, BoundsAssumption DEF Tick, ClaimHeld, IsPending, TypeOK
<1>5. CASE Befriend \/ UNCHANGED vars
  BY <1>5 DEF Befriend, vars, ClaimHeld, IsPending
<1> QED
  BY <1>3, <1>4, <1>5 DEF Next
(* With no failure: what happens to the projections and the reminders, ... *)
LEMMA AcceptWorld ==
    ASSUME TypeOK, NEW c0 \in Creates, Creates = {c0}, Settled(c0), NEW c \in Calls,
           Begin(c) \/ Step(c) \/ Crash(c), ~Fault
    PROVE  /\ \/ proj'["invitee"] = proj["invitee"]
              \/ InsertProjection(c) /\ proj["invitee"] = None /\ proj'["invitee"] = c
              \/ pc[c] = "cleanupDelete"
           /\ \A x \in live \ live' :
                \/ x = c /\ pc[c] \in {"cancelDuplicate", "cancelOwn", "cleanupCancel"}
                \/ x = c0 /\ pc[c] = "cancelRequester" /\ pc'[c] = "transition"
                \/ x = c0 /\ row.status = "invalidated"
<1>0. /\ Place(c0, c) /\ c \notin Creates /\ proj \in [Roles -> Reminders \cup {None}]
      /\ RoleOf(c) = "invitee" /\ "invitee" # "requester" /\ ~Crash(c)
  BY SettledActions DEF Settled, TypeOK, RoleOf, Crash
<1>1. CASE \/ BeginAnswer(c) \/ BeginSweep(c) \/ BeginRemove(c) \/ CheckFriendship(c)
           \/ Invalidate(c) \/ CreateRuntime(c) \/ FindExisting(c) \/ FindInvitee(c)
           \/ Reconcile(c) \/ Expire(c) \/ Claim(c) \/ RollbackClaim(c)
           \/ FinalizeAccept(c) \/ ResolveRequester(c) \/ Transition(c)
           \/ RecordEvent(c) \/ SweepAccept(c) \/ CommitRemoval(c)
  <2>1. proj' = proj /\ live \subseteq live'
    BY <1>0, <1>1 DEF BeginAnswer, BeginSweep, BeginRemove, CheckFriendship, Invalidate,
         CreateRuntime, FindExisting, FindInvitee, Reconcile, Expire, Claim,
         RollbackClaim, FinalizeAccept, ResolveRequester, Transition, RecordEvent,
         SweepAccept, CommitRemoval, world
  <2> QED
    BY <2>1
<1>2. CASE InsertProjection(c)
  <2>1. live' = live
    BY <1>2 DEF InsertProjection
  <2>2. \/ proj'["invitee"] = proj["invitee"]
        \/ proj["invitee"] = None /\ proj'["invitee"] = c
    BY <1>0, <1>2, RoleType DEF InsertProjection
  <2> QED
    BY <1>2, <2>1, <2>2
<1>3. CASE CancelDuplicate(c) \/ CancelOwn(c) \/ CleanupCancel(c)
  BY <1>3 DEF CancelDuplicate, CancelOwn, CleanupCancel, At
<1>4. CASE CleanupDelete(c)
  BY <1>4 DEF CleanupDelete, At
<1>5. CASE CancelRequester(c)
  <2>1. pc[c] = "cancelRequester" /\ loc[c].rem = c0 /\ proj' = proj
    BY <1>0, <1>5 DEF CancelRequester, At, Place
  <2> QED
    BY <1>5, <2>1, GotoAt DEF CancelRequester
<1>6. CASE CancelNext(c)
  <2>1. proj' = proj
    BY <1>6 DEF CancelNext
  <2>2. /\ loc[c].todo \subseteq {c0}
        /\ loc[c].todo = {} \/ row.status = "invalidated"
    BY <1>0, <1>6 DEF CancelNext, At, Place
  <2> QED
    BY <1>6, <2>1, <2>2 DEF CancelNext
<1>7. CASE MarkClean(c)
  BY <1>0, <1>7, RoleType DEF MarkClean
<1> QED
  BY <1>0, <1>1, <1>2, <1>3, <1>4, <1>5, <1>6, <1>7, SettledActions

(* ... and who makes the request accepted, and that nobody changes it then. *)
LEMMA AcceptedRow ==
    ASSUME TypeOK, NEW c0 \in Creates, Creates = {c0}, Settled(c0), NEW c \in Calls,
           Begin(c) \/ Step(c) \/ Crash(c), c \in Accepts => pc[c] \notin Declining
    PROVE  /\ row.status = "accepted" => row' = row
           /\ row'.status = "accepted" =>
                \/ row.status = "accepted"
                \/ /\ IsPending /\ pc[c] \in {"finalize", "reconcile", "sweepAccept"}
                   /\ row'.inviteeReminderId = loc[c].rem /\ pc'[c] = "event"
           /\ pc[c] \in {"finalize", "transition"} /\ HoldsClaim(c) =>
                ~IsPending' \/ Crash(c)
           /\ pc[c] = "finalize" /\ row.status = "accepted" => pc'[c] = "done"
<1>0. /\ row \in Row /\ Place(c0, c) /\ "accepted" # Pending
      /\ Intended(c) # Pending
  BY RowType DEF Settled, Pending, Intended
<1>1. CASE \/ BeginAnswer(c) \/ BeginSweep(c) \/ BeginRemove(c)
           \/ CheckFriendship(c) \/ CreateRuntime(c) \/ InsertProjection(c)
           \/ FindExisting(c) \/ CancelDuplicate(c) \/ CancelOwn(c)
           \/ CleanupCancel(c) \/ CleanupDelete(c) \/ FindInvitee(c)
           \/ ResolveRequester(c) \/ CancelRequester(c) \/ RecordEvent(c)
           \/ CancelNext(c) \/ Crash(c)
  <2>1. row' = row
    BY <1>1 DEF BeginAnswer, BeginSweep, BeginRemove, CheckFriendship, CreateRuntime,
         InsertProjection, FindExisting, CancelDuplicate, CancelOwn, CleanupCancel,
         CleanupDelete, FindInvitee, ResolveRequester, CancelRequester, RecordEvent,
         CancelNext, Crash, world
  <2>2. pc[c] \notin {"finalize", "transition"} \/ Crash(c)
    BY <1>1 DEF BeginAnswer, BeginSweep, BeginRemove, CheckFriendship, CreateRuntime,
         InsertProjection, FindExisting, CancelDuplicate, CancelOwn, CleanupCancel,
         CleanupDelete, FindInvitee, ResolveRequester, CancelRequester, RecordEvent,
         CancelNext, At
  <2>3. Crash(c) => pc'[c] = "done"
    BY DEF Crash, TypeOK
  <2> QED
    BY <2>1, <2>2, <2>3
<1>2. CASE \/ Invalidate(c) \/ Expire(c) \/ Claim(c) \/ RollbackClaim(c)
           \/ CommitRemoval(c) \/ MarkClean(c)
  <2>1. /\ row.status = "accepted" => row' = row
        /\ row'.status = "accepted" => row.status = "accepted"
    BY <1>0, <1>2 DEF Invalidate, Expire, Claim, RollbackClaim, CommitRemoval,
         MarkClean, Row, IsPending, HoldsClaim
  <2>2. pc[c] \notin {"finalize", "transition"}
    BY <1>2 DEF Invalidate, Expire, Claim, RollbackClaim, CommitRemoval, MarkClean, At
  <2> QED
    BY <2>1, <2>2
<1>3. CASE Reconcile(c) \/ SweepAccept(c)
  <2>1. /\ pc[c] \in {"reconcile", "sweepAccept"}
        /\ ~IsPending => row' = row
        /\ row' # row => /\ row'.inviteeReminderId = loc[c].rem
                         /\ \E l : GotoWith(c, "event", l)
    BY <1>0, <1>3 DEF Reconcile, SweepAccept, At, Row, IsPending
  <2>2. row' # row => IsPending /\ pc'[c] = "event"
    BY <2>1, GotoWithAt
  <2> QED
    BY <1>0, <2>1, <2>2 DEF IsPending
<1>4. CASE FinalizeAccept(c)
  <2>1. CASE HoldsClaim(c)
    <3>1. /\ row'.status = "accepted" /\ row'.inviteeReminderId = loc[c].rem
          /\ \E l : GotoWith(c, "event", l)
      BY <1>0, <1>4, <2>1 DEF FinalizeAccept, Row
    <3>2. pc'[c] = "event" /\ pc[c] = "finalize" /\ IsPending
      BY <1>4, <2>1, <3>1, GotoWithAt DEF FinalizeAccept, At, HoldsClaim
    <3> QED
      BY <1>0, <3>1, <3>2 DEF IsPending
  <2>2. CASE ~HoldsClaim(c)
    <3>1. row' = row /\ (row.status = "accepted" => Reply(c, "accepted"))
      BY <1>4, <2>2 DEF FinalizeAccept
    <3> QED
      BY <2>2, <3>1, ReplyAt
  <2> QED
    BY <2>1, <2>2
<1>5. CASE Transition(c)
  <2>1. CASE HoldsClaim(c)
    <3>1. row'.status = Intended(c) /\ pc[c] = "transition" /\ IsPending
      BY <1>0, <1>5, <2>1 DEF Transition, Row, At, HoldsClaim
    <3>2. Intended(c) # "accepted"
      <4>1. c \notin Accepts
        BY <3>1 DEF Declining
      <4> QED
        BY <4>1 DEF Intended
    <3> QED
      BY <1>0, <3>1, <3>2 DEF IsPending
  <2>2. CASE ~HoldsClaim(c)
    <3>1. row' = row /\ pc[c] = "transition"
      BY <1>5, <2>2 DEF Transition, At
    <3> QED
      BY <2>2, <3>1
  <2> QED
    BY <2>1, <2>2
<1> QED
  BY <1>1, <1>2, <1>3, <1>4, <1>5, SettledActions
(* What the acting call knows of its own place, with no failure. *)
LEMMA AcceptingOwn ==
    ASSUME TypeOK, NEW c0 \in Creates, Creates = {c0}, Settled(c0), NEW c \in Calls,
           Begin(c) \/ Step(c) \/ Crash(c), ~Fault, IsPending, IsPending',
           ClaimHeld, ClockRead, MaxTime <= StaleAfter, faults = 0, AcceptDone(c0)
    PROVE  Accepting(c)'
<1>0. /\ Place(c0, c) /\ c \notin Creates /\ loc[c] \in Locals /\ RoleOf(c) = "invitee"
      /\ ~Crash(c) /\ c # None /\ Accepting(c)
      /\ c \in Accepts => pc[c] \notin Declining
      /\ proj \in [Roles -> Reminders \cup {None}] /\ "invitee" \in Roles
  BY SettledActions, LocType, RoleType, NoneAssumption
     DEF Settled, RoleOf, Crash, ClaimHeld, AcceptDone, TypeOK, Declining
<1>1. CASE pc'[c] \notin {"finalize", "findExisting", "cancelDuplicate", "cancelOwn",
                         "cleanupCancel", "cleanupDelete", "findInvitee", "claim",
                         "friendship", "reconcile", "sweepAccept"}
  BY <1>1 DEF Accepting
<1>2. CASE \/ BeginRemove(c) \/ Invalidate(c) \/ CreateRuntime(c) \/ RollbackClaim(c)
           \/ ResolveRequester(c) \/ CancelRequester(c) \/ Transition(c)
           \/ RecordEvent(c) \/ CommitRemoval(c) \/ CancelNext(c) \/ MarkClean(c)
           \/ Reconcile(c) \/ Expire(c) \/ SweepAccept(c)
  <2>1. \/ \E s \in {"insertProjection", "transition"} : Goto(c, s)
        \/ \E s \in {"commitRemoval", "cancelNext", "cancelRequester", "markClean",
                      "event"} : \E l : GotoWith(c, s, l)
        \/ \E r : Reply(c, r)
    BY <1>0, <1>2 DEF BeginRemove, Invalidate, CreateRuntime, RollbackClaim,
         ResolveRequester, CancelRequester, Transition, RecordEvent, CommitRemoval,
         CancelNext, MarkClean, Reconcile, Expire, SweepAccept
  <2> QED
    BY <1>1, <2>1, GotoAt, GotoWithAt, ReplyAt
<1>3. CASE BeginAnswer(c) \/ BeginSweep(c)
  <2> DEFINE l == [Blank EXCEPT !.at = now,
                       !.rem = IF c \in Accepts THEN None ELSE row.requesterReminderId]
             m == [Blank EXCEPT !.at = now]
  <2>1. (c \in Accepts => l.rem = None) /\ m.rem = None
    BY DEF Blank
  <2> HIDE DEF l, m
  <2>2. \/ GotoWith(c, "findInvitee", l) \/ GotoWith(c, "findInvitee", m)
        \/ \E r : Reply(c, r)
    BY <1>3 DEF BeginAnswer, BeginSweep, l, m
  <2>3. \/ pc'[c] = "done"
        \/ pc'[c] = "findInvitee" /\ (c \in Accepts => loc'[c].rem = None)
    BY <2>1, <2>2, GotoWithAt, ReplyAt
  <2> QED
    BY <2>3 DEF Accepting
<1>4. CASE CheckFriendship(c)
  <2>1. c \in Accepts => loc[c].rem = None
    BY <1>0, <1>4 DEF CheckFriendship, At, Accepting
  <2>2. \E s \in {"invalidate", "createRuntime", "resolve", "cancelRequester"} : Goto(c, s)
    BY <1>0, <1>4, <2>1 DEF CheckFriendship
  <2> QED
    BY <1>1, <2>2, GotoAt
<1>5. CASE InsertProjection(c)
  <2>1. pc[c] = "insertProjection" /\ c \in live /\ live' = live
    BY <1>5 DEF InsertProjection, At, AcceptDone
  <2>2. CASE proj["invitee"] = None
    <3> DEFINE l == [loc[c] EXCEPT !.rem = c, !.made = TRUE]
    <3>1. l.rem = c /\ l.made
      BY <1>0 DEF Locals
    <3> HIDE DEF l
    <3>2. GotoWith(c, "finalize", l) /\ proj'["invitee"] = c
      BY <1>0, <1>5, <2>2 DEF InsertProjection, l
    <3>3. pc'[c] = "finalize" /\ loc'[c] = l
      BY <3>2, GotoWithAt
    <3> QED
      BY <2>1, <3>1, <3>2, <3>3 DEF Accepting
  <2>3. CASE proj["invitee"] # None
    <3>1. /\ proj["invitee"] \in Calls /\ pc[proj["invitee"]] = "finalize"
      BY <1>0, <2>3 DEF AcceptDone, Reminders
    <3> QED
      BY <2>1, <3>1 DEF ClaimHeld, Claiming
  <2> QED
    BY <2>2, <2>3
<1>6. CASE \/ FindExisting(c) \/ CancelDuplicate(c) \/ CancelOwn(c)
           \/ CleanupCancel(c) \/ CleanupDelete(c)
  BY <1>0, <1>6 DEF FindExisting, CancelDuplicate, CancelOwn, CleanupCancel,
                    CleanupDelete, At, Accepting
<1>7. CASE FindInvitee(c)
  <2> DEFINE l == [loc[c] EXCEPT !.rem = proj["invitee"]]
  <2>1. l.rem = proj["invitee"]
    BY <1>0 DEF Locals
  <2> HIDE DEF l
  <2>2. pc[c] = "findInvitee" /\ proj' = proj
    BY <1>7 DEF FindInvitee, At, world
  <2>3. \/ /\ proj["invitee"] # None
           /\ \E s \in {"claim", "sweepAccept", "reconcile"} : GotoWith(c, s, l)
        \/ \E s \in {"expire", "claim"} : Goto(c, s)
    BY <1>7 DEF FindInvitee, l
  <2>4. \/ /\ proj["invitee"] # None /\ loc'[c].rem = proj["invitee"]
           /\ pc'[c] \in {"claim", "sweepAccept", "reconcile"}
        \/ pc'[c] \in {"expire", "claim"} /\ loc'[c] = loc[c]
    BY <2>1, <2>3, GotoAt, GotoWithAt
  <2> QED
    BY <1>0, <2>2, <2>4 DEF Accepting
<1>8. CASE Claim(c)
  <2>1. CASE Unclaimed(loc[c].at)
    <3>1. pc[c] = "claim" /\ loc[c].at \in Nat
      BY <1>8 DEF Claim, At, ClockRead, Clocked
    <3>2. \A d \in Calls : pc[d] \notin Claiming
      BY <2>1, <3>1, Unheld
    <3>3. proj["invitee"] = None
      <4>1. proj["invitee"] # None => proj["invitee"] \in Calls
        BY <1>0 DEF Reminders
      <4> QED
        BY <3>2, <4>1 DEF AcceptDone, Claiming
    <3>4. pc'[c] = "friendship" /\ loc'[c] = loc[c]
      BY <1>8, <2>1, GotoAt DEF Claim
    <3> QED
      BY <1>0, <3>1, <3>3, <3>4 DEF Accepting
  <2>2. CASE ~Unclaimed(loc[c].at)
    <3>1. \E r : Reply(c, r)
      BY <1>8, <2>2 DEF Claim
    <3> QED
      BY <1>1, <3>1, ReplyAt
  <2> QED
    BY <2>1, <2>2
<1>9. CASE FinalizeAccept(c)
  <2>1. pc[c] = "finalize"
    BY <1>9 DEF FinalizeAccept, At
  <2>2. HoldsClaim(c)
    BY <2>1 DEF ClaimHeld, Claiming, HoldsClaim
  <2> QED
    BY <1>0, <2>1, <2>2, AcceptedRow
<1> QED
  BY <1>0, <1>2, <1>3, <1>4, <1>5, <1>6, <1>7, <1>8, <1>9, SettledActions

LEMMA AcceptCallStep ==
    ASSUME TypeOK, NEW c0 \in Creates, Creates = {c0}, Settled(c0), NEW c \in Calls,
           Begin(c) \/ Step(c) \/ Crash(c), faults' = 0,
           ClaimHeld, ClockRead, MaxTime <= StaleAfter, AcceptDone(c0)
    PROVE  AcceptDone(c0)'
<1>0. /\ faults = 0 /\ ~Fault /\ ~Crash(c) /\ Others(c) /\ Mild(c0)
      /\ Place(c0, c) /\ pc[c0] = "done" /\ "accepted" # Pending
      /\ proj["invitee"] # None => proj["invitee"] \in Calls
      /\ c \in Accepts => pc[c] \notin Declining
  BY FaultsStep, Alone, MildStep, RoleType
     DEF Settled, Pending, TypeOK, Reminders, ClaimHeld
<1>1. /\ \/ proj'["invitee"] = proj["invitee"]
         \/ InsertProjection(c) /\ proj["invitee"] = None /\ proj'["invitee"] = c
         \/ pc[c] = "cleanupDelete"
      /\ \A x \in live \ live' :
           \/ x = c /\ pc[c] \in {"cancelDuplicate", "cancelOwn", "cleanupCancel"}
           \/ x = c0 /\ pc[c] = "cancelRequester" /\ pc'[c] = "transition"
           \/ x = c0 /\ row.status = "invalidated"
  BY <1>0, AcceptWorld
<1>2. /\ row.status = "accepted" => row' = row
      /\ row'.status = "accepted" =>
           \/ row.status = "accepted"
           \/ /\ IsPending /\ pc[c] \in {"finalize", "reconcile", "sweepAccept"}
              /\ row'.inviteeReminderId = loc[c].rem /\ pc'[c] = "event"
      /\ pc[c] \in {"finalize", "transition"} /\ HoldsClaim(c) => ~IsPending'
      /\ pc[c] = "finalize" /\ row.status = "accepted" => pc'[c] = "done"
  BY <1>0, AcceptedRow
<1>3. ASSUME NEW d \in Calls, pc'[d] = "insertProjection" PROVE d \in live'
  <2>1. CASE d = c
    <3>1. CreateRuntime(c)
      BY <1>0, <1>3, <2>1, InsertPlace
    <3> QED
      BY <1>0, <2>1, <3>1 DEF CreateRuntime
  <2>2. CASE d # c
    <3>1. pc[d] = "insertProjection" /\ d # c0
      BY <1>0, <1>3, <2>2 DEF Others
    <3>2. d \in live
      BY <1>0, <3>1 DEF AcceptDone
    <3> QED
      BY <1>1, <2>2, <3>1, <3>2
  <2> QED
    BY <2>1, <2>2
<1>4. ASSUME IsPending'
      PROVE  /\ c0 \in live' \/ \E d \in Calls : pc'[d] = "transition"
             /\ proj'["invitee"] # None => pc'[proj'["invitee"]] = "finalize"
             /\ \A d \in Calls : Accepting(d)'
  <2>0. /\ IsPending /\ Accepting(c) /\ row.status # "invalidated"
        /\ pc[c] \notin {"finalize", "transition"}
    <3>1. IsPending
      BY <1>0, <1>4 DEF Mild
    <3>2. Accepting(c)
      BY <1>0, <3>1 DEF AcceptDone
    <3>3. pc[c] \notin {"finalize", "transition"}
      BY <1>2, <1>4, <3>1 DEF ClaimHeld, HoldsClaim, Claiming
    <3> QED
      BY <3>1, <3>2, <3>3 DEF IsPending, Pending
  <2>1. c0 \in live' \/ \E d \in Calls : pc'[d] = "transition"
    <3>1. CASE c0 \in live
      BY <1>1, <2>0, <3>1 DEF Accepting
    <3>2. CASE c0 \notin live
      BY <1>0, <2>0, <3>2 DEF AcceptDone, Others
    <3> QED
      BY <3>1, <3>2
  <2>2. \/ proj'["invitee"] = proj["invitee"]
        \/ proj["invitee"] = None /\ proj'["invitee"] = c /\ pc'[c] = "finalize"
    <3>1. CASE InsertProjection(c) /\ proj["invitee"] = None
      BY <1>0, <1>1, <2>0, <3>1, GotoWithAt DEF InsertProjection, RoleOf, Accepting
    <3> QED
      BY <1>1, <2>0, <3>1 DEF Accepting
  <2>3. proj'["invitee"] # None => pc'[proj'["invitee"]] = "finalize"
    BY <1>0, <2>0, <2>2 DEF AcceptDone, Others
  <2>4. ASSUME NEW d \in Calls PROVE Accepting(d)'
    <3>1. CASE d = c
      BY <1>0, <1>4, <2>0, <3>1, AcceptingOwn
    <3>2. CASE d # c
      <4>1. /\ pc'[d] = pc[d] /\ loc'[d] = loc[d] /\ Accepting(d)
        BY <1>0, <2>0, <3>2 DEF Others, AcceptDone
      <4>2. pc[d] = "finalize" => d \in live' /\ proj'["invitee"] = d
        <5> SUFFICES ASSUME pc[d] = "finalize" PROVE d \in live' /\ proj'["invitee"] = d
          OBVIOUS
        <5>1. d \in live /\ proj["invitee"] = d /\ d # None /\ d # c0
          BY <1>0, <4>1, NoneAssumption DEF Accepting
        <5> QED
          BY <1>1, <2>0, <2>2, <5>1 DEF Accepting
      <4> QED
        BY <2>2, <4>1, <4>2 DEF Accepting
    <3> QED
      BY <3>1, <3>2
  <2> QED
    BY <2>1, <2>3, <2>4
<1>5. ASSUME row'.status = "accepted"
      PROVE  /\ row'.inviteeReminderId \in live' /\ c0 \in live'
             /\ \A d \in Calls : pc'[d] \in Claiming => pc'[d] = "finalize"
  <2>1. CASE row.status = "accepted"
    <3>1. /\ row' = row /\ row.inviteeReminderId \in live /\ c0 \in live
          /\ \A d \in Calls : pc[d] \in Claiming => pc[d] = "finalize"
      BY <1>0, <1>2, <2>1 DEF AcceptDone
    <3>2. live \subseteq live'
      BY <1>1, <2>1, <3>1 DEF Claiming
    <3>3. pc'[c] \notin Claiming
      <4>1. ~IsPending
        BY <1>0, <2>1 DEF IsPending
      <4>2. pc'[c] \in Claiming => pc[c] \in Claiming
        BY <4>1, ClaimPlace
      <4> QED
        BY <1>2, <2>1, <3>1, <4>2 DEF Claiming
    <3> QED
      BY <1>0, <3>1, <3>2, <3>3 DEF Others
  <2>2. CASE row.status # "accepted"
    <3>1. /\ IsPending /\ pc[c] \in {"finalize", "reconcile", "sweepAccept"}
          /\ row'.inviteeReminderId = loc[c].rem /\ pc'[c] = "event"
      BY <1>2, <1>5, <2>2
    <3>2. /\ proj["invitee"] \in Calls /\ loc[c].rem = proj["invitee"]
          /\ pc[proj["invitee"]] = "finalize" /\ proj["invitee"] \in live
      <4>1. Accepting(c) /\ c # None
        BY <1>0, <3>1, NoneAssumption DEF AcceptDone
      <4>2. proj["invitee"] # None /\ loc[c].rem = proj["invitee"]
        BY <3>1, <4>1 DEF Accepting
      <4>3. proj["invitee"] \in Calls /\ pc[proj["invitee"]] = "finalize"
        BY <1>0, <3>1, <4>2 DEF AcceptDone
      <4> QED
        BY <1>0, <3>1, <4>2, <4>3 DEF AcceptDone, Accepting
    <3>3. \A d \in Calls : pc[d] \in Claiming => d = proj["invitee"]
      BY <3>1, <3>2 DEF ClaimHeld, Claiming
    <3>4. c0 \in live
      <4>1. c0 \in live \/ \E d \in Calls : pc[d] = "transition"
        BY <1>0, <3>1 DEF AcceptDone
      <4> QED
        BY <3>2, <3>3, <4>1 DEF Claiming
    <3>5. live \subseteq live'
      BY <1>0, <1>1, <3>1 DEF IsPending, Pending
    <3>6. \A d \in Calls : pc'[d] \in Claiming => pc'[d] = "finalize"
      BY <1>0, <3>1, <3>2, <3>3 DEF Others, Claiming
    <3> QED
      BY <3>1, <3>2, <3>4, <3>5, <3>6
  <2> QED
    BY <2>1, <2>2
<1> QED
  BY <1>3, <1>4, <1>5 DEF AcceptDone
(* When no claim can become stale, no external call failed and no process  *)
(* died, an accepted request has both sides' reminders active, and the row *)
(* names them (shared-reminder-service.ts, acceptSharedReminder against    *)
(* reject, cancel, removal, the sweep and duplicate accepts).              *)
THEOREM AcceptedAreLive ==
    ASSUME NEW c0 \in Creates, Creates = {c0}, MaxTime <= StaleAfter
    PROVE  SettledSpec => []AcceptedRemindersLive
<1>1. SettledInit => ClockRead /\ ClaimHeld /\ AcceptDone(c0)
  <2> SUFFICES ASSUME SettledInit PROVE ClockRead /\ ClaimHeld /\ AcceptDone(c0)
    OBVIOUS
  <2>1. /\ now = 0 /\ \A d \in Calls : loc[d] = Blank /\ pc[d] \in {"idle", "done"}
        /\ live = {c0} /\ proj["invitee"] = None /\ row.status = Pending
        /\ Pending # "accepted" /\ None \notin Nat
    BY NoneAssumption, RoleType DEF SettledInit, NoRow, Pending
  <2>2. ClockRead
    BY <2>1, BlankFields DEF ClockRead, Clocked
  <2>3. ClaimHeld
    BY <2>1, BoundsAssumption DEF ClaimHeld, Declining, Claiming, Calls
  <2>4. \A d \in Calls : Accepting(d)
    BY <2>1 DEF Accepting
  <2> QED
    BY <2>1, <2>2, <2>3, <2>4 DEF AcceptDone
<1>2. /\ TypeOK /\ Settled(c0) /\ ClockRead /\ ClaimHeld /\ AcceptDone(c0)
      /\ [Next]_vars
      => AcceptDone(c0)'
  <2> SUFFICES ASSUME TypeOK, Settled(c0), ClockRead, ClaimHeld, AcceptDone(c0),
                      [Next]_vars, faults' = 0
               PROVE  AcceptDone(c0)'
    BY DEF AcceptDone
  <2>1. CASE \E c \in Calls : Begin(c) \/ Step(c) \/ Crash(c)
    BY <2>1, AcceptCallStep
  <2>2. CASE Befriend \/ Tick \/ UNCHANGED vars
    BY <2>2 DEF Befriend, Tick, vars, AcceptDone, Accepting, IsPending
  <2> QED
    BY <2>1, <2>2 DEF Next
<1>3. TypeOK /\ Settled(c0) /\ ClockRead /\ ClaimHeld /\ [Next]_vars => ClaimHeld'
  BY ClaimHeldStep
<1>4. SettledSpec => [](ClockRead /\ ClaimHeld /\ AcceptDone(c0))
  BY <1>1, <1>2, <1>3, ClockStep, SettledHolds, PTL DEF SettledSpec
<1>5. Settled(c0) /\ AcceptDone(c0) => AcceptedRemindersLive
  BY NoneAssumption DEF Settled, AcceptDone, AcceptedRemindersLive
<1> QED
  BY <1>4, <1>5, SettledHolds, PTL
=============================================================================
