----------------------- MODULE SharedReminderRefinement -----------------------
(***************************************************************************)
(* SharedReminder implements SharedReminderLifecycle, for any number of    *)
(* calls, faults and friendships.                                          *)
(*                                                                         *)
(* What a call does to the request follows from where it is and what it    *)
(* holds: an expiring call read the clock at or after fireAt, an accepting *)
(* one holds a reminder, and only a reject or a cancel gets as far as the  *)
(* transition.  OnCourse says so; the steps then map one by one.           *)
(***************************************************************************)
EXTENDS SharedReminderProofs

(* What a call c that is about to execute s with locals l has behind it. *)
Fits(c, s, l) ==
    /\ l.at # None => l.at <= now
    /\ s \in {"insertRow", "findRequester"} => c \in Creates
    /\ s = "friendship" => c \in Creates \cup Answers
    /\ s = "claim" => c \in Answers
    /\ s \in {"resolve", "cancelRequester", "transition"} => c \in Rejects \cup Cancels
    /\ s = "findInvitee" => c \in Answers \cup Sweeps /\ l.at # None
    /\ s = "findInvitee" /\ c \in Sweeps => FireAt <= l.at
    /\ s = "expire" => l.at # None /\ FireAt <= l.at
    /\ s \in {"reconcile", "sweepAccept", "cancelDuplicate", "finalize"} => l.rem # None

CallsFit == \A c \in Calls : Fits(c, pc[c], loc[c])

OnCourse == CallsFit /\ (row.status = "none" => row.inviteeReminderId = None)

(* The moves of the abstract request, in terms of the row. *)
SameGrant == row'.inviteeReminderId = row.inviteeReminderId
Still == row'.status = row.status /\ SameGrant
Asks == row.status = "none" /\ row'.status = Pending /\ row'.inviteeReminderId = None
Grants == IsPending /\ row'.status = "accepted" /\ row'.inviteeReminderId \in Reminders
Declines == /\ IsPending /\ SameGrant
            /\ row'.status \in {"rejected", "cancelled", "invalidated"}
Lapses == IsPending /\ row'.status = "expired" /\ SameGrant /\ FireAt <= now

Moves == now' = now /\ (Still \/ Asks \/ Grants \/ Declines \/ Lapses)

LEMMA MovesRefine ==
    ASSUME TypeOK, OnCourse, Moves
    PROVE  /\ Lifecycle!LNext \/ UNCHANGED Lifecycle!lifecycleVars
           /\ row'.status = "none" => row'.inviteeReminderId = None
<1> USE DEF Moves, Lifecycle!LNext, Lifecycle!lifecycleVars, Lifecycle!Undecided
<1>1. CASE Still
  BY <1>1 DEF Still, SameGrant, OnCourse
<1>2. CASE Asks
  BY <1>2 DEF Asks, OnCourse, Lifecycle!Ask, Pending
<1>3. CASE Grants
  BY <1>3 DEF Grants, IsPending, Pending, Lifecycle!Accept
<1>4. CASE Declines
  BY <1>4 DEF Declines, SameGrant, IsPending, Pending, Lifecycle!Decline
<1>5. CASE Lapses
  BY <1>5, BoundsAssumption
     DEF Lapses, SameGrant, IsPending, Pending, Lifecycle!Lapse, TypeOK
<1> QED
  BY <1>1, <1>2, <1>3, <1>4, <1>5

(* Where the control operators lead, the others stay as they were. *)
LEMMA GotoFits ==
    ASSUME TypeOK, CallsFit, now' = now, NEW c \in Calls, NEW s,
           Fits(c, s, loc[c]), Goto(c, s)
    PROVE  CallsFit'
  BY DEF TypeOK, CallsFit, Goto, Fits

LEMMA GotoWithFits ==
    ASSUME TypeOK, CallsFit, now' = now, NEW c \in Calls, NEW s, NEW l \in Locals,
           Fits(c, s, l), GotoWith(c, s, l)
    PROVE  CallsFit'
  BY DEF TypeOK, CallsFit, GotoWith, Fits

LEMMA ReplyFits ==
    ASSUME TypeOK, CallsFit, now' = now, NEW c \in Calls, NEW r, Reply(c, r)
    PROVE  CallsFit'
  BY DEF TypeOK, CallsFit, Reply, Fits, Blank

LEMMA CallKinds ==
    /\ Answers = Accepts \cup Rejects \cup Cancels
    /\ Calls = Creates \cup Answers \cup Sweeps \cup Removes
    /\ \A c \in Reminders : c # None
  BY NoneAssumption DEF Answers, Calls, Reminders

(* The statements after which nothing is known but the clock reading. *)
LEMMA PlainFits ==
    ASSUME TypeOK, CallsFit, NEW c \in Calls, NEW l, l.at = loc[c].at,
           NEW s \in {"setRequester", "cancelRow", "invalidate", "createRuntime",
                      "insertProjection", "findExisting", "cancelOwn",
                      "cleanupCancel", "cleanupDelete", "rollback", "event",
                      "notify", "commitRemoval", "cancelNext", "markClean"}
    PROVE  Fits(c, s, l)
  BY DEF CallsFit, Fits

LEMMA KeepsAtAndRem ==
    ASSUME NEW l \in Locals
    PROVE  /\ [l EXCEPT !.own = TRUE].at = l.at
           /\ \A x \in Reminders \cup {None} :
                /\ [l EXCEPT !.rem = x].at = l.at
                /\ [l EXCEPT !.rem = x].rem = x
           /\ \A x \in Reminders \cup {None} :
                /\ [l EXCEPT !.rem = x, !.made = TRUE].at = l.at
                /\ [l EXCEPT !.rem = x, !.made = TRUE].rem = x
           /\ \A x \in Reminders \cup {None}, t \in SUBSET Reminders :
                [l EXCEPT !.rem = x, !.todo = t].at = l.at
           /\ \A t \in SUBSET Reminders :
                [l EXCEPT !.made = FALSE, !.rem = None, !.todo = t].at = l.at
           /\ \A x \in Status : [l EXCEPT !.to = x].at = l.at
  BY DEF Locals

(* Every statement of a call stays on course, and moves the request the    *)
(* way the lifecycle allows.                                               *)
LEMMA CourseStep ==
    ASSUME TypeOK, OnCourse, NEW c \in Calls, Begin(c) \/ Step(c) \/ Crash(c)
    PROVE  CallsFit' /\ Moves
<1> USE StatusType
<1>0. CallsFit
  BY DEF OnCourse
<1>1. CASE BeginCreate(c)
  <2>1. CallsFit'
    <3>1. active # None => [Blank EXCEPT !.friend = active] \in Locals
      BY BlankType, LocalsType DEF TypeOK
    <3>2. Fits(c, "insertRow", [Blank EXCEPT !.friend = active])
      BY <1>1 DEF Fits, Blank, BeginCreate
    <3> QED
      BY <1>1, <1>0, <3>1, <3>2, GotoWithFits, ReplyFits DEF BeginCreate, world
  <2>2. Moves
    BY <1>1 DEF BeginCreate, Moves, Still, SameGrant, world
  <2> QED
    BY <2>1, <2>2
<1>2. CASE InsertRow(c)
  <2>1. CallsFit'
    <3>1. c \in Creates /\ loc[c] \in Locals
      BY <1>2, <1>0, LocType DEF CallsFit, Fits, InsertRow, At
    <3>2. Fits(c, "findRequester", loc[c])
      BY <1>0, <3>1 DEF CallsFit, Fits
    <3> DEFINE l == [loc[c] EXCEPT !.own = TRUE]
    <3>3. l \in Locals /\ l.at = loc[c].at
      BY <3>1, LocalsType, KeepsAtAndRem
    <3>4. Fits(c, "friendship", l)
      BY <1>0, <3>1, <3>3 DEF CallsFit, Fits
    <3> QED
      BY <1>2, <1>0, <3>2, <3>3, <3>4, GotoFits, GotoWithFits, ReplyFits DEF InsertRow
  <2>2. Moves
    <3>1. CASE row' = [NoRow EXCEPT !.status = Pending, !.friendshipId = loc[c].friend]
      BY <1>2, <3>1, NotTerminal DEF InsertRow, Moves, Asks, Still, SameGrant, NoRow, IsPending, OnCourse
    <3>2. CASE row' = row
      BY <1>2, <3>2 DEF InsertRow, Moves, Still, SameGrant
    <3> QED
      BY <1>2, <3>1, <3>2 DEF InsertRow
  <2> QED
    BY <2>1, <2>2
<1>3. CASE FindRequester(c)
  <2>1. CallsFit'
    <3> DEFINE l == [loc[c] EXCEPT !.rem = proj["requester"]]
    <3>1. l \in Locals /\ l.at = loc[c].at
      BY LocType, LocalsType, KeepsAtAndRem, ProjType, RoleType
    <3>2. Fits(c, "friendship", loc[c])
      BY <1>3, <1>0 DEF CallsFit, Fits, FindRequester, At
    <3> QED
      BY <1>3, <1>0, <3>1, <3>2, PlainFits, GotoFits, GotoWithFits DEF FindRequester, world
  <2>2. Moves
    BY <1>3 DEF FindRequester, Moves, Still, SameGrant, world
  <2> QED
    BY <2>1, <2>2
<1>4. CASE SetRequester(c)
  <2>1. CallsFit'
    BY <1>4, <1>0, PlainFits, GotoFits, ReplyFits DEF SetRequester
  <2>2. Moves
    BY <1>4, RowType DEF SetRequester, Moves, Still, SameGrant, Row
  <2> QED
    BY <2>1, <2>2
<1>5. CASE CancelRow(c)
  <2>1. CallsFit'
    BY <1>5, <1>0, ReplyFits DEF CancelRow
  <2>2. Moves
    BY <1>5, RowType DEF CancelRow, Moves, Still, Declines, SameGrant, IsPending, Row
  <2> QED
    BY <2>1, <2>2
<1>6. CASE FinalizeRequester(c)
  <2>1. CallsFit'
    <3> DEFINE l == [loc[c] EXCEPT !.to = Pending]
    <3>1. l \in Locals /\ l.at = loc[c].at
      BY LocType, LocalsType, KeepsAtAndRem
    <3> QED
      BY <1>6, <1>0, <3>1, PlainFits, GotoFits, GotoWithFits, ReplyFits DEF FinalizeRequester
  <2>2. Moves
    BY <1>6, RowType DEF FinalizeRequester, Moves, Still, SameGrant, Row
  <2> QED
    BY <2>1, <2>2
<1>7. CASE Notify(c)
  <2>1. CallsFit'
    BY <1>7, <1>0, PlainFits, GotoFits, ReplyFits DEF Notify
  <2>2. Moves
    BY <1>7, RowType DEF Notify, Moves, Still, SameGrant, Row
  <2> QED
    BY <2>1, <2>2
<1>8. CASE CheckFriendship(c)
  <2>1. CallsFit'
    <3> DEFINE s == IF active # row.friendshipId THEN "invalidate"
               ELSE IF c \in Creates THEN "createRuntime"
               ELSE IF c \in Accepts
               THEN IF loc[c].rem = None THEN "createRuntime" ELSE "finalize"
               ELSE IF loc[c].rem = None THEN "resolve" ELSE "cancelRequester"
    <3>1. c \in Creates \cup Answers
      BY <1>8, <1>0 DEF CallsFit, Fits, CheckFriendship, At
    <3>2. Fits(c, s, loc[c])
      BY <1>0, <3>1, CallKinds DEF CallsFit, Fits
    <3> QED
      BY <1>8, <1>0, <3>2, GotoFits DEF CheckFriendship, world
  <2>2. Moves
    BY <1>8 DEF CheckFriendship, Moves, Still, SameGrant, world
  <2> QED
    BY <2>1, <2>2
<1>9. CASE Invalidate(c)
  <2>1. CallsFit'
    BY <1>9, <1>0, ReplyFits DEF Invalidate
  <2>2. Moves
    BY <1>9, RowType DEF Invalidate, Moves, Still, Declines, SameGrant, IsPending, Row
  <2> QED
    BY <2>1, <2>2
<1>10. CASE CreateRuntime(c)
  <2>1. CallsFit'
    BY <1>10, <1>0, PlainFits, GotoFits, ReplyFits DEF CreateRuntime, ProjectionFailed
  <2>2. Moves
    BY <1>10 DEF CreateRuntime, Moves, Still, SameGrant
  <2> QED
    BY <2>1, <2>2
<1>11. CASE InsertProjection(c)
  <2>1. CallsFit'
    <3> DEFINE l == [loc[c] EXCEPT !.rem = c, !.made = TRUE]
    <3>1. l \in Locals /\ l.at = loc[c].at /\ l.rem = c
      BY LocType, LocalsType, KeepsAtAndRem DEF Reminders
    <3>2. Fits(c, "finalize", l)
      BY <1>0, <3>1, CallKinds DEF CallsFit, Fits, Reminders
    <3> QED
      BY <1>11, <1>0, <3>1, <3>2, PlainFits, GotoFits, GotoWithFits DEF InsertProjection
  <2>2. Moves
    BY <1>11 DEF InsertProjection, Moves, Still, SameGrant
  <2> QED
    BY <2>1, <2>2
<1>12. CASE FindExisting(c)
  <2>1. CallsFit'
    <3> DEFINE r == proj[RoleOf(c)]
               l == [loc[c] EXCEPT !.rem = r]
    <3>1. l \in Locals /\ l.at = loc[c].at /\ l.rem = r
      BY LocType, LocalsType, KeepsAtAndRem, ProjType, RoleType
    <3>2. r # None => Fits(c, "cancelDuplicate", l)
      BY <1>0, <3>1 DEF CallsFit, Fits
    <3> QED
      BY <1>12, <1>0, <3>1, <3>2, PlainFits, GotoFits, GotoWithFits, ReplyFits
         DEF FindExisting, ProjectionFailed
  <2>2. Moves
    BY <1>12 DEF FindExisting, Moves, Still, SameGrant
  <2> QED
    BY <2>1, <2>2
<1>13. CASE CancelDuplicate(c)
  <2>1. CallsFit'
    <3>1. Fits(c, "finalize", loc[c])
      BY <1>13, <1>0 DEF CallsFit, Fits, CancelDuplicate, At
    <3> QED
      BY <1>13, <1>0, <3>1, PlainFits, GotoFits, ReplyFits DEF CancelDuplicate, ProjectionFailed
  <2>2. Moves
    BY <1>13 DEF CancelDuplicate, Moves, Still, SameGrant
  <2> QED
    BY <2>1, <2>2
<1>14. CASE CancelOwn(c)
  <2>1. CallsFit'
    BY <1>14, <1>0, PlainFits, GotoFits, ReplyFits DEF CancelOwn, ProjectionFailed
  <2>2. Moves
    BY <1>14 DEF CancelOwn, Moves, Still, SameGrant
  <2> QED
    BY <2>1, <2>2
<1>15. CASE CleanupCancel(c)
  <2>1. CallsFit'
    BY <1>15, <1>0, PlainFits, GotoFits, ReplyFits DEF CleanupCancel
  <2>2. Moves
    BY <1>15 DEF CleanupCancel, Moves, Still, SameGrant
  <2> QED
    BY <2>1, <2>2
<1>16. CASE CleanupDelete(c)
  <2>1. CallsFit'
    BY <1>16, <1>0, PlainFits, GotoFits, ReplyFits DEF CleanupDelete
  <2>2. Moves
    BY <1>16, RowType DEF CleanupDelete, Moves, Still, SameGrant, Row
  <2> QED
    BY <2>1, <2>2
<1>17. CASE BeginAnswer(c)
  <2>1. CallsFit'
    <3> DEFINE l == [Blank EXCEPT !.at = now, !.rem = IF c \in Accepts THEN None
                                                     ELSE row.requesterReminderId]
    <3>1. l \in Locals /\ l.at = now
      BY BlankType, RowType DEF Locals, TypeOK, Blank
    <3>2. c \in Answers /\ c \notin Sweeps
      BY <1>17, CallsAssumption DEF BeginAnswer, Answers
    <3>3. Fits(c, "findInvitee", l)
      BY <3>1, <3>2, NoneAssumption DEF Fits, TypeOK
    <3> QED
      BY <1>17, <1>0, <3>1, <3>3, GotoWithFits, ReplyFits DEF BeginAnswer, world
  <2>2. Moves
    BY <1>17 DEF BeginAnswer, Moves, Still, SameGrant, world
  <2> QED
    BY <2>1, <2>2
<1>18. CASE FindInvitee(c)
  <2>1. CallsFit'
    <3> DEFINE r == proj["invitee"]
               l == [loc[c] EXCEPT !.rem = r]
               s == IF c \in Accepts THEN "claim"
                    ELSE IF c \in Sweeps THEN "sweepAccept" ELSE "reconcile"
               t == IF c \in Sweeps \/ DueOrPast(loc[c].at) THEN "expire" ELSE "claim"
    <3>1. l \in Locals /\ l.at = loc[c].at /\ l.rem = r
      BY LocType, LocalsType, KeepsAtAndRem, ProjType, RoleType
    <3>2. Fits(c, "findInvitee", loc[c])
      BY <1>18, <1>0 DEF CallsFit, FindInvitee, At
    <3>3. r # None => Fits(c, s, l)
      BY <3>1, <3>2, CallKinds DEF Fits
    <3>4. Fits(c, t, loc[c])
      BY <3>2, CallKinds DEF Fits, DueOrPast
    <3> QED
      BY <1>18, <1>0, <3>1, <3>3, <3>4, GotoFits, GotoWithFits DEF FindInvitee, world
  <2>2. Moves
    BY <1>18 DEF FindInvitee, Moves, Still, SameGrant, world
  <2> QED
    BY <2>1, <2>2
<1>19. CASE Reconcile(c)
  <2>1. CallsFit'
    <3> DEFINE l == [loc[c] EXCEPT !.to = "accepted"]
    <3>1. l \in Locals /\ l.at = loc[c].at
      BY LocType, LocalsType, KeepsAtAndRem
    <3> QED
      BY <1>19, <1>0, <3>1, PlainFits, GotoFits, GotoWithFits, ReplyFits DEF Reconcile
  <2>2. Moves
    <3>1. CASE IsPending
      <4>1. loc[c].rem \in Reminders
        BY <1>19, <1>0, LocType DEF CallsFit, Fits, Reconcile, At
      <4> QED
        BY <1>19, <3>1, <4>1, RowType DEF Reconcile, Moves, Grants, Row
    <3>2. CASE ~(IsPending)
      BY <1>19, <3>2 DEF Reconcile, Moves, Still, SameGrant
    <3> QED
      BY <3>1, <3>2
  <2> QED
    BY <2>1, <2>2
<1>20. CASE Expire(c)
  <2>1. CallsFit'
    <3> DEFINE l == [loc[c] EXCEPT !.to = "expired"]
    <3>1. l \in Locals /\ l.at = loc[c].at
      BY LocType, LocalsType, KeepsAtAndRem
    <3> QED
      BY <1>20, <1>0, <3>1, PlainFits, GotoFits, GotoWithFits, ReplyFits DEF Expire
  <2>2. Moves
    <3>1. CASE IsPending /\ Unclaimed(loc[c].at)
      <4>1. loc[c].at \in Nat /\ FireAt <= loc[c].at /\ loc[c].at <= now
        BY <1>20, <1>0, LocType DEF CallsFit, Fits, Expire, At
      <4>2. FireAt <= now
        BY <4>1, BoundsAssumption DEF TypeOK
      <4> QED
        BY <1>20, <3>1, <4>2, RowType DEF Expire, Moves, Lapses, SameGrant, Row
    <3>2. CASE ~(IsPending /\ Unclaimed(loc[c].at))
      BY <1>20, <3>2 DEF Expire, Moves, Still, SameGrant
    <3> QED
      BY <3>1, <3>2
  <2> QED
    BY <2>1, <2>2
<1>21. CASE Claim(c)
  <2>1. CallsFit'
    <3>1. Fits(c, "friendship", loc[c])
      BY <1>21, <1>0 DEF CallsFit, Fits, Claim, At
    <3> QED
      BY <1>21, <1>0, <3>1, GotoFits, ReplyFits DEF Claim
  <2>2. Moves
    BY <1>21, RowType DEF Claim, Moves, Still, SameGrant, Row
  <2> QED
    BY <2>1, <2>2
<1>22. CASE RollbackClaim(c)
  <2>1. CallsFit'
    BY <1>22, <1>0, PlainFits, GotoFits, ReplyFits DEF RollbackClaim
  <2>2. Moves
    BY <1>22, RowType DEF RollbackClaim, Moves, Still, SameGrant, Row
  <2> QED
    BY <2>1, <2>2
<1>23. CASE FinalizeAccept(c)
  <2>1. CallsFit'
    <3> DEFINE l == [loc[c] EXCEPT !.to = "accepted"]
    <3>1. l \in Locals /\ l.at = loc[c].at
      BY LocType, LocalsType, KeepsAtAndRem
    <3> QED
      BY <1>23, <1>0, <3>1, PlainFits, GotoFits, GotoWithFits, ReplyFits DEF FinalizeAccept
  <2>2. Moves
    <3>1. CASE HoldsClaim(c)
      <4>1. loc[c].rem \in Reminders
        BY <1>23, <1>0, LocType DEF CallsFit, Fits, FinalizeAccept, At
      <4> QED
        BY <1>23, <3>1, <4>1, RowType DEF FinalizeAccept, Moves, Grants, Row, HoldsClaim
    <3>2. CASE ~(HoldsClaim(c))
      BY <1>23, <3>2 DEF FinalizeAccept, Moves, Still, SameGrant
    <3> QED
      BY <3>1, <3>2
  <2> QED
    BY <2>1, <2>2
<1>24. CASE ResolveRequester(c)
  <2>1. CallsFit'
    <3> DEFINE l == [loc[c] EXCEPT !.rem = proj["requester"]]
    <3>1. l \in Locals /\ l.at = loc[c].at
      BY LocType, LocalsType, KeepsAtAndRem, ProjType, RoleType
    <3>2. Fits(c, "transition", loc[c]) /\ Fits(c, "cancelRequester", l)
      BY <1>24, <1>0, <3>1 DEF CallsFit, Fits, ResolveRequester, At
    <3> QED
      BY <1>24, <1>0, <3>1, <3>2, PlainFits, GotoFits, GotoWithFits DEF ResolveRequester
  <2>2. Moves
    BY <1>24 DEF ResolveRequester, Moves, Still, SameGrant
  <2> QED
    BY <2>1, <2>2
<1>25. CASE CancelRequester(c)
  <2>1. CallsFit'
    <3>1. Fits(c, "transition", loc[c])
      BY <1>25, <1>0 DEF CallsFit, Fits, CancelRequester, At
    <3> QED
      BY <1>25, <1>0, <3>1, PlainFits, GotoFits DEF CancelRequester
  <2>2. Moves
    BY <1>25 DEF CancelRequester, Moves, Still, SameGrant
  <2> QED
    BY <2>1, <2>2
<1>26. CASE Transition(c)
  <2>1. CallsFit'
    <3> DEFINE l == [loc[c] EXCEPT !.to = Intended(c)]
    <3>1. l \in Locals /\ l.at = loc[c].at
      <4>1. Intended(c) \in Status
        BY DEF Intended
      <4> QED
        BY <4>1, LocType, LocalsType, KeepsAtAndRem
    <3> QED
      BY <1>26, <1>0, <3>1, PlainFits, GotoFits, GotoWithFits, ReplyFits DEF Transition
  <2>2. Moves
    <3>1. CASE HoldsClaim(c)
      <4>1. Intended(c) \in {"rejected", "cancelled"}
        BY <1>26, <1>0, CallsAssumption DEF CallsFit, Fits, Transition, At, Intended
      <4> QED
        BY <1>26, <3>1, <4>1, RowType DEF Transition, Moves, Declines, SameGrant, Row, HoldsClaim
    <3>2. CASE ~(HoldsClaim(c))
      BY <1>26, <3>2 DEF Transition, Moves, Still, SameGrant
    <3> QED
      BY <3>1, <3>2
  <2> QED
    BY <2>1, <2>2
<1>27. CASE RecordEvent(c)
  <2>1. CallsFit'
    BY <1>27, <1>0, PlainFits, GotoFits, ReplyFits DEF RecordEvent
  <2>2. Moves
    BY <1>27 DEF RecordEvent, Moves, Still, SameGrant
  <2> QED
    BY <2>1, <2>2
<1>28. CASE BeginSweep(c)
  <2>1. CallsFit'
    <3> DEFINE l == [Blank EXCEPT !.at = now]
    <3>1. l \in Locals /\ l.at = now
      BY BlankType DEF Locals, TypeOK, Blank
    <3>2. DueOrPast(now) => Fits(c, "findInvitee", l)
      BY <1>28, <3>1, NoneAssumption DEF Fits, TypeOK, BeginSweep, DueOrPast
    <3> QED
      BY <1>28, <1>0, <3>1, <3>2, GotoWithFits, ReplyFits DEF BeginSweep, world
  <2>2. Moves
    BY <1>28 DEF BeginSweep, Moves, Still, SameGrant, world
  <2> QED
    BY <2>1, <2>2
<1>29. CASE SweepAccept(c)
  <2>1. CallsFit'
    <3> DEFINE l == [loc[c] EXCEPT !.to = "accepted"]
    <3>1. l \in Locals /\ l.at = loc[c].at
      BY LocType, LocalsType, KeepsAtAndRem
    <3> QED
      BY <1>29, <1>0, <3>1, PlainFits, GotoFits, GotoWithFits, ReplyFits DEF SweepAccept
  <2>2. Moves
    <3>1. CASE IsPending /\ Unclaimed(loc[c].at)
      <4>1. loc[c].rem \in Reminders
        BY <1>29, <1>0, LocType DEF CallsFit, Fits, SweepAccept, At
      <4> QED
        BY <1>29, <3>1, <4>1, RowType DEF SweepAccept, Moves, Grants, Row
    <3>2. CASE ~(IsPending /\ Unclaimed(loc[c].at))
      BY <1>29, <3>2 DEF SweepAccept, Moves, Still, SameGrant
    <3> QED
      BY <3>1, <3>2
  <2> QED
    BY <2>1, <2>2
<1>30. CASE BeginRemove(c)
  <2>1. CallsFit'
    <3>1. PICK f \in 1..nfriend :
             IF active = f
             THEN GotoWith(c, "commitRemoval",
                    [Blank EXCEPT !.friend = f, !.made = PendingUnder(f),
                                  !.rem = row.requesterReminderId])
             ELSE GotoWith(c, "cancelNext", [Blank EXCEPT !.todo = LeftOver(f)])
      BY <1>30 DEF BeginRemove
    <3>2. f \in Friendships
      BY BoundsAssumption DEF TypeOK, Friendships
    <3> DEFINE l == [Blank EXCEPT !.friend = f, !.made = PendingUnder(f),
                                  !.rem = row.requesterReminderId]
               m == [Blank EXCEPT !.todo = LeftOver(f)]
    <3>3. l \in Locals /\ l.at = None
      BY <3>2, BlankType, RowType DEF Locals, PendingUnder, IsPending, Blank
    <3>4. m \in Locals /\ m.at = None
      BY BlankType, RowType, ToCancelType DEF LeftOver, Locals, Blank
    <3>5. Fits(c, "commitRemoval", l) /\ Fits(c, "cancelNext", m)
      BY <3>3, <3>4 DEF Fits
    <3> QED
      BY <1>30, <1>0, <3>1, <3>3, <3>4, <3>5, GotoWithFits DEF BeginRemove, world
  <2>2. Moves
    BY <1>30 DEF BeginRemove, Moves, Still, SameGrant, world
  <2> QED
    BY <2>1, <2>2
<1>31. CASE CommitRemoval(c)
  <2>1. CallsFit'
    <3> DEFINE hit == loc[c].made /\ IsPending
               todo == IF hit
                       THEN ToCancel(loc[c].rem) \cup ToCancel(row.requesterReminderId)
                       ELSE LeftOver(loc[c].friend)
               l == [loc[c] EXCEPT !.made = FALSE, !.rem = None, !.todo = todo]
    <3>1. todo \in SUBSET Reminders
      BY RowType, LocType, ToCancelType DEF LeftOver
    <3>2. l \in Locals /\ l.at = loc[c].at
      BY <3>1, LocType DEF Locals
    <3> QED
      BY <1>31, <1>0, <3>2, PlainFits, GotoWithFits DEF CommitRemoval
  <2>2. Moves
    <3>1. CASE loc[c].made /\ IsPending
      BY <1>31, <3>1, RowType DEF CommitRemoval, Moves, Declines, SameGrant, Row
    <3>2. CASE ~(loc[c].made /\ IsPending)
      BY <1>31, <3>2 DEF CommitRemoval, Moves, Still, SameGrant
    <3> QED
      BY <3>1, <3>2
  <2> QED
    BY <2>1, <2>2
<1>32. CASE CancelNext(c)
  <2>1. CallsFit'
    <3>1. CASE Reply(c, "removed") \/ Reply(c, "error")
      BY <1>32, <1>0, <3>1, ReplyFits DEF CancelNext
    <3>2. ASSUME NEW r \in loc[c].todo, GotoWith(c, "markClean", [loc[c] EXCEPT !.rem = r])
          PROVE  CallsFit'
      <4>1. /\ [loc[c] EXCEPT !.rem = r] \in Locals
            /\ [loc[c] EXCEPT !.rem = r].at = loc[c].at
        BY LocType, LocalsType, KeepsAtAndRem
      <4> QED
        BY <1>32, <1>0, <3>2, <4>1, PlainFits, GotoWithFits DEF CancelNext
    <3> QED
      BY <1>32, <3>1, <3>2 DEF CancelNext
  <2>2. Moves
    BY <1>32 DEF CancelNext, Moves, Still, SameGrant
  <2> QED
    BY <2>1, <2>2
<1>33. CASE MarkClean(c)
  <2>1. CallsFit'
    <3> DEFINE l == [loc[c] EXCEPT !.rem = None, !.todo = loc[c].todo \ {loc[c].rem}]
    <3>1. l \in Locals /\ l.at = loc[c].at
      BY LocType DEF Locals
    <3> QED
      BY <1>33, <1>0, <3>1, PlainFits, GotoWithFits DEF MarkClean
  <2>2. Moves
    BY <1>33, RowType DEF MarkClean, Moves, Still, SameGrant, Row
  <2> QED
    BY <2>1, <2>2
<1>34. CASE Crash(c)
  <2>1. CallsFit'
    BY <1>34, <1>0 DEF Crash, CallsFit, Fits, Blank, TypeOK
  <2>2. Moves
    BY <1>34 DEF Crash, Moves, Still, SameGrant
  <2> QED
    BY <2>1, <2>2
<1> QED
  BY <1>1, <1>2, <1>3, <1>4, <1>5, <1>6, <1>7, <1>8, <1>9, <1>10, <1>11, <1>12,
     <1>13, <1>14, <1>15, <1>16, <1>17, <1>18, <1>19, <1>20, <1>21, <1>22, <1>23, <1>24,
     <1>25, <1>26, <1>27, <1>28, <1>29, <1>30, <1>31, <1>32, <1>33, <1>34
     DEF Begin, Step

LEMMA RefineStep ==
    TypeOK /\ OnCourse /\ [Next]_vars =>
        OnCourse' /\ [Lifecycle!LNext]_(Lifecycle!lifecycleVars)
<1> SUFFICES ASSUME TypeOK, OnCourse, [Next]_vars
             PROVE  /\ OnCourse'
                    /\ Lifecycle!LNext \/ UNCHANGED Lifecycle!lifecycleVars
  OBVIOUS
<1>1. CASE \E c \in Calls : Begin(c) \/ Step(c) \/ Crash(c)
  BY <1>1, CourseStep, MovesRefine DEF OnCourse
<1>2. CASE Tick
  <2>1. CallsFit'
    BY <1>2, LocType DEF Tick, OnCourse, CallsFit, Fits, TypeOK
  <2> QED
    BY <1>2, <2>1 DEF Tick, OnCourse, Lifecycle!LNext, Lifecycle!TimePasses
<1>3. CASE Befriend \/ UNCHANGED vars
  BY <1>3 DEF Befriend, vars, OnCourse, CallsFit, Fits, Lifecycle!lifecycleVars
<1> QED
  BY <1>1, <1>2, <1>3 DEF Next

(* The request keeps the promise of the abstract lifecycle. *)
THEOREM Refinement == Spec => KeepsPromise
<1>1. Init => OnCourse
  BY DEF Init, OnCourse, CallsFit, Fits, Blank, NoRow
<1>2. Init => Lifecycle!LInit
  BY DEF Init, NoRow, Lifecycle!LInit
<1> QED
  BY <1>1, <1>2, RefineStep, TypeCorrect, PTL DEF Spec, KeepsPromise, Lifecycle!LSpec
===============================================================================
