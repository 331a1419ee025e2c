--------------------------- MODULE SharedReminder ---------------------------
(***************************************************************************)
(* The life of ONE shared reminder request, as the API process of          *)
(* packages/api runs it (scheduling/shared-reminder-service.ts and         *)
(* removeFriendship of scheduling/friendship-service.ts).                  *)
(*                                                                         *)
(* A requester asks a friend to share a reminder.  The request is a row of *)
(* shared_reminder_requests; each side that takes part owns a reminder in  *)
(* an external reminder runtime, and a row of reminder_projections says    *)
(* which one.  Every API call is a straight line of awaited statements     *)
(* against the database and the runtime, without a transaction around      *)
(* them, so any number of calls interleave between any two awaits, a call  *)
(* may stall for as long as it likes, and the process may die in it.  The  *)
(* only mutual exclusion is the claim: a pending row whose resolved_at is  *)
(* set belongs to the call that wrote that timestamp, until the timestamp  *)
(* is older than STALE_PENDING_CLAIM_MS.                                   *)
(*                                                                         *)
(* Grain.  One action is one awaited statement.  Two reads are merged with *)
(* the statement before them, because nothing the call does depends on     *)
(* which of two moments they happen at: a guarded update that matched no   *)
(* row is one step with the re-read that follows it, and a call's clock    *)
(* reading is one step with its first read of the row.                     *)
(***************************************************************************)
EXTENDS Naturals, FiniteSets

CONSTANTS
    Creates,         \* the calls of createSharedReminder
    Accepts,         \* the calls of acceptSharedReminder
    Rejects,         \* the calls of rejectSharedReminder
    Cancels,         \* the calls of cancelSharedReminder
    Sweeps,          \* the calls of expireDueSharedReminders
    Removes,         \* the calls of removeFriendship
    None,            \* null
    FireAt,          \* the request's fireAt
    StaleAfter,      \* STALE_PENDING_CLAIM_MS
    MaxTime,         \* bound: the clock stops here
    MaxFriendships,  \* bound: how often the two accounts befriend each other
    MaxFaults        \* bound: failed external calls and crashed calls

Calls == Creates \cup Accepts \cup Rejects \cup Cancels \cup Sweeps \cup Removes

(* The calls are different calls, and null is none of the other values. *)
ASSUME CallsAssumption ==
    /\ Creates \cap (Accepts \cup Rejects \cup Cancels \cup Sweeps \cup Removes) = {}
    /\ Accepts \cap (Rejects \cup Cancels \cup Sweeps \cup Removes) = {}
    /\ Rejects \cap (Cancels \cup Sweeps \cup Removes) = {}
    /\ Cancels \cap (Sweeps \cup Removes) = {}
    /\ Sweeps \cap Removes = {}

ASSUME NoneAssumption == None \notin Calls /\ None \notin Nat

ASSUME BoundsAssumption ==
    /\ FireAt \in Nat /\ StaleAfter \in Nat
    /\ MaxTime \in Nat /\ MaxFriendships \in Nat \ {0} /\ MaxFaults \in Nat

VARIABLES
    now,       \* the clock that new Date() reads
    active,    \* the id of the accounts' active friendship, or None
    nfriend,   \* how many friendships there have been: their ids are 1..nfriend
    row,       \* the row of shared_reminder_requests
    proj,      \* the rows of reminder_projections, one at most per role
    live,      \* the reminders the runtime holds active
    events,    \* the rows of shared_reminder_events: who recorded which toState
    notified,  \* whether the invitation's product notification exists
    pc,        \* the statement each call is about to execute
    loc,       \* the local variables of each call
    reply,     \* what each call answered
    faults     \* how many external failures and crashes there have been

vars == <<now, active, nfriend, row, proj, live, events, notified, pc, loc,
          reply, faults>>

world == <<now, active, nfriend, row, proj, live, events, notified, faults>>

-----------------------------------------------------------------------------
(* Values *)

Pending == "pending_invitee_confirmation"
Terminal == {"accepted", "rejected", "expired", "cancelled", "invalidated"}
Status == {"none", Pending} \cup Terminal

(* A call creates at most one runtime reminder: the reminder has its name. *)
Reminders == Calls
Roles == {"requester", "invitee"}
Friendships == 1..MaxFriendships

Statements == {"insertRow", "findRequester", "setRequester", "cancelRow",
               "friendship", "invalidate", "createRuntime",
               "insertProjection", "findExisting", "cancelDuplicate",
               "cancelOwn", "finalize", "cleanupCancel", "cleanupDelete",
               "rollback", "event", "notify", "findInvitee", "reconcile",
               "expire", "claim", "resolve", "cancelRequester", "transition",
               "sweepAccept", "commitRemoval", "cancelNext", "markClean"}

Row == [status: Status,
        resolvedAt: Nat \cup {None},          \* also the claim's timestamp
        requesterReminderId: Reminders \cup {None},
        inviteeReminderId: Reminders \cup {None},
        friendshipId: Friendships \cup {None}]

Locals == [at: Nat \cup {None},               \* input.now
           rem: Reminders \cup {None},        \* the reminder it works on
           made: BOOLEAN,                     \* created; found the pending row
           own: BOOLEAN,                      \* it inserted the row itself
           friend: Friendships \cup {None},   \* a friendship id it holds
           todo: SUBSET Reminders,            \* cancellations left to do
           to: Status]                        \* toState of the event to record

NoRow == [status |-> "none", resolvedAt |-> None, requesterReminderId |-> None,
          inviteeReminderId |-> None, friendshipId |-> None]

Blank == [at |-> None, rem |-> None, made |-> FALSE, own |-> FALSE,
          friend |-> None, todo |-> {}, to |-> "none"]

IsPending == row.status = Pending

(* Mutants of Unclaimed: any earlier claim is stale; claims are ignored. *)
UnclaimedAnyAge(t) == row.resolvedAt = None \/ row.resolvedAt < t

UnclaimedAlways(t) == TRUE

(* unclaimedOrStaleClaimWhere for a call whose input.now is t. *)
Unclaimed(t) ==
    \/ row.resolvedAt = None
    \/ row.resolvedAt # None /\ row.resolvedAt + StaleAfter < t

DueOrPast(t) == FireAt <= t

(* The projection a call creates, and the status an answer asks for. *)
RoleOf(c) == IF c \in Creates THEN "requester" ELSE "invitee"

Intended(c) == IF c \in Accepts THEN "accepted"
               ELSE IF c \in Rejects THEN "rejected" ELSE "cancelled"

Answers == Accepts \cup Rejects \cup Cancels

-----------------------------------------------------------------------------
(* Control *)

At(c, s) == pc[c] = s

Goto(c, s) == /\ pc' = [pc EXCEPT ![c] = s]
              /\ UNCHANGED <<loc, reply>>

(* Continue at s with the local field(s) changed to l. *)
GotoWith(c, s, l) == /\ pc' = [pc EXCEPT ![c] = s]
                     /\ loc' = [loc EXCEPT ![c] = l]
                     /\ UNCHANGED reply

Reply(c, r) == /\ pc' = [pc EXCEPT ![c] = "done"]
               /\ loc' = [loc EXCEPT ![c] = Blank]
               /\ reply' = [reply EXCEPT ![c] = r]

Fault == faults < MaxFaults /\ faults' = faults + 1

-----------------------------------------------------------------------------
(* Mutants.  Nothing uses these: each is what a plausible slip would make of *)
(* the operator it is named after, and breaks a property stated below.     *)

(* The last update of an answer checks its timestamp and not the status. *)
HoldsClaimByTimestamp(c) == row.resolvedAt = loc[c].at

(* A failed create cancels the row whatever has become of it. *)
CancelRowAlways(c) ==
    /\ At(c, "cancelRow")
    /\ row' = [row EXCEPT !.status = "cancelled", !.resolvedAt = now]
    /\ Reply(c, "error")
    /\ UNCHANGED <<now, active, nfriend, proj, live, events, notified, faults>>

(* The duplicate is kept and the projection's own reminder cancelled. *)
CancelDuplicateSwapped(c) ==
    /\ At(c, "cancelDuplicate")
    /\ live' = live \ {loc[c].rem}
    /\ Goto(c, "finalize")
    /\ UNCHANGED <<now, active, nfriend, row, proj, events, notified, faults>>

(* The reconciliation forgets to ask that the request is pending. *)
ReconcileAlways(c) ==
    /\ At(c, "reconcile")
    /\ row' = [row EXCEPT !.status = "accepted", !.inviteeReminderId = loc[c].rem]
    /\ GotoWith(c, "event", [loc[c] EXCEPT !.to = "accepted"])
    /\ UNCHANGED <<now, active, nfriend, proj, live, events, notified, faults>>

(* The transition comes first and the cancellation is forgotten. *)
CancelRequesterNot(c) ==
    /\ At(c, "cancelRequester")
    /\ Goto(c, "transition")
    /\ UNCHANGED world

(* null is taken for a reminder; a claimed row is left pending; a removed    *)
(* friendship is thought to need no cleanup.                               *)
ToCancelNull(r) == IF r # None THEN {r} ELSE {proj["requester"]}

PendingUnderUnclaimed(f) ==
    IsPending /\ row.resolvedAt = None /\ row.friendshipId = f

LeftOverNone(f) == {}

(* The cleanup of a reminder is not struck off the list. *)
MarkCleanAgain(c) ==
    /\ At(c, "markClean")
    /\ row' = [row EXCEPT !.requesterReminderId = None]
    /\ proj' = [proj EXCEPT !["requester"] = None]
    /\ GotoWith(c, "cancelNext", [loc[c] EXCEPT !.rem = None])
    /\ UNCHANGED <<now, active, nfriend, live, events, notified, faults>>

-----------------------------------------------------------------------------
(* createSharedReminder *)

(* findActiveFriendship, before the row exists. *)
BeginCreate(c) ==
    /\ c \in Creates /\ At(c, "idle")
    /\ IF active = None
       THEN Reply(c, "error")
       ELSE GotoWith(c, "insertRow", [Blank EXCEPT !.friend = active])
    /\ UNCHANGED world

(* The insert; on the unique key's conflict the existing row is read, and  *)
(* returned as it is unless it is pending without the requester's reminder.*)
InsertRow(c) ==
    /\ At(c, "insertRow")
    /\ \/ /\ row.status = "none"
          /\ row' = [NoRow EXCEPT !.status = Pending,
                                  !.friendshipId = loc[c].friend]
          /\ GotoWith(c, "friendship", [loc[c] EXCEPT !.own = TRUE])
       \/ /\ row.status # "none"
          /\ IF IsPending /\ row.requesterReminderId = None
             THEN Goto(c, "findRequester")
             ELSE Reply(c, row.status)
          /\ UNCHANGED row
    /\ UNCHANGED <<now, active, nfriend, proj, live, events, notified, faults>>

(* reconcileRequesterReminderId: the projection row, if there is one ... *)
FindRequester(c) ==
    /\ At(c, "findRequester")
    /\ IF proj["requester"] = None
       THEN Goto(c, "friendship")
       ELSE GotoWith(c, "setRequester",
                     [loc[c] EXCEPT !.rem = proj["requester"]])
    /\ UNCHANGED world

(* ... supplies the missing requesterReminderId. *)
SetRequester(c) ==
    /\ At(c, "setRequester")
    /\ row' = IF IsPending /\ row.requesterReminderId = None
              THEN [row EXCEPT !.requesterReminderId = loc[c].rem]
              ELSE row
    /\ Reply(c, row.status)
    /\ UNCHANGED <<now, active, nfriend, proj, live, events, notified, faults>>

(* A first create whose projection failed cancels its own pending row. *)
CancelRow(c) ==
    /\ At(c, "cancelRow")
    /\ row' = IF IsPending
              THEN [row EXCEPT !.status = "cancelled", !.resolvedAt = now]
              ELSE row
    /\ Reply(c, "error")
    /\ UNCHANGED <<now, active, nfriend, proj, live, events, notified, faults>>

(* finalizeRequesterProjection: the guarded update. *)
FinalizeRequester(c) ==
    /\ c \in Creates /\ At(c, "finalize")
    /\ IF IsPending
       THEN /\ row' = [row EXCEPT !.requesterReminderId = loc[c].rem]
            /\ GotoWith(c, "event", [loc[c] EXCEPT !.to = Pending])
       ELSE /\ UNCHANGED row
            /\ IF loc[c].made THEN Goto(c, "cleanupCancel")
                              ELSE Reply(c, "error")
    /\ UNCHANGED <<now, active, nfriend, proj, live, events, notified, faults>>

(* enqueueSharedReminderNotification; its key makes a second one a no-op. *)
Notify(c) ==
    /\ At(c, "notify")
    /\ notified' = TRUE
    /\ Reply(c, Pending)
    /\ UNCHANGED <<now, active, nfriend, row, proj, live, events, faults>>

-----------------------------------------------------------------------------
(* ensureRequestFriendshipStillActive *)

(* The friendship the row was made under must be the active one. *)
CheckFriendship(c) ==
    /\ At(c, "friendship")
    /\ Goto(c, IF active # row.friendshipId THEN "invalidate"
               ELSE IF c \in Creates THEN "createRuntime"
               ELSE IF c \in Accepts
               THEN IF loc[c].rem = None THEN "createRuntime" ELSE "finalize"
               ELSE IF loc[c].rem = None THEN "resolve" ELSE "cancelRequester")
    /\ UNCHANGED world

(* invalidateRequestForMissingFriendship: it minds no claim. *)
Invalidate(c) ==
    /\ At(c, "invalidate")
    /\ row' = IF IsPending
              THEN [row EXCEPT !.status = "invalidated", !.resolvedAt = now]
              ELSE row
    /\ Reply(c, "error")
    /\ UNCHANGED <<now, active, nfriend, proj, live, events, notified, faults>>

-----------------------------------------------------------------------------
(* createProjection and cleanupCreatedProjection *)

(* What a throw out of createProjection leads to: an accept gives its claim *)
(* back, a first create cancels the row, a resumed create just fails.      *)
ProjectionFailed(c) ==
    IF c \in Accepts THEN Goto(c, "rollback")
    ELSE IF loc[c].own THEN Goto(c, "cancelRow") ELSE Reply(c, "error")

(* createRuntimeReminder: a failed call may have reached the runtime. *)
CreateRuntime(c) ==
    /\ At(c, "createRuntime")
    /\ \/ /\ live' = live \cup {c}
          /\ Goto(c, "insertProjection")
          /\ UNCHANGED faults
       \/ /\ Fault
          /\ live' \in {live, live \cup {c}}
          /\ ProjectionFailed(c)
    /\ UNCHANGED <<now, active, nfriend, row, proj, events, notified>>

(* reminderProjection.create, unique per request and role; a failed insert  *)
(* may have been committed.                                                *)
InsertProjection(c) ==
    /\ At(c, "insertProjection")
    /\ \/ /\ proj[RoleOf(c)] = None
          /\ proj' = [proj EXCEPT ![RoleOf(c)] = c]
          /\ GotoWith(c, "finalize", [loc[c] EXCEPT !.rem = c, !.made = TRUE])
          /\ UNCHANGED faults
       \/ /\ proj[RoleOf(c)] # None
          /\ Goto(c, "findExisting")
          /\ UNCHANGED <<proj, faults>>
       \/ /\ Fault
          /\ \/ UNCHANGED proj
             \/ proj[RoleOf(c)] = None /\ proj' = [proj EXCEPT ![RoleOf(c)] = c]
          /\ Goto(c, "cancelOwn")
    /\ UNCHANGED <<now, active, nfriend, row, live, events, notified>>

(* After a conflict: the projection that was there first, if it still is. *)
FindExisting(c) ==
    /\ At(c, "findExisting")
    /\ \/ /\ IF proj[RoleOf(c)] = None
             THEN Goto(c, "cancelOwn")
             ELSE GotoWith(c, "cancelDuplicate",
                           [loc[c] EXCEPT !.rem = proj[RoleOf(c)]])
          /\ UNCHANGED faults
       \/ Fault /\ ProjectionFailed(c)
    /\ UNCHANGED <<now, active, nfriend, row, proj, live, events, notified>>

(* The call's own reminder is a duplicate: cancel it, go on with the other. *)
CancelDuplicate(c) ==
    /\ At(c, "cancelDuplicate")
    /\ \/ /\ live' = live \ {c}
          /\ Goto(c, "finalize")
          /\ UNCHANGED faults
       \/ /\ Fault
          /\ live' \in {live, live \ {c}}
          /\ ProjectionFailed(c)
    /\ UNCHANGED <<now, active, nfriend, row, proj, events, notified>>

(* Best-effort cancel before the throw: its own failure is swallowed. *)
CancelOwn(c) ==
    /\ At(c, "cancelOwn")
    /\ \/ live' = live \ {c} /\ UNCHANGED faults
       \/ Fault /\ UNCHANGED live
    /\ ProjectionFailed(c)
    /\ UNCHANGED <<now, active, nfriend, row, proj, events, notified>>

(* cleanupCreatedProjection: cancel the reminder; a failure is thrown ... *)
CleanupCancel(c) ==
    /\ At(c, "cleanupCancel")
    /\ \/ /\ live' = live \ {c}
          /\ Goto(c, "cleanupDelete")
          /\ UNCHANGED faults
       \/ /\ Fault
          /\ live' \in {live, live \ {c}}
          /\ Reply(c, "error")
    /\ UNCHANGED <<now, active, nfriend, row, proj, events, notified>>

(* ... then delete the projection row that names it. *)
CleanupDelete(c) ==
    /\ At(c, "cleanupDelete")
    /\ proj' = IF proj[RoleOf(c)] = c THEN [proj EXCEPT ![RoleOf(c)] = None]
               ELSE proj
    /\ IF c \in Accepts THEN Goto(c, "rollback") ELSE Reply(c, "error")
    /\ UNCHANGED <<now, active, nfriend, row, live, events, notified, faults>>

-----------------------------------------------------------------------------
(* acceptSharedReminder, rejectSharedReminder, cancelSharedReminder *)

(* The first read of the row, with new Date() taken for input.now.  A       *)
(* reject or cancel keeps the requesterReminderId it read.                 *)
BeginAnswer(c) ==
    /\ c \in Answers /\ At(c, "idle") /\ row.status # "none"
    /\ IF IsPending
       THEN GotoWith(c, "findInvitee",
                     [Blank EXCEPT !.at = now,
                                   !.rem = IF c \in Accepts THEN None
                                           ELSE row.requesterReminderId])
       ELSE Reply(c, IF row.status = Intended(c) THEN row.status ELSE "error")
    /\ UNCHANGED world

(* findProjection(invitee): an accept will reuse it, the others and the     *)
(* sweep take it as proof that the invitee accepted.                       *)
FindInvitee(c) ==
    /\ At(c, "findInvitee")
    /\ IF proj["invitee"] # None
       THEN GotoWith(c, IF c \in Accepts THEN "claim"
                        ELSE IF c \in Sweeps THEN "sweepAccept" ELSE "reconcile",
                     [loc[c] EXCEPT !.rem = proj["invitee"]])
       ELSE Goto(c, IF c \in Sweeps \/ DueOrPast(loc[c].at) THEN "expire"
                    ELSE "claim")
    /\ UNCHANGED world

(* reconcileInviteeProjectionAsAccepted: it minds no claim. *)
Reconcile(c) ==
    /\ At(c, "reconcile")
    /\ IF IsPending
       THEN /\ row' = [row EXCEPT !.status = "accepted",
                                  !.inviteeReminderId = loc[c].rem,
                                  !.resolvedAt = loc[c].at]
            /\ GotoWith(c, "event", [loc[c] EXCEPT !.to = "accepted"])
       ELSE /\ UNCHANGED row
            /\ Reply(c, IF row.status = "accepted" THEN "accepted" ELSE "error")
    /\ UNCHANGED <<now, active, nfriend, proj, live, events, notified, faults>>

(* expirePendingRequest, and the same update of the sweep. *)
Expire(c) ==
    /\ At(c, "expire")
    /\ IF IsPending /\ Unclaimed(loc[c].at)
       THEN /\ row' = [row EXCEPT !.status = "expired", !.resolvedAt = loc[c].at]
            /\ GotoWith(c, "event", [loc[c] EXCEPT !.to = "expired"])
       ELSE /\ UNCHANGED row
            /\ Reply(c, IF c \in Sweeps THEN "swept" ELSE "error")
    /\ UNCHANGED <<now, active, nfriend, proj, live, events, notified, faults>>

(* claimPendingRequest, with terminalRetryResult when the claim is lost. *)
Claim(c) ==
    /\ At(c, "claim")
    /\ IF IsPending /\ Unclaimed(loc[c].at)
       THEN /\ row' = [row EXCEPT !.resolvedAt = loc[c].at]
            /\ Goto(c, "friendship")
       ELSE /\ UNCHANGED row
            /\ Reply(c, IF row.status = Intended(c) THEN row.status ELSE "error")
    /\ UNCHANGED <<now, active, nfriend, proj, live, events, notified, faults>>

(* The row is still pending under the claim this call made. *)
HoldsClaim(c) == IsPending /\ row.resolvedAt = loc[c].at

RollbackClaim(c) ==
    /\ At(c, "rollback")
    /\ row' = IF HoldsClaim(c) THEN [row EXCEPT !.resolvedAt = None] ELSE row
    /\ Reply(c, "error")
    /\ UNCHANGED <<now, active, nfriend, proj, live, events, notified, faults>>

(* The accept's last update, and what follows when it matched no row. *)
FinalizeAccept(c) ==
    /\ c \in Accepts /\ At(c, "finalize")
    /\ IF HoldsClaim(c)
       THEN /\ row' = [row EXCEPT !.status = "accepted",
                                  !.inviteeReminderId = loc[c].rem]
            /\ GotoWith(c, "event", [loc[c] EXCEPT !.to = "accepted"])
       ELSE /\ UNCHANGED row
            /\ IF row.status = "accepted" THEN Reply(c, "accepted")
               ELSE Goto(c, IF loc[c].made THEN "cleanupCancel" ELSE "rollback")
    /\ UNCHANGED <<now, active, nfriend, proj, live, events, notified, faults>>

(* resolveRequesterReminderId: the row named none, ask the projection. *)
ResolveRequester(c) ==
    /\ At(c, "resolve")
    /\ \/ /\ IF proj["requester"] = None THEN Goto(c, "transition")
             ELSE GotoWith(c, "cancelRequester",
                           [loc[c] EXCEPT !.rem = proj["requester"]])
          /\ UNCHANGED faults
       \/ Fault /\ Goto(c, "rollback")
    /\ UNCHANGED <<now, active, nfriend, row, proj, live, events, notified>>

(* cancelProjection; invalid_reminder counts as done. *)
CancelRequester(c) ==
    /\ At(c, "cancelRequester")
    /\ \/ /\ live' = live \ {loc[c].rem}
          /\ Goto(c, "transition")
          /\ UNCHANGED faults
       \/ /\ Fault
          /\ live' \in {live, live \ {loc[c].rem}}
          /\ Goto(c, "rollback")
    /\ UNCHANGED <<now, active, nfriend, row, proj, events, notified>>

(* The reject's or cancel's last update. *)
Transition(c) ==
    /\ At(c, "transition")
    /\ IF HoldsClaim(c)
       THEN /\ row' = [row EXCEPT !.status = Intended(c)]
            /\ GotoWith(c, "event", [loc[c] EXCEPT !.to = Intended(c)])
       ELSE UNCHANGED row /\ Reply(c, "error")
    /\ UNCHANGED <<now, active, nfriend, proj, live, events, notified, faults>>

(* Every call has an idempotency key of its own, but a retried create has   *)
(* the key of the create it retries.                                       *)
SameKey(c, d) == c = d \/ {c, d} \subseteq Creates

(* recordEvent: a statement of its own, after the transition it is about;   *)
(* an event with the same key is already there, and stays.                 *)
RecordEvent(c) ==
    /\ At(c, "event")
    /\ events' = IF \E e \in events : SameKey(c, e[1]) THEN events
                 ELSE events \cup {<<c, loc[c].to>>}
    /\ IF c \in Creates THEN Goto(c, "notify")
       ELSE Reply(c, IF c \in Sweeps THEN "swept"
                     ELSE IF loc[c].to = "expired" THEN "error" ELSE loc[c].to)
    /\ UNCHANGED <<now, active, nfriend, row, proj, live, notified, faults>>

-----------------------------------------------------------------------------
(* expireDueSharedReminders *)

BeginSweep(c) ==
    /\ c \in Sweeps /\ At(c, "idle")
    /\ IF IsPending /\ DueOrPast(now) /\ Unclaimed(now)
       THEN GotoWith(c, "findInvitee", [Blank EXCEPT !.at = now])
       ELSE Reply(c, "swept")
    /\ UNCHANGED world

SweepAccept(c) ==
    /\ At(c, "sweepAccept")
    /\ IF IsPending /\ Unclaimed(loc[c].at)
       THEN /\ row' = [row EXCEPT !.status = "accepted",
                                  !.inviteeReminderId = loc[c].rem,
                                  !.resolvedAt = loc[c].at]
            /\ GotoWith(c, "event", [loc[c] EXCEPT !.to = "accepted"])
       ELSE UNCHANGED row /\ Reply(c, "swept")
    /\ UNCHANGED <<now, active, nfriend, proj, live, events, notified, faults>>

-----------------------------------------------------------------------------
(* removeFriendship, and befriending anew *)

(* The reminder to cancel for a row read with requesterReminderId r. *)
ToCancel(r) == (IF r # None THEN {r} ELSE {proj["requester"]}) \ {None}

(* The two where clauses: what to invalidate, and what is left to clean up. *)
PendingUnder(f) == IsPending /\ row.friendshipId = f

LeftOver(f) == IF row.status = "invalidated" /\ row.friendshipId = f
               THEN ToCancel(row.requesterReminderId) ELSE {}

(* The transaction's first statements: which pending rows it will           *)
(* invalidate.  A friendship already removed only repeats the cleanup.     *)
BeginRemove(c) ==
    /\ c \in Removes /\ At(c, "idle")
    /\ \E f \in 1..nfriend :
         IF active = f
         THEN GotoWith(c, "commitRemoval",
                [Blank EXCEPT !.friend = f, !.made = PendingUnder(f),
                              !.rem = row.requesterReminderId])
         ELSE GotoWith(c, "cancelNext", [Blank EXCEPT !.todo = LeftOver(f)])
    /\ UNCHANGED world

(* The rest of the transaction takes effect at its commit.  Until then the  *)
(* other calls see the friendship active, and the row it locks as it was.  *)
CommitRemoval(c) ==
    LET f == loc[c].friend
        hit == loc[c].made /\ IsPending
    IN
    /\ At(c, "commitRemoval")
    /\ active' = IF active = f THEN None ELSE active
    /\ row' = IF hit THEN [row EXCEPT !.status = "invalidated",
                                      !.resolvedAt = now] ELSE row
    /\ GotoWith(c, "cancelNext",
         [loc[c] EXCEPT !.made = FALSE, !.rem = None,
            !.todo = IF hit
                     THEN ToCancel(loc[c].rem) \cup ToCancel(row.requesterReminderId)
                     ELSE LeftOver(f)])
    /\ UNCHANGED <<now, nfriend, proj, live, events, notified, faults>>

(* cancelRequesterProjections: the next cancellation, or the answer. *)
CancelNext(c) ==
    /\ At(c, "cancelNext")
    /\ \/ /\ loc[c].todo = {}
          /\ Reply(c, "removed")
          /\ UNCHANGED <<live, faults>>
       \/ \E r \in loc[c].todo :
            /\ live' = live \ {r}
            /\ GotoWith(c, "markClean", [loc[c] EXCEPT !.rem = r])
            /\ UNCHANGED faults
       \/ \E r \in loc[c].todo :
            /\ Fault
            /\ live' \in {live, live \ {r}}
            /\ Reply(c, "error")
    /\ UNCHANGED <<now, active, nfriend, row, proj, events, notified>>

(* markRequesterProjectionCleanupComplete, one transaction. *)
MarkClean(c) ==
    LET r == loc[c].rem IN
    /\ At(c, "markClean")
    /\ row' = IF row.status = "invalidated" /\ row.requesterReminderId = r
              THEN [row EXCEPT !.requesterReminderId = None] ELSE row
    /\ proj' = IF proj["requester"] = r THEN [proj EXCEPT !["requester"] = None]
               ELSE proj
    /\ GotoWith(c, "cancelNext", [loc[c] EXCEPT !.rem = None,
                                                !.todo = loc[c].todo \ {r}])
    /\ UNCHANGED <<now, active, nfriend, live, events, notified, faults>>

(* acceptFriendRequest makes a new friendship, with a new id. *)
Befriend ==
    /\ active = None /\ nfriend < MaxFriendships
    /\ nfriend' = nfriend + 1
    /\ active' = nfriend + 1
    /\ UNCHANGED <<now, row, proj, live, events, notified, pc, loc, reply, faults>>

-----------------------------------------------------------------------------
(* The environment *)

Tick ==
    /\ now < MaxTime
    /\ now' = now + 1
    /\ UNCHANGED <<active, nfriend, row, proj, live, events, notified, pc, loc,
                   reply, faults>>

(* The process dies, or a statement outside a try block throws: the call    *)
(* ends where it is and answers nothing that can be relied on.             *)
Crash(c) ==
    /\ pc[c] \in Statements
    /\ Fault
    /\ pc' = [pc EXCEPT ![c] = "done"]
    /\ loc' = [loc EXCEPT ![c] = Blank]
    /\ UNCHANGED <<now, active, nfriend, row, proj, live, events, notified, reply>>

Init ==
    /\ now = 0 /\ active = 1 /\ nfriend = 1
    /\ row = NoRow
    /\ proj = [r \in Roles |-> None]
    /\ live = {} /\ events = {} /\ notified = FALSE
    /\ pc = [c \in Calls |-> "idle"]
    /\ loc = [c \in Calls |-> Blank]
    /\ reply = [c \in Calls |-> "none"]
    /\ faults = 0

Begin(c) == BeginCreate(c) \/ BeginAnswer(c) \/ BeginSweep(c) \/ BeginRemove(c)

(* The next statement of a call that is under way. *)
Step(c) ==
    \/ InsertRow(c) \/ FindRequester(c) \/ SetRequester(c) \/ CancelRow(c)
    \/ FinalizeRequester(c) \/ Notify(c)
    \/ CheckFriendship(c) \/ Invalidate(c)
    \/ CreateRuntime(c) \/ InsertProjection(c) \/ FindExisting(c)
    \/ CancelDuplicate(c) \/ CancelOwn(c) \/ CleanupCancel(c) \/ CleanupDelete(c)
    \/ FindInvitee(c) \/ Reconcile(c) \/ Expire(c) \/ Claim(c)
    \/ RollbackClaim(c) \/ FinalizeAccept(c) \/ ResolveRequester(c)
    \/ CancelRequester(c) \/ Transition(c) \/ RecordEvent(c)
    \/ SweepAccept(c) \/ CommitRemoval(c) \/ CancelNext(c) \/ MarkClean(c)

Next ==
    \/ \E c \in Calls : Begin(c) \/ Step(c) \/ Crash(c)
    \/ Befriend
    \/ Tick

Spec == Init /\ [][Next]_vars

(* The event loop runs every call that is under way to its answer. *)
FairSpec == Spec /\ \A c \in Calls : WF_vars(Step(c))

(* A state of the program that most requests are in: one create has run to  *)
(* its answer before anything else is called.  It is reachable from Init.  *)
SettledInit ==
    /\ now = 0 /\ active = 1 /\ nfriend = 1
    /\ \E c \in Creates :
         /\ row = [NoRow EXCEPT !.status = Pending, !.friendshipId = 1,
                                !.requesterReminderId = c]
         /\ proj = [r \in Roles |-> IF r = "requester" THEN c ELSE None]
         /\ live = {c}
         /\ events = {<<c, Pending>>}
         /\ pc = [d \in Calls |-> IF d = c THEN "done" ELSE "idle"]
         /\ reply = [d \in Calls |-> IF d = c THEN Pending ELSE "none"]
    /\ notified = TRUE
    /\ loc = [d \in Calls |-> Blank]
    /\ faults = 0

SettledSpec == SettledInit /\ [][Next]_vars

SettledFairSpec == SettledSpec /\ \A c \in Calls : WF_vars(Step(c))

-----------------------------------------------------------------------------
(* Properties *)

(* Every variable holds a value the code could store in it. *)
TypeOK ==
    /\ now \in Nat
    /\ nfriend \in Friendships
    /\ active \in Friendships \cup {None}
    /\ row \in Row
    /\ proj \in [Roles -> Reminders \cup {None}]
    /\ live \in SUBSET Reminders
    /\ events \in SUBSET (Calls \X Status)
    /\ notified \in BOOLEAN
    /\ pc \in [Calls -> Statements \cup {"idle", "done"}]
    /\ loc \in [Calls -> Locals]
    /\ reply \in [Calls -> Status \cup {"error", "swept", "removed"}]
    /\ faults \in Nat

(* No call is between its first statement and its answer. *)
Quiet == \A c \in Calls : pc[c] \notin Statements

(* An answer that names a terminal status stays true: whatever races the    *)
(* call lost, and however late it answers, the request has that status now *)
(* and for ever (the early returns, terminalRetryResult and the re-reads   *)
(* after a lost update of accept, reject, cancel and create).              *)
ReplyTruthful == \A c \in Calls : reply[c] \in Terminal => row.status = reply[c]

(* The audit trail agrees with the row: at most one terminal event is ever  *)
(* recorded, by one call, and it names the status the row has (recordEvent *)
(* runs after the guarded update, in another statement).                   *)
AuditAgrees ==
    \A e, f \in {e \in events : e[2] \in Terminal} :
        e = f /\ e[2] = row.status

(* The calls that decided the request: the one that has the event of a       *)
(* terminal status to record, and the one that has recorded it.            *)
Deciders == {c \in Calls : \/ loc[c].to \in Terminal
                           \/ \E e \in events : e[1] = c /\ e[2] \in Terminal}

(* The inductive form of the two: one call decides, and what it is about to *)
(* record, what is recorded and what is answered all agree with the row.   *)
DecisionAgrees ==
    /\ \A c \in Calls : loc[c].to \in Terminal => row.status = loc[c].to
    /\ \A e \in events : e[2] \in Terminal => row.status = e[2]
    /\ \A c, d \in Deciders : c = d
    /\ ReplyTruthful

(* When no external call failed and no process died, an accepted request    *)
(* has both sides' reminders active in the runtime, and the row names them *)
(* (accept against reject, cancel, sweep and duplicate accepts).           *)
AcceptedRemindersLive ==
    faults = 0 /\ row.status = "accepted" =>
        /\ row.inviteeReminderId \in live
        /\ row.requesterReminderId \in live

(* When no external call failed and no process died, a request that was     *)
(* rejected or cancelled has no active reminder left once every call has   *)
(* answered (the runtime cancellation precedes the transition).            *)
DeclinedCancelled ==
    faults = 0 /\ Quiet /\ row.status \in {"rejected", "cancelled"} => live = {}

(* When no external call failed and no process died, then once every call   *)
(* has answered, each active reminder is named by a projection row, and an *)
(* invitee's projection exists only under an accepted request: duplicates  *)
(* and losers of a race have cleaned up after themselves.                  *)
NoOrphans ==
    faults = 0 /\ Quiet =>
        /\ live \subseteq {proj[r] : r \in Roles}
        /\ proj["invitee"] # None => row.status = "accepted"

(* A claim excludes for STALE_PENDING_CLAIM_MS: while it is younger, nobody *)
(* else claims the row and nobody expires it, however old the clock        *)
(* reading the other call works with (claimWhere, expirePendingRequest).   *)
ClaimExcludes ==
    [][ IsPending /\ row.resolvedAt # None /\ now <= row.resolvedAt + StaleAfter =>
          /\ row'.status # "expired"
          /\ row'.status = Pending => row'.resolvedAt \in {row.resolvedAt, None} ]_vars

(* A request is pending only under a friendship that is active: the         *)
(* transaction that removes the friendship invalidates it.                 *)
NoPendingUnderRemoved == IsPending => active = row.friendshipId

(* The same, asked only once every call has answered, so that a create that  *)
(* is about to check the friendship itself has had its chance.             *)
RemovalLeavesNonePending == Quiet => NoPendingUnderRemoved

(* Once a removal has answered, an invalidated request has no active        *)
(* requester reminder and no requester projection, also when an earlier    *)
(* removal failed or died half-way (the cleanup of a removed friendship is *)
(* repeated by every later call).  Said of accounts that have not befriended*)
(* anew, so that the removal that answered is one of this friendship.      *)
RemovalCleansUp ==
    nfriend = 1 /\ row.status = "invalidated" /\ (\E c \in Removes : reply[c] = "removed") =>
        /\ proj["requester"] = None /\ row.requesterReminderId = None
        /\ live \cap Creates = {}

(* The request keeps the promise of SharedReminderLifecycle: it is decided   *)
(* once, only an acceptance names an invitee reminder, and nothing expires *)
(* before fireAt, whatever clock reading the expiring call works with.     *)
Lifecycle == INSTANCE SharedReminderLifecycle
    WITH Deadline <- FireAt, status <- row.status,
         granted <- row.inviteeReminderId, clock <- now

KeepsPromise == Lifecycle!LSpec

(* Every call that has begun answers, or dies. *)
CallsFinish == \A c \in Calls : pc[c] \in Statements ~> pc[c] = "done"

=============================================================================
